--------------------------- MODULE WorkerCallsProofs ---------------------------
(***************************************************************************)
(* For any number of workers, runs, resources, lanes and executor threads: *)
(* no permit of the lane gate is made up or lost but by Ctrl+C, the seam   *)
(* never holds the wrapper of a run that is over and always that of one    *)
(* that runs alone, tools on one resource run one at a time unless one     *)
(* hung, and a stale entry of the read cache was stored beside a write, or *)
(* left there by a command with a cwd.                                     *)
(*                                                                         *)
(* The four have little to do with each other, and the inductive invariant *)
(* IInv is their conjunction, each with what it needs.                     *)
(***************************************************************************)
EXTENDS WorkerCalls, FiniteSetTheorems, TLAPS

(* The types, component by component.                                       *)
LaneTypes ==
    /\ permits \in Nat /\ cut \in Nat
    /\ ticket \in [Worker -> {"none", "permit", "ungated"}]

SeamTypes ==
    /\ seam \in Run \cup {Base}
    /\ original \in [Run -> {Base, Nobody}]
    /\ peeled \in [Run -> {Base}]
    /\ phase \in [Run -> {"new", "going", "over"}]
    /\ holder \in [Run -> [Resource -> Worker \cup {Nobody}]]
    /\ overlapped \subseteq Run

CallTypes ==
    /\ at \in [Worker -> {"ready", "gate", "decode", "called", "lock", "tool", "backoff"}]
    /\ via \in [Worker -> Run \cup {Base}]
    /\ tool \in [Worker -> [on : Resource \cup {Unmanaged}, kind : Kinds, tries : 0..MaxRetries]]

ExecTypes ==
    /\ busy \in Seq(Body) /\ waiting \in Seq(Body)
    /\ Len(busy) <= Slots

CacheTypes == cache \in Entry

Types == LaneTypes /\ SeamTypes /\ CallTypes /\ ExecTypes /\ CacheTypes

(* The permits that are out, each with the request that took it.            *)
Out == {w \in Worker : ticket[w] = "permit"}

Lanes ==
    /\ \A w \in Worker : ticket[w] # "none" => at[w] = "decode"
    /\ IsFiniteSet(Out) /\ permits + Cardinality(Out) + cut = LaneLimit

(* The run whose wrapper is at the seam is going, what a run that is going  *)
(* will put back is the true run_tool, and a run that was never beside      *)
(* another has the seam to itself.                                          *)
Seams ==
    /\ SeamIsAlive
    /\ \A r \in Going \ overlapped : seam = r /\ Going = {r}
    /\ \A r \in Run : phase[r] = "going" => original[r] = Base

(* Each call has one body at most, which tells what the call does ...       *)
Apart(bodies) ==
    \A i, j \in DOMAIN bodies : bodies[i].by = bodies[j].by => i = j \/ bodies[i].by = Nobody

Work == Range(busy) \cup Range(waiting)

Tells(body) ==
    IF body.by = Nobody THEN body.lock = NoLock /\ body.kind \in {"write", "other"}
    ELSE at[body.by] = "tool" /\ body.lock = LockOf(body.by) /\ body.kind = tool[body.by].kind

Bodies ==
    /\ Apart(busy) /\ Apart(waiting)
    /\ \A b \in Range(busy), c \in Range(waiting) : b.by = c.by => b.by = Nobody
    /\ \A b \in Work : Tells(b)

(* ... and the call holds its lock, between its attempts as well.           *)
Held ==
    \A w \in Worker :
        at[w] \in {"tool", "backoff"} /\ LockOf(w) # NoLock => holder[via[w]][tool[w].on] = w

(* While a command that may write is under way, which dropped the entry as  *)
(* it began, no read can store an entry that counts as clean.               *)
CommandUnderWay ==
    \/ \E b \in Work : b.kind = "command"
    \/ \E w \in Worker : at[w] = "backoff" /\ tool[w].kind = "command"

Fresh ==
    /\ StaleOnlyIfRaced
    /\ CommandUnderWay =>
          /\ \A b \in Work : b.kind = "read" => b.raced
          /\ cache.there => cache.raced

IInv == Types /\ Lanes /\ Seams /\ Bodies /\ Held /\ Fresh

-----------------------------------------------------------------------------
LEMMA Constants ==
    /\ LaneLimit \in Nat \ {0} /\ Slots \in Nat \ {0} /\ MaxRetries \in Nat /\ Runs \in Nat
    /\ Base \notin Run /\ Nobody # Base /\ Unmanaged \notin Resource /\ Nobody \notin Worker
  BY LaneAssumption, ArbiterAssumption, CallsAssumption
  DEF LaneAssumption, ArbiterAssumption, CallsAssumption

(* Operators on sequences.                                                  *)

LEMMA AppendIs ==
    ASSUME NEW S, NEW s \in Seq(S), NEW x \in S
    PROVE  /\ Append(s, x) \in Seq(S)
           /\ Len(Append(s, x)) = Len(s) + 1 /\ DOMAIN Append(s, x) = 1..(Len(s) + 1)
           /\ \A k \in 1..Len(s) : Append(s, x)[k] = s[k]
           /\ Append(s, x)[Len(s) + 1] = x
  OBVIOUS

LEMMA RemoveAtIs ==
    ASSUME NEW S, NEW s \in Seq(S), NEW i \in DOMAIN s
    PROVE  /\ RemoveAt(s, i) \in Seq(S)
           /\ Len(RemoveAt(s, i)) = Len(s) - 1
           /\ \A k \in 1..(Len(s) - 1) :
                 RemoveAt(s, i)[k] = IF k < i THEN s[k] ELSE s[k + 1]
<1> DEFINE front == SubSeq(s, 1, i - 1)
           back == SubSeq(s, i + 1, Len(s))
<1>1. /\ front \in Seq(S) /\ Len(front) = i - 1
      /\ \A k \in 1..(i - 1) : front[k] = s[k]
  OBVIOUS
<1>2. /\ back \in Seq(S) /\ Len(back) = Len(s) - i
      /\ \A k \in 1..(Len(s) - i) : back[k] = s[i + k]
  OBVIOUS
<1> HIDE DEF front, back
<1>3. /\ front \o back \in Seq(S)
      /\ Len(front \o back) = Len(s) - 1
      /\ \A k \in 1..(Len(s) - 1) :
            (front \o back)[k] = IF k < i THEN front[k] ELSE back[k - (i - 1)]
  BY <1>1, <1>2
<1>4. RemoveAt(s, i) = front \o back
  BY DEF RemoveAt, front, back
<1>5. ASSUME NEW k \in 1..(Len(s) - 1)
      PROVE  (front \o back)[k] = IF k < i THEN s[k] ELSE s[k + 1]
  <2>1. i \in 1..Len(s)
    OBVIOUS
  <2>2. CASE k < i
    BY <1>1, <1>3, <2>1, <2>2
  <2>3. CASE ~(k < i)
    <3>1. k - (i - 1) \in 1..(Len(s) - i) /\ i + (k - (i - 1)) = k + 1
      BY <2>1, <2>3
    <3>2. back[k - (i - 1)] = s[i + (k - (i - 1))]
      BY <1>2, <3>1
    <3> QED
      BY <1>3, <2>3, <3>1, <3>2
  <2> QED
    BY <2>2, <2>3
<1> QED
  BY <1>3, <1>4, <1>5

(* A thread takes up the next body: what is under way is what was, less     *)
(* body i, and each call still has one body at most.                        *)
LEMMA TakesUpBodies ==
    ASSUME ExecTypes, NEW i, TakesUp(i, waiting), Apart(busy), Apart(waiting),
           \A b \in Range(busy), c \in Range(waiting) : b.by = c.by => b.by = Nobody
    PROVE  /\ busy[i] \in Body /\ busy[i] \in Range(busy)
           /\ ExecTypes' /\ Apart(busy)' /\ Apart(waiting)'
           /\ \A b \in Range(busy)', c \in Range(waiting)' : b.by = c.by => b.by = Nobody
           /\ Work' \subseteq Work
           /\ \A b \in Work' : b.by = busy[i].by => b.by = Nobody
<1> DEFINE rest == RemoveAt(busy, i)
<1>1. /\ i \in DOMAIN busy /\ busy \in Seq(Body) /\ DOMAIN busy = 1..Len(busy)
      /\ Len(busy) \in Nat
  BY DEF TakesUp, ExecTypes
<1>2. /\ rest \in Seq(Body) /\ Len(rest) = Len(busy) - 1 /\ DOMAIN rest = 1..(Len(busy) - 1)
      /\ \A k \in 1..(Len(busy) - 1) : rest[k] = IF k < i THEN busy[k] ELSE busy[k + 1]
  <2>1. /\ rest \in Seq(Body) /\ Len(rest) = Len(busy) - 1
        /\ \A k \in 1..(Len(busy) - 1) : rest[k] = IF k < i THEN busy[k] ELSE busy[k + 1]
    BY <1>1, RemoveAtIs
  <2> QED
    BY <2>1
<1> HIDE DEF rest
<1> DEFINE from(k) == IF k < i THEN k ELSE k + 1
<1>3. /\ \A k \in DOMAIN rest : from(k) \in DOMAIN busy /\ from(k) # i /\ rest[k] = busy[from(k)]
      /\ \A k, l \in DOMAIN rest : from(k) = from(l) => k = l
  BY <1>1, <1>2
<1>4. busy[i] \in Body /\ busy[i] \in Range(busy)
  BY <1>1 DEF Range
<1> HIDE DEF from
<1>5. Apart(rest)
  BY <1>3 DEF Apart
<1>6. \A k \in DOMAIN rest : /\ rest[k] \in Range(busy)
                             /\ rest[k].by = busy[i].by => rest[k].by = Nobody
  BY <1>1, <1>3 DEF Apart, Range
<1>7. CASE waiting = <<>>
  <2>1. busy' = rest /\ waiting' = waiting
    BY <1>7 DEF TakesUp, rest
  <2> QED
    BY <1>1, <1>2, <1>4, <1>5, <1>6, <1>7, <2>1, Constants DEF ExecTypes, Apart, Range, Work
<1>8. CASE waiting # <<>>
  <2>1. busy' = Append(rest, waiting[1]) /\ waiting' = Tail(waiting)
    BY <1>8 DEF TakesUp, rest, ExecTypes
  <2>2. waiting[1] \in Body /\ waiting[1] \in Range(waiting) /\ 1 \in DOMAIN waiting
    BY <1>8 DEF ExecTypes, Range
  <2>3. /\ busy' \in Seq(Body) /\ Len(busy') = Len(busy)
        /\ \A k \in DOMAIN busy' : \/ k \in DOMAIN rest /\ busy'[k] = rest[k]
                                   \/ k = Len(busy) /\ busy'[k] = waiting[1]
    <3> DEFINE more == Append(rest, waiting[1])
    <3>1. /\ more \in Seq(Body)
          /\ Len(more) = Len(rest) + 1 /\ DOMAIN more = 1..(Len(rest) + 1)
          /\ \A k \in 1..Len(rest) : more[k] = rest[k]
          /\ more[Len(rest) + 1] = waiting[1]
      BY <1>2, <2>2, AppendIs
    <3> HIDE DEF more
    <3>2. busy' = more
      BY <2>1 DEF more
    <3>3. Len(busy) \in Nat /\ Len(rest) = Len(busy) - 1
      BY <1>1, <1>2
    <3>4. busy' \in Seq(Body) /\ Len(busy') = Len(busy)
      BY <3>1, <3>2, <3>3
    <3>5. ASSUME NEW k \in DOMAIN busy'
          PROVE  \/ k \in DOMAIN rest /\ busy'[k] = rest[k]
                 \/ k = Len(busy) /\ busy'[k] = waiting[1]
      <4>1. k \in 1..Len(rest) \/ k = Len(busy)
        BY <3>1, <3>2, <3>3
      <4> QED
        BY <1>2, <3>1, <3>2, <3>3, <4>1
    <3> QED
      BY <3>4, <3>5
  <2>4. /\ waiting' \in Seq(Body)
        /\ \A k \in DOMAIN waiting' : k + 1 \in DOMAIN waiting /\ waiting'[k] = waiting[k + 1]
                                      /\ k \in Nat /\ k + 1 # 1
    BY <1>8, <2>1 DEF ExecTypes
  <2>5. ExecTypes'
    BY <2>3, <2>4 DEF ExecTypes
  <2>6. Apart(busy)'
    BY <1>5, <1>6, <2>2, <2>3 DEF Apart
  <2>7. \A k \in DOMAIN waiting' : /\ waiting'[k] \in Range(waiting)
                                   /\ waiting'[k].by = waiting[1].by => waiting'[k].by = Nobody
    BY <2>2, <2>4 DEF Apart, Range
  <2>8. Apart(waiting)'
    BY <2>4 DEF Apart
  <2>9. \A b \in Range(busy)' : b = waiting[1] \/ \E k \in DOMAIN rest : b = rest[k]
    BY <2>3 DEF Range
  <2>10. \A c \in Range(waiting)' : \E k \in DOMAIN waiting' : c = waiting'[k]
    BY DEF Range
  <2>11. \A b \in Range(busy)', c \in Range(waiting)' : b.by = c.by => b.by = Nobody
    BY <1>6, <2>7, <2>9, <2>10
  <2>12. Work' \subseteq Work
    BY <1>6, <2>2, <2>7, <2>9, <2>10 DEF Work
  <2>13. \A b \in Work' : b.by = busy[i].by => b.by = Nobody
    BY <1>4, <1>6, <2>2, <2>7, <2>9, <2>10 DEF Work
  <2> QED
    BY <1>4, <2>5, <2>6, <2>8, <2>11, <2>12, <2>13
<1> QED
  BY <1>7, <1>8

-----------------------------------------------------------------------------
(* What happens to the bodies that are under way.                           *)

LEMMA BodyIs ==
    ASSUME NEW b \in Body
    PROVE  /\ b.by \in Worker \cup {Nobody} /\ b.lock \in (Run \X Resource) \cup {NoLock}
           /\ b.kind \in Kinds /\ b.raced \in BOOLEAN
  BY DEF Body

LEMMA OvertakenIs ==
    ASSUME NEW s \in Seq(Body)
    PROVE  /\ Overtaken(s) \in Seq(Body) /\ DOMAIN Overtaken(s) = DOMAIN s
           /\ Len(Overtaken(s)) = Len(s)
           /\ \A i \in DOMAIN s :
                 LET b == Overtaken(s)[i]
                 IN  /\ b.by = s[i].by /\ b.lock = s[i].lock /\ b.kind = s[i].kind
                     /\ s[i].raced \/ b.kind = "read" => b.raced
<1> DEFINE f(i) == [s[i] EXCEPT !.raced = @ \/ s[i].kind = "read"]
<1>1. ASSUME NEW i \in DOMAIN s
      PROVE  /\ f(i) \in Body
             /\ f(i).by = s[i].by /\ f(i).lock = s[i].lock /\ f(i).kind = s[i].kind
             /\ s[i].raced \/ f(i).kind = "read" => f(i).raced
  <2>1. s[i] \in Body
    OBVIOUS
  <2>2. (s[i].raced \/ s[i].kind = "read") \in BOOLEAN
    OBVIOUS
  <2> QED
    BY <2>1, <2>2 DEF Body
<1>2. Overtaken(s) = [i \in DOMAIN s |-> f(i)]
  BY DEF Overtaken
<1> HIDE DEF f
<1>3. Overtaken(s) \in Seq(Body) /\ Len(Overtaken(s)) = Len(s)
  BY <1>1, <1>2
<1> QED
  BY <1>1, <1>2, <1>3

LEMMA GivenUpIs ==
    ASSUME NEW s \in Seq(Body), NEW w \in Worker
    PROVE  /\ GivenUp(s, w) \in Seq(Body) /\ DOMAIN GivenUp(s, w) = DOMAIN s
           /\ Len(GivenUp(s, w)) = Len(s)
           /\ \A i \in DOMAIN s :
                 LET b == GivenUp(s, w)[i]
                 IN  IF s[i].by # w THEN b = s[i]
                     ELSE b.by = Nobody /\ b.lock = NoLock /\ b.kind \in {"write", "other"}
<1>1. ASSUME NEW i \in DOMAIN s
      PROVE  [by |-> Nobody, lock |-> NoLock, raced |-> FALSE,
              kind |-> IF Writes(s[i]) THEN "write" ELSE "other"] \in Body
  BY DEF Body, Kinds
<1> QED
  BY <1>1 DEF GivenUp

LEMMA ApartAppend ==
    ASSUME NEW s \in Seq(Body), NEW b \in Body, Apart(s), \A i \in DOMAIN s : s[i].by # b.by
    PROVE  Apart(Append(s, b))
<1> DEFINE more == Append(s, b)
<1>1. /\ DOMAIN more = 1..(Len(s) + 1) /\ DOMAIN s = 1..Len(s) /\ Len(s) \in Nat
      /\ \A k \in 1..Len(s) : more[k] = s[k]
      /\ more[Len(s) + 1] = b
  BY AppendIs
<1> HIDE DEF more
<1>2. \A k \in DOMAIN more : k \in DOMAIN s \/ k = Len(s) + 1
  BY <1>1
<1>3. Apart(more)
  BY <1>1, <1>2 DEF Apart
<1> QED
  BY <1>3 DEF more

LEMMA RangeAppend ==
    ASSUME NEW s \in Seq(Body), NEW b \in Body
    PROVE  Range(Append(s, b)) = Range(s) \cup {b}
<1> DEFINE more == Append(s, b)
<1>1. /\ DOMAIN more = 1..(Len(s) + 1) /\ DOMAIN s = 1..Len(s) /\ Len(s) \in Nat
      /\ \A k \in 1..Len(s) : more[k] = s[k]
      /\ more[Len(s) + 1] = b
  BY AppendIs
<1> HIDE DEF more
<1>2. \A k \in DOMAIN more : k \in DOMAIN s \/ k = Len(s) + 1
  BY <1>1
<1>3. Range(more) = Range(s) \cup {b}
  BY <1>1, <1>2 DEF Range
<1> QED
  BY <1>3 DEF more

(* The body that Submit(w) hands to the executor.                           *)
BodyOf(w) ==
    [by |-> w, lock |-> LockOf(w), kind |-> tool[w].kind,
     raced |-> tool[w].kind = "read" /\ WriteUnderWay]

LEMMA BodyOfIs ==
    ASSUME CallTypes, NEW w \in Worker
    PROVE  BodyOf(w) \in Body
<1>1. LockOf(w) \in (Run \X Resource) \cup {NoLock}
  BY Constants DEF LockOf, CallTypes
<1>2. tool[w].kind \in Kinds
  BY DEF CallTypes
<1>3. (tool[w].kind = "read" /\ WriteUnderWay) \in BOOLEAN
  OBVIOUS
<1> QED
  BY <1>1, <1>2, <1>3 DEF BodyOf, Body

(* A body is handed over: there is one more, of w, and the others are what  *)
(* they were, except that a write overtakes the reads.                      *)
LEMMA SubmitBodies ==
    ASSUME Types, Bodies, NEW w \in Worker, at[w] # "tool", Submit(w)
    PROVE  /\ ExecTypes' /\ Apart(busy)' /\ Apart(waiting)'
           /\ \A b \in Range(busy)', c \in Range(waiting)' : b.by = c.by => b.by = Nobody
           /\ \A b \in Work' :
                 \/ b = BodyOf(w)
                 \/ \E c \in Work :
                       /\ b.by = c.by /\ b.lock = c.lock /\ b.kind = c.kind
                       /\ c.raced \/ (Writes(BodyOf(w)) /\ b.kind = "read") => b.raced
<1> DEFINE late(s) == IF Writes(BodyOf(w)) THEN Overtaken(s) ELSE s
<1>1. BodyOf(w) \in Body /\ BodyOf(w).by = w
  BY BodyOfIs DEF Types, BodyOf
<1>2. busy \in Seq(Body) /\ waiting \in Seq(Body) /\ Len(busy) <= Slots
  BY DEF Types, ExecTypes
<1>3. ASSUME NEW s \in Seq(Body)
      PROVE  /\ late(s) \in Seq(Body) /\ DOMAIN late(s) = DOMAIN s /\ Len(late(s)) = Len(s)
             /\ \A i \in DOMAIN s :
                   /\ late(s)[i].by = s[i].by /\ late(s)[i].lock = s[i].lock
                   /\ late(s)[i].kind = s[i].kind
                   /\ s[i].raced \/ (Writes(BodyOf(w)) /\ late(s)[i].kind = "read")
                         => late(s)[i].raced
  BY <1>3, OvertakenIs
<1> DEFINE lb == late(busy)
           lw == late(waiting)
<1>4. IF Len(busy) < Slots THEN busy' = Append(lb, BodyOf(w)) /\ waiting' = lw
      ELSE busy' = lb /\ waiting' = Append(lw, BodyOf(w))
  BY DEF Submit, BodyOf
<1>5. /\ lb \in Seq(Body) /\ DOMAIN lb = DOMAIN busy /\ Len(lb) = Len(busy)
      /\ lw \in Seq(Body) /\ DOMAIN lw = DOMAIN waiting /\ Len(lw) = Len(waiting)
      /\ \A i \in DOMAIN busy : lb[i].by = busy[i].by
      /\ \A i \in DOMAIN waiting : lw[i].by = waiting[i].by
  BY <1>2, <1>3
<1>6. \A b \in Range(lb) \cup Range(lw) :
         \E c \in Work :
            /\ b.by = c.by /\ b.lock = c.lock /\ b.kind = c.kind
            /\ c.raced \/ (Writes(BodyOf(w)) /\ b.kind = "read") => b.raced
  BY <1>2, <1>3, <1>5 DEF Range, Work
<1>7. \A b \in Range(lb), c \in Range(lw) : b.by = c.by => b.by = Nobody
  BY <1>5 DEF Range, Bodies
<1> HIDE DEF lb, lw, late
<1>8. Apart(lb) /\ Apart(lw)
  BY <1>5 DEF Apart, Bodies
<1>9. \A c \in Work : c.by # w
  BY Constants DEF Bodies, Tells
<1>10. /\ \A i \in DOMAIN lb : lb[i].by # w
       /\ \A i \in DOMAIN lw : lw[i].by # w
       /\ \A b \in Range(lb) \cup Range(lw) : b.by # w
  BY <1>6, <1>9 DEF Range
<1>11. CASE Len(busy) < Slots
  <2>1. busy' = Append(lb, BodyOf(w)) /\ waiting' = lw
    BY <1>4, <1>11
  <2>2. busy' \in Seq(Body) /\ Len(busy') = Len(busy) + 1
    BY <1>1, <1>5, <2>1, AppendIs
  <2>3. Range(busy)' = Range(lb) \cup {BodyOf(w)} /\ Range(waiting)' = Range(lw)
    BY <1>1, <1>5, <2>1, RangeAppend
  <2>4. Apart(busy)' /\ Apart(waiting)'
    BY <1>1, <1>5, <1>8, <1>10, <2>1, ApartAppend
  <2>5. ExecTypes'
    BY <1>2, <1>5, <1>11, <2>1, <2>2, Constants DEF ExecTypes
  <2> QED
    BY <1>1, <1>6, <1>7, <1>10, <2>3, <2>4, <2>5 DEF Work
<1>12. CASE ~(Len(busy) < Slots)
  <2>1. busy' = lb /\ waiting' = Append(lw, BodyOf(w))
    BY <1>4, <1>12
  <2>2. waiting' \in Seq(Body)
    BY <1>1, <1>5, <2>1, AppendIs
  <2>3. Range(waiting)' = Range(lw) \cup {BodyOf(w)} /\ Range(busy)' = Range(lb)
    BY <1>1, <1>5, <2>1, RangeAppend
  <2>4. Apart(busy)' /\ Apart(waiting)'
    BY <1>1, <1>5, <1>8, <1>10, <2>1, ApartAppend
  <2>5. ExecTypes'
    BY <1>2, <1>5, <2>1, <2>2 DEF ExecTypes
  <2> QED
    BY <1>1, <1>6, <1>7, <1>10, <2>3, <2>4, <2>5 DEF Work
<1> QED
  BY <1>11, <1>12

-----------------------------------------------------------------------------
LEMMA InitIInv == Init => IInv
<1> SUFFICES ASSUME Init PROVE IInv
  OBVIOUS
<1> USE Constants DEF Init, LaneInit, ArbiterInit
<1>1. Types
  <2>1. LaneTypes
    BY DEF LaneTypes
  <2>2. SeamTypes
    BY DEF SeamTypes
  <2>3. CallTypes
    BY DEF CallTypes, NoCall, Kinds
  <2>4. ExecTypes /\ CacheTypes
    BY DEF ExecTypes, CacheTypes, Entry, NoEntry
  <2> QED
    BY <2>1, <2>2, <2>3, <2>4 DEF Types
<1>2. Lanes
  <2>1. Out = {}
    BY DEF Out
  <2> QED
    BY <2>1, FS_EmptySet DEF Lanes
<1>3. Seams
  BY DEF Seams, SeamIsAlive, Going
<1>4. Work = {} /\ Apart(busy) /\ Apart(waiting)
  BY DEF Work, Range, Apart
<1>5. Bodies
  BY <1>4 DEF Bodies, Work
<1>6. Held
  BY DEF Held
<1>7. Fresh
  BY <1>4 DEF Fresh, StaleOnlyIfRaced, CommandUnderWay, NoEntry
<1> QED
  BY <1>1, <1>2, <1>3, <1>5, <1>6, <1>7 DEF IInv

-----------------------------------------------------------------------------
(* The gate: a permit is taken by a request that had no ticket, and given   *)
(* back by the one that has it.                                             *)

LEMMA EnterLanes ==
    ASSUME Types, Lanes, NEW w \in Worker, Enter(w)
    PROVE  LaneTypes' /\ Lanes'
<1>1. ticket[w] = "none" /\ w \notin Out
  BY DEF Enter, Lanes, Out
<1>2. at' = [at EXCEPT ![w] = "decode"]
  BY DEF Enter, Move
<1>3. CASE Admit(w)
  <2>1. /\ permits' = permits - 1 /\ permits > 0 /\ permits \in Nat
        /\ ticket' = [ticket EXCEPT ![w] = "permit"]
    BY <1>3 DEF Admit, Types, LaneTypes
  <2>2. Out' = Out \cup {w}
    BY <2>1 DEF Out, Types, LaneTypes
  <2>3. IsFiniteSet(Out') /\ Cardinality(Out') = Cardinality(Out) + 1
    BY <1>1, <2>2, FS_AddElement DEF Lanes
  <2>4. Cardinality(Out) \in Nat
    BY FS_CardinalityType DEF Lanes
  <2>5. permits' + Cardinality(Out') + cut' = LaneLimit
    BY <1>3, <2>1, <2>3, <2>4 DEF Lanes, Admit, Types, LaneTypes
  <2>6. \A v \in Worker : ticket'[v] # "none" => at'[v] = "decode"
    BY <1>2, <2>1 DEF Types, LaneTypes, CallTypes, Lanes
  <2>7. LaneTypes'
    BY <1>3, <2>1 DEF Types, LaneTypes, Admit
  <2> QED
    BY <2>3, <2>5, <2>6, <2>7 DEF Lanes
<1>4. CASE AdmitUngated(w)
  <2>1. permits' = permits /\ cut' = cut /\ ticket' = [ticket EXCEPT ![w] = "ungated"]
    BY <1>4 DEF AdmitUngated
  <2>2. Out' = Out
    BY <1>1, <2>1 DEF Out, Types, LaneTypes
  <2>3. \A v \in Worker : ticket'[v] # "none" => at'[v] = "decode"
    BY <1>2, <2>1 DEF Types, LaneTypes, CallTypes, Lanes
  <2> QED
    BY <2>1, <2>2, <2>3 DEF Types, LaneTypes, Lanes
<1> QED
  BY <1>3, <1>4 DEF Enter

LEMMA DecodedLanes ==
    ASSUME Types, Lanes, NEW w \in Worker, Decoded(w)
    PROVE  LaneTypes' /\ Lanes'
<1>1. /\ \/ /\ permits' = IF ticket[w] = "permit" THEN permits + 1 ELSE permits
            /\ cut' = cut
         \/ /\ cut' = IF ticket[w] = "permit" THEN cut + 1 ELSE cut
            /\ permits' = permits
      /\ ticket' = [ticket EXCEPT ![w] = "none"]
      /\ at' = [at EXCEPT ![w] = "ready"]
  BY DEF Decoded, ReleaseTicket, Abandon, Move
<1>2. Out' = Out \ {w} /\ (w \in Out <=> ticket[w] = "permit")
  BY <1>1 DEF Out, Types, LaneTypes
<1>3. /\ IsFiniteSet(Out')
      /\ Cardinality(Out') = IF w \in Out THEN Cardinality(Out) - 1 ELSE Cardinality(Out)
  BY <1>2, FS_RemoveElement DEF Lanes
<1>4. Cardinality(Out) \in Nat
  BY FS_CardinalityType DEF Lanes
<1>5. permits' + Cardinality(Out') + cut' = LaneLimit
  BY <1>1, <1>2, <1>3, <1>4 DEF Lanes, Types, LaneTypes
<1>6. \A v \in Worker : ticket'[v] # "none" => at'[v] = "decode"
  BY <1>1 DEF Types, LaneTypes, CallTypes, Lanes
<1>7. LaneTypes'
  BY <1>1 DEF Types, LaneTypes
<1> QED
  BY <1>3, <1>5, <1>6, <1>7 DEF Lanes

(* The rest of the program neither takes permits nor leaves a request.      *)
LEMMA OtherLanes ==
    ASSUME Types, Lanes, UNCHANGED laneVars,
           \A w \in Worker : at[w] = "decode" => at'[w] = "decode"
    PROVE  LaneTypes' /\ Lanes'
<1>1. Out' = Out
  BY DEF Out, laneVars
<1> QED
  BY <1>1 DEF Types, LaneTypes, Lanes, laneVars

-----------------------------------------------------------------------------
(* The seam.                                                                *)

LEMMA InstallSeams ==
    ASSUME Types, Seams, NEW r \in Run, Install(r)
    PROVE  SeamTypes' /\ Seams'
<1>1. /\ phase[r] = "new" /\ phase' = [phase EXCEPT ![r] = "going"]
      /\ seam' = r /\ holder' = holder
  BY DEF Install, NextToStart
<1>2. original' = [original EXCEPT ![r] = Base] /\ peeled' = [peeled EXCEPT ![r] = Base]
  BY DEF Install, Types, SeamTypes
<1>3. Going' = Going \cup {r}
  BY <1>1 DEF Going, Types, SeamTypes
<1>4. overlapped' = IF Going = {} THEN overlapped ELSE overlapped \cup Going \cup {r}
  BY DEF Install
<1>5. overlapped' \subseteq Run
  BY <1>4 DEF Types, SeamTypes, Going
<1>6. \A q \in (Going \ overlapped)' : seam' = q /\ Going' = {q}
  BY <1>1, <1>3, <1>4
<1>7. SeamTypes'
  BY <1>1, <1>2, <1>5 DEF Types, SeamTypes
<1> QED
  BY <1>1, <1>2, <1>6, <1>7 DEF Types, SeamTypes, Seams, SeamIsAlive

LEMMA UninstallSeams ==
    ASSUME Types, Seams, NEW r \in Run, Uninstall(r)
    PROVE  SeamTypes' /\ Seams'
<1>1. /\ phase[r] = "going" /\ phase' = [phase EXCEPT ![r] = "over"]
      /\ peeled' = peeled /\ holder' = holder /\ overlapped' = overlapped
  BY DEF Uninstall
<1>2. original[r] = Base
  BY <1>1 DEF Seams
<1>3. seam' = Base /\ (original' = original \/ original' = [original EXCEPT ![r] = Nobody])
  BY <1>2 DEF Uninstall
<1>4. Going' = Going \ {r} /\ r \in Going
  BY <1>1 DEF Going, Types, SeamTypes
<1>5. (Going \ overlapped)' = {}
  <2> SUFFICES ASSUME NEW q \in Going \ overlapped, q # r PROVE FALSE
    BY <1>1, <1>4
  <2> QED
    BY <1>4 DEF Seams
<1>6. SeamTypes'
  BY <1>1, <1>3, Constants DEF Types, SeamTypes
<1> QED
  BY <1>1, <1>3, <1>5, <1>6, Constants DEF Types, SeamTypes, Seams, SeamIsAlive

-----------------------------------------------------------------------------
(* The types of what a worker is doing.                                     *)

LEMMA MoveTypes ==
    ASSUME CallTypes, NEW w \in Worker,
           NEW there \in {"ready", "gate", "decode", "called", "lock", "tool", "backoff"},
           Move(w, there)
    PROVE  /\ at' \in [Worker -> {"ready", "gate", "decode", "called", "lock", "tool", "backoff"}]
           /\ at'[w] = there /\ \A v \in Worker \ {w} : at'[v] = at[v]
  BY DEF CallTypes, Move

LEMMA ReturnedCall ==
    ASSUME CallTypes, NEW w \in Worker, Returned(w)
    PROVE  /\ CallTypes' /\ at'[w] = "ready"
           /\ \A v \in Worker \ {w} : at'[v] = at[v] /\ LockOf(v)' = LockOf(v) /\ tool'[v] = tool[v]
                                      /\ via'[v] = via[v]
<1>1. /\ at' = [at EXCEPT ![w] = "ready"] /\ via' = [via EXCEPT ![w] = Base]
      /\ tool' = [tool EXCEPT ![w] = NoCall]
  BY DEF Returned, Move
<1>2. NoCall \in [on : Resource \cup {Unmanaged}, kind : Kinds, tries : 0..MaxRetries]
  BY Constants DEF NoCall, Kinds
<1>3. CallTypes'
  BY <1>1, <1>2 DEF CallTypes
<1> QED
  BY <1>1, <1>3 DEF CallTypes, LockOf

LEMMA WorkTypes == ASSUME ExecTypes PROVE Work \subseteq Body
<1>1. \A i \in DOMAIN busy : busy[i] \in Body
  BY DEF ExecTypes
<1>2. \A i \in DOMAIN waiting : waiting[i] \in Body
  BY DEF ExecTypes
<1> QED
  BY <1>1, <1>2 DEF Work, Range

(* Steps that leave the bodies, the locks and the cache alone, of a call    *)
(* that has none of them.                                                   *)
LEMMA OtherBodies ==
    ASSUME Types, Bodies, Held, Fresh, UNCHANGED <<execVars, holder, cache>>, NEW w \in Worker,
           at[w] \notin {"tool", "backoff"}, at'[w] \notin {"tool", "backoff"},
           \A v \in Worker \ {w} : at'[v] = at[v] /\ via'[v] = via[v] /\ tool'[v] = tool[v]
    PROVE  ExecTypes' /\ CacheTypes' /\ Bodies' /\ Held' /\ Fresh'
<1>1. busy' = busy /\ waiting' = waiting /\ Work' = Work /\ cache' = cache
  BY DEF execVars, Work
<1>2. \A v \in Worker \ {w} : LockOf(v)' = LockOf(v)
  BY DEF LockOf
<1>3. ASSUME NEW b \in Work PROVE Tells(b)'
  <2>1. b.by \in Worker \cup {Nobody} /\ Tells(b)
    BY WorkTypes, BodyIs DEF Types, Bodies
  <2> QED
    BY <1>2, <2>1 DEF Tells
<1>4. Bodies'
  BY <1>1, <1>3 DEF Bodies, Apart
<1>5. Held'
  BY <1>2 DEF Held
<1>6. CommandUnderWay' => CommandUnderWay
  BY <1>1 DEF CommandUnderWay
<1>7. Fresh'
  BY <1>1, <1>6 DEF Fresh, StaleOnlyIfRaced
<1> QED
  BY <1>1, <1>4, <1>5, <1>7 DEF Types, ExecTypes, CacheTypes

(* A body is submitted, by a call that has its lock by then: a command      *)
(* overtakes the reads and dropped the entry when it began.                 *)
LEMMA SubmitStep ==
    ASSUME Types, Bodies, Held, Fresh, NEW w \in Worker, Submit(w),
           at[w] \in {"called", "lock", "backoff"}, tool' = tool,
           cache' = IF tool[w].kind = "command" /\ at[w] # "backoff" THEN NoEntry ELSE cache,
           LockOf(w) # NoLock => holder'[via[w]][tool[w].on] = w,
           \A r \in Run, x \in Resource : holder[r][x] # Nobody => holder'[r][x] = holder[r][x]
    PROVE  CallTypes' /\ ExecTypes' /\ CacheTypes' /\ Bodies' /\ Held' /\ Fresh'
<1>1. at' = [at EXCEPT ![w] = "tool"] /\ via' = via
  BY DEF Submit, Move
<1>2. /\ at'[w] = "tool" /\ \A v \in Worker \ {w} : at'[v] = at[v]
      /\ CallTypes'
  BY <1>1 DEF Types, CallTypes
<1>3. \A v \in Worker : LockOf(v)' = LockOf(v)
  BY <1>1 DEF LockOf
<1>4. /\ ExecTypes' /\ Apart(busy)' /\ Apart(waiting)'
      /\ \A b \in Range(busy)', c \in Range(waiting)' : b.by = c.by => b.by = Nobody
  BY SubmitBodies
<1>5. ASSUME NEW b \in Work'
      PROVE  \/ b = BodyOf(w)
             \/ \E c \in Work :
                   /\ b.by = c.by /\ b.lock = c.lock /\ b.kind = c.kind
                   /\ c.raced \/ (Writes(BodyOf(w)) /\ b.kind = "read") => b.raced
  BY SubmitBodies
<1>6. /\ BodyOf(w).by = w /\ BodyOf(w).lock = LockOf(w) /\ BodyOf(w).kind = tool[w].kind
      /\ BodyOf(w).raced = (tool[w].kind = "read" /\ WriteUnderWay)
  BY DEF BodyOf
<1>7. Bodies'
  <2>1. ASSUME NEW c \in Work PROVE c.by # w /\ Tells(c) /\ c.by \in Worker \cup {Nobody}
    BY WorkTypes, BodyIs, Constants DEF Types, Bodies, Tells
  <2>2. ASSUME NEW b \in Work' PROVE Tells(b)'
    <3>1. CASE b = BodyOf(w)
      BY <1>2, <1>3, <1>6, <3>1, Constants DEF Tells
    <3>2. CASE b # BodyOf(w)
      <4>1. PICK c \in Work : b.by = c.by /\ b.lock = c.lock /\ b.kind = c.kind
        BY <1>5, <3>2
      <4> QED
        BY <1>2, <1>3, <2>1, <4>1 DEF Tells
    <3> QED
      BY <3>1, <3>2
  <2> QED
    BY <1>4, <2>2 DEF Bodies
<1>8. Held'
  <2> SUFFICES ASSUME NEW v \in Worker, at'[v] \in {"tool", "backoff"}, LockOf(v) # NoLock
               PROVE  holder'[via[v]][tool[v].on] = v
    BY <1>1, <1>3 DEF Held
  <2>1. CASE v = w
    BY <2>1
  <2>2. CASE v # w
    <3>1. holder[via[v]][tool[v].on] = v
      BY <1>2, <2>2 DEF Held
    <3>2. via[v] \in Run /\ tool[v].on \in Resource
      BY DEF LockOf, Types, CallTypes
    <3> QED
      BY <3>1, <3>2, Constants
  <2> QED
    BY <2>1, <2>2
<1>9. CacheTypes' /\ StaleOnlyIfRaced'
  BY DEF Types, CacheTypes, Entry, NoEntry, Fresh, StaleOnlyIfRaced
<1>10. ASSUME CommandUnderWay'
       PROVE  /\ \A b \in Work' : b.kind = "read" => b.raced
              /\ cache'.there => cache'.raced
  <2>1. CASE tool[w].kind = "command"
    <3>1. Writes(BodyOf(w)) /\ BodyOf(w).kind # "read"
      BY <1>6, <2>1 DEF Writes
    <3>2. at[w] = "backoff" => CommandUnderWay
      BY <2>1 DEF CommandUnderWay
    <3>3. cache'.there => cache'.raced
      BY <2>1, <3>2 DEF Fresh, NoEntry
    <3> QED
      BY <1>5, <3>1, <3>3
  <2>2. CASE tool[w].kind # "command"
    <3>1. CommandUnderWay
      <4>1. CASE \E b \in Work' : b.kind = "command"
        BY <1>5, <1>6, <2>2, <4>1 DEF CommandUnderWay
      <4>2. CASE \E v \in Worker : at'[v] = "backoff" /\ tool'[v].kind = "command"
        BY <1>2, <4>2 DEF CommandUnderWay
      <4> QED
        BY <1>10, <4>1, <4>2 DEF CommandUnderWay
    <3>2. WriteUnderWay
      BY <3>1 DEF CommandUnderWay, WriteUnderWay, Writes, Work
    <3>3. cache' = cache
      BY <2>2
    <3>4. ASSUME NEW b \in Work', b.kind = "read" PROVE b.raced
      <4>1. CASE b = BodyOf(w)
        <5>1. tool[w].kind = "read"
          BY <1>6, <3>4, <4>1
        <5>2. BodyOf(w).raced
          BY <1>6, <3>2, <5>1
        <5> QED
          BY <4>1, <5>2
      <4>2. CASE b # BodyOf(w)
        BY <1>5, <3>1, <3>4, <4>2 DEF Fresh
      <4> QED
        BY <4>1, <4>2
    <3> QED
      BY <3>1, <3>3, <3>4 DEF Fresh
  <2> QED
    BY <2>1, <2>2
<1>11. Fresh'
  BY <1>9, <1>10 DEF Fresh
<1> QED
  BY <1>2, <1>4, <1>7, <1>8, <1>9, <1>11

(* A call is given up: its body is nobody's, and its lock is free.          *)
LEMMA TimesOutStep ==
    ASSUME Types, Bodies, Held, Fresh, NEW w \in Worker, TimesOut(w)
    PROVE  SeamTypes' /\ CallTypes' /\ ExecTypes' /\ CacheTypes' /\ Bodies' /\ Held' /\ Fresh'
<1>1. /\ at[w] = "tool" /\ Returned(w)
      /\ busy' = GivenUp(busy, w) /\ waiting' = GivenUp(waiting, w) /\ holder' = Unlocked(w)
      /\ cache' = IF Writes(tool[w]) THEN OvertakenEntry ELSE cache
      /\ UNCHANGED <<seam, original, peeled, phase, overlapped>>
  BY DEF TimesOut
<1>2. /\ CallTypes' /\ at'[w] = "ready"
      /\ \A v \in Worker \ {w} : at'[v] = at[v] /\ LockOf(v)' = LockOf(v) /\ tool'[v] = tool[v]
                                 /\ via'[v] = via[v]
  BY <1>1, ReturnedCall DEF Types
<1>3. /\ busy' \in Seq(Body) /\ DOMAIN busy' = DOMAIN busy /\ Len(busy') = Len(busy)
      /\ \A i \in DOMAIN busy :
            IF busy[i].by # w THEN busy'[i] = busy[i]
            ELSE busy'[i].by = Nobody /\ busy'[i].lock = NoLock
                 /\ busy'[i].kind \in {"write", "other"}
  BY <1>1, GivenUpIs DEF Types, ExecTypes
<1>4. /\ waiting' \in Seq(Body) /\ DOMAIN waiting' = DOMAIN waiting
      /\ \A i \in DOMAIN waiting :
            IF waiting[i].by # w THEN waiting'[i] = waiting[i]
            ELSE waiting'[i].by = Nobody /\ waiting'[i].lock = NoLock
                 /\ waiting'[i].kind \in {"write", "other"}
  BY <1>1, GivenUpIs DEF Types, ExecTypes
<1>5. ExecTypes'
  BY <1>3, <1>4 DEF Types, ExecTypes
<1>6. ASSUME NEW b \in Work'
      PROVE  \/ b \in Work /\ b.by # w
             \/ b.by = Nobody /\ b.lock = NoLock /\ b.kind \in {"write", "other"}
  BY <1>3, <1>4 DEF Work, Range
<1>7. Bodies'
  <2>1. Apart(busy)' /\ Apart(waiting)'
    BY <1>3, <1>4 DEF Bodies, Apart
  <2>2. \A b \in Range(busy)', c \in Range(waiting)' : b.by = c.by => b.by = Nobody
    BY <1>3, <1>4 DEF Bodies, Range
  <2>3. ASSUME NEW b \in Work' PROVE Tells(b)'
    <3>1. CASE b \in Work /\ b.by # w
      <4>1. b.by \in Worker \cup {Nobody} /\ Tells(b)
        BY <3>1, WorkTypes, BodyIs DEF Types, Bodies
      <4> QED
        BY <1>2, <3>1, <4>1 DEF Tells
    <3>2. CASE b.by = Nobody /\ b.lock = NoLock /\ b.kind \in {"write", "other"}
      BY <3>2 DEF Tells
    <3> QED
      BY <1>6, <3>1, <3>2
  <2> QED
    BY <2>1, <2>2, <2>3 DEF Bodies
<1>8. SeamTypes'
  BY <1>1 DEF Types, SeamTypes, Unlocked
<1>9. Held'
  <2> SUFFICES ASSUME NEW v \in Worker, at'[v] \in {"tool", "backoff"}, LockOf(v)' # NoLock
               PROVE  holder'[via'[v]][tool'[v].on] = v
    BY DEF Held
  <2>1. v # w
    BY <1>2
  <2>2. holder[via[v]][tool[v].on] = v
    BY <1>2, <2>1 DEF Held
  <2>3. via[v] \in Run /\ tool[v].on \in Resource
    BY <1>2, <2>1 DEF LockOf, Types, CallTypes
  <2> QED
    BY <1>1, <1>2, <2>1, <2>2, <2>3 DEF Unlocked
<1>10. CacheTypes' /\ StaleOnlyIfRaced'
  BY <1>1 DEF Types, CacheTypes, Entry, OvertakenEntry, Fresh, StaleOnlyIfRaced
<1>11. CommandUnderWay' => CommandUnderWay
  BY <1>2, <1>6 DEF CommandUnderWay
<1>12. CommandUnderWay' => (cache'.there => cache'.raced)
  BY <1>1, <1>11 DEF Fresh, OvertakenEntry
<1>13. CommandUnderWay' => \A b \in Work' : b.kind = "read" => b.raced
  BY <1>6, <1>11 DEF Fresh
<1> QED
  BY <1>2, <1>5, <1>7, <1>8, <1>9, <1>10, <1>12, <1>13 DEF Fresh

(* A body is done with: the next one is taken up.                           *)
LEMMA TakenUp ==
    ASSUME Types, Bodies, NEW i, TakesUp(i, waiting)
    PROVE  /\ busy[i] \in Body /\ busy[i] \in Work /\ Tells(busy[i])
           /\ ExecTypes' /\ Apart(busy)' /\ Apart(waiting)'
           /\ \A b \in Range(busy)', c \in Range(waiting)' : b.by = c.by => b.by = Nobody
           /\ \A b \in Work' : b \in Work /\ b \in Body /\ Tells(b)
                               /\ (b.by = busy[i].by => b.by = Nobody)
  BY TakesUpBodies, WorkTypes DEF Types, Bodies, Work

(* The attempt failed: the call keeps its lock and will try again.          *)
LEMMA RaisesStep ==
    ASSUME Types, Bodies, Held, Fresh, NEW i, Raises(i)
    PROVE  /\ CallTypes' /\ ExecTypes' /\ Bodies' /\ Held' /\ Fresh'
           /\ \A v \in Worker : at[v] = "decode" => at'[v] = "decode"
<1> DEFINE w == busy[i].by
<1>1. /\ TakesUp(i, waiting) /\ w # Nobody /\ tool[w].tries < MaxRetries
      /\ tool' = [tool EXCEPT ![w].tries = @ + 1] /\ at' = [at EXCEPT ![w] = "backoff"]
      /\ via' = via /\ holder' = holder /\ cache' = cache
  BY DEF Raises, Move, arbiterVars
<1>2. /\ busy[i] \in Body /\ busy[i] \in Work /\ Tells(busy[i])
      /\ ExecTypes' /\ Apart(busy)' /\ Apart(waiting)'
      /\ \A b \in Range(busy)', c \in Range(waiting)' : b.by = c.by => b.by = Nobody
  BY <1>1, TakenUp
<1>3. \A b \in Work' : b \in Work /\ b \in Body /\ Tells(b) /\ (b.by = w => b.by = Nobody)
  BY <1>1, TakenUp
<1>4. /\ w \in Worker /\ at[w] = "tool" /\ busy[i].lock = LockOf(w)
      /\ busy[i].kind = tool[w].kind
  BY <1>1, <1>2, BodyIs DEF Tells
<1> HIDE DEF w
<1>5. /\ CallTypes' /\ at'[w] = "backoff"
      /\ \A v \in Worker \ {w} : at'[v] = at[v]
      /\ \A v \in Worker : tool'[v].on = tool[v].on /\ tool'[v].kind = tool[v].kind
  <2>1. [tool[w] EXCEPT !.tries = @ + 1]
            \in [on : Resource \cup {Unmanaged}, kind : Kinds, tries : 0..MaxRetries]
    BY <1>1, <1>4, Constants DEF Types, CallTypes
  <2> QED
    BY <1>1, <1>4, <2>1 DEF Types, CallTypes
<1>6. \A v \in Worker : LockOf(v)' = LockOf(v)
  BY <1>1, <1>5 DEF LockOf
<1>7. ASSUME NEW b \in Work' PROVE Tells(b)'
  BY <1>3, <1>5, <1>6, BodyIs DEF Tells
<1>8. Bodies'
  BY <1>2, <1>7 DEF Bodies
<1>9. Held'
  BY <1>1, <1>4, <1>5, <1>6 DEF Held
<1>10. CommandUnderWay' => CommandUnderWay
  BY <1>2, <1>3, <1>4, <1>5 DEF CommandUnderWay
<1>11. Fresh'
  BY <1>1, <1>3, <1>10 DEF Fresh, StaleOnlyIfRaced
<1> QED
  BY <1>2, <1>4, <1>5, <1>8, <1>9, <1>11

(* The tool is done: what the cache is told of it is clean only if nothing  *)
(* that writes was under way.                                               *)
LEMMA StoredIs ==
    ASSUME CacheTypes, StaleOnlyIfRaced, NEW b \in Body, NEW ok \in BOOLEAN,
           b.kind = "command" => (cache.there => cache.raced)
    PROVE  LET c == Stored(b, ok)
           IN  /\ c \in Entry
               /\ c.there /\ ~c.so => c.raced \/ c.left
               /\ (cache.there => cache.raced) /\ (b.kind = "read" => b.raced)
                      => (c.there => c.raced)
<1> USE DEF CacheTypes, StaleOnlyIfRaced, Stored, Entry, EntryOf, NoEntry, OvertakenEntry
<1>1. CASE b.kind = "read" /\ ok
  BY <1>1, BodyIs
<1>2. CASE b.kind = "write"
  BY <1>2
<1>3. CASE b.kind = "command"
  BY <1>3
<1>4. CASE b.kind = "elsewhere"
  BY <1>4
<1>5. CASE b.kind = "other" \/ (b.kind = "read" /\ ~ok)
  BY <1>5
<1> QED
  BY <1>1, <1>2, <1>3, <1>4, <1>5, BodyIs DEF Kinds

LEMMA BodyEndsStep ==
    ASSUME Types, Bodies, Held, Fresh, NEW i, NEW ok \in BOOLEAN, BodyEnds(i, ok)
    PROVE  /\ SeamTypes' /\ CallTypes' /\ ExecTypes' /\ CacheTypes' /\ Bodies' /\ Held' /\ Fresh'
           /\ \A v \in Worker : at[v] = "decode" => at'[v] = "decode"
<1> DEFINE w == busy[i].by
<1>1. TakesUp(i, waiting) /\ UNCHANGED <<seam, original, peeled, phase, overlapped>>
  BY DEF BodyEnds
<1>2. /\ busy[i] \in Body /\ busy[i] \in Work /\ Tells(busy[i])
      /\ ExecTypes' /\ Apart(busy)' /\ Apart(waiting)'
      /\ \A b \in Range(busy)', c \in Range(waiting)' : b.by = c.by => b.by = Nobody
  BY <1>1, TakenUp
<1>3. \A b \in Work' : b \in Work /\ b \in Body /\ Tells(b) /\ (b.by = w => b.by = Nobody)
  BY <1>1, TakenUp
<1>4. CASE w = Nobody
  <2>1. /\ cache' = IF Writes(busy[i]) THEN OvertakenEntry ELSE cache
        /\ holder' = holder /\ at' = at /\ via' = via /\ tool' = tool
    BY <1>4 DEF BodyEnds, callVars
  <2>2. \A v \in Worker : LockOf(v)' = LockOf(v)
    BY <2>1 DEF LockOf
  <2>3. Bodies'
    BY <1>2, <1>3, <2>1, <2>2, BodyIs DEF Bodies, Tells
  <2>4. Held'
    BY <2>1, <2>2 DEF Held
  <2>5. CacheTypes' /\ StaleOnlyIfRaced'
    BY <2>1 DEF Types, CacheTypes, Entry, OvertakenEntry, Fresh, StaleOnlyIfRaced
  <2>6. CommandUnderWay' => CommandUnderWay
    BY <1>3, <2>1 DEF CommandUnderWay
  <2>7. CommandUnderWay' => (cache'.there => cache'.raced)
    BY <2>1, <2>6 DEF Fresh, OvertakenEntry
  <2>8. Fresh'
    BY <1>3, <2>5, <2>6, <2>7 DEF Fresh
  <2>9. SeamTypes' /\ CallTypes'
    BY <1>1, <2>1 DEF Types, SeamTypes, CallTypes
  <2> QED
    BY <1>2, <2>1, <2>3, <2>4, <2>5, <2>8, <2>9
<1>5. CASE w # Nobody
  <2>1. /\ w \in Worker /\ at[w] = "tool" /\ busy[i].kind = tool[w].kind
    BY <1>2, <1>5, BodyIs DEF Tells
  <2>2. cache' = Stored(busy[i], ok) /\ holder' = Unlocked(w) /\ Returned(w)
    BY <1>5 DEF BodyEnds
  <2> HIDE DEF w
  <2>3. /\ CallTypes' /\ at'[w] = "ready"
        /\ \A v \in Worker \ {w} : at'[v] = at[v] /\ LockOf(v)' = LockOf(v) /\ tool'[v] = tool[v]
                                   /\ via'[v] = via[v]
    BY <2>1, <2>2, ReturnedCall DEF Types
  <2>4. ASSUME NEW b \in Work' PROVE Tells(b)'
    BY <1>3, <1>5, <2>3, BodyIs DEF Tells
  <2>5. Bodies'
    BY <1>2, <2>4 DEF Bodies
  <2>6. SeamTypes'
    BY <1>1, <2>2 DEF Types, SeamTypes, Unlocked
  <2>7. Held'
    <3> SUFFICES ASSUME NEW v \in Worker, at'[v] \in {"tool", "backoff"}, LockOf(v)' # NoLock
                 PROVE  holder'[via'[v]][tool'[v].on] = v
      BY DEF Held
    <3>1. v # w
      BY <2>3
    <3>2. holder[via[v]][tool[v].on] = v
      BY <2>3, <3>1 DEF Held
    <3>3. via[v] \in Run /\ tool[v].on \in Resource
      BY <2>3, <3>1 DEF LockOf, Types, CallTypes
    <3> QED
      BY <2>2, <2>3, <3>1, <3>2, <3>3 DEF Unlocked
  <2>8. busy[i].kind = "command" => CommandUnderWay
    BY <1>2 DEF CommandUnderWay
  <2>9. /\ cache' \in Entry
        /\ cache'.there /\ ~cache'.so => cache'.raced \/ cache'.left
        /\ (cache.there => cache.raced) /\ (busy[i].kind = "read" => busy[i].raced)
               => (cache'.there => cache'.raced)
    BY <1>2, <2>2, <2>8, StoredIs DEF Fresh, Types
  <2>10. CommandUnderWay' => CommandUnderWay
    BY <1>3, <2>3 DEF CommandUnderWay
  <2>11. Fresh'
    BY <1>2, <1>3, <2>9, <2>10 DEF Fresh, StaleOnlyIfRaced
  <2> QED
    BY <1>2, <2>1, <2>3, <2>5, <2>6, <2>7, <2>9, <2>11 DEF CacheTypes
<1> QED
  BY <1>4, <1>5

-----------------------------------------------------------------------------
(* Every step keeps the invariant.                                          *)

(* What a worker does on its way to a tool or to the server and back.       *)
LEMMA OtherCalls ==
    ASSUME IInv, NEW w \in Worker,
           Ask(w) \/ Enter(w) \/ Decoded(w) \/ Call(w) \/ ToLock(w) \/ CallsNone(w)
           \/ ServeCached(w) \/ GiveUp(w)
    PROVE  IInv'
<1> USE DEF IInv
<1>1. /\ UNCHANGED <<arbiterVars, execVars, cache>>
      /\ at[w] \notin {"tool", "backoff"} /\ at'[w] \notin {"tool", "backoff"}
      /\ \A v \in Worker \ {w} : at'[v] = at[v] /\ via'[v] = via[v] /\ tool'[v] = tool[v]
      /\ CallTypes'
  <2> USE DEF Types, CallTypes
  <2>1. CASE Ask(w) \/ Enter(w) \/ Decoded(w) \/ ToLock(w)
    BY <2>1 DEF Ask, Enter, Decoded, ToLock, Move
  <2>2. CASE Call(w)
    <3>1. PICK x \in Resource \cup {Unmanaged}, k \in Kinds :
              tool' = [tool EXCEPT ![w] = [on |-> x, kind |-> k, tries |-> 0]]
      BY <2>2 DEF Call
    <3>2. [on |-> x, kind |-> k, tries |-> 0]
              \in [on : Resource \cup {Unmanaged}, kind : Kinds, tries : 0..MaxRetries]
      BY Constants
    <3>3. seam \in Run \cup {Base}
      BY DEF SeamTypes
    <3> QED
      BY <2>2, <3>1, <3>2, <3>3 DEF Call, Move
  <2>3. CASE CallsNone(w) \/ ServeCached(w) \/ GiveUp(w)
    <3>1. Returned(w) /\ at[w] \in {"called", "lock"} /\ UNCHANGED <<arbiterVars, execVars, cache>>
      BY <2>3 DEF CallsNone, ServeCached, GiveUp
    <3> QED
      BY <3>1, ReturnedCall
  <2> QED
    BY <2>1, <2>2, <2>3
<1>2. ExecTypes' /\ CacheTypes' /\ Bodies' /\ Held' /\ Fresh'
  BY <1>1, OtherBodies DEF arbiterVars
<1>3. SeamTypes' /\ Seams'
  BY <1>1 DEF arbiterVars, Types, SeamTypes, Seams, SeamIsAlive, Going
<1>4. LaneTypes' /\ Lanes'
  <2>1. CASE Enter(w)
    BY <2>1, EnterLanes
  <2>2. CASE Decoded(w)
    BY <2>2, DecodedLanes
  <2>3. CASE ~Enter(w) /\ ~Decoded(w)
    <3>1. UNCHANGED laneVars /\ at[w] # "decode"
      BY <2>3 DEF Ask, Call, ToLock, CallsNone, ServeCached, GiveUp
    <3> QED
      BY <1>1, <3>1, OtherLanes
  <2> QED
    BY <2>1, <2>2, <2>3
<1> QED
  BY <1>1, <1>2, <1>3, <1>4 DEF Types

(* What a worker does that submits a body.                                  *)
LEMMA Submits ==
    ASSUME IInv, NEW w \in Worker, Direct(w) \/ Locks(w) \/ Retries(w)
    PROVE  IInv'
<1> USE DEF IInv
<1>1. /\ Submit(w) /\ at[w] \in {"called", "lock", "backoff"} /\ tool' = tool
      /\ cache' = IF tool[w].kind = "command" /\ at[w] # "backoff" THEN NoEntry ELSE cache
  BY DEF Direct, Locks, Retries, Begin
<1>2. /\ LockOf(w) # NoLock => holder'[via[w]][tool[w].on] = w
      /\ \A r \in Run, x \in Resource : holder[r][x] # Nobody => holder'[r][x] = holder[r][x]
      /\ holder' \in [Run -> [Resource -> Worker \cup {Nobody}]]
  <2> USE DEF Types, SeamTypes
  <2>1. CASE Direct(w)
    BY <2>1 DEF Direct
  <2>2. CASE Retries(w)
    BY <2>2 DEF Retries, Held
  <2>3. CASE Locks(w)
    <3>1. LockFree(via[w], tool[w].on) /\ holder' = [holder EXCEPT ![via[w]][tool[w].on] = w]
      BY <2>3 DEF Locks, Lock
    <3>2. LockOf(w) # NoLock => via[w] \in Run /\ tool[w].on \in Resource
      BY DEF LockOf, CallTypes
    <3> QED
      BY <3>1, <3>2 DEF LockFree
  <2> QED
    BY <2>1, <2>2, <2>3
<1>3. CallTypes' /\ ExecTypes' /\ CacheTypes' /\ Bodies' /\ Held' /\ Fresh'
  BY <1>1, <1>2, SubmitStep
<1>4. UNCHANGED <<laneVars, seam, original, peeled, phase, overlapped>>
  BY <1>1 DEF Submit
<1>5. SeamTypes' /\ Seams'
  BY <1>2, <1>4 DEF Types, SeamTypes, Seams, SeamIsAlive, Going
<1>6. \A v \in Worker : at[v] = "decode" => at'[v] = "decode"
  BY <1>1 DEF Submit, Move, Types, CallTypes
<1>7. LaneTypes' /\ Lanes'
  BY <1>4, <1>6, OtherLanes
<1> QED
  BY <1>3, <1>5, <1>7 DEF Types

LEMMA NextIInv ==
    ASSUME IInv, [Next]_vars
    PROVE  IInv'
<1> USE DEF IInv
<1>1. ASSUME NEW w \in Worker,
             Ask(w) \/ Enter(w) \/ Decoded(w) \/ Call(w) \/ ToLock(w) \/ CallsNone(w)
             \/ ServeCached(w) \/ GiveUp(w)
      PROVE  IInv'
  BY <1>1, OtherCalls
<1>2. ASSUME NEW w \in Worker, Direct(w) \/ Locks(w) \/ Retries(w)
      PROVE  IInv'
  BY <1>2, Submits
<1>3. ASSUME NEW w \in Worker, TimesOut(w)
      PROVE  IInv'
  <2>1. SeamTypes' /\ CallTypes' /\ ExecTypes' /\ CacheTypes' /\ Bodies' /\ Held' /\ Fresh'
    BY <1>3, TimesOutStep
  <2>2. /\ UNCHANGED <<laneVars, seam, original, peeled, phase, overlapped>> /\ at[w] = "tool"
        /\ at' = [at EXCEPT ![w] = "ready"]
    BY <1>3 DEF TimesOut, Returned, Move
  <2>3. LaneTypes' /\ Lanes'
    BY <2>2, OtherLanes DEF Types, CallTypes
  <2> QED
    BY <2>1, <2>2, <2>3 DEF Types, Seams, SeamIsAlive, Going
<1>4. ASSUME NEW i \in 1..Slots, Raises(i)
      PROVE  IInv'
  <2>1. UNCHANGED <<laneVars, arbiterVars, cache>>
    BY <1>4 DEF Raises
  <2>2. /\ CallTypes' /\ ExecTypes' /\ Bodies' /\ Held' /\ Fresh'
        /\ \A v \in Worker : at[v] = "decode" => at'[v] = "decode"
    BY <1>4, RaisesStep
  <2>3. LaneTypes' /\ Lanes'
    BY <2>1, <2>2, OtherLanes
  <2> QED
    BY <2>1, <2>2, <2>3 DEF Types, SeamTypes, CacheTypes, Seams, SeamIsAlive, Going, arbiterVars
<1>5. ASSUME NEW i \in 1..Slots, NEW ok \in BOOLEAN, BodyEnds(i, ok)
      PROVE  IInv'
  <2>1. UNCHANGED <<laneVars, seam, original, peeled, phase, overlapped>>
    BY <1>5 DEF BodyEnds
  <2>2. /\ SeamTypes' /\ CallTypes' /\ ExecTypes' /\ CacheTypes' /\ Bodies' /\ Held' /\ Fresh'
        /\ \A v \in Worker : at[v] = "decode" => at'[v] = "decode"
    BY <1>5, BodyEndsStep
  <2>3. LaneTypes' /\ Lanes'
    BY <2>1, <2>2, OtherLanes
  <2> QED
    BY <2>1, <2>2, <2>3 DEF Types, Seams, SeamIsAlive, Going
<1>6. ASSUME NEW r \in Run, RunStarts(r) \/ RunEnds(r)
      PROVE  IInv'
  <2>1. UNCHANGED <<laneVars, callVars, execVars, cache, holder>>
    BY <1>6 DEF RunStarts, RunEnds, Install, Uninstall
  <2>2. SeamTypes' /\ Seams'
    BY <1>6, InstallSeams, UninstallSeams DEF RunStarts, RunEnds
  <2>3. LaneTypes' /\ Lanes'
    BY <2>1, OtherLanes DEF callVars
  <2>4. CallTypes' /\ ExecTypes' /\ CacheTypes'
    BY <2>1 DEF Types, CallTypes, ExecTypes, CacheTypes, callVars, execVars
  <2>5. Work' = Work /\ \A w \in Worker : LockOf(w)' = LockOf(w)
    BY <2>1 DEF Work, LockOf, callVars, execVars
  <2>6. Bodies'
    BY <2>1, <2>5, WorkTypes, BodyIs DEF Types, Bodies, Tells, Apart, callVars, execVars
  <2>7. Held' /\ Fresh'
    BY <2>1, <2>5 DEF Held, Fresh, StaleOnlyIfRaced, CommandUnderWay, callVars
  <2> QED
    BY <2>2, <2>3, <2>4, <2>6, <2>7 DEF Types
<1>7. CASE UNCHANGED vars
  <2> USE <1>7 DEF vars, laneVars, arbiterVars, callVars, execVars
  <2>1. Types'
    BY DEF Types, LaneTypes, SeamTypes, CallTypes, ExecTypes, CacheTypes
  <2>2. Lanes' /\ Seams'
    BY DEF Lanes, Out, Seams, SeamIsAlive, Going
  <2>3. Work' = Work /\ \A w \in Worker : LockOf(w)' = LockOf(w)
    BY DEF Work, LockOf
  <2>4. Bodies'
    BY <2>3, WorkTypes, BodyIs DEF Types, Bodies, Tells, Apart
  <2>5. Held' /\ Fresh'
    BY <2>3 DEF Held, Fresh, StaleOnlyIfRaced, CommandUnderWay
  <2> QED
    BY <2>1, <2>2, <2>4, <2>5
<1> QED
  BY <1>1, <1>2, <1>3, <1>4, <1>5, <1>6, <1>7 DEF Next

LEMMA Invariance == Spec => []IInv
  BY InitIInv, NextIInv, PTL DEF Spec

-----------------------------------------------------------------------------
(* The types of what the workers share: the semaphore stays within its      *)
(* limit, the executor within its threads and a call within its retries.    *)
THEOREM CallsTypes == Spec => []TypeOK
<1>1. IInv => TypeOK
  <2> SUFFICES ASSUME IInv PROVE TypeOK
    OBVIOUS
  <2>1. /\ Cardinality(Out) \in Nat /\ permits \in Nat /\ cut \in Nat
        /\ permits + Cardinality(Out) + cut = LaneLimit
    BY FS_CardinalityType DEF IInv, Types, LaneTypes, Lanes
  <2>2. permits \in 0..LaneLimit
    BY <2>1, Constants
  <2> QED
    BY <2>2 DEF IInv, Types, LaneTypes, SeamTypes, CallTypes, ExecTypes, CacheTypes, TypeOK
<1> QED
  BY Invariance, <1>1, PTL

(* However requests end and time out, the permits that are free, those that *)
(* requests hold and those that went with a request Ctrl+C cut off are the  *)
(* lanes there are: a permit is released at most once, and lost in no other *)
(* way.                                                                     *)
THEOREM CallsPermitsBalance == Spec => []PermitsBalance
<1>1. IInv => PermitsBalance
  BY DEF IInv, Lanes, Out, PermitsBalance
<1> QED
  BY Invariance, <1>1, PTL

(* However team runs overlap, the wrapper at the seam of run_tool belongs   *)
(* to a run that is still going.                                            *)
THEOREM CallsSeamIsAlive == Spec => []SeamIsAlive
<1>1. IInv => SeamIsAlive
  BY DEF IInv, Seams
<1> QED
  BY Invariance, <1>1, PTL

(* A run that never was beside another has its wrapper at the seam, and two *)
(* bodies handed over under one lock are one: the lock of a call is held    *)
(* for as long as its body is queued or runs or its retry waits, unless it  *)
(* hung.                                                                    *)
THEOREM CallsSerialUnlessHung == Spec => []SerialUnlessHung
<1>1. IInv => SerialUnlessHung
  <2> DEFINE handed == busy \o waiting
  <2> SUFFICES ASSUME IInv, NEW i \in DOMAIN handed, NEW j \in DOMAIN handed, i # j,
                      handed[i].lock = handed[j].lock, handed[i].lock # NoLock
               PROVE  FALSE
    BY DEF SerialUnlessHung, IInv, Seams
  <2>1. /\ busy \in Seq(Body) /\ waiting \in Seq(Body)
        /\ DOMAIN busy = 1..Len(busy) /\ DOMAIN waiting = 1..Len(waiting)
        /\ Len(busy) \in Nat /\ Len(waiting) \in Nat
    BY DEF IInv, Types, ExecTypes
  <2>2. /\ DOMAIN handed = 1..(Len(busy) + Len(waiting))
        /\ \A k \in DOMAIN handed :
              handed[k] = IF k <= Len(busy) THEN busy[k] ELSE waiting[k - Len(busy)]
    BY <2>1
  <2> HIDE DEF handed
  <2>3. ASSUME NEW k \in DOMAIN handed
        PROVE  \/ k \in DOMAIN busy /\ handed[k] = busy[k] /\ handed[k] \in Range(busy)
               \/ /\ k - Len(busy) \in DOMAIN waiting /\ handed[k] = waiting[k - Len(busy)]
                  /\ handed[k] \in Range(waiting)
    <3>1. CASE k <= Len(busy)
      BY <2>1, <2>2, <3>1 DEF Range
    <3>2. CASE ~(k <= Len(busy))
      <4>1. k - Len(busy) \in DOMAIN waiting /\ handed[k] = waiting[k - Len(busy)]
        BY <2>1, <2>2, <3>2
      <4> QED
        BY <4>1 DEF Range
    <3> QED
      BY <3>1, <3>2
  <2>4. handed[i] \in Work /\ handed[j] \in Work
    BY <2>3 DEF Work
  <2>5. /\ handed[i].by \in Worker /\ at[handed[i].by] = "tool"
        /\ handed[i].lock = LockOf(handed[i].by)
        /\ handed[j].by \in Worker /\ at[handed[j].by] = "tool"
        /\ handed[j].lock = LockOf(handed[j].by)
    BY <2>4, WorkTypes, BodyIs DEF IInv, Types, Bodies, Tells
  <2>6. via[handed[i].by] = via[handed[j].by] /\ tool[handed[i].by].on = tool[handed[j].by].on
    <3>1. \A w \in Worker : LockOf(w) # NoLock => LockOf(w) = <<via[w], tool[w].on>>
      BY DEF LockOf
    <3>2. /\ LockOf(handed[i].by) = <<via[handed[i].by], tool[handed[i].by].on>>
          /\ LockOf(handed[j].by) = <<via[handed[j].by], tool[handed[j].by].on>>
      BY <2>5, <3>1
    <3>3. LockOf(handed[i].by) = LockOf(handed[j].by)
      BY <2>5
    <3>4. <<via[handed[i].by], tool[handed[i].by].on>> = <<via[handed[j].by], tool[handed[j].by].on>>
      BY <3>2, <3>3
    <3> QED
      BY <3>4
  <2>7. handed[i].by = handed[j].by /\ handed[i].by # Nobody
    BY <2>5, <2>6, Constants DEF IInv, Held
  <2>8. Apart(busy) /\ Apart(waiting)
        /\ \A b \in Range(busy), c \in Range(waiting) : b.by = c.by => b.by = Nobody
    BY DEF IInv, Bodies
  <2>9. i - Len(busy) = j - Len(busy) => i = j
    BY <2>1, <2>2
  <2> QED
    BY <2>3, <2>7, <2>8, <2>9 DEF Apart
<1> QED
  BY Invariance, <1>1, PTL

(* An entry of the read cache that is stale was stored beside a write, or   *)
(* the write after it failed or hung, or was a command with a cwd.          *)
THEOREM CallsStaleOnlyIfRaced == Spec => []StaleOnlyIfRaced
<1>1. IInv => StaleOnlyIfRaced
  BY DEF IInv, Fresh
<1> QED
  BY Invariance, <1>1, PTL

=============================================================================
