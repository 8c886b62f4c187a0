------------------------- MODULE ContextWindowProofs -------------------------
(***************************************************************************)
(* For any lengths and limits, any number of rows, calls and crashes: the  *)
(* rows, the messages and the summaries keep their types, no request takes *)
(* an exchange apart, and the trim spares what it has to spare.            *)
(*                                                                         *)
(* Induction over a list is the least-number principle: of the indices at  *)
(* which something fails there is a first one (Least).                     *)
(***************************************************************************)
EXTENDS ContextWindow, FiniteSetTheorems, WellFoundedInduction, TLAPS

-----------------------------------------------------------------------------
(* Exchanges in a list of rows or messages                                  *)

(* Only the model's replies make calls.                                     *)
Proper == {r \in RowType : MakesCalls(r) => r.role = "assistant"}

Belongs(r) == IsResult(r) \/ MakesCalls(r)

(* A result stands behind the call or another result of its exchange.       *)
Linked(ms, i) == i > 1 /\ Belongs(ms[i - 1]) /\ ms[i - 1].of = ms[i].of
Tight(ms) == \A i \in DOMAIN ms : IsResult(ms[i]) => Linked(ms, i)

(* An exchange has one message with calls.                                  *)
Once(ms) ==
    \A i, j \in DOMAIN ms :
        MakesCalls(ms[i]) /\ MakesCalls(ms[j]) /\ ms[i].of = ms[j].of => i = j

(* No exchange is newer than row n.                                         *)
Upto(ms, n) == \A i \in DOMAIN ms : ms[i].of <= n

Sound(ms, n) == ms \in Seq(Proper) /\ Tight(ms) /\ Once(ms) /\ Upto(ms, n)

(* Behind row i there are n results of its exchange, and then none.         *)
Run(ms, i, n) ==
    /\ i + n <= Len(ms)
    /\ \A k \in (i + 1)..(i + n) : IsResult(ms[k]) /\ ms[k].of = ms[i].of
    /\ i + n < Len(ms) => ~IsResult(ms[i + n + 1])

(* The exchanges of the messages have all the results the rows have.        *)
Whole(ms, rows) ==
    \A i \in DOMAIN ms : MakesCalls(ms[i]) => Run(ms, i, Answered(rows, ms[i].of))

(* The last row belongs to an exchange.                                     *)
Ends(ms, of) == ms # <<>> /\ Belongs(ms[Len(ms)]) /\ ms[Len(ms)].of = of

-----------------------------------------------------------------------------
(* The inductive invariant                                                  *)

Phases == {"idle", "window", "call", "drop", "cut", "stream", "tools"}

Types ==
    /\ log \in Seq(Proper) /\ history \in Seq(Proper) /\ messages \in Seq(Proper)
    /\ total \in Int /\ phase \in Phases /\ crashes \in 0..MaxCrashes
    /\ memory \subseteq {"core", "episodes", "actions"}
    /\ summary \in [DOMAIN summary -> {"running", "made", "failed", "model", "standin"}]
    /\ DOMAIN summary \subseteq Seq(RowType)
    /\ gather \in [Threads -> [left : Seq(Seq(RowType)), seen : BOOLEAN]]

(* The turn looks up summaries only before its first call.                  *)
Looking ==
    /\ gather["turn"].left # <<>> => phase = "window"
    /\ \A p \in Threads : gather[p].seen => gather[p].left # <<>>

(* There is a list of messages from the first call on; it begins with the   *)
(* system prompt.                                                           *)
Listing ==
    /\ phase \in {"idle", "window"} <=> messages = <<>>
    /\ messages # <<>> => messages[1].role = "system"

Agree(rows, known, ms) ==
    /\ Sound(rows, Len(rows)) /\ Sound(known, Len(rows)) /\ Sound(ms, Len(rows))
    /\ Whole(ms, known)

Paired == Agree(log, history, messages)

(* While results come in, the rows and the messages end with that exchange. *)
Open ==
    phase = "tools" =>
        \E of \in 1..Len(log) : Ends(log, of) /\ Ends(history, of) /\ Ends(messages, of)

WindowInv == Types /\ Looking /\ Listing /\ Paired /\ Open

-----------------------------------------------------------------------------
(* Numbers, sums and lists                                                  *)

(* Every set of naturals with a member has a least one.                     *)
LEMMA Least ==
    ASSUME NEW T \in SUBSET Nat, T # {}
    PROVE  \E n \in T : \A m \in T : n <= m
<1> DEFINE Small(n) == T \cap (0..n)
           F == {Small(n) : n \in T}
<1>1. ASSUME NEW n \in T PROVE Small(n) \in FiniteSubsetsOf(T)
  <2>1. n \in Nat
    OBVIOUS
  <2>2. IsFiniteSet(0..n)
    BY <2>1, FS_Interval
  <2>3. IsFiniteSet(Small(n))
    BY <2>2, FS_Subset
  <2> QED
    BY <2>3 DEF FiniteSubsetsOf
<1>2. F \subseteq FiniteSubsetsOf(T) /\ F # {}
  BY <1>1
<1>3. IsWellFoundedOn(StrictSubsetOrdering(T), FiniteSubsetsOf(T))
  BY FS_StrictSubsetOrderingWellFounded
<1> HIDE DEF F
<1>4. PICK X \in F : \A Y \in F : ~(<<Y, X>> \in StrictSubsetOrdering(T))
  BY <1>2, <1>3, WFMin
<1>5. PICK n \in T : X = Small(n)
  BY <1>4 DEF F
<1>6. ASSUME NEW m \in T, m < n
      PROVE  FALSE
  <2>1. Small(m) \in F /\ Small(m) \subseteq X /\ n \in X /\ n \notin Small(m)
    BY <1>5, <1>6 DEF F
  <2>2. <<Small(m), X>> \in StrictSubsetOrdering(T)
    BY <1>5, <2>1 DEF StrictSubsetOrdering
  <2> QED
    BY <1>4, <2>1, <2>2
<1> QED
  BY <1>6

(* The largest member of a finite set.                                      *)
LEMMA Greatest ==
    ASSUME NEW n \in Nat, NEW T \in SUBSET (0..n), T # {}
    PROVE  /\ Max(T) \in T /\ \A m \in T : m <= Max(T)
           /\ Min(T) \in T /\ \A m \in T : Min(T) <= m
<1> DEFINE R == {k \in Nat : \E t \in T : k = n - t}
<1>1. R \subseteq Nat /\ R # {}
  <2>1. PICK t \in T : TRUE
    OBVIOUS
  <2>2. n - t \in Nat
    OBVIOUS
  <2> QED
    BY <2>2
<1>2. PICK k \in R : \A m \in R : k <= m
  <2> HIDE DEF R
  <2> QED
    BY <1>1, Least
<1>3. PICK t \in T : k = n - t
  OBVIOUS
<1>4. \A m \in T : m <= t
  BY <1>2, <1>3
<1>5. \E x \in T : \A y \in T : x >= y
  BY <1>4
<1>6. PICK x \in T : \A m \in T : x <= m
  BY Least
<1> QED
  BY <1>5, <1>6 DEF Max, Min

(* What is summed up of naturals is a natural.                              *)
LEMMA SumNat ==
    ASSUME NEW f, IsFiniteSet(DOMAIN f), \A x \in DOMAIN f : f[x] \in Nat
    PROVE  SumFunction(f) \in Nat
<1> DEFINE S == DOMAIN f
           c(s) == CHOOSE x \in s : TRUE
           Plus(g, D) == [s \in D |-> IF s = {} THEN 0 ELSE f[c(s)] + g[s \ {c(s)}]]
           Small(n) == {s \in SUBSET S : Cardinality(s) <= n}
           P(n) == \E g \in [Small(n) -> Nat] : g = Plus(g, Small(n))
           T == {n \in Nat : ~P(n)}
<1>1. ASSUME NEW s \in SUBSET S
      PROVE  /\ IsFiniteSet(s) /\ Cardinality(s) \in Nat /\ Cardinality(s) <= Cardinality(S)
             /\ Cardinality(S) \in Nat
             /\ Cardinality(s) = 0 <=> s = {}
             /\ s # {} => /\ c(s) \in s /\ f[c(s)] \in Nat /\ s \ {c(s)} \in SUBSET S
                          /\ Cardinality(s \ {c(s)}) = Cardinality(s) - 1
  <2>1. IsFiniteSet(s) /\ Cardinality(s) <= Cardinality(S)
    BY FS_Subset
  <2>2. Cardinality(s) \in Nat /\ Cardinality(S) \in Nat
    BY <2>1, FS_CardinalityType
  <2>3. Cardinality(s) = 0 <=> s = {}
    BY <2>1, FS_EmptySet
  <2>4. s # {} => c(s) \in s
    OBVIOUS
  <2>5. s # {} => Cardinality(s \ {c(s)}) = Cardinality(s) - 1
    BY <2>1, <2>4, FS_RemoveElement
  <2> QED
    BY <2>1, <2>2, <2>3, <2>4, <2>5
<1> HIDE DEF c
<1>2. T = {}
  <2> SUFFICES ASSUME T # {} PROVE FALSE
    OBVIOUS
  <2>1. PICK n \in T : \A m \in T : n <= m
    <3> HIDE DEF P
    <3> QED
      BY Least
  <2>2. CASE n = 0
    <3>1. \A s \in Small(0) : s = {}
      <4> SUFFICES ASSUME NEW s \in SUBSET S, Cardinality(s) <= 0 PROVE s = {}
        OBVIOUS
      <4>1. Cardinality(s) \in Nat /\ (Cardinality(s) = 0 <=> s = {})
        BY <1>1
      <4> QED
        BY <4>1
    <3> DEFINE g == [s \in Small(0) |-> 0]
    <3>2. g \in [Small(0) -> Nat]
      OBVIOUS
    <3>3. g = Plus(g, Small(0))
      BY <3>1
    <3> QED
      BY <2>1, <2>2, <3>2, <3>3
  <2>3. CASE n # 0
    <3>1. n - 1 \in Nat /\ n - 1 \notin T
      <4>1. n \in Nat
        OBVIOUS
      <4> HIDE DEF T
      <4> QED
        BY <2>1, <2>3, <4>1
    <3>2. PICK g \in [Small(n - 1) -> Nat] : g = Plus(g, Small(n - 1))
      BY <3>1
    <3> DEFINE h == Plus(g, Small(n))
    <3>3. \A s \in Small(n) : s # {} => s \ {c(s)} \in Small(n - 1) /\ f[c(s)] \in Nat
      <4> SUFFICES ASSUME NEW s \in SUBSET S, Cardinality(s) <= n, s # {}
                   PROVE  s \ {c(s)} \in SUBSET S /\ Cardinality(s \ {c(s)}) <= n - 1
                          /\ f[c(s)] \in Nat
        OBVIOUS
      <4>1. /\ Cardinality(s) \in Nat /\ s \ {c(s)} \in SUBSET S /\ f[c(s)] \in Nat
            /\ Cardinality(s \ {c(s)}) = Cardinality(s) - 1
        BY <1>1
      <4> QED
        BY <3>1, <4>1
    <3>4. h \in [Small(n) -> Nat]
      <4>1. \A s \in Small(n) : (IF s = {} THEN 0 ELSE f[c(s)] + g[s \ {c(s)}]) \in Nat
        <5>1. \A s \in Small(n - 1) : g[s] \in Nat
          BY <3>2
        <5> HIDE DEF Small
        <5> QED
          BY <3>3, <5>1
      <4> QED
        BY <4>1
    <3>5. \A s \in Small(n - 1) : s \in Small(n) /\ h[s] = g[s]
      <4>1. \A s \in Small(n - 1) : s \in Small(n)
        <5> SUFFICES ASSUME NEW s \in SUBSET S, Cardinality(s) <= n - 1
                     PROVE  Cardinality(s) <= n
          OBVIOUS
        <5>1. Cardinality(s) \in Nat
          BY <1>1
        <5> QED
          BY <3>1, <5>1
      <4>2. \A s \in Small(n - 1) :
               g[s] = IF s = {} THEN 0 ELSE f[c(s)] + g[s \ {c(s)}]
        BY <3>2
      <4> QED
        BY <4>1, <4>2
    <3>6. \A s \in Small(n) : h[s] = Plus(h, Small(n))[s]
      BY <3>3, <3>5
    <3>7. h = Plus(h, Small(n))
      BY <3>6
    <3> HIDE DEF h
    <3> QED
      BY <2>1, <3>4, <3>7
  <2> QED
    BY <2>2, <2>3
<1>3. \E g : g = Plus(g, SUBSET S)
  <2>1. Cardinality(S) \in Nat /\ Cardinality(S) \notin T
    BY <1>1, <1>2
  <2>2. Small(Cardinality(S)) = SUBSET S
    BY <1>1
  <2> QED
    BY <2>1, <2>2
<1> DEFINE G == CHOOSE g : g = Plus(g, SUBSET S)
<1>4. G = Plus(G, SUBSET S)
  BY <1>3
<1>5. SumFunction(f) = G[S]
  BY DEF SumFunction, SumFunctionOnSet, FoldFunctionOnSet, MapThenFoldSet, c
<1> HIDE DEF G
<1> DEFINE R == {n \in Nat : \E s \in SUBSET S : Cardinality(s) = n /\ G[s] \notin Nat}
<1>6. R = {}
  <2> SUFFICES ASSUME R # {} PROVE FALSE
    OBVIOUS
  <2>1. PICK n \in R : \A m \in R : n <= m
    BY Least
  <2>2. PICK s \in SUBSET S : Cardinality(s) = n /\ G[s] \notin Nat
    BY <2>1
  <2>3. G[s] = IF s = {} THEN 0 ELSE f[c(s)] + G[s \ {c(s)}]
    BY <1>4
  <2>4. s # {}
    BY <2>2, <2>3
  <2>5. /\ f[c(s)] \in Nat /\ s \ {c(s)} \in SUBSET S
        /\ Cardinality(s \ {c(s)}) = n - 1 /\ n - 1 \in Nat
    BY <1>1, <2>2, <2>4
  <2>6. G[s \ {c(s)}] \in Nat
    BY <2>1, <2>5
  <2> QED
    BY <2>2, <2>3, <2>4, <2>5, <2>6
<1>7. G[S] \in Nat
  <2>1. S \in SUBSET S /\ Cardinality(S) \in Nat
    BY <1>1
  <2> QED
    BY <1>6, <2>1
<1> QED
  BY <1>5, <1>7

(* The members of a set in their order: each of them, in an ascending list. *)
LEMMA InOrderIs ==
    ASSUME NEW n \in Nat, NEW S \in SUBSET (1..n)
    PROVE  LET at == InOrder(S)
               m == Cardinality(S)
           IN  /\ m \in Nat /\ at \in [1..m -> S] /\ at \in Seq(S) /\ Len(at) = m
               /\ \A k, l \in 1..m : k < l => at[k] < at[l]
               /\ \A i \in S : \E k \in 1..m : at[k] = i
<1> DEFINE at == InOrder(S)
           m == Cardinality(S)
           Below(i) == {j \in S : j <= i}
           rank == [i \in S |-> Cardinality(Below(i))]
<1>1. IsFiniteSet(S) /\ m \in Nat /\ IsFiniteSet(1..m) /\ Cardinality(1..m) = m
  <2>1. IsFiniteSet(1..n)
    BY FS_Interval
  <2>2. IsFiniteSet(S)
    BY <2>1, FS_Subset
  <2>3. m \in Nat
    BY <2>2, FS_CardinalityType
  <2> QED
    BY <2>2, <2>3, FS_Interval
<1>2. ASSUME NEW i \in S
      PROVE  IsFiniteSet(Below(i)) /\ Cardinality(Below(i)) \in 1..m
  <2>1. IsFiniteSet(Below(i)) /\ Cardinality(Below(i)) <= m
    BY <1>1, FS_Subset
  <2>2. Cardinality(Below(i)) \in Nat
    BY <2>1, FS_CardinalityType
  <2>3. Cardinality(Below(i)) # 0
    <3>1. i \in Below(i)
      OBVIOUS
    <3> QED
      BY <2>1, <3>1, FS_EmptySet
  <2> QED
    BY <1>1, <2>1, <2>2, <2>3
<1>3. ASSUME NEW i \in S, NEW j \in S, i < j
      PROVE  rank[i] < rank[j]
  <2>1. Below(i) \cup {j} \subseteq Below(j) /\ j \notin Below(i)
    <3>1. i \in 1..n /\ j \in 1..n /\ \A x \in S : x \in 1..n
      OBVIOUS
    <3>2. \A x \in Below(i) : x \in S /\ x <= j
      BY <1>3, <3>1
    <3>3. j <= j /\ ~(j <= i)
      BY <1>3, <3>1
    <3> QED
      BY <3>2, <3>3
  <2>2. Cardinality(Below(i) \cup {j}) = Cardinality(Below(i)) + 1
    BY <1>2, <2>1, FS_AddElement
  <2>3. Cardinality(Below(i) \cup {j}) <= Cardinality(Below(j))
    <3>1. IsFiniteSet(Below(j))
      BY <1>2
    <3> HIDE DEF Below
    <3> QED
      BY <2>1, <3>1, FS_Subset
  <2> QED
    BY <1>2, <2>2, <2>3
<1>4. rank \in Surjection(S, 1..m)
  <2>1. rank \in [S -> 1..m]
    BY <1>2
  <2>2. \A i, j \in S : rank[i] = rank[j] => i = j
    <3> SUFFICES ASSUME NEW i \in S, NEW j \in S, rank[i] = rank[j], i # j PROVE FALSE
      OBVIOUS
    <3>1. i < j \/ j < i
      OBVIOUS
    <3>2. rank[i] \in Nat /\ rank[j] \in Nat
      BY <2>1
    <3> HIDE DEF rank
    <3> QED
      BY <1>3, <3>1, <3>2
  <2>3. rank \in Injection(S, 1..m)
    BY <2>1, <2>2 DEF Injection, IsInjective
  <2> HIDE DEF rank
  <2> QED
    BY <1>1, <2>3, FS_Injection
<1>5. \A k \in 1..m : \E i \in S : rank[i] = k
  <2> HIDE DEF rank
  <2> QED
    BY <1>4 DEF Surjection
<1>6. /\ DOMAIN at = 1..m
      /\ \A k \in 1..m : at[k] \in S /\ rank[at[k]] = k
  BY <1>5 DEF InOrder
<1>7. /\ \A i \in S : rank[i] \in 1..m
      /\ \A i, j \in S : rank[i] < rank[j] => i < j
  <2>1. \A i \in S : rank[i] \in 1..m
    BY <1>2
  <2> HIDE DEF rank
  <2> QED
    BY <1>3, <2>1
<1>8. \A i \in S : at[rank[i]] = i
  <2> SUFFICES ASSUME NEW i \in S PROVE at[rank[i]] = i
    OBVIOUS
  <2> HIDE DEF rank, at
  <2>1. rank[i] \in 1..m /\ at[rank[i]] \in S /\ rank[at[rank[i]]] = rank[i]
    BY <1>6, <1>7
  <2>2. rank[i] \in Nat /\ at[rank[i]] \in Nat /\ i \in Nat
    <3>1. \A x \in S : x \in Nat
      OBVIOUS
    <3>2. \A k \in 1..m : k \in Nat
      BY <1>1
    <3> QED
      BY <2>1, <3>1, <3>2
  <2>3. ~(at[rank[i]] < i)
    BY <1>3, <2>1, <2>2
  <2>4. ~(i < at[rank[i]])
    BY <1>3, <2>1, <2>2
  <2> QED
    BY <2>2, <2>3, <2>4
<1> HIDE DEF at, rank
<1>9. at \in [1..m -> S]
  <2>1. at = [k \in 1..m |-> at[k]]
    BY DEF at, InOrder
  <2> QED
    BY <1>6, <2>1
<1>10. at \in Seq(S) /\ Len(at) = m
  BY <1>1, <1>9
<1>11. \A k, l \in 1..m : k < l => at[k] < at[l]
  BY <1>6, <1>7
<1>12. \A i \in S : \E k \in 1..m : at[k] = i
  BY <1>7, <1>8
<1> QED
  BY <1>1, <1>9, <1>10, <1>11, <1>12 DEF at

-----------------------------------------------------------------------------
(* Exchanges                                                                *)

LEMMA ProperRows ==
    ASSUME NEW ms \in Seq(Proper)
    PROVE  /\ Len(ms) \in Nat /\ DOMAIN ms = 1..Len(ms) /\ ms \in Seq(RowType)
           /\ \A i \in DOMAIN ms :
                 /\ ms[i] \in Proper /\ ms[i].of \in Nat /\ ms[i].len \in Nat \ {0}
                 /\ ms[i].calls \in 0..MaxCalls
                 /\ IsResult(ms[i]) => ~MakesCalls(ms[i])
                 /\ MakesCalls(ms[i]) => ms[i].role = "assistant"
<1>1. \A r \in Proper : /\ r \in RowType /\ r.of \in Nat /\ r.len \in Nat \ {0}
                        /\ r.calls \in 0..MaxCalls
                        /\ IsResult(r) => ~MakesCalls(r)
                        /\ MakesCalls(r) => r.role = "assistant"
  BY DEF Proper, RowType, IsResult
<1>2. Len(ms) \in Nat /\ DOMAIN ms = 1..Len(ms) /\ \A i \in DOMAIN ms : ms[i] \in Proper
  OBVIOUS
<1>3. ms \in Seq(RowType)
  BY <1>1, <1>2
<1> QED
  BY <1>1, <1>2, <1>3

(* Where rows stand behind one another, a row that belongs to an exchange   *)
(* has the message with calls before it, and between them only results.     *)
LEMMA HasCall ==
    ASSUME NEW ms \in Seq(Proper), Tight(ms), NEW i \in DOMAIN ms, Belongs(ms[i])
    PROVE  \E c \in 1..i : /\ MakesCalls(ms[c]) /\ ms[c].of = ms[i].of
                           /\ \A k \in (c + 1)..i : IsResult(ms[k])
<1> DEFINE Good(j) == \E c \in 1..j : /\ MakesCalls(ms[c]) /\ ms[c].of = ms[j].of
                                      /\ \A k \in (c + 1)..j : IsResult(ms[k])
           T == {j \in Nat : j \in DOMAIN ms /\ Belongs(ms[j]) /\ ~Good(j)}
<1>1. DOMAIN ms = 1..Len(ms) /\ Len(ms) \in Nat
  BY ProperRows
<1>2. T = {}
  <2> SUFFICES ASSUME T # {} PROVE FALSE
    OBVIOUS
  <2>1. PICK j \in T : \A m \in T : j <= m
    <3> HIDE DEF Good
    <3> QED
      BY Least
  <2>2. j \in Nat /\ j \in 1..Len(ms) /\ Belongs(ms[j]) /\ ~Good(j)
    BY <1>1
  <2>3. CASE MakesCalls(ms[j])
    <3>1. \A k \in (j + 1)..j : FALSE
      BY <2>2
    <3> QED
      BY <2>2, <2>3, <3>1
  <2>4. CASE ~MakesCalls(ms[j])
    <3>1. Linked(ms, j)
      BY <1>1, <2>2, <2>4 DEF Belongs, Tight
    <3>2. j - 1 \in Nat /\ j - 1 \in DOMAIN ms /\ j - 1 \notin T
      <4>1. j - 1 \in Nat /\ j - 1 \in DOMAIN ms /\ ~(j <= j - 1)
        BY <1>1, <2>2, <3>1 DEF Linked
      <4> HIDE DEF T
      <4> QED
        BY <2>1, <4>1
    <3>3. Good(j - 1)
      BY <3>1, <3>2 DEF Linked
    <3>4. PICK c \in 1..(j - 1) : /\ MakesCalls(ms[c]) /\ ms[c].of = ms[j - 1].of
                                  /\ \A k \in (c + 1)..(j - 1) : IsResult(ms[k])
      BY <3>3
    <3>5. IsResult(ms[j])
      BY <2>2, <2>4 DEF Belongs
    <3>6. \A k \in (c + 1)..j : IsResult(ms[k])
      <4> SUFFICES ASSUME NEW k \in (c + 1)..j PROVE IsResult(ms[k])
        OBVIOUS
      <4>1. k = j \/ k \in (c + 1)..(j - 1)
        BY <2>2
      <4> QED
        BY <3>4, <3>5, <4>1
    <3>7. c \in 1..j /\ ms[c].of = ms[j].of
      BY <2>2, <3>1, <3>4 DEF Linked
    <3> QED
      BY <2>2, <3>4, <3>6, <3>7
  <2> QED
    BY <2>3, <2>4
<1> QED
  BY <1>1, <1>2

(* The results that follow the calls at c are of that exchange.             *)
LEMMA Following ==
    ASSUME NEW ms \in Seq(Proper), Tight(ms), NEW c \in DOMAIN ms, MakesCalls(ms[c]),
           NEW i \in DOMAIN ms, i > c, \A k \in (c + 1)..i : IsResult(ms[k])
    PROVE  ms[i].of = ms[c].of
<1>1. /\ DOMAIN ms = 1..Len(ms) /\ Len(ms) \in Nat
      /\ \A k \in DOMAIN ms : IsResult(ms[k]) => ~MakesCalls(ms[k])
  BY ProperRows
<1>2. IsResult(ms[i])
  BY <1>1
<1>3. PICK d \in 1..i : /\ MakesCalls(ms[d]) /\ ms[d].of = ms[i].of
                        /\ \A k \in (d + 1)..i : IsResult(ms[k])
  BY <1>2, HasCall DEF Belongs
<1>4. d \in DOMAIN ms /\ d \in Nat /\ c \in Nat /\ i \in Nat
  BY <1>1
<1>5. ~(d < c)
  <2> SUFFICES ASSUME d < c PROVE FALSE
    OBVIOUS
  <2>1. c \in (d + 1)..i
    BY <1>4
  <2> QED
    BY <1>1, <1>3, <2>1
<1>6. ~(c < d)
  <2> SUFFICES ASSUME c < d PROVE FALSE
    OBVIOUS
  <2>1. d \in (c + 1)..i
    BY <1>3, <1>4
  <2> QED
    BY <1>1, <1>3, <1>4, <2>1
<1> QED
  BY <1>3, <1>4, <1>5, <1>6

(* ExchangeEnd is where the results that follow end.                        *)
LEMMA EndIsRun ==
    ASSUME NEW ms \in Seq(Proper), Tight(ms), NEW c \in DOMAIN ms, MakesCalls(ms[c])
    PROVE  /\ ExchangeEnd(ms, c) \in c..Len(ms)
           /\ Run(ms, c, ExchangeEnd(ms, c) - c)
<1> DEFINE E == {c} \cup {j \in c..Len(ms) : \A k \in (c + 1)..j : IsResult(ms[k])}
           e == Max(E)
<1>1. DOMAIN ms = 1..Len(ms) /\ Len(ms) \in Nat /\ c \in 1..Len(ms)
  BY ProperRows
<1>2. E \in SUBSET (0..Len(ms)) /\ E # {}
  BY <1>1
<1>3. e \in E /\ \A m \in E : m <= e
  <2> HIDE DEF E
  <2> QED
    BY <1>1, <1>2, Greatest
<1>4. ExchangeEnd(ms, c) = e
  BY DEF ExchangeEnd
<1> HIDE DEF e
<1>5. e \in c..Len(ms) /\ \A k \in (c + 1)..e : IsResult(ms[k])
  BY <1>1, <1>3
<1>6. \A k \in (c + 1)..e : ms[k].of = ms[c].of
  <2> SUFFICES ASSUME NEW k \in (c + 1)..e PROVE ms[k].of = ms[c].of
    OBVIOUS
  <2>1. k \in DOMAIN ms /\ k > c /\ \A l \in (c + 1)..k : IsResult(ms[l])
    BY <1>1, <1>5
  <2> QED
    BY <2>1, Following
<1>7. e < Len(ms) => ~IsResult(ms[e + 1])
  <2> SUFFICES ASSUME e < Len(ms), IsResult(ms[e + 1]) PROVE FALSE
    OBVIOUS
  <2>1. \A k \in (c + 1)..(e + 1) : k \in (c + 1)..e \/ k = e + 1
    BY <1>1, <1>5
  <2>2. e + 1 \in c..Len(ms) /\ \A k \in (c + 1)..(e + 1) : IsResult(ms[k])
    BY <1>1, <1>5, <2>1
  <2>3. e + 1 \in E
    BY <2>2
  <2> HIDE DEF E
  <2> QED
    BY <1>1, <1>3, <1>5, <2>3
<1>8. c + (e - c) = e
  BY <1>1, <1>5
<1>9. Run(ms, c, e - c)
  BY <1>5, <1>6, <1>7, <1>8 DEF Run
<1> QED
  BY <1>4, <1>5, <1>9

LEMMA RunUnique ==
    ASSUME NEW ms \in Seq(Proper), NEW c \in DOMAIN ms, NEW n \in Nat, NEW m \in Nat,
           Run(ms, c, n), Run(ms, c, m)
    PROVE  n = m
<1>1. Len(ms) \in Nat /\ c \in Nat
  BY ProperRows
<1>2. ASSUME NEW a \in Nat, NEW b \in Nat, Run(ms, c, a), Run(ms, c, b)
      PROVE  ~(a < b)
  <2> SUFFICES ASSUME a < b PROVE FALSE
    OBVIOUS
  <2>1. c + b <= Len(ms)
    BY <1>2 DEF Run
  <2>3. c + a + 1 \in (c + 1)..(c + b) /\ c + a < Len(ms)
    BY <1>1, <1>2, <2>1
  <2> QED
    BY <1>2, <2>3 DEF Run
<1> QED
  BY <1>2

(* The results of an exchange are those that follow it: so many there are.  *)
LEMMA RunCounts ==
    ASSUME NEW ms \in Seq(Proper), Tight(ms), Once(ms), NEW c \in DOMAIN ms,
           MakesCalls(ms[c]), NEW n \in Nat, Run(ms, c, n)
    PROVE  Answered(ms, ms[c].of) = n
<1> DEFINE R == {i \in DOMAIN ms : IsResult(ms[i]) /\ ms[i].of = ms[c].of}
<1>1. /\ DOMAIN ms = 1..Len(ms) /\ Len(ms) \in Nat /\ c \in Nat
      /\ \A k \in DOMAIN ms : IsResult(ms[k]) => ~MakesCalls(ms[k])
  BY ProperRows
<1>2. ASSUME NEW i \in R PROVE i \in (c + 1)..(c + n)
  <2>1. i \in DOMAIN ms /\ i \in Nat /\ IsResult(ms[i]) /\ ms[i].of = ms[c].of
    BY <1>1
  <2>2. PICK d \in 1..i : /\ MakesCalls(ms[d]) /\ ms[d].of = ms[i].of
                          /\ \A k \in (d + 1)..i : IsResult(ms[k])
    BY <2>1, HasCall DEF Belongs
  <2>3. d \in DOMAIN ms
    BY <1>1, <2>1
  <2>4. d = c
    BY <2>1, <2>2, <2>3 DEF Once
  <2>5. c # i /\ c <= i
    BY <1>1, <2>1, <2>2, <2>4
  <2>6. ~(i > c + n)
    <3> SUFFICES ASSUME i > c + n PROVE FALSE
      OBVIOUS
    <3>1. c + n + 1 \in (d + 1)..i /\ c + n < Len(ms)
      BY <1>1, <2>1, <2>4
    <3> QED
      BY <2>2, <3>1 DEF Run
  <2> QED
    BY <1>1, <2>1, <2>5, <2>6
<1>3. ASSUME NEW i \in (c + 1)..(c + n) PROVE i \in R
  BY <1>1 DEF Run
<1>4. R = (c + 1)..(c + n)
  BY <1>2, <1>3
<1>5. Cardinality((c + 1)..(c + n)) = n
  <2>1. /\ c + 1 \in Int /\ c + n \in Int
        /\ (IF c + 1 > c + n THEN 0 ELSE (c + n) - (c + 1) + 1) = n
    BY <1>1
  <2> HIDE DEF R
  <2> QED
    BY <2>1, FS_Interval
<1> QED
  BY <1>4, <1>5 DEF Answered

LEMMA WholeSelf ==
    ASSUME NEW ms \in Seq(Proper), Tight(ms), Once(ms)
    PROVE  Whole(ms, ms)
<1> SUFFICES ASSUME NEW c \in DOMAIN ms, MakesCalls(ms[c])
             PROVE  Run(ms, c, Answered(ms, ms[c].of))
  BY DEF Whole
<1> DEFINE n == ExchangeEnd(ms, c) - c
<1>1. n \in Nat /\ Run(ms, c, n)
  <2>1. c \in Nat /\ Len(ms) \in Nat
    BY ProperRows
  <2> QED
    BY <2>1, EndIsRun
<1> HIDE DEF n
<1> QED
  BY <1>1, RunCounts

LEMMA CountType ==
    ASSUME NEW rows \in Seq(Proper), NEW of
    PROVE  Answered(rows, of) \in Nat
<1>1. IsFiniteSet(DOMAIN rows)
  BY ProperRows, FS_Interval
<1> QED
  BY <1>1, FS_Subset, FS_CardinalityType DEF Answered

(* What a request has to be follows.                                        *)
LEMMA PairsFrom ==
    ASSUME NEW ms \in Seq(Proper), NEW rows \in Seq(Proper), Tight(ms), Once(ms),
           Whole(ms, rows)
    PROVE  /\ \A i \in DOMAIN ms :
                 MakesCalls(ms[i]) => ExchangeEnd(ms, i) - i = Answered(rows, ms[i].of)
           /\ \A i \in Results(ms) :
                 \E j \in 1..(i - 1) : /\ MakesCalls(ms[j]) /\ ms[j].of = ms[i].of
                                       /\ ExchangeEnd(ms, j) >= i
<1>1. /\ DOMAIN ms = 1..Len(ms) /\ Len(ms) \in Nat
      /\ \A k \in DOMAIN ms : IsResult(ms[k]) => ~MakesCalls(ms[k])
  BY ProperRows
<1>2. ASSUME NEW i \in DOMAIN ms, MakesCalls(ms[i])
      PROVE  ExchangeEnd(ms, i) - i = Answered(rows, ms[i].of)
  <2>1. Run(ms, i, Answered(rows, ms[i].of)) /\ Answered(rows, ms[i].of) \in Nat
    BY <1>2, CountType DEF Whole
  <2>2. Run(ms, i, ExchangeEnd(ms, i) - i) /\ ExchangeEnd(ms, i) - i \in Nat
    BY <1>1, <1>2, EndIsRun
  <2> QED
    BY <2>1, <2>2, RunUnique
<1>3. ASSUME NEW i \in Results(ms)
      PROVE  \E j \in 1..(i - 1) : /\ MakesCalls(ms[j]) /\ ms[j].of = ms[i].of
                                   /\ ExchangeEnd(ms, j) >= i
  <2>1. i \in DOMAIN ms /\ i \in Nat /\ IsResult(ms[i])
    BY <1>1 DEF Results
  <2>2. PICK c \in 1..i : /\ MakesCalls(ms[c]) /\ ms[c].of = ms[i].of
                          /\ \A k \in (c + 1)..i : IsResult(ms[k])
    BY <2>1, HasCall DEF Belongs
  <2>3. c \in DOMAIN ms /\ c \in 1..(i - 1)
    BY <1>1, <2>1, <2>2
  <2> DEFINE e == ExchangeEnd(ms, c)
  <2>4. e \in c..Len(ms) /\ Run(ms, c, e - c)
    BY <2>2, <2>3, EndIsRun
  <2> HIDE DEF e
  <2>5. ~(e < i)
    <3> SUFFICES ASSUME e < i PROVE FALSE
      OBVIOUS
    <3>1. e \in Nat /\ c + (e - c) = e /\ e < Len(ms) /\ e + 1 \in (c + 1)..i
      BY <1>1, <2>1, <2>3, <2>4
    <3> QED
      BY <2>2, <2>4, <3>1 DEF Run
  <2>6. e >= i
    BY <1>1, <2>1, <2>3, <2>4, <2>5
  <2> QED
    BY <2>2, <2>3, <2>6 DEF e
<1> QED
  BY <1>2, <1>3

-----------------------------------------------------------------------------
(* Rows added at the end                                                    *)

LEMMA Appended ==
    ASSUME NEW ms \in Seq(Proper), NEW r \in Proper
    PROVE  LET a == Append(ms, r)
           IN  /\ a \in Seq(Proper) /\ Len(a) = Len(ms) + 1 /\ DOMAIN a = 1..(Len(ms) + 1)
               /\ DOMAIN ms = 1..Len(ms) /\ Len(ms) \in Nat
               /\ \A i \in 1..Len(ms) : a[i] = ms[i]
               /\ a[Len(ms) + 1] = r
               /\ a # <<>> /\ ms \o <<r>> = a
  OBVIOUS

LEMMA AddPlain ==
    ASSUME NEW ms, NEW n \in Nat, Sound(ms, n), NEW m \in Nat, n <= m, NEW r \in Proper,
           ~IsResult(r), r.of <= m, MakesCalls(r) => r.of > n
    PROVE  Sound(Append(ms, r), m)
<1> DEFINE a == Append(ms, r)
           l == Len(ms)
<1>1. ms \in Seq(Proper) /\ Tight(ms) /\ Once(ms) /\ Upto(ms, n)
  BY DEF Sound
<1>2. /\ a \in Seq(Proper) /\ DOMAIN a = 1..(l + 1) /\ DOMAIN ms = 1..l /\ l \in Nat
      /\ \A i \in 1..l : a[i] = ms[i]
      /\ a[l + 1] = r
  BY <1>1, Appended
<1>3. r.of \in Nat /\ \A i \in 1..l : ms[i].of \in Nat /\ ms[i].of <= n
  <2>1. r.of \in Nat
    BY DEF Proper, RowType
  <2> QED
    BY <1>1, <1>2, <2>1, ProperRows DEF Upto
<1> HIDE DEF a, l
<1>4. \A i \in 1..(l + 1) : i \in 1..l \/ i = l + 1
  BY <1>2
<1>5. Tight(a)
  <2> SUFFICES ASSUME NEW i \in 1..(l + 1), IsResult(a[i]) PROVE Linked(a, i)
    BY <1>2 DEF Tight
  <2>1. i \in 1..l
    BY <1>2, <1>4
  <2>2. Linked(ms, i)
    BY <1>1, <1>2, <2>1 DEF Tight
  <2>3. i - 1 \in 1..l
    BY <1>2, <2>1, <2>2 DEF Linked
  <2> QED
    BY <1>2, <2>1, <2>2, <2>3 DEF Linked
<1>6. Once(a)
  <2> SUFFICES ASSUME NEW i \in 1..(l + 1), NEW j \in 1..(l + 1), MakesCalls(a[i]),
                      MakesCalls(a[j]), a[i].of = a[j].of
               PROVE  i = j
    BY <1>2 DEF Once
  <2>1. CASE i \in 1..l /\ j \in 1..l
    BY <1>1, <1>2, <2>1 DEF Once
  <2>2. CASE i = l + 1 /\ j \in 1..l
    BY <1>2, <1>3, <2>2
  <2>3. CASE i \in 1..l /\ j = l + 1
    BY <1>2, <1>3, <2>3
  <2> QED
    BY <1>4, <2>1, <2>2, <2>3
<1>7. Upto(a, m)
  <2> SUFFICES ASSUME NEW i \in 1..(l + 1) PROVE a[i].of <= m
    BY <1>2 DEF Upto
  <2>1. CASE i \in 1..l
    BY <1>2, <1>3, <2>1
  <2>2. CASE i = l + 1
    BY <1>2, <2>2
  <2> QED
    BY <1>4, <2>1, <2>2
<1> QED
  BY <1>2, <1>5, <1>6, <1>7 DEF Sound, a

LEMMA AddResult ==
    ASSUME NEW ms, NEW n \in Nat, Sound(ms, n), NEW r \in Proper, IsResult(r), Ends(ms, r.of)
    PROVE  Sound(Append(ms, r), n) /\ Ends(Append(ms, r), r.of)
<1> DEFINE a == Append(ms, r)
           l == Len(ms)
<1>1. ms \in Seq(Proper) /\ Tight(ms) /\ Once(ms) /\ Upto(ms, n)
  BY DEF Sound
<1>2. /\ a \in Seq(Proper) /\ DOMAIN a = 1..(l + 1) /\ DOMAIN ms = 1..l /\ l \in Nat
      /\ Len(a) = l + 1 /\ a # <<>>
      /\ \A i \in 1..l : a[i] = ms[i]
      /\ a[l + 1] = r
  BY <1>1, Appended
<1>3. ~MakesCalls(r)
  BY DEF Proper, RowType, IsResult
<1>4. l \in 1..l /\ Belongs(ms[l]) /\ ms[l].of = r.of
  BY <1>1, <1>2 DEF Ends
<1> HIDE DEF a, l
<1>5. \A i \in 1..(l + 1) : i \in 1..l \/ i = l + 1
  BY <1>2
<1>6. Tight(a)
  <2> SUFFICES ASSUME NEW i \in 1..(l + 1), IsResult(a[i]) PROVE Linked(a, i)
    BY <1>2 DEF Tight
  <2>1. CASE i \in 1..l
    <3>1. Linked(ms, i)
      BY <1>1, <1>2, <2>1 DEF Tight
    <3>2. i - 1 \in 1..l
      BY <1>2, <2>1, <3>1 DEF Linked
    <3> QED
      BY <1>2, <2>1, <3>1, <3>2 DEF Linked
  <2>2. CASE i = l + 1
    <3>1. i > 1 /\ i - 1 = l
      BY <1>2, <1>4, <2>2
    <3> QED
      BY <1>2, <1>4, <2>2, <3>1 DEF Linked
  <2> QED
    BY <1>5, <2>1, <2>2
<1>7. Once(a)
  <2> SUFFICES ASSUME NEW i \in 1..(l + 1), NEW j \in 1..(l + 1), MakesCalls(a[i]),
                      MakesCalls(a[j]), a[i].of = a[j].of
               PROVE  i = j
    BY <1>2 DEF Once
  <2>1. i \in 1..l /\ j \in 1..l
    BY <1>2, <1>3, <1>5
  <2> QED
    BY <1>1, <1>2, <2>1 DEF Once
<1>8. Upto(a, n)
  BY <1>1, <1>2, <1>4, <1>5 DEF Upto
<1>9. Ends(a, r.of)
  BY <1>2 DEF Ends, Belongs
<1> QED
  BY <1>2, <1>6, <1>7, <1>8, <1>9 DEF Sound, a

LEMMA CountPlain ==
    ASSUME NEW rows \in Seq(Proper), NEW r \in Proper, NEW of, ~IsResult(r) \/ r.of # of
    PROVE  Answered(Append(rows, r), of) = Answered(rows, of)
<1> DEFINE a == Append(rows, r)
           l == Len(rows)
<1>1. /\ DOMAIN a = 1..(l + 1) /\ DOMAIN rows = 1..l /\ l \in Nat
      /\ \A i \in 1..l : a[i] = rows[i]
      /\ a[l + 1] = r
  BY Appended
<1> HIDE DEF a, l
<1>2. \A i \in 1..(l + 1) : i \in 1..l \/ i = l + 1
  BY <1>1
<1>3. 1..l \subseteq 1..(l + 1)
  BY <1>1
<1>4. {i \in DOMAIN a : IsResult(a[i]) /\ a[i].of = of}
         = {i \in DOMAIN rows : IsResult(rows[i]) /\ rows[i].of = of}
  BY <1>1, <1>2, <1>3
<1> QED
  BY <1>4 DEF Answered, a

LEMMA CountResult ==
    ASSUME NEW rows \in Seq(Proper), NEW r \in Proper, IsResult(r)
    PROVE  Answered(Append(rows, r), r.of) = Answered(rows, r.of) + 1
<1> DEFINE a == Append(rows, r)
           l == Len(rows)
           R == {i \in DOMAIN rows : IsResult(rows[i]) /\ rows[i].of = r.of}
<1>1. /\ DOMAIN a = 1..(l + 1) /\ DOMAIN rows = 1..l /\ l \in Nat
      /\ \A i \in 1..l : a[i] = rows[i]
      /\ a[l + 1] = r
  BY Appended
<1> HIDE DEF a, l
<1>2. /\ \A i \in 1..(l + 1) : i \in 1..l \/ i = l + 1
      /\ 1..l \subseteq 1..(l + 1) /\ l + 1 \in 1..(l + 1) /\ l + 1 \notin 1..l
  BY <1>1
<1>3. {i \in DOMAIN a : IsResult(a[i]) /\ a[i].of = r.of} = R \cup {l + 1}
  BY <1>1, <1>2
<1>4. IsFiniteSet(R) /\ l + 1 \notin R
  <2>1. IsFiniteSet(DOMAIN rows)
    BY <1>1, FS_Interval
  <2> QED
    BY <1>1, <1>2, <2>1, FS_Subset
<1>5. Cardinality(R \cup {l + 1}) = Cardinality(R) + 1
  <2> HIDE DEF R
  <2> QED
    BY <1>4, FS_AddElement
<1> QED
  BY <1>3, <1>5 DEF Answered, a

LEMMA CountNone ==
    ASSUME NEW rows \in Seq(Proper), NEW n \in Nat, Upto(rows, n), NEW of \in Nat, of > n
    PROVE  Answered(rows, of) = 0
<1>1. {i \in DOMAIN rows : IsResult(rows[i]) /\ rows[i].of = of} = {}
  BY ProperRows DEF Upto
<1> QED
  BY <1>1, FS_EmptySet DEF Answered

LEMMA WholePlain ==
    ASSUME NEW ms, NEW n \in Nat, Sound(ms, n), NEW rows \in Seq(Proper), NEW more,
           Whole(ms, rows),
           NEW r \in Proper, ~IsResult(r),
           \A of \in 0..n : Answered(more, of) = Answered(rows, of),
           MakesCalls(r) => Answered(more, r.of) = 0
    PROVE  Whole(Append(ms, r), more)
<1> DEFINE a == Append(ms, r)
           l == Len(ms)
<1>1. ms \in Seq(Proper) /\ Upto(ms, n)
  BY DEF Sound
<1>2. /\ DOMAIN a = 1..(l + 1) /\ DOMAIN ms = 1..l /\ l \in Nat /\ Len(a) = l + 1
      /\ \A i \in 1..l : a[i] = ms[i]
      /\ a[l + 1] = r
  BY <1>1, Appended
<1>3. \A i \in 1..l : ms[i].of \in 0..n
  <2>1. \A i \in DOMAIN ms : ms[i].of \in Nat /\ ms[i].of <= n
    BY <1>1, ProperRows DEF Upto
  <2> QED
    BY <1>2, <2>1
<1>10. l = Len(ms)
  OBVIOUS
<1> HIDE DEF a, l
<1> SUFFICES ASSUME NEW i \in 1..(l + 1), MakesCalls(a[i])
             PROVE  Run(a, i, Answered(more, a[i].of))
  BY <1>2 DEF Whole, a
<1>4. CASE i = l + 1
  <2>1. Answered(more, a[i].of) = 0
    BY <1>2, <1>4
  <2>2. Run(a, i, 0)
    BY <1>2, <1>4 DEF Run
  <2> QED
    BY <2>1, <2>2
<1>5. CASE i \in 1..l
  <2> DEFINE m == Answered(rows, ms[i].of)
  <2>1. Run(ms, i, m) /\ Answered(more, a[i].of) = m /\ m \in Nat
    BY <1>2, <1>3, <1>5, CountType DEF Whole
  <2> HIDE DEF m
  <2>2. SUFFICES Run(a, i, m)
    BY <2>1
  <2>3. i + m <= l /\ i + m \in Nat
    BY <1>5, <1>10, <2>1 DEF Run
  <2>4. \A k \in (i + 1)..(i + m) : IsResult(a[k]) /\ a[k].of = a[i].of
    <3> SUFFICES ASSUME NEW k \in (i + 1)..(i + m)
                 PROVE  IsResult(a[k]) /\ a[k].of = a[i].of
      OBVIOUS
    <3>0. i \in Nat
      BY <1>5
    <3>1. k \in 1..l
      BY <1>2, <2>1, <2>3, <3>0
    <3> QED
      BY <1>2, <1>5, <2>1, <3>1 DEF Run
  <2>5. i + m < l + 1 => ~IsResult(a[i + m + 1])
    <3>1. CASE i + m = l
      BY <1>2, <3>1
    <3>2. CASE i + m # l
      <4>1. i + m < l /\ i + m + 1 \in 1..l
        BY <1>2, <2>3, <3>2
      <4>2. ~IsResult(ms[i + m + 1])
        BY <1>10, <2>1, <4>1 DEF Run
      <4> QED
        BY <1>2, <4>1, <4>2
    <3> QED
      BY <3>1, <3>2
  <2> HIDE DEF a
  <2> QED
    BY <1>2, <2>3, <2>4, <2>5 DEF Run
<1> QED
  BY <1>2, <1>4, <1>5


(* A result more of the exchange that the rows end with.                    *)
LEMMA WholeResult ==
    ASSUME NEW ms, NEW n \in Nat, Sound(ms, n), NEW rows \in Seq(Proper), Whole(ms, rows),
           NEW r \in Proper, IsResult(r), Ends(ms, r.of), NEW s \in Proper, IsResult(s),
           s.of = r.of
    PROVE  Whole(Append(ms, s), Append(rows, r))
<1> DEFINE a == Append(ms, s)
           l == Len(ms)
           more == Append(rows, r)
<1>1. ms \in Seq(Proper) /\ Tight(ms) /\ Once(ms)
  BY DEF Sound
<1>2. /\ DOMAIN a = 1..(l + 1) /\ DOMAIN ms = 1..l /\ l \in Nat /\ Len(a) = l + 1
      /\ \A i \in 1..l : a[i] = ms[i]
      /\ a[l + 1] = s
  BY <1>1, Appended
<1>3. ~MakesCalls(s)
  BY DEF Proper, RowType, IsResult
<1>4. l = Len(ms) /\ l \in 1..l /\ Belongs(ms[l]) /\ ms[l].of = r.of
  BY <1>1, <1>2 DEF Ends
<1>5. /\ \A of : of # r.of => Answered(more, of) = Answered(rows, of)
      /\ Answered(more, r.of) = Answered(rows, r.of) + 1
      /\ \A of : Answered(rows, of) \in Nat
  BY CountPlain, CountResult, CountType
<1> HIDE DEF a, l, more
<1> SUFFICES ASSUME NEW i \in 1..(l + 1), MakesCalls(a[i])
             PROVE  Run(a, i, Answered(more, a[i].of))
  BY <1>2 DEF Whole, a, more
<1>6. i \in 1..l /\ i \in Nat /\ MakesCalls(ms[i])
  <2>1. i # l + 1
    BY <1>2, <1>3
  <2> QED
    BY <1>2, <2>1
<1> DEFINE m == Answered(rows, ms[i].of)
<1>7. Run(ms, i, m) /\ m \in Nat
  BY <1>2, <1>5, <1>6 DEF Whole
<1>8. i + m <= l
  BY <1>4, <1>7 DEF Run
<1>9. \A k \in (i + 1)..(i + m) : IsResult(a[k]) /\ a[k].of = a[i].of
  <2> SUFFICES ASSUME NEW k \in (i + 1)..(i + m)
               PROVE  IsResult(a[k]) /\ a[k].of = a[i].of
    OBVIOUS
  <2> HIDE DEF m
  <2>1. k \in 1..l
    BY <1>2, <1>6, <1>7, <1>8
  <2> QED
    BY <1>2, <1>6, <1>7, <2>1 DEF Run
<1>10. CASE ms[i].of = r.of
  <2>1. i + m = l
    <3>1. PICK c \in 1..l : /\ MakesCalls(ms[c]) /\ ms[c].of = ms[l].of
                            /\ \A k \in (c + 1)..l : IsResult(ms[k])
      BY <1>1, <1>2, <1>4, HasCall
    <3>2. c = i
      BY <1>1, <1>2, <1>4, <1>6, <1>10, <3>1 DEF Once
    <3> HIDE DEF m
    <3>3. ~(i + m < l)
      <4> SUFFICES ASSUME i + m < l PROVE FALSE
        OBVIOUS
      <4>1. i + m + 1 \in (c + 1)..l
        BY <1>2, <1>6, <1>7, <3>2
      <4>2. ~IsResult(ms[i + m + 1])
        BY <1>4, <1>7 DEF Run
      <4> QED
        BY <3>1, <4>1, <4>2
    <3> QED
      BY <1>2, <1>6, <1>7, <1>8, <3>3
  <2>2. Answered(more, a[i].of) = m + 1
    BY <1>2, <1>5, <1>6, <1>10
  <2> HIDE DEF m
  <2>3. SUFFICES Run(a, i, m + 1)
    BY <2>2
  <2>4. \A k \in (i + 1)..(i + (m + 1)) : k \in (i + 1)..(i + m) \/ k = l + 1
    BY <1>2, <1>6, <1>7, <2>1
  <2>5. i + (m + 1) = l + 1 /\ a[l + 1].of = a[i].of /\ IsResult(a[l + 1])
    BY <1>2, <1>6, <1>7, <1>10, <2>1
  <2> QED
    BY <1>2, <1>9, <2>4, <2>5 DEF Run
<1>11. CASE ms[i].of # r.of
  <2>1. Answered(more, a[i].of) = m
    BY <1>2, <1>5, <1>6, <1>11
  <2>2. i + m < l
    <3> SUFFICES ASSUME i + m = l PROVE FALSE
      <4> HIDE DEF m
      <4> QED
        BY <1>2, <1>6, <1>7, <1>8
    <3> HIDE DEF m
    <3>1. CASE m = 0
      BY <1>4, <1>6, <1>11, <3>1
    <3>2. CASE m # 0
      <4>1. l \in (i + 1)..(i + m)
        BY <1>6, <1>7, <3>2
      <4> QED
        BY <1>4, <1>7, <1>11, <4>1 DEF Run
    <3> QED
      BY <3>1, <3>2
  <2> HIDE DEF m
  <2>3. i + m + 1 \in 1..l /\ ~IsResult(ms[i + m + 1])
    BY <1>2, <1>4, <1>6, <1>7, <2>2 DEF Run
  <2>4. ~IsResult(a[i + m + 1])
    BY <1>2, <2>3
  <2>5. Run(a, i, m)
    <3>1. i + m <= l + 1
      BY <1>2, <1>6, <1>7, <2>2
    <3> QED
      BY <1>2, <1>9, <2>4, <3>1 DEF Run
  <2> QED
    BY <2>1, <2>5
<1> QED
  BY <1>10, <1>11

-----------------------------------------------------------------------------
(* Rows picked out of a list: b has p rows of no exchange and then, in       *)
(* their order, rows of a, up to their length; f tells which.               *)

Alike(r, s) == r.role = s.role /\ r.calls = s.calls /\ r.of = s.of

Picked(a, b, p, f) ==
    /\ p \in 0..Len(b)
    /\ f \in [(p + 1)..Len(b) -> 1..Len(a)]
    /\ \A k, l \in (p + 1)..Len(b) : k < l => f[k] < f[l]
    /\ \A k \in (p + 1)..Len(b) : Alike(b[k], a[f[k]])
    /\ \A k \in 1..p : ~Belongs(b[k]) /\ b[k].of = 0

(* No result without the row in front of it ...                             *)
Behind(b, p, f) ==
    \A k \in (p + 1)..Len(b) : IsResult(b[k]) => k > p + 1 /\ f[k - 1] = f[k] - 1

(* ... and no row of an exchange without the result that follows.           *)
Before(a, b, p, f) ==
    \A k \in (p + 1)..Len(b) :
        Belongs(b[k]) /\ f[k] < Len(a) /\ IsResult(a[f[k] + 1])
           => k < Len(b) /\ f[k + 1] = f[k] + 1

LEMMA PickedSound ==
    ASSUME NEW a, NEW n \in Nat, Sound(a, n), NEW b \in Seq(Proper), NEW p, NEW f,
           Picked(a, b, p, f), Behind(b, p, f)
    PROVE  Sound(b, n)
<1>1. a \in Seq(Proper) /\ Tight(a) /\ Once(a) /\ Upto(a, n)
  BY DEF Sound
<1>2. /\ DOMAIN a = 1..Len(a) /\ Len(a) \in Nat /\ DOMAIN b = 1..Len(b) /\ Len(b) \in Nat
      /\ p \in Nat /\ p <= Len(b)
  BY <1>1, ProperRows DEF Picked
<1>3. /\ \A k \in 1..Len(b) : k \in 1..p \/ k \in (p + 1)..Len(b)
      /\ \A k \in (p + 1)..Len(b) : k \in 1..Len(b) /\ k \in Nat
  BY <1>2
<1>4. \A k \in (p + 1)..Len(b) : f[k] \in 1..Len(a) /\ f[k] \in Nat
  BY <1>2 DEF Picked
<1>5. Tight(b)
  <2> SUFFICES ASSUME NEW k \in 1..Len(b), IsResult(b[k]) PROVE Linked(b, k)
    BY <1>2 DEF Tight
  <2>1. k \in (p + 1)..Len(b)
    BY <1>3 DEF Picked, Belongs
  <2>2. k > p + 1 /\ f[k - 1] = f[k] - 1 /\ k - 1 \in (p + 1)..Len(b)
    BY <1>2, <2>1 DEF Behind
  <2>3. Alike(b[k], a[f[k]]) /\ Alike(b[k - 1], a[f[k - 1]])
    BY <2>1, <2>2 DEF Picked
  <2>4. Linked(a, f[k])
    BY <1>1, <1>2, <1>4, <2>1, <2>3 DEF Tight, Alike, IsResult
  <2> QED
    BY <1>2, <2>1, <2>2, <2>3, <2>4 DEF Linked, Alike, Belongs, IsResult, MakesCalls
<1>6. Once(b)
  <2> SUFFICES ASSUME NEW k \in 1..Len(b), NEW l \in 1..Len(b), MakesCalls(b[k]),
                      MakesCalls(b[l]), b[k].of = b[l].of
               PROVE  k = l
    BY <1>2 DEF Once
  <2>1. k \in (p + 1)..Len(b) /\ l \in (p + 1)..Len(b)
    BY <1>3 DEF Picked, Belongs
  <2>2. Alike(b[k], a[f[k]]) /\ Alike(b[l], a[f[l]])
    BY <2>1 DEF Picked
  <2>3. f[k] = f[l]
    <3>1. f[k] \in DOMAIN a /\ f[l] \in DOMAIN a
      BY <1>2, <1>4, <2>1
    <3> QED
      BY <1>1, <2>2, <3>1 DEF Once, Alike, MakesCalls
  <2>4. ~(k < l) /\ ~(l < k)
    <3>1. f[k] \in Nat /\ f[l] \in Nat
      BY <1>4, <2>1
    <3>2. (k < l => f[k] < f[l]) /\ (l < k => f[l] < f[k])
      BY <2>1 DEF Picked
    <3> QED
      BY <2>3, <3>1, <3>2
  <2> QED
    BY <1>3, <2>1, <2>4
<1>7. Upto(b, n)
  <2> SUFFICES ASSUME NEW k \in 1..Len(b) PROVE b[k].of <= n
    BY <1>2 DEF Upto
  <2>1. CASE k \in 1..p
    BY <2>1 DEF Picked
  <2>2. CASE k \in (p + 1)..Len(b)
    <3>1. Alike(b[k], a[f[k]])
      BY <2>2 DEF Picked
    <3> QED
      BY <1>1, <1>2, <1>4, <2>2, <3>1 DEF Upto, Alike
  <2> QED
    BY <1>3, <2>1, <2>2
<1> QED
  BY <1>5, <1>6, <1>7 DEF Sound

LEMMA PickedWhole ==
    ASSUME NEW a \in Seq(Proper), NEW b \in Seq(Proper), NEW p, NEW f,
           Picked(a, b, p, f), Behind(b, p, f), Before(a, b, p, f),
           NEW rows \in Seq(Proper), Whole(a, rows)
    PROVE  Whole(b, rows)
<1>2. /\ DOMAIN a = 1..Len(a) /\ Len(a) \in Nat /\ DOMAIN b = 1..Len(b) /\ Len(b) \in Nat
      /\ p \in Nat /\ p <= Len(b)
  BY ProperRows DEF Picked
<1>3. /\ \A k \in 1..Len(b) : k \in 1..p \/ k \in (p + 1)..Len(b)
      /\ \A k \in (p + 1)..Len(b) : k \in 1..Len(b) /\ k \in Nat
  BY <1>2
<1>4. \A k \in (p + 1)..Len(b) : f[k] \in 1..Len(a) /\ f[k] \in Nat
  BY <1>2 DEF Picked
<1> SUFFICES ASSUME NEW k \in 1..Len(b), MakesCalls(b[k])
             PROVE  Run(b, k, Answered(rows, b[k].of))
  BY <1>2 DEF Whole
<1> DEFINE m == Answered(rows, b[k].of)
<1>5. k \in (p + 1)..Len(b) /\ k \in Nat /\ Alike(b[k], a[f[k]])
  BY <1>3 DEF Picked, Belongs
<1> DEFINE h == f[k]
<1>12. h \in Nat /\ h \in 1..Len(a) /\ Alike(b[k], a[h]) /\ f[k] = h
  BY <1>4, <1>5
<1>6. m \in Nat /\ Run(a, h, m)
  BY <1>2, <1>5, <1>12, CountType DEF Whole, Alike, MakesCalls
<1> HIDE DEF m, h
<1>7. h + m <= Len(a)
  BY <1>6 DEF Run
<1>8. \A j \in 0..m : k + j <= Len(b) /\ f[k + j] = h + j
  <2> DEFINE Good(j) == k + j <= Len(b) /\ f[k + j] = h + j
             T == {j \in Nat : j <= m /\ ~Good(j)}
  <2>1. T = {}
    <3> SUFFICES ASSUME T # {} PROVE FALSE
      OBVIOUS
    <3>1. PICK j \in T : \A i \in T : j <= i
      <4> HIDE DEF Good
      <4> QED
        BY Least
    <3>2. j \in Nat /\ j <= m /\ ~Good(j)
      OBVIOUS
    <3>3. j # 0
      BY <1>2, <1>5, <1>12, <3>2
    <3>4. j - 1 \in Nat /\ Good(j - 1)
      <4>1. j - 1 \in Nat /\ j - 1 <= m /\ ~(j <= j - 1)
        BY <1>6, <3>2, <3>3
      <4> HIDE DEF Good
      <4> QED
        BY <3>1, <4>1
    <3> DEFINE i == k + (j - 1)
    <3>5. i \in (p + 1)..Len(b) /\ f[i] = h + (j - 1) /\ i + 1 = k + j
      BY <1>2, <1>5, <3>2, <3>4
    <3> HIDE DEF i
    <3>6. Alike(b[i], a[f[i]]) /\ f[i] < Len(a) /\ f[i] + 1 = h + j /\ f[i] \in Nat
      <4>1. f[i] + 1 = h + j /\ f[i] < Len(a) /\ f[i] \in Nat
        BY <1>2, <1>6, <1>7, <1>12, <3>2, <3>4, <3>5
      <4> QED
        BY <3>5, <4>1 DEF Picked
    <3>7. Belongs(b[i])
      <4>1. CASE j = 1
        <5>1. i = k
          BY <1>5, <4>1 DEF i
        <5> QED
          BY <5>1 DEF Belongs
      <4>2. CASE j # 1
        <5>1. f[i] \in (h + 1)..(h + m)
          BY <1>5, <1>6, <1>12, <3>2, <3>3, <3>5, <4>2
        <5> QED
          BY <1>6, <3>6, <5>1 DEF Run, Belongs, Alike, IsResult
      <4> QED
        BY <4>1, <4>2
    <3>8. IsResult(a[f[i] + 1])
      <4>1. f[i] + 1 \in (h + 1)..(h + m)
        <5>1. j \in Nat /\ j >= 1 /\ j <= m
          BY <3>2, <3>3
        <5>2. h + j \in (h + 1)..(h + m)
          BY <1>6, <1>12, <5>1
        <5> QED
          BY <3>6, <5>2
      <4> QED
        BY <1>6, <4>1 DEF Run
    <3>9. i < Len(b) /\ f[i + 1] = f[i] + 1
      BY <3>5, <3>6, <3>7, <3>8 DEF Before
    <3>10. k + j <= Len(b) /\ f[k + j] = h + j
      <4>1. i \in Nat /\ i + 1 <= Len(b)
        BY <1>2, <3>5, <3>9
      <4>2. f[i + 1] = h + j
        BY <3>6, <3>9
      <4> QED
        BY <3>5, <4>1, <4>2
    <3> QED
      BY <3>2, <3>10
  <2> SUFFICES ASSUME NEW j \in 0..m PROVE Good(j)
    OBVIOUS
  <2>2. j \in Nat /\ j <= m /\ j \notin T
    <3> HIDE DEF Good, T
    <3> QED
      BY <1>6, <2>1
  <2> HIDE DEF Good
  <2> QED
    BY <2>2
<1>9. k + m <= Len(b) /\ f[k + m] = h + m
  BY <1>6, <1>8
<1>10. \A i \in (k + 1)..(k + m) : IsResult(b[i]) /\ b[i].of = b[k].of
  <2> SUFFICES ASSUME NEW i \in (k + 1)..(k + m)
               PROVE  IsResult(b[i]) /\ b[i].of = b[k].of
    OBVIOUS
  <2>1. i - k \in 0..m /\ k + (i - k) = i /\ i \in (p + 1)..Len(b)
    BY <1>2, <1>5, <1>6, <1>9
  <2>2. f[i] = h + (i - k)
    BY <1>8, <2>1
  <2>3. f[i] \in (h + 1)..(h + m)
    BY <1>5, <1>6, <1>12, <2>1, <2>2
  <2>4. Alike(b[i], a[f[i]])
    BY <2>1 DEF Picked
  <2>5. IsResult(a[f[i]]) /\ a[f[i]].of = a[h].of
    BY <1>6, <2>3 DEF Run
  <2> QED
    BY <1>12, <2>4, <2>5 DEF Alike, IsResult
<1>11. k + m < Len(b) => ~IsResult(b[k + m + 1])
  <2> SUFFICES ASSUME k + m < Len(b), IsResult(b[k + m + 1]) PROVE FALSE
    OBVIOUS
  <2>1. k + m + 1 \in (p + 1)..Len(b) /\ (k + m + 1) - 1 = k + m
    BY <1>2, <1>5, <1>6
  <2>2. f[k + m] = f[k + m + 1] - 1 /\ Alike(b[k + m + 1], a[f[k + m + 1]])
    BY <2>1 DEF Behind, Picked
  <2>3. f[k + m + 1] = h + m + 1 /\ h + m < Len(a)
    <3>1. f[k + m + 1] \in Nat /\ f[k + m + 1] \in 1..Len(a)
      BY <1>4, <2>1
    <3>2. f[k + m + 1] = h + m + 1
      <4> DEFINE q == f[k + m + 1]
      <4>1. q - 1 = h + m /\ q \in Nat
        BY <1>9, <2>2, <3>1
      <4> HIDE DEF q
      <4>2. q = h + m + 1
        BY <1>6, <1>12, <4>1
      <4> QED
        BY <4>2 DEF q
    <3> QED
      BY <1>2, <1>6, <1>12, <3>1, <3>2
  <2> QED
    BY <1>6, <2>2, <2>3 DEF Run, Alike, IsResult
<1> QED
  BY <1>9, <1>10, <1>11 DEF Run, m

-----------------------------------------------------------------------------
(* Some rows of a list, in their order                                      *)

LEMMA RowsAtAre ==
    ASSUME NEW rows \in Seq(Proper), NEW S \in SUBSET (1..Len(rows))
    PROVE  LET at == InOrder(S)
               b == RowsAt(rows, S)
               m == Cardinality(S)
           IN  /\ b \in Seq(Proper) /\ Len(b) = m /\ DOMAIN b = 1..m /\ m \in Nat
               /\ DOMAIN at = 1..m
               /\ \A k \in 1..m : at[k] \in S /\ at[k] \in Nat /\ b[k] = rows[at[k]]
<1> DEFINE at == InOrder(S)
           b == RowsAt(rows, S)
           m == Cardinality(S)
<1>1. DOMAIN rows = 1..Len(rows) /\ Len(rows) \in Nat
  BY ProperRows
<1>2. m \in Nat /\ at \in [1..m -> S]
  BY <1>1, InOrderIs
<1>3. b = [k \in DOMAIN at |-> rows[at[k]]]
  BY DEF RowsAt
<1> HIDE DEF at, b, m
<1>4. \A k \in 1..m : at[k] \in S /\ rows[at[k]] \in Proper /\ b[k] = rows[at[k]]
  BY <1>1, <1>2, <1>3, ProperRows
<1>5. b \in [1..m -> Proper]
  <2>1. DOMAIN at = 1..m
    BY <1>2
  <2>2. b = [k \in 1..m |-> rows[at[k]]]
    BY <1>3, <2>1
  <2> QED
    BY <1>4, <2>2
<1>6. b \in Seq(Proper) /\ Len(b) = m /\ DOMAIN b = 1..m
  BY <1>2, <1>5
<1>7. \A k \in 1..m : at[k] \in Nat
  <2>1. \A i \in S : i \in Nat
    OBVIOUS
  <2> QED
    BY <1>4, <2>1
<1> QED
  BY <1>2, <1>4, <1>6, <1>7 DEF at, b, m

(* Of two members next to each other the places are next to each other.     *)
LEMMA Adjacent ==
    ASSUME NEW n \in Nat, NEW S \in SUBSET (1..n), NEW k \in 1..Cardinality(S)
    PROVE  LET at == InOrder(S)
           IN  /\ at[k] + 1 \in S => k < Cardinality(S) /\ at[k + 1] = at[k] + 1
               /\ at[k] - 1 \in S => k > 1 /\ at[k - 1] = at[k] - 1
<1> DEFINE at == InOrder(S)
           m == Cardinality(S)
<1>1. /\ m \in Nat /\ k \in 1..m
      /\ \A i \in 1..m : at[i] \in S
      /\ \A i, j \in 1..m : i < j => at[i] < at[j]
      /\ \A i \in S : \E l \in 1..m : at[l] = i
  BY InOrderIs
<1> HIDE DEF at, m
<1>2. \A i \in 1..m : at[i] \in Nat
  <2>1. \A i \in S : i \in Nat
    OBVIOUS
  <2> QED
    BY <1>1, <2>1
<1>3. ASSUME at[k] + 1 \in S PROVE k < m /\ at[k + 1] = at[k] + 1
  <2>1. PICK l \in 1..m : at[l] = at[k] + 1
    BY <1>1, <1>3
  <2>2. ~(l < k) /\ l # k
    BY <1>1, <1>2, <2>1
  <2>3. ~(k + 1 < l)
    <3> SUFFICES ASSUME k + 1 < l PROVE FALSE
      OBVIOUS
    <3> DEFINE j == k + 1
    <3>1. j \in 1..m /\ k < j
      BY <1>1
    <3> HIDE DEF j
    <3>2. at[k] < at[j] /\ at[j] < at[l] /\ at[j] \in Nat /\ at[k] \in Nat
      BY <1>1, <1>2, <3>1 DEF j
    <3> QED
      BY <2>1, <3>2
  <2>4. l = k + 1
    BY <1>1, <2>2, <2>3
  <2> QED
    BY <1>1, <2>1, <2>4
<1>4. ASSUME at[k] - 1 \in S PROVE k > 1 /\ at[k - 1] = at[k] - 1
  <2>1. PICK l \in 1..m : at[l] = at[k] - 1
    BY <1>1, <1>4
  <2>2. ~(k < l) /\ l # k
    BY <1>1, <1>2, <2>1
  <2>3. ~(l + 1 < k)
    <3> SUFFICES ASSUME l + 1 < k PROVE FALSE
      OBVIOUS
    <3> DEFINE j == l + 1
    <3>1. j \in 1..m /\ l < j
      BY <1>1
    <3> HIDE DEF j
    <3>2. at[l] < at[j] /\ at[j] < at[k] /\ at[j] \in Nat /\ at[k] \in Nat
      BY <1>1, <1>2, <3>1 DEF j
    <3> QED
      BY <2>1, <3>2
  <2>4. l = k - 1
    BY <1>1, <2>2, <2>3
  <2> QED
    BY <1>1, <2>1, <2>4
<1> QED
  BY <1>3, <1>4 DEF at, m

(* The first members, when they are the first numbers.                      *)
LEMMA FirstOnes ==
    ASSUME NEW n \in Nat, NEW S \in SUBSET (1..n), NEW p \in Nat, 1..p \subseteq S
    PROVE  p <= Cardinality(S) /\ \A k \in 1..p : InOrder(S)[k] = k
<1> DEFINE at == InOrder(S)
           m == Cardinality(S)
           Good(k) == k <= m /\ at[k] = k
           T == {k \in Nat : k \in 1..p /\ ~Good(k)}
<1>1. /\ m \in Nat
      /\ \A i \in 1..m : at[i] \in S /\ at[i] \in Nat /\ at[i] >= 1
      /\ \A i, j \in 1..m : i < j => at[i] < at[j]
      /\ \A i \in S : \E l \in 1..m : at[l] = i
  <2>1. \A i \in S : i \in Nat /\ i >= 1
    OBVIOUS
  <2> QED
    BY <2>1, InOrderIs
<1> HIDE DEF at, m
<1>2. T = {}
  <2> SUFFICES ASSUME T # {} PROVE FALSE
    OBVIOUS
  <2>1. PICK k \in T : \A j \in T : k <= j
    <3> HIDE DEF Good
    <3> QED
      BY Least
  <2>2. k \in Nat /\ k \in 1..p /\ ~Good(k)
    OBVIOUS
  <2>3. CASE k = 1
    <3>1. PICK l \in 1..m : at[l] = 1
      BY <1>1, <2>2, <2>3
    <3>2. 1 \in 1..m /\ ~(1 < l)
      BY <1>1, <3>1
    <3>3. l = 1
      BY <3>1, <3>2
    <3> QED
      BY <1>1, <2>2, <2>3, <3>1, <3>2, <3>3
  <2>4. CASE k # 1
    <3>1. k - 1 \in 1..p /\ k - 1 \notin T
      <4>1. k - 1 \in 1..p /\ ~(k <= k - 1)
        BY <2>2, <2>4
      <4> HIDE DEF T
      <4> QED
        BY <2>1, <4>1
    <3>2. k - 1 <= m /\ at[k - 1] = k - 1
      BY <2>2, <3>1
    <3>3. k - 1 \in 1..Cardinality(S) /\ at[k - 1] + 1 \in S
      BY <2>2, <2>4, <3>1, <3>2 DEF m
    <3>4. k - 1 < m /\ at[(k - 1) + 1] = at[k - 1] + 1
      BY <3>3, Adjacent DEF at, m
    <3>5. (k - 1) + 1 = k
      BY <2>2
    <3> QED
      BY <1>1, <2>2, <3>2, <3>4, <3>5
  <2> QED
    BY <2>3, <2>4
<1>3. \A k \in 1..p : Good(k)
  <2> SUFFICES ASSUME NEW k \in 1..p PROVE Good(k)
    OBVIOUS
  <2>1. k \in Nat /\ k \notin T
    BY <1>2
  <2> HIDE DEF Good
  <2> QED
    BY <2>1
<1>4. p <= m
  <2>1. CASE p = 0
    BY <1>1, <2>1
  <2>2. CASE p # 0
    <3>1. p \in 1..p
      BY <2>2
    <3> QED
      BY <1>3, <3>1
  <2> QED
    BY <2>1, <2>2
<1> QED
  BY <1>3, <1>4 DEF at, m

-----------------------------------------------------------------------------
(* The list built from the window                                           *)

LEMMA StartIn ==
    ASSUME NEW rows \in Seq(Proper)
    PROVE  Start(rows) \in {1} \cup DOMAIN rows
<1> DEFINE users == {i \in DOMAIN rows : IsUser(rows[i])}
           over == {i \in DOMAIN rows : WeightFrom(rows, i) > Budget}
           last == IF users = {} THEN 1 ELSE Max(users)
           T == {last} \cup {i \in users : i > Max(over)}
<1>1. DOMAIN rows = 1..Len(rows) /\ Len(rows) \in Nat
  BY ProperRows
<1>2. users \subseteq 1..Len(rows)
  BY <1>1
<1>3. last \in {1} \cup users
  <2>1. CASE users = {}
    BY <2>1
  <2>2. CASE users # {}
    <3>1. users \in SUBSET (0..Len(rows))
      BY <1>1, <1>2
    <3> HIDE DEF users
    <3>2. Max(users) \in users
      BY <1>1, <2>2, <3>1, Greatest
    <3> QED
      BY <2>2, <3>2
  <2> QED
    BY <2>1, <2>2
<1>4. T \subseteq {1} \cup (1..Len(rows)) /\ T # {}
  <2> HIDE DEF users, last, over
  <2> QED
    BY <1>2, <1>3
<1>5. Min(T) \in T
  <2>1. \A i \in {1} \cup (1..Len(rows)) : i \in 0..(Len(rows) + 1)
    BY <1>1
  <2>2. T \in SUBSET (0..(Len(rows) + 1)) /\ Len(rows) + 1 \in Nat
    <3> HIDE DEF T
    <3> QED
      BY <1>1, <1>4, <2>1
  <2> HIDE DEF T
  <2> QED
    BY <1>4, <2>2, Greatest
<1>6. Start(rows) = IF over = {} THEN 1 ELSE Min(T)
  BY DEF Start
<1> HIDE DEF T, over
<1> QED
  BY <1>1, <1>4, <1>5, <1>6

(* Nothing that belongs to an exchange is missing between the picked rows.  *)
Gapless(a, x, p, g) ==
    \A k \in (p + 1)..Len(x) :
        /\ g[k] < Len(a) /\ Belongs(a[g[k] + 1]) => k < Len(x) /\ g[k + 1] = g[k] + 1
        /\ k > p + 1 /\ Belongs(a[g[k] - 1]) => g[k - 1] = g[k] - 1

(* The rows of the window but for the reasoning.                            *)
LEMMA WindowRows ==
    ASSUME NEW rows \in Seq(Proper), NEW first \in 1..(Len(rows) + 1)
    PROVE  LET win == SubSeq(rows, first, Len(rows))
               s == RowsAt(win, {i \in DOMAIN win : win[i].role # "analysis"})
           IN  s \in Seq(Proper) /\ \E h : Picked(rows, s, 0, h) /\ Gapless(rows, s, 0, h)
<1> DEFINE win == SubSeq(rows, first, Len(rows))
           w == Len(rows) - first + 1
           S == {i \in DOMAIN win : win[i].role # "analysis"}
           s == RowsAt(win, S)
           at == InOrder(S)
           m == Cardinality(S)
           h == [k \in 1..m |-> first - 1 + at[k]]
<1>1. DOMAIN rows = 1..Len(rows) /\ Len(rows) \in Nat /\ first \in Nat
  BY ProperRows
<1>2. /\ w \in Nat /\ win \in Seq(Proper) /\ Len(win) = w /\ DOMAIN win = 1..w
      /\ \A j \in 1..w : win[j] = rows[first - 1 + j] /\ first - 1 + j \in 1..Len(rows)
  <2>1. \A j \in 1..w : first - 1 + j \in 1..Len(rows) /\ first + j - 1 = first - 1 + j
    BY <1>1
  <2>2. win \in Seq(Proper) /\ Len(win) = w /\ w \in Nat
    BY <1>1
  <2>3. \A j \in 1..w : win[j] = rows[first + j - 1]
    BY <1>1
  <2> QED
    BY <2>1, <2>2, <2>3
<1> HIDE DEF win, w
<1>3. S \in SUBSET (1..Len(win))
  BY <1>2
<1>4. /\ s \in Seq(Proper) /\ Len(s) = m /\ m \in Nat
      /\ \A k \in 1..m : at[k] \in S /\ at[k] \in Nat /\ s[k] = win[at[k]]
  <2> HIDE DEF S
  <2> QED
    BY <1>2, <1>3, RowsAtAre
<1>5. \A k, l \in 1..m : k < l => at[k] < at[l]
  <2> HIDE DEF S
  <2> QED
    BY <1>2, <1>3, InOrderIs
<1>6. \A k \in 1..m : /\ at[k] + 1 \in S => k < m /\ at[k + 1] = at[k] + 1
                      /\ at[k] - 1 \in S => k > 1 /\ at[k - 1] = at[k] - 1
  <2> HIDE DEF S
  <2> QED
    BY <1>2, <1>3, Adjacent
<1>7. \A i \in S : i \in 1..w
  BY <1>2
<1>8. \A i \in 1..w : Belongs(rows[first - 1 + i]) => i \in S
  <2> SUFFICES ASSUME NEW i \in 1..w, Belongs(rows[first - 1 + i])
               PROVE  i \in S
    OBVIOUS
  <2>1. win[i] = rows[first - 1 + i] /\ win[i] \in Proper /\ i \in DOMAIN win
    BY <1>2
  <2>2. win[i].role # "analysis"
    BY <2>1 DEF Belongs, IsResult, Proper
  <2> QED
    BY <2>1, <2>2
<1> HIDE DEF s, at, m, S
<1>9. \A k \in 1..m : /\ h[k] = first - 1 + at[k] /\ h[k] \in 1..Len(rows)
                      /\ s[k] = rows[h[k]] /\ at[k] \in 1..w
  BY <1>2, <1>4, <1>7
<1>10. Picked(rows, s, 0, h)
  <2>1. h \in [(0 + 1)..Len(s) -> 1..Len(rows)]
    <3>1. h = [k \in 1..m |-> h[k]] /\ 0 + 1 = 1
      OBVIOUS
    <3> HIDE DEF h
    <3> QED
      BY <1>4, <1>9, <3>1
  <2>2. \A k, l \in 1..m : k < l => h[k] < h[l]
    <3> SUFFICES ASSUME NEW k \in 1..m, NEW l \in 1..m, k < l PROVE h[k] < h[l]
      OBVIOUS
    <3>1. at[k] < at[l] /\ at[k] \in Nat /\ at[l] \in Nat
      BY <1>4, <1>5
    <3> QED
      BY <1>1, <3>1
  <2> HIDE DEF h
  <2>3. \A k \in 1..m : Alike(s[k], rows[h[k]])
    BY <1>9 DEF Alike
  <2>4. 0 + 1 = 1 /\ Len(s) = m /\ 0 \in 0..Len(s) /\ 1..0 = {}
    BY <1>4
  <2> QED
    BY <2>1, <2>2, <2>3, <2>4 DEF Picked
<1>11. Gapless(rows, s, 0, h)
  <2> SUFFICES ASSUME NEW k \in 1..m
               PROVE  /\ h[k] < Len(rows) /\ Belongs(rows[h[k] + 1])
                            => k < m /\ h[k + 1] = h[k] + 1
                      /\ k > 1 /\ Belongs(rows[h[k] - 1]) => h[k - 1] = h[k] - 1
    <3>1. 0 + 1 = 1 /\ Len(s) = m
      BY <1>4
    <3> HIDE DEF h
    <3> QED
      BY <3>1 DEF Gapless
  <2>1. h[k] = first - 1 + at[k] /\ at[k] \in 1..w /\ at[k] \in Nat /\ k \in Nat
    BY <1>4, <1>9
  <2> HIDE DEF h
  <2>2. ASSUME h[k] < Len(rows), Belongs(rows[h[k] + 1])
        PROVE  k < m /\ h[k + 1] = h[k] + 1
    <3>1. at[k] + 1 \in 1..w /\ h[k] + 1 = first - 1 + (at[k] + 1)
      <4>1. h[k] + 1 = first - 1 + (at[k] + 1)
        BY <1>1, <2>1
      <4>2. first - 1 + at[k] < Len(rows)
        BY <2>1, <2>2
      <4>3. at[k] + 1 <= w /\ at[k] + 1 >= 1
        BY <1>1, <2>1, <4>2 DEF w
      <4> QED
        BY <1>2, <2>1, <4>1, <4>3
    <3>2. at[k] + 1 \in S
      BY <1>8, <2>2, <3>1
    <3>3. k < m /\ at[k + 1] = at[k] + 1 /\ k + 1 \in 1..m
      BY <1>4, <1>6, <3>2
    <3> QED
      BY <1>9, <3>1, <3>3
  <2>3. ASSUME k > 1, Belongs(rows[h[k] - 1])
        PROVE  h[k - 1] = h[k] - 1
    <3>1. k - 1 \in 1..m /\ k - 1 < k
      BY <1>4, <2>1, <2>3
    <3>2. at[k - 1] < at[k] /\ at[k - 1] \in 1..w /\ at[k - 1] \in Nat
      BY <1>4, <1>5, <1>9, <3>1
    <3>3. at[k] - 1 \in 1..w /\ h[k] - 1 = first - 1 + (at[k] - 1)
      <4>1. first \in Nat /\ w \in Nat
        BY <1>1, <1>2
      <4>2. at[k] - 1 \in 1..w
        BY ONLY <2>1, <3>2, <4>1
      <4>3. h[k] - 1 = first - 1 + (at[k] - 1)
        BY ONLY <2>1, <4>1
      <4> QED
        BY <4>2, <4>3
    <3>4. at[k] - 1 \in S
      BY <1>8, <2>3, <3>3
    <3>5. at[k - 1] = at[k] - 1
      BY <1>6, <3>4
    <3> QED
      BY <1>9, <3>1, <3>3, <3>5
  <2> QED
    BY <2>2, <2>3
<1> QED
  BY <1>4, <1>10, <1>11 DEF win, s, S

(* What the orphans leave behind: exchanges as whole as they were.          *)
LEMMA OrphansGone ==
    ASSUME NEW a, NEW n \in Nat, Sound(a, n), NEW x \in Seq(Proper), NEW p, NEW g,
           Picked(a, x, p, g), Gapless(a, x, p, g)
    PROVE  LET b == WithoutOrphans(x)
           IN  /\ b \in Seq(Proper) /\ p <= Len(b) /\ \A k \in 1..p : b[k] = x[k]
               /\ \E f : Picked(a, b, p, f) /\ Behind(b, p, f) /\ Before(a, b, p, f)
<1> DEFINE S == {i \in DOMAIN x :
                    IsResult(x[i]) => \E j \in 1..(i - 1) : /\ MakesCalls(x[j])
                                                           /\ x[j].of = x[i].of}
           b == RowsAt(x, S)
           at == InOrder(S)
           m == Cardinality(S)
           f == [k \in (p + 1)..m |-> g[at[k]]]
<1>1. a \in Seq(Proper) /\ Tight(a) /\ Once(a)
  BY DEF Sound
<1>2. /\ DOMAIN a = 1..Len(a) /\ Len(a) \in Nat /\ DOMAIN x = 1..Len(x) /\ Len(x) \in Nat
      /\ p \in Nat /\ p <= Len(x)
  BY <1>1, ProperRows DEF Picked
<1>3. /\ \A k \in 1..Len(x) : k \in 1..p \/ k \in (p + 1)..Len(x)
      /\ \A k \in (p + 1)..Len(x) : k \in 1..Len(x) /\ k \in Nat
  BY <1>2
<1>4. /\ \A k \in (p + 1)..Len(x) : /\ g[k] \in 1..Len(a) /\ g[k] \in Nat
                                    /\ Alike(x[k], a[g[k]])
      /\ \A k, l \in (p + 1)..Len(x) : k < l => g[k] < g[l]
  BY <1>2 DEF Picked
<1>5. /\ S \in SUBSET (1..Len(x)) /\ 1..p \subseteq S
      /\ \A i \in 1..Len(x) :
            i \in S <=> (IsResult(x[i]) => \E j \in 1..(i - 1) : /\ MakesCalls(x[j])
                                                                /\ x[j].of = x[i].of)
  <2>1. \A k \in 1..p : k \in 1..Len(x) /\ ~IsResult(x[k])
    BY <1>2 DEF Picked, Belongs
  <2> QED
    BY <1>2, <2>1
<1>6. b = WithoutOrphans(x)
  BY DEF WithoutOrphans
<1> HIDE DEF S
<1>7. /\ b \in Seq(Proper) /\ Len(b) = m /\ m \in Nat
      /\ \A k \in 1..m : at[k] \in S /\ at[k] \in Nat /\ b[k] = x[at[k]]
      /\ \A k, l \in 1..m : k < l => at[k] < at[l]
  BY <1>2, <1>5, RowsAtAre, InOrderIs
<1>8. p <= m /\ \A k \in 1..p : at[k] = k
  BY <1>2, <1>5, FirstOnes
<1>9. \A k \in 1..m : /\ at[k] + 1 \in S => k < m /\ at[k + 1] = at[k] + 1
                      /\ at[k] - 1 \in S => k > 1 /\ at[k - 1] = at[k] - 1
  BY <1>2, <1>5, Adjacent
<1> HIDE DEF b, at, m
<1>10. /\ \A k \in 1..m : k \in 1..p \/ k \in (p + 1)..m
       /\ \A k \in (p + 1)..m : k \in 1..m /\ k \in Nat
  BY <1>2, <1>7
<1>11. ASSUME NEW k \in (p + 1)..m
       PROVE  at[k] \in (p + 1)..Len(x) /\ at[k] \in S /\ b[k] = x[at[k]] /\ at[k] \in Nat
  <2>1. k \in 1..m /\ k \in Nat /\ at[k] \in 1..Len(x) /\ at[k] \in Nat
    BY <1>5, <1>7, <1>10
  <2>2. at[k] > p
    <3>1. CASE p = 0
      BY <2>1, <3>1
    <3>2. CASE p # 0
      <4>1. p \in 1..p /\ p \in 1..m /\ p < k
        BY <1>2, <1>7, <1>8, <3>2
      <4>2. at[p] = p /\ at[p] < at[k]
        BY <1>7, <1>8, <2>1, <4>1
      <4> QED
        BY <1>2, <2>1, <4>2
    <3> QED
      BY <3>1, <3>2
  <2> QED
    BY <1>2, <1>7, <2>1, <2>2
<1>12. \A k \in (p + 1)..m : /\ f[k] = g[at[k]] /\ f[k] \in 1..Len(a) /\ f[k] \in Nat
                             /\ Alike(b[k], a[f[k]])
  BY <1>4, <1>11
<1>13. f \in [(p + 1)..m -> 1..Len(a)]
  BY <1>12
<1>14. \A k, l \in (p + 1)..m : k < l => f[k] < f[l]
  <2> SUFFICES ASSUME NEW k \in (p + 1)..m, NEW l \in (p + 1)..m, k < l
               PROVE  f[k] < f[l]
    OBVIOUS
  <2>1. at[k] < at[l]
    BY <1>7, <1>10
  <2> HIDE DEF f
  <2> QED
    BY <1>4, <1>11, <1>12, <2>1
<1> HIDE DEF f
<1>15. Picked(a, b, p, f)
  <2>1. \A k \in 1..p : b[k] = x[k]
    BY <1>2, <1>7, <1>8
  <2>2. \A k \in 1..p : ~Belongs(b[k]) /\ b[k].of = 0
    BY <2>1 DEF Picked
  <2>3. p \in 0..Len(b) /\ Len(b) = m
    BY <1>2, <1>7, <1>8
  <2> QED
    BY <1>12, <1>13, <1>14, <2>2, <2>3 DEF Picked
<1>16. Behind(b, p, f)
  <2> SUFFICES ASSUME NEW k \in (p + 1)..m, IsResult(b[k])
               PROVE  k > p + 1 /\ f[k - 1] = f[k] - 1
    BY <1>7 DEF Behind
  <2> DEFINE i == at[k]
             e == g[i]
  <2>1. i \in (p + 1)..Len(x) /\ i \in S /\ i \in Nat /\ b[k] = x[i] /\ i \in 1..Len(x)
    BY <1>3, <1>11
  <2>2. e \in DOMAIN a /\ e \in Nat /\ Alike(x[i], a[e]) /\ f[k] = e
    BY <1>2, <1>4, <1>12, <2>1
  <2> HIDE DEF i, e
  <2>3. PICK j \in 1..(i - 1) : MakesCalls(x[j]) /\ x[j].of = x[i].of
    BY <1>5, <2>1
  <2>4. j \in (p + 1)..Len(x) /\ j \in Nat /\ j < i
    <3>1. j \in 1..Len(x) /\ j < i /\ j \in Nat
      BY <1>2, <2>1
    <3> QED
      BY <1>3, <2>3, <3>1 DEF Picked, Belongs
  <2>5. g[j] \in DOMAIN a /\ g[j] \in Nat /\ g[j] < e /\ Alike(x[j], a[g[j]])
    BY <1>2, <1>4, <2>1, <2>4 DEF e
  <2>6. IsResult(a[e]) /\ MakesCalls(a[g[j]]) /\ a[g[j]].of = a[e].of
    BY <2>1, <2>2, <2>3, <2>5 DEF Alike, IsResult, MakesCalls
  <2>7. Linked(a, e)
    BY <1>1, <2>2, <2>6 DEF Tight
  <2>8. g[i - 1] = e - 1 /\ i - 1 \in (p + 1)..Len(x)
    <3>1. i > p + 1 /\ i - 1 \in (p + 1)..Len(x)
      BY <1>2, <2>1, <2>4
    <3> QED
      BY <2>1, <2>7, <3>1 DEF Gapless, Linked, e
  <2>9. Alike(x[i - 1], a[e - 1]) /\ x[i - 1].of = x[i].of
    <3>1. Alike(x[i - 1], a[e - 1])
      BY <1>4, <2>8
    <3> QED
      BY <2>2, <2>7, <3>1 DEF Linked, Alike
  <2>10. i - 1 \in S
    <3>1. i - 1 \in 1..Len(x)
      BY <1>3, <2>8
    <3>2. CASE ~IsResult(x[i - 1])
      BY <1>5, <3>1, <3>2
    <3>3. CASE IsResult(x[i - 1])
      <4>1. ~MakesCalls(x[i - 1])
        BY <1>2, <3>1, <3>3, ProperRows
      <4>2. j # i - 1
        BY <2>3, <4>1
      <4>3. j \in 1..((i - 1) - 1)
        BY <2>1, <2>4, <4>2
      <4> QED
        BY <1>5, <2>3, <2>9, <3>1, <4>3
    <3> QED
      BY <3>2, <3>3
  <2>11. k > 1 /\ at[k - 1] = i - 1 /\ k \in 1..m /\ k \in Nat
    BY <1>9, <1>10, <2>10 DEF i
  <2>12. k - 1 \in (p + 1)..m
    <3>1. k - 1 \in 1..m
      BY <1>7, <2>11
    <3>2. k - 1 \notin 1..p
      <4> SUFFICES ASSUME k - 1 \in 1..p PROVE FALSE
        OBVIOUS
      <4>1. i - 1 = k - 1
        BY <1>8, <2>11
      <4> QED
        BY <1>2, <2>8, <4>1
    <3> QED
      BY <1>10, <3>1, <3>2
  <2> QED
    BY <1>2, <1>7, <1>12, <2>2, <2>8, <2>11, <2>12
<1>17. Before(a, b, p, f)
  <2> SUFFICES ASSUME NEW k \in (p + 1)..m, Belongs(b[k]), f[k] < Len(a),
                      IsResult(a[f[k] + 1])
               PROVE  k < m /\ f[k + 1] = f[k] + 1
    BY <1>7 DEF Before
  <2> DEFINE i == at[k]
             e == g[i]
  <2>1. i \in (p + 1)..Len(x) /\ i \in S /\ i \in Nat /\ b[k] = x[i] /\ i \in 1..Len(x)
    BY <1>3, <1>11
  <2>2. e \in DOMAIN a /\ e \in Nat /\ Alike(x[i], a[e]) /\ f[k] = e
    BY <1>2, <1>4, <1>12, <2>1
  <2>3. i < Len(x) /\ g[i + 1] = e + 1
    BY <2>1, <2>2 DEF Gapless, Belongs
  <2> HIDE DEF i, e
  <2>4. e + 1 \in DOMAIN a /\ (e + 1) - 1 = e /\ IsResult(a[e + 1])
    BY <1>2, <2>2
  <2>5. a[e].of = a[e + 1].of
    BY <1>1, <2>4 DEF Tight, Linked
  <2>6. i + 1 \in (p + 1)..Len(x) /\ i + 1 \in 1..Len(x)
    BY <1>2, <2>1, <2>3
  <2>7. Alike(x[i + 1], a[e + 1]) /\ x[i + 1].of = x[i].of
    <3>1. Alike(x[i + 1], a[e + 1])
      BY <1>4, <2>3, <2>6
    <3> QED
      BY <2>2, <2>5, <3>1 DEF Alike
  <2>8. \E j \in 1..i : MakesCalls(x[j]) /\ x[j].of = x[i].of
    <3>1. CASE MakesCalls(x[i])
      <4>1. i \in 1..i
        BY <2>1
      <4> QED
        BY <3>1, <4>1
    <3>2. CASE IsResult(x[i])
      <4>1. PICK j \in 1..(i - 1) : MakesCalls(x[j]) /\ x[j].of = x[i].of
        BY <1>5, <2>1, <3>2
      <4>2. j \in 1..i
        BY <2>1
      <4> QED
        BY <4>1, <4>2
    <3> QED
      BY <2>1, <3>1, <3>2 DEF Belongs
  <2>9. i + 1 \in S
    <3>1. (i + 1) - 1 = i
      BY <2>1
    <3> QED
      BY <1>5, <2>6, <2>7, <2>8, <3>1
  <2>10. k < m /\ at[k + 1] = i + 1 /\ k + 1 \in (p + 1)..m
    <3>1. k < m /\ at[k + 1] = i + 1
      BY <1>9, <1>10, <2>9 DEF i
    <3> QED
      BY <1>2, <1>7, <1>10, <3>1
  <2> QED
    BY <1>12, <2>2, <2>3, <2>10
<1>18. \A k \in 1..p : b[k] = x[k]
  BY <1>2, <1>7, <1>8
<1> QED
  BY <1>6, <1>7, <1>8, <1>15, <1>16, <1>17, <1>18

LEMMA Joined ==
    ASSUME NEW a \in Seq(Proper), NEW b \in Seq(Proper)
    PROVE  LET x == a \o b
           IN  /\ x \in Seq(Proper) /\ Len(x) = Len(a) + Len(b)
               /\ \A k \in 1..Len(a) : x[k] = a[k]
               /\ \A k \in (Len(a) + 1)..(Len(a) + Len(b)) : x[k] = b[k - Len(a)]
  OBVIOUS

(* Rows of no exchange in front change nothing about it.                    *)
LEMMA InFront ==
    ASSUME NEW a \in Seq(Proper), NEW s \in Seq(Proper), NEW h, Picked(a, s, 0, h),
           Gapless(a, s, 0, h), NEW front \in Seq(Proper),
           \A k \in DOMAIN front : ~Belongs(front[k]) /\ front[k].of = 0
    PROVE  LET x == front \o s
               p == Len(front)
           IN  /\ x \in Seq(Proper) /\ p \in Nat /\ p <= Len(x)
               /\ \A k \in 1..p : x[k] = front[k]
               /\ \E g : Picked(a, x, p, g) /\ Gapless(a, x, p, g)
<1> DEFINE x == front \o s
           p == Len(front)
           m == Len(s)
           g == [k \in (p + 1)..(p + m) |-> h[k - p]]
<1>1. /\ x \in Seq(Proper) /\ p \in Nat /\ m \in Nat /\ Len(x) = p + m
      /\ \A k \in 1..p : x[k] = front[k] /\ k \in DOMAIN front
      /\ \A k \in (p + 1)..(p + m) : x[k] = s[k - p]
  OBVIOUS
<1> HIDE DEF x, p
<1>2. \A k \in (p + 1)..(p + m) :
         k - p \in 1..m /\ k - p \in Nat /\ k \in Nat /\ (k - p) + p = k
  BY <1>1
<1>3. /\ \A k \in 1..m : h[k] \in 1..Len(a) /\ Alike(s[k], a[h[k]])
      /\ \A k, l \in 1..m : k < l => h[k] < h[l]
  <2>1. 0 + 1 = 1
    OBVIOUS
  <2> QED
    BY <2>1 DEF Picked
<1>4. \A k \in 1..m :
         /\ h[k] < Len(a) /\ Belongs(a[h[k] + 1]) => k < m /\ h[k + 1] = h[k] + 1
         /\ k > 1 /\ Belongs(a[h[k] - 1]) => h[k - 1] = h[k] - 1
  <2>1. 0 + 1 = 1
    OBVIOUS
  <2> QED
    BY <2>1 DEF Gapless
<1> HIDE DEF m
<1>5. \A k \in (p + 1)..(p + m) : g[k] = h[k - p] /\ g[k] \in 1..Len(a)
  BY <1>2, <1>3
<1>6. g \in [(p + 1)..(p + m) -> 1..Len(a)]
  BY <1>5
<1> HIDE DEF g
<1>7. Picked(a, x, p, g)
  <2>1. p \in 0..(p + m)
    BY <1>1
  <2>2. \A k, l \in (p + 1)..(p + m) : k < l => g[k] < g[l]
    <3> SUFFICES ASSUME NEW k \in (p + 1)..(p + m), NEW l \in (p + 1)..(p + m), k < l
                 PROVE  g[k] < g[l]
      OBVIOUS
    <3>1. k - p < l - p /\ k - p \in 1..m /\ l - p \in 1..m
      BY <1>1, <1>2
    <3> QED
      BY <1>3, <1>5, <3>1
  <2>3. \A k \in (p + 1)..(p + m) : Alike(x[k], a[g[k]])
    BY <1>1, <1>2, <1>3, <1>5
  <2>4. \A k \in 1..p : ~Belongs(x[k]) /\ x[k].of = 0
    BY <1>1
  <2> QED
    BY <1>1, <1>6, <2>1, <2>2, <2>3, <2>4 DEF Picked
<1>8. Gapless(a, x, p, g)
  <2> SUFFICES ASSUME NEW k \in (p + 1)..(p + m)
               PROVE  /\ g[k] < Len(a) /\ Belongs(a[g[k] + 1])
                            => k < p + m /\ g[k + 1] = g[k] + 1
                      /\ k > p + 1 /\ Belongs(a[g[k] - 1]) => g[k - 1] = g[k] - 1
    BY <1>1 DEF Gapless
  <2> DEFINE q == k - p
  <2>1. q \in 1..m /\ q \in Nat /\ g[k] = h[q] /\ k = q + p
    BY <1>2, <1>5
  <2> HIDE DEF q
  <2>2. ASSUME g[k] < Len(a), Belongs(a[g[k] + 1])
        PROVE  k < p + m /\ g[k + 1] = g[k] + 1
    <3>1. q < m /\ h[q + 1] = h[q] + 1
      BY <1>4, <2>1, <2>2
    <3>2. k < p + m /\ k + 1 \in (p + 1)..(p + m) /\ (k + 1) - p = q + 1
      <4>1. p \in Nat /\ m \in Nat /\ q < m
        BY <1>1, <3>1
      <4> QED
        BY ONLY <2>1, <4>1
    <3> QED
      BY <1>5, <2>1, <3>1, <3>2
  <2>3. ASSUME k > p + 1, Belongs(a[g[k] - 1])
        PROVE  g[k - 1] = g[k] - 1
    <3>1. q > 1 /\ k - 1 \in (p + 1)..(p + m) /\ (k - 1) - p = q - 1
      BY <1>1, <2>1, <2>3
    <3>2. h[q - 1] = h[q] - 1
      BY <1>4, <2>1, <2>3, <3>1
    <3> QED
      BY <1>5, <2>1, <3>1, <3>2
  <2> QED
    BY <2>2, <2>3
<1>9. p <= Len(x)
  BY <1>1
<1> QED
  BY <1>1, <1>7, <1>8, <1>9 DEF x, p

LEMMA RowProper ==
    ASSUME NEW role \in {"user", "assistant", "analysis", "tool", "system"},
           NEW len \in Nat \ {0}, NEW calls \in 0..MaxCalls, NEW of \in Nat,
           calls > 0 => role = "assistant"
    PROVE  /\ Row(role, len, calls, of) \in Proper
           /\ Row(role, len, calls, of).role = role /\ Row(role, len, calls, of).len = len
           /\ Row(role, len, calls, of).calls = calls /\ Row(role, len, calls, of).of = of
  BY DEF Row, Proper, RowType, MakesCalls

(* The first list of a turn: exchanges as whole as in memory, behind the    *)
(* system prompt.                                                           *)
LEMMA BuildIs ==
    ASSUME NEW rows, NEW n \in Nat, Sound(rows, n), NEW first \in 1..(Len(rows) + 1),
           NEW context \in BOOLEAN
    PROVE  LET b == Build(SubSeq(rows, first, Len(rows)), context)
           IN  Sound(b, n) /\ Whole(b, rows) /\ b # <<>> /\ b[1].role = "system"
<1> DEFINE win == SubSeq(rows, first, Len(rows))
           s == RowsAt(win, {i \in DOMAIN win : win[i].role # "analysis"})
           sys == Row("system", 1, 0, 0)
           pair == IF context THEN <<User(1), Text(1)>> ELSE <<>>
           front == <<sys>> \o pair
           p == Len(front)
           x == front \o s
           b == WithoutOrphans(x)
<1>1. rows \in Seq(Proper) /\ Tight(rows) /\ Once(rows)
  BY DEF Sound
<1>2. s \in Seq(Proper) /\ \E h : Picked(rows, s, 0, h) /\ Gapless(rows, s, 0, h)
  <2> HIDE DEF s
  <2> QED
    BY <1>1, WindowRows DEF s
<1>3. /\ sys \in Proper /\ User(1) \in Proper /\ Text(1) \in Proper /\ sys.role = "system"
      /\ \A r \in {sys, User(1), Text(1)} : ~Belongs(r) /\ r.of = 0
  <2>1. 0 \in 0..MaxCalls
    BY WindowAssumption
  <2> QED
    BY <2>1, RowProper DEF User, Text, Belongs, IsResult, MakesCalls
<1> HIDE DEF s, sys
<1>4. /\ front \in Seq(Proper) /\ p \in {1, 3} /\ front[1] = sys
      /\ \A k \in DOMAIN front : front[k] \in {sys, User(1), Text(1)}
  <2>1. CASE context
    <3>1. front = <<sys>> \o <<User(1), Text(1)>>
      BY <2>1
    <3> HIDE DEF front
    <3> DEFINE u == User(1)
               t == Text(1)
    <3>2. u \in Proper /\ t \in Proper /\ front = <<sys>> \o <<u, t>>
      BY <1>3, <3>1
    <3> HIDE DEF u, t
    <3> DEFINE one == <<sys>>
               two == <<u, t>>
    <3>3. /\ one \in Seq(Proper) /\ Len(one) = 1 /\ one[1] = sys
          /\ two \in Seq(Proper) /\ Len(two) = 2 /\ two[1] = u /\ two[2] = t
          /\ front = one \o two
      BY <1>3, <3>2
    <3> HIDE DEF one, two
    <3>4. /\ front \in Seq(Proper) /\ Len(front) = 3 /\ DOMAIN front = 1..3
          /\ front[1] = one[1] /\ front[2] = two[1] /\ front[3] = two[2]
      <4>1. /\ front \in Seq(Proper) /\ Len(front) = Len(one) + Len(two)
            /\ \A k \in 1..Len(one) : front[k] = one[k]
            /\ \A k \in (Len(one) + 1)..(Len(one) + Len(two)) :
                  front[k] = two[k - Len(one)]
        BY <3>3, Joined
      <4>2. front[2] = two[2 - 1] /\ front[3] = two[3 - 1] /\ 2 - 1 = 1 /\ 3 - 1 = 2
        BY <3>3, <4>1
      <4>3. front[1] = one[1] /\ Len(front) = 3 /\ DOMAIN front = 1..Len(front)
        BY <3>3, <4>1
      <4> QED
        BY <4>1, <4>2, <4>3
    <3>5. \A k \in 1..3 : k = 1 \/ k = 2 \/ k = 3
      OBVIOUS
    <3> QED
      BY <3>3, <3>4, <3>5 DEF u, t
  <2>2. CASE ~context
    <3>1. front = <<sys>>
      BY <2>2
    <3> HIDE DEF front
    <3> QED
      BY <1>3, <3>1
  <2> QED
    BY <2>1, <2>2
<1> HIDE DEF front
<1>5. \A k \in DOMAIN front : ~Belongs(front[k]) /\ front[k].of = 0
  BY <1>3, <1>4
<1>6. /\ x \in Seq(Proper) /\ p <= Len(x) /\ \A k \in 1..p : x[k] = front[k]
      /\ \E g : Picked(rows, x, p, g) /\ Gapless(rows, x, p, g)
  BY <1>1, <1>2, <1>4, <1>5, InFront
<1> HIDE DEF x, p
<1>7. /\ b \in Seq(Proper) /\ p <= Len(b) /\ \A k \in 1..p : b[k] = x[k]
      /\ \E f : Picked(rows, b, p, f) /\ Behind(b, p, f) /\ Before(rows, b, p, f)
  BY <1>6, OrphansGone
<1> HIDE DEF b
<1>8. Sound(b, n) /\ Whole(b, rows)
  BY <1>1, <1>7, PickedSound, PickedWhole, WholeSelf
<1>9. b # <<>> /\ b[1] = sys
  <2>1. 1 \in 1..p /\ Len(b) \in Nat /\ Len(b) > 0
    BY <1>4, <1>7, ProperRows
  <2> QED
    BY <1>4, <1>6, <1>7, <2>1
<1>10. b = Build(win, context)
  BY DEF Build, b, x, front, sys, s
<1> QED
  BY <1>3, <1>8, <1>9, <1>10

-----------------------------------------------------------------------------
(* Lists cut and changed                                                    *)

LEMMA PrefixSound ==
    ASSUME NEW a, NEW n \in Nat, Sound(a, n), NEW m \in 0..Len(a)
    PROVE  Sound(SubSeq(a, 1, m), n)
<1> DEFINE b == SubSeq(a, 1, m)
           f == [k \in 1..m |-> k]
<1>1. a \in Seq(Proper) /\ Tight(a) /\ Len(a) \in Nat /\ DOMAIN a = 1..Len(a) /\ m \in Nat
  BY ProperRows DEF Sound
<1>2. /\ b \in Seq(Proper) /\ Len(b) = m /\ m <= Len(a) /\ 0 + 1 = 1
      /\ \A k \in 1..m : b[k] = a[k] /\ k \in 1..Len(a)
  BY <1>1
<1> HIDE DEF b
<1>3. Picked(a, b, 0, f)
  BY <1>1, <1>2 DEF Picked, Alike
<1>4. Behind(b, 0, f)
  <2> SUFFICES ASSUME NEW k \in 1..m, IsResult(b[k]) PROVE k > 1 /\ f[k - 1] = f[k] - 1
    BY <1>2 DEF Behind
  <2>1. k > 1
    BY <1>1, <1>2 DEF Tight, Linked
  <2>2. k - 1 \in 1..m
    BY <1>1, <2>1
  <2> QED
    BY <2>1, <2>2
<1> QED
  BY <1>2, <1>3, <1>4, PickedSound DEF b

(* Lengths do not matter.                                                   *)
LEMMA SameExchanges ==
    ASSUME NEW a, NEW n \in Nat, Sound(a, n), NEW rows \in Seq(Proper), Whole(a, rows),
           NEW b \in Seq(Proper), Len(b) = Len(a), \A i \in 1..Len(a) : Alike(b[i], a[i])
    PROVE  Sound(b, n) /\ Whole(b, rows)
<1> DEFINE m == Len(a)
           f == [k \in 1..m |-> k]
<1>1. a \in Seq(Proper) /\ Tight(a) /\ Len(a) \in Nat /\ DOMAIN a = 1..Len(a)
  BY ProperRows DEF Sound
<1>2. Len(b) = m /\ 0 + 1 = 1 /\ m \in Nat /\ m = Len(a)
  BY <1>1
<1> HIDE DEF m
<1>3. Picked(a, b, 0, f)
  BY <1>1, <1>2 DEF Picked
<1>4. Behind(b, 0, f)
  <2> SUFFICES ASSUME NEW k \in 1..m, IsResult(b[k]) PROVE k > 1 /\ f[k - 1] = f[k] - 1
    BY <1>2 DEF Behind
  <2>1. k > 1
    BY <1>1, <1>2 DEF Tight, Linked, Alike, IsResult
  <2>2. k - 1 \in 1..m
    BY <1>2, <2>1
  <2> QED
    BY <2>1, <2>2
<1>5. Before(a, b, 0, f)
  <2> SUFFICES ASSUME NEW k \in 1..m, f[k] < Len(a) PROVE k < m /\ f[k + 1] = f[k] + 1
    BY <1>2 DEF Before
  <2>1. k < m /\ k + 1 \in 1..m
    BY <1>2
  <2> QED
    BY <2>1
<1> HIDE DEF f
<1> QED
  BY <1>1, <1>3, <1>4, <1>5, PickedSound, PickedWhole

(* The exchange at i cut out, and the first row changed: where the rows     *)
(* that are left have been.                                                 *)
From(ms, i) ==
    LET d == ExchangeEnd(ms, i) - i + 1
    IN  [k \in 1..(Len(ms) - d) |-> IF k < i THEN k ELSE k + d]

Without(ms, i, len) ==
    LET noted == [ms EXCEPT ![1].len = len]
    IN  SubSeq(noted, 1, i - 1) \o SubSeq(noted, ExchangeEnd(ms, i) + 1, Len(noted))

LEMMA Lengthened ==
    ASSUME NEW ms \in Seq(Proper), NEW i \in DOMAIN ms, NEW len \in Nat \ {0}
    PROVE  LET b == [ms EXCEPT ![i].len = len]
           IN  /\ b \in Seq(Proper) /\ Len(b) = Len(ms) /\ DOMAIN b = DOMAIN ms
               /\ \A k \in DOMAIN ms : Alike(b[k], ms[k]) /\ (k # i => b[k] = ms[k])
               /\ b[i].len = len
<1> DEFINE b == [ms EXCEPT ![i].len = len]
           r == [ms[i] EXCEPT !.len = len]
<1>1. /\ r \in Proper /\ Alike(r, ms[i]) /\ r.len = len
  <2>1. ms[i] \in Proper
    OBVIOUS
  <2> QED
    BY <2>1 DEF Proper, RowType, Alike, MakesCalls
<1>2. b = [ms EXCEPT ![i] = r]
  OBVIOUS
<1> HIDE DEF b, r
<1>3. /\ b \in Seq(Proper) /\ Len(b) = Len(ms) /\ DOMAIN b = DOMAIN ms
      /\ \A k \in DOMAIN ms : b[k] = IF k = i THEN r ELSE ms[k]
  BY <1>1, <1>2
<1>4. \A k \in DOMAIN ms : Alike(b[k], ms[k]) /\ (k # i => b[k] = ms[k])
  BY <1>1, <1>3 DEF Alike
<1> QED
  BY <1>1, <1>3, <1>4 DEF b

LEMMA WithoutIs ==
    ASSUME NEW ms \in Seq(Proper), Tight(ms), NEW i \in Exchanges(ms), NEW len \in Nat \ {0}
    PROVE  LET b == Without(ms, i, len)
               f == From(ms, i)
               e == ExchangeEnd(ms, i)
           IN  /\ b \in Seq(Proper) /\ Len(b) = Len(ms) - (e - i + 1) /\ DOMAIN b = 1..Len(b)
               /\ i \in 3..Len(ms) /\ e \in i..Len(ms) /\ b # <<>> /\ DOMAIN f = 1..Len(b)
               /\ \A k \in DOMAIN b : /\ f[k] = (IF k < i THEN k ELSE k + (e - i + 1))
                                      /\ f[k] \in DOMAIN ms /\ f[k] \notin i..e
                                      /\ Alike(b[k], ms[f[k]]) /\ (k # 1 => b[k] = ms[f[k]])
               /\ \A j \in DOMAIN ms \ (i..e) : \E k \in DOMAIN b : f[k] = j
               /\ \A j \in (i + 1)..e : IsResult(ms[j])
               /\ Picked(ms, b, 0, f) /\ Behind(b, 0, f) /\ Before(ms, b, 0, f)
<1> DEFINE e == ExchangeEnd(ms, i)
           d == e - i + 1
           f == From(ms, i)
           noted == [ms EXCEPT ![1].len = len]
           one == SubSeq(noted, 1, i - 1)
           two == SubSeq(noted, e + 1, Len(noted))
           b == one \o two
           m == Len(ms) - d
<1>1. DOMAIN ms = 1..Len(ms) /\ Len(ms) \in Nat
  BY ProperRows
<1>2. i \in DOMAIN ms /\ i \in 3..Len(ms) /\ MakesCalls(ms[i]) /\ 1 \in DOMAIN ms /\ i \in Nat
  BY <1>1 DEF Exchanges
<1>3. e \in i..Len(ms) /\ Run(ms, i, e - i) /\ i + (e - i) = e
  <2>1. e \in i..Len(ms) /\ Run(ms, i, e - i)
    BY <1>2, EndIsRun
  <2> HIDE DEF e
  <2> QED
    BY <1>2, <2>1
<1> HIDE DEF e
<1>4. /\ noted \in Seq(Proper) /\ Len(noted) = Len(ms)
      /\ \A k \in DOMAIN ms : Alike(noted[k], ms[k]) /\ (k # 1 => noted[k] = ms[k])
  BY <1>2, Lengthened
<1> HIDE DEF noted
<1>5. /\ one \in Seq(Proper) /\ Len(one) = i - 1 /\ i - 1 \in Nat
      /\ \A k \in 1..(i - 1) : one[k] = noted[k]
  BY <1>1, <1>2, <1>4
<1>6. /\ two \in Seq(Proper) /\ Len(two) = Len(ms) - e /\ Len(ms) - e \in Nat /\ e \in Nat
      /\ \A k \in 1..(Len(ms) - e) : two[k] = noted[k + e]
  BY <1>1, <1>2, <1>3, <1>4
<1> HIDE DEF one, two
<1>7. /\ b \in Seq(Proper) /\ Len(b) = (i - 1) + (Len(ms) - e)
      /\ \A k \in 1..(i - 1) : b[k] = one[k]
      /\ \A k \in i..((i - 1) + (Len(ms) - e)) : b[k] = two[k - (i - 1)]
  <2>1. Len(one) + 1 = i
    BY <1>2, <1>5
  <2>2. /\ b \in Seq(Proper) /\ Len(b) = Len(one) + Len(two)
        /\ \A k \in 1..Len(one) : b[k] = one[k]
        /\ \A k \in (Len(one) + 1)..(Len(one) + Len(two)) : b[k] = two[k - Len(one)]
    BY <1>5, <1>6, Joined
  <2> HIDE DEF b
  <2> QED
    BY <1>5, <1>6, <2>1, <2>2
<1> DEFINE l == Len(ms)
<1>8. /\ l \in Nat /\ i \in Nat /\ e \in Nat /\ d \in Nat /\ m \in Nat
      /\ 3 <= i /\ i <= e /\ e <= l /\ d = e - i + 1 /\ m = l - d
      /\ Len(ms) = l /\ DOMAIN ms = 1..l
  <2>1. l \in Nat /\ i \in Nat /\ e \in Nat /\ 3 <= i /\ i <= e /\ e <= l
    BY <1>1, <1>2, <1>3
  <2> HIDE DEF l
  <2>2. d \in Nat /\ d = e - i + 1 /\ l - d \in Nat
    BY <2>1
  <2> QED
    BY <1>1, <2>1, <2>2 DEF l
<1> HIDE DEF b, l, d
<1>9. f = [k \in 1..m |-> IF k < i THEN k ELSE k + d]
  BY DEF From, d, e
<1> HIDE DEF f, m
<1>10. ASSUME NEW k \in 1..m
       PROVE  /\ f[k] = (IF k < i THEN k ELSE k + d)
              /\ f[k] \in DOMAIN ms /\ f[k] \notin i..e
              /\ Alike(b[k], ms[f[k]]) /\ (k # 1 => b[k] = ms[f[k]])
  <2>1. CASE k < i
    <3>1. f[k] = k /\ k \in 1..(i - 1) /\ k \in DOMAIN ms /\ k \notin i..e
      BY <1>8, <1>9, <2>1
    <3> QED
      BY <1>4, <1>5, <1>7, <2>1, <3>1
  <2>2. CASE k >= i
    <3>1. f[k] = k + d
      BY <1>8, <1>9, <2>2
    <3>2. k + d \in DOMAIN ms /\ k + d \notin i..e /\ k # 1 /\ k + d # 1
      BY <1>8, <2>2
    <3>3. /\ k \in i..((i - 1) + (l - e)) /\ k - (i - 1) \in 1..(l - e)
          /\ (k - (i - 1)) + e = k + d /\ ~(k < i)
      BY <1>8, <2>2
    <3>4. b[k] = noted[k + d]
      BY <1>6, <1>7, <1>8, <3>3
    <3> QED
      BY <1>4, <3>1, <3>2, <3>3, <3>4
  <2> QED
    BY <1>2, <2>1, <2>2
<1>11. ASSUME NEW j \in DOMAIN ms \ (i..e) PROVE \E k \in 1..m : f[k] = j
  <2>1. CASE j < i
    <3>1. j \in 1..m
      BY <1>8, <2>1
    <3> QED
      BY <1>10, <2>1, <3>1
  <2>2. CASE j > e
    <3>1. j - d \in 1..m /\ ~(j - d < i) /\ (j - d) + d = j
      BY <1>8, <2>2
    <3> QED
      BY <1>10, <3>1
  <2> QED
    BY <1>1, <1>2, <1>3, <2>1, <2>2
<1>12. \A j \in (i + 1)..e : IsResult(ms[j])
  BY <1>3 DEF Run
<1>13. Len(b) = m /\ DOMAIN b = 1..m /\ b # <<>> /\ DOMAIN f = 1..m
  <2>1. Len(b) = m /\ m > 0 /\ DOMAIN b = 1..Len(b)
    BY <1>7, <1>8
  <2> QED
    BY <1>9, <2>1
<1>14. \A k \in 1..m : f[k] \in Nat
  BY <1>1, <1>10
<1>15. Picked(ms, b, 0, f)
  <2>1. f \in [1..m -> 1..l]
    BY <1>8, <1>9, <1>10
  <2>2. \A j, k \in 1..m : j < k => f[j] < f[k]
    <3> SUFFICES ASSUME NEW j \in 1..m, NEW k \in 1..m, j < k PROVE f[j] < f[k]
      OBVIOUS
    <3>1. f[j] = (IF j < i THEN j ELSE j + d) /\ f[k] = (IF k < i THEN k ELSE k + d)
      BY <1>10
    <3> QED
      BY <1>8, <3>1
  <2>3. 0 + 1 = 1 /\ 0 \in 0..m /\ 1..0 = {}
    BY <1>8
  <2> QED
    BY <1>8, <1>10, <1>13, <2>1, <2>2, <2>3 DEF Picked
<1>16. Behind(b, 0, f)
  <2> SUFFICES ASSUME NEW k \in 1..m, IsResult(b[k]) PROVE k > 1 /\ f[k - 1] = f[k] - 1
    BY <1>13 DEF Behind
  <2>1. Linked(ms, f[k]) /\ IsResult(ms[f[k]])
    BY <1>10 DEF Tight, Alike, IsResult
  <2>2. f[k] > 1
    BY <2>1 DEF Linked
  <2>3. CASE k < i
    <3>1. k > 1 /\ k - 1 \in 1..m /\ k - 1 < i /\ f[k] = k
      BY <1>8, <1>10, <2>2, <2>3
    <3> QED
      BY <1>10, <3>1
  <2>4. CASE k = i
    <3>1. f[k] = e + 1 /\ e < l
      BY <1>8, <1>10, <2>4
    <3> QED
      BY <1>3, <1>8, <2>1, <3>1 DEF Run
  <2>5. CASE k > i
    <3>1. k > 1 /\ k - 1 \in 1..m /\ ~(k - 1 < i) /\ ~(k < i)
      BY <1>8, <2>5
    <3>2. f[k] = k + d /\ f[k - 1] = (k - 1) + d
      BY <1>10, <3>1
    <3> QED
      BY <1>8, <3>1, <3>2
  <2> QED
    BY <1>8, <2>3, <2>4, <2>5
<1>17. Before(ms, b, 0, f)
  <2> SUFFICES ASSUME NEW k \in 1..m, f[k] < l, IsResult(ms[f[k] + 1])
               PROVE  k < m /\ f[k + 1] = f[k] + 1
    BY <1>8, <1>13 DEF Before
  <2>1. f[k] + 1 # i
    BY <1>2, ProperRows
  <2>2. CASE k < i
    <3>1. f[k] = k /\ k + 1 < i /\ k + 1 \in 1..m /\ k < m
      BY <1>8, <1>10, <2>1, <2>2
    <3> QED
      BY <1>10, <3>1
  <2>3. CASE k >= i
    <3>1. ~(k < i) /\ f[k] = k + d
      BY <1>2, <1>10, <2>3
    <3>2. k < m /\ k + 1 \in 1..m /\ ~(k + 1 < i)
      BY <1>8, <2>3, <3>1
    <3>3. f[k + 1] = (k + 1) + d
      BY <1>10, <3>2
    <3> QED
      BY <1>8, <3>1, <3>2, <3>3
  <2> QED
    BY <1>8, <2>2, <2>3
<1>18. b = Without(ms, i, len)
  BY DEF b, one, two, noted, e, Without
<1>19. Len(b) = l - d /\ DOMAIN b = 1..Len(b) /\ 1..Len(b) = 1..m
  BY <1>8, <1>13
<1> QED
  BY <1>2, <1>3, <1>7, <1>10, <1>11, <1>12, <1>13, <1>15, <1>16, <1>17, <1>18, <1>19 DEF d, e, f, l

-----------------------------------------------------------------------------
(* What the trim spares                                                     *)

(* There is one ascending list of the members of a set.                     *)
LEMMA Ascends ==
    ASSUME NEW n \in Nat, NEW S \in SUBSET (1..n), NEW m \in Nat, NEW g \in [1..m -> S],
           \A k, l \in 1..m : k < l => g[k] < g[l],
           \A i \in S : \E k \in 1..m : g[k] = i
    PROVE  InOrder(S) = g
<1> DEFINE at == InOrder(S)
           c == Cardinality(S)
           Good(k) == k <= c /\ at[k] = g[k]
           T == {k \in Nat : k \in 1..m /\ ~Good(k)}
<1>1. /\ c \in Nat /\ at \in [1..c -> S]
      /\ \A k, l \in 1..c : k < l => at[k] < at[l]
      /\ \A i \in S : \E k \in 1..c : at[k] = i
  BY InOrderIs
<1> HIDE DEF at, c
<1>2. /\ \A k \in 1..c : at[k] \in S /\ at[k] \in Nat
      /\ \A k \in 1..m : g[k] \in S /\ g[k] \in Nat
  <2>1. \A i \in S : i \in Nat
    OBVIOUS
  <2> QED
    BY <1>1, <2>1
<1>3. T = {}
  <2> SUFFICES ASSUME T # {} PROVE FALSE
    OBVIOUS
  <2>1. PICK k \in T : \A j \in T : k <= j
    <3> HIDE DEF Good
    <3> QED
      BY Least
  <2>2. k \in Nat /\ k \in 1..m /\ ~Good(k)
    OBVIOUS
  <2>3. \A j \in 1..m : j < k => j <= c /\ at[j] = g[j]
    <3> SUFFICES ASSUME NEW j \in 1..m, j < k PROVE Good(j)
      OBVIOUS
    <3>1. j \in Nat /\ ~(k <= j)
      BY <2>2
    <3> HIDE DEF Good
    <3> QED
      BY <2>1, <3>1
  <2>4. PICK l \in 1..c : at[l] = g[k]
    BY <1>1, <1>2, <2>2
  <2>5. ~(l < k)
    <3> SUFFICES ASSUME l < k PROVE FALSE
      OBVIOUS
    <3>1. l \in 1..m
      BY <1>1, <2>2
    <3>2. g[l] = g[k] /\ g[l] < g[k] /\ g[l] \in Nat /\ g[k] \in Nat
      BY <1>2, <2>2, <2>3, <2>4, <3>1
    <3> QED
      BY <3>2
  <2>6. k \in 1..c /\ (k = l \/ k < l)
    BY <1>1, <2>2, <2>5
  <2>7. at[k] <= g[k]
    <3>1. at[k] \in Nat /\ g[k] \in Nat
      BY <1>2, <2>2, <2>6
    <3>2. k < l => at[k] < at[l]
      BY <1>1, <2>6
    <3> QED
      BY ONLY <2>4, <2>6, <3>1, <3>2
  <2>8. PICK j \in 1..m : g[j] = at[k]
    BY <1>2, <2>6
  <2>9. ~(j < k)
    <3> SUFFICES ASSUME j < k PROVE FALSE
      OBVIOUS
    <3>1. j \in 1..c /\ at[j] = at[k]
      BY <1>1, <2>2, <2>3, <2>8
    <3>2. at[j] < at[k] /\ at[j] \in Nat /\ at[k] \in Nat
      BY <1>1, <1>2, <2>6, <3>1
    <3> QED
      BY <3>1, <3>2
  <2>10. k = j \/ k < j
    BY <2>2, <2>9
  <2>11. g[k] <= at[k]
    <3>1. g[k] \in Nat /\ g[j] \in Nat /\ (k < j => g[k] < g[j])
      BY <1>2, <2>2
    <3> QED
      BY ONLY <2>8, <2>10, <3>1
  <2>12. at[k] = g[k]
    BY <1>2, <2>2, <2>6, <2>7, <2>11
  <2> QED
    BY <1>1, <2>2, <2>6, <2>12
<1>4. \A k \in 1..m : Good(k)
  <2> SUFFICES ASSUME NEW k \in 1..m PROVE Good(k)
    OBVIOUS
  <2>1. k \in Nat /\ k \notin T
    BY <1>3
  <2> HIDE DEF Good
  <2> QED
    BY <2>1
<1>5. m <= c
  <2>1. CASE m = 0
    BY <1>1, <2>1
  <2>2. CASE m # 0
    <3>1. m \in 1..m
      BY <2>2
    <3> QED
      BY <1>4, <3>1
  <2> QED
    BY <2>1, <2>2
<1>6. ~(m < c)
  <2> SUFFICES ASSUME m < c PROVE FALSE
    OBVIOUS
  <2> DEFINE k == m + 1
  <2>1. k \in 1..c /\ \A j \in 1..m : j < k /\ j \in 1..c
    BY <1>1
  <2> HIDE DEF k
  <2>2. PICK j \in 1..m : g[j] = at[k]
    BY <1>2, <2>1
  <2>3. at[j] = at[k] /\ at[j] < at[k] /\ at[k] \in Nat
    BY <1>1, <1>2, <1>4, <2>1, <2>2
  <2> QED
    BY <2>3
<1>7. c = m
  BY <1>1, <1>5, <1>6
<1>8. at \in [1..m -> S] /\ \A k \in 1..m : at[k] = g[k]
  BY <1>1, <1>4, <1>7
<1>9. at = g
  BY <1>8
<1> QED
  BY <1>9 DEF at

Speaks(r) == r.role \in {"user", "assistant"} /\ ~MakesCalls(r)

(* Rows picked with all that was said: what was said is the same.           *)
LEMMA SpokenKept ==
    ASSUME NEW a \in Seq(Proper), NEW b \in Seq(Proper), NEW f, Picked(a, b, 0, f),
           \A k \in DOMAIN b : Speaks(b[k]) => b[k] = a[f[k]],
           \A j \in DOMAIN a : Speaks(a[j]) => \E k \in DOMAIN b : f[k] = j
    PROVE  Spoken(b) = Spoken(a)
<1> DEFINE S == {i \in DOMAIN a : Speaks(a[i])}
           T == {i \in DOMAIN b : Speaks(b[i])}
           at == InOrder(T)
           m == Cardinality(T)
           g == [q \in 1..m |-> f[at[q]]]
<1>1. /\ DOMAIN a = 1..Len(a) /\ Len(a) \in Nat /\ DOMAIN b = 1..Len(b) /\ Len(b) \in Nat
  BY ProperRows
<1>2. /\ \A k \in DOMAIN b : f[k] \in DOMAIN a /\ Alike(b[k], a[f[k]])
      /\ \A k, l \in DOMAIN b : k < l => f[k] < f[l]
  <2>1. 0 + 1 = 1
    OBVIOUS
  <2> QED
    BY <1>1, <2>1 DEF Picked
<1>3. \A k \in DOMAIN b : /\ f[k] \in Nat
                          /\ Speaks(b[k]) <=> Speaks(a[f[k]])
  BY <1>1, <1>2 DEF Speaks, Alike, MakesCalls
<1>4. S \in SUBSET (1..Len(a)) /\ T \in SUBSET (1..Len(b))
  BY <1>1
<1>5. \A k \in T : k \in DOMAIN b /\ f[k] \in S /\ b[k] = a[f[k]]
  BY <1>2, <1>3
<1>6. \A j \in S : \E k \in T : f[k] = j
  BY <1>3
<1>7. Spoken(a) = RowsAt(a, S) /\ Spoken(b) = RowsAt(b, T)
  BY DEF Spoken, Speaks
<1> HIDE DEF S, T
<1>8. /\ m \in Nat /\ at \in [1..m -> T]
      /\ \A k, l \in 1..m : k < l => at[k] < at[l]
      /\ \A i \in T : \E k \in 1..m : at[k] = i
  BY <1>1, <1>4, InOrderIs
<1> HIDE DEF at, m
<1>9. \A k \in 1..m : g[k] = f[at[k]] /\ g[k] \in S /\ at[k] \in T
  BY <1>5, <1>8
<1>10. g \in [1..m -> S]
  BY <1>9
<1>11. \A k, l \in 1..m : k < l => g[k] < g[l]
  <2> HIDE DEF g
  <2> QED
    BY <1>2, <1>5, <1>8, <1>9
<1>12. \A i \in S : \E k \in 1..m : g[k] = i
  <2> SUFFICES ASSUME NEW i \in S PROVE \E k \in 1..m : g[k] = i
    OBVIOUS
  <2>1. PICK j \in T : f[j] = i
    BY <1>6
  <2>2. PICK k \in 1..m : at[k] = j
    BY <1>8
  <2> QED
    BY <1>9, <2>1, <2>2
<1> HIDE DEF g
<1>13. InOrder(S) = g
  <2>1. Len(a) \in Nat /\ S \in SUBSET (1..Len(a)) /\ m \in Nat
    BY <1>1, <1>4, <1>8
  <2> QED
    BY ONLY <1>10, <1>11, <1>12, <2>1, Ascends
<1>14. RowsAt(a, S) = [k \in 1..m |-> a[g[k]]]
  BY <1>10, <1>13 DEF RowsAt
<1>15. RowsAt(b, T) = [k \in 1..m |-> b[at[k]]]
  BY <1>8 DEF RowsAt, at
<1>16. \A k \in 1..m : b[at[k]] = a[g[k]]
  BY <1>5, <1>9
<1> QED
  BY <1>7, <1>14, <1>15, <1>16

(* An exchange that may be dropped is none of the most recent ones, and     *)
(* these stay the most recent ones.                                         *)
LEMMA RecentKept ==
    ASSUME NEW ms \in Seq(Proper), Tight(ms), NEW i \in Droppable(ms), NEW len \in Nat \ {0}
    PROVE  Recent(Without(ms, i, len)) = Recent(ms)
<1> DEFINE b == Without(ms, i, len)
           f == From(ms, i)
           e == ExchangeEnd(ms, i)
           A == Exchanges(ms)
           B == Exchanges(b)
           LaterA(j) == {k \in A : k > j}
           LaterB(j) == {k \in B : k > j}
<1>1. i \in A /\ Cardinality(LaterA(i)) >= KeepRecent
  BY DEF Droppable
<1>2. /\ b \in Seq(Proper) /\ DOMAIN b = 1..Len(b) /\ Len(b) \in Nat
      /\ DOMAIN ms = 1..Len(ms) /\ Len(ms) \in Nat
      /\ i \in 3..Len(ms) /\ e \in i..Len(ms)
      /\ \A k \in DOMAIN b : /\ f[k] = (IF k < i THEN k ELSE k + (e - i + 1))
                             /\ f[k] \in DOMAIN ms /\ f[k] \notin i..e
                             /\ Alike(b[k], ms[f[k]])
      /\ \A j \in DOMAIN ms \ (i..e) : \E k \in DOMAIN b : f[k] = j
      /\ \A j \in (i + 1)..e : IsResult(ms[j])
      /\ \A k, l \in 1..Len(b) : k < l => f[k] < f[l]
  <2>1. 0 + 1 = 1
    OBVIOUS
  <2>2. \A k, l \in 1..Len(b) : k < l => f[k] < f[l]
    BY <1>1, <2>1, WithoutIs DEF Picked
  <2> QED
    BY <1>1, <2>2, WithoutIs, ProperRows
<1> HIDE DEF b, f, e
<1>3. ASSUME NEW k \in B
      PROVE  f[k] \in A \ {i} /\ b[k].of = ms[f[k]].of /\ k \in DOMAIN b /\ f[k] \in Nat
  <2>1. k \in DOMAIN b /\ k \in 3..Len(b) /\ MakesCalls(b[k])
    BY <1>2 DEF Exchanges
  <2>2. f[k] \in DOMAIN ms /\ f[k] # i /\ MakesCalls(ms[f[k]]) /\ f[k] >= 3
    BY <1>2, <2>1 DEF Alike, MakesCalls
  <2>3. f[k] \in 3..Len(ms) /\ f[k] \in Nat
    BY <1>2, <2>2
  <2> QED
    BY <1>2, <2>1, <2>2, <2>3 DEF Exchanges, Alike
<1>4. ASSUME NEW j \in A \ {i}
      PROVE  \E k \in B : f[k] = j
  <2>1. j \in DOMAIN ms /\ j \in 3..Len(ms) /\ MakesCalls(ms[j]) /\ j # i
    BY <1>2 DEF Exchanges
  <2>2. j \notin i..e
    <3> SUFFICES ASSUME j \in i..e PROVE FALSE
      OBVIOUS
    <3>1. j \in (i + 1)..e
      BY <1>2, <2>1
    <3> QED
      BY <1>2, <2>1, <3>1, ProperRows
  <2>3. PICK k \in DOMAIN b : f[k] = j
    BY <1>2, <2>1, <2>2
  <2>4. k \in 3..Len(b)
    <3>1. k \in 1..Len(b) /\ (IF k < i THEN k ELSE k + (e - i + 1)) >= 3
      BY <1>2, <2>1, <2>3
    <3> QED
      BY <1>2, <3>1
  <2>5. MakesCalls(b[k])
    BY <1>2, <2>1, <2>3 DEF Alike, MakesCalls
  <2> QED
    BY <2>3, <2>4, <2>5 DEF Exchanges
<1>5. IsFiniteSet(A) /\ IsFiniteSet(B) /\ A \subseteq Nat /\ B \subseteq Nat
  <2>1. IsFiniteSet(3..Len(ms)) /\ IsFiniteSet(3..Len(b))
    BY <1>2, FS_Interval
  <2>2. A \subseteq 3..Len(ms) /\ B \subseteq 3..Len(b)
    BY DEF Exchanges
  <2>3. 3..Len(ms) \subseteq Nat /\ 3..Len(b) \subseteq Nat
    BY <1>2
  <2> HIDE DEF A, B
  <2> QED
    BY <2>1, <2>2, <2>3, FS_Subset
<1> HIDE DEF A, B
<1>6. \A j : /\ IsFiniteSet(LaterA(j)) /\ IsFiniteSet(LaterB(j))
             /\ Cardinality(LaterA(j)) \in Nat /\ Cardinality(LaterB(j)) \in Nat
  <2> SUFFICES ASSUME NEW j
               PROVE  /\ IsFiniteSet(LaterA(j)) /\ IsFiniteSet(LaterB(j))
                      /\ Cardinality(LaterA(j)) \in Nat /\ Cardinality(LaterB(j)) \in Nat
    OBVIOUS
  <2>1. IsFiniteSet(LaterA(j)) /\ IsFiniteSet(LaterB(j))
    BY <1>5, FS_Subset
  <2> QED
    BY <2>1, FS_CardinalityType
<1>7. ASSUME NEW k \in B
      PROVE  Cardinality(LaterB(k)) = Cardinality(LaterA(f[k]) \ {i})
  <2> DEFINE h == [l \in LaterB(k) |-> f[l]]
             L == LaterB(k)
             M == LaterA(f[k]) \ {i}
  <2>1. \A l \in L : l \in B /\ k < l /\ l \in DOMAIN b /\ f[l] \in A \ {i} /\ f[l] \in Nat
    BY <1>3, <1>5, <1>7
  <2>2. k \in DOMAIN b /\ f[k] \in Nat
    BY <1>3, <1>7
  <2>3. \A l \in L : f[l] \in M
    BY <1>2, <2>1, <2>2
  <2>4. \A l, q \in L : f[l] = f[q] => l = q
    <3> SUFFICES ASSUME NEW l \in L, NEW q \in L, f[l] = f[q] PROVE l = q
      OBVIOUS
    <3>1. l \in 1..Len(b) /\ q \in 1..Len(b) /\ f[l] \in Nat /\ f[q] \in Nat
      BY <1>2, <2>1
    <3>2. ~(l < q) /\ ~(q < l)
      BY <1>2, <3>1
    <3> QED
      BY <3>1, <3>2
  <2>5. \A j \in M : \E l \in L : f[l] = j
    <3> SUFFICES ASSUME NEW j \in M PROVE \E l \in L : f[l] = j
      OBVIOUS
    <3>1. j \in A \ {i} /\ j > f[k]
      OBVIOUS
    <3>2. PICK l \in B : f[l] = j
      BY <1>4, <3>1
    <3>3. l \in DOMAIN b /\ f[l] \in Nat
      BY <1>3, <3>2
    <3>4. ~(l < k) /\ l # k
      BY <1>2, <2>2, <3>1, <3>2, <3>3
    <3>5. l > k
      BY <1>2, <2>2, <3>3, <3>4
    <3> QED
      BY <3>2, <3>5
  <2>6. IsFiniteSet(L)
    BY <1>6
  <2> HIDE DEF L, M
  <2>7. h \in [L -> M]
    BY <2>3 DEF L
  <2>8. /\ \A l, q \in L : h[l] = h[q] => l = q
        /\ \A j \in M : \E l \in L : h[l] = j
    BY <2>4, <2>5 DEF L
  <2> HIDE DEF h
  <2>9. h \in Injection(L, M) /\ h \in Surjection(L, M)
    BY <2>7, <2>8 DEF Injection, Surjection, IsInjective
  <2>10. Cardinality(M) = Cardinality(L)
    BY <2>6, <2>9, FS_Surjection
  <2> QED
    BY <2>10 DEF L, M
<1>8. ASSUME NEW k \in B
      PROVE  Cardinality(LaterB(k)) < KeepRecent <=> Cardinality(LaterA(f[k])) < KeepRecent
  <2>1. f[k] \in Nat /\ f[k] # i /\ i \in Nat
    BY <1>1, <1>3, <1>5, <1>8
  <2>2. Cardinality(LaterB(k)) = Cardinality(LaterA(f[k]) \ {i})
    BY <1>7, <1>8
  <2>3. CASE f[k] > i
    <3>1. i \notin LaterA(f[k])
      BY <2>1, <2>3
    <3>2. LaterA(f[k]) \ {i} = LaterA(f[k])
      BY <3>1
    <3> QED
      BY <2>2, <3>2
  <2>4. CASE f[k] < i
    <3> DEFINE L == LaterA(f[k])
               M == LaterA(i)
    <3>1. i \in L /\ M \subseteq L \ {i}
      <4>1. \A j \in M : j \in A /\ j > i /\ j \in Nat
        BY <1>5
      <4>2. \A j \in M : j > f[k] /\ j # i
        BY <2>1, <2>4, <4>1
      <4> QED
        BY <1>1, <2>4, <4>1, <4>2
    <3>2. IsFiniteSet(L) /\ Cardinality(L) \in Nat /\ Cardinality(M) \in Nat
      BY <1>6
    <3>3. Cardinality(M) >= KeepRecent
      BY <1>1
    <3> HIDE DEF L, M
    <3>4. IsFiniteSet(L \ {i}) /\ Cardinality(L \ {i}) = Cardinality(L) - 1
      BY <3>1, <3>2, FS_RemoveElement
    <3>5. Cardinality(M) <= Cardinality(L \ {i})
      BY <3>1, <3>4, FS_Subset
    <3>6. KeepRecent \in Nat
      BY WindowAssumption
    <3>7. ~(Cardinality(L \ {i}) < KeepRecent) /\ ~(Cardinality(L) < KeepRecent)
      BY <3>2, <3>3, <3>4, <3>5, <3>6
    <3> QED
      BY <2>2, <3>7 DEF L
  <2> QED
    BY <2>1, <2>3, <2>4
<1>9. Recent(b) = {b[k].of : k \in {j \in B : Cardinality(LaterB(j)) < KeepRecent}}
  BY DEF Recent, B
<1>10. Recent(ms) = {ms[k].of : k \in {j \in A : Cardinality(LaterA(j)) < KeepRecent}}
  BY DEF Recent, A
<1> HIDE DEF LaterA, LaterB
<1>11. ASSUME NEW k \in B, Cardinality(LaterB(k)) < KeepRecent
       PROVE  b[k].of \in Recent(ms)
  BY <1>3, <1>8, <1>10, <1>11
<1>12. ASSUME NEW j \in A, Cardinality(LaterA(j)) < KeepRecent
       PROVE  ms[j].of \in Recent(b)
  <2>1. j # i
    <3> SUFFICES ASSUME j = i PROVE FALSE
      OBVIOUS
    <3>1. Cardinality(LaterA(i)) \in Nat /\ KeepRecent \in Nat
      BY <1>6, WindowAssumption
    <3> QED
      BY <1>1, <1>12, <3>1
  <2>2. PICK k \in B : f[k] = j
    BY <1>4, <1>12, <2>1
  <2> QED
    BY <1>3, <1>8, <1>9, <1>12, <2>2
<1>13. Recent(b) \subseteq Recent(ms)
  BY <1>9, <1>11
<1>14. Recent(ms) \subseteq Recent(b)
  BY <1>10, <1>12
<1> QED
  BY <1>13, <1>14 DEF b

-----------------------------------------------------------------------------
(* Types of what the steps compute                                          *)

(* The place of the first and of the last member that passes a test.        *)
LEMMA FirstFinished ==
    ASSUME NEW left \in Seq(Seq(RowType))
    PROVE  SelectInSeq(left, Finished) \in 0..Len(left)
<1> DEFINE I == {i \in 1..Len(left) : Finished(left[i])}
<1>1. SelectInSeq(left, Finished) = IF I # {} THEN Min(I) ELSE 0
  BY DEF SelectInSeq
<1>2. I \in SUBSET (0..Len(left)) /\ Len(left) \in Nat
  OBVIOUS
<1> HIDE DEF I
<1>3. I # {} => Min(I) \in I
  BY <1>2, Greatest
<1>4. \A i \in I : i \in 0..Len(left)
  BY <1>2
<1>5. 0 \in 0..Len(left)
  BY <1>2
<1> QED
  BY <1>1, <1>3, <1>4, <1>5

LEMMA LastCall ==
    ASSUME NEW ms \in Seq(Proper), Tight(ms), NEW of, Ends(ms, of)
    PROVE  LET c == SelectLastInSeq(ms, MakesCalls)
           IN  c \in DOMAIN ms /\ ms[c].of = of
<1> DEFINE I == {i \in 1..Len(ms) : MakesCalls(ms[i])}
<1>1. SelectLastInSeq(ms, MakesCalls) = IF I # {} THEN Max(I) ELSE 0
  BY DEF SelectLastInSeq
<1>2. /\ DOMAIN ms = 1..Len(ms) /\ Len(ms) \in Nat /\ Len(ms) \in DOMAIN ms
      /\ \A k \in DOMAIN ms : IsResult(ms[k]) => ~MakesCalls(ms[k])
  BY ProperRows DEF Ends
<1>3. PICK c \in 1..Len(ms) : /\ MakesCalls(ms[c]) /\ ms[c].of = ms[Len(ms)].of
                              /\ \A k \in (c + 1)..Len(ms) : IsResult(ms[k])
  BY <1>2, HasCall DEF Ends
<1>4. c \in I /\ \A k \in I : k <= c
  <2> SUFFICES ASSUME NEW k \in I, k > c PROVE FALSE
    BY <1>2, <1>3
  <2>1. k \in (c + 1)..Len(ms) /\ k \in DOMAIN ms
    BY <1>2
  <2> QED
    BY <1>2, <1>3, <2>1
<1>5. Max(I) \in I /\ Max(I) >= c
  <2>1. I \in SUBSET (0..Len(ms)) /\ I # {}
    BY <1>2, <1>4
  <2> HIDE DEF I
  <2>2. Max(I) \in I /\ \A k \in I : k <= Max(I)
    BY <1>2, <2>1, Greatest
  <2> QED
    BY <1>4, <2>2
<1>6. \A k \in I : k \in 1..Len(ms)
  OBVIOUS
<1> HIDE DEF I
<1>7. Max(I) = c
  <2>1. Max(I) <= c /\ Max(I) \in 1..Len(ms) /\ Max(I) >= c
    BY <1>4, <1>5, <1>6
  <2> DEFINE x == Max(I)
  <2> HIDE DEF x
  <2>2. x <= c /\ x \in 1..Len(ms) /\ x >= c
    BY <2>1 DEF x
  <2>3. x = c
    BY <2>2
  <2> QED
    BY <2>3 DEF x
<1> QED
  BY <1>1, <1>2, <1>3, <1>4, <1>7 DEF Ends

LEMMA LengthNat ==
    ASSUME NEW ms \in Seq(Proper)
    PROVE  Length(ms) \in Nat
<1> DEFINE f == [i \in DOMAIN ms |-> ms[i].len]
<1>1. DOMAIN f = 1..Len(ms) /\ Len(ms) \in Nat /\ \A x \in DOMAIN f : f[x] \in Nat
  BY ProperRows
<1>2. IsFiniteSet(DOMAIN f)
  BY <1>1, FS_Interval
<1> HIDE DEF f
<1>3. SumFunction(f) \in Nat
  BY <1>1, <1>2, SumNat
<1> QED
  BY <1>3 DEF Length, f

LEMMA NoteNat ==
    ASSUME NEW ms \in Seq(Proper), NEW i \in DOMAIN ms, NEW e \in i..Len(ms)
    PROVE  SumFunction([k \in (i + 1)..e |-> Min({Snippet, ms[k].len})]) \in Nat
<1> DEFINE f == [k \in (i + 1)..e |-> Min({Snippet, ms[k].len})]
<1>1. DOMAIN ms = 1..Len(ms) /\ Len(ms) \in Nat /\ i \in Nat /\ e \in Nat
  BY ProperRows
<1>2. ASSUME NEW k \in (i + 1)..e PROVE Min({Snippet, ms[k].len}) \in Nat
  <2> DEFINE l == ms[k].len
  <2>3. Snippet \in Nat
    BY WindowAssumption
  <2>4. k \in DOMAIN ms
    BY <1>1
  <2>1. l \in Nat /\ Snippet \in Nat
    BY <2>3, <2>4, ProperRows
  <2> HIDE DEF l
  <2>2. {Snippet, l} \in SUBSET (0..(Snippet + l)) /\ Snippet + l \in Nat /\ {Snippet, l} # {}
    BY <2>1
  <2>5. Min({Snippet, l}) \in {Snippet, l}
    BY <2>2, Greatest
  <2> QED
    BY <2>1, <2>5 DEF l
<1>3. DOMAIN f = (i + 1)..e /\ \A x \in DOMAIN f : f[x] \in Nat
  BY <1>2
<1>4. IsFiniteSet(DOMAIN f)
  BY <1>1, <1>3, FS_Interval
<1> HIDE DEF f
<1>5. SumFunction(f) \in Nat
  BY <1>3, <1>4, SumNat
<1> QED
  BY <1>5 DEF f

(* Of some results there is a longest one.                                  *)
LEMMA LargestIs ==
    ASSUME NEW ms \in Seq(Proper), Results(ms) # {}
    PROVE  Largest(ms) \in DOMAIN ms /\ IsResult(ms[Largest(ms)])
<1> DEFINE R == Results(ms)
           Longer(i) == {j \in R : ms[j].len > ms[i].len}
           T == {Cardinality(Longer(i)) : i \in R}
           M == {i \in R : \A j \in R : ms[j].len <= ms[i].len}
<1>1. /\ R \subseteq 1..Len(ms) /\ Len(ms) \in Nat /\ DOMAIN ms = 1..Len(ms) /\ R # {}
      /\ \A i \in R : IsResult(ms[i]) /\ ms[i].len \in Nat
  BY ProperRows DEF Results
<1> HIDE DEF R
<1>2. \A i \in R : IsFiniteSet(Longer(i)) /\ Cardinality(Longer(i)) \in Nat
  <2>1. IsFiniteSet(R)
    <3>1. IsFiniteSet(1..Len(ms))
      BY <1>1, FS_Interval
    <3> QED
      BY <1>1, <3>1, FS_Subset
  <2> QED
    BY <2>1, FS_Subset, FS_CardinalityType
<1>3. T \in SUBSET Nat /\ T # {}
  BY <1>1, <1>2
<1>4. PICK n \in T : \A m \in T : n <= m
  <2> HIDE DEF T
  <2> QED
    BY <1>3, Least
<1>5. PICK i \in R : n = Cardinality(Longer(i))
  BY <1>4
<1>6. i \in M
  <2> SUFFICES ASSUME NEW j \in R, ~(ms[j].len <= ms[i].len) PROVE FALSE
    OBVIOUS
  <2>1. ms[j].len > ms[i].len
    BY <1>1
  <2>2. j \in Longer(i) /\ j \notin Longer(j) /\ Longer(j) \subseteq Longer(i)
    <3>1. \A k \in R : ms[k].len > ms[j].len => ms[k].len > ms[i].len
      BY <1>1, <2>1
    <3>2. ~(ms[j].len > ms[j].len)
      BY <1>1
    <3> QED
      BY <2>1, <3>1, <3>2
  <2>3. Cardinality(Longer(j)) \in T
    OBVIOUS
  <2>4. n <= Cardinality(Longer(j))
    BY <1>4, <2>3
  <2>5. IsFiniteSet(Longer(i)) /\ n \in Nat /\ Cardinality(Longer(j)) \in Nat
    BY <1>2, <1>5
  <2> HIDE DEF Longer
  <2>6. /\ Cardinality(Longer(j)) <= n
        /\ Cardinality(Longer(i)) = Cardinality(Longer(j)) => Longer(i) = Longer(j)
    BY <1>5, <2>2, <2>5, FS_Subset
  <2> QED
    BY <1>5, <2>2, <2>4, <2>5, <2>6
<1>7. Min(M) \in M
  <2>1. \A k \in M : k \in 0..Len(ms)
    BY <1>1
  <2> HIDE DEF M
  <2>2. M \in SUBSET (0..Len(ms)) /\ M # {}
    BY <1>6, <2>1
  <2> QED
    BY <1>1, <2>2, Greatest
<1>8. Largest(ms) = Min(M)
  BY DEF Largest, R
<1> QED
  BY <1>1, <1>7, <1>8

LEMMA EvictedType ==
    ASSUME NEW rows \in Seq(Proper)
    PROVE  Evicted(rows) \in Seq(Seq(RowType))
<1> DEFINE cut == Start(rows)
           heads == {1} \cup {i \in DOMAIN rows : IsUser(rows[i])}
           S == {i \in heads : i < cut}
           from == InOrder(S)
           until(k) == IF k = Len(from) THEN cut - 1 ELSE from[k + 1] - 1
           l == Len(rows)
           m == Cardinality(S)
<1>1. rows \in Seq(RowType) /\ DOMAIN rows = 1..l /\ l \in Nat
  BY ProperRows
<1>2. cut \in Nat /\ cut - 1 <= l
  BY <1>1, StartIn
<1>3. S \in SUBSET (1..l)
  <2>1. heads \subseteq {1} \cup (1..l)
    BY <1>1
  <2> HIDE DEF cut, heads, l
  <2>2. \A i \in S : i \in 1..l
    BY <1>1, <1>2, <2>1
  <2> HIDE DEF S
  <2> QED
    BY <2>2
<1>4. \A i \in S : i < cut /\ i \in 1..l
  BY <1>3
<1> HIDE DEF cut, S, l
<1>5. m \in Nat /\ from \in [1..m -> S] /\ Len(from) = m
  BY <1>1, <1>3, InOrderIs
<1> HIDE DEF from, m
<1>6. ASSUME NEW k \in 1..m
      PROVE  SubSeq(rows, from[k], until(k)) \in Seq(RowType)
  <2>1. from[k] \in 1..l
    BY <1>4, <1>5
  <2>2. until(k) \in Int /\ until(k) <= l
    <3>1. CASE k = m
      BY <1>1, <1>2, <1>5, <3>1
    <3>2. CASE k # m
      <4>1. k + 1 \in 1..m
        BY <1>5, <3>2
      <4>2. from[k + 1] \in 1..l
        BY <1>4, <1>5, <4>1
      <4> QED
        BY <1>1, <1>5, <3>2, <4>2
    <3> QED
      BY <3>1, <3>2
  <2> DEFINE u == until(k)
  <2> HIDE DEF u, until
  <2>3. SubSeq(rows, from[k], u) \in Seq(RowType)
    BY <1>1, <2>1, <2>2 DEF u, l
  <2> QED
    BY <2>3 DEF u
<1>7. Evicted(rows) = [k \in DOMAIN from |-> SubSeq(rows, from[k], until(k))]
  BY DEF Evicted, from, S, cut
<1>8. DOMAIN from = 1..m
  BY <1>5
<1> HIDE DEF until
<1> QED
  BY <1>5, <1>6, <1>7, <1>8

-----------------------------------------------------------------------------
(* The log, the rows in memory and the messages together                    *)

LEMMA Agreed ==
    ASSUME NEW l, NEW h, NEW ms, Agree(l, h, ms)
    PROVE  /\ l \in Seq(Proper) /\ h \in Seq(Proper) /\ ms \in Seq(Proper)
           /\ Len(l) \in Nat /\ Tight(ms) /\ Once(ms)
  BY ProperRows DEF Agree, Sound

LEMMA NoList ==
    ASSUME NEW l, NEW h, NEW ms, Agree(l, h, ms)
    PROVE  Agree(l, h, <<>>)
<1>1. <<>> \in Seq(Proper) /\ DOMAIN <<>> = {}
  OBVIOUS
<1>2. Sound(<<>>, Len(l)) /\ Whole(<<>>, h)
  BY <1>1 DEF Sound, Tight, Once, Upto, Whole
<1> QED
  BY <1>2 DEF Agree

(* A row that is no result, behind all three.                               *)
LEMMA MorePlain ==
    ASSUME NEW l, NEW h, NEW ms, Agree(l, h, ms), NEW r \in Proper, ~IsResult(r),
           IF MakesCalls(r) THEN r.of = Len(l) + 1 ELSE r.of = 0
    PROVE  Agree(Append(l, r), Append(h, r), Append(ms, r))
<1> DEFINE n == Len(l)
           m == n + 1
<1>1. /\ Sound(l, n) /\ Sound(h, n) /\ Sound(ms, n) /\ Whole(ms, h)
      /\ l \in Seq(Proper) /\ h \in Seq(Proper) /\ ms \in Seq(Proper)
      /\ n \in Nat /\ Upto(h, n)
  BY Agreed DEF Agree, Sound
<1>2. Len(Append(l, r)) = m
  BY <1>1
<1> HIDE DEF n
<1>3. m \in Nat /\ n <= m /\ r.of <= m /\ (MakesCalls(r) => r.of > n)
  BY <1>1 DEF n
<1>4. Sound(Append(l, r), m) /\ Sound(Append(h, r), m) /\ Sound(Append(ms, r), m)
  BY <1>1, <1>3, AddPlain
<1>5. \A of \in 0..n : Answered(Append(h, r), of) = Answered(h, of)
  BY <1>1, CountPlain
<1>6. MakesCalls(r) => Answered(Append(h, r), r.of) = 0
  <2> SUFFICES ASSUME MakesCalls(r) PROVE Answered(Append(h, r), r.of) = 0
    OBVIOUS
  <2>1. r.of \in Nat /\ r.of > n
    BY <1>3 DEF Proper, RowType
  <2>2. Answered(h, r.of) = 0
    BY <1>1, <2>1, CountNone
  <2> QED
    BY <1>1, <2>2, CountPlain
<1>7. Whole(Append(ms, r), Append(h, r))
  BY <1>1, <1>5, <1>6, WholePlain
<1> QED
  BY <1>2, <1>4, <1>7 DEF Agree

LEMMA SoundUp ==
    ASSUME NEW ms, NEW n \in Nat, Sound(ms, n)
    PROVE  Sound(ms, n + 1)
  BY ProperRows DEF Sound, Upto

(* A result, where all three end with its exchange.                         *)
LEMMA MoreResult ==
    ASSUME NEW l, NEW h, NEW ms, Agree(l, h, ms), NEW of, Ends(l, of), Ends(h, of),
           Ends(ms, of), NEW r \in Proper, IsResult(r), r.of = of, NEW s \in Proper,
           IsResult(s), s.of = of
    PROVE  /\ Agree(Append(l, r), Append(h, r), Append(ms, s))
           /\ Ends(Append(l, r), of) /\ Ends(Append(h, r), of) /\ Ends(Append(ms, s), of)
<1> DEFINE n == Len(l)
<1>1. /\ Sound(l, n) /\ Sound(h, n) /\ Sound(ms, n) /\ Whole(ms, h)
      /\ l \in Seq(Proper) /\ h \in Seq(Proper) /\ n \in Nat
  BY Agreed DEF Agree
<1>2. Len(Append(l, r)) = n + 1
  BY <1>1
<1> HIDE DEF n
<1>3. Sound(Append(l, r), n) /\ Ends(Append(l, r), of)
  BY <1>1, AddResult
<1>4. Sound(Append(h, r), n) /\ Ends(Append(h, r), of)
  BY <1>1, AddResult
<1>5. Sound(Append(ms, s), n) /\ Ends(Append(ms, s), of)
  BY <1>1, AddResult
<1>6. Whole(Append(ms, s), Append(h, r))
  BY <1>1, WholeResult
<1> QED
  BY <1>1, <1>2, <1>3, <1>4, <1>5, <1>6, SoundUp DEF Agree

-----------------------------------------------------------------------------
(* The invariant is preserved: the loop                                     *)

LEMMA WindowStarts == Init => WindowInv
<1> SUFFICES ASSUME Init PROVE WindowInv
  OBVIOUS
<1>1. <<>> \in Seq(Proper) /\ <<>> \in Seq(Seq(RowType)) /\ DOMAIN <<>> = {} /\ Len(<<>>) = 0
  OBVIOUS
<1>2. Types
  <2>1. summary \in [DOMAIN summary -> {"running", "made", "failed", "model", "standin"}]
    BY <1>1 DEF Init
  <2>2. crashes \in 0..MaxCrashes
    BY WindowAssumption DEF Init
  <2>3. DOMAIN summary \subseteq Seq(RowType)
    BY <1>1 DEF Init
  <2>4. gather \in [Threads -> [left : Seq(Seq(RowType)), seen : BOOLEAN]]
    BY <1>1 DEF Init, Away
  <2> QED
    BY <1>1, <2>1, <2>2, <2>3, <2>4 DEF Types, Init, Phases
<1>3. Looking /\ Listing /\ Open
  BY DEF Looking, Listing, Open, Init, Away, Threads
<1>4. Paired
  <2>1. Sound(<<>>, 0) /\ Whole(<<>>, <<>>)
    BY <1>1 DEF Sound, Tight, Once, Upto, Whole
  <2> QED
    BY <1>1, <2>1 DEF Paired, Agree, Init
<1> QED
  BY <1>2, <1>3, <1>4 DEF WindowInv

LEMMA RowsOfText ==
    ASSUME NEW len \in Nat \ {0}
    PROVE  /\ User(len) \in Proper /\ ~IsResult(User(len)) /\ ~MakesCalls(User(len))
           /\ User(len).of = 0
           /\ Text(len) \in Proper /\ ~IsResult(Text(len)) /\ ~MakesCalls(Text(len))
           /\ Text(len).of = 0
           /\ Row("analysis", len, 0, 0) \in Proper
           /\ ~IsResult(Row("analysis", len, 0, 0)) /\ ~MakesCalls(Row("analysis", len, 0, 0))
           /\ Row("analysis", len, 0, 0).of = 0
<1>1. 0 \in 0..MaxCalls
  BY WindowAssumption
<1> QED
  BY <1>1, RowProper DEF User, Text, IsResult, MakesCalls

LEMMA Lens ==
    /\ \A len \in Said \cup Replies \cup Returned : len \in Nat \ {0}
    /\ 1 \in Nat \ {0}
  BY WindowAssumption

LEMMA TurnKeeps ==
    ASSUME WindowInv, NEW len \in Said, Turn(len)
    PROVE  WindowInv'
<1> DEFINE r == User(len)
<1>1. r \in Proper /\ ~IsResult(r) /\ ~MakesCalls(r) /\ r.of = 0
  BY Lens, RowsOfText
<1>2. Types /\ Looking /\ Listing /\ Paired
  BY DEF WindowInv
<1>3. phase = "idle" /\ messages = <<>> /\ log \in Seq(Proper) /\ history \in Seq(Proper)
  BY <1>2 DEF Turn, Listing, Types
<1>4. log' = Append(log, r) /\ history' = Append(history, r) /\ messages' = <<>>
  BY <1>1, <1>3, Appended DEF Turn, Both
<1> HIDE DEF r
<1>5. Agree(log', history', messages')
  <2>1. Agree(Append(log, r), Append(history, r), Append(messages, r))
    BY <1>1, <1>2, MorePlain DEF Paired
  <2> QED
    BY <1>4, <2>1, NoList
<1>6. gather' \in [Threads -> [left : Seq(Seq(RowType)), seen : BOOLEAN]]
  <2>1. Evicted(history') \in Seq(Seq(RowType))
    BY <1>5, Agreed, EvictedType
  <2> QED
    BY <1>2, <2>1 DEF Turn, Types, Threads
<1>7. memory' \subseteq {"core", "episodes", "actions"}
  BY <1>2 DEF Turn, Types, GoalNoted, Note
<1>8. Types'
  BY <1>2, <1>5, <1>6, <1>7, Agreed DEF Turn, Types, Phases
<1>9. Looking'
  <2>1. gather["turn"].left = <<>> /\ gather["turn"].seen = FALSE
    BY <1>2, <1>3 DEF Looking, Types, Threads
  <2> QED
    BY <1>2, <2>1 DEF Looking, Turn, Types, Threads
<1>10. Listing' /\ Open'
  BY <1>4 DEF Turn, Listing, Open
<1> QED
  BY <1>5, <1>8, <1>9, <1>10 DEF WindowInv, Paired

(* Where the rows and messages stay as they are.                            *)
LEMMA StillPaired ==
    ASSUME WindowInv, UNCHANGED <<log, history, messages>>,
           phase' = "tools" => phase = "tools"
    PROVE  Paired' /\ Open'
  BY DEF WindowInv, Paired, Open

LEMMA CompactKeeps ==
    ASSUME WindowInv, Compact
    PROVE  WindowInv'
<1>1. Types /\ Looking /\ Listing
  BY DEF WindowInv
<1>2. Evicted(history) \in Seq(Seq(RowType)) /\ Evicted(history) # <<>>
  BY <1>1, EvictedType DEF Types, Compact
<1>3. Types'
  BY <1>1, <1>2 DEF Compact, Types, Threads
<1>4. Looking'
  BY <1>1, <1>2 DEF Compact, Looking, Types, Threads
<1>5. Listing'
  BY <1>1 DEF Compact, Listing
<1> QED
  BY <1>3, <1>4, <1>5, StillPaired DEF WindowInv, Compact

LEMMA OpenWindowKeeps ==
    ASSUME WindowInv, OpenWindow, UNCHANGED <<log, history>>
    PROVE  /\ messages' \in Seq(Proper) /\ phase' = "call"
           /\ Listing' /\ Paired' /\ Open'
<1> DEFINE first == Start(history)
<1>1. Sound(log, Len(log)) /\ Sound(history, Len(log)) /\ Len(log) \in Nat
  BY Agreed DEF WindowInv, Paired, Agree
<1>2. first \in 1..(Len(history) + 1)
  <2>1. history \in Seq(Proper)
    BY <1>1 DEF Sound
  <2>2. first \in {1} \cup DOMAIN history /\ Len(history) \in Nat
        /\ DOMAIN history = 1..Len(history)
    BY <2>1, StartIn, ProperRows
  <2> HIDE DEF first
  <2> QED
    BY <2>2
<1>3. PICK context \in BOOLEAN :
         messages' = Build(SubSeq(history, first, Len(history)), context)
  <2>1. PICK found \in BOOLEAN :
           messages' = Build(SubSeq(history, first, Len(history)),
                             \/ "actions" \in memory \/ L1Block \/ L2Block(found)
                             \/ first > 1)
    BY DEF OpenWindow
  <2> DEFINE context == \/ "actions" \in memory \/ L1Block \/ L2Block(found)
                        \/ first > 1
  <2>2. context \in BOOLEAN
    BY DEF L1Block, L2Block
  <2> QED
    BY <2>1, <2>2
<1> HIDE DEF first
<1>4. /\ Sound(messages', Len(log)) /\ Whole(messages', history)
      /\ messages' # <<>> /\ messages'[1].role = "system"
  BY <1>1, <1>2, <1>3, BuildIs
<1>5. Paired'
  BY <1>1, <1>4 DEF Paired, Agree
<1>6. phase' = "call"
  BY DEF OpenWindow
<1> QED
  BY <1>4, <1>5, <1>6 DEF Sound, Listing, Open

LEMMA LookUpKeeps ==
    ASSUME WindowInv, NEW p \in Threads, LookUp(p)
    PROVE  WindowInv'
<1> DEFINE left == gather[p].left
           i == SelectInSeq(left, Finished)
           new == {u \in ToSet(IF i = 0 THEN left ELSE SubSeq(left, 1, i)) :
                      Status(u) = "none"}
<1>1. Types /\ Looking /\ Listing
  BY DEF WindowInv
<1>2. left \in Seq(Seq(RowType)) /\ Len(left) \in Nat
  BY <1>1 DEF Types
<1>3. i \in 0..Len(left)
  <2> HIDE DEF left
  <2> QED
    BY <1>2, FirstFinished
<1>4. /\ summary' = [u \in new \cup DOMAIN summary |->
                        IF u \in new THEN "running" ELSE summary[u]]
      /\ gather' = [gather EXCEPT ![p] =
                       IF i = 0 THEN Away
                       ELSE [left |-> SubSeq(left, i, Len(left)), seen |-> TRUE]]
      /\ IF p = "turn" /\ i = 0 THEN OpenWindow ELSE UNCHANGED <<messages, phase>>
      /\ UNCHANGED <<log, history, total, crashes, memory>>
      /\ left # <<>> \/ (p = "turn" /\ phase = "window")
  BY DEF LookUp
<1>5. new \subseteq Seq(RowType)
  <2> HIDE DEF left, i
  <2>1. SubSeq(left, 1, i) \in Seq(Seq(RowType))
    BY <1>2, <1>3
  <2>2. \A s \in Seq(Seq(RowType)) : ToSet(s) \subseteq Seq(RowType)
    BY DEF ToSet
  <2> QED
    BY <1>2, <2>1, <2>2
<1>6. i # 0 => /\ SubSeq(left, i, Len(left)) \in Seq(Seq(RowType))
               /\ SubSeq(left, i, Len(left)) # <<>>
  <2> HIDE DEF left, i
  <2> SUFFICES ASSUME i # 0
               PROVE  /\ SubSeq(left, i, Len(left)) \in Seq(Seq(RowType))
                      /\ SubSeq(left, i, Len(left)) # <<>>
    OBVIOUS
  <2>1. i \in 1..Len(left) /\ Len(left) - i + 1 > 0
    BY <1>2, <1>3
  <2>2. /\ SubSeq(left, i, Len(left)) \in Seq(Seq(RowType))
        /\ Len(SubSeq(left, i, Len(left))) > 0
    BY <1>2, <2>1
  <2> DEFINE s == SubSeq(left, i, Len(left))
  <2> HIDE DEF s
  <2>3. s \in Seq(Seq(RowType)) /\ Len(s) > 0
    BY <2>2 DEF s
  <2>4. s # <<>>
    BY <2>3
  <2> QED
    BY <2>3, <2>4 DEF s
<1>7. <<>> \in Seq(Seq(RowType))
  OBVIOUS
<1>8. gather["turn"].left # <<>> => phase = "window"
  BY <1>1 DEF Looking
<1>9. p = "turn" => phase = "window"
  BY <1>4, <1>8
<1> HIDE DEF left, i, new
<1>10. gather' \in [Threads -> [left : Seq(Seq(RowType)), seen : BOOLEAN]]
  BY <1>1, <1>4, <1>6, <1>7 DEF Types, Away
<1>11. /\ summary' \in [DOMAIN summary' -> {"running", "made", "failed", "model", "standin"}]
       /\ DOMAIN summary' \subseteq Seq(RowType)
  <2>1. DOMAIN summary' = new \cup DOMAIN summary
    BY <1>4
  <2>2. \A u \in DOMAIN summary' : summary'[u] \in {"running", "made", "failed", "model", "standin"}
    BY <1>1, <1>4 DEF Types
  <2>3. summary' = [u \in DOMAIN summary' |-> summary'[u]]
    BY <1>4
  <2> QED
    BY <1>1, <1>5, <2>1, <2>2, <2>3 DEF Types
<1>12. CASE p = "turn" /\ i = 0
  <2>1. OpenWindow /\ UNCHANGED <<log, history>>
    BY <1>4, <1>12
  <2>2. messages' \in Seq(Proper) /\ phase' = "call" /\ Listing' /\ Paired' /\ Open'
    BY <2>1, OpenWindowKeeps
  <2>3. Types'
    BY <1>1, <1>4, <1>10, <1>11, <2>2 DEF Types, Phases
  <2>4. Looking'
    <3>1. gather'["turn"].left = <<>> /\ \A q \in Threads : gather'[q].seen => gather'[q].left # <<>>
      BY <1>1, <1>4, <1>12 DEF Looking, Away, Types, Threads
    <3> QED
      BY <3>1 DEF Looking
  <2> QED
    BY <2>2, <2>3, <2>4 DEF WindowInv
<1>13. CASE ~(p = "turn" /\ i = 0)
  <2>1. UNCHANGED <<log, history, messages, phase, total, crashes, memory>>
    BY <1>4, <1>13
  <2>2. Types'
    BY <1>1, <1>10, <1>11, <2>1 DEF Types
  <2>3. Looking'
    <3>1. p # "turn" => gather'["turn"] = gather["turn"]
      BY <1>1, <1>4 DEF Types, Threads
    <3>2. gather'["turn"].left # <<>> => phase = "window"
      BY <1>8, <1>9, <3>1
    <3>3. \A q \in Threads : gather'[q].seen => gather'[q].left # <<>>
      BY <1>1, <1>4, <1>6 DEF Looking, Away, Types
    <3> QED
      BY <2>1, <3>2, <3>3 DEF Looking
  <2>4. Listing' /\ Paired' /\ Open'
    BY <1>1, <2>1, StillPaired DEF Listing
  <2> QED
    BY <2>2, <2>3, <2>4 DEF WindowInv
<1> QED
  BY <1>12, <1>13

LEMMA StoreKeeps ==
    ASSUME WindowInv, NEW p \in Threads, Store(p)
    PROVE  WindowInv'
<1> DEFINE unit == Head(gather[p].left)
<1>1. Types /\ Looking /\ Listing
  BY DEF WindowInv
<1>2. gather[p].seen /\ gather[p].left # <<>>
  BY <1>1 DEF Store, Looking
<1>3. /\ gather[p].left \in Seq(Seq(RowType)) /\ Tail(gather[p].left) \in Seq(Seq(RowType))
      /\ <<>> \in Seq(Seq(RowType))
  <2>1. gather[p].left \in Seq(Seq(RowType))
    BY <1>1 DEF Types
  <2> QED
    BY <1>2, <2>1
<1>4. p = "turn" => phase = "window"
  BY <1>1, <1>2 DEF Looking
<1>5. /\ summary' = [summary EXCEPT ![unit] =
                        IF @ \in {"made", "model"} THEN "model" ELSE "standin"]
      /\ IF Finished(unit)
         THEN /\ gather' = [gather EXCEPT ![p] = [left |-> Tail(@.left), seen |-> FALSE]]
              /\ UNCHANGED phase
         ELSE /\ gather' = [gather EXCEPT ![p] = Away]
              /\ phase' = IF p = "turn" THEN "idle" ELSE phase
      /\ UNCHANGED <<log, history, messages, total, crashes, memory>>
  BY DEF Store
<1> HIDE DEF unit
<1>12. gather' = [gather EXCEPT ![p] =
                     IF Finished(unit) THEN [left |-> Tail(gather[p].left), seen |-> FALSE]
                     ELSE Away]
  <2>1. gather \in [Threads -> [left : Seq(Seq(RowType)), seen : BOOLEAN]]
    BY <1>1 DEF Types
  <2> QED
    BY <1>5, <2>1
<1>6. gather' \in [Threads -> [left : Seq(Seq(RowType)), seen : BOOLEAN]]
  <2>1. gather \in [Threads -> [left : Seq(Seq(RowType)), seen : BOOLEAN]]
    BY <1>1 DEF Types
  <2> QED
    BY <1>3, <1>12, <2>1 DEF Away
<1>7. /\ summary' \in [DOMAIN summary' -> {"running", "made", "failed", "model", "standin"}]
      /\ DOMAIN summary' = DOMAIN summary
  BY <1>1, <1>5 DEF Types
<1>8. phase' \in Phases /\ (phase' = "tools" => phase = "tools")
  BY <1>1, <1>5 DEF Types, Phases
<1>9. Types'
  BY <1>1, <1>5, <1>6, <1>7, <1>8 DEF Types
<1>10. Looking'
  <2>1. \A q \in Threads : gather'[q].seen => gather'[q].left # <<>>
    <3>1. /\ gather \in [Threads -> [left : Seq(Seq(RowType)), seen : BOOLEAN]]
          /\ \A q \in Threads : gather[q].seen => gather[q].left # <<>>
      BY <1>1 DEF Looking, Types
    <3>2. gather'[p].seen = FALSE
      BY <1>12, <3>1 DEF Away
    <3>3. \A q \in Threads : q # p => gather'[q] = gather[q]
      BY <1>12, <3>1
    <3> QED
      BY <3>1, <3>2, <3>3
  <2>2. gather'["turn"].left # <<>> => phase' = "window"
    <3>1. CASE p = "turn"
      BY <1>1, <1>4, <1>5, <3>1 DEF Away, Types, Threads
    <3>2. CASE p # "turn"
      BY <1>1, <1>5, <3>2 DEF Looking, Types, Threads
    <3> QED
      BY <3>1, <3>2
  <2> QED
    BY <2>1, <2>2 DEF Looking
<1>11. Listing'
  BY <1>1, <1>4, <1>5 DEF Listing
<1> QED
  BY <1>5, <1>8, <1>9, <1>10, <1>11, StillPaired DEF WindowInv

LEMMA SummarizeKeeps ==
    ASSUME WindowInv, NEW u \in DOMAIN summary, NEW result \in {"made", "failed"},
           Summarize(u, result)
    PROVE  WindowInv'
<1>1. Types /\ Looking /\ Listing
  BY DEF WindowInv
<1>2. /\ summary' \in [DOMAIN summary' -> {"running", "made", "failed", "model", "standin"}]
      /\ DOMAIN summary' = DOMAIN summary
  BY <1>1 DEF Types, Summarize
<1>3. Types' /\ Looking' /\ Listing'
  BY <1>1, <1>2 DEF Types, Looking, Listing, Summarize
<1> QED
  BY <1>3, StillPaired DEF WindowInv, Summarize

(* A row or two more that are no results and open no exchange.              *)
Plain(r) == r \in Proper /\ ~IsResult(r) /\ ~MakesCalls(r) /\ r.of = 0

LEMMA FirstStays ==
    ASSUME NEW q \in Seq(Proper), NEW r \in Proper
    PROVE  Append(q, r) # <<>> /\ (q # <<>> => Append(q, r)[1] = q[1])
<1>1. q # <<>> => 1 \in 1..Len(q)
  OBVIOUS
<1> QED
  BY <1>1, Appended

LEMMA OnePlain ==
    ASSUME NEW l, NEW h, NEW ms, Agree(l, h, ms), NEW r, Plain(r)
    PROVE  /\ Agree(l \o <<r>>, h \o <<r>>, Append(ms, r))
           /\ l \o <<r>> = Append(l, r) /\ h \o <<r>> = Append(h, r)
           /\ ms \o <<r>> = Append(ms, r)
           /\ Append(ms, r) # <<>> /\ (ms # <<>> => Append(ms, r)[1] = ms[1])
<1>1. l \in Seq(Proper) /\ h \in Seq(Proper) /\ ms \in Seq(Proper) /\ r \in Proper
  BY Agreed DEF Plain
<1>2. /\ l \o <<r>> = Append(l, r) /\ h \o <<r>> = Append(h, r) /\ ms \o <<r>> = Append(ms, r)
      /\ Append(ms, r) # <<>>
  BY <1>1, Appended
<1>3. ms # <<>> => Append(ms, r)[1] = ms[1]
  BY <1>1, FirstStays
<1> QED
  BY <1>1, <1>2, <1>3, MorePlain DEF Plain

LEMMA TwoPlain ==
    ASSUME NEW l, NEW h, NEW ms, Agree(l, h, ms), NEW r, Plain(r), NEW s, Plain(s)
    PROVE  /\ Agree(l \o <<r, s>>, h \o <<r, s>>, ms \o <<r, s>>)
           /\ ms \o <<r, s>> # <<>> /\ (ms # <<>> => (ms \o <<r, s>>)[1] = ms[1])
<1>1. /\ l \in Seq(Proper) /\ h \in Seq(Proper) /\ ms \in Seq(Proper)
      /\ r \in Proper /\ s \in Proper
  BY Agreed DEF Plain
<1>2. \A q \in Seq(Proper) : q \o <<r, s>> = Append(Append(q, r), s)
  BY <1>1
<1>3. /\ Agree(Append(l, r), Append(h, r), Append(ms, r))
      /\ Append(ms, r) # <<>> /\ (ms # <<>> => Append(ms, r)[1] = ms[1])
  BY <1>1, FirstStays, MorePlain DEF Plain
<1>4. Agree(Append(Append(l, r), s), Append(Append(h, r), s), Append(Append(ms, r), s))
  BY <1>1, <1>3, MorePlain DEF Plain
<1>5. Append(ms, r) \in Seq(Proper)
  BY <1>1
<1>6. /\ Append(Append(ms, r), s) # <<>>
      /\ Append(ms, r) # <<>> => Append(Append(ms, r), s)[1] = Append(ms, r)[1]
  BY <1>1, <1>5, FirstStays
<1> QED
  BY <1>1, <1>2, <1>3, <1>4, <1>6

LEMMA PlainRows ==
    \A len \in Nat \ {0} : Plain(User(len)) /\ Plain(Text(len)) /\ Plain(Row("analysis", len, 0, 0))
  BY RowsOfText DEF Plain

(* What is the same for the steps of the loop.                              *)
LEMMA LoopKeeps ==
    ASSUME WindowInv, Agree(log', history', messages'), phase \notin {"idle", "window"},
           total' \in Int, phase' \in Phases, UNCHANGED <<crashes, summary, gather>>,
           memory' \subseteq {"core", "episodes", "actions"}, Listing', Open'
    PROVE  WindowInv'
<1>1. Types /\ Looking
  BY DEF WindowInv
<1>2. Types'
  BY <1>1, Agreed DEF Types
<1>3. Looking'
  <2>1. gather["turn"].left = <<>>
    BY <1>1 DEF Looking
  <2> QED
    BY <1>1, <2>1 DEF Looking
<1> QED
  BY <1>2, <1>3 DEF WindowInv, Paired

LEMMA InjectKeeps ==
    ASSUME WindowInv, NEW len \in Replies, Inject(len)
    PROVE  WindowInv'
<1>1. Types /\ Listing /\ Agree(log, history, messages) /\ phase = "call"
  BY DEF WindowInv, Paired, Inject
<1> DEFINE r == User(len)
<1>2. Plain(r)
  BY Lens, PlainRows
<1>3. /\ log' = log \o <<r>> /\ history' = history \o <<r>>
      /\ messages' = Append(messages, r)
      /\ UNCHANGED <<total, phase, crashes, memory, summary, gather>>
  BY DEF Inject, Both, kept
<1> HIDE DEF r
<1>4. /\ Agree(log', history', messages') /\ messages' # <<>>
      /\ messages # <<>> => messages'[1] = messages[1]
  <2>1. /\ Agree(log \o <<r>>, history \o <<r>>, Append(messages, r))
        /\ Append(messages, r) # <<>>
        /\ messages # <<>> => Append(messages, r)[1] = messages[1]
    BY <1>1, <1>2, OnePlain
  <2> QED
    BY <1>3, <2>1
<1>5. Listing' /\ Open'
  BY <1>1, <1>3, <1>4 DEF Listing, Open
<1> QED
  BY <1>1, <1>3, <1>4, <1>5, LoopKeeps DEF Types

LEMMA Noted ==
    ASSUME NEW m, m \subseteq {"core", "episodes", "actions"},
           NEW x, \E c \in ExchangeNoted, e \in Episodes : x = Note(m \cup c \cup e)
    PROVE  x \subseteq {"core", "episodes", "actions"}
  BY DEF ExchangeNoted, Episodes, Note

LEMMA BreaksKeeps ==
    ASSUME WindowInv, NEW len \in Replies, Breaks(len)
    PROVE  WindowInv'
<1>1. Types /\ Listing /\ Agree(log, history, messages) /\ phase = "stream"
  BY DEF WindowInv, Paired, Breaks
<1>2. phase' = "call" /\ UNCHANGED <<total, crashes, summary, gather>>
  BY DEF Breaks
<1>3. messages # <<>>
  BY <1>1 DEF Listing
<1>4. CASE UNCHANGED <<log, history, messages, memory>>
  <2>1. Listing' /\ Open'
    BY <1>1, <1>2, <1>3, <1>4 DEF Listing, Open
  <2>2. memory' \subseteq {"core", "episodes", "actions"} /\ total' \in Int /\ phase' \in Phases
    BY <1>1, <1>2, <1>4 DEF Types, Phases
  <2> QED
    BY <1>1, <1>2, <1>4, <2>1, <2>2, LoopKeeps
<1>5. CASE /\ Room /\ Both(<<Text(len), User(1)>>)
           /\ messages' = messages \o <<Text(len), User(1)>>
           /\ \E c \in ExchangeNoted, e \in Episodes : memory' = Note(memory \cup c \cup e)
  <2>1. Plain(Text(len)) /\ Plain(User(1))
    BY Lens, PlainRows
  <2>2. /\ log' = log \o <<Text(len), User(1)>> /\ history' = history \o <<Text(len), User(1)>>
        /\ messages' = messages \o <<Text(len), User(1)>>
    BY <1>5 DEF Both
  <2>3. /\ Agree(log', history', messages') /\ messages' # <<>>
        /\ messages # <<>> => messages'[1] = messages[1]
    BY <1>1, <2>1, <2>2, TwoPlain
  <2>4. Listing' /\ Open'
    BY <1>1, <1>2, <1>3, <2>3 DEF Listing, Open
  <2>5. memory' \subseteq {"core", "episodes", "actions"}
    <3>1. \E c \in ExchangeNoted, e \in Episodes : memory' = Note(memory \cup c \cup e)
      BY <1>5
    <3>2. memory \subseteq {"core", "episodes", "actions"}
      BY <1>1 DEF Types
    <3> QED
      BY <3>1, <3>2, Noted
  <2>6. total' \in Int /\ phase' \in Phases
    BY <1>1, <1>2 DEF Types, Phases
  <2> QED
    BY <1>1, <1>2, <2>3, <2>4, <2>5, <2>6, LoopKeeps
<1>6. \/ UNCHANGED <<log, history, messages, memory>>
      \/ /\ Room /\ Both(<<Text(len), User(1)>>)
         /\ messages' = messages \o <<Text(len), User(1)>>
         /\ \E c \in ExchangeNoted, e \in Episodes : memory' = Note(memory \cup c \cup e)
  BY DEF Breaks
<1> QED
  BY <1>4, <1>5, <1>6

LEMMA AnswerKeeps ==
    ASSUME WindowInv, NEW len \in Replies, NEW thought \in BOOLEAN, Answer(len, thought)
    PROVE  WindowInv'
<1> DEFINE more == IF thought THEN <<Row("analysis", len, 0, 0), Text(len)>> ELSE <<Text(len)>>
           a == Row("analysis", len, 0, 0)
           t == Text(len)
<1>1. Types /\ Listing /\ Agree(log, history, messages) /\ phase = "stream"
  BY DEF WindowInv, Paired, Answer
<1>2. /\ log' = log \o more /\ history' = history \o more /\ messages' = <<>>
      /\ phase' = "idle" /\ UNCHANGED <<total, crashes, memory, summary, gather>>
  BY DEF Answer, Both, kept
<1>3. Plain(a) /\ Plain(t)
  BY Lens, PlainRows
<1>4. more = IF thought THEN <<a, t>> ELSE <<t>>
  OBVIOUS
<1> HIDE DEF a, t, more
<1>5. Agree(log', history', messages')
  <2>1. CASE thought
    <3>1. Agree(log', history', messages \o <<a, t>>)
      BY <1>1, <1>2, <1>3, <1>4, <2>1, TwoPlain
    <3> QED
      BY <1>2, <3>1, NoList
  <2>2. CASE ~thought
    <3>1. Agree(log', history', Append(messages, t))
      BY <1>1, <1>2, <1>3, <1>4, <2>2, OnePlain
    <3> QED
      BY <1>2, <3>1, NoList
  <2> QED
    BY <2>1, <2>2
<1>6. Listing' /\ Open'
  BY <1>2 DEF Listing, Open
<1>7. /\ total' \in Int /\ phase' \in Phases
      /\ memory' \subseteq {"core", "episodes", "actions"}
  BY <1>1, <1>2 DEF Types, Phases
<1> QED
  BY <1>1, <1>2, <1>5, <1>6, <1>7, LoopKeeps

LEMMA LeaveKeeps ==
    ASSUME WindowInv, Leave
    PROVE  WindowInv'
<1>1. Types /\ Agree(log, history, messages) /\ phase \in {"call", "stream", "tools"}
  BY DEF WindowInv, Paired, Leave
<1>2. /\ messages' = <<>> /\ phase' = "idle"
      /\ UNCHANGED <<log, history, total, crashes, memory, summary, gather>>
  BY DEF Leave, kept
<1>3. Agree(log', history', messages')
  BY <1>1, <1>2, NoList
<1>4. Listing' /\ Open'
  BY <1>2 DEF Listing, Open
<1> QED
  BY <1>1, <1>2, <1>3, <1>4, LoopKeeps DEF Types, Phases

LEMMA CallsKeeps ==
    ASSUME WindowInv, NEW n \in 1..MaxCalls, Calls(n)
    PROVE  WindowInv'
<1> DEFINE r == Row("assistant", 1, n, Len(log) + 1)
<1>1. Types /\ Listing /\ Agree(log, history, messages) /\ phase = "stream"
  BY DEF WindowInv, Paired, Calls
<1>2. /\ log' = log \o <<r>> /\ history' = history \o <<r>>
      /\ messages' = Append(messages, r) /\ phase' = "tools"
      /\ UNCHANGED <<total, crashes, memory, summary, gather>>
  BY DEF Calls, Both, kept
<1>3. /\ log \in Seq(Proper) /\ history \in Seq(Proper) /\ messages \in Seq(Proper)
      /\ Len(log) \in Nat /\ messages # <<>>
  BY <1>1, Agreed DEF Listing
<1>4. r \in Proper /\ ~IsResult(r) /\ MakesCalls(r) /\ r.of = Len(log) + 1
  <2>1. n \in 0..MaxCalls /\ n > 0 /\ 1 \in Nat \ {0} /\ Len(log) + 1 \in Nat
    BY <1>3, WindowAssumption
  <2> QED
    BY <2>1, RowProper DEF IsResult, MakesCalls
<1> HIDE DEF r
<1>5. log' = Append(log, r) /\ history' = Append(history, r)
  BY <1>2, <1>3, <1>4, Appended
<1>6. Agree(log', history', messages')
  BY <1>1, <1>2, <1>4, <1>5, MorePlain
<1>7. \A s \in Seq(Proper) : Ends(Append(s, r), Len(log) + 1)
  <2> SUFFICES ASSUME NEW s \in Seq(Proper) PROVE Ends(Append(s, r), Len(log) + 1)
    OBVIOUS
  <2>1. Len(Append(s, r)) = Len(s) + 1 /\ Append(s, r)[Len(s) + 1] = r /\ Append(s, r) # <<>>
    BY <1>4, Appended
  <2> QED
    BY <1>4, <2>1 DEF Ends, Belongs
<1>8. Open'
  <2>1. Len(log') = Len(log) + 1 /\ Len(log) + 1 \in 1..Len(log')
    BY <1>3, <1>4, <1>5, Appended
  <2>2. /\ Ends(log', Len(log) + 1) /\ Ends(history', Len(log) + 1)
        /\ Ends(messages', Len(log) + 1)
    BY <1>2, <1>3, <1>5, <1>7
  <2> QED
    BY <2>1, <2>2 DEF Open
<1>9. Listing'
  <2>1. messages' # <<>> /\ messages'[1] = messages[1]
    BY <1>2, <1>3, <1>4, FirstStays
  <2> QED
    BY <1>1, <1>2, <1>3, <2>1 DEF Listing
<1> QED
  BY <1>1, <1>2, <1>6, <1>8, <1>9, LoopKeeps DEF Types, Phases

LEMMA ResultKeeps ==
    ASSUME WindowInv, NEW len \in Returned, NEW shown \in Returned, Result(len, shown)
    PROVE  WindowInv'
<1> DEFINE open == SelectLastInSeq(messages, MakesCalls)
           of == messages[open].of
           r == Row("tool", len, 0, of)
           s == Row("tool", shown, 0, of)
<1>1. Types /\ Listing /\ Agree(log, history, messages) /\ phase = "tools" /\ Open
  BY DEF WindowInv, Paired, Result
<1>2. /\ log' = log \o <<r>> /\ history' = history \o <<r>>
      /\ messages' = Append(messages, s)
  BY DEF Result, Both
<1>14. UNCHANGED <<total, crashes, summary, gather>>
  BY DEF Result
<1>15. \E c \in ExchangeNoted, e \in Episodes :
           memory' = Note(memory \cup {"actions"} \cup c \cup e)
  BY DEF Result
<1>12. phase' \in {"call", "tools"}
  BY DEF Result
<1>3. /\ log \in Seq(Proper) /\ history \in Seq(Proper) /\ messages \in Seq(Proper)
      /\ Len(log) \in Nat /\ messages # <<>> /\ Tight(messages)
  BY <1>1, Agreed DEF Listing
<1>4. PICK o \in 1..Len(log) : Ends(log, o) /\ Ends(history, o) /\ Ends(messages, o)
  BY <1>1 DEF Open
<1>5. of = o
  BY <1>3, <1>4, LastCall
<1> HIDE DEF open, of
<1>6. /\ r \in Proper /\ IsResult(r) /\ r.of = o
      /\ s \in Proper /\ IsResult(s) /\ s.of = o
  <2>1. o \in Nat /\ 0 \in 0..MaxCalls /\ len \in Nat \ {0} /\ shown \in Nat \ {0}
    BY <1>3, Lens, WindowAssumption
  <2> QED
    BY <1>5, <2>1, RowProper DEF IsResult
<1> HIDE DEF r, s
<1>7. log' = Append(log, r) /\ history' = Append(history, r)
  BY <1>2, <1>3, <1>6, Appended
<1>8. /\ Agree(log', history', messages')
      /\ Ends(log', o) /\ Ends(history', o) /\ Ends(messages', o)
  <2>1. /\ Agree(Append(log, r), Append(history, r), Append(messages, s))
        /\ Ends(Append(log, r), o) /\ Ends(Append(history, r), o)
        /\ Ends(Append(messages, s), o)
    BY <1>1, <1>4, <1>6, MoreResult
  <2> QED
    BY <1>2, <1>7, <2>1
<1>9. Open'
  <2>1. o \in 1..Len(log')
    <3>1. Len(log') = Len(log) + 1
      BY <1>3, <1>6, <1>7, Appended
    <3> QED
      BY <1>3, <3>1
  <2> QED
    BY <1>8, <2>1 DEF Open
<1>10. Listing'
  <2>1. messages' # <<>> /\ messages'[1] = messages[1]
    BY <1>2, <1>3, <1>6, FirstStays
  <2> QED
    BY <1>1, <1>3, <1>12, <2>1 DEF Listing
<1>11. memory' \subseteq {"core", "episodes", "actions"}
  <2>1. memory \cup {"actions"} \subseteq {"core", "episodes", "actions"}
    BY <1>1 DEF Types
  <2> QED
    BY <1>15, <2>1, Noted
<1>13. total' \in Int /\ phase' \in Phases
  BY <1>1, <1>14, <1>12 DEF Types, Phases
<1> QED
  BY <1>1, <1>14, <1>8, <1>9, <1>10, <1>11, <1>13, LoopKeeps

(* A list that was not sent is lost with the program, and the rows in       *)
(* memory are the first of those in the database.                           *)
LEMMA ReloadKeeps ==
    ASSUME WindowInv, Reload
    PROVE  WindowInv'
<1> DEFINE m == IF Len(log) < RowLimit THEN Len(log) ELSE RowLimit
<1>1. Types /\ Agree(log, history, messages)
  BY DEF WindowInv, Paired
<1>2. /\ crashes' = crashes + 1 /\ crashes < MaxCrashes /\ history' = SubSeq(log, 1, m)
      /\ messages' = <<>> /\ total' = 0 /\ phase' = "idle" /\ log' = log /\ memory' = memory
  BY DEF Reload
<1>3. /\ gather' = [p \in Threads |-> Away]
      /\ summary' = Restrict(summary, {u \in DOMAIN summary : summary[u] \in {"model", "standin"}})
  BY DEF Reload
<1>4. Len(log) \in Nat /\ m \in 0..Len(log)
  BY <1>1, Agreed, WindowAssumption
<1> HIDE DEF m
<1>5. Sound(history', Len(log))
  BY <1>1, <1>2, <1>4, PrefixSound DEF Agree
<1>6. Agree(log', history', messages')
  <2>1. Agree(log, history, <<>>)
    BY <1>1, NoList
  <2>2. Whole(<<>>, history')
    BY DEF Whole
  <2> QED
    BY <1>2, <1>5, <2>1, <2>2 DEF Agree
<1>7. /\ summary' \in [DOMAIN summary' -> {"running", "made", "failed", "model", "standin"}]
      /\ DOMAIN summary' \subseteq Seq(RowType)
  <2> DEFINE S == {u \in DOMAIN summary : summary[u] \in {"model", "standin"}}
  <2>1. summary' = [u \in S |-> summary[u]]
    BY <1>3 DEF Restrict
  <2>2. S \subseteq DOMAIN summary /\ DOMAIN summary \subseteq Seq(RowType)
    BY <1>1 DEF Types
  <2>3. \A u \in S : summary[u] \in {"running", "made", "failed", "model", "standin"}
    OBVIOUS
  <2> HIDE DEF S
  <2> QED
    BY <2>1, <2>2, <2>3
<1>8. crashes' \in 0..MaxCrashes
  BY <1>1, <1>2, WindowAssumption DEF Types
<1>9. gather' \in [Threads -> [left : Seq(Seq(RowType)), seen : BOOLEAN]]
  BY <1>3 DEF Away
<1>10. Types'
  <2>1. log' \in Seq(Proper) /\ history' \in Seq(Proper) /\ messages' \in Seq(Proper)
    BY <1>6, Agreed
  <2>3. total' \in Int /\ phase' \in Phases
    BY <1>2 DEF Phases
  <2>2. memory' \subseteq {"core", "episodes", "actions"}
    BY <1>1, <1>2 DEF Types
  <2> QED
    BY <1>7, <1>8, <1>9, <2>1, <2>2, <2>3 DEF Types
<1>11. Looking'
  BY <1>3 DEF Looking, Away, Threads
<1>12. Listing' /\ Open'
  BY <1>2 DEF Listing, Open
<1> QED
  BY <1>6, <1>10, <1>11, <1>12 DEF WindowInv, Paired

(* What is the same for the steps of the trim.                              *)
LEMMA TrimStepKeeps ==
    ASSUME WindowInv, phase \in {"call", "drop", "cut"}, phase' \in {"drop", "cut", "stream"},
           Sound(messages', Len(log)), Whole(messages', history), total' \in Int,
           messages' # <<>>, messages'[1].role = "system",
           UNCHANGED <<log, history, crashes, kept>>
    PROVE  WindowInv'
<1>1. Types /\ Agree(log, history, messages)
  BY DEF WindowInv, Paired
<1>2. Agree(log', history', messages')
  BY <1>1 DEF Agree
<1>3. Listing' /\ Open'
  BY DEF Listing, Open
<1>4. memory' \subseteq {"core", "episodes", "actions"} /\ phase' \in Phases
  BY <1>1 DEF Types, Phases, kept
<1> QED
  BY <1>2, <1>3, <1>4, LoopKeeps DEF kept

LEMMA ListThere ==
    ASSUME WindowInv, phase \in {"call", "drop", "cut"}
    PROVE  /\ Sound(messages, Len(log)) /\ Whole(messages, history)
           /\ messages \in Seq(Proper) /\ Tight(messages) /\ total \in Int
           /\ messages # <<>> /\ messages[1].role = "system"
           /\ history \in Seq(Proper) /\ Len(log) \in Nat
  BY Agreed DEF WindowInv, Paired, Agree, Types, Listing

LEMMA StartTrimKeeps ==
    ASSUME WindowInv, StartTrim
    PROVE  WindowInv'
<1>1. phase = "call"
  BY DEF StartTrim
<1>2. Length(messages) \in Int
  BY <1>1, ListThere, LengthNat
<1>3. /\ phase' = "drop" /\ total' = Length(messages)
      /\ UNCHANGED <<log, history, messages, crashes, kept>>
  BY DEF StartTrim
<1> QED
  BY <1>1, <1>2, <1>3, ListThere, TrimStepKeeps

LEMMA StopDroppingKeeps ==
    ASSUME WindowInv, StopDropping
    PROVE  WindowInv'
<1>1. /\ phase = "drop" /\ phase' = "cut"
      /\ UNCHANGED <<log, history, messages, total, crashes, kept>>
  BY DEF StopDropping
<1> QED
  BY <1>1, ListThere, TrimStepKeeps

LEMMA EndTrimKeeps ==
    ASSUME WindowInv, EndTrim
    PROVE  WindowInv'
<1>1. /\ phase = "cut" /\ phase' = "stream" /\ total' = 0
      /\ UNCHANGED <<log, history, messages, crashes, kept>>
  BY DEF EndTrim
<1> QED
  BY <1>1, ListThere, TrimStepKeeps

(* What Drop leaves of the list.                                            *)
LEMMA DropIs ==
    ASSUME WindowInv, NEW i \in DOMAIN messages, Drop(i)
    PROVE  /\ phase = "drop" /\ i \in Droppable(messages) /\ i \in Exchanges(messages)
           /\ total' \in Int
           /\ \E len \in Nat \ {0} : messages' = Without(messages, i, len)
           /\ UNCHANGED <<log, history, phase, crashes, kept>>
<1> DEFINE ms == messages
           end == ExchangeEnd(ms, i)
           oldest == Min(Droppable(ms))
           gone == SubSeq(ms, oldest, ExchangeEnd(ms, oldest))
           note == SumFunction([k \in (i + 1)..end |-> Min({Snippet, ms[k].len})])
           noted == [ms EXCEPT ![1].len = @ + note]
<1>1. /\ phase = "drop" /\ i \in Droppable(ms)
      /\ UNCHANGED <<log, history, phase, crashes, kept>>
  BY DEF Drop
<1>2. /\ messages' = SubSeq(noted, 1, i - 1) \o SubSeq(noted, end + 1, Len(noted))
      /\ total' = total + note - Length(gone)
  BY DEF Drop
<1>3. ms \in Seq(Proper) /\ Tight(ms) /\ total \in Int /\ ms # <<>>
  BY <1>1, ListThere
<1>4. /\ Len(ms) \in Nat /\ DOMAIN ms = 1..Len(ms)
      /\ Droppable(ms) \subseteq Exchanges(ms) /\ Exchanges(ms) \subseteq 1..Len(ms)
      /\ \A j \in Exchanges(ms) : MakesCalls(ms[j])
  BY <1>3, ProperRows DEF Droppable, Exchanges
<1>5. \A j \in Exchanges(ms) : ExchangeEnd(ms, j) \in j..Len(ms)
  BY <1>3, <1>4, EndIsRun
<1>6. note \in Nat
  BY <1>1, <1>3, <1>4, <1>5, NoteNat
<1>7. oldest \in Droppable(ms)
  <2>1. Droppable(ms) \in SUBSET (0..Len(ms))
    BY <1>4
  <2> QED
    BY <1>1, <1>4, <2>1, Greatest
<1> HIDE DEF oldest
<1>8. Length(gone) \in Nat
  <2>1. /\ oldest \in 1..Len(ms) /\ ExchangeEnd(ms, oldest) \in oldest..Len(ms)
    BY <1>4, <1>5, <1>7
  <2>2. gone \in Seq(Proper)
    BY <1>3, <1>4, <2>1
  <2> QED
    BY <2>2, LengthNat
<1> HIDE DEF note, gone
<1>9. total' \in Int
  BY <1>2, <1>3, <1>6, <1>8
<1>10. ms[1].len + note \in Nat \ {0}
  <2>1. 1 \in DOMAIN ms
    BY <1>3, <1>4
  <2>2. ms[1].len \in Nat \ {0}
    BY <1>3, <2>1, ProperRows
  <2> QED
    BY <1>6, <2>2
<1>11. messages' = Without(ms, i, ms[1].len + note)
  BY <1>2 DEF Without
<1> QED
  BY <1>1, <1>4, <1>9, <1>10, <1>11

LEMMA DropKeeps ==
    ASSUME WindowInv, NEW i \in DOMAIN messages, Drop(i)
    PROVE  WindowInv'
<1> DEFINE f == From(messages, i)
<1>1. /\ phase = "drop" /\ i \in Exchanges(messages) /\ total' \in Int
      /\ UNCHANGED <<log, history, phase, crashes, kept>>
  BY DropIs
<1>2. PICK len \in Nat \ {0} : messages' = Without(messages, i, len)
  BY DropIs
<1>3. /\ Sound(messages, Len(log)) /\ Whole(messages, history)
      /\ messages \in Seq(Proper) /\ Tight(messages)
      /\ messages # <<>> /\ messages[1].role = "system"
      /\ history \in Seq(Proper) /\ Len(log) \in Nat
  BY <1>1, ListThere
<1>4. /\ messages' \in Seq(Proper) /\ messages' # <<>> /\ 1 \in DOMAIN messages'
      /\ Picked(messages, messages', 0, f) /\ Behind(messages', 0, f)
      /\ Before(messages, messages', 0, f)
      /\ Alike(messages'[1], messages[f[1]]) /\ f[1] = 1
  <2> DEFINE b == Without(messages, i, len)
  <2>1. /\ b \in Seq(Proper) /\ DOMAIN b = 1..Len(b) /\ b # <<>> /\ i \in 3..Len(messages)
        /\ \A k \in DOMAIN b : /\ f[k] = (IF k < i THEN k ELSE k + (ExchangeEnd(messages, i) - i + 1))
                               /\ Alike(b[k], messages[f[k]])
        /\ Picked(messages, b, 0, f) /\ Behind(b, 0, f) /\ Before(messages, b, 0, f)
    BY <1>1, <1>3, WithoutIs
  <2> HIDE DEF b, f
  <2>2. 1 \in DOMAIN b /\ 1 < i
    BY <1>3, <2>1
  <2>3. messages' = b
    BY <1>2 DEF b
  <2> QED
    BY <2>1, <2>2, <2>3
<1> HIDE DEF f
<1>5. Sound(messages', Len(log)) /\ Whole(messages', history)
  BY <1>3, <1>4, PickedSound, PickedWhole
<1>6. messages'[1].role = "system"
  BY <1>3, <1>4 DEF Alike
<1> QED
  BY <1>1, <1>4, <1>5, <1>6, TrimStepKeeps

(* What Truncate leaves of the list.                                        *)
LEMMA TruncateIs ==
    ASSUME WindowInv, Truncate
    PROVE  /\ phase = "cut" /\ total' \in Int
           /\ UNCHANGED <<log, history, phase, crashes, kept>>
           /\ messages' \in Seq(Proper) /\ Len(messages') = Len(messages)
           /\ DOMAIN messages' = DOMAIN messages
           /\ \A k \in DOMAIN messages : /\ Alike(messages'[k], messages[k])
                                         /\ ~IsResult(messages[k]) => messages'[k] = messages[k]
<1> DEFINE l == Largest(messages)
           len == Keep + Marker
<1>1. /\ phase = "cut" /\ Results(messages) # {}
      /\ messages' = [messages EXCEPT ![l].len = len]
      /\ total' = total + Keep + Marker - messages[l].len
      /\ UNCHANGED <<log, history, phase, crashes, kept>>
  BY DEF Truncate, CanCut
<1>2. messages \in Seq(Proper) /\ total \in Int
  BY <1>1, ListThere
<1>3. l \in DOMAIN messages /\ IsResult(messages[l])
  BY <1>1, <1>2, LargestIs
<1> HIDE DEF l
<1>4. len \in Nat \ {0} /\ messages[l].len \in Nat /\ Keep \in Nat /\ Marker \in Nat
  <2>1. Keep \in Nat \ {0} /\ Marker \in Nat \ {0}
    BY WindowAssumption
  <2>2. messages[l].len \in Nat
    BY <1>2, <1>3, ProperRows
  <2> QED
    BY <2>1, <2>2
<1>5. total' \in Int
  <2>1. total' = total + Keep + Marker - messages[l].len
    BY <1>1
  <2> QED
    BY <1>2, <1>4, <2>1
<1> HIDE DEF len
<1>6. /\ messages' \in Seq(Proper) /\ Len(messages') = Len(messages)
      /\ DOMAIN messages' = DOMAIN messages
      /\ \A k \in DOMAIN messages : /\ Alike(messages'[k], messages[k])
                                    /\ k # l => messages'[k] = messages[k]
  <2> DEFINE b == [messages EXCEPT ![l].len = len]
  <2>1. /\ b \in Seq(Proper) /\ Len(b) = Len(messages) /\ DOMAIN b = DOMAIN messages
        /\ \A k \in DOMAIN messages : Alike(b[k], messages[k]) /\ (k # l => b[k] = messages[k])
    BY <1>2, <1>3, <1>4, Lengthened
  <2>2. messages' = b
    BY <1>1
  <2> HIDE DEF b
  <2> QED
    BY <2>1, <2>2
<1> QED
  BY <1>1, <1>3, <1>5, <1>6

LEMMA TruncateKeeps ==
    ASSUME WindowInv, Truncate
    PROVE  WindowInv'
<1>1. phase = "cut"
  BY TruncateIs
<1>2. /\ Sound(messages, Len(log)) /\ Whole(messages, history)
      /\ messages \in Seq(Proper) /\ messages # <<>> /\ messages[1].role = "system"
      /\ history \in Seq(Proper) /\ Len(log) \in Nat
  BY <1>1, ListThere
<1>3. DOMAIN messages = 1..Len(messages) /\ 1 \in DOMAIN messages
  BY <1>2, ProperRows
<1>4. /\ messages' \in Seq(Proper) /\ Len(messages') = Len(messages) /\ total' \in Int
      /\ \A k \in DOMAIN messages : Alike(messages'[k], messages[k])
      /\ UNCHANGED <<log, history, phase, crashes, kept>>
  BY TruncateIs
<1>5. Sound(messages', Len(log)) /\ Whole(messages', history)
  BY <1>2, <1>3, <1>4, SameExchanges
<1>6. messages' # <<>> /\ messages'[1].role = "system"
  BY <1>2, <1>3, <1>4 DEF Alike
<1> QED
  BY <1>1, <1>4, <1>5, <1>6, TrimStepKeeps

-----------------------------------------------------------------------------
LEMMA WindowStays == WindowInv /\ [Next]_vars => WindowInv'
<1> SUFFICES ASSUME WindowInv, [Next]_vars PROVE WindowInv'
  OBVIOUS
<1>1. ASSUME NEW len \in Said, Turn(len) PROVE WindowInv'
  BY <1>1, TurnKeeps
<1>2. ASSUME NEW len \in Replies, NEW thought \in BOOLEAN, Answer(len, thought)
      PROVE WindowInv'
  BY <1>2, AnswerKeeps
<1>3. ASSUME NEW len \in Replies, Inject(len) \/ Breaks(len) PROVE WindowInv'
  BY <1>3, InjectKeeps, BreaksKeeps
<1>4. CASE Compact
  BY <1>4, CompactKeeps
<1>5. ASSUME NEW p \in Threads, LookUp(p) \/ Store(p) PROVE WindowInv'
  BY <1>5, LookUpKeeps, StoreKeeps
<1>6. ASSUME NEW u \in DOMAIN summary, NEW result \in {"made", "failed"}, Summarize(u, result)
      PROVE WindowInv'
  BY <1>6, SummarizeKeeps
<1>7. ASSUME NEW n \in 1..MaxCalls, Calls(n) PROVE WindowInv'
  BY <1>7, CallsKeeps
<1>8. ASSUME NEW len \in Returned, NEW shown \in Returned, Result(len, shown) PROVE WindowInv'
  BY <1>8, ResultKeeps
<1>9. CASE Leave \/ Reload
  BY <1>9, LeaveKeeps, ReloadKeeps
<1>10. CASE Trim
  BY <1>10, StartTrimKeeps, StopDroppingKeeps, TruncateKeeps, EndTrimKeeps, DropKeeps DEF Trim
<1>11. CASE UNCHANGED vars
  <2>1. UNCHANGED <<log, history, messages, total, phase, crashes, memory, summary, gather>>
    BY <1>11 DEF vars
  <2>2. Types' /\ Looking' /\ Listing'
    BY <2>1 DEF WindowInv, Types, Looking, Listing
  <2> QED
    BY <2>1, <2>2, StillPaired DEF WindowInv
<1>12. CASE Next
  BY <1>1, <1>2, <1>3, <1>4, <1>5, <1>6, <1>7, <1>8, <1>9, <1>10, <1>12 DEF Next
<1> QED
  BY <1>11, <1>12

(* The rows, the list and the summaries always have their types; there is a *)
(* list exactly between _window and the end of the turn; and no thread has  *)
(* seen the future of a turn whose summary it has not to look up            *)
(* (_get_turn_summary).                                                     *)
THEOREM WindowTypes == Spec => []TypeOK
<1>1. WindowInv => TypeOK
  <2> SUFFICES ASSUME WindowInv PROVE TypeOK
    OBVIOUS
  <2>1. Types /\ Looking /\ Listing
    BY DEF WindowInv
  <2>2. log \in Seq(RowType) /\ history \in Seq(RowType) /\ messages \in Seq(RowType)
    BY <2>1, ProperRows DEF Types
  <2>3. Range(summary) \subseteq {"running", "made", "failed", "model", "standin"}
    BY <2>1 DEF Types, Range
  <2> QED
    BY <2>1, <2>2, <2>3 DEF TypeOK, Types, Looking, Listing, Phases
<1> QED
  BY <1>1, WindowStarts, WindowStays, PTL DEF Spec

(* Whatever _window cuts, _hard_trim takes and load_history leaves: each    *)
(* result in a request stands in the exchange it belongs to, and each       *)
(* message with calls is followed by all the results there are of it.       *)
THEOREM WindowPairsStay == Spec => []PairsStay
<1>1. WindowInv => PairsStay
  <2> SUFFICES ASSUME WindowInv PROVE PairsStay
    OBVIOUS
  <2>1. /\ messages \in Seq(Proper) /\ history \in Seq(Proper) /\ Tight(messages)
        /\ Once(messages) /\ Whole(messages, history)
    BY Agreed DEF WindowInv, Paired, Agree
  <2> QED
    BY <2>1, PairsFrom DEF PairsStay
<1> QED
  BY <1>1, WindowStarts, WindowStays, PTL DEF Spec

LEMMA DropSpares ==
    ASSUME WindowInv, NEW i \in DOMAIN messages, Drop(i)
    PROVE  Spares
<1> DEFINE f == From(messages, i)
<1>1. phase = "drop" /\ i \in Droppable(messages) /\ i \in Exchanges(messages)
  BY DropIs
<1>2. PICK len \in Nat \ {0} : messages' = Without(messages, i, len)
  BY DropIs
<1>3. /\ messages \in Seq(Proper) /\ Tight(messages) /\ messages # <<>>
      /\ messages[1].role = "system"
  BY <1>1, ListThere
<1> DEFINE b == Without(messages, i, len)
           e == ExchangeEnd(messages, i)
<1>4. /\ b \in Seq(Proper) /\ DOMAIN b = 1..Len(b) /\ Len(b) \in Nat
      /\ i \in 3..Len(messages) /\ e \in i..Len(messages)
      /\ \A k \in DOMAIN b : /\ f[k] = (IF k < i THEN k ELSE k + (e - i + 1))
                             /\ Alike(b[k], messages[f[k]])
                             /\ k # 1 => b[k] = messages[f[k]]
      /\ \A j \in DOMAIN messages \ (i..e) : \E k \in DOMAIN b : f[k] = j
      /\ \A j \in (i + 1)..e : IsResult(messages[j])
      /\ Picked(messages, b, 0, f)
  BY <1>1, <1>3, WithoutIs, ProperRows
<1>5. MakesCalls(messages[i])
  BY <1>1 DEF Exchanges
<1>6. messages' = b
  BY <1>2
<1> HIDE DEF b, f, e
<1>7. \A k \in DOMAIN b : Speaks(b[k]) => b[k] = messages[f[k]]
  <2> SUFFICES ASSUME NEW k \in DOMAIN b, k = 1, Speaks(b[k]) PROVE FALSE
    BY <1>4
  <2>1. f[1] = 1
    BY <1>4
  <2>2. b[1].role = "system"
    BY <1>3, <1>4, <2>1 DEF Alike
  <2> QED
    BY <2>2 DEF Speaks
<1>8. \A j \in DOMAIN messages : Speaks(messages[j]) => \E k \in DOMAIN b : f[k] = j
  <2> SUFFICES ASSUME NEW j \in DOMAIN messages, Speaks(messages[j])
               PROVE  j \notin i..e
    BY <1>4
  <2>1. DOMAIN messages = 1..Len(messages) /\ Len(messages) \in Nat
    BY <1>3, ProperRows
  <2>2. j # i
    BY <1>5 DEF Speaks
  <2>3. j \notin (i + 1)..e
    BY <1>4 DEF Speaks, IsResult
  <2> QED
    BY <1>4, <2>1, <2>2, <2>3
<1>9. Spoken(b) = Spoken(messages)
  <2>1. messages \in Seq(Proper) /\ b \in Seq(Proper) /\ Picked(messages, b, 0, f)
    BY <1>3, <1>4
  <2> QED
    BY ONLY <1>7, <1>8, <2>1, SpokenKept
<1>10. Recent(b) = Recent(messages)
  BY <1>1, <1>3, RecentKept DEF b
<1> QED
  BY <1>6, <1>9, <1>10 DEF Spares

LEMMA TruncateSpares ==
    ASSUME WindowInv, Truncate
    PROVE  Spares
<1> DEFINE m == Len(messages)
           b == messages'
           f == [k \in 1..m |-> k]
<1>1. /\ phase = "cut" /\ b \in Seq(Proper) /\ Len(b) = m /\ DOMAIN b = DOMAIN messages
      /\ \A k \in DOMAIN messages : /\ Alike(b[k], messages[k])
                                    /\ ~IsResult(messages[k]) => b[k] = messages[k]
  BY TruncateIs
<1>2. messages \in Seq(Proper)
  BY <1>1, ListThere
<1>3. DOMAIN messages = 1..m /\ m \in Nat /\ 0 + 1 = 1
  BY <1>2, ProperRows
<1> HIDE DEF b
<1>4. Picked(messages, b, 0, f)
  BY <1>1, <1>3 DEF Picked
<1>5. \A k \in DOMAIN b : Speaks(b[k]) => b[k] = messages[f[k]]
  BY <1>1, <1>3 DEF Speaks, Alike, IsResult
<1>6. \A j \in DOMAIN messages : Speaks(messages[j]) => \E k \in DOMAIN b : f[k] = j
  BY <1>1, <1>3
<1> HIDE DEF f
<1>7. Spoken(b) = Spoken(messages)
  BY <1>1, <1>2, <1>4, <1>5, <1>6, SpokenKept
<1>8. Exchanges(b) = Exchanges(messages)
  BY <1>1, <1>3 DEF Exchanges, MakesCalls, Alike
<1>9. \A j \in Exchanges(messages) : b[j].of = messages[j].of
  BY <1>1, <1>3 DEF Exchanges, Alike
<1>10. Recent(b) = Recent(messages)
  BY <1>8, <1>9 DEF Recent
<1> QED
  BY <1>7, <1>10 DEF Spares, b

LEMMA TrimStepSpares ==
    ASSUME WindowInv, [Next]_vars, phase \in {"drop", "cut"}, phase' # "idle"
    PROVE  Spares
<1>1. CASE UNCHANGED messages
  BY <1>1 DEF Spares
<1>2. \A len : ~Turn(len)
  BY DEF Turn
<1>3. \A len, thought : ~Answer(len, thought) /\ ~Inject(len) /\ ~Breaks(len)
  BY DEF Answer, Inject, Breaks
<1>4. CASE Compact
  BY <1>1, <1>4 DEF Compact
<1>5. ASSUME NEW p \in Threads, LookUp(p) PROVE Spares
  <2>1. gather["turn"].left = <<>>
    BY DEF WindowInv, Looking
  <2>2. p # "turn"
    BY <1>5, <2>1 DEF LookUp
  <2>3. UNCHANGED messages
    BY <1>5, <2>2 DEF LookUp
  <2> QED
    BY <1>1, <2>3
<1>6. ASSUME NEW p \in Threads, Store(p) PROVE Spares
  BY <1>1, <1>6 DEF Store
<1>7. ASSUME NEW u, NEW result, Summarize(u, result) PROVE Spares
  BY <1>1, <1>7 DEF Summarize
<1>8. \A n, len, shown : ~Calls(n) /\ ~Result(len, shown)
  BY DEF Calls, Result
<1>9. ~Leave /\ ~Reload
  BY DEF Leave, Reload
<1>10. CASE StartTrim \/ StopDropping \/ EndTrim
  BY <1>1, <1>10 DEF StartTrim, StopDropping, EndTrim
<1>11. CASE Truncate
  BY <1>11, TruncateSpares
<1>12. ASSUME NEW i \in DOMAIN messages, Drop(i) PROVE Spares
  BY <1>12, DropSpares
<1>13. CASE UNCHANGED vars
  BY <1>1, <1>13 DEF vars
<1>14. CASE Next
  BY <1>2, <1>3, <1>4, <1>5, <1>6, <1>7, <1>8, <1>9, <1>10, <1>11, <1>12, <1>14
     DEF Next, Trim
<1> QED
  BY <1>13, <1>14

(* _hard_trim takes nothing but tool exchanges and none of the KeepRecent   *)
(* most recent ones: what the user and the model said stays, in its order.  *)
THEOREM WindowTrimSpares == Spec => TrimSpares
<1>1. WindowInv /\ [Next]_vars => [(phase \in {"drop", "cut"} /\ phase' # "idle") => Spares]_vars
  BY TrimStepSpares
<1> QED
  BY <1>1, WindowStarts, WindowStays, PTL DEF Spec, TrimSpares

=============================================================================
