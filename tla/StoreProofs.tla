------------------------------ MODULE StoreProofs ------------------------------
(***************************************************************************)
(* The database, whose tables SessionStore and Refinement are about.       *)
(* For any number of sessions, rows, commands, refused transactions and    *)
(* crashes: the tables and the agent keep their types, no row is in a log  *)
(* twice, memory is embedded in the log where it was read when it was to   *)
(* be, and a restore makes of a log what it was before the rewind.  For    *)
(* any number of sessions, threads, lessons and rounds: two rounds of a    *)
(* session have one number only if two threads had passed the flag at      *)
(* once, and a rollback makes of the lessons what they were before the     *)
(* round, but for those it deleted.                                        *)
(***************************************************************************)
EXTENDS SessionStore, Refinement, FiniteSetTheorems, SequenceTheorems, WellFoundedInduction, TLAPS

-----------------------------------------------------------------------------
(* The inductive invariant                                                  *)

Plain == {"idle", "load", "remember", "refresh", "clear"}
UiStates == [at : Plain]
            \cup [at : {"ghost", "replace"}, kept : Seq(Row), gone : Seq(Row),
                  post : 0..MaxRows, safe : BOOLEAN]
            \cup [at : {"restore"}, rows : Seq(Row)]
Counts == [sessions : Session, rows : 0..MaxRows, commands : Nat, reports : Nat,
           faults : Nat]

Types ==
    /\ log \in [Session -> Seq(Row)]
    /\ ghost \in [Session -> [post : -1..MaxRows, rows : Seq(Row)]]
    /\ history \in Seq(Row)
    /\ last \in 1..used.sessions /\ session \in 1..used.sessions
    /\ turn \in {"none", "start", "logged", "run", "tail"}
    /\ owed \in Row \cup {NoRow}
    /\ ui \in UiStates /\ used \in Counts /\ refused \subseteq 1..MaxRows
    /\ past \in [Session -> [known : BOOLEAN, rows : Seq(Row)]]
    /\ stale \in BOOLEAN

(* No two rows are the same one.                                            *)
NoDup(rows) == \A i, j \in DOMAIN rows : rows[i].id = rows[j].id => i = j

(* The user rows up to and including row i.                                 *)
UsersTo(rows, i) == Users(rows) \cap (1..i)

(* A row of the saved slice that is among these stands behind more user     *)
(* rows than the rewind left: with just as many, none of the slice is there. *)
Behind(rows, post, slice) ==
    \A i \in DOMAIN rows, j \in DOMAIN slice :
        rows[i].id = slice[j].id => Cardinality(UsersTo(rows, i)) > post

(* An id no table, no saved slice and no list of the UI thread has.         *)
Absent(rows, n) == \A i \in DOMAIN rows : rows[i].id # n
Fresh(n) ==
    /\ \A s \in Session : Absent(log[s], n) /\ Absent(ghost[s].rows, n)
    /\ ui.at \in {"ghost", "replace"} => Absent(ui.kept, n) /\ Absent(ui.gone, n)
    /\ ui.at = "restore" => Absent(ui.rows, n)

(* The row on its way to the log is in none of them yet, and the next id is *)
(* in none of them ever.                                                    *)
FreshInv ==
    /\ Fresh(owed.id) /\ owed.id <= used.rows
    /\ \A n \in Nat : n > used.rows => Fresh(n)

(* Of each session, and of the slice its last rewind saved.                 *)
LogInv ==
    \A s \in Session :
        /\ NoDup(log[s]) /\ NoDup(ghost[s].rows)
        /\ Behind(log[s], ghost[s].post, ghost[s].rows)
        /\ s > used.sessions => ghost[s] = NoGhost /\ ~past[s].known
        /\ ghost[s] # NoGhost => ghost[s].rows # <<>> /\ ghost[s].rows[1].user

(* Of a rewind between its steps: what it read, and what the log is by now. *)
RewindInv ==
    /\ ui.at \in {"ghost", "replace"} =>
          /\ NoDup(ui.kept \o ui.gone)
          /\ Behind(ui.kept, ghost[session].post, ghost[session].rows)
    /\ ui.at = "ghost" =>
          /\ ui.gone # <<>> /\ ui.gone[1].user /\ ~ui.safe
          /\ ui.post = Cardinality(Users(ui.kept))
          /\ Behind(log[session], ui.post, ui.gone)
          /\ Cardinality(Users(log[session])) > ui.post
    /\ ui.at = "replace" /\ ui.safe =>
          ghost[session] = [post |-> ui.post, rows |-> ui.gone]

(* Of a restore between its steps.                                          *)
RestoreInv ==
    ui.at = "restore" =>
        /\ NoDup(ui.rows)
        /\ Behind(ui.rows, ghost[session].post, ghost[session].rows)
        /\ past[session].known => ui.rows = past[session].rows

(* While nothing else has changed a session, its log and the saved slice    *)
(* make up what it was.                                                     *)
PastInv ==
    \A s \in Session :
        /\ past[s].known /\ ghost[s] # NoGhost
        /\ Cardinality(Users(log[s])) = ghost[s].post
        => past[s].rows = log[s] \o ghost[s].rows

StoreInv == Types /\ FreshInv /\ LogInv /\ RewindInv /\ RestoreInv /\ PastInv

-----------------------------------------------------------------------------
(* Lists of rows                                                            *)

LEMMA UsersFinite ==
    ASSUME NEW rows \in Seq(Row), NEW k \in Nat
    PROVE  /\ IsFiniteSet(Users(rows)) /\ Cardinality(Users(rows)) \in Nat
           /\ IsFiniteSet(UsersTo(rows, k)) /\ Cardinality(UsersTo(rows, k)) \in Nat
           /\ Cardinality(UsersTo(rows, k)) <= Cardinality(Users(rows))
<1>1. DOMAIN rows = 1..Len(rows) /\ Len(rows) \in Nat
  OBVIOUS
<1>2. IsFiniteSet(DOMAIN rows)
  BY <1>1, FS_Interval
<1>3. IsFiniteSet(Users(rows))
  BY <1>2, FS_Subset DEF Users
<1>4. IsFiniteSet(UsersTo(rows, k)) /\ Cardinality(UsersTo(rows, k)) <= Cardinality(Users(rows))
  BY <1>3, FS_Subset DEF UsersTo
<1> QED
  BY <1>3, <1>4, FS_CardinalityType

(* There are no more user rows than ids.                                    *)
LEMMA UsersBounded ==
    ASSUME NEW rows \in Seq(Row), NoDup(rows)
    PROVE  Cardinality(Users(rows)) \in 0..MaxRows
<1> DEFINE f == [i \in Users(rows) |-> rows[i].id]
<1>1. MaxRows \in Nat
  BY SessionStoreAssumption DEF SessionStoreAssumption
<1>2. \A i \in Users(rows) : i \in DOMAIN rows /\ rows[i].id \in 1..MaxRows
  <2>1. \A i \in DOMAIN rows : rows[i] \in Row
    OBVIOUS
  <2> QED
    BY <2>1 DEF Users, Row
<1>3. f \in Injection(Users(rows), 1..MaxRows)
  <2>1. f \in [Users(rows) -> 1..MaxRows]
    BY <1>2
  <2>2. \A i, j \in Users(rows) : f[i] = f[j] => i = j
    BY <1>2 DEF NoDup
  <2> QED
    BY <2>1, <2>2 DEF Injection, IsInjective
<1>4. IsFiniteSet(1..MaxRows) /\ Cardinality(1..MaxRows) = MaxRows
  BY <1>1, FS_Interval
<1>5. Cardinality(Users(rows)) <= MaxRows
  BY <1>3, <1>4, FS_Injection
<1> QED
  BY <1>1, <1>5, UsersFinite

(* The first rows of a list.                                                *)
LEMMA Prefix ==
    ASSUME NEW rows \in Seq(Row), NEW k \in 0..Len(rows)
    PROVE  /\ SubSeq(rows, 1, k) \in Seq(Row)
           /\ NoDup(rows) => NoDup(SubSeq(rows, 1, k))
           /\ \A post, slice :
                Behind(rows, post, slice) => Behind(SubSeq(rows, 1, k), post, slice)
           /\ \A n : Absent(rows, n) => Absent(SubSeq(rows, 1, k), n)
<1> DEFINE p == SubSeq(rows, 1, k)
<1>1. /\ p \in Seq(Row) /\ DOMAIN p = 1..k /\ DOMAIN rows = 1..Len(rows) /\ Len(rows) \in Nat
      /\ \A i \in 1..k : p[i] = rows[i]
      /\ 1..k \subseteq DOMAIN rows
  OBVIOUS
<1> HIDE DEF p
<1>2. NoDup(rows) => NoDup(p)
  BY <1>1 DEF NoDup
<1>3. ASSUME NEW i \in 1..k
      PROVE  UsersTo(p, i) = UsersTo(rows, i)
  BY <1>1 DEF UsersTo, Users
<1>4. \A post, slice : Behind(rows, post, slice) => Behind(p, post, slice)
  BY <1>1, <1>3 DEF Behind
<1>5. \A n : Absent(rows, n) => Absent(p, n)
  BY <1>1 DEF Absent
<1> QED
  BY <1>1, <1>2, <1>4, <1>5 DEF p

(* A row is added to a list.                                                *)
LEMMA Added ==
    ASSUME NEW rows \in Seq(Row), NEW row \in Row, Absent(rows, row.id)
    PROVE  /\ Append(rows, row) \in Seq(Row)
           /\ NoDup(rows) => NoDup(Append(rows, row))
           /\ \A post, slice :
                Behind(rows, post, slice) /\ Absent(slice, row.id)
                   => Behind(Append(rows, row), post, slice)
           /\ \A n : Absent(rows, n) /\ n # row.id => Absent(Append(rows, row), n)
           /\ Cardinality(Users(Append(rows, row))) >= Cardinality(Users(rows))
<1> DEFINE a == Append(rows, row)
<1>1. /\ a \in Seq(Row) /\ DOMAIN a = 1..(Len(rows) + 1) /\ DOMAIN rows = 1..Len(rows)
      /\ Len(rows) \in Nat /\ a[Len(rows) + 1] = row
      /\ \A i \in 1..Len(rows) : a[i] = rows[i]
  OBVIOUS
<1> HIDE DEF a
<1>2. NoDup(rows) => NoDup(a)
  BY <1>1 DEF NoDup, Absent
<1>3. ASSUME NEW i \in 1..Len(rows)
      PROVE  UsersTo(a, i) = UsersTo(rows, i)
  BY <1>1 DEF UsersTo, Users
<1>4. ASSUME NEW post, NEW slice, Behind(rows, post, slice), Absent(slice, row.id)
      PROVE  Behind(a, post, slice)
  BY <1>1, <1>3, <1>4 DEF Behind, Absent
<1>5. \A n : Absent(rows, n) /\ n # row.id => Absent(a, n)
  BY <1>1 DEF Absent
<1>6. Users(rows) \subseteq Users(a)
  BY <1>1 DEF Users
<1>7. IsFiniteSet(Users(a)) /\ Cardinality(Users(a)) \in Nat /\ Cardinality(Users(rows)) \in Nat
  BY <1>1, UsersFinite
<1>8. Cardinality(Users(rows)) <= Cardinality(Users(a))
  BY <1>6, <1>7, FS_Subset
<1> QED
  BY <1>1, <1>2, <1>4, <1>5, <1>7, <1>8 DEF a

(* Two lists one behind the other, the second from a user row on.           *)
LEMMA Joined ==
    ASSUME NEW a \in Seq(Row), NEW b \in Seq(Row), b # <<>>, b[1].user, NoDup(a \o b)
    PROVE  LET post == Cardinality(Users(a))
           IN  /\ Behind(a \o b, post, b) /\ Behind(a, post, b)
               /\ Cardinality(Users(a \o b)) > post
               /\ NoDup(a) /\ NoDup(b)
<1> DEFINE c == a \o b
           m == Len(a)
<1>1. /\ c \in Seq(Row) /\ m \in Nat /\ Len(b) \in Nat \ {0} /\ DOMAIN a = 1..m
      /\ DOMAIN b = 1..Len(b) /\ DOMAIN c = 1..(m + Len(b))
      /\ \A i \in 1..m : c[i] = a[i]
      /\ \A j \in 1..Len(b) : c[m + j] = b[j]
  OBVIOUS
<1>2. NoDup(c)
  OBVIOUS
<1> HIDE DEF c, m
<1>3. NoDup(a)
  <2> SUFFICES ASSUME NEW i \in 1..m, NEW j \in 1..m, a[i].id = a[j].id PROVE i = j
    BY <1>1 DEF NoDup
  <2>1. i \in DOMAIN c /\ j \in DOMAIN c /\ c[i].id = c[j].id
    BY <1>1
  <2> QED
    BY <1>2, <2>1 DEF NoDup
<1>4. NoDup(b)
  <2> SUFFICES ASSUME NEW i \in 1..Len(b), NEW j \in 1..Len(b), b[i].id = b[j].id PROVE i = j
    BY <1>1 DEF NoDup
  <2>1. m + i \in DOMAIN c /\ m + j \in DOMAIN c /\ c[m + i].id = c[m + j].id
    BY <1>1
  <2>2. m + i = m + j
    BY <1>2, <2>1 DEF NoDup
  <2> QED
    BY <1>1, <2>2
<1>5. /\ Users(a) \subseteq Users(c) /\ m + 1 \in Users(c) /\ m + 1 \notin Users(a)
      /\ \A i \in Users(a) : i \in 1..m
  BY <1>1 DEF Users
<1>6. IsFiniteSet(Users(a)) /\ Cardinality(Users(a)) \in Nat
  BY UsersFinite
<1>7. ASSUME NEW T, IsFiniteSet(T), Users(a) \cup {m + 1} \subseteq T
      PROVE  Cardinality(T) > Cardinality(Users(a))
  <2>1. Cardinality(Users(a) \cup {m + 1}) = Cardinality(Users(a)) + 1
    BY <1>5, <1>6, FS_AddElement
  <2>2. Cardinality(Users(a) \cup {m + 1}) <= Cardinality(T) /\ Cardinality(T) \in Nat
    BY <1>7, FS_Subset, FS_CardinalityType
  <2> QED
    BY <1>6, <2>1, <2>2
<1>8. Cardinality(Users(c)) > Cardinality(Users(a))
  <2>1. IsFiniteSet(Users(c))
    BY <1>1, UsersFinite
  <2> QED
    BY <1>5, <1>7, <2>1
<1>9. ASSUME NEW i \in (m + 1)..(m + Len(b))
      PROVE  Cardinality(UsersTo(c, i)) > Cardinality(Users(a))
  <2>1. i \in Nat /\ IsFiniteSet(UsersTo(c, i))
    BY <1>1, UsersFinite
  <2>2. Users(a) \cup {m + 1} \subseteq UsersTo(c, i)
    BY <1>1, <1>5 DEF UsersTo
  <2> QED
    BY <1>7, <2>1, <2>2
<1>10. ASSUME NEW i \in 1..m, NEW j \in 1..Len(b)
       PROVE  a[i].id # b[j].id
  <2>1. i \in DOMAIN c /\ m + j \in DOMAIN c /\ i # m + j
    BY <1>1
  <2>2. c[i].id # c[m + j].id
    BY <1>2, <2>1 DEF NoDup
  <2> QED
    BY <1>1, <2>2
<1>11. Behind(a, Cardinality(Users(a)), b)
  BY <1>1, <1>10 DEF Behind
<1>12. Behind(c, Cardinality(Users(a)), b)
  <2> SUFFICES ASSUME NEW i \in 1..(m + Len(b)), NEW j \in 1..Len(b), c[i].id = b[j].id
               PROVE  Cardinality(UsersTo(c, i)) > Cardinality(Users(a))
    BY <1>1 DEF Behind
  <2>1. i \notin 1..m
    BY <1>1, <1>10
  <2>2. i \in (m + 1)..(m + Len(b))
    BY <1>1, <2>1
  <2> QED
    BY <1>9, <2>2
<1> QED
  BY <1>3, <1>4, <1>8, <1>11, <1>12 DEF c

(* A slice none of whose rows is there is put behind a list.                *)
LEMMA PutBehind ==
    ASSUME NEW a \in Seq(Row), NEW b \in Seq(Row), NoDup(a), NoDup(b),
           Behind(a, Cardinality(Users(a)), b)
    PROVE  a \o b \in Seq(Row) /\ NoDup(a \o b)
<1> DEFINE c == a \o b
           m == Len(a)
<1>1. /\ c \in Seq(Row) /\ m \in Nat /\ Len(b) \in Nat /\ DOMAIN a = 1..m
      /\ DOMAIN b = 1..Len(b) /\ DOMAIN c = 1..(m + Len(b))
      /\ \A i \in 1..m : c[i] = a[i]
      /\ \A j \in 1..Len(b) : c[m + j] = b[j]
  OBVIOUS
<1> HIDE DEF c, m
<1>2. ASSUME NEW i \in 1..m, NEW j \in 1..Len(b)
      PROVE  a[i].id # b[j].id
  <2>1. Cardinality(UsersTo(a, i)) <= Cardinality(Users(a))
        /\ Cardinality(UsersTo(a, i)) \in Nat /\ Cardinality(Users(a)) \in Nat
    BY UsersFinite
  <2>2. a[i].id = b[j].id => Cardinality(UsersTo(a, i)) > Cardinality(Users(a))
    BY <1>1 DEF Behind
  <2> QED
    BY <2>1, <2>2
<1>3. \A i \in DOMAIN c : i \in 1..m \/ (i - m \in 1..Len(b) /\ c[i] = b[i - m])
  <2> SUFFICES ASSUME NEW i \in DOMAIN c, i \notin 1..m
               PROVE  i - m \in 1..Len(b) /\ c[i] = b[i - m]
    OBVIOUS
  <2>1. i - m \in 1..Len(b) /\ m + (i - m) = i
    BY <1>1
  <2> QED
    BY <1>1, <2>1
<1>4. ASSUME NEW i \in DOMAIN c, NEW j \in DOMAIN c, c[i].id = c[j].id
      PROVE  i = j
  <2>1. CASE i \in 1..m /\ j \in 1..m
    BY <1>1, <1>4, <2>1 DEF NoDup
  <2>2. CASE i \notin 1..m /\ j \notin 1..m
    <3>1. i - m \in DOMAIN b /\ j - m \in DOMAIN b /\ b[i - m].id = b[j - m].id
      BY <1>1, <1>3, <1>4, <2>2
    <3>2. i - m = j - m
      BY <3>1 DEF NoDup
    <3> QED
      BY <1>1, <3>2
  <2>3. CASE i \in 1..m /\ j \notin 1..m
    BY <1>1, <1>2, <1>3, <1>4, <2>3
  <2>4. CASE i \notin 1..m /\ j \in 1..m
    BY <1>1, <1>2, <1>3, <1>4, <2>4
  <2> QED
    BY <2>1, <2>2, <2>3, <2>4
<1> QED
  BY <1>1, <1>4 DEF NoDup, c

(* What two lists have, one behind the other.                               *)
LEMMA Halves ==
    ASSUME NEW a \in Seq(Row), NEW b \in Seq(Row)
    PROVE  /\ NoDup(a \o b) => NoDup(a)
           /\ \A n : Absent(a, n) /\ Absent(b, n) => Absent(a \o b, n)
<1> DEFINE c == a \o b
           m == Len(a)
<1>1. /\ c \in Seq(Row) /\ m \in Nat /\ Len(b) \in Nat /\ DOMAIN a = 1..m
      /\ DOMAIN b = 1..Len(b) /\ DOMAIN c = 1..(m + Len(b))
      /\ \A i \in 1..m : c[i] = a[i]
      /\ \A j \in 1..Len(b) : c[m + j] = b[j]
  OBVIOUS
<1> HIDE DEF c, m
<1>2. ASSUME NoDup(c) PROVE NoDup(a)
  <2> SUFFICES ASSUME NEW i \in 1..m, NEW j \in 1..m, a[i].id = a[j].id PROVE i = j
    BY <1>1 DEF NoDup
  <2>1. i \in DOMAIN c /\ j \in DOMAIN c /\ c[i].id = c[j].id
    BY <1>1
  <2> QED
    BY <1>2, <2>1 DEF NoDup
<1>3. ASSUME NEW n, Absent(a, n), Absent(b, n) PROVE Absent(c, n)
  <2> SUFFICES ASSUME NEW i \in 1..(m + Len(b)) PROVE c[i].id # n
    BY <1>1 DEF Absent
  <2>1. CASE i \in 1..m
    BY <1>1, <1>3, <2>1 DEF Absent
  <2>2. CASE i \notin 1..m
    <3>1. i - m \in 1..Len(b) /\ m + (i - m) = i
      BY <1>1, <2>2
    <3>2. c[i] = b[i - m]
      BY <1>1, <3>1
    <3> QED
      BY <1>1, <1>3, <3>1, <3>2 DEF Absent
  <2> QED
    BY <2>1, <2>2
<1> QED
  BY <1>2, <1>3 DEF c

LEMMA NoRowIsFar == NoRow.id = 0 /\ \A row \in Row : row.id \in 1..MaxRows
  BY DEF NoRow, Row

(* What the UI thread is in the middle of.                                  *)
LEMMA UiParts ==
    ASSUME ui \in UiStates
    PROVE  /\ ui.at \in Plain \cup {"ghost", "replace", "restore"}
           /\ ui.at \in {"ghost", "replace"} =>
                 /\ ui \in [at : {"ghost", "replace"}, kept : Seq(Row), gone : Seq(Row),
                            post : 0..MaxRows, safe : BOOLEAN]
                 /\ ui.kept \in Seq(Row) /\ ui.gone \in Seq(Row) /\ ui.post \in 0..MaxRows
                 /\ ui.safe \in BOOLEAN
           /\ ui.at = "restore" => ui.rows \in Seq(Row)
           /\ Resting \in UiStates
  BY DEF UiStates, Plain, Resting

LEMMA TypedParts ==
    ASSUME Types
    PROVE  /\ used.rows \in Nat /\ used.rows <= MaxRows /\ MaxRows \in Nat
           /\ used.sessions \in Session /\ Session \subseteq Nat \ {0}
           /\ session \in Session /\ session <= used.sessions
           /\ owed.id \in Nat /\ owed.id <= MaxRows
           /\ log[session] \in Seq(Row) /\ ghost[session].rows \in Seq(Row)
           /\ Fresh(0)
<1>1. MaxRows \in Nat /\ MaxSessions \in Nat
  BY SessionStoreAssumption DEF SessionStoreAssumption
<1>2. used.rows \in 0..MaxRows /\ used.sessions \in Session
  BY DEF Types, Counts
<1>3. session \in Session /\ session <= used.sessions /\ Session \subseteq Nat \ {0}
  <2>1. Session = 1..MaxSessions
    BY DEF Session
  <2>2. used.sessions \in 1..MaxSessions /\ session \in 1..used.sessions
    BY <1>2, <2>1 DEF Types
  <2>3. session \in 1..MaxSessions /\ session <= used.sessions
    BY <1>1, <2>2
  <2>4. 1..MaxSessions \subseteq Nat \ {0}
    BY <1>1
  <2> QED
    BY <2>1, <2>3, <2>4
<1>4. owed.id \in Nat /\ owed.id <= MaxRows
  BY <1>1, NoRowIsFar DEF Types
<1>5. ASSUME NEW rows \in Seq(Row)
      PROVE  Absent(rows, 0)
  <2>1. \A i \in DOMAIN rows : rows[i] \in Row
    OBVIOUS
  <2> QED
    BY <2>1, NoRowIsFar DEF Absent
<1>6. \A s \in Session : log[s] \in Seq(Row) /\ ghost[s].rows \in Seq(Row)
  BY DEF Types
<1>7. Fresh(0)
  BY <1>5, <1>6, UiParts DEF Fresh, Types
<1> QED
  BY <1>1, <1>2, <1>3, <1>4, <1>6, <1>7

-----------------------------------------------------------------------------
(* What the steps have in common                                            *)

(* A step that writes nothing, and leaves the UI thread where it was or in  *)
(* none of a rewind's steps.                                                *)
LEMMA QuietKeeps ==
    ASSUME StoreInv, Types', UNCHANGED <<log, ghost, past>>,
           used'.sessions >= used.sessions, used'.rows >= used.rows,
           ui'.at \in Plain \/ UNCHANGED <<ui, session>>,
           \/ owed' = owed \/ owed' = NoRow
           \/ owed'.id = used.rows + 1 /\ used'.rows = used.rows + 1
    PROVE  StoreInv'
<1>1. Types /\ FreshInv /\ LogInv /\ RewindInv /\ RestoreInv /\ PastInv
  BY DEF StoreInv
<1>2. /\ used.rows \in Nat /\ used'.rows \in Nat /\ owed.id \in Nat
      /\ used.sessions \in Nat /\ used'.sessions \in Nat
  <2>1. used' \in Counts
    BY DEF Types
  <2> QED
    BY <1>1, <2>1, TypedParts DEF Counts
<1>3. \A n : Fresh(n) => Fresh(n)'
  BY DEF Fresh, Plain
<1>4. FreshInv'
  <2>1. \A n \in Nat : n > used'.rows => Fresh(n)'
    BY <1>1, <1>2, <1>3 DEF FreshInv
  <2>2. CASE owed' = owed
    BY <1>1, <1>2, <1>3, <2>1, <2>2 DEF FreshInv
  <2>3. CASE owed' = NoRow
    <3>1. Fresh(0)
      BY <1>1, TypedParts
    <3> QED
      BY <1>2, <1>3, <2>1, <2>3, <3>1, NoRowIsFar DEF FreshInv
  <2>4. CASE owed'.id = used.rows + 1 /\ used'.rows = used.rows + 1
    BY <1>1, <1>2, <1>3, <2>1, <2>4 DEF FreshInv
  <2> QED
    BY <2>2, <2>3, <2>4
<1>5. LogInv'
  BY <1>1, <1>2 DEF LogInv, Session
<1>6. RewindInv' /\ RestoreInv'
  BY <1>1 DEF RewindInv, RestoreInv, Plain
<1>7. PastInv'
  BY <1>1 DEF PastInv
<1> QED
  BY <1>4, <1>5, <1>6, <1>7 DEF StoreInv

(* A row goes into the log of the current session.                          *)
LEMMA LogKeeps ==
    ASSUME StoreInv, Types', NEW row \in Row, Log(session, row), Fresh(row.id),
           UNCHANGED <<ghost, ui, session>>, used'.sessions = used.sessions,
           used'.rows >= used.rows, row.id <= used'.rows,
           \/ owed' = NoRow
           \/ owed' = owed /\ row.id = used.rows + 1
    PROVE  StoreInv'
<1>1. Types /\ FreshInv /\ LogInv /\ RewindInv /\ RestoreInv /\ PastInv
  BY DEF StoreInv
<1>2. /\ used.rows \in Nat /\ used'.rows \in Nat /\ used.sessions \in Session
      /\ owed.id \in Nat /\ row.id \in Nat \ {0} /\ session \in Session
      /\ log[session] \in Seq(Row)
  <2>1. used' \in Counts
    BY DEF Types
  <2> QED
    BY <1>1, <2>1, TypedParts, NoRowIsFar DEF Counts
<1>3. /\ log'[session] = Append(log[session], row)
      /\ \A s \in Session : s # session => log'[s] = log[s]
      /\ ~past'[session].known
      /\ \A s \in Session : s # session => past'[s] = past[s]
  BY <1>1, <1>2 DEF Log, Forget, Types
<1>4. Absent(log[session], row.id) /\ \A s \in Session : Absent(ghost[s].rows, row.id)
  BY <1>2 DEF Fresh
<1>5. /\ Append(log[session], row) \in Seq(Row)
      /\ NoDup(log[session]) => NoDup(Append(log[session], row))
      /\ \A post, slice :
           Behind(log[session], post, slice) /\ Absent(slice, row.id)
              => Behind(Append(log[session], row), post, slice)
      /\ \A n : Absent(log[session], n) /\ n # row.id
                   => Absent(Append(log[session], row), n)
      /\ Cardinality(Users(Append(log[session], row))) >= Cardinality(Users(log[session]))
  BY <1>2, <1>4, Added
<1>6. ASSUME NEW n, Fresh(n), n # row.id
      PROVE  Fresh(n)'
  <2>1. \A s \in Session : Absent(log'[s], n)
    BY <1>3, <1>5, <1>6 DEF Fresh
  <2> QED
    BY <1>6, <2>1 DEF Fresh
<1>7. FreshInv'
  <2>1. ASSUME NEW n \in Nat, n > used'.rows
        PROVE  Fresh(n)'
    <3>1. Fresh(n) /\ n # row.id
      BY <1>1, <1>2, <2>1 DEF FreshInv
    <3> QED
      BY <1>6, <3>1
  <2>2. Fresh(0)
    BY <1>1, TypedParts
  <2>3. CASE owed' = NoRow
    BY <1>2, <1>6, <2>1, <2>2, <2>3, NoRowIsFar DEF FreshInv
  <2>4. CASE owed' = owed /\ row.id = used.rows + 1
    <3>1. Fresh(owed.id) /\ owed.id # row.id /\ owed.id <= used'.rows
      BY <1>1, <1>2, <2>4 DEF FreshInv
    <3>2. Fresh(owed.id)'
      BY <1>6, <2>4, <3>1
    <3> QED
      BY <2>1, <2>4, <3>1, <3>2 DEF FreshInv
  <2> QED
    BY <2>3, <2>4
<1>8. LogInv'
  BY <1>1, <1>3, <1>4, <1>5 DEF LogInv
<1>9. RewindInv'
  <2>1. ui.at = "ghost" => Absent(ui.gone, row.id) /\ ui.post \in Nat
    BY <1>1, UiParts DEF Fresh, Types
  <2>2. Cardinality(Users(log[session])) \in Nat
        /\ Cardinality(Users(Append(log[session], row))) \in Nat
    BY <1>2, <1>5, UsersFinite
  <2>3. ui.at = "ghost" => /\ Behind(log'[session], ui.post, ui.gone)
                           /\ Cardinality(Users(log'[session])) > ui.post
    BY <1>1, <1>3, <1>5, <2>1, <2>2 DEF RewindInv
  <2> QED
    BY <1>1, <2>3 DEF RewindInv
<1>10. RestoreInv'
  BY <1>1, <1>3 DEF RestoreInv
<1>11. PastInv'
  BY <1>1, <1>3 DEF PastInv
<1> QED
  BY <1>7, <1>8, <1>9, <1>10, <1>11 DEF StoreInv

-----------------------------------------------------------------------------
(* Types                                                                    *)

(* A rewind reads the log and parts it in two.                              *)
LEMMA RewindParts ==
    ASSUME StoreInv, NEW cut \in Users(log[session])
    PROVE  LET rows == log[session]
               kept == SubSeq(rows, 1, cut - 1)
               gone == SubSeq(rows, cut, Len(rows))
           IN  /\ kept \in Seq(Row) /\ gone \in Seq(Row) /\ kept \o gone = rows
               /\ gone # <<>> /\ gone[1].user
               /\ Cardinality(Users(kept)) \in 0..MaxRows
               /\ \A n : Absent(rows, n) => Absent(kept, n) /\ Absent(gone, n)
<1> DEFINE rows == log[session]
           kept == SubSeq(rows, 1, cut - 1)
           gone == SubSeq(rows, cut, Len(rows))
<1>1. rows \in Seq(Row) /\ NoDup(rows) /\ cut \in 1..Len(rows) /\ rows[cut].user
  BY TypedParts DEF StoreInv, LogInv, Users
<1> HIDE DEF rows
<1>2. /\ Len(rows) \in Nat /\ DOMAIN rows = 1..Len(rows)
      /\ \A i \in 1..Len(rows) : rows[i] \in Row
  BY <1>1
<1>3. cut - 1 \in 0..Len(rows)
  BY <1>1, <1>2
<1>4. kept \in Seq(Row) /\ NoDup(kept) /\ Len(kept) = cut - 1
      /\ \A i \in 1..(cut - 1) : kept[i] = rows[i]
  BY <1>1, <1>2, <1>3, Prefix
<1>5. gone \in Seq(Row) /\ Len(gone) = Len(rows) - cut + 1
      /\ \A i \in 1..(Len(rows) - cut + 1) : gone[i] = rows[cut + i - 1]
  BY <1>1, <1>2
<1>7. kept \o gone = rows
  <2> DEFINE k == cut - 1
  <2>1. /\ 1 \in 1..(Len(rows) + 1) /\ k \in (1 - 1)..Len(rows) /\ Len(rows) \in k..Len(rows)
        /\ k + 1 = cut
    BY <1>1, <1>2
  <2> HIDE DEF k
  <2>3. SubSeq(rows, 1, k) \o SubSeq(rows, k + 1, Len(rows)) = SubSeq(rows, 1, Len(rows))
    BY <1>1, <2>1, ConcatAdjacentSubSeq
  <2>2. SubSeq(rows, 1, cut - 1) \o SubSeq(rows, cut, Len(rows)) = SubSeq(rows, 1, Len(rows))
    BY <2>1, <2>3 DEF k
  <2> QED
    BY <1>1, <2>2, SubSeqFull DEF kept, gone
<1> HIDE DEF kept, gone
<1>6. gone # <<>> /\ gone[1].user
  BY <1>1, <1>2, <1>5
<1>8. \A n : Absent(rows, n) => Absent(kept, n) /\ Absent(gone, n)
  <2>1. DOMAIN kept = 1..(cut - 1) /\ DOMAIN gone = 1..(Len(rows) - cut + 1)
    BY <1>4, <1>5
  <2>2. \A i \in 1..(cut - 1) : i \in DOMAIN rows
    BY <1>1, <1>2
  <2>3. \A i \in 1..(Len(rows) - cut + 1) : cut + i - 1 \in DOMAIN rows
    BY <1>1, <1>2
  <2> QED
    BY <1>4, <1>5, <2>1, <2>2, <2>3 DEF Absent
<1>9. Cardinality(Users(kept)) \in 0..MaxRows
  BY <1>4, UsersBounded
<1> QED
  BY <1>4, <1>5, <1>6, <1>7, <1>8, <1>9 DEF kept, gone, rows

LEMMA LoadedRows ==
    ASSUME log \in [Session -> Seq(Row)], NEW s \in Session
    PROVE  Loaded(s) \in Seq(Row)
<1>1. log[s] \in Seq(Row) /\ Len(log[s]) \in Nat
  OBVIOUS
<1>2. RowLimit \in Nat
  BY SessionStoreAssumption DEF SessionStoreAssumption
<1>3. (IF Len(log[s]) < RowLimit THEN Len(log[s]) ELSE RowLimit) \in 0..Len(log[s])
  BY <1>1, <1>2
<1> QED
  BY <1>1, <1>3, Prefix DEF Loaded

LEMMA TurnTypes ==
    ASSUME StoreInv, Submit \/ Say \/ Persist \/ Activate \/ PersistFails \/ EndTurn
                       \/ Finalize \/ Report
    PROVE  Types'
<1>1. Types /\ used \in Counts
  BY DEF StoreInv, Types
<1>2. used.rows < MaxRows => used.rows + 1 \in 1..MaxRows /\ used.rows + 1 \in 0..MaxRows
  BY <1>1, TypedParts
<1>3. ASSUME NEW row \in Row, Log(session, row)
      PROVE  /\ log' \in [Session -> Seq(Row)]
             /\ past' \in [Session -> [known : BOOLEAN, rows : Seq(Row)]]
  <2>1. session \in Session /\ log[session] \in Seq(Row)
    BY <1>1, TypedParts
  <2>2. Append(log[session], row) \in Seq(Row)
    BY <2>1
  <2>3. <<>> \in Seq(Row)
    OBVIOUS
  <2>4. log' = [log EXCEPT ![session] = Append(log[session], row)]
    BY <1>3 DEF Log
  <2>5. log' \in [Session -> Seq(Row)]
    BY <1>1, <2>2, <2>4 DEF Types
  <2>6. past' = [past EXCEPT ![session] = [known |-> FALSE, rows |-> <<>>]]
    BY <1>3 DEF Log, Forget
  <2> QED
    BY <1>1, <2>3, <2>5, <2>6 DEF Types
<1>4. CASE Submit \/ Activate \/ EndTurn
  BY <1>1, <1>4 DEF Submit, Activate, EndTurn, Types
<1>5. CASE Say
  <2>1. PICK user \in BOOLEAN :
           /\ history' = Append(history, [id |-> used.rows + 1, user |-> user])
           /\ owed' = [id |-> used.rows + 1, user |-> user]
    BY <1>5 DEF Say
  <2>2. owed' \in Row /\ history' \in Seq(Row)
    <3>1. owed' \in Row
      BY <1>2, <1>5, <2>1 DEF Say, Row
    <3> QED
      BY <1>1, <2>1, <3>1 DEF Types
  <2>3. used' \in Counts /\ used'.sessions = used.sessions
    BY <1>1, <1>2, <1>5 DEF Say, Counts
  <2> QED
    BY <1>1, <1>5, <2>2, <2>3 DEF Say, Types
<1>6. CASE Persist
  <2>1. owed \in Row /\ Log(session, owed)
    BY <1>1, <1>6 DEF Persist, Types
  <2> QED
    BY <1>1, <1>3, <1>6, <2>1 DEF Persist, Types
<1>7. CASE PersistFails
  <2>1. owed.id \in 1..MaxRows
    BY <1>1, <1>7, NoRowIsFar DEF PersistFails, Types
  <2>2. used' \in Counts /\ used'.sessions = used.sessions
    BY <1>1, <1>7 DEF PersistFails, Refuse, Counts
  <2> QED
    BY <1>1, <1>7, <2>1, <2>2 DEF PersistFails, Types
<1>8. CASE Finalize
  BY <1>1, <1>8, TypedParts DEF Finalize, Types
<1>9. CASE Report
  <2>1. [id |-> used.rows + 1, user |-> FALSE] \in Row
    BY <1>2, <1>9 DEF Report, Row
  <2>2. used' \in Counts /\ used'.sessions = used.sessions
    <3>1. used.rows + 1 \in 0..MaxRows /\ used.reports + 1 \in Nat
      BY <1>1, <1>2, <1>9 DEF Report, Counts
    <3>2. used' = [used EXCEPT !.rows = used.rows + 1, !.reports = used.reports + 1]
      BY <1>9 DEF Report
    <3> QED
      BY <1>1, <3>1, <3>2 DEF Counts
  <2> QED
    BY <1>1, <1>3, <1>9, <2>1, <2>2 DEF Report, Types
<1> QED
  BY <1>4, <1>5, <1>6, <1>7, <1>8, <1>9

LEMMA UiTypes ==
    ASSUME StoreInv, New \/ Switch \/ Load \/ ReadFails \/ Remember \/ MetaFails
                     \/ Fork \/ Refresh \/ Restart
    PROVE  Types'
<1>1. Types /\ used \in Counts /\ session \in Session
  BY TypedParts DEF StoreInv, Types
<1>2. /\ Resting \in UiStates
      /\ \A at \in Plain : [at |-> at] \in UiStates
  BY DEF Resting, UiStates, Plain
<1>3. used.sessions < MaxSessions => used.sessions + 1 \in Session
  BY <1>1, SessionStoreAssumption DEF Counts, Session, SessionStoreAssumption
<1>4. \A n \in Session : n \in 1..n
  BY SessionStoreAssumption DEF Session, SessionStoreAssumption
<1>11. used.commands + 1 \in Nat /\ used.faults + 1 \in Nat
  BY <1>1 DEF Counts
<1>12. ASSUME used.sessions < MaxSessions,
              \/ used' = [used EXCEPT !.commands = @ + 1, !.sessions = @ + 1]
              \/ used' = [used EXCEPT !.faults = @ + 1, !.sessions = @ + 1]
       PROVE  used' \in Counts /\ used'.sessions = used.sessions + 1
  <2>1. used.sessions + 1 \in Session
    BY <1>3, <1>12
  <2>2. CASE used' = [used EXCEPT !.commands = used.commands + 1, !.sessions = used.sessions + 1]
    BY <1>1, <1>11, <2>1, <2>2 DEF Counts
  <2>3. CASE used' = [used EXCEPT !.faults = used.faults + 1, !.sessions = used.sessions + 1]
    BY <1>1, <1>11, <2>1, <2>3 DEF Counts
  <2> QED
    BY <1>12, <2>2, <2>3
<1>13. used'.sessions = used.sessions + 1 => last \in 1..used'.sessions
  <2>1. used.sessions \in Nat
    BY <1>1, TypedParts
  <2>2. last \in 1..used.sessions
    BY <1>1 DEF Types
  <2> QED
    BY <2>1, <2>2
<1>14. last \in Session
  BY <1>1, SessionStoreAssumption DEF Types, Counts, Session, SessionStoreAssumption
<1>5. CASE New
  <2>1. used' \in Counts /\ used'.sessions = used.sessions + 1
    BY <1>12, <1>5 DEF New
  <2>2. session' \in 1..used'.sessions
    BY <1>3, <1>4, <1>5, <2>1 DEF New
  <2>3. ui' \in UiStates /\ history' \in Seq(Row)
    BY <1>2, <1>5 DEF New, Plain
  <2> QED
    BY <1>1, <1>5, <1>13, <2>1, <2>2, <2>3 DEF New, Types
<1>6. CASE Switch
  <2>1. used' \in Counts /\ used'.sessions = used.sessions
    BY <1>1, <1>6 DEF Switch, Command, Counts
  <2>2. ui' \in UiStates /\ session' \in 1..used'.sessions
    BY <1>2, <1>6, <2>1 DEF Switch, Plain
  <2> QED
    BY <1>1, <1>6, <2>1, <2>2 DEF Switch, Types
<1>7. CASE Load \/ Refresh
  <2>1. Loaded(session) \in Seq(Row)
    BY <1>1, LoadedRows DEF Types
  <2>2. ui' \in UiStates
    BY <1>2, <1>7 DEF Load, Refresh, Plain
  <2> QED
    BY <1>1, <1>7, <2>1, <2>2 DEF Load, Refresh, Types
<1>8. CASE Remember
  BY <1>1, <1>2, <1>8 DEF Remember, Types
<1>15. CASE ReadFails \/ MetaFails
  <2>1. Loaded(session) \in Seq(Row)
    BY <1>1, LoadedRows DEF Types
  <2>2. used' \in Counts /\ used'.sessions = used.sessions
    BY <1>1, <1>11, <1>15 DEF ReadFails, MetaFails, Refuse, Counts
  <2>3. ui' \in UiStates /\ history' \in Seq(Row)
    BY <1>1, <1>2, <1>15, <2>1 DEF ReadFails, MetaFails, Types
  <2>4. stale' \in BOOLEAN
    BY <1>15 DEF ReadFails, MetaFails
  <2> QED
    BY <1>1, <1>15, <2>2, <2>3, <2>4 DEF ReadFails, MetaFails, Types
<1>9. CASE Fork
  <2>1. PICK cut \in Users(log[session]) \cup {Len(log[session])} :
           log' = [log EXCEPT ![used.sessions + 1] = SubSeq(log[session], 1, cut)]
    BY <1>9 DEF Fork
  <2>2. log[session] \in Seq(Row) /\ cut \in 0..Len(log[session])
    <3>1. log[session] \in Seq(Row)
      BY <1>1 DEF Types
    <3> QED
      BY <3>1 DEF Users
  <2>3. SubSeq(log[session], 1, cut) \in Seq(Row)
    BY <2>2, Prefix
  <2>4. log' \in [Session -> Seq(Row)]
    BY <1>1, <2>1, <2>3 DEF Types
  <2>5. used' \in Counts /\ used'.sessions = used.sessions + 1
    BY <1>12, <1>9 DEF Fork
  <2>6. session' \in 1..used'.sessions
    BY <1>3, <1>4, <1>9, <2>5 DEF Fork
  <2>7. ui' \in UiStates
    BY <1>2, <1>9 DEF Fork, Plain
  <2> QED
    BY <1>1, <1>9, <1>13, <2>4, <2>5, <2>6, <2>7 DEF Fork, Types
<1>10. CASE Restart
  <2>1. used' \in Counts /\ used'.sessions >= used.sessions
    <3>1. used.sessions \in Nat
      BY <1>1, TypedParts
    <3>2. CASE used' = [used EXCEPT !.faults = @ + 1]
      BY <1>1, <1>11, <3>1, <3>2 DEF Counts
    <3>3. CASE used.sessions < MaxSessions
               /\ used' = [used EXCEPT !.faults = @ + 1, !.sessions = @ + 1]
      BY <1>12, <3>1, <3>3
    <3> QED
      BY <1>10, <3>2, <3>3 DEF Restart
  <2>2. PICK s \in Session : session' = s
    BY <1>3, <1>10, <1>14 DEF Restart
  <2>3. session' \in 1..used'.sessions
    <3>1. \A n \in Session : n \in 1..MaxSessions
      BY DEF Session
    <3>2. used.sessions \in Nat /\ used'.sessions \in Nat /\ last \in 1..used.sessions
      BY <1>1, <2>1, TypedParts DEF Types, Counts
    <3>3. CASE session' = last
      BY <2>1, <3>2, <3>3
    <3>4. CASE session' = used.sessions + 1 /\ used.sessions < MaxSessions
               /\ used' = [used EXCEPT !.faults = @ + 1, !.sessions = @ + 1]
      BY <1>12, <3>2, <3>4
    <3> QED
      BY <1>10, <3>3, <3>4 DEF Restart
  <2>4. history' \in Seq(Row)
    BY <1>1, <1>10, <2>2, LoadedRows DEF Restart, Types
  <2> QED
    BY <1>1, <1>2, <1>10, <2>1, <2>2, <2>3, <2>4 DEF Restart, Types
<1> QED
  BY <1>5, <1>6, <1>7, <1>8, <1>9, <1>10, <1>15

LEMMA RewindTypes ==
    ASSUME StoreInv, \/ Rewind \/ SaveGhost \/ Replace \/ ReplaceFails
                     \/ Restore \/ PutBack \/ Clear
    PROVE  Types'
<1>1. /\ Types /\ used \in Counts /\ session \in Session /\ ui \in UiStates
      /\ log[session] \in Seq(Row) /\ ghost[session].rows \in Seq(Row)
  BY TypedParts DEF StoreInv, Types
<1>2. Resting \in UiStates /\ \A at \in Plain : [at |-> at] \in UiStates
  BY DEF Resting, UiStates, Plain
<1>3. used' = [used EXCEPT !.commands = @ + 1] \/ used' = [used EXCEPT !.faults = @ + 1]
      => used' \in Counts /\ used'.sessions = used.sessions
  BY <1>1 DEF Counts
<1>4. MaxRows \in Nat /\ NoGhost \in [post : -1..MaxRows, rows : Seq(Row)]
  BY SessionStoreAssumption DEF SessionStoreAssumption, NoGhost
<1>5. CASE Rewind
  <2>1. PICK cut \in Users(log[session]) :
           ui' = [at |-> "ghost", kept |-> SubSeq(log[session], 1, cut - 1),
                  gone |-> SubSeq(log[session], cut, Len(log[session])),
                  post |-> Cardinality(Users(SubSeq(log[session], 1, cut - 1))),
                  safe |-> FALSE]
    BY <1>5 DEF Rewind
  <2>2. ui' \in UiStates
    BY <2>1, RewindParts DEF UiStates
  <2> QED
    BY <1>1, <1>3, <1>5, <2>2 DEF Rewind, Command, Types
<1>6. CASE SaveGhost
  <2>1. ui \in [at : {"ghost", "replace"}, kept : Seq(Row), gone : Seq(Row),
                post : 0..MaxRows, safe : BOOLEAN]
    BY <1>1, <1>6, UiParts DEF SaveGhost
  <2>2. ui' \in UiStates
    <3>1. ui' = [ui EXCEPT !.at = "replace", !.safe = TRUE] \/ ui' = [ui EXCEPT !.at = "replace"]
      BY <1>6 DEF SaveGhost
    <3>2. ui' \in [at : {"ghost", "replace"}, kept : Seq(Row), gone : Seq(Row),
                   post : 0..MaxRows, safe : BOOLEAN]
      BY <2>1, <3>1
    <3> QED
      BY <3>2 DEF UiStates
  <2>3. ghost' \in [Session -> [post : -1..MaxRows, rows : Seq(Row)]]
    <3>1. [post |-> ui.post, rows |-> ui.gone] \in [post : -1..MaxRows, rows : Seq(Row)]
      BY <1>4, <2>1
    <3> QED
      BY <1>1, <1>6, <3>1 DEF SaveGhost, Types
  <2>4. used' \in Counts /\ used'.sessions = used.sessions
    BY <1>1, <1>3, <1>6 DEF SaveGhost, Refuse
  <2> QED
    BY <1>1, <1>6, <2>2, <2>3, <2>4 DEF SaveGhost, Types
<1>7. CASE Replace
  <2>1. ui.kept \in Seq(Row) /\ ui.safe \in BOOLEAN
    BY <1>1, <1>7, UiParts DEF Replace
  <2>2. log' \in [Session -> Seq(Row)]
    BY <1>1, <1>7, <2>1 DEF Replace, Types
  <2>3. past' \in [Session -> [known : BOOLEAN, rows : Seq(Row)]]
    BY <1>1, <1>7, <2>1 DEF Replace, Types
  <2>4. ui' \in UiStates
    BY <1>2, <1>7 DEF Replace, Plain
  <2> QED
    BY <1>1, <1>7, <2>2, <2>3, <2>4 DEF Replace, Types
<1>8. CASE ReplaceFails
  BY <1>1, <1>2, <1>3, <1>8 DEF ReplaceFails, Refuse, Types
<1>9. CASE Restore
  <2>1. [at |-> "restore", rows |-> log[session] \o ghost[session].rows] \in UiStates
    <3>1. log[session] \o ghost[session].rows \in Seq(Row)
      BY <1>1
    <3> QED
      BY <3>1 DEF UiStates
  <2>2. ui' \in UiStates
    BY <1>1, <1>9, <2>1 DEF Restore
  <2>3. ghost' \in [Session -> [post : -1..MaxRows, rows : Seq(Row)]]
    BY <1>1, <1>4, <1>9 DEF Restore, Types
  <2> QED
    BY <1>1, <1>3, <1>9, <2>2, <2>3 DEF Restore, Command, Types
<1>10. CASE PutBack
  <2>1. ui.rows \in Seq(Row)
    BY <1>1, <1>10, UiParts DEF PutBack
  <2>2. log' \in [Session -> Seq(Row)]
    BY <1>1, <1>10, <2>1 DEF PutBack, Types
  <2>3. past' \in [Session -> [known : BOOLEAN, rows : Seq(Row)]]
    <3>1. <<>> \in Seq(Row)
      OBVIOUS
    <3> QED
      BY <1>1, <1>10, <3>1 DEF PutBack, Forget, Types
  <2>4. ui' \in UiStates
    BY <1>2, <1>10 DEF PutBack, Plain
  <2> QED
    BY <1>1, <1>10, <2>2, <2>3, <2>4 DEF PutBack, Types
<1>11. CASE Clear
  <2>1. ghost' \in [Session -> [post : -1..MaxRows, rows : Seq(Row)]]
    BY <1>1, <1>4, <1>11 DEF Clear, Types
  <2>2. ui' \in UiStates
    BY <1>2, <1>11 DEF Clear, Plain
  <2> QED
    BY <1>1, <1>11, <2>1, <2>2 DEF Clear, Types
<1> QED
  BY <1>5, <1>6, <1>7, <1>8, <1>9, <1>10, <1>11

LEMMA TypesStep ==
    ASSUME StoreInv, [Next]_vars
    PROVE  Types'
<1>1. CASE UNCHANGED vars
  BY <1>1 DEF vars, StoreInv, Types
<1>2. CASE Next
  BY <1>2, TurnTypes, UiTypes, RewindTypes DEF Next
<1> QED
  BY <1>1, <1>2

-----------------------------------------------------------------------------
(* The steps, but for those of a rewind                                     *)

LEMMA QuietSteps ==
    ASSUME StoreInv, Types',
           \/ Submit \/ Say \/ Activate \/ PersistFails \/ EndTurn \/ Finalize
           \/ New \/ Switch \/ Load \/ ReadFails \/ Remember \/ MetaFails
           \/ ReplaceFails \/ Refresh \/ Restart
    PROVE  StoreInv'
<1>1. /\ used \in Counts /\ used.rows \in Nat /\ used.sessions \in Nat
  BY TypedParts DEF StoreInv, Types
<1>2. UNCHANGED <<log, ghost, past>>
  BY DEF Submit, Say, Activate, PersistFails, EndTurn, Finalize, New, Switch, Load,
     Remember, ReadFails, MetaFails, ReplaceFails, Refresh, Restart
<1>3. used'.sessions >= used.sessions /\ used'.rows >= used.rows
  <2>1. CASE used' = used
    BY <1>1, <2>1
  <2>2. CASE Say
    BY <1>1, <2>2 DEF Say, Counts
  <2>3. CASE PersistFails \/ ReplaceFails \/ ReadFails \/ MetaFails
    BY <1>1, <2>3 DEF PersistFails, ReplaceFails, ReadFails, MetaFails, Refuse, Counts
  <2>4. CASE Switch
    BY <1>1, <2>4 DEF Switch, Command, Counts
  <2>5. CASE New
    BY <1>1, <2>5 DEF New, Counts
  <2>6. CASE Restart
    <3>1. CASE used' = [used EXCEPT !.faults = @ + 1]
      BY <1>1, <3>1 DEF Counts
    <3>2. CASE used' = [used EXCEPT !.faults = @ + 1, !.sessions = @ + 1]
      BY <1>1, <3>2 DEF Counts
    <3> QED
      BY <2>6, <3>1, <3>2 DEF Restart
  <2>7. CASE Submit \/ Activate \/ EndTurn \/ Finalize \/ Load \/ Remember \/ Refresh
    BY <2>1, <2>7 DEF Submit, Activate, EndTurn, Finalize, Load, Remember, Refresh
  <2> QED
    BY <2>2, <2>3, <2>4, <2>5, <2>6, <2>7
<1>4. ui'.at \in Plain \/ UNCHANGED <<ui, session>>
  <2>1. CASE Submit \/ Say \/ Activate \/ PersistFails \/ EndTurn \/ Finalize
    BY <2>1 DEF Submit, Say, Activate, PersistFails, EndTurn, Finalize
  <2>2. CASE New \/ Switch \/ Load
    BY <2>2 DEF New, Switch, Load, Plain
  <2>3. CASE Remember \/ ReplaceFails \/ ReadFails \/ MetaFails \/ Refresh \/ Restart
    BY <2>3 DEF Remember, ReplaceFails, ReadFails, MetaFails, Refresh, Restart, Resting,
       Plain
  <2> QED
    BY <2>1, <2>2, <2>3
<1>5. CASE Say
  <2>1. owed'.id = used.rows + 1 /\ used'.rows = used.rows + 1
    BY <1>1, <1>5 DEF Say, Counts
  <2> QED
    BY <1>2, <1>3, <1>4, <2>1, QuietKeeps
<1>6. CASE ~Say
  <2>1. owed' = owed \/ owed' = NoRow
    BY <1>6 DEF Submit, Activate, PersistFails, EndTurn, Finalize, New, Switch, Load,
       Remember, ReadFails, MetaFails, ReplaceFails, Refresh, Restart
  <2> QED
    BY <1>2, <1>3, <1>4, <2>1, QuietKeeps
<1> QED
  BY <1>5, <1>6

LEMMA LogSteps ==
    ASSUME StoreInv, Types', Persist \/ Report
    PROVE  StoreInv'
<1>1. /\ used \in Counts /\ used.rows \in Nat /\ MaxRows \in Nat /\ FreshInv
      /\ owed \in Row \cup {NoRow}
  BY TypedParts DEF StoreInv, Types
<1>2. CASE Persist
  <2>1. owed \in Row /\ Fresh(owed.id) /\ owed.id <= used.rows
    BY <1>1, <1>2 DEF Persist, FreshInv
  <2> QED
    BY <1>1, <1>2, <2>1, LogKeeps DEF Persist
<1>3. CASE Report
  <2> DEFINE row == [id |-> used.rows + 1, user |-> FALSE]
  <2>1. row \in Row /\ row.id = used.rows + 1
    BY <1>1, <1>3 DEF Report, Row
  <2>2. Fresh(row.id)
    BY <1>1, <2>1 DEF FreshInv
  <2>3. used'.rows = used.rows + 1 /\ used'.sessions = used.sessions
    BY <1>1, <1>3 DEF Report, Counts
  <2>4. Log(session, row) /\ UNCHANGED <<ghost, ui, session>> /\ owed' = owed
    BY <1>3 DEF Report
  <2> HIDE DEF row
  <2> QED
    BY <1>1, <2>1, <2>2, <2>3, <2>4, LogKeeps
<1> QED
  BY <1>2, <1>3

(* The first rows of a log become the log of a session that had none.       *)
LEMMA ForkStep ==
    ASSUME StoreInv, Types', Fork
    PROVE  StoreInv'
<1>1. /\ Types /\ FreshInv /\ LogInv /\ PastInv /\ used \in Counts /\ used.sessions \in Nat
      /\ used.rows \in Nat /\ ui = Resting
  BY TypedParts DEF StoreInv, Types, Fork
<1> DEFINE new == used.sessions + 1
<1>2. PICK cut \in Users(log[session]) \cup {Len(log[session])} :
         log' = [log EXCEPT ![new] = SubSeq(log[session], 1, cut)]
  BY DEF Fork
<1>3. log[session] \in Seq(Row) /\ cut \in 0..Len(log[session]) /\ session \in Session
  <2>1. log[session] \in Seq(Row) /\ session \in Session
    BY <1>1, TypedParts
  <2> QED
    BY <2>1 DEF Users
<1>4. new \in Session /\ new > used.sessions
  BY <1>1, SessionStoreAssumption DEF Fork, Session, SessionStoreAssumption
<1>5. /\ log'[new] = SubSeq(log[session], 1, cut)
      /\ \A s \in Session : s # new => log'[s] = log[s]
  BY <1>1, <1>2, <1>4 DEF Types
<1>6. /\ NoDup(log[session]) => NoDup(log'[new])
      /\ \A n : Absent(log[session], n) => Absent(log'[new], n)
  BY <1>3, <1>5, Prefix
<1>7. /\ UNCHANGED <<ghost, past, owed>> /\ ui' = [at |-> "load"]
      /\ used'.rows = used.rows /\ used'.sessions = new
  BY <1>1 DEF Fork, Counts
<1> HIDE DEF new
<1>8. \A n : Fresh(n) => Fresh(n)'
  BY <1>3, <1>5, <1>6, <1>7 DEF Fresh
<1>9. FreshInv'
  BY <1>1, <1>7, <1>8 DEF FreshInv
<1>10. ghost[new] = NoGhost /\ ~past[new].known /\ NoGhost.rows = <<>>
  BY <1>1, <1>4 DEF LogInv, NoGhost
<1>11. LogInv'
  <2> SUFFICES ASSUME NEW s \in Session
               PROVE  /\ NoDup(log'[s]) /\ NoDup(ghost[s].rows)
                      /\ Behind(log'[s], ghost[s].post, ghost[s].rows)
                      /\ s > used'.sessions => ghost[s] = NoGhost /\ ~past[s].known
                      /\ ghost[s] # NoGhost => ghost[s].rows # <<>> /\ ghost[s].rows[1].user
    BY <1>7 DEF LogInv
  <2>1. s > used'.sessions => s > used.sessions
    <3>1. s \in Nat /\ new \in Nat
      BY <1>1, <1>4, TypedParts
    <3> QED
      BY <1>1, <1>4, <1>7, <3>1
  <2>2. CASE s # new
    BY <1>1, <1>5, <2>1, <2>2 DEF LogInv
  <2>3. CASE s = new
    <3>1. NoDup(log'[s])
      BY <1>1, <1>3, <1>6, <2>3 DEF LogInv
    <3>2. Behind(log'[s], ghost[s].post, ghost[s].rows)
      BY <1>10, <2>3 DEF Behind
    <3> QED
      BY <1>1, <2>1, <3>1, <3>2 DEF LogInv
  <2> QED
    BY <2>2, <2>3
<1>12. RewindInv' /\ RestoreInv'
  BY <1>7 DEF RewindInv, RestoreInv
<1>13. PastInv'
  BY <1>1, <1>5, <1>7, <1>10 DEF PastInv
<1> QED
  BY <1>9, <1>11, <1>12, <1>13 DEF StoreInv

-----------------------------------------------------------------------------
(* The steps of a rewind                                                    *)

LEMMA RewindStep ==
    ASSUME StoreInv, Types', Rewind
    PROVE  StoreInv'
<1>1. /\ Types /\ FreshInv /\ LogInv /\ PastInv /\ used \in Counts
      /\ log[session] \in Seq(Row) /\ session \in Session
  BY TypedParts DEF StoreInv, Types
<1> DEFINE rows == log[session]
<1>2. PICK cut \in Users(rows) :
         ui' = [at |-> "ghost", kept |-> SubSeq(rows, 1, cut - 1),
                gone |-> SubSeq(rows, cut, Len(rows)),
                post |-> Cardinality(Users(SubSeq(rows, 1, cut - 1))), safe |-> FALSE]
  BY DEF Rewind
<1> DEFINE kept == SubSeq(rows, 1, cut - 1)
           gone == SubSeq(rows, cut, Len(rows))
<1>3. /\ kept \in Seq(Row) /\ gone \in Seq(Row) /\ kept \o gone = rows
      /\ gone # <<>> /\ gone[1].user
      /\ \A n : Absent(rows, n) => Absent(kept, n) /\ Absent(gone, n)
  BY RewindParts
<1>4. ui'.at = "ghost" /\ ui'.kept = kept /\ ui'.gone = gone
      /\ ui'.post = Cardinality(Users(kept)) /\ ~ui'.safe
  BY <1>2
<1>5. /\ UNCHANGED <<log, ghost, session, owed, past>>
      /\ used'.rows = used.rows /\ used'.sessions = used.sessions
  BY <1>1 DEF Rewind, Command, Counts
<1>6. /\ NoDup(rows) /\ Behind(rows, ghost[session].post, ghost[session].rows)
  BY <1>1 DEF LogInv
<1>7. Behind(kept, ghost[session].post, ghost[session].rows)
  <2>1. cut - 1 \in 0..Len(rows)
    BY <1>1 DEF Users
  <2> QED
    BY <1>1, <1>6, <2>1, Prefix
<1> HIDE DEF rows, kept, gone
<1>8. /\ Behind(rows, Cardinality(Users(kept)), gone)
      /\ Cardinality(Users(rows)) > Cardinality(Users(kept))
  BY <1>3, <1>6, Joined
<1>9. \A n : Fresh(n) => Fresh(n)'
  BY <1>1, <1>3, <1>4, <1>5 DEF Fresh, rows
<1>10. FreshInv'
  BY <1>1, <1>5, <1>9 DEF FreshInv
<1>11. LogInv' /\ PastInv'
  BY <1>1, <1>5 DEF LogInv, PastInv
<1>12. RewindInv' /\ RestoreInv'
  BY <1>3, <1>4, <1>5, <1>6, <1>7, <1>8 DEF RewindInv, RestoreInv, rows
<1> QED
  BY <1>10, <1>11, <1>12 DEF StoreInv

(* The slice is saved: with just as many user rows as the rewind leaves,    *)
(* none of it is in the log, and the log has more than that now.            *)
LEMMA SaveGhostStep ==
    ASSUME StoreInv, Types', SaveGhost
    PROVE  StoreInv'
<1>1. /\ Types /\ FreshInv /\ LogInv /\ RewindInv /\ PastInv /\ used \in Counts
      /\ session \in Session /\ session <= used.sessions /\ used.sessions \in Nat
      /\ Session \subseteq Nat /\ ui.at = "ghost"
      /\ ui \in [at : {"ghost", "replace"}, kept : Seq(Row), gone : Seq(Row),
                 post : 0..MaxRows, safe : BOOLEAN]
      /\ ui.kept \in Seq(Row) /\ ui.gone \in Seq(Row) /\ ui.post \in 0..MaxRows
  BY TypedParts, UiParts DEF StoreInv, Types, SaveGhost
<1>2. /\ UNCHANGED <<log, session, owed, past>>
      /\ used'.rows = used.rows /\ used'.sessions = used.sessions
      /\ ui'.at = "replace" /\ ui'.kept = ui.kept /\ ui'.gone = ui.gone /\ ui'.post = ui.post
  BY <1>1 DEF SaveGhost, Refuse, Counts
<1> DEFINE slice == [post |-> ui.post, rows |-> ui.gone]
<1>3. CASE ghost' = ghost /\ ui' = [ui EXCEPT !.at = "replace"]
  <2>1. \A n : Fresh(n) => Fresh(n)'
    BY <1>1, <1>2, <1>3 DEF Fresh
  <2>2. FreshInv'
    BY <1>1, <1>2, <2>1 DEF FreshInv
  <2>3. LogInv' /\ PastInv' /\ RestoreInv'
    BY <1>1, <1>2, <1>3 DEF LogInv, PastInv, RestoreInv
  <2>4. RewindInv'
    <3>1. ui'.safe = ui.safe
      BY <1>1, <1>3
    <3> QED
      BY <1>1, <1>2, <1>3, <3>1 DEF RewindInv
  <2> QED
    BY <2>2, <2>3, <2>4 DEF StoreInv
<1>4. CASE ghost' = [ghost EXCEPT ![session] = slice]
  <2>1. /\ ghost'[session] = slice /\ slice.post = ui.post /\ slice.rows = ui.gone
        /\ \A s \in Session : s # session => ghost'[s] = ghost[s]
    BY <1>1, <1>4 DEF Types
  <2>2. \A n : Fresh(n) => Fresh(n)'
    BY <1>1, <1>2, <2>1 DEF Fresh
  <2>3. FreshInv'
    BY <1>1, <1>2, <2>2 DEF FreshInv
  <2>4. /\ ui.gone # <<>> /\ ui.gone[1].user /\ NoDup(ui.kept \o ui.gone)
        /\ Behind(log[session], ui.post, ui.gone)
        /\ Cardinality(Users(log[session])) > ui.post
        /\ ui.post = Cardinality(Users(ui.kept))
    BY <1>1 DEF RewindInv
  <2>5. NoDup(ui.gone) /\ Behind(ui.kept, ui.post, ui.gone)
    BY <1>1, <2>4, Joined
  <2>6. LogInv'
    BY <1>1, <1>2, <2>1, <2>4, <2>5 DEF LogInv
  <2>7. PastInv'
    <3>1. Cardinality(Users(log[session])) # ui.post
      <4>1. Cardinality(Users(log[session])) \in Nat
        BY <1>1, TypedParts, UsersFinite
      <4> QED
        BY <1>1, <2>4, <4>1
    <3> QED
      BY <1>1, <1>2, <2>1, <3>1 DEF PastInv
  <2>8. RewindInv' /\ RestoreInv'
    BY <1>1, <1>2, <2>1, <2>4, <2>5 DEF RewindInv, RestoreInv
  <2> QED
    BY <2>3, <2>6, <2>7, <2>8 DEF StoreInv
<1> QED
  BY <1>3, <1>4 DEF SaveGhost

(* The rows before the cut become the log.                                  *)
LEMMA ReplaceStep ==
    ASSUME StoreInv, Types', Replace
    PROVE  StoreInv'
<1>1. /\ Types /\ FreshInv /\ LogInv /\ RewindInv /\ PastInv
      /\ session \in Session /\ ui.at = "replace"
      /\ ui.kept \in Seq(Row) /\ ui.gone \in Seq(Row) /\ ui.safe \in BOOLEAN
      /\ log[session] \in Seq(Row) /\ session <= used.sessions /\ used.sessions \in Nat
      /\ Session \subseteq Nat
  BY TypedParts, UiParts DEF StoreInv, Types, Replace
<1>2. /\ UNCHANGED <<ghost, session, owed, used>> /\ ui' = [at |-> "refresh"]
      /\ log' = [log EXCEPT ![session] = ui.kept]
      /\ past' = [past EXCEPT ![session] =
                     [known |-> ui.safe /\ log[session] = ui.kept \o ui.gone,
                      rows |-> log[session]]]
  BY DEF Replace
<1>3. log'[session] = ui.kept /\ \A s \in Session : s # session => log'[s] = log[s]
  BY <1>1, <1>2 DEF Types
<1>4. /\ past'[session].rows = log[session]
      /\ past'[session].known => ui.safe /\ log[session] = ui.kept \o ui.gone
      /\ \A s \in Session : s # session => past'[s] = past[s]
  BY <1>1, <1>2 DEF Types
<1>5. /\ NoDup(ui.kept) /\ NoDup(ui.kept \o ui.gone)
      /\ Behind(ui.kept, ghost[session].post, ghost[session].rows)
      /\ ui.safe => ghost[session] = [post |-> ui.post, rows |-> ui.gone]
  <2>1. NoDup(ui.kept \o ui.gone)
    BY <1>1 DEF RewindInv
  <2>2. NoDup(ui.kept)
    BY <1>1, <2>1, Halves
  <2> QED
    BY <1>1, <2>1, <2>2 DEF RewindInv
<1>6. \A n : Fresh(n) => Fresh(n)'
  BY <1>1, <1>2, <1>3 DEF Fresh
<1>7. FreshInv'
  BY <1>1, <1>2, <1>6 DEF FreshInv
<1>8. LogInv'
  <2> SUFFICES ASSUME NEW s \in Session
               PROVE  /\ NoDup(log'[s]) /\ NoDup(ghost[s].rows)
                      /\ Behind(log'[s], ghost[s].post, ghost[s].rows)
                      /\ s > used.sessions => ghost[s] = NoGhost /\ ~past'[s].known
                      /\ ghost[s] # NoGhost => ghost[s].rows # <<>> /\ ghost[s].rows[1].user
    BY <1>2 DEF LogInv
  <2>1. CASE s = session
    BY <1>1, <1>3, <1>5, <2>1 DEF LogInv
  <2>2. CASE s # session
    BY <1>1, <1>3, <1>4, <2>2 DEF LogInv
  <2> QED
    BY <2>1, <2>2
<1>9. PastInv'
  <2> SUFFICES ASSUME NEW s \in Session, past'[s].known, ghost[s] # NoGhost,
                      Cardinality(Users(log'[s])) = ghost[s].post
               PROVE  past'[s].rows = log'[s] \o ghost[s].rows
    BY <1>2 DEF PastInv
  <2>1. CASE s = session
    <3>1. ui.safe /\ log[session] = ui.kept \o ui.gone
      BY <1>4, <2>1
    <3>2. ghost[session].rows = ui.gone
      BY <1>5, <3>1
    <3> QED
      BY <1>3, <1>4, <2>1, <3>1, <3>2
  <2>2. CASE s # session
    BY <1>1, <1>3, <1>4, <2>2 DEF PastInv
  <2> QED
    BY <2>1, <2>2
<1>10. RewindInv' /\ RestoreInv'
  BY <1>2 DEF RewindInv, RestoreInv
<1> QED
  BY <1>7, <1>8, <1>9, <1>10 DEF StoreInv

(* A restore reads the log and joins the slice to it, or drops the slice.   *)
LEMMA RestoreStep ==
    ASSUME StoreInv, Types', Restore
    PROVE  StoreInv'
<1>1. /\ Types /\ FreshInv /\ LogInv /\ PastInv /\ used \in Counts
      /\ session \in Session /\ ui.at = "idle" /\ ghost[session] # NoGhost
      /\ log[session] \in Seq(Row) /\ ghost[session].rows \in Seq(Row)
  BY TypedParts DEF StoreInv, Types, Restore, Command, Resting
<1>2. /\ UNCHANGED <<log, session, owed, past>>
      /\ used'.rows = used.rows /\ used'.sessions = used.sessions
  BY <1>1 DEF Restore, Command, Counts
<1>3. CASE Cardinality(Users(log[session])) = ghost[session].post
  <2> DEFINE a == log[session]
             b == ghost[session].rows
  <2>1. ui' = [at |-> "restore", rows |-> a \o b] /\ ghost' = ghost
    BY <1>3 DEF Restore
  <2>2. /\ NoDup(a) /\ NoDup(b) /\ Behind(a, Cardinality(Users(a)), b)
        /\ b # <<>> /\ b[1].user
    BY <1>1, <1>3 DEF LogInv
  <2>3. a \o b \in Seq(Row) /\ NoDup(a \o b)
    BY <1>1, <2>2, PutBehind
  <2>4. Behind(a \o b, ghost[session].post, b)
    BY <1>1, <1>3, <2>2, <2>3, Joined
  <2>5. \A n : Absent(a, n) /\ Absent(b, n) => Absent(a \o b, n)
    BY <1>1, Halves
  <2>6. past[session].known => past[session].rows = a \o b
    BY <1>1, <1>3 DEF PastInv
  <2> HIDE DEF a, b
  <2>7. \A n : Fresh(n) => Fresh(n)'
    BY <1>1, <1>2, <2>1, <2>5 DEF Fresh, a, b
  <2>8. FreshInv'
    BY <1>1, <1>2, <2>7 DEF FreshInv
  <2>9. LogInv' /\ PastInv'
    BY <1>1, <1>2, <2>1 DEF LogInv, PastInv
  <2>10. RewindInv' /\ RestoreInv'
    BY <1>2, <2>1, <2>3, <2>4, <2>6 DEF RewindInv, RestoreInv, b
  <2> QED
    BY <2>8, <2>9, <2>10 DEF StoreInv
<1>4. CASE Cardinality(Users(log[session])) # ghost[session].post
  <2>1. ghost' = [ghost EXCEPT ![session] = NoGhost] /\ ui' = ui
    BY <1>4 DEF Restore
  <2>2. ghost'[session] = NoGhost /\ \A s \in Session : s # session => ghost'[s] = ghost[s]
    BY <1>1, <2>1 DEF Types
  <2>3. NoGhost.rows = <<>> /\ \A n : Absent(<<>>, n)
    BY DEF NoGhost, Absent
  <2>4. \A n : Fresh(n) => Fresh(n)'
    BY <1>1, <1>2, <2>1, <2>2, <2>3 DEF Fresh
  <2>5. FreshInv'
    BY <1>1, <1>2, <2>4 DEF FreshInv
  <2>6. NoDup(<<>>) /\ \A rows, post : Behind(rows, post, <<>>)
    BY DEF NoDup, Behind
  <2>7. LogInv' /\ PastInv'
    BY <1>1, <1>2, <2>2, <2>3, <2>6 DEF LogInv, PastInv
  <2>8. RewindInv' /\ RestoreInv'
    BY <1>1, <2>1 DEF RewindInv, RestoreInv
  <2> QED
    BY <2>5, <2>7, <2>8 DEF StoreInv
<1> QED
  BY <1>3, <1>4

LEMMA PutBackStep ==
    ASSUME StoreInv, Types', PutBack
    PROVE  StoreInv'
<1>1. /\ Types /\ FreshInv /\ LogInv /\ RestoreInv /\ PastInv
      /\ session \in Session /\ ui.at = "restore"
  BY TypedParts DEF StoreInv, Types, PutBack
<1>2. /\ UNCHANGED <<ghost, session, owed, used>> /\ ui' = [at |-> "clear"]
      /\ log' = [log EXCEPT ![session] = ui.rows]
      /\ past' = [past EXCEPT ![session] = [known |-> FALSE, rows |-> <<>>]]
  BY DEF PutBack, Forget
<1>3. /\ log'[session] = ui.rows /\ ~past'[session].known
      /\ \A s \in Session : s # session => log'[s] = log[s] /\ past'[s] = past[s]
  BY <1>1, <1>2 DEF Types
<1>4. NoDup(ui.rows) /\ Behind(ui.rows, ghost[session].post, ghost[session].rows)
  BY <1>1 DEF RestoreInv
<1>5. \A n : Fresh(n) => Fresh(n)'
  BY <1>1, <1>2, <1>3 DEF Fresh
<1>6. FreshInv'
  BY <1>1, <1>2, <1>5 DEF FreshInv
<1>7. LogInv'
  <2> SUFFICES ASSUME NEW s \in Session
               PROVE  /\ NoDup(log'[s]) /\ NoDup(ghost[s].rows)
                      /\ Behind(log'[s], ghost[s].post, ghost[s].rows)
                      /\ s > used.sessions => ghost[s] = NoGhost /\ ~past'[s].known
                      /\ ghost[s] # NoGhost => ghost[s].rows # <<>> /\ ghost[s].rows[1].user
    BY <1>2 DEF LogInv
  <2>1. CASE s = session
    BY <1>1, <1>3, <1>4, <2>1 DEF LogInv
  <2>2. CASE s # session
    BY <1>1, <1>3, <2>2 DEF LogInv
  <2> QED
    BY <2>1, <2>2
<1>8. PastInv'
  <2> SUFFICES ASSUME NEW s \in Session, past'[s].known, ghost[s] # NoGhost,
                      Cardinality(Users(log'[s])) = ghost[s].post
               PROVE  past'[s].rows = log'[s] \o ghost[s].rows
    BY <1>2 DEF PastInv
  <2>1. s # session
    BY <1>3
  <2> QED
    BY <1>1, <1>3, <2>1 DEF PastInv
<1>9. RewindInv' /\ RestoreInv'
  BY <1>2 DEF RewindInv, RestoreInv
<1> QED
  BY <1>6, <1>7, <1>8, <1>9 DEF StoreInv

LEMMA ClearStep ==
    ASSUME StoreInv, Types', Clear
    PROVE  StoreInv'
<1>1. Types /\ FreshInv /\ LogInv /\ PastInv /\ session \in Session /\ ui.at = "clear"
  BY TypedParts DEF StoreInv, Types, Clear
<1>2. /\ UNCHANGED <<log, session, owed, used, past>> /\ ui' = [at |-> "refresh"]
      /\ ghost' = [ghost EXCEPT ![session] = NoGhost]
  BY DEF Clear
<1>3. ghost'[session] = NoGhost /\ \A s \in Session : s # session => ghost'[s] = ghost[s]
  BY <1>1, <1>2 DEF Types
<1>4. /\ NoGhost.rows = <<>> /\ NoDup(<<>>)
      /\ \A n : Absent(<<>>, n)
      /\ \A rows, post : Behind(rows, post, <<>>)
  BY DEF NoGhost, Absent, NoDup, Behind
<1>5. \A n : Fresh(n) => Fresh(n)'
  BY <1>1, <1>2, <1>3, <1>4 DEF Fresh
<1>6. FreshInv'
  BY <1>1, <1>2, <1>5 DEF FreshInv
<1>7. LogInv'
  <2> SUFFICES ASSUME NEW s \in Session
               PROVE  /\ NoDup(log[s]) /\ NoDup(ghost'[s].rows)
                      /\ Behind(log[s], ghost'[s].post, ghost'[s].rows)
                      /\ s > used.sessions => ghost'[s] = NoGhost /\ ~past[s].known
                      /\ ghost'[s] # NoGhost => ghost'[s].rows # <<>> /\ ghost'[s].rows[1].user
    BY <1>2 DEF LogInv
  <2>1. CASE s = session
    BY <1>1, <1>3, <1>4, <2>1 DEF LogInv
  <2>2. CASE s # session
    BY <1>1, <1>3, <2>2 DEF LogInv
  <2> QED
    BY <2>1, <2>2
<1>8. PastInv'
  <2> SUFFICES ASSUME NEW s \in Session, past[s].known, ghost'[s] # NoGhost,
                      Cardinality(Users(log[s])) = ghost'[s].post
               PROVE  past[s].rows = log[s] \o ghost'[s].rows
    BY <1>2 DEF PastInv
  <2>1. s # session
    BY <1>3
  <2> QED
    BY <1>1, <1>3, <2>1 DEF PastInv
<1>9. RewindInv' /\ RestoreInv'
  BY <1>2 DEF RewindInv, RestoreInv
<1> QED
  BY <1>6, <1>7, <1>8, <1>9 DEF StoreInv

-----------------------------------------------------------------------------
(* The theorems                                                             *)

LEMMA StoreStart == Init => StoreInv
<1> SUFFICES ASSUME Init PROVE StoreInv
  OBVIOUS
<1>1. MaxRows \in Nat /\ MaxSessions \in Nat \ {0}
  BY SessionStoreAssumption DEF SessionStoreAssumption
<1>2. <<>> \in Seq(Row) /\ NoGhost.rows = <<>> /\ NoGhost \in [post : -1..MaxRows, rows : Seq(Row)]
  BY <1>1 DEF NoGhost
<1>3. Types
  <2>1. 1 \in Session /\ 1 \in 1..1 /\ 0 \in 0..MaxRows
    BY <1>1 DEF Session
  <2>2. used \in Counts /\ used.sessions = 1
    BY <2>1 DEF Init, Counts
  <2>3. ui \in UiStates
    BY DEF Init, UiStates, Plain, Resting
  <2> QED
    BY <1>2, <2>1, <2>2, <2>3 DEF Init, Types
<1>4. \A n : Absent(<<>>, n) /\ NoDup(<<>>)
  BY DEF Absent, NoDup
<1>5. ui.at = "idle"
  BY DEF Init, Resting
<1>6. FreshInv
  <2>1. \A n : Fresh(n)
    BY <1>2, <1>4, <1>5 DEF Init, Fresh
  <2>2. owed.id = 0 /\ used.rows = 0
    BY DEF Init, NoRow
  <2> QED
    BY <2>1, <2>2 DEF FreshInv
<1>7. LogInv
  BY <1>2, <1>4 DEF Init, LogInv, Behind
<1>8. RewindInv /\ RestoreInv /\ PastInv
  BY <1>5 DEF Init, RewindInv, RestoreInv, PastInv
<1> QED
  BY <1>3, <1>6, <1>7, <1>8 DEF StoreInv

LEMMA StoreStep == StoreInv /\ [Next]_vars => StoreInv'
<1> SUFFICES ASSUME StoreInv, [Next]_vars PROVE StoreInv'
  OBVIOUS
<1>1. Types'
  BY TypesStep
<1>2. CASE UNCHANGED vars
  <2>1. \A n : Fresh(n) => Fresh(n)'
    BY <1>2 DEF vars, Fresh
  <2> QED
    BY <1>1, <1>2, <2>1
    DEF vars, StoreInv, FreshInv, LogInv, RewindInv, RestoreInv, PastInv
<1>3. CASE Next
  BY <1>1, <1>3, QuietSteps, LogSteps, ForkStep, RewindStep, SaveGhostStep, ReplaceStep,
     RestoreStep, PutBackStep, ClearStep DEF Next
<1> QED
  BY <1>2, <1>3

(* What the tables, the agent and the UI thread hold is of its type: in     *)
(* particular a rewind never counts more user rows than there are ids.      *)
THEOREM StoreTypes == Spec => []TypeOK
<1>1. StoreInv => TypeOK
  <2> SUFFICES ASSUME StoreInv PROVE TypeOK
    OBVIOUS
  <2>1. Types /\ used \in Counts /\ last \in Session
    <3>1. Types /\ used \in Counts
      BY DEF StoreInv, Types
    <3>2. used.sessions \in Session /\ last \in 1..used.sessions
      BY <3>1 DEF Types, Counts
    <3>3. MaxSessions \in Nat
      BY SessionStoreAssumption DEF SessionStoreAssumption
    <3>4. last \in Session
      BY <3>2, <3>3 DEF Session
    <3> QED
      BY <3>1, <3>4
  <2>2. ui.at \in {"idle", "load", "remember", "ghost", "replace", "restore", "clear",
                   "refresh"}
    BY <2>1, UiParts DEF Types, Plain
  <2> QED
    BY <2>1, <2>2 DEF Types, TypeOK, Counts
<1> QED
  BY <1>1, StoreStart, StoreStep, PTL DEF Spec

(* NoCopies, for all values of the constants: however rewinds, restores,    *)
(* forks, turns, reports, refused transactions and crashes follow one       *)
(* another, no row is in a log twice (rewind_session, restore_rewind).      *)
THEOREM StoreNoCopies == Spec => []NoCopies
<1>1. StoreInv => NoCopies
  BY DEF StoreInv, LogInv, NoDup, NoCopies
<1> QED
  BY <1>1, StoreStart, StoreStep, PTL DEF Spec

(* RestoreUndoes, for all values of the constants: with nothing written to  *)
(* the session since its rewind, a restore makes its log what it was        *)
(* (restore_rewind).                                                        *)
THEOREM StoreRestoreUndoes == Spec => RestoreUndoes
<1>1. StoreInv /\ [Next]_vars
        => [PutBack /\ past[session].known => log'[session] = past[session].rows]_vars
  <2> SUFFICES ASSUME StoreInv, PutBack, past[session].known
               PROVE  log'[session] = past[session].rows
    OBVIOUS
  <2>1. ui.at = "restore" /\ log' = [log EXCEPT ![session] = ui.rows]
    BY DEF PutBack
  <2>2. ui.rows = past[session].rows
    BY <2>1 DEF StoreInv, RestoreInv
  <2>3. log'[session] = ui.rows
    BY <2>1, TypedParts DEF StoreInv, Types
  <2> QED
    BY <2>2, <2>3
<1> QED
  BY <1>1, StoreStart, StoreStep, PTL DEF Spec, RestoreUndoes

-----------------------------------------------------------------------------
(* Memory and log                                                           *)

(* The row on its way to the log is at most the last one in memory, and no  *)
(* row in memory has the next id.                                           *)
OwedInv ==
    /\ \A i \in DOMAIN history : history[i].id <= used.rows
    /\ \A i \in DOMAIN history :
          history[i].id = owed.id => i = Len(history) /\ history[i] = owed

MemoryInv == OwedInv /\ MemoryInLog

(* Fewer rows, with a log that has grown at its end.                        *)
LEMMA EmbeddedGrows ==
    ASSUME NEW rows, NEW some, NEW all \in Seq(Row), NEW row \in Row,
           Embedded(rows, some, all)
    PROVE  Embedded(rows, some, Append(all, row))
<1>1. PICK at \in [some -> DOMAIN all] :
         /\ \A i \in some : all[at[i]] = rows[i]
         /\ \A i, j \in some : i < j => at[i] < at[j]
  BY DEF Embedded
<1>2. /\ DOMAIN all \subseteq DOMAIN Append(all, row)
      /\ \A k \in DOMAIN all : Append(all, row)[k] = all[k]
  OBVIOUS
<1> DEFINE more == Append(all, row)
<1> HIDE DEF more
<1>3. at \in [some -> DOMAIN more]
  BY <1>1, <1>2 DEF more
<1>4. \A i \in some : more[at[i]] = rows[i]
  BY <1>1, <1>2 DEF more
<1> QED
  BY <1>1, <1>3, <1>4 DEF Embedded, more

(* What is loaded is in the log as it stands.                               *)
LEMMA LoadedEmbedded ==
    ASSUME log \in [Session -> Seq(Row)], NEW s \in Session,
           NEW some \in SUBSET DOMAIN Loaded(s)
    PROVE  Embedded(Loaded(s), some, log[s])
<1> DEFINE k == IF Len(log[s]) < RowLimit THEN Len(log[s]) ELSE RowLimit
           rows == Loaded(s)
           all == log[s]
<1>1. all \in Seq(Row) /\ k \in 0..Len(all)
  BY SessionStoreAssumption DEF SessionStoreAssumption
<1>2. rows = SubSeq(all, 1, k)
  BY DEF Loaded
<1> HIDE DEF k, all
<1>3. /\ DOMAIN rows = 1..k /\ 1..k \subseteq DOMAIN all
      /\ \A i \in 1..k : all[i] = rows[i]
  BY <1>1, <1>2
<1>4. some \subseteq 1..k
  BY <1>3
<1> HIDE DEF rows
<1> DEFINE at == [i \in some |-> i]
<1>5. at \in [some -> DOMAIN all]
  BY <1>3, <1>4
<1>6. \A i \in some : all[at[i]] = rows[i]
  BY <1>3, <1>4
<1>7. \A i, j \in some : i < j => at[i] < at[j]
  OBVIOUS
<1> HIDE DEF at
<1>8. Embedded(rows, some, all)
  BY <1>5, <1>6, <1>7 DEF Embedded
<1> QED
  BY <1>8 DEF rows, all

(* Rows as they are loaded: none is the one on its way, none is the next.   *)
LEMMA LoadedOwed ==
    ASSUME StoreInv, NEW s \in Session, history' = Loaded(s),
           owed' = owed \/ owed' = NoRow, used'.rows = used.rows
    PROVE  OwedInv'
<1>1. Types /\ FreshInv
  BY DEF StoreInv
<1>2. log[s] \in Seq(Row) /\ used.rows \in Nat /\ Fresh(0)
  BY <1>1, TypedParts DEF Types
<1>3. (IF Len(log[s]) < RowLimit THEN Len(log[s]) ELSE RowLimit) \in 0..Len(log[s])
  BY <1>2, SessionStoreAssumption DEF SessionStoreAssumption
<1>4. history' \in Seq(Row) /\ \A n : Absent(log[s], n) => Absent(history', n)
  BY <1>2, <1>3, Prefix DEF Loaded
<1>5. \A n : Fresh(n) => Absent(history', n)
  BY <1>4 DEF Fresh
<1>6. Absent(history', owed'.id)
  BY <1>1, <1>2, <1>5, NoRowIsFar DEF FreshInv
<1>7. ASSUME NEW i \in DOMAIN history'
      PROVE  history'[i].id <= used.rows
  <2>1. history'[i].id \in Nat
    <3>1. history'[i] \in Row
      BY <1>4
    <3>2. history'[i].id \in 1..MaxRows
      BY <3>1, NoRowIsFar
    <3> QED
      BY <1>1, <3>2, TypedParts
  <2>2. ~(history'[i].id > used.rows)
    BY <1>1, <1>5, <2>1 DEF FreshInv, Absent
  <2> QED
    BY <1>2, <2>1, <2>2
<1> QED
  BY <1>6, <1>7 DEF OwedInv, Absent

(* Neither memory nor the log changes, nor which rows are settled.          *)
LEMMA MemoryStays ==
    ASSUME MemoryInv, UNCHANGED <<log, session, history, owed, refused>>,
           used'.rows = used.rows, stale' = stale \/ stale',
           \/ ui' = ui
           \/ stale'
           \/ ui'.at \in {"load", "refresh", "clear"}
           \/ ui.at \notin {"load", "refresh", "clear"}
    PROVE  MemoryInv'
<1>1. Settled' = Settled
  BY DEF Settled
<1> QED
  BY <1>1 DEF MemoryInv, OwedInv, MemoryInLog

(* The turn's own steps.                                                    *)
LEMMA SayKeepsMemory == StoreInv /\ MemoryInv /\ Say => MemoryInv'
<1> SUFFICES ASSUME StoreInv, MemoryInv, Say PROVE MemoryInv'
  OBVIOUS
<1>1. PICK user \in BOOLEAN :
         /\ history' = Append(history, [id |-> used.rows + 1, user |-> user])
         /\ owed' = [id |-> used.rows + 1, user |-> user]
  BY DEF Say
<1>2. /\ history \in Seq(Row) /\ used \in Counts /\ used.rows \in Nat
      /\ owed = NoRow /\ used'.rows = used.rows + 1 /\ UNCHANGED <<log, session, ui, refused, stale>>
  BY TypedParts DEF StoreInv, Types, Say, Counts
<1>3. /\ DOMAIN history = 1..Len(history) /\ Len(history) \in Nat
      /\ DOMAIN history' = 1..(Len(history) + 1) /\ Len(history') = Len(history) + 1
      /\ \A i \in 1..Len(history) : history'[i] = history[i]
      /\ history'[Len(history) + 1] = owed'
  BY <1>1, <1>2
<1>4. \A i \in DOMAIN history : /\ history[i].id \in Nat /\ history[i].id # 0
                                /\ history[i].id <= used.rows
  <2>1. \A i \in DOMAIN history : history[i] \in Row
    BY <1>2
  <2>2. \A i \in DOMAIN history : history[i].id \in 1..MaxRows /\ MaxRows \in Nat
    BY <2>1, NoRowIsFar, SessionStoreAssumption DEF SessionStoreAssumption
  <2> QED
    BY <2>2 DEF MemoryInv, OwedInv
<1>5. owed'.id = used.rows + 1 /\ owed.id = 0
  BY <1>1, <1>2, NoRowIsFar
<1>6. OwedInv'
  <2> SUFFICES ASSUME NEW i \in 1..(Len(history) + 1)
               PROVE  /\ history'[i].id <= used.rows + 1
                      /\ history'[i].id = owed'.id
                            => i = Len(history) + 1 /\ history'[i] = owed'
    BY <1>2, <1>3 DEF OwedInv
  <2>1. CASE i = Len(history) + 1
    BY <1>2, <1>3, <1>5, <2>1
  <2>2. CASE i # Len(history) + 1
    <3>1. i \in DOMAIN history /\ history'[i] = history[i]
      BY <1>3, <2>2
    <3>2. history[i].id \in Nat /\ history[i].id <= used.rows
      BY <1>4, <3>1
    <3> QED
      BY <1>2, <1>5, <3>1, <3>2
  <2> QED
    BY <2>1, <2>2
<1>7. Settled' = Settled
  BY <1>2, <1>3, <1>4, <1>5 DEF Settled
<1>8. \A i \in Settled : history'[i] = history[i]
  BY <1>3 DEF Settled
<1>9. MemoryInLog'
  BY <1>2, <1>7, <1>8 DEF MemoryInv, MemoryInLog, Embedded
<1> QED
  BY <1>6, <1>9 DEF MemoryInv

LEMMA PersistKeepsMemory == StoreInv /\ MemoryInv /\ Persist => MemoryInv'
<1> SUFFICES ASSUME StoreInv, MemoryInv, Persist PROVE MemoryInv'
  OBVIOUS
<1> DEFINE all == log[session]
<1>1. /\ history \in Seq(Row) /\ owed \in Row /\ owed' = NoRow /\ session \in Session
      /\ all \in Seq(Row) /\ log'[session] = Append(all, owed)
      /\ UNCHANGED <<session, history, ui, refused, used, stale>>
  BY TypedParts DEF StoreInv, Types, Persist, Log
<1>2. \A i \in DOMAIN history : history[i].id # 0
  <2>1. \A i \in DOMAIN history : history[i] \in Row
    BY <1>1
  <2>2. MaxRows \in Nat
    BY SessionStoreAssumption DEF SessionStoreAssumption
  <2> QED
    BY <2>1, <2>2, NoRowIsFar
<1>3. OwedInv'
  BY <1>1, <1>2, NoRowIsFar DEF MemoryInv, OwedInv
<1>4. Settled' = {i \in DOMAIN history : history[i].id \notin refused}
  BY <1>1, <1>2, NoRowIsFar DEF Settled
<1> DEFINE more == Append(all, owed)
           n == Len(all) + 1
<1>5. /\ DOMAIN all \subseteq DOMAIN more /\ n \in DOMAIN more /\ more[n] = owed
      /\ \A k \in DOMAIN all : more[k] = all[k] /\ k < n
  BY <1>1
<1>6. log'[session'] = more
  BY <1>1
<1> HIDE DEF all, more, n
<1>7. ASSUME ~stale, ui.at \notin {"load", "refresh", "clear"}
      PROVE  Embedded(history, Settled', more)
  <2>1. PICK at \in [Settled -> DOMAIN all] :
           /\ \A i \in Settled : all[at[i]] = history[i]
           /\ \A i, j \in Settled : i < j => at[i] < at[j]
    BY <1>7 DEF MemoryInv, MemoryInLog, Embedded, all
  <2>2. \A i \in Settled' : i \in Settled \/ (history[i] = owed /\ i = Len(history))
    BY <1>4 DEF MemoryInv, OwedInv, Settled
  <2>3. \A i \in Settled' : i \in 1..Len(history)
    BY <1>1, <1>4
  <2> DEFINE to == [i \in Settled' |-> IF i \in Settled THEN at[i] ELSE n]
  <2>4. to \in [Settled' -> DOMAIN more]
    BY <1>5, <2>1
  <2>5. \A i \in Settled' : more[to[i]] = history[i]
    BY <1>5, <2>1, <2>2
  <2>6. ASSUME NEW i \in Settled', NEW j \in Settled', i < j
        PROVE  to[i] < to[j]
    <3>1. i \in Settled
      BY <1>1, <2>2, <2>3, <2>6
    <3>2. CASE j \in Settled
      BY <2>1, <2>6, <3>1, <3>2
    <3>3. CASE j \notin Settled
      BY <1>5, <2>1, <3>1, <3>3
    <3> QED
      BY <3>2, <3>3
  <2> HIDE DEF to
  <2> QED
    BY <2>4, <2>5, <2>6 DEF Embedded
<1>8. MemoryInLog'
  BY <1>1, <1>6, <1>7 DEF MemoryInLog
<1> QED
  BY <1>3, <1>8 DEF MemoryInv

LEMMA PersistFailsKeepsMemory == StoreInv /\ MemoryInv /\ PersistFails => MemoryInv'
<1> SUFFICES ASSUME StoreInv, MemoryInv, PersistFails PROVE MemoryInv'
  OBVIOUS
<1>1. /\ history \in Seq(Row) /\ owed' = NoRow /\ refused' = refused \cup {owed.id}
      /\ UNCHANGED <<log, session, history, ui, stale>> /\ used'.rows = used.rows
  BY DEF StoreInv, Types, Counts, PersistFails, Refuse
<1>2. \A i \in DOMAIN history : history[i].id # 0
  <2>1. \A i \in DOMAIN history : history[i] \in Row
    BY <1>1
  <2>2. MaxRows \in Nat
    BY SessionStoreAssumption DEF SessionStoreAssumption
  <2> QED
    BY <2>1, <2>2, NoRowIsFar
<1>3. OwedInv'
  BY <1>1, <1>2, NoRowIsFar DEF MemoryInv, OwedInv
<1>4. Settled' = Settled
  BY <1>1, <1>2, NoRowIsFar DEF Settled
<1>5. MemoryInLog'
  BY <1>1, <1>4 DEF MemoryInv, MemoryInLog
<1> QED
  BY <1>3, <1>5 DEF MemoryInv

LEMMA ReportKeepsMemory == StoreInv /\ MemoryInv /\ Report => MemoryInv'
<1> SUFFICES ASSUME StoreInv, MemoryInv, Report PROVE MemoryInv'
  OBVIOUS
<1> DEFINE row == [id |-> used.rows + 1, user |-> FALSE]
<1>1. /\ history \in Seq(Row) /\ used \in Counts /\ used.rows \in Nat /\ used.rows < MaxRows
      /\ MaxRows \in Nat /\ session \in Session /\ log[session] \in Seq(Row)
      /\ log' = [log EXCEPT ![session] = Append(log[session], row)]
      /\ log \in [Session -> Seq(Row)]
      /\ UNCHANGED <<session, history, owed, ui, refused, stale>>
      /\ used' = [used EXCEPT !.rows = used.rows + 1, !.reports = used.reports + 1]
  BY TypedParts DEF StoreInv, Types, Report, Log
<1>2. used'.rows = used.rows + 1
  BY <1>1 DEF Counts
<1>3. row \in Row
  BY <1>1 DEF Row
<1>4. \A i \in DOMAIN history : history[i].id \in Nat
  <2>1. \A i \in DOMAIN history : history[i] \in Row
    BY <1>1
  <2> QED
    BY <1>1, <2>1, NoRowIsFar
<1>5. OwedInv'
  BY <1>1, <1>2, <1>4 DEF MemoryInv, OwedInv
<1>6. Settled' = Settled
  BY <1>1 DEF Settled
<1>7. log'[session] = Append(log[session], row)
  BY <1>1
<1> HIDE DEF row
<1>8. ASSUME ~stale, ui.at \notin {"load", "refresh", "clear"}
      PROVE  Embedded(history, Settled, log'[session])
  <2>1. Embedded(history, Settled, log[session])
    BY <1>8 DEF MemoryInv, MemoryInLog
  <2> QED
    BY <1>1, <1>3, <1>7, <2>1, EmbeddedGrows
<1>9. MemoryInLog'
  BY <1>1, <1>6, <1>8 DEF MemoryInLog
<1> QED
  BY <1>5, <1>9 DEF MemoryInv

(* The steps that read memory anew, and those after which it is to be.      *)
LEMMA LoadingKeepsMemory ==
    StoreInv /\ MemoryInv /\ (New \/ Load \/ ReadFails \/ Refresh \/ Restart) => MemoryInv'
<1> SUFFICES ASSUME StoreInv, MemoryInv, New \/ Load \/ ReadFails \/ Refresh \/ Restart
             PROVE  MemoryInv'
  OBVIOUS
<1>1. /\ log \in [Session -> Seq(Row)] /\ session \in Session /\ used \in Counts
      /\ UNCHANGED refused
  BY TypedParts DEF StoreInv, Types, New, Load, ReadFails, Refresh, Restart
<1>2. ASSUME NEW s \in Session, history' = Loaded(s), session' = s, UNCHANGED log,
             owed' = owed \/ owed' = NoRow, used'.rows = used.rows
      PROVE  MemoryInv'
  <2>1. OwedInv'
    BY <1>2, LoadedOwed
  <2>2. Settled' \subseteq DOMAIN Loaded(s)
    BY <1>2 DEF Settled
  <2>3. Embedded(Loaded(s), Settled', log[s])
    BY <1>1, <2>2, LoadedEmbedded
  <2> QED
    BY <1>2, <2>1, <2>3 DEF MemoryInv, MemoryInLog
<1>3. CASE New
  <2>1. history' = <<>> /\ DOMAIN history' = {}
    BY <1>3 DEF New
  <2>2. Settled' = {}
    BY <2>1 DEF Settled
  <2>3. \A all : Embedded(<<>>, {}, all)
    <3> SUFFICES ASSUME NEW all PROVE Embedded(<<>>, {}, all)
      OBVIOUS
    <3>1. [i \in {} |-> i] \in [{} -> DOMAIN all]
      OBVIOUS
    <3> QED
      BY <3>1 DEF Embedded
  <2> QED
    BY <2>1, <2>2, <2>3 DEF MemoryInv, OwedInv, MemoryInLog
<1>4. CASE Load \/ Refresh
  BY <1>1, <1>2, <1>4 DEF Load, Refresh
<1>5. CASE Restart
  <2>1. history' = Loaded(session') /\ owed' = NoRow /\ UNCHANGED log
    BY <1>5 DEF Restart
  <2>2. used'.rows = used.rows
    BY <1>1, <1>5 DEF Restart, Counts
  <2>3. session' \in Session
    <3>1. used.sessions \in 1..MaxSessions /\ MaxSessions \in Nat
      BY <1>1, SessionStoreAssumption DEF Counts, Session, SessionStoreAssumption
    <3>2. last \in 1..used.sessions
      BY DEF StoreInv, Types
    <3> QED
      BY <1>5, <3>1, <3>2 DEF Restart, Session
  <2> QED
    BY <1>2, <2>1, <2>2, <2>3
<1>6. CASE ReadFails
  <2>1. /\ UNCHANGED <<log, session, owed, refused>> /\ used'.rows = used.rows
        /\ \/ history' = Loaded(session)
           \/ history' = history /\ stale'
    BY <1>1, <1>6 DEF ReadFails, Refuse, Counts
  <2>2. CASE history' = Loaded(session)
    BY <1>1, <1>2, <2>1, <2>2
  <2>3. CASE history' = history /\ stale'
    BY <2>1, <2>3, MemoryStays
  <2> QED
    BY <2>1, <2>2, <2>3
<1> QED
  BY <1>3, <1>4, <1>5, <1>6

LEMMA AwayKeepsMemory ==
    ASSUME StoreInv, MemoryInv, Switch \/ Fork \/ Replace \/ PutBack
    PROVE  MemoryInv'
<1>1. ui'.at \in {"load", "refresh", "clear"} /\ UNCHANGED <<history, owed, refused>>
  <2>1. CASE Switch \/ Fork
    BY <2>1 DEF Switch, Fork
  <2>2. CASE Replace
    BY <2>2, Zenon DEF Replace
  <2>3. CASE PutBack
    BY <2>3 DEF PutBack
  <2> QED
    BY <2>1, <2>2, <2>3
<1>2. used'.rows = used.rows
  BY DEF StoreInv, Types, Counts, Switch, Command, Fork, Replace, PutBack
<1> QED
  BY <1>1, <1>2 DEF MemoryInv, OwedInv, MemoryInLog

LEMMA OthersKeepMemory ==
    ASSUME StoreInv, MemoryInv,
           \/ Submit \/ Activate \/ EndTurn \/ Finalize \/ Remember \/ MetaFails
           \/ Rewind \/ SaveGhost \/ ReplaceFails \/ Restore \/ Clear
    PROVE  MemoryInv'
<1>1. UNCHANGED <<log, session, history, owed, refused>>
  BY DEF Submit, Activate, EndTurn, Finalize, Remember, MetaFails, Rewind, SaveGhost,
         ReplaceFails, Restore, Clear
<1>2. used'.rows = used.rows
  BY DEF StoreInv, Types, Counts, Submit, Activate, EndTurn, Finalize, Remember,
         MetaFails, Rewind, Command, SaveGhost, ReplaceFails, Refuse, Restore, Clear
<1>4. stale' = stale \/ stale'
  <2>1. CASE MetaFails
    <3>1. stale' = (stale \/ ui.at = "clear") /\ stale \in BOOLEAN
      BY <2>1 DEF MetaFails, StoreInv, Types
    <3> QED
      BY <3>1
  <2>2. CASE ~MetaFails
    BY <2>2 DEF Submit, Activate, EndTurn, Finalize, Remember, Rewind, SaveGhost,
         ReplaceFails, Restore, Clear
  <2> QED
    BY <2>1, <2>2
<1>3. \/ ui' = ui
      \/ stale'
      \/ ui'.at \in {"load", "refresh", "clear"}
      \/ ui.at \notin {"load", "refresh", "clear"}
  <2>1. CASE Submit \/ Activate \/ EndTurn \/ Finalize
    BY <2>1 DEF Submit, Activate, EndTurn, Finalize
  <2>2. CASE Remember \/ SaveGhost \/ ReplaceFails
    <3>1. ui.at \notin {"load", "refresh", "clear"}
      BY <2>2 DEF Remember, SaveGhost, ReplaceFails
    <3> QED
      BY <3>1
  <2>3. CASE Rewind \/ Restore
    <3>1. ui = Resting
      BY <2>3 DEF Rewind, Restore, Command
    <3> QED
      BY <3>1 DEF Resting
  <2>4. CASE Clear
    BY <2>4 DEF Clear
  <2>5. CASE MetaFails
    <3>1. ui.at = "clear" => stale'
      BY <2>5 DEF MetaFails
    <3>2. ui.at \in {"remember", "clear"}
      BY <2>5 DEF MetaFails
    <3> QED
      BY <3>1, <3>2
  <2> QED
    BY <2>1, <2>2, <2>3, <2>4, <2>5
<1> QED
  BY <1>1, <1>2, <1>3, <1>4, MemoryStays

(* MemoryInLog, for all values of the constants: with turns, reports, loads, *)
(* forks and rewinds between one another's steps, refused reads and writes  *)
(* and crashes, what the agent works from was persisted in that order, but  *)
(* for refused rows and until a read that failed is made good               *)
(* (_switch_session, _refresh_history_cache, log_message).                  *)
THEOREM StoreMemoryInLog == Spec => []MemoryInLog
<1>1. Init => MemoryInv
  <2> SUFFICES ASSUME Init PROVE MemoryInv
    OBVIOUS
  <2>1. history = <<>> /\ DOMAIN history = {}
    BY DEF Init
  <2>2. Settled = {}
    BY <2>1 DEF Settled
  <2>3. [i \in {} |-> i] \in [{} -> DOMAIN log[session]]
    OBVIOUS
  <2>4. Embedded(history, {}, log[session])
    BY <2>3 DEF Embedded
  <2> QED
    BY <2>1, <2>2, <2>4 DEF MemoryInv, OwedInv, MemoryInLog
<1>2. StoreInv /\ MemoryInv /\ [Next]_vars => MemoryInv'
  <2> SUFFICES ASSUME StoreInv, MemoryInv, [Next]_vars PROVE MemoryInv'
    OBVIOUS
  <2>1. CASE UNCHANGED vars
    BY <2>1, MemoryStays DEF vars
  <2>2. CASE Next
    BY <2>2, SayKeepsMemory, PersistKeepsMemory, PersistFailsKeepsMemory, ReportKeepsMemory,
       LoadingKeepsMemory, AwayKeepsMemory, OthersKeepMemory DEF Next
  <2> QED
    BY <2>1, <2>2
<1>3. MemoryInv => MemoryInLog
  BY DEF MemoryInv
<1> QED
  BY <1>1, <1>2, <1>3, StoreStart, StoreStep, PTL DEF Spec

-----------------------------------------------------------------------------
(* The other tables of the database: the lessons and the audit of their     *)
(* rounds.                                                                  *)

(* What a thread or the rollback writes to the audit is numbered by what is *)
(* in it: a number is never more than the rows there are, but for the round *)
(* whose row is still to come, which is above every round row of its own    *)
(* session, but for those of rounds that ran beside it because two threads  *)
(* had seen the flag down.  Otherwise one thread at most runs a round.      *)
AuditTypes ==
    /\ \E S : audit \in Seq(S)
    /\ \A i \in DOMAIN audit : audit[i].num \in 1..Len(audit)
RoundTypes ==
    /\ DOMAIN round = Threads
    /\ \A t \in Threads : DOMAIN round[t] = DOMAIN Idle
UndoTypes ==
    undo.at = "idle" \/
        /\ DOMAIN undo = {"at", "sess", "row", "num", "snaps", "todo", "drop"}
        /\ undo.num \in 1..Len(audit) /\ undo.row \in DOMAIN audit
OneRound ==
    /\ doubled \in BOOLEAN
    /\ ~doubled => \A t \in Threads : /\ Works(t) => running /\ ~Beside(t)
                                      /\ round[t].at = "look" /\ ~round[t].beaten
                                         => \A u \in Threads : ~Works(u)
Numbered ==
    \A t \in Threads :
        /\ round[t].at = "apply" =>
              /\ round[t].num \in 1..(Len(audit) + 1)
              /\ round[t].read \in 0..Len(audit)
              /\ \A i \in DOMAIN audit :
                    /\ audit[i].action = "round" /\ audit[i].sess = round[t].sess
                    /\ round[t].num <= audit[i].num
                    => round[t].read < i /\ doubled /\ audit[i].doubled
        /\ round[t].at = "edits" => round[t].num \in 1..Len(audit)
RefineInv ==
    /\ AuditTypes /\ RoundTypes /\ UndoTypes /\ OneRound /\ Numbered
    /\ RoundsNumbered

(* A finite set of integers with a member has a least and a largest one.    *)
LEMMA Least ==
    ASSUME NEW T \in SUBSET Int, IsFiniteSet(T), T # {}
    PROVE  \E n \in T : \A m \in T : n <= m
<1> DEFINE Small(n) == {m \in T : m <= n}
           F == {Small(n) : n \in T}
<1>1. ASSUME NEW n \in T PROVE Small(n) \in FiniteSubsetsOf(T)
  <2>1. IsFiniteSet(Small(n))
    BY FS_Subset
  <2> QED
    BY <2>1 DEF FiniteSubsetsOf
<1>2. F \subseteq FiniteSubsetsOf(T) /\ F # {}
  BY <1>1
<1>3. IsWellFoundedOn(StrictSubsetOrdering(T), FiniteSubsetsOf(T))
  BY FS_StrictSubsetOrderingWellFounded
<1> HIDE DEF F
<1>4. PICK X \in F : \A Y \in F : ~(<<Y, X>> \in StrictSubsetOrdering(T))
  BY <1>2, <1>3, WFMin
<1>5. PICK n \in T : X = Small(n)
  BY <1>4 DEF F
<1>6. ASSUME NEW m \in T, m < n
      PROVE  FALSE
  <2>1. /\ n \in Int /\ m \in Int /\ \A y \in T : y \in Int
        /\ Small(m) \in F
    BY <1>5, <1>6 DEF F
  <2>2. Small(m) \subseteq X /\ n \in X /\ n \notin Small(m)
    <3>1. \A y \in T : y <= m => y <= n
      BY <1>6, <2>1
    <3>2. n <= n /\ ~(n <= m)
      BY <1>6, <2>1
    <3> QED
      BY <1>5, <3>1, <3>2
  <2>3. <<Small(m), X>> \in StrictSubsetOrdering(T)
    BY <1>5, <2>2 DEF StrictSubsetOrdering
  <2> QED
    BY <1>4, <2>1, <2>3
<1> QED
  BY <1>6

(* So is what a function makes of a finite set finite.                      *)
LEMMA ImageFinite ==
    ASSUME NEW f, IsFiniteSet(DOMAIN f)
    PROVE  IsFiniteSet({f[x] : x \in DOMAIN f})
<1> DEFINE g == [x \in DOMAIN f |-> f[x]]
           T == {f[x] : x \in DOMAIN f}
<1>1. g \in Surjection(DOMAIN f, T)
  BY DEF Surjection
<1> QED
  BY <1>1, FS_Surjection

(* Max and Min of such a set are what their names say.                      *)
LEMMA Extremes ==
    ASSUME NEW T \in SUBSET Int, IsFiniteSet(T), T # {}
    PROVE  /\ Max(T) \in T /\ \A m \in T : m <= Max(T)
           /\ Min(T) \in T /\ \A m \in T : Min(T) <= m
<1> DEFINE f == [t \in T |-> -t]
           Minus == {f[t] : t \in DOMAIN f}
<1>1. Minus \subseteq Int /\ Minus # {} /\ \A t \in T : -t \in Minus
  <2>1. DOMAIN f = T /\ \A t \in T : f[t] = -t /\ -t \in Int
    OBVIOUS
  <2> QED
    BY <2>1
<1>2. IsFiniteSet(Minus)
  <2>1. IsFiniteSet(DOMAIN f)
    OBVIOUS
  <2> HIDE DEF f
  <2> QED
    BY <2>1, ImageFinite
<1>3. PICK k \in Minus : \A j \in Minus : k <= j
  <2> HIDE DEF Minus
  <2> QED
    BY <1>1, <1>2, Least
<1>4. PICK t \in T : k = -t
  BY <1>3
<1>5. ASSUME NEW m \in T PROVE t >= m
  <2>1. -m \in Minus /\ m \in Int /\ t \in Int
    BY <1>1, <1>5
  <2>2. -t <= -m
    BY <1>3, <1>4, <2>1
  <2> QED
    BY <2>1, <2>2
<1>6. PICK x \in T : \A m \in T : x <= m
  BY Least
<1> QED
  BY <1>4, <1>5, <1>6 DEF Max, Min

LEMMA UpToFinite ==
    ASSUME NEW n \in Nat, NEW T \in SUBSET (0..n)
    PROVE  IsFiniteSet(T) /\ T \subseteq Int
<1>1. IsFiniteSet(0..n)
  BY FS_Interval
<1>2. T \subseteq 0..n /\ T \subseteq Int
  OBVIOUS
<1> QED
  BY <1>1, <1>2, FS_Subset

(* A sequence, of whatever.                                                 *)
Sequence(s) == \E S : s \in Seq(S)

LEMMA OneMore ==
    ASSUME NEW s, Sequence(s), NEW x
    PROVE  /\ Sequence(Append(s, x)) /\ Len(s) \in Nat /\ Len(Append(s, x)) = Len(s) + 1
           /\ DOMAIN s = 1..Len(s) /\ DOMAIN Append(s, x) = 1..(Len(s) + 1)
           /\ \A i \in DOMAIN s : Append(s, x)[i] = s[i]
           /\ Append(s, x)[Len(s) + 1] = x
<1>1. PICK S : s \in Seq(S)
  BY DEF Sequence
<1>2. s \in Seq(S \cup {x}) /\ x \in S \cup {x}
  BY <1>1
<1>3. Append(s, x) \in Seq(S \cup {x})
  BY <1>2
<1> QED
  BY <1>2, <1>3 DEF Sequence

-----------------------------------------------------------------------------
(* What is left of the reviewer's proposals: lessons are created, and only  *)
(* lessons that were shown, or were created in the same answer and are      *)
(* known by a negative number, are changed.                                 *)
Pending == {i \in Int : i < 0}
GoodEdit(e, known) ==
    /\ e.op \in {"create", "update", "delete"}
    /\ IF e.op = "create" THEN e.id = 0 ELSE e.id \in known \cup Pending
GoodList(list, known) ==
    /\ Sequence(list)
    /\ \A k \in DOMAIN list : "id" \in DOMAIN list[k] /\ list[k].id \in known \cup Pending
GoodEdits(edits, known) ==
    Sequence(edits) /\ \A k \in DOMAIN edits : GoodEdit(edits[k], known)
GoodAcc(acc, known) == GoodEdits(acc.edits, known) /\ GoodList(acc.list, known)

LEMMA EditAdded ==
    ASSUME NEW known, NEW edits, GoodEdits(edits, known), NEW e, GoodEdit(e, known)
    PROVE  GoodEdits(Append(edits, e), known)
<1>1. /\ Sequence(Append(edits, e)) /\ Len(edits) \in Nat
      /\ DOMAIN edits = 1..Len(edits) /\ DOMAIN Append(edits, e) = 1..(Len(edits) + 1)
      /\ \A i \in DOMAIN edits : Append(edits, e)[i] = edits[i]
      /\ Append(edits, e)[Len(edits) + 1] = e
  BY OneMore DEF GoodEdits
<1>2. \A k \in 1..(Len(edits) + 1) : k \in 1..Len(edits) \/ k = Len(edits) + 1
  BY <1>1
<1> QED
  BY <1>1, <1>2 DEF GoodEdits

LEMMA LessonAdded ==
    ASSUME NEW known, NEW list, GoodList(list, known), NEW r,
           "id" \in DOMAIN r, r.id \in known \cup Pending
    PROVE  GoodList(Append(list, r), known)
<1>1. /\ Sequence(Append(list, r)) /\ Len(list) \in Nat
      /\ DOMAIN list = 1..Len(list) /\ DOMAIN Append(list, r) = 1..(Len(list) + 1)
      /\ \A i \in DOMAIN list : Append(list, r)[i] = list[i]
      /\ Append(list, r)[Len(list) + 1] = r
  BY OneMore DEF GoodList
<1>2. \A k \in 1..(Len(list) + 1) : k \in 1..Len(list) \/ k = Len(list) + 1
  BY <1>1
<1> QED
  BY <1>1, <1>2 DEF GoodList

LEMMA LessonReworded ==
    ASSUME NEW known, NEW list, GoodList(list, known), NEW n, NEW text
    PROVE  GoodList([list EXCEPT ![n].text = text], known)
<1> DEFINE new == [list EXCEPT ![n].text = text]
<1>1. PICK S : list \in Seq(S)
  BY DEF GoodList, Sequence
<1>2. new \in Seq({new[i] : i \in DOMAIN list}) /\ DOMAIN new = DOMAIN list
  <2>1. DOMAIN list = 1..Len(list) /\ Len(list) \in Nat
    BY <1>1
  <2>2. DOMAIN new = DOMAIN list /\ new = [i \in DOMAIN new |-> new[i]]
    OBVIOUS
  <2> HIDE DEF new
  <2>3. new \in [1..Len(list) -> {new[i] : i \in DOMAIN list}]
    BY <2>1, <2>2
  <2> QED
    BY <2>1, <2>2, <2>3, SeqDef
<1>3. ASSUME NEW k \in DOMAIN list
      PROVE  "id" \in DOMAIN new[k] /\ new[k].id = list[k].id
  BY <1>1 DEF GoodList
<1>4. GoodList(new, known)
  <2> HIDE DEF new
  <2> QED
    BY <1>2, <1>3 DEF GoodList, Sequence
<1> QED
  BY <1>4

LEMMA SanitizeOne ==
    ASSUME NEW known, NEW acc, GoodAcc(acc, known), NEW e \in Proposals
    PROVE  GoodAcc(Sanitize(known, acc, e), known)
<1> DEFINE dup == DedupTarget(e.text, acc.list)
           own == SelectInSeq(acc.list, LAMBDA r : r.id = e.id)
           r == acc.list[dup]
           m == [r EXCEPT !.text = Cut(@ \o e.text)]
           merge == [op |-> "update", id |-> r.id, text |-> m.text, scope |-> r.scope]
           added == [id |-> -(Len(acc.edits) + 1), text |-> e.text, scope |-> e.scope]
           out == Sanitize(known, acc, e)
<1>1. /\ e.op \in {"create", "update", "delete"}
      /\ e.op = "create" => e.id = 0
  BY DEF Proposals, None
<1>2. /\ Sequence(acc.list) /\ Len(acc.list) \in Nat /\ Len(acc.edits) \in Nat
      /\ DOMAIN acc.list = 1..Len(acc.list)
  BY OneMore DEF GoodAcc, GoodEdits, GoodList
<1>3. dup # 0 => dup \in DOMAIN acc.list
  <2> DEFINE I == {i \in 1..Len(acc.list) : acc.list[i].text = e.text}
  <2>1. dup = IF I # {} THEN Min(I) ELSE 0
    BY DEF DedupTarget, SelectInSeq, Min
  <2>2. I \in SUBSET (0..Len(acc.list))
    BY <1>2
  <2>3. IsFiniteSet(I) /\ I \subseteq Int /\ I \subseteq 1..Len(acc.list)
    BY <1>2, <2>2, UpToFinite
  <2> HIDE DEF I, dup
  <2>4. I # {} => Min(I) \in I
    BY <2>3, Extremes
  <2> QED
    BY <1>2, <2>1, <2>3, <2>4
<1>4. CASE out = acc
  BY <1>4
<1>5. CASE /\ e.op = "create" /\ dup # 0
           /\ out = [edits |-> Append(acc.edits, merge), list |-> Append(acc.list, m)]
  <2>1. "id" \in DOMAIN r /\ r.id \in known \cup Pending
    BY <1>3, <1>5 DEF GoodAcc, GoodList
  <2>2. "id" \in DOMAIN m /\ m.id = r.id
    BY <2>1
  <2>3. GoodEdit(merge, known)
    BY <2>1 DEF GoodEdit
  <2> HIDE DEF m, merge, r
  <2> QED
    BY <1>5, <2>1, <2>2, <2>3, EditAdded, LessonAdded DEF GoodAcc
<1>6. CASE /\ e.op = "create"
           /\ out = [edits |-> Append(acc.edits, e), list |-> Append(acc.list, added)]
  <2>1. "id" \in DOMAIN added /\ added.id \in Pending
    BY <1>2 DEF Pending
  <2>2. GoodEdit(e, known)
    BY <1>1, <1>6 DEF GoodEdit
  <2> HIDE DEF added
  <2> QED
    BY <1>6, <2>1, <2>2, EditAdded, LessonAdded DEF GoodAcc
<1>7. CASE /\ e.op = "update" /\ e.id \in known
           /\ out = [edits |-> Append(acc.edits, e),
                     list |-> [acc.list EXCEPT ![own].text = e.text]]
  <2>1. GoodEdit(e, known)
    BY <1>7 DEF GoodEdit
  <2> HIDE DEF own
  <2>2. GoodEdits(Append(acc.edits, e), known)
    BY <2>1, EditAdded DEF GoodAcc
  <2>3. GoodList([acc.list EXCEPT ![own].text = e.text], known)
    BY LessonReworded DEF GoodAcc
  <2> QED
    BY <1>7, <2>2, <2>3 DEF GoodAcc
<1>8. CASE /\ e.op = "delete" /\ e.id \in known
           /\ out = [edits |-> Append(acc.edits, e), list |-> acc.list]
  <2>1. GoodEdit(e, known)
    BY <1>8 DEF GoodEdit
  <2> QED
    BY <1>8, <2>1, EditAdded DEF GoodAcc
<1>9. \/ out = acc
      \/ /\ e.op = "create" /\ dup # 0
         /\ out = [edits |-> Append(acc.edits, merge), list |-> Append(acc.list, m)]
      \/ /\ e.op = "create"
         /\ out = [edits |-> Append(acc.edits, e), list |-> Append(acc.list, added)]
      \/ /\ e.op = "update" /\ e.id \in known
         /\ out = [edits |-> Append(acc.edits, e),
                   list |-> [acc.list EXCEPT ![own].text = e.text]]
      \/ /\ e.op = "delete" /\ e.id \in known
         /\ out = [edits |-> Append(acc.edits, e), list |-> acc.list]
  <2> QED
    BY <1>1 DEF Sanitize, SelectInSeq
<1> QED
  BY <1>4, <1>5, <1>6, <1>7, <1>8, <1>9

(* The same of the whole answer: the edits are taken in one by one.  The    *)
(* fold is a recursive function on the sets of places in the answer; that   *)
(* there is such a function is shown for ever larger sets.                  *)
LEMMA SanitizedGood ==
    ASSUME NEW seen, Sequence(seen), NEW known, known = {seen[k].id : k \in DOMAIN seen},
           \A k \in DOMAIN seen : "id" \in DOMAIN seen[k],
           NEW n \in Nat, NEW raw \in [1..n -> Proposals]
    PROVE  GoodEdits(Sanitized(raw, seen), known)
<1> DEFINE start == [edits |-> <<>>, list |-> seen]
           S == 1..n
           c(s) == Max(s)
           Fold(g, D) == [s \in D |-> IF s = {} THEN start
                                      ELSE Sanitize(known, g[s \ {c(s)}], raw[c(s)])]
           Small(k) == {s \in SUBSET S : Cardinality(s) <= k}
           P(k) == \E g : g = Fold(g, Small(k))
           T == {k \in 0..n : ~P(k)}
<1>1. ASSUME NEW s \in SUBSET S
      PROVE  /\ IsFiniteSet(s) /\ Cardinality(s) \in 0..n
             /\ Cardinality(s) = 0 <=> s = {}
             /\ s # {} => /\ c(s) \in s /\ s \ {c(s)} \in SUBSET S
                          /\ Cardinality(s \ {c(s)}) = Cardinality(s) - 1
  <2>1. IsFiniteSet(S) /\ Cardinality(S) = n
    BY FS_Interval
  <2>2. IsFiniteSet(s) /\ Cardinality(s) <= n
    <3> HIDE DEF S
    <3> QED
      BY <2>1, FS_Subset
  <2>3. Cardinality(s) \in Nat
    BY <2>2, FS_CardinalityType
  <2>4. Cardinality(s) = 0 <=> s = {}
    BY <2>2, FS_EmptySet
  <2>5. s # {} => c(s) \in s
    <3>1. s \in SUBSET Int
      OBVIOUS
    <3> QED
      BY <2>2, <3>1, Extremes
  <2>6. s # {} => Cardinality(s \ {c(s)}) = Cardinality(s) - 1
    BY <2>2, <2>5, FS_RemoveElement
  <2>7. Cardinality(s) \in 0..n
    BY <2>2, <2>3
  <2>8. s \ {c(s)} \in SUBSET S
    OBVIOUS
  <2> HIDE DEF c, S
  <2> QED
    BY <2>2, <2>4, <2>5, <2>6, <2>7, <2>8
<1> HIDE DEF c
<1>2. T = {}
  <2> SUFFICES ASSUME T # {} PROVE FALSE
    OBVIOUS
  <2>1. PICK k \in T : \A m \in T : k <= m
    <3> HIDE DEF P
    <3>1. T \in SUBSET (0..n)
      OBVIOUS
    <3>2. IsFiniteSet(T) /\ T \subseteq Int
      BY <3>1, UpToFinite
    <3> HIDE DEF T
    <3> QED
      BY <3>2, Least
  <2>2. CASE k = 0
    <3>1. \A s \in Small(0) : s = {}
      <4> SUFFICES ASSUME NEW s \in SUBSET S, Cardinality(s) <= 0 PROVE s = {}
        OBVIOUS
      <4>1. Cardinality(s) \in 0..n /\ (Cardinality(s) = 0 <=> s = {})
        BY <1>1
      <4> QED
        BY <4>1
    <3> DEFINE g == [s \in Small(0) |-> start]
    <3>2. g = Fold(g, Small(0))
      BY <3>1
    <3> QED
      BY <2>1, <2>2, <3>2
  <2>3. CASE k # 0
    <3>1. k \in Nat /\ k - 1 \in Nat /\ k - 1 \notin T /\ k - 1 \in 0..n
      <4>1. k \in 0..n
        OBVIOUS
      <4> HIDE DEF T
      <4> QED
        BY <2>1, <2>3, <4>1
    <3>2. PICK g : g = Fold(g, Small(k - 1))
      BY <3>1
    <3> DEFINE h == Fold(g, Small(k))
    <3>3. \A s \in Small(k) : s # {} => s \ {c(s)} \in Small(k - 1)
      <4> SUFFICES ASSUME NEW s \in SUBSET S, Cardinality(s) <= k, s # {}
                   PROVE  s \ {c(s)} \in SUBSET S /\ Cardinality(s \ {c(s)}) <= k - 1
        OBVIOUS
      <4>1. /\ Cardinality(s) \in 0..n /\ s \ {c(s)} \in SUBSET S
            /\ Cardinality(s \ {c(s)}) = Cardinality(s) - 1
        BY <1>1
      <4> QED
        BY <3>1, <4>1
    <3>5. \A s \in Small(k - 1) : s \in Small(k) /\ h[s] = g[s]
      <4>1. \A s \in Small(k - 1) : s \in Small(k)
        <5> SUFFICES ASSUME NEW s \in SUBSET S, Cardinality(s) <= k - 1
                     PROVE  Cardinality(s) <= k
          OBVIOUS
        <5>1. Cardinality(s) \in 0..n
          BY <1>1
        <5> QED
          BY <3>1, <5>1
      <4>2. \A s \in Small(k - 1) :
               g[s] = IF s = {} THEN start
                      ELSE Sanitize(known, g[s \ {c(s)}], raw[c(s)])
        BY <3>2
      <4> QED
        BY <4>1, <4>2
    <3>6. \A s \in Small(k) : h[s] = Fold(h, Small(k))[s]
      BY <3>3, <3>5
    <3>7. h = Fold(h, Small(k))
      BY <3>6
    <3> HIDE DEF h
    <3> QED
      BY <2>1, <3>7
  <2> QED
    BY <2>2, <2>3
<1>3. \E g : g = Fold(g, SUBSET S)
  <2>1. Small(n) = SUBSET S
    <3>1. ASSUME NEW s \in SUBSET S PROVE Cardinality(s) <= n
      <4>1. Cardinality(s) \in 0..n
        BY <1>1
      <4> QED
        BY <4>1
    <3> QED
      BY <3>1
  <2>2. P(n)
    <3>1. n \in 0..n
      OBVIOUS
    <3> HIDE DEF P
    <3> QED
      BY <1>2, <3>1
  <2> QED
    BY <2>1, <2>2
<1> DEFINE G == CHOOSE g : g = Fold(g, SUBSET S)
<1>4. G = Fold(G, SUBSET S)
  BY <1>3
<1>5. Sanitized(raw, seen) = G[S].edits
  <2>1. DOMAIN raw = S
    OBVIOUS
  <2> QED
    BY <2>1 DEF Sanitized, FoldLeft, MapThenFoldSet, c, Max
<1> HIDE DEF G
<1> DEFINE B == {k \in 0..n : \E s \in SUBSET S : Cardinality(s) = k /\ ~GoodAcc(G[s], known)}
<1>6. B = {}
  <2> SUFFICES ASSUME B # {} PROVE FALSE
    OBVIOUS
  <2>1. PICK k \in B : \A m \in B : k <= m
    <3>1. B \in SUBSET (0..n)
      OBVIOUS
    <3>2. IsFiniteSet(B) /\ B \subseteq Int
      BY <3>1, UpToFinite
    <3> HIDE DEF B
    <3> QED
      BY <3>2, Least
  <2>2. PICK s \in SUBSET S : Cardinality(s) = k /\ ~GoodAcc(G[s], known)
    BY <2>1
  <2>3. G[s] = IF s = {} THEN start
               ELSE Sanitize(known, G[s \ {c(s)}], raw[c(s)])
    BY <1>4
  <2>4. GoodAcc(start, known)
    BY DEF GoodAcc, GoodEdits, GoodList, Sequence
  <2>5. s # {}
    BY <2>2, <2>3, <2>4
  <2>6. /\ c(s) \in S /\ s \ {c(s)} \in SUBSET S
        /\ Cardinality(s \ {c(s)}) = k - 1 /\ k - 1 \in 0..n /\ k \in Nat
    <3>1. /\ Cardinality(s) \in 0..n /\ c(s) \in s /\ s \ {c(s)} \in SUBSET S
          /\ Cardinality(s \ {c(s)}) = Cardinality(s) - 1
          /\ Cardinality(s) # 0
      <4> HIDE DEF S
      <4> QED
        BY <1>1, <2>2, <2>5
    <3>2. c(s) \in S
      BY <3>1
    <3> QED
      BY <2>2, <3>1, <3>2
  <2>7. GoodAcc(G[s \ {c(s)}], known)
    <3>1. k - 1 \notin B
      <4> HIDE DEF B
      <4> QED
        BY <2>1, <2>6
    <3> QED
      BY <2>6, <3>1
  <2>8. raw[c(s)] \in Proposals
    BY <2>6
  <2> HIDE DEF S, start
  <2> QED
    BY <2>2, <2>3, <2>5, <2>7, <2>8, SanitizeOne
<1>7. GoodAcc(G[S], known)
  <2>1. S \in SUBSET S /\ Cardinality(S) \in 0..n
    BY <1>1
  <2> QED
    BY <1>6, <2>1
<1> QED
  BY <1>5, <1>7 DEF GoodAcc

(* The number of the last round is that of a row, and no row of the session *)
(* has a larger one.                                                        *)
LEMMA LastRoundIsLast ==
    ASSUME AuditTypes, NEW s
    PROVE  /\ LastRound(s) \in 0..Len(audit)
           /\ \A i \in DOMAIN audit : audit[i].sess = s => audit[i].num <= LastRound(s)
<1> DEFINE nums == {audit[i].num : i \in {j \in DOMAIN audit : audit[j].sess = s}}
<1>1. Len(audit) \in Nat /\ nums \in SUBSET (0..Len(audit))
  BY DEF AuditTypes
<1>2. LastRound(s) = IF nums = {} THEN 0 ELSE Max(nums)
  BY DEF LastRound, Max
<1>3. ASSUME NEW i \in DOMAIN audit, audit[i].sess = s PROVE audit[i].num \in nums
  BY <1>3
<1> HIDE DEF nums
<1>4. CASE nums = {}
  BY <1>1, <1>2, <1>3, <1>4
<1>5. CASE nums # {}
  <2>1. Max(nums) \in nums /\ \A m \in nums : m <= Max(nums)
    <3>1. nums \in SUBSET Int /\ IsFiniteSet(nums)
      BY <1>1, UpToFinite
    <3> QED
      BY <1>5, <3>1, Extremes
  <2> QED
    BY <1>1, <1>2, <1>3, <1>5, <2>1
<1> QED
  BY <1>4, <1>5

(* The row a rollback starts from.                                          *)
LEMMA RowOfRollback ==
    ASSUME AuditTypes, NEW s, RoundRows(s) # {}
    PROVE  Max(RoundRows(s)) \in DOMAIN audit
<1>1. Len(audit) \in Nat /\ RoundRows(s) \in SUBSET (0..Len(audit))
        /\ RoundRows(s) \subseteq DOMAIN audit
  BY DEF AuditTypes, RoundRows, Recent
<1>2. RoundRows(s) \in SUBSET Int /\ IsFiniteSet(RoundRows(s))
  BY <1>1, UpToFinite
<1> QED
  BY <1>1, <1>2, Extremes

-----------------------------------------------------------------------------
(* The steps                                                                *)

(* What leaves the rows alone leaves them numbered.                         *)
LEMMA AuditKept ==
    ASSUME RefineInv, UNCHANGED audit
    PROVE  AuditTypes' /\ RoundsNumbered'
BY DEF RefineInv, AuditTypes, RoundsNumbered

(* A row more, with a number that the rows allow.                           *)
LEMMA AuditGrows ==
    ASSUME RefineInv, NEW e, audit' = Append(audit, e), e.num \in 1..(Len(audit) + 1)
    PROVE  /\ AuditTypes' /\ Len(audit)' = Len(audit) + 1 /\ Len(audit) \in Nat
           /\ DOMAIN audit = 1..Len(audit) /\ DOMAIN audit' = 1..(Len(audit) + 1)
           /\ \A i \in DOMAIN audit : audit'[i] = audit[i]
           /\ audit'[Len(audit) + 1] = e
<1>1. PICK S : audit \in Seq(S)
  BY DEF RefineInv, AuditTypes
<1>2. audit \in Seq(S \cup {e}) /\ e \in S \cup {e}
  BY <1>1
<1>3. audit' \in Seq(S \cup {e})
  BY <1>2
<1>4. /\ Len(audit)' = Len(audit) + 1 /\ Len(audit) \in Nat
      /\ DOMAIN audit = 1..Len(audit) /\ DOMAIN audit' = 1..(Len(audit) + 1)
      /\ \A i \in DOMAIN audit : audit'[i] = audit[i]
      /\ audit'[Len(audit) + 1] = e
  BY <1>2
<1>5. ASSUME NEW i \in DOMAIN audit' PROVE audit'[i].num \in 1..(Len(audit) + 1)
  <2>1. CASE i = Len(audit) + 1
    BY <1>4, <2>1
  <2>2. CASE i \in DOMAIN audit
    BY <1>4, <2>2 DEF RefineInv, AuditTypes
  <2> QED
    BY <1>4, <1>5, <2>1, <2>2
<1> QED
  BY <1>3, <1>4, <1>5 DEF AuditTypes

(* A row that is no round row leaves the rounds numbered.                   *)
LEMMA OtherRow ==
    ASSUME RefineInv, NEW e, audit' = Append(audit, e), e.num \in 1..Len(audit),
           e.action # "round"
    PROVE  /\ AuditTypes' /\ RoundsNumbered'
           /\ Len(audit)' = Len(audit) + 1 /\ Len(audit) \in Nat
           /\ \A i \in DOMAIN audit' :
                 audit'[i].action = "round" => i \in DOMAIN audit /\ audit'[i] = audit[i]
<1>1. Len(audit) \in Nat /\ e.num \in 1..(Len(audit) + 1)
  BY DEF RefineInv, AuditTypes
<1>2. /\ AuditTypes' /\ Len(audit)' = Len(audit) + 1
      /\ DOMAIN audit = 1..Len(audit) /\ DOMAIN audit' = 1..(Len(audit) + 1)
      /\ \A i \in DOMAIN audit : audit'[i] = audit[i]
      /\ audit'[Len(audit) + 1] = e
  BY <1>1, AuditGrows
<1>3. \A i \in DOMAIN audit' :
         audit'[i].action = "round" => i \in DOMAIN audit /\ audit'[i] = audit[i]
  BY <1>1, <1>2
<1> QED
  BY <1>1, <1>2, <1>3 DEF RefineInv, RoundsNumbered

(* A thread sees the flag down: no thread runs a round, or two have passed  *)
(* it before.                                                               *)
LEMMA LookStep ==
    ASSUME RefineInv, NEW t \in Threads, Look(t)
    PROVE  RefineInv'
<1>1. /\ UNCHANGED <<audit, undo, running, doubled>> /\ ~running /\ round[t].at = "idle"
      /\ DOMAIN round' = Threads /\ DOMAIN round'[t] = DOMAIN Idle
      /\ round'[t].at = "look" /\ \A u \in Threads \ {t} : round'[u] = round[u]
  BY DEF RefineInv, RoundTypes, Look, Idle
<1>2. \A u \in Threads : Works(u)' <=> Works(u)
  BY <1>1 DEF Works
<1>3. OneRound'
  BY <1>1, <1>2 DEF RefineInv, OneRound, Beside
<1>4. Numbered'
  BY <1>1 DEF RefineInv, Numbered
<1> QED
  BY <1>1, <1>3, <1>4, AuditKept DEF RefineInv, RoundTypes, UndoTypes

(* A round is started when no thread runs one, or the thread that starts it *)
(* was not the first to set the flag since it looked.                       *)
LEMMA ScheduleStep ==
    ASSUME RefineInv, NEW t \in Threads, Schedule(t)
    PROVE  RefineInv'
<1>1. /\ UNCHANGED <<audit, undo>> /\ running' = TRUE /\ round[t].at = "look"
      /\ doubled' = (doubled \/ (round[t].beaten /\ Beside(t)))
      /\ DOMAIN round' = Threads /\ DOMAIN round'[t] = DOMAIN Idle
      /\ round'[t].at = "review"
  BY DEF RefineInv, RoundTypes, Schedule, Idle
<1>2. \A u \in Threads \ {t} :
         /\ round'[u].at = round[u].at /\ round'[u].sess = round[u].sess
         /\ round'[u].num = round[u].num /\ round'[u].read = round[u].read
         /\ round'[u].beaten = (round[u].at = "look")
         /\ DOMAIN round'[u] = DOMAIN Idle
  BY DEF RefineInv, RoundTypes, Schedule, Idle
<1>3. \A u \in Threads : Works(u)' <=> (u = t \/ Works(u))
  BY <1>1, <1>2 DEF Works
<1>4. doubled' \in BOOLEAN
  BY <1>1 DEF RefineInv, OneRound
<1>5. ASSUME ~doubled'
      PROVE  \A u \in Threads : /\ Works(u)' => running' /\ ~Beside(u)'
                                /\ round'[u].at = "look" /\ ~round'[u].beaten
                                   => \A v \in Threads : ~Works(v)'
  <2>1. ~doubled /\ ~(round[t].beaten /\ Beside(t))
    BY <1>1, <1>5 DEF RefineInv, OneRound
  <2>2. ~Beside(t)
    BY <1>1, <2>1 DEF RefineInv, OneRound, Beside
  <2>3. \A u \in Threads : Works(u)' => u = t
    BY <1>3, <2>2 DEF Beside
  <2>4. \A u \in Threads : Works(u)' => ~Beside(u)'
    BY <2>3 DEF Beside
  <2>5. \A u \in Threads : round'[u].at = "look" => round'[u].beaten
    BY <1>1, <1>2
  <2> QED
    BY <1>1, <2>4, <2>5
<1>6. OneRound'
  BY <1>4, <1>5 DEF OneRound
<1>7. Numbered'
  <2>1. doubled => doubled'
    BY <1>1
  <2>2. \A u \in Threads : round'[u].at \in {"apply", "edits"} => u # t
    BY <1>1
  <2> QED
    BY <1>1, <1>2, <2>1, <2>2 DEF RefineInv, Numbered
<1>8. RoundTypes' /\ UndoTypes'
  BY <1>1, <1>2 DEF RefineInv, RoundTypes, UndoTypes
<1> QED
  BY <1>1, <1>6, <1>7, <1>8, AuditKept DEF RefineInv

(* A round that cannot be started only leaves the flag.                     *)
LEMMA ScheduleFailsStep ==
    ASSUME RefineInv, NEW t \in Threads, ScheduleFails(t)
    PROVE  RefineInv'
<1>1. /\ UNCHANGED <<audit, undo, doubled>> /\ running' = TRUE /\ round[t].at = "look"
      /\ DOMAIN round' = Threads /\ round'[t] = Idle /\ round'[t].at = "idle"
      /\ \A u \in Threads \ {t} : round'[u] = round[u]
  BY DEF RefineInv, RoundTypes, ScheduleFails, Idle
<1>2. \A u \in Threads : Works(u)' <=> Works(u)
  BY <1>1 DEF Works
<1>3. OneRound'
  BY <1>1, <1>2 DEF RefineInv, OneRound, Beside
<1>4. Numbered'
  BY <1>1 DEF RefineInv, Numbered
<1> QED
  BY <1>1, <1>3, <1>4, AuditKept DEF RefineInv, RoundTypes, UndoTypes

(* A thread that ran a round ends.                                          *)
LEMMA EndStep ==
    ASSUME RefineInv, NEW t \in Threads, RoundFails(t) \/ EndRound(t)
    PROVE  RefineInv'
<1>1. /\ UNCHANGED <<audit, undo>> /\ Works(t) /\ doubled' = (doubled /\ Beside(t))
      /\ DOMAIN round' = Threads /\ round'[t] = Idle /\ round'[t].at = "idle"
      /\ \A u \in Threads \ {t} : round'[u] = round[u]
  <2>1. /\ UNCHANGED <<audit, undo>> /\ Works(t) /\ doubled' = (doubled /\ Beside(t))
        /\ round' = [round EXCEPT ![t] = Idle]
    BY DEF RoundFails, EndRound, Ends, Works
  <2>2. Idle.at = "idle"
    BY DEF Idle
  <2> QED
    BY <2>1, <2>2 DEF RefineInv, RoundTypes
<1>2. \A u \in Threads : Works(u)' <=> (Works(u) /\ u # t)
  BY <1>1 DEF Works
<1>3. doubled' \in BOOLEAN
  BY <1>1 DEF RefineInv, OneRound
<1>4. ASSUME ~doubled' PROVE \A u \in Threads : ~Works(u)'
  <2>1. ~doubled \/ ~Beside(t)
    BY <1>1, <1>4 DEF RefineInv, OneRound
  <2>2. ~Beside(t)
    BY <1>1, <2>1 DEF RefineInv, OneRound
  <2> QED
    BY <1>2, <2>2 DEF Beside
<1>5. OneRound'
  BY <1>3, <1>4 DEF OneRound
<1>6. \A u \in Threads : round'[u].at = "apply" => (doubled => doubled')
  <2> SUFFICES ASSUME NEW u \in Threads, round'[u].at = "apply", doubled PROVE doubled'
    OBVIOUS
  <2>1. Works(u)'
    BY DEF Works
  <2> QED
    BY <1>4, <2>1
<1>7. Numbered'
  BY <1>1, <1>6 DEF RefineInv, Numbered
<1> QED
  BY <1>1, <1>5, <1>7, AuditKept DEF RefineInv, RoundTypes, UndoTypes

(* What a step of a thread within its round leaves of OneRound.             *)
LEMMA OneRoundStays ==
    ASSUME RefineInv, UNCHANGED <<running, doubled>>,
           \A t \in Threads : /\ Works(t)' <=> Works(t)
                              /\ round'[t].at = "look" => /\ round[t].at = "look"
                                                          /\ round'[t].beaten = round[t].beaten
    PROVE  OneRound'
BY DEF RefineInv, OneRound, Beside

(* The number is taken: it is above those of all rows of the session.       *)
LEMMA ReviewStep ==
    ASSUME RefineInv, NEW t \in Threads, Review(t)
    PROVE  RefineInv'
<1>1. /\ UNCHANGED <<audit, undo, running, doubled>> /\ round[t].at = "review"
      /\ DOMAIN round' = Threads /\ DOMAIN round'[t] = DOMAIN Idle
      /\ round'[t].at = "apply" /\ round'[t].sess = round[t].sess
      /\ round'[t].num = LastRound(round[t].sess) + 1
      /\ round'[t].read = Len(audit)
      /\ \A u \in Threads \ {t} : round'[u] = round[u]
  BY DEF RefineInv, RoundTypes, Review, Idle
<1>2. /\ LastRound(round[t].sess) \in 0..Len(audit)
      /\ \A i \in DOMAIN audit :
            audit[i].sess = round[t].sess => audit[i].num <= LastRound(round[t].sess)
  BY LastRoundIsLast DEF RefineInv
<1>3. Len(audit) \in Nat /\ \A i \in DOMAIN audit : audit[i].num \in Int
  BY DEF RefineInv, AuditTypes
<1>4. Numbered'
  BY <1>1, <1>2, <1>3 DEF RefineInv, Numbered
<1>5. OneRound'
  BY <1>1, OneRoundStays DEF Works
<1> QED
  BY <1>1, <1>4, <1>5, AuditKept DEF RefineInv, RoundTypes, UndoTypes

(* What a step does that changes neither where a thread is nor its number.  *)
LEMMA RoundsStay ==
    ASSUME RefineInv, UNCHANGED <<audit, running, doubled>>, UndoTypes',
           DOMAIN round' = Threads,
           \A t \in Threads :
               /\ DOMAIN round'[t] = DOMAIN Idle
               /\ round'[t].at = round[t].at /\ round'[t].sess = round[t].sess
               /\ round'[t].num = round[t].num /\ round'[t].read = round[t].read
               /\ round'[t].beaten = round[t].beaten
    PROVE  RefineInv'
<1>1. OneRound'
  BY OneRoundStays DEF Works
<1>2. Numbered'
  BY DEF RefineInv, Numbered
<1> QED
  BY <1>1, <1>2, AuditKept DEF RefineInv, RoundTypes

(* What an edit does to the records of the rounds.                          *)
LEMMA ApplyParts ==
    ASSUME RefineInv, NEW t \in Threads, Apply(t)
    PROVE  /\ UNCHANGED <<audit, undo, running, doubled>> /\ DOMAIN round' = Threads
           /\ \A u \in Threads :
                 /\ DOMAIN round'[u] = DOMAIN Idle
                 /\ round'[u].at = round[u].at /\ round'[u].sess = round[u].sess
                 /\ round'[u].num = round[u].num /\ round'[u].read = round[u].read
                 /\ round'[u].beaten = round[u].beaten /\ round'[u].seen = round[u].seen
                 /\ round'[u].edits = round[u].edits /\ round'[u].snaps = round[u].snaps
                 /\ round'[u].before = round[u].before
           /\ round'[t].alone = round[t].alone
           /\ \A u \in Threads \ {t} :
                 /\ round'[u].alone = FALSE /\ round'[u].made = round[u].made
                 /\ round'[u].done = round[u].done
                 /\ round'[u].deleted = round[u].deleted
<1> DEFINE r == round[t]
           e == r.edits[r.done + 1]
<1>1. /\ UNCHANGED <<audit, undo, running, doubled>>
      /\ \/ round' = Others(t, [r EXCEPT !.done = @ + 1, !.made = Append(@, ids + 1)])
         \/ round' = Others(t, [r EXCEPT !.done = @ + 1])
         \/ round' = Others(t, [r EXCEPT !.done = @ + 1, !.deleted = @ \cup {e.id}])
  BY DEF Apply
<1>2. \A u \in Threads : DOMAIN round[u] = DOMAIN Idle
  BY DEF RefineInv, RoundTypes
<1>3. CASE round' = Others(t, [r EXCEPT !.done = @ + 1, !.made = Append(@, ids + 1)])
  BY <1>1, <1>2, <1>3 DEF Others, Idle
<1>4. CASE round' = Others(t, [r EXCEPT !.done = @ + 1])
  BY <1>1, <1>2, <1>4 DEF Others, Idle
<1>5. CASE round' = Others(t, [r EXCEPT !.done = @ + 1, !.deleted = @ \cup {e.id}])
  BY <1>1, <1>2, <1>5 DEF Others, Idle
<1> QED
  BY <1>1, <1>3, <1>4, <1>5

LEMMA ApplyStep ==
    ASSUME RefineInv, NEW t \in Threads, Apply(t)
    PROVE  RefineInv'
<1>1. UndoTypes'
  BY ApplyParts DEF RefineInv, UndoTypes
<1> QED
  BY <1>1, ApplyParts, RoundsStay

(* The round's row has a number above those of the session's round rows     *)
(* there were when it was taken; a row written since is that of a round     *)
(* that ran beside it.                                                      *)
LEMMA AuditRoundStep ==
    ASSUME RefineInv, NEW t \in Threads, AuditRound(t)
    PROVE  RefineInv'
<1> DEFINE e == RoundRow(round[t])
<1>1. /\ UNCHANGED <<undo, running, doubled>> /\ round[t].at = "apply"
      /\ audit' = Append(audit, e)
      /\ DOMAIN round' = Threads /\ DOMAIN round'[t] = DOMAIN Idle
      /\ round'[t].at = "edits" /\ round'[t].num = round[t].num
      /\ \A u \in Threads \ {t} : round'[u] = round[u]
  BY DEF RefineInv, RoundTypes, AuditRound, Idle
<1>2. /\ e.num = round[t].num /\ e.sess = round[t].sess /\ e.action = "round"
      /\ e.read = round[t].read /\ e.doubled = doubled
  BY DEF RoundRow, AuditRow
<1> HIDE DEF e
<1>3. e.num \in 1..(Len(audit) + 1) /\ Len(audit) \in Nat
  BY <1>1, <1>2 DEF RefineInv, Numbered, AuditTypes
<1>4. /\ AuditTypes' /\ Len(audit)' = Len(audit) + 1
      /\ DOMAIN audit = 1..Len(audit) /\ DOMAIN audit' = 1..(Len(audit) + 1)
      /\ \A i \in DOMAIN audit : audit'[i] = audit[i]
      /\ audit'[Len(audit) + 1] = e
  BY <1>1, <1>3, AuditGrows
<1>5. RoundsNumbered'
  <2>1. \A i \in DOMAIN audit :
           /\ audit[i].action = "round" /\ audit[i].sess = e.sess /\ audit[i].num = e.num
           => e.read < i /\ audit[i].doubled /\ e.doubled
    <3>1. \A i \in DOMAIN audit : audit[i].num = e.num => e.num <= audit[i].num
      BY <1>3
    <3> QED
      BY <1>1, <1>2, <3>1 DEF RefineInv, Numbered
  <2> SUFFICES ASSUME NEW i \in DOMAIN audit', NEW j \in DOMAIN audit', i < j,
                      audit'[i].action = "round", audit'[j].action = "round",
                      audit'[i].sess = audit'[j].sess, audit'[i].num = audit'[j].num
               PROVE  audit'[j].read < i /\ audit'[i].doubled /\ audit'[j].doubled
    BY DEF RoundsNumbered
  <2>2. i \in DOMAIN audit
    BY <1>3, <1>4
  <2>3. CASE j = Len(audit) + 1
    BY <1>4, <2>1, <2>2, <2>3
  <2>4. CASE j \in DOMAIN audit
    BY <1>4, <2>2, <2>4 DEF RefineInv, RoundsNumbered
  <2> QED
    BY <1>3, <1>4, <2>3, <2>4
<1>6. OneRound'
  BY <1>1, OneRoundStays DEF Works
<1>7. Numbered'
  <2> SUFFICES ASSUME NEW u \in Threads
               PROVE  /\ round'[u].at = "apply" =>
                            /\ round'[u].num \in 1..(Len(audit)' + 1)
                            /\ round'[u].read \in 0..Len(audit)'
                            /\ \A i \in DOMAIN audit' :
                                  /\ audit'[i].action = "round"
                                  /\ audit'[i].sess = round'[u].sess
                                  /\ round'[u].num <= audit'[i].num
                                  => round'[u].read < i /\ doubled' /\ audit'[i].doubled
                      /\ round'[u].at = "edits" => round'[u].num \in 1..Len(audit)'
    BY DEF Numbered
  <2>1. CASE u = t
    BY <1>1, <1>2, <1>3, <1>4, <2>1
  <2>2. CASE u # t
    <3>1. round'[u] = round[u]
      BY <1>1, <2>2
    <3>2. round[u].at = "edits" => round[u].num \in 1..Len(audit)'
      BY <1>3, <1>4 DEF RefineInv, Numbered
    <3>3. ASSUME round[u].at = "apply"
          PROVE  /\ round[u].num \in 1..(Len(audit)' + 1)
                 /\ round[u].read \in 0..Len(audit)'
                 /\ \A i \in DOMAIN audit' :
                       /\ audit'[i].action = "round" /\ audit'[i].sess = round[u].sess
                       /\ round[u].num <= audit'[i].num
                       => round[u].read < i /\ doubled' /\ audit'[i].doubled
      <4>1. /\ round[u].num \in 1..(Len(audit) + 1) /\ round[u].read \in 0..Len(audit)
            /\ \A i \in DOMAIN audit :
                  /\ audit[i].action = "round" /\ audit[i].sess = round[u].sess
                  /\ round[u].num <= audit[i].num
                  => round[u].read < i /\ doubled /\ audit[i].doubled
        BY <3>3 DEF RefineInv, Numbered
      <4>2. doubled
        BY <1>1, <2>2, <3>3 DEF RefineInv, OneRound, Works, Beside
      <4>3. e.doubled
        BY <1>2, <4>2
      <4>4. \A i \in DOMAIN audit' : i \in DOMAIN audit \/ i = Len(audit) + 1
        BY <1>3, <1>4
      <4> QED
        BY <1>1, <1>3, <1>4, <4>1, <4>2, <4>3, <4>4
    <3> QED
      BY <3>1, <3>2, <3>3
  <2> QED
    BY <2>1, <2>2
<1>8. RoundTypes' /\ UndoTypes'
  BY <1>1, <1>3, <1>4 DEF RefineInv, RoundTypes, UndoTypes
<1> QED
  BY <1>4, <1>5, <1>6, <1>7, <1>8 DEF RefineInv

LEMMA AuditEditStep ==
    ASSUME RefineInv, NEW t \in Threads, AuditEdit(t)
    PROVE  RefineInv'
<1> DEFINE e == AuditRow(round[t], "edit")
<1>1. /\ UNCHANGED <<undo, running, doubled>> /\ round[t].at = "edits"
      /\ audit' = Append(audit, e)
      /\ DOMAIN round' = Threads /\ DOMAIN round'[t] = DOMAIN Idle
      /\ round'[t].at = "edits" /\ round'[t].num = round[t].num
      /\ \A u \in Threads \ {t} : round'[u] = round[u]
  BY DEF RefineInv, RoundTypes, AuditEdit, Idle
<1>2. e.num = round[t].num /\ e.action # "round"
  BY DEF AuditRow
<1> HIDE DEF e
<1>3. e.num \in 1..Len(audit)
  BY <1>1, <1>2 DEF RefineInv, Numbered
<1>4. /\ AuditTypes' /\ RoundsNumbered'
      /\ Len(audit)' = Len(audit) + 1 /\ Len(audit) \in Nat
      /\ \A i \in DOMAIN audit' :
            audit'[i].action = "round" => i \in DOMAIN audit /\ audit'[i] = audit[i]
  BY <1>1, <1>2, <1>3, OtherRow
<1>5. OneRound'
  BY <1>1, OneRoundStays DEF Works
<1>6. Numbered'
  BY <1>1, <1>3, <1>4 DEF RefineInv, Numbered
<1>7. RoundTypes' /\ UndoTypes'
  BY <1>1, <1>3, <1>4, AuditGrows DEF RefineInv, RoundTypes, UndoTypes
<1> QED
  BY <1>4, <1>5, <1>6, <1>7 DEF RefineInv

LEMMA StartUndoStep ==
    ASSUME RefineInv, StartUndo
    PROVE  RefineInv'
<1> DEFINE latest == Max(RoundRows(current))
<1>1. /\ UNCHANGED <<audit, running, doubled>> /\ RoundRows(current) # {}
      /\ undo' = [at |-> "undo", sess |-> current, row |-> latest,
                  num |-> audit[latest].num, snaps |-> audit[latest].snaps,
                  todo |-> DOMAIN audit[latest].snaps, drop |-> audit[latest].made]
      /\ round' = [t \in Threads |-> [round[t] EXCEPT !.alone = FALSE]]
  BY DEF StartUndo, Max
<1>2. latest \in DOMAIN audit /\ audit[latest].num \in 1..Len(audit)
  BY <1>1, RowOfRollback DEF RefineInv, AuditTypes
<1> HIDE DEF latest
<1>3. /\ DOMAIN undo' = {"at", "sess", "row", "num", "snaps", "todo", "drop"}
      /\ undo'.num = audit[latest].num /\ undo'.row = latest
  BY <1>1
<1>4. UndoTypes'
  BY <1>1, <1>2, <1>3 DEF UndoTypes
<1>5. /\ DOMAIN round' = Threads
      /\ \A t \in Threads : /\ DOMAIN round'[t] = DOMAIN Idle
                            /\ round'[t].at = round[t].at /\ round'[t].sess = round[t].sess
                            /\ round'[t].num = round[t].num /\ round'[t].read = round[t].read
                            /\ round'[t].beaten = round[t].beaten
  BY <1>1 DEF RefineInv, RoundTypes, Idle
<1> QED
  BY <1>1, <1>4, <1>5, RoundsStay

LEMMA UndoWriteStep ==
    ASSUME RefineInv, UndoSnap \/ UndoCreated \/ UndoFails
    PROVE  RefineInv'
<1>1. /\ UNCHANGED <<audit, running, round, doubled>> /\ undo.at = "undo"
      /\ DOMAIN undo' = DOMAIN undo /\ undo'.num = undo.num /\ undo'.row = undo.row
  <2>1. CASE UndoSnap
    BY <2>1 DEF RefineInv, UndoTypes, UndoSnap
  <2>2. CASE UndoCreated
    BY <2>2 DEF RefineInv, UndoTypes, UndoCreated
  <2>3. CASE UndoFails
    BY <2>3 DEF RefineInv, UndoTypes, UndoFails
  <2> QED
    BY <2>1, <2>2, <2>3
<1>2. UndoTypes'
  BY <1>1 DEF RefineInv, UndoTypes
<1> QED
  BY <1>1, <1>2, RoundsStay DEF RefineInv, RoundTypes

LEMMA EndUndoStep ==
    ASSUME RefineInv, EndUndo
    PROVE  RefineInv'
<1> DEFINE e == AuditRow(undo, "undo")
<1>1. /\ UNCHANGED <<round, running, doubled>> /\ undo.at = "undo"
      /\ undo'.at = "idle" /\ audit' = Append(audit, e)
  BY DEF EndUndo
<1>2. e.num = undo.num /\ e.action # "round"
  BY DEF AuditRow
<1> HIDE DEF e
<1>3. e.num \in 1..Len(audit)
  BY <1>1, <1>2 DEF RefineInv, UndoTypes
<1>4. /\ AuditTypes' /\ RoundsNumbered'
      /\ Len(audit)' = Len(audit) + 1 /\ Len(audit) \in Nat
      /\ \A i \in DOMAIN audit' :
            audit'[i].action = "round" => i \in DOMAIN audit /\ audit'[i] = audit[i]
  BY <1>1, <1>2, <1>3, OtherRow
<1>5. Numbered'
  BY <1>1, <1>4 DEF RefineInv, Numbered
<1>6. OneRound'
  BY <1>1, OneRoundStays DEF Works
<1> QED
  BY <1>1, <1>4, <1>5, <1>6 DEF RefineInv, RoundTypes, UndoTypes

LEMMA CrashStep ==
    ASSUME RefineInv, Crash
    PROVE  RefineInv'
<1>1. /\ UNCHANGED audit /\ undo'.at = "idle" /\ doubled' = FALSE
      /\ DOMAIN round' = Threads
      /\ \A t \in Threads : round'[t] = Idle /\ round'[t].at = "idle"
  BY DEF Crash, Idle
<1>2. \A t \in Threads : ~Works(t)'
  BY <1>1 DEF Works
<1> QED
  BY <1>1, <1>2, AuditKept DEF RefineInv, RoundTypes, UndoTypes, OneRound, Numbered

LEMMA RefineStill ==
    ASSUME RefineInv, UNCHANGED <<running, audit, round, undo, doubled>>
    PROVE  RefineInv'
<1>1. OneRound'
  BY OneRoundStays DEF Works
<1> QED
  BY <1>1, AuditKept DEF RefineInv, RoundTypes, UndoTypes, Numbered

LEMMA RefineStart == RefineInit => RefineInv
<1> SUFFICES ASSUME RefineInit PROVE RefineInv
  OBVIOUS
<1>1. audit = <<>> /\ audit \in Seq({}) /\ DOMAIN audit = {}
  BY DEF RefineInit
<1>2. /\ DOMAIN round = Threads /\ undo.at = "idle" /\ doubled = FALSE
      /\ \A t \in Threads : round[t] = Idle /\ round[t].at = "idle" /\ ~Works(t)
  BY DEF RefineInit, Idle, Works
<1> QED
  BY <1>1, <1>2 DEF RefineInv, AuditTypes, RoundTypes, UndoTypes, OneRound, Numbered,
                    RoundsNumbered

LEMMA RefineStep == RefineInv /\ [RefineNext]_refineVars => RefineInv'
<1> SUFFICES ASSUME RefineInv, [RefineNext]_refineVars PROVE RefineInv'
  OBVIOUS
<1>1. CASE UNCHANGED refineVars
  BY <1>1, RefineStill DEF refineVars
<1>2. CASE SwitchSession
  BY <1>2, RefineStill DEF SwitchSession
<1>3. CASE RefineNext /\ ~SwitchSession
  BY <1>3, LookStep, ScheduleStep, ScheduleFailsStep, EndStep, ReviewStep, ApplyStep,
     AuditRoundStep, AuditEditStep, StartUndoStep, UndoWriteStep, EndUndoStep, CrashStep DEF RefineNext
<1> QED
  BY <1>1, <1>2, <1>3

(* RoundsNumbered, for all values of the constants: with the user switching  *)
(* sessions, rollbacks beside a round, refused writes, and crashes between  *)
(* the edits and their audit row, two round rows of a session have the same *)
(* number only if two threads saw the one-round flag down before either set *)
(* it and the later number was taken before the earlier row was there       *)
(* (on_task_finished, schedule_manual_refine, last_refine_round,            *)
(* run_refine_round, undo_last_round).                                      *)
THEOREM RefineRoundsNumbered == RefineSpec => []RoundsNumbered
<1>1. RefineInv => RoundsNumbered
  BY DEF RefineInv
<1> QED
  BY <1>1, RefineStart, RefineStep, PTL DEF RefineSpec

-----------------------------------------------------------------------------
(* A rollback.  A table is a function from ids to rows.                     *)
Table(store) ==
    /\ store = [i \in DOMAIN store |-> store[i]]
    /\ \A i \in DOMAIN store :
          store[i] = [sess |-> store[i].sess, scope |-> store[i].scope, text |-> store[i].text]

(* With these lessons, snapshots and created ids still to do, a rollback    *)
(* comes to the table before: what is not to be written back is there as it *)
(* was, and what was not there is to be deleted.                            *)
CanUndo(store, before, todo, snaps, drop) ==
    /\ IsFiniteSet(todo) /\ todo \subseteq Int /\ Sequence(drop)
    /\ Table(before) /\ DOMAIN before \subseteq DOMAIN store
    /\ \A i \in DOMAIN store : i \in DOMAIN before \/ \E k \in DOMAIN drop : drop[k] = i
    /\ \A k \in DOMAIN drop : drop[k] \notin DOMAIN before
    /\ \A i \in DOMAIN before : /\ store[i].sess = before[i].sess
                                /\ store[i].scope = before[i].scope
                                /\ i \notin todo => store[i].text = before[i].text
    /\ \A i \in todo :
          i \in DOMAIN before => snaps[i].existed /\ snaps[i].text = before[i].text

(* A table without some of its rows.                                        *)
Rest(store, gone) == [i \in DOMAIN store \ gone |-> store[i]]

(* A lesson shown to the reviewer, while it is there at all, is visible.    *)
Shown(seen, s, n, store) ==
    /\ Sequence(seen)
    /\ \A k \in DOMAIN seen :
          /\ "id" \in DOMAIN seen[k] /\ seen[k].id \in 1..n
          /\ seen[k].id \in DOMAIN store =>
                store[seen[k].id].scope = "global" \/ store[seen[k].id].sess = s
Seeing ==
    \A t \in Threads :
        round[t].at = "review" =>
            /\ Shown(round[t].seen, round[t].sess, ids, lessons)
            /\ round[t].made = <<>> /\ round[t].deleted = {}

(* A round that nobody else has interfered with can be undone, but for what *)
(* it has deleted.                                                          *)
Applying ==
    \A t \in Threads : round[t].at = "apply" =>
        /\ GoodEdits(round[t].edits, 1..ids) /\ round[t].done \in Nat
        /\ DOMAIN round[t].snaps = Targets(round[t].edits)
        /\ round[t].alone =>
              CanUndo(lessons, Rest(round[t].before, round[t].deleted),
                      DOMAIN round[t].snaps, round[t].snaps, round[t].made)

(* While a rollback runs, no round has gone on without it.                  *)
Alone == \A t \in Threads : round[t].alone => undo.at = "idle"

(* A rollback that runs is that of the round the history is about, and what *)
(* it has still to do is some of what the row of the round says.            *)
Begun(row) ==
    /\ undo.row = restorable.of /\ undo.snaps = row.snaps
    /\ undo.todo \subseteq DOMAIN row.snaps
    /\ \A d \in DOMAIN undo.drop : \E k \in DOMAIN row.made : row.made[k] = undo.drop[d]
Target == Rest(restorable.before, restorable.deleted)
Undoable ==
    restorable.of # None =>
        /\ restorable.of \in DOMAIN audit
        /\ CanUndo(lessons, Target, DOMAIN audit[restorable.of].snaps,
                   audit[restorable.of].snaps, audit[restorable.of].made)
        /\ undo.at # "idle" => Begun(audit[restorable.of])
Undoing ==
    undo.at # "idle" /\ restorable.of = undo.row =>
        CanUndo(lessons, Target, undo.todo, undo.snaps, undo.drop)

LessonInv ==
    /\ ids \in Nat /\ Table(lessons) /\ DOMAIN lessons \subseteq 1..ids
    /\ Seeing /\ Applying /\ Alone /\ Undoable /\ Undoing

-----------------------------------------------------------------------------
(* The table                                                                *)

LEMMA RowUpdated ==
    ASSUME NEW store, Table(store), NEW id, NEW text
    PROVE  LET new == UpdateRow(store, id, text)
           IN  /\ Table(new) /\ DOMAIN new = DOMAIN store
               /\ \A i \in DOMAIN store :
                     /\ new[i].sess = store[i].sess /\ new[i].scope = store[i].scope
                     /\ new[i].text = IF i = id THEN text ELSE store[i].text
<1> DEFINE new == UpdateRow(store, id, text)
<1>1. /\ new = [i \in DOMAIN store |-> new[i]] /\ DOMAIN new = DOMAIN store
      /\ \A i \in DOMAIN store :
            new[i] = IF i = id THEN [store[i] EXCEPT !.text = text] ELSE store[i]
  BY DEF UpdateRow
<1> HIDE DEF new
<1>2. ASSUME NEW i \in DOMAIN store
      PROVE  new[i] = [sess |-> store[i].sess, scope |-> store[i].scope,
                       text |-> IF i = id THEN text ELSE store[i].text]
  <2>1. store[i] = [sess |-> store[i].sess, scope |-> store[i].scope, text |-> store[i].text]
    BY DEF Table
  <2>2. [store[i] EXCEPT !.text = text]
          = [sess |-> store[i].sess, scope |-> store[i].scope, text |-> text]
    BY <2>1
  <2> QED
    BY <1>1, <2>1, <2>2
<1>3. Table(new)
  BY <1>1, <1>2 DEF Table
<1>4. \A i \in DOMAIN store :
         /\ new[i].sess = store[i].sess /\ new[i].scope = store[i].scope
         /\ new[i].text = IF i = id THEN text ELSE store[i].text
  <2> SUFFICES ASSUME NEW i \in DOMAIN store
               PROVE  /\ new[i].sess = store[i].sess /\ new[i].scope = store[i].scope
                      /\ new[i].text = IF i = id THEN text ELSE store[i].text
    OBVIOUS
  <2> DEFINE words == IF i = id THEN text ELSE store[i].text
  <2>1. new[i] = [sess |-> store[i].sess, scope |-> store[i].scope, text |-> words]
    BY <1>2
  <2> HIDE DEF words
  <2>2. /\ new[i].sess = store[i].sess /\ new[i].scope = store[i].scope
        /\ new[i].text = words
    BY <2>1
  <2> QED
    BY <2>2 DEF words
<1> QED
  BY <1>1, <1>3, <1>4 DEF new

LEMMA RowDeleted ==
    ASSUME NEW store, Table(store), NEW id
    PROVE  LET new == DeleteRow(store, id)
           IN  /\ Table(new) /\ DOMAIN new = DOMAIN store \ {id}
               /\ \A i \in DOMAIN new : new[i] = store[i]
BY DEF DeleteRow, Table

(* What the round changes can still be undone.                              *)
LEMMA UndoAfterUpdate ==
    ASSUME NEW store, Table(store), NEW before, NEW todo, NEW snaps, NEW drop,
           CanUndo(store, before, todo, snaps, drop), NEW id, NEW text,
           id \in todo \/ id \notin DOMAIN before
    PROVE  CanUndo(UpdateRow(store, id, text), before, todo, snaps, drop)
<1> DEFINE new == UpdateRow(store, id, text)
<1>1. /\ DOMAIN new = DOMAIN store
      /\ \A i \in DOMAIN store :
            /\ new[i].sess = store[i].sess /\ new[i].scope = store[i].scope
            /\ new[i].text = IF i = id THEN text ELSE store[i].text
  BY RowUpdated
<1> HIDE DEF new
<1>2. CanUndo(new, before, todo, snaps, drop)
  BY <1>1 DEF CanUndo
<1> QED
  BY <1>2 DEF new

LEMMA UndoAfterInsert ==
    ASSUME NEW store, Table(store), NEW before, NEW todo, NEW snaps, NEW drop,
           CanUndo(store, before, todo, snaps, drop), NEW id, NEW row,
           id \notin DOMAIN store
    PROVE  CanUndo(InsertRow(store, id, row), before, todo, snaps, Append(drop, id))
<1> DEFINE new == InsertRow(store, id, row)
           more == Append(drop, id)
<1>1. /\ DOMAIN new = DOMAIN store \cup {id}
      /\ \A i \in DOMAIN store : new[i] = store[i]
  BY DEF InsertRow
<1>2. /\ Sequence(more) /\ Len(drop) \in Nat /\ DOMAIN drop = 1..Len(drop)
      /\ DOMAIN more = 1..(Len(drop) + 1) /\ more[Len(drop) + 1] = id
      /\ \A k \in DOMAIN drop : more[k] = drop[k]
  BY OneMore DEF CanUndo
<1> HIDE DEF new, more
<1>3. /\ \A k \in DOMAIN more : k \in DOMAIN drop \/ k = Len(drop) + 1
      /\ \A k \in DOMAIN drop : k \in DOMAIN more
      /\ Len(drop) + 1 \in DOMAIN more
  BY <1>2
<1>4. \A i \in DOMAIN new : i \in DOMAIN before \/ \E k \in DOMAIN more : more[k] = i
  BY <1>1, <1>2, <1>3 DEF CanUndo
<1>5. \A k \in DOMAIN more : more[k] \notin DOMAIN before
  BY <1>2, <1>3 DEF CanUndo
<1>6. CanUndo(new, before, todo, snaps, more)
  BY <1>1, <1>2, <1>4, <1>5 DEF CanUndo
<1> QED
  BY <1>6 DEF new, more

LEMMA UndoAfterDelete ==
    ASSUME NEW store, Table(store), NEW before, NEW todo, NEW snaps, NEW drop,
           CanUndo(store, before, todo, snaps, drop), NEW id, id \notin DOMAIN before
    PROVE  CanUndo(DeleteRow(store, id), before, todo, snaps, drop)
<1> DEFINE new == DeleteRow(store, id)
<1>1. DOMAIN new = DOMAIN store \ {id} /\ \A i \in DOMAIN new : new[i] = store[i]
  BY RowDeleted
<1> HIDE DEF new
<1>2. CanUndo(new, before, todo, snaps, drop)
  BY <1>1 DEF CanUndo
<1> QED
  BY <1>2 DEF new

(* A lesson the round deletes is gone from the table to come to as well.    *)
LEMMA UndoAfterOwnDelete ==
    ASSUME NEW store, Table(store), NEW before, NEW todo, NEW snaps, NEW drop,
           CanUndo(store, before, todo, snaps, drop), NEW id
    PROVE  CanUndo(DeleteRow(store, id), DeleteRow(before, id), todo, snaps, drop)
<1> DEFINE new == DeleteRow(store, id)
           less == DeleteRow(before, id)
<1>1. DOMAIN new = DOMAIN store \ {id} /\ \A i \in DOMAIN new : new[i] = store[i]
  BY RowDeleted
<1>2. /\ Table(less) /\ DOMAIN less = DOMAIN before \ {id}
      /\ \A i \in DOMAIN less : less[i] = before[i]
  BY RowDeleted DEF CanUndo
<1> HIDE DEF new, less
<1>3. CanUndo(new, less, todo, snaps, drop)
  BY <1>1, <1>2 DEF CanUndo
<1> QED
  BY <1>3 DEF new, less

LEMMA RestIs ==
    ASSUME NEW store
    PROVE  /\ Table(store) => Rest(store, {}) = store
           /\ \A gone, id : Rest(store, gone \cup {id}) = DeleteRow(Rest(store, gone), id)
<1>1. Table(store) => Rest(store, {}) = store
  BY DEF Rest, Table
<1>2. ASSUME NEW gone, NEW id
      PROVE  Rest(store, gone \cup {id}) = DeleteRow(Rest(store, gone), id)
  <2>1. DOMAIN Rest(store, gone) = DOMAIN store \ gone
    BY DEF Rest
  <2>2. (DOMAIN store \ gone) \ {id} = DOMAIN store \ (gone \cup {id})
    OBVIOUS
  <2> QED
    BY <2>1, <2>2 DEF Rest, DeleteRow
<1> QED
  BY <1>1, <1>2

(* And so can what is left when one more of it is undone.                   *)
LEMMA UndoOneSnap ==
    ASSUME NEW store, Table(store), NEW before, NEW todo, NEW snaps, NEW drop,
           CanUndo(store, before, todo, snaps, drop), NEW i \in todo
    PROVE  CanUndo(IF snaps[i].existed THEN UpdateRow(store, i, snaps[i].text)
                                       ELSE DeleteRow(store, i),
                   before, todo \ {i}, snaps, drop)
<1>1. IsFiniteSet(todo \ {i})
  BY FS_Subset DEF CanUndo
<1>2. CASE snaps[i].existed
  <2> DEFINE new == UpdateRow(store, i, snaps[i].text)
  <2>1. /\ DOMAIN new = DOMAIN store
        /\ \A j \in DOMAIN store :
              /\ new[j].sess = store[j].sess /\ new[j].scope = store[j].scope
              /\ new[j].text = IF j = i THEN snaps[i].text ELSE store[j].text
    BY RowUpdated
  <2> HIDE DEF new
  <2>2. CanUndo(new, before, todo \ {i}, snaps, drop)
    BY <1>1, <1>2, <2>1 DEF CanUndo
  <2> QED
    BY <1>2, <2>2 DEF new
<1>3. CASE ~snaps[i].existed
  <2> DEFINE new == DeleteRow(store, i)
  <2>1. DOMAIN new = DOMAIN store \ {i} /\ \A j \in DOMAIN new : new[j] = store[j]
    BY RowDeleted
  <2> HIDE DEF new
  <2>2. i \notin DOMAIN before
    BY <1>3 DEF CanUndo
  <2>3. CanUndo(new, before, todo \ {i}, snaps, drop)
    BY <1>1, <2>1, <2>2 DEF CanUndo
  <2> QED
    BY <1>3, <2>3 DEF new
<1> QED
  BY <1>2, <1>3

LEMMA UndoOneCreated ==
    ASSUME NEW store, Table(store), NEW before, NEW todo, NEW snaps, NEW drop,
           CanUndo(store, before, todo, snaps, drop), drop # <<>>
    PROVE  CanUndo(DeleteRow(store, Head(drop)), before, todo, snaps, Tail(drop))
<1> DEFINE new == DeleteRow(store, Head(drop))
           rest == Tail(drop)
<1>1. /\ DOMAIN new = DOMAIN store \ {Head(drop)}
      /\ \A j \in DOMAIN new : new[j] = store[j]
  BY RowDeleted
<1>2. PICK S : drop \in Seq(S)
  BY DEF CanUndo, Sequence
<1>3. /\ rest \in Seq(S) /\ Len(drop) \in Nat /\ Len(drop) # 0
      /\ DOMAIN drop = 1..Len(drop) /\ DOMAIN rest = 1..(Len(drop) - 1)
      /\ \A k \in DOMAIN rest : rest[k] = drop[k + 1]
      /\ Head(drop) = drop[1]
  BY <1>2
<1> HIDE DEF new, rest
<1>4. /\ \A k \in DOMAIN drop : k = 1 \/ (k - 1 \in DOMAIN rest /\ rest[k - 1] = drop[k])
      /\ \A k \in DOMAIN rest : k + 1 \in DOMAIN drop
      /\ 1 \in DOMAIN drop
  BY <1>3
<1>5. \A i \in DOMAIN new : i \in DOMAIN before \/ \E k \in DOMAIN rest : rest[k] = i
  BY <1>1, <1>3, <1>4 DEF CanUndo
<1>6. \A k \in DOMAIN rest : rest[k] \notin DOMAIN before
  BY <1>3, <1>4 DEF CanUndo
<1>7. Head(drop) \notin DOMAIN before
  BY <1>3, <1>4 DEF CanUndo
<1>8. CanUndo(new, before, todo, snaps, rest)
  BY <1>1, <1>3, <1>5, <1>6, <1>7 DEF CanUndo, Sequence
<1> QED
  BY <1>8 DEF new, rest

LEMMA UndoDone ==
    ASSUME NEW store, Table(store), NEW before, NEW snaps,
           CanUndo(store, before, {}, snaps, <<>>)
    PROVE  store = before
<1>1. DOMAIN store = DOMAIN before
  BY DEF CanUndo
<1>2. ASSUME NEW i \in DOMAIN before PROVE store[i] = before[i]
  <2>1. /\ store[i] = [sess |-> store[i].sess, scope |-> store[i].scope,
                       text |-> store[i].text]
        /\ before[i] = [sess |-> before[i].sess, scope |-> before[i].scope,
                        text |-> before[i].text]
    BY <1>1 DEF CanUndo, Table
  <2>2. /\ store[i].sess = before[i].sess /\ store[i].scope = before[i].scope
        /\ store[i].text = before[i].text
    BY DEF CanUndo
  <2> QED
    BY <2>1, <2>2
<1>3. store = [i \in DOMAIN store |-> store[i]] /\ before = [i \in DOMAIN before |-> before[i]]
  BY DEF CanUndo, Table
<1> QED
  BY <1>1, <1>2, <1>3

(* The ids are not handed out again, and a lesson keeps its session and its *)
(* scope.                                                                   *)
Moves(n, store, m, new) ==
    /\ n \in Nat /\ m \in Nat /\ n <= m
    /\ Table(new) /\ DOMAIN new \subseteq 1..m
    /\ \A i \in DOMAIN new : i \in 1..n =>
          i \in DOMAIN store /\ new[i].sess = store[i].sess /\ new[i].scope = store[i].scope

LEMMA SameMoves ==
    ASSUME NEW n \in Nat, NEW store, Table(store), DOMAIN store \subseteq 1..n
    PROVE  Moves(n, store, n, store)
BY DEF Moves

LEMMA UpdateMoves ==
    ASSUME NEW n \in Nat, NEW store, Table(store), DOMAIN store \subseteq 1..n,
           NEW id, NEW text
    PROVE  Moves(n, store, n, UpdateRow(store, id, text))
<1> DEFINE new == UpdateRow(store, id, text)
<1>1. /\ Table(new) /\ DOMAIN new = DOMAIN store
      /\ \A i \in DOMAIN store :
            new[i].sess = store[i].sess /\ new[i].scope = store[i].scope
  BY RowUpdated
<1> HIDE DEF new
<1>2. Moves(n, store, n, new)
  BY <1>1 DEF Moves
<1> QED
  BY <1>2 DEF new

LEMMA DeleteMoves ==
    ASSUME NEW n \in Nat, NEW store, Table(store), DOMAIN store \subseteq 1..n, NEW id
    PROVE  Moves(n, store, n, DeleteRow(store, id))
<1> DEFINE new == DeleteRow(store, id)
<1>1. /\ Table(new) /\ DOMAIN new = DOMAIN store \ {id}
      /\ \A i \in DOMAIN new : new[i] = store[i]
  BY RowDeleted
<1> HIDE DEF new
<1>2. Moves(n, store, n, new)
  BY <1>1 DEF Moves
<1> QED
  BY <1>2 DEF new

LEMMA InsertMoves ==
    ASSUME NEW n \in Nat, NEW store, Table(store), DOMAIN store \subseteq 1..n, NEW row,
           row = [sess |-> row.sess, scope |-> row.scope, text |-> row.text]
    PROVE  n + 1 \notin DOMAIN store /\ Moves(n, store, n + 1, InsertRow(store, n + 1, row))
<1> DEFINE new == InsertRow(store, n + 1, row)
<1>1. n + 1 \notin DOMAIN store
  OBVIOUS
<1>2. /\ Table(new) /\ DOMAIN new = DOMAIN store \cup {n + 1}
      /\ \A i \in DOMAIN store : new[i] = store[i]
  BY <1>1 DEF InsertRow, Table
<1> HIDE DEF new
<1>3. Moves(n, store, n + 1, new)
  BY <1>2 DEF Moves
<1> QED
  BY <1>1, <1>3 DEF new

LEMMA ShownStays ==
    ASSUME NEW n, NEW store, NEW m, NEW new, Moves(n, store, m, new),
           NEW seen, NEW s, Shown(seen, s, n, store)
    PROVE  Shown(seen, s, m, new)
<1>1. \A i : i \in 1..n => i \in 1..m
  BY DEF Moves
<1> QED
  BY <1>1 DEF Moves, Shown

LEMMA EditsStay ==
    ASSUME NEW n, NEW store, NEW m, NEW new, Moves(n, store, m, new),
           NEW edits, GoodEdits(edits, 1..n)
    PROVE  GoodEdits(edits, 1..m)
<1>1. \A i : i \in 1..n => i \in 1..m
  BY DEF Moves
<1> QED
  BY <1>1 DEF GoodEdits, GoodEdit

(* The targets of edits are finitely many numbers, and none is that of a    *)
(* create.                                                                  *)
LEMMA TargetsAre ==
    ASSUME NEW n \in Nat, NEW edits, GoodEdits(edits, 1..n)
    PROVE  /\ IsFiniteSet(Targets(edits))
           /\ \A i \in Targets(edits) : i \in 1..n \cup Pending
           /\ \A k \in DOMAIN edits :
                 edits[k].op # "create" => edits[k].id \in Targets(edits)
<1> DEFINE ids_of == [k \in DOMAIN edits |-> edits[k].id]
           all == {ids_of[k] : k \in DOMAIN ids_of}
<1>1. IsFiniteSet(DOMAIN edits)
  <2>1. PICK S : edits \in Seq(S)
    BY DEF GoodEdits, Sequence
  <2>2. DOMAIN edits = 1..Len(edits) /\ Len(edits) \in Nat
    BY <2>1
  <2> QED
    BY <2>2, FS_Interval
<1>2. IsFiniteSet(all)
  <2>1. IsFiniteSet(DOMAIN ids_of)
    BY <1>1
  <2> HIDE DEF ids_of
  <2> QED
    BY <2>1, ImageFinite
<1>3. Targets(edits) = all \ {0}
  BY DEF Targets, None
<1>4. IsFiniteSet(Targets(edits))
  <2> HIDE DEF all
  <2> QED
    BY <1>2, <1>3, FS_Subset
<1>5. \A i \in Targets(edits) : i \in 1..n \cup Pending
  BY DEF Targets, None, GoodEdits, GoodEdit
<1>6. \A k \in DOMAIN edits : edits[k].op # "create" => edits[k].id \in Targets(edits)
  BY DEF Targets, None, GoodEdits, GoodEdit, Pending
<1> QED
  BY <1>4, <1>5, <1>6

(* The place of a number of a finite set, from the largest down, is taken   *)
(* by one of them.                                                          *)
LEMMA Ranked ==
    ASSUME NEW S \in SUBSET Int, IsFiniteSet(S), NEW k \in 1..Cardinality(S)
    PROVE  \E i \in S : Cardinality({j \in S : j >= i}) = k
<1> DEFINE Above(i) == {j \in S : j >= i}
           rank == [i \in S |-> Cardinality(Above(i))]
           m == Cardinality(S)
<1>1. m \in Nat /\ IsFiniteSet(1..m) /\ Cardinality(1..m) = m
  <2>1. m \in Nat
    BY FS_CardinalityType
  <2> QED
    BY <2>1, FS_Interval
<1>2. ASSUME NEW i \in S
      PROVE  IsFiniteSet(Above(i)) /\ Cardinality(Above(i)) \in 1..m
  <2>1. IsFiniteSet(Above(i)) /\ Cardinality(Above(i)) <= m
    BY FS_Subset
  <2>2. Cardinality(Above(i)) \in Nat
    BY <2>1, FS_CardinalityType
  <2>3. Cardinality(Above(i)) # 0
    <3>1. i \in Above(i)
      OBVIOUS
    <3> QED
      BY <2>1, <3>1, FS_EmptySet
  <2> QED
    BY <1>1, <2>1, <2>2, <2>3
<1>3. ASSUME NEW i \in S, NEW j \in S, i < j
      PROVE  rank[j] < rank[i]
  <2>1. Above(j) \cup {i} \subseteq Above(i) /\ i \notin Above(j)
    <3>1. i \in Int /\ j \in Int /\ \A x \in S : x \in Int
      OBVIOUS
    <3>2. \A x \in Above(j) : x \in S /\ x >= i
      BY <1>3, <3>1
    <3>3. i >= i /\ ~(i >= j)
      BY <1>3, <3>1
    <3> QED
      BY <3>2, <3>3
  <2>2. Cardinality(Above(j) \cup {i}) = Cardinality(Above(j)) + 1
    BY <1>2, <2>1, FS_AddElement
  <2>3. Cardinality(Above(j) \cup {i}) <= Cardinality(Above(i))
    <3>1. IsFiniteSet(Above(i))
      BY <1>2
    <3> HIDE DEF Above
    <3> QED
      BY <2>1, <3>1, FS_Subset
  <2> QED
    BY <1>2, <2>2, <2>3
<1>4. rank \in Surjection(S, 1..m)
  <2>1. rank \in [S -> 1..m]
    BY <1>2
  <2>2. \A i, j \in S : rank[i] = rank[j] => i = j
    <3> SUFFICES ASSUME NEW i \in S, NEW j \in S, rank[i] = rank[j], i # j PROVE FALSE
      OBVIOUS
    <3>1. i < j \/ j < i
      OBVIOUS
    <3>2. rank[i] \in Nat /\ rank[j] \in Nat
      BY <2>1
    <3> HIDE DEF rank
    <3> QED
      BY <1>3, <3>1, <3>2
  <2>3. rank \in Injection(S, 1..m)
    BY <2>1, <2>2 DEF Injection, IsInjective
  <2> HIDE DEF rank
  <2> QED
    BY <1>1, <2>3, FS_Injection
<1>5. \E i \in S : rank[i] = k
  <2> HIDE DEF rank
  <2> QED
    BY <1>4 DEF Surjection
<1> QED
  BY <1>5

LEMMA ListedShown ==
    ASSUME LessonInv, NEW s
    PROVE  Shown(Listed(s), s, ids, lessons)
<1> DEFINE vis == Visible(s)
           nth(k) == CHOOSE i \in vis : Cardinality({j \in vis : j >= i}) = k
           list == Listed(s)
           n == Cardinality(vis)
<1>1. /\ vis \subseteq 1..ids /\ vis \subseteq DOMAIN lessons
      /\ \A i \in vis : lessons[i].scope = "global" \/ lessons[i].sess = s
  BY DEF LessonInv, Visible
<1>2. vis \in SUBSET Int /\ IsFiniteSet(vis) /\ n \in Nat
  <2>1. vis \in SUBSET (0..ids) /\ ids \in Nat
    BY <1>1 DEF LessonInv
  <2> HIDE DEF vis
  <2>2. IsFiniteSet(vis) /\ vis \subseteq Int
    BY <2>1, UpToFinite
  <2> QED
    BY <2>2, FS_CardinalityType
<1>3. list = [k \in 1..n |-> [id |-> nth(k), text |-> lessons[nth(k)].text,
                              scope |-> lessons[nth(k)].scope]]
  BY DEF Listed, Cardinality, Cardinality
<1> HIDE DEF vis, list
<1>4. ASSUME NEW k \in 1..n PROVE nth(k) \in vis
  <2>1. \E i \in vis : Cardinality({j \in vis : j >= i}) = k
    BY <1>2, Ranked
  <2> QED
    BY <2>1
<1> HIDE DEF nth
<1>5. DOMAIN list = 1..n /\ \A k \in 1..n : "id" \in DOMAIN list[k] /\ list[k].id = nth(k)
  BY <1>3
<1>6. Sequence(list)
  <2>1. list \in [1..n -> {list[k] : k \in 1..n}]
    BY <1>3
  <2>2. list \in Seq({list[k] : k \in 1..n})
    BY <1>2, <2>1, SeqDef
  <2> QED
    BY <2>2 DEF Sequence
<1>7. Shown(list, s, ids, lessons)
  BY <1>1, <1>4, <1>5, <1>6 DEF Shown
<1> QED
  BY <1>7 DEF list

-----------------------------------------------------------------------------
(* The steps: what they leave of the parts of the invariant                 *)

LEMMA SeeingStays ==
    ASSUME LessonInv, Moves(ids, lessons, ids', lessons'),
           \A t \in Threads : round'[t].at = "review" =>
               /\ round[t].at = "review"
               /\ round'[t].seen = round[t].seen /\ round'[t].sess = round[t].sess
               /\ round'[t].made = round[t].made
               /\ round'[t].deleted = round[t].deleted
    PROVE  Seeing'
<1> SUFFICES ASSUME NEW t \in Threads, round'[t].at = "review"
             PROVE  /\ Shown(round'[t].seen, round'[t].sess, ids', lessons')
                    /\ round'[t].made = <<>> /\ round'[t].deleted = {}
  BY DEF Seeing
<1>1. /\ Shown(round[t].seen, round[t].sess, ids, lessons)
      /\ round[t].made = <<>> /\ round[t].deleted = {}
  BY DEF LessonInv, Seeing
<1> QED
  BY <1>1, ShownStays

LEMMA TableStays ==
    ASSUME Moves(ids, lessons, ids', lessons')
    PROVE  ids' \in Nat /\ Table(lessons') /\ DOMAIN lessons' \subseteq 1..ids'
BY DEF Moves

(* A thread that applies edits goes on to do so, or another starts to.      *)
LEMMA ApplyingStays ==
    ASSUME LessonInv, UNCHANGED <<ids, lessons>>,
           \A t \in Threads : round'[t].at = "apply" =>
               /\ round[t].at = "apply" /\ round'[t].edits = round[t].edits
               /\ round'[t].done = round[t].done /\ round'[t].snaps = round[t].snaps
               /\ round'[t].made = round[t].made /\ round'[t].before = round[t].before
               /\ round'[t].deleted = round[t].deleted
               /\ round'[t].alone => round[t].alone
    PROVE  Applying'
BY DEF LessonInv, Applying

(* While a rollback runs, no round can be undone by it.                     *)
LEMMA ApplyingInRollback ==
    ASSUME LessonInv, undo.at # "idle", UNCHANGED <<round, ids>>
    PROVE  Applying'
BY DEF LessonInv, Applying, Alone

LEMMA NothingToUndo ==
    ASSUME RefineInv', restorable' = NoPast
    PROVE  Undoable' /\ Undoing'
<1>1. restorable'.of = 0
  BY DEF NoPast, None
<1>2. undo'.at # "idle" => undo'.row # 0
  BY DEF RefineInv, UndoTypes, AuditTypes
<1> QED
  BY <1>1, <1>2 DEF Undoable, Undoing, None

(* What leaves the store, its history and the rollback alone.               *)
LEMMA UndoStays ==
    ASSUME LessonInv, UNCHANGED <<lessons, audit, undo, restorable>>
    PROVE  Undoable' /\ Undoing'
BY DEF LessonInv, Undoable, Undoing, Begun, Target

(* A thread that looks at the flag, or cannot start its round.              *)
LEMMA LessonsOnLook ==
    ASSUME RefineInv, LessonInv, NEW t \in Threads, Look(t) \/ ScheduleFails(t)
    PROVE  LessonInv'
<1>1. /\ UNCHANGED <<lessons, ids, audit, undo, restorable>>
      /\ round'[t].at \notin {"review", "apply"}
      /\ round'[t].alone => round[t].alone
      /\ \A u \in Threads \ {t} : round'[u] = round[u]
  <2>1. CASE Look(t)
    BY <2>1 DEF RefineInv, RoundTypes, Look, Idle
  <2>2. CASE ScheduleFails(t)
    BY <2>2 DEF RefineInv, RoundTypes, ScheduleFails, Idle
  <2> QED
    BY <2>1, <2>2
<1>2. Moves(ids, lessons, ids', lessons')
  BY <1>1, SameMoves DEF LessonInv
<1>3. Seeing'
  BY <1>1, <1>2, SeeingStays
<1>4. Applying'
  BY <1>1, ApplyingStays
<1>5. Alone'
  BY <1>1 DEF LessonInv, Alone
<1> QED
  BY <1>1, <1>3, <1>4, <1>5, UndoStays DEF LessonInv

LEMMA LessonsOnSchedule ==
    ASSUME RefineInv, LessonInv, NEW t \in Threads, Schedule(t)
    PROVE  LessonInv'
<1>1. /\ UNCHANGED <<lessons, ids, audit, undo, restorable>>
      /\ round'[t].at = "review" /\ round'[t].seen = Listed(current)
      /\ round'[t].sess = current /\ round'[t].alone = FALSE
      /\ round'[t].made = <<>> /\ round'[t].deleted = {}
  BY DEF RefineInv, RoundTypes, Schedule, Idle
<1>2. \A u \in Threads \ {t} :
         /\ round'[u].at = round[u].at /\ round'[u].sess = round[u].sess
         /\ round'[u].seen = round[u].seen /\ round'[u].made = round[u].made
         /\ round'[u].deleted = round[u].deleted /\ round'[u].before = round[u].before
         /\ round'[u].edits = round[u].edits /\ round'[u].done = round[u].done
         /\ round'[u].snaps = round[u].snaps /\ round'[u].alone = round[u].alone
  BY DEF RefineInv, RoundTypes, Schedule, Idle
<1>3. Seeing'
  <2> SUFFICES ASSUME NEW u \in Threads, round'[u].at = "review"
               PROVE  /\ Shown(round'[u].seen, round'[u].sess, ids', lessons')
                      /\ round'[u].made = <<>> /\ round'[u].deleted = {}
    BY DEF Seeing
  <2>1. CASE u = t
    BY <1>1, <2>1, ListedShown
  <2>2. CASE u # t
    BY <1>1, <1>2, <2>2 DEF LessonInv, Seeing
  <2> QED
    BY <2>1, <2>2
<1>4. Applying'
  BY <1>1, <1>2, ApplyingStays
<1>5. Alone'
  BY <1>1, <1>2 DEF LessonInv, Alone
<1> QED
  BY <1>1, <1>3, <1>4, <1>5, UndoStays DEF LessonInv

LEMMA LessonsOnEnd ==
    ASSUME RefineInv, LessonInv, NEW t \in Threads, RoundFails(t) \/ EndRound(t)
    PROVE  LessonInv'
<1>1. /\ UNCHANGED <<lessons, ids, audit, undo, restorable>>
      /\ round'[t].at = "idle" /\ round'[t].alone = FALSE
      /\ \A u \in Threads \ {t} : round'[u] = round[u]
  <2>1. /\ UNCHANGED <<lessons, ids, audit, undo, restorable>>
        /\ round' = [round EXCEPT ![t] = Idle]
    BY DEF RoundFails, EndRound, Ends
  <2>2. Idle.at = "idle" /\ Idle.alone = FALSE
    BY DEF Idle
  <2> QED
    BY <2>1, <2>2 DEF RefineInv, RoundTypes
<1>2. Moves(ids, lessons, ids', lessons')
  BY <1>1, SameMoves DEF LessonInv
<1>3. Seeing'
  BY <1>1, <1>2, SeeingStays
<1>4. Applying'
  BY <1>1, ApplyingStays
<1>5. Alone'
  BY <1>1 DEF LessonInv, Alone
<1> QED
  BY <1>1, <1>3, <1>4, <1>5, UndoStays DEF LessonInv

(* The snapshots are of the table as it is when the round starts to apply.  *)
LEMMA LessonsOnReview ==
    ASSUME RefineInv, LessonInv, RefineInv', NEW t \in Threads, Review(t)
    PROVE  LessonInv'
<1> DEFINE r == round[t]
           new == round'[t]
           vis == Visible(r.sess)
           edits(raw) == Sanitized(raw, r.seen)
           snaps(raw) == [i \in Targets(edits(raw)) |->
                             [existed |-> i \in vis,
                              text |-> IF i \in vis THEN lessons[i].text ELSE <<>>]]
           After(raw) == round' = [round EXCEPT ![t] =
               [r EXCEPT !.at = "apply", !.edits = edits(raw), !.seen = <<>>,
                         !.done = 0, !.num = LastRound(r.sess) + 1,
                         !.read = Len(audit), !.before = lessons,
                         !.alone = (undo.at = "idle"),
                         !.snaps = snaps(raw)]]
<1>1. \E n \in 1..(MaxEdits + 1) : \E raw \in [1..n -> Proposals] : After(raw)
  BY Zenon DEF Review
<1>2. PICK n, raw : n \in Nat /\ raw \in [1..n -> Proposals] /\ After(raw)
  <2> HIDE DEF After
  <2> QED
    BY <1>1
<1>3. UNCHANGED <<lessons, ids, audit, undo>> /\ restorable' = NoPast /\ r.at = "review"
  BY DEF Review
<1>4. /\ new.at = "apply" /\ new.edits = edits(raw) /\ new.done = 0
      /\ new.before = lessons /\ new.alone = (undo.at = "idle")
      /\ new.snaps = snaps(raw) /\ new.made = r.made /\ new.deleted = r.deleted
      /\ \A u \in Threads \ {t} : round'[u] = round[u]
  <2> HIDE DEF edits, snaps
  <2> QED
    BY <1>2 DEF RefineInv, RoundTypes, Idle
<1>5. /\ ids \in Nat /\ Table(lessons) /\ DOMAIN lessons \subseteq 1..ids
      /\ Shown(r.seen, r.sess, ids, lessons) /\ r.made = <<>> /\ r.deleted = {}
  BY <1>3 DEF LessonInv, Seeing
<1> DEFINE known == {r.seen[k].id : k \in DOMAIN r.seen}
<1>6. /\ GoodEdits(edits(raw), known)
      /\ \A i \in known : i \in 1..ids /\ (i \in DOMAIN lessons => i \in vis)
  <2>1. Sequence(r.seen) /\ \A k \in DOMAIN r.seen : "id" \in DOMAIN r.seen[k]
    BY <1>5 DEF Shown
  <2>2. GoodEdits(edits(raw), known)
    BY <1>2, <2>1, SanitizedGood
  <2>3. \A i \in known : i \in 1..ids /\ (i \in DOMAIN lessons => i \in vis)
    BY <1>5 DEF Shown, Visible
  <2> QED
    BY <2>2, <2>3
<1> DEFINE T == Targets(edits(raw))
<1>7. /\ DOMAIN snaps(raw) = T
      /\ \A i \in T : /\ snaps(raw)[i].existed = (i \in vis)
                      /\ i \in vis => snaps(raw)[i].text = lessons[i].text
  OBVIOUS
<1> HIDE DEF edits, snaps, known
<1>8. GoodEdits(edits(raw), 1..ids)
  BY <1>6 DEF GoodEdits, GoodEdit
<1>9. /\ IsFiniteSet(T) /\ T \subseteq Int
      /\ \A i \in T : i \in DOMAIN lessons <=> i \in vis
  <2>1. IsFiniteSet(T) /\ \A i \in T : i \in 1..ids \cup Pending
    BY <1>5, <1>8, TargetsAre
  <2>2. T \subseteq Int
    BY <2>1 DEF Pending
  <2>3. \A i \in T : i \in known \cup Pending
    BY <1>6 DEF GoodEdits, GoodEdit, Targets, None
  <2>4. \A i \in Pending : i \notin DOMAIN lessons
    BY <1>5 DEF Pending
  <2>5. vis \subseteq DOMAIN lessons
    BY DEF Visible
  <2> QED
    BY <1>6, <2>1, <2>2, <2>3, <2>4, <2>5
<1> HIDE DEF vis, T
<1>10. CanUndo(lessons, lessons, T, snaps(raw), <<>>)
  <2>1. Sequence(<<>>) /\ DOMAIN <<>> = {}
    BY DEF Sequence
  <2> QED
    BY <1>5, <1>7, <1>9, <2>1 DEF CanUndo
<1>11. Applying'
  <2> SUFFICES ASSUME NEW u \in Threads, round'[u].at = "apply"
               PROVE  /\ GoodEdits(round'[u].edits, 1..ids') /\ round'[u].done \in Nat
                      /\ DOMAIN round'[u].snaps = Targets(round'[u].edits)
                      /\ round'[u].alone =>
                            CanUndo(lessons', Rest(round'[u].before, round'[u].deleted),
                                    DOMAIN round'[u].snaps, round'[u].snaps,
                                    round'[u].made)
    BY DEF Applying
  <2>1. CASE u = t
    <3>1. Rest(lessons, {}) = lessons
      BY <1>5, RestIs
    <3>2. Rest(new.before, new.deleted) = lessons
      BY <1>4, <1>5, <3>1
    <3>3. CanUndo(lessons, Rest(new.before, new.deleted), DOMAIN new.snaps, new.snaps,
                  new.made)
      BY <1>4, <1>5, <1>7, <1>10, <3>2
    <3> HIDE DEF new
    <3>4. /\ GoodEdits(new.edits, 1..ids) /\ new.done \in Nat
          /\ DOMAIN new.snaps = Targets(new.edits)
      BY <1>4, <1>7, <1>8 DEF T
    <3> QED
      BY <1>3, <2>1, <3>3, <3>4 DEF new
  <2>2. CASE u # t
    BY <1>3, <1>4, <2>2 DEF LessonInv, Applying
  <2> QED
    BY <2>1, <2>2
<1>12. Seeing'
  <2>1. Moves(ids, lessons, ids', lessons')
    BY <1>3, <1>5, SameMoves
  <2>2. \A u \in Threads : round'[u].at = "review" => u # t
    BY <1>4
  <2> QED
    BY <1>4, <2>1, <2>2, SeeingStays
<1>13. Alone'
  BY <1>3, <1>4 DEF LessonInv, Alone
<1> QED
  BY <1>3, <1>5, <1>11, <1>12, <1>13, NothingToUndo DEF LessonInv

LEMMA LessonsOnApply ==
    ASSUME RefineInv, LessonInv, RefineInv', NEW t \in Threads, Apply(t)
    PROVE  LessonInv'
<1> DEFINE r == round[t]
           new == round'[t]
           e == r.edits[r.done + 1]
           row == [sess |-> r.sess, scope |-> e.scope, text |-> e.text]
<1>1. /\ r.at = "apply" /\ r.done < Len(r.edits)
      /\ UNCHANGED <<audit, undo>> /\ restorable' = NoPast
  BY DEF Apply
<1>2. /\ new.done = r.done + 1
      /\ \/ /\ e.op = "create" /\ ids' = ids + 1
            /\ lessons' = InsertRow(lessons, ids + 1, row)
            /\ new.made = Append(r.made, ids + 1) /\ new.deleted = r.deleted
         \/ /\ e.op = "update" /\ ids' = ids
            /\ lessons' = UpdateRow(lessons, e.id, e.text)
            /\ new.made = r.made /\ new.deleted = r.deleted
         \/ /\ e.op = "delete" /\ ids' = ids
            /\ lessons' = DeleteRow(lessons, e.id)
            /\ new.made = r.made /\ new.deleted = r.deleted \cup {e.id}
  <2>1. /\ new = [r EXCEPT !.done = @ + 1, !.made = Append(@, ids + 1)]
           => /\ new.done = r.done + 1 /\ new.made = Append(r.made, ids + 1)
              /\ new.deleted = r.deleted
        /\ new = [r EXCEPT !.done = @ + 1]
           => new.done = r.done + 1 /\ new.made = r.made /\ new.deleted = r.deleted
        /\ new = [r EXCEPT !.done = @ + 1, !.deleted = @ \cup {e.id}]
           => /\ new.done = r.done + 1 /\ new.made = r.made
              /\ new.deleted = r.deleted \cup {e.id}
    BY DEF RefineInv, RoundTypes, Idle
  <2>2. \A x : Others(t, x)[t] = x
    BY DEF Others
  <2> HIDE DEF r, new, e, row
  <2> QED
    BY <2>1, <2>2 DEF Apply, r, new, e, row
<1>3. /\ ids \in Nat /\ Table(lessons) /\ DOMAIN lessons \subseteq 1..ids
      /\ GoodEdits(r.edits, 1..ids) /\ r.done \in Nat
      /\ DOMAIN r.snaps = Targets(r.edits)
      /\ r.alone => CanUndo(lessons, Rest(r.before, r.deleted), DOMAIN r.snaps, r.snaps,
                            r.made)
  BY <1>1 DEF LessonInv, Applying
<1>4. r.done + 1 \in DOMAIN r.edits
  <2>1. PICK S : r.edits \in Seq(S)
    BY <1>3 DEF GoodEdits, Sequence
  <2>2. DOMAIN r.edits = 1..Len(r.edits) /\ Len(r.edits) \in Nat
    BY <2>1
  <2> QED
    BY <1>1, <1>3, <2>2
<1>5. e.op # "create" => e.id \in Targets(r.edits)
  BY <1>3, <1>4, TargetsAre
<1>6. row = [sess |-> row.sess, scope |-> row.scope, text |-> row.text]
  OBVIOUS
<1>7. ids + 1 \notin DOMAIN lessons
  BY <1>3
<1> HIDE DEF row
<1>8. Moves(ids, lessons, ids', lessons')
  <2>1. CASE e.op = "create"
    BY <1>2, <1>3, <1>6, <2>1, InsertMoves
  <2>2. CASE e.op = "update"
    BY <1>2, <1>3, <2>2, UpdateMoves
  <2>3. CASE e.op \notin {"create", "update"}
    BY <1>2, <1>3, <2>3, DeleteMoves
  <2> QED
    BY <2>1, <2>2, <2>3
<1>9. r.alone => CanUndo(lessons', Rest(r.before, new.deleted), DOMAIN r.snaps, r.snaps,
                         new.made)
  <2> DEFINE goal == Rest(r.before, r.deleted)
  <2> SUFFICES ASSUME r.alone
               PROVE  CanUndo(lessons', Rest(r.before, new.deleted), DOMAIN r.snaps,
                              r.snaps, new.made)
    OBVIOUS
  <2>1. CanUndo(lessons, goal, DOMAIN r.snaps, r.snaps, r.made)
    BY <1>3
  <2>2. CASE e.op = "create"
    <3>1. CanUndo(InsertRow(lessons, ids + 1, row), goal, DOMAIN r.snaps, r.snaps,
                  Append(r.made, ids + 1))
      BY <1>3, <1>7, <2>1, UndoAfterInsert
    <3>2. /\ lessons' = InsertRow(lessons, ids + 1, row)
          /\ new.made = Append(r.made, ids + 1) /\ new.deleted = r.deleted
      BY <1>2, <2>2
    <3> QED
      BY <3>1, <3>2
  <2>3. CASE e.op = "update"
    <3>1. CanUndo(UpdateRow(lessons, e.id, e.text), goal, DOMAIN r.snaps, r.snaps, r.made)
      BY <1>3, <1>5, <2>1, <2>3, UndoAfterUpdate
    <3>2. /\ lessons' = UpdateRow(lessons, e.id, e.text) /\ new.made = r.made
          /\ new.deleted = r.deleted
      BY <1>2, <2>3
    <3> QED
      BY <3>1, <3>2
  <2>4. CASE e.op = "delete"
    <3>1. CanUndo(DeleteRow(lessons, e.id), DeleteRow(goal, e.id), DOMAIN r.snaps, r.snaps,
                  r.made)
      BY <1>3, <2>1, UndoAfterOwnDelete
    <3>2. Rest(r.before, r.deleted \cup {e.id}) = DeleteRow(goal, e.id)
      BY RestIs
    <3>3. /\ lessons' = DeleteRow(lessons, e.id) /\ new.made = r.made
          /\ new.deleted = r.deleted \cup {e.id}
      BY <1>2, <2>4
    <3> QED
      BY <3>1, <3>2, <3>3
  <2> QED
    BY <1>2, <2>2, <2>3, <2>4
<1>11. GoodEdits(r.edits, 1..ids')
  BY <1>3, <1>8, EditsStay
<1>12. Applying'
  <2> HIDE DEF e
  <2> SUFFICES ASSUME NEW u \in Threads, round'[u].at = "apply"
               PROVE  /\ GoodEdits(round'[u].edits, 1..ids') /\ round'[u].done \in Nat
                      /\ DOMAIN round'[u].snaps = Targets(round'[u].edits)
                      /\ round'[u].alone =>
                            CanUndo(lessons', Rest(round'[u].before, round'[u].deleted),
                                    DOMAIN round'[u].snaps, round'[u].snaps,
                                    round'[u].made)
    BY DEF Applying
  <2>1. /\ round[u].at = "apply" /\ round'[u].edits = round[u].edits
        /\ round'[u].snaps = round[u].snaps /\ round'[u].before = round[u].before
    BY ApplyParts
  <2>2. CASE u = t
    <3>1. new.done \in Nat /\ new.alone = r.alone
      <4>1. new.alone = r.alone
        BY ApplyParts
      <4>2. new.done = r.done + 1 /\ r.done \in Nat
        BY <1>2, <1>3
      <4> HIDE DEF new, r
      <4> QED
        BY <4>1, <4>2
    <3> QED
      BY <1>3, <1>9, <1>11, <2>1, <2>2, <3>1
  <2>3. CASE u # t
    <3>1. round'[u].alone = FALSE /\ round'[u].done = round[u].done
      BY <2>3, ApplyParts
    <3>2. /\ GoodEdits(round[u].edits, 1..ids) /\ round[u].done \in Nat
          /\ DOMAIN round[u].snaps = Targets(round[u].edits)
      BY <2>1 DEF LessonInv, Applying
    <3>3. GoodEdits(round[u].edits, 1..ids')
      BY <1>8, <3>2, EditsStay
    <3> QED
      BY <2>1, <3>1, <3>2, <3>3
  <2> QED
    BY <2>2, <2>3
<1>13. Seeing'
  <2>1. \A u \in Threads : round'[u].at = "review" =>
           /\ u # t /\ round[u].at = "review"
           /\ round'[u].seen = round[u].seen /\ round'[u].sess = round[u].sess
           /\ round'[u].made = round[u].made /\ round'[u].deleted = round[u].deleted
    BY <1>1, ApplyParts
  <2> QED
    BY <1>8, <2>1, SeeingStays
<1>14. Alone'
  <2>1. \A u \in Threads : round'[u].alone => u = t /\ r.alone
    BY ApplyParts
  <2> QED
    BY <1>1, <2>1 DEF LessonInv, Alone
<1> QED
  BY <1>1, <1>8, <1>12, <1>13, <1>14, NothingToUndo, TableStays DEF LessonInv

LEMMA LessonsOnAuditRound ==
    ASSUME RefineInv, LessonInv, RefineInv', NEW t \in Threads, AuditRound(t)
    PROVE  LessonInv'
<1> DEFINE r == round[t]
           e == RoundRow(r)
<1>1. /\ UNCHANGED <<lessons, ids, undo>> /\ r.at = "apply"
      /\ audit' = Append(audit, e) /\ restorable' = Past(r)
      /\ round'[t].at = "edits" /\ round'[t].alone = r.alone
      /\ \A u \in Threads \ {t} : round'[u] = round[u]
  BY DEF AuditRound, RefineInv, RoundTypes, Idle
<1>2. e.num = r.num /\ e.snaps = r.snaps /\ e.made = r.made
  BY DEF RoundRow, AuditRow
<1> HIDE DEF e
<1>3. Moves(ids, lessons, ids', lessons')
  BY <1>1, SameMoves DEF LessonInv
<1>4. Seeing' /\ Applying' /\ Alone'
  <2>1. Seeing'
    BY <1>1, <1>3, SeeingStays
  <2>2. Applying'
    BY <1>1, ApplyingStays
  <2>3. Alone'
    BY <1>1 DEF LessonInv, Alone
  <2> QED
    BY <2>1, <2>2, <2>3
<1>5. CASE ~r.alone
  BY <1>1, <1>4, <1>5, NothingToUndo DEF LessonInv, Past
<1>6. CASE r.alone
  <2>1. /\ CanUndo(lessons, Rest(r.before, r.deleted), DOMAIN r.snaps, r.snaps, r.made)
        /\ undo.at = "idle"
    BY <1>1, <1>6 DEF LessonInv, Applying, Alone
  <2>2. /\ Len(audit) + 1 \in DOMAIN audit' /\ audit'[Len(audit) + 1] = e
    <3>1. e.num \in 1..(Len(audit) + 1) /\ Len(audit) \in Nat
      BY <1>1, <1>2 DEF RefineInv, Numbered, AuditTypes
    <3>2. DOMAIN audit' = 1..(Len(audit) + 1) /\ audit'[Len(audit) + 1] = e
      BY <1>1, <3>1, AuditGrows
    <3> QED
      BY <3>1, <3>2
  <2>3. /\ restorable'.of = Len(audit) + 1 /\ restorable'.before = r.before
        /\ restorable'.deleted = r.deleted
    BY <1>1, <1>6 DEF Past
  <2>4. Undoable'
    BY <1>1, <1>2, <2>1, <2>2, <2>3 DEF Undoable, Target
  <2>5. Undoing'
    BY <1>1, <2>1 DEF Undoing
  <2> QED
    BY <1>1, <1>4, <2>4, <2>5 DEF LessonInv
<1> QED
  BY <1>5, <1>6

LEMMA LessonsOnAuditEdit ==
    ASSUME RefineInv, LessonInv, NEW t \in Threads, AuditEdit(t)
    PROVE  LessonInv'
<1> DEFINE e == AuditRow(round[t], "edit")
<1>1. /\ UNCHANGED <<lessons, ids, undo, restorable>> /\ round[t].at = "edits"
      /\ audit' = Append(audit, e)
      /\ round'[t].at = "edits" /\ round'[t].alone = round[t].alone
      /\ \A u \in Threads \ {t} : round'[u] = round[u]
  BY DEF AuditEdit, RefineInv, RoundTypes, Idle
<1>2. e.num \in 1..(Len(audit) + 1)
  <2>1. e.num = round[t].num
    BY DEF AuditRow
  <2> HIDE DEF e
  <2> QED
    BY <1>1, <2>1 DEF RefineInv, Numbered, AuditTypes
<1> HIDE DEF e
<1>3. \A i \in DOMAIN audit : i \in DOMAIN audit' /\ audit'[i] = audit[i]
  BY <1>1, <1>2, AuditGrows
<1>4. Moves(ids, lessons, ids', lessons')
  BY <1>1, SameMoves DEF LessonInv
<1>5. Seeing' /\ Applying' /\ Alone'
  <2>1. Seeing'
    BY <1>1, <1>4, SeeingStays
  <2>2. Applying'
    BY <1>1, ApplyingStays
  <2>3. Alone'
    BY <1>1 DEF LessonInv, Alone
  <2> QED
    BY <2>1, <2>2, <2>3
<1>6. Undoable'
  BY <1>1, <1>3 DEF LessonInv, Undoable, Begun, Target
<1>7. Undoing'
  BY <1>1 DEF LessonInv, Undoing, Target
<1> QED
  BY <1>1, <1>5, <1>6, <1>7 DEF LessonInv

(* The row the rollback finds may be that of the round that can be undone.  *)
LEMMA LessonsOnStartUndo ==
    ASSUME RefineInv, LessonInv, RefineInv', StartUndo
    PROVE  LessonInv'
<1>0. PICK j : j = Max(RoundRows(current))
  OBVIOUS
<1> DEFINE row == audit[j]
<1>1. /\ UNCHANGED <<lessons, ids, audit>> /\ undo.at = "idle"
      /\ RoundRows(current) # {}
      /\ restorable' = IF restorable.of = j THEN restorable ELSE NoPast
      /\ undo' = [at |-> "undo", sess |-> current, row |-> j, num |-> row.num,
                  snaps |-> row.snaps, todo |-> DOMAIN row.snaps, drop |-> row.made]
      /\ round' = [t \in Threads |-> [round[t] EXCEPT !.alone = FALSE]]
  BY <1>0 DEF StartUndo, Max
<1>2. /\ \A t \in Threads :
            /\ round'[t].at = round[t].at /\ round'[t].alone = FALSE
            /\ round'[t].seen = round[t].seen /\ round'[t].sess = round[t].sess
            /\ round'[t].edits = round[t].edits /\ round'[t].done = round[t].done
            /\ round'[t].snaps = round[t].snaps /\ round'[t].made = round[t].made
            /\ round'[t].before = round[t].before /\ round'[t].deleted = round[t].deleted
  BY <1>1 DEF RefineInv, RoundTypes, Idle
<1>3. j \in DOMAIN audit /\ j # 0
  BY <1>0, <1>1, RowOfRollback DEF RefineInv, AuditTypes
<1>4. /\ undo'.at = "undo" /\ undo'.row = j /\ undo'.snaps = row.snaps
      /\ undo'.todo = DOMAIN row.snaps /\ undo'.drop = row.made
  BY <1>1
<1>5. Moves(ids, lessons, ids', lessons')
  BY <1>1, SameMoves DEF LessonInv
<1>6. Seeing' /\ Applying' /\ Alone'
  <2>1. Seeing'
    BY <1>2, <1>5, SeeingStays
  <2>2. Applying'
    BY <1>1, <1>2, ApplyingStays
  <2> QED
    BY <1>2, <2>1, <2>2 DEF Alone
<1>7. CASE restorable.of # j
  BY <1>1, <1>6, <1>7, NothingToUndo DEF LessonInv
<1>8. CASE restorable.of = j
  <2> HIDE DEF row
  <2>1. UNCHANGED <<audit, lessons, restorable, Target>>
    BY <1>1, <1>8 DEF Target
  <2>2. CanUndo(lessons, Target, DOMAIN row.snaps, row.snaps, row.made)
    <3>1. Undoable /\ restorable.of # None
      BY <1>3, <1>8 DEF LessonInv, None
    <3> QED
      BY <1>8, <3>1 DEF Undoable, row
  <2>3. Begun(row)'
    <3>1. row' = row
      BY <1>1, <1>8, <2>1 DEF row
    <3> QED
      BY <1>1, <1>4, <1>8, <2>1, <2>2, <3>1 DEF Begun, CanUndo
  <2>4. Undoable'
    BY <1>3, <1>8, <2>1, <2>2, <2>3 DEF Undoable, row
  <2>5. Undoing'
    BY <1>4, <2>1, <2>2 DEF Undoing
  <2> QED
    BY <1>1, <1>6, <2>4, <2>5 DEF LessonInv
<1> QED
  BY <1>7, <1>8

LEMMA LessonsOnUndoSnap ==
    ASSUME RefineInv, LessonInv, UndoSnap
    PROVE  LessonInv'
<1> DEFINE i == Min(undo.todo)
<1>1. /\ UNCHANGED <<ids, audit, round, restorable>> /\ undo.at = "undo"
      /\ undo.todo # {}
      /\ lessons' = IF undo.snaps[i].existed
                    THEN UpdateRow(lessons, i, undo.snaps[i].text)
                    ELSE DeleteRow(lessons, i)
      /\ undo' = [undo EXCEPT !.todo = @ \ {i}]
  BY DEF UndoSnap, Min
<1> HIDE DEF i
<1>2. /\ undo'.at = "undo" /\ undo'.row = undo.row
      /\ undo'.todo = undo.todo \ {i} /\ undo'.snaps = undo.snaps /\ undo'.drop = undo.drop
  BY <1>1 DEF RefineInv, UndoTypes
<1>3. Moves(ids, lessons, ids', lessons')
  <2>1. CASE undo.snaps[i].existed
    BY <1>1, <2>1, UpdateMoves DEF LessonInv
  <2>2. CASE ~undo.snaps[i].existed
    BY <1>1, <2>2, DeleteMoves DEF LessonInv
  <2> QED
    BY <2>1, <2>2
<1>4. Seeing' /\ Applying' /\ Alone'
  <2>1. Seeing'
    BY <1>1, <1>3, SeeingStays
  <2>2. Applying'
    BY <1>1, ApplyingInRollback
  <2>3. Alone'
    BY <1>1 DEF LessonInv, Alone
  <2> QED
    BY <2>1, <2>2, <2>3
<1>5. Undoable'
  <2> SUFFICES ASSUME restorable.of # None PROVE Undoable'
    BY <1>1 DEF Undoable
  <2> DEFINE row == audit[restorable.of]
  <2>1. /\ restorable.of \in DOMAIN audit /\ Target' = Target
        /\ CanUndo(lessons, Target, DOMAIN row.snaps, row.snaps, row.made)
        /\ Begun(row)
    BY <1>1 DEF LessonInv, Undoable, Target
  <2>2. i \in DOMAIN row.snaps /\ undo.snaps = row.snaps
    <3>1. undo.todo \subseteq DOMAIN row.snaps /\ undo.snaps = row.snaps
      BY <2>1 DEF Begun
    <3>2. IsFiniteSet(undo.todo) /\ undo.todo \in SUBSET Int
      BY <2>1, <3>1, FS_Subset DEF CanUndo
    <3> QED
      BY <1>1, <3>1, <3>2, Extremes DEF i
  <2>3. Begun(row)'
    BY <1>1, <1>2, <2>1 DEF Begun
  <2>4. CanUndo(lessons', Target, DOMAIN row.snaps, row.snaps, row.made)
    <3>1. Table(lessons) /\ CanUndo(lessons, Target, DOMAIN row.snaps, row.snaps,
                                   row.made)
      BY <2>1 DEF LessonInv
    <3>2. CASE undo.snaps[i].existed
      BY <1>1, <2>2, <3>1, <3>2, UndoAfterUpdate
    <3>3. CASE ~undo.snaps[i].existed
      <4>1. i \notin DOMAIN Target
        BY <2>2, <3>1, <3>3 DEF CanUndo
      <4> QED
        BY <1>1, <3>1, <3>3, <4>1, UndoAfterDelete
    <3> QED
      BY <3>2, <3>3
  <2> QED
    BY <1>1, <2>1, <2>3, <2>4 DEF Undoable
<1>6. Undoing'
  <2> SUFFICES ASSUME restorable.of = undo.row
               PROVE  CanUndo(lessons', Target, undo.todo \ {i}, undo.snaps,
                              undo.drop)
    BY <1>1, <1>2 DEF Undoing, Target
  <2>1. /\ CanUndo(lessons, Target, undo.todo, undo.snaps, undo.drop)
        /\ Table(lessons)
    BY <1>1 DEF LessonInv, Undoing
  <2>2. i \in undo.todo
    BY <1>1, <2>1, Extremes DEF CanUndo, i
  <2> QED
    BY <1>1, <2>1, <2>2, UndoOneSnap
<1> QED
  BY <1>3, <1>4, <1>5, <1>6, TableStays DEF LessonInv

LEMMA LessonsOnUndoCreated ==
    ASSUME RefineInv, LessonInv, UndoCreated
    PROVE  LessonInv'
<1>1. /\ UNCHANGED <<ids, audit, round, restorable>> /\ undo.at = "undo"
      /\ undo.drop # <<>> /\ lessons' = DeleteRow(lessons, Head(undo.drop))
      /\ undo' = [undo EXCEPT !.drop = Tail(@)]
  BY DEF UndoCreated
<1>2. /\ undo'.at = "undo" /\ undo'.row = undo.row
      /\ undo'.todo = undo.todo /\ undo'.snaps = undo.snaps /\ undo'.drop = Tail(undo.drop)
  BY <1>1 DEF RefineInv, UndoTypes
<1>3. Moves(ids, lessons, ids', lessons')
  BY <1>1, DeleteMoves DEF LessonInv
<1>4. Seeing' /\ Applying' /\ Alone'
  <2>1. Seeing'
    BY <1>1, <1>3, SeeingStays
  <2>2. Applying'
    BY <1>1, ApplyingInRollback
  <2>3. Alone'
    BY <1>1 DEF LessonInv, Alone
  <2> QED
    BY <2>1, <2>2, <2>3
<1>5. Undoable'
  <2> SUFFICES ASSUME restorable.of # None PROVE Undoable'
    BY <1>1 DEF Undoable
  <2> DEFINE row == audit[restorable.of]
  <2>1. /\ restorable.of \in DOMAIN audit /\ Target' = Target
        /\ CanUndo(lessons, Target, DOMAIN row.snaps, row.snaps, row.made)
        /\ Begun(row)
    BY <1>1 DEF LessonInv, Undoable, Target
  <2>2. /\ \E m \in DOMAIN row.made : row.made[m] = Head(undo.drop)
        /\ \A d \in DOMAIN Tail(undo.drop) :
              \E m \in DOMAIN row.made : row.made[m] = Tail(undo.drop)[d]
    <3>1. CanUndo(lessons, Target, undo.todo, undo.snaps, undo.drop)
      BY <1>1, <2>1 DEF LessonInv, Undoing, Begun
    <3>2. PICK S : undo.drop \in Seq(S)
      BY <3>1 DEF CanUndo, Sequence
    <3>3. /\ Head(undo.drop) = undo.drop[1] /\ 1 \in DOMAIN undo.drop
          /\ \A d \in DOMAIN Tail(undo.drop) :
                d + 1 \in DOMAIN undo.drop /\ Tail(undo.drop)[d] = undo.drop[d + 1]
      BY <1>1, <3>2
    <3> QED
      BY <2>1, <3>3 DEF Begun
  <2>3. Begun(row)'
    BY <1>1, <1>2, <2>1, <2>2 DEF Begun
  <2>4. CanUndo(lessons', Target, DOMAIN row.snaps, row.snaps, row.made)
    <3>1. Table(lessons) /\ CanUndo(lessons, Target, DOMAIN row.snaps, row.snaps,
                                   row.made)
      BY <2>1 DEF LessonInv
    <3>2. Head(undo.drop) \notin DOMAIN Target
      BY <2>2, <3>1 DEF CanUndo
    <3> QED
      BY <1>1, <3>1, <3>2, UndoAfterDelete
  <2> QED
    BY <1>1, <2>1, <2>3, <2>4 DEF Undoable
<1>6. Undoing'
  <2> SUFFICES ASSUME restorable.of = undo.row
               PROVE  CanUndo(lessons', Target, undo.todo, undo.snaps,
                              Tail(undo.drop))
    BY <1>1, <1>2 DEF Undoing, Target
  <2>1. /\ CanUndo(lessons, Target, undo.todo, undo.snaps, undo.drop)
        /\ Table(lessons)
    BY <1>1 DEF LessonInv, Undoing
  <2> QED
    BY <1>1, <2>1, UndoOneCreated
<1> QED
  BY <1>3, <1>4, <1>5, <1>6, TableStays DEF LessonInv

(* A write the database refuses: from here on the history is given up.      *)
LEMMA LessonsOnUndoFails ==
    ASSUME RefineInv, LessonInv, RefineInv', UndoFails
    PROVE  LessonInv'
<1>1. /\ UNCHANGED <<lessons, ids, audit, round>> /\ undo.at = "undo"
      /\ undo'.at = "undo" /\ restorable' = NoPast
  BY DEF RefineInv, UndoTypes, UndoFails
<1>2. Moves(ids, lessons, ids', lessons')
  BY <1>1, SameMoves DEF LessonInv
<1>3. Seeing' /\ Applying' /\ Alone'
  <2>1. Seeing'
    BY <1>1, <1>2, SeeingStays
  <2>2. Applying'
    BY <1>1, ApplyingInRollback
  <2>3. Alone'
    BY <1>1 DEF LessonInv, Alone
  <2> QED
    BY <2>1, <2>2, <2>3
<1> QED
  BY <1>1, <1>3, NothingToUndo DEF LessonInv

LEMMA LessonsOnEndUndo ==
    ASSUME RefineInv, LessonInv, EndUndo
    PROVE  LessonInv'
<1> DEFINE e == AuditRow(undo, "undo")
<1>1. /\ UNCHANGED <<lessons, ids, round, restorable>> /\ undo.at # "idle"
      /\ undo'.at = "idle" /\ audit' = Append(audit, e)
  BY DEF EndUndo
<1>2. Moves(ids, lessons, ids', lessons')
  BY <1>1, SameMoves DEF LessonInv
<1>3. Seeing' /\ Applying' /\ Alone'
  <2>1. Seeing'
    BY <1>1, <1>2, SeeingStays
  <2>2. Applying'
    BY <1>1, ApplyingStays
  <2> QED
    BY <1>1, <2>1, <2>2 DEF Alone
<1>4. \A k \in DOMAIN audit : k \in DOMAIN audit' /\ audit'[k] = audit[k]
  <2>1. e.num \in 1..(Len(audit) + 1)
    <3>1. e.num = undo.num
      BY DEF AuditRow
    <3> HIDE DEF e
    <3> QED
      BY <1>1, <3>1 DEF RefineInv, UndoTypes, AuditTypes
  <2> HIDE DEF e
  <2> QED
    BY <1>1, <2>1, AuditGrows
<1>5. Undoable' /\ Undoing'
  BY <1>1, <1>4 DEF LessonInv, Undoable, Undoing, Target
<1> QED
  BY <1>1, <1>3, <1>5 DEF LessonInv

LEMMA LessonsOnCrash ==
    ASSUME LessonInv, Crash
    PROVE  LessonInv'
<1>1. /\ UNCHANGED <<lessons, ids, audit, restorable>> /\ undo'.at = "idle"
      /\ \A t \in Threads : round'[t].at = "idle" /\ round'[t].alone = FALSE
  BY DEF Crash, Idle
<1>2. Seeing' /\ Applying' /\ Alone'
  BY <1>1 DEF Seeing, Applying, Alone
<1>3. Undoable' /\ Undoing'
  BY <1>1 DEF LessonInv, Undoable, Undoing, Target
<1> QED
  BY <1>1, <1>2, <1>3 DEF LessonInv

LEMMA LessonsStay ==
    ASSUME LessonInv, UNCHANGED <<lessons, ids, audit, round, undo, restorable>>
    PROVE  LessonInv'
BY DEF LessonInv, Seeing, Applying, Alone, Undoable, Undoing, Begun, Target

LEMMA LessonsStart == RefineInit => LessonInv
<1> SUFFICES ASSUME RefineInit PROVE LessonInv
  OBVIOUS
<1>1. /\ lessons = <<>> /\ ids = 0 /\ undo.at = "idle" /\ restorable = NoPast
      /\ \A t \in Threads : round[t].at = "idle" /\ round[t].alone = FALSE
  BY DEF RefineInit, Idle
<1>2. Table(lessons) /\ DOMAIN lessons = {}
  BY <1>1 DEF Table
<1>3. restorable.of = None
  BY <1>1 DEF NoPast
<1> QED
  BY <1>1, <1>2, <1>3 DEF LessonInv, Seeing, Applying, Alone, Undoable, Undoing

LEMMA LessonsStep == RefineInv /\ LessonInv /\ [RefineNext]_refineVars => LessonInv'
<1> SUFFICES ASSUME RefineInv, LessonInv, [RefineNext]_refineVars PROVE LessonInv'
  OBVIOUS
<1>1. RefineInv'
  BY RefineStep
<1>2. CASE UNCHANGED refineVars
  BY <1>2, LessonsStay DEF refineVars
<1>3. CASE SwitchSession
  BY <1>3, LessonsStay DEF SwitchSession
<1>4. CASE RefineNext /\ ~SwitchSession
  BY <1>1, <1>4, LessonsOnLook, LessonsOnSchedule, LessonsOnEnd, LessonsOnReview, LessonsOnApply,
     LessonsOnAuditRound, LessonsOnAuditEdit, LessonsOnStartUndo, LessonsOnUndoSnap,
     LessonsOnUndoCreated, LessonsOnUndoFails, LessonsOnEndUndo, LessonsOnCrash
     DEF RefineNext
<1> QED
  BY <1>2, <1>3, <1>4

(* UndoRestores, for all values of the constants: a rollback with no other   *)
(* change of the store since the round took its snapshots, and no write      *)
(* refused, leaves the store exactly as it was before the round, whatever of *)
(* the reviewer's answer was applied, but for the lessons the round deleted, *)
(* which stay gone (undo_last_round from the audit row alone).               *)
THEOREM RefineUndoRestores == RefineSpec => UndoRestores
<1>1. RefineInv /\ LessonInv /\ [RefineNext]_refineVars
        => [EndUndo /\ restorable.of = undo.row
              => lessons = [i \in DOMAIN restorable.before \ restorable.deleted |->
                               restorable.before[i]]]_refineVars
  <2> SUFFICES ASSUME LessonInv, EndUndo, restorable.of = undo.row
               PROVE  lessons = Target
    BY DEF Target, Rest
  <2>1. undo.at = "undo" /\ undo.todo = {} /\ undo.drop = <<>>
    BY DEF EndUndo
  <2>2. Table(lessons) /\ CanUndo(lessons, Target, {}, undo.snaps, <<>>)
    BY <2>1 DEF LessonInv, Undoing
  <2> QED
    BY <2>2, UndoDone
<1> QED
  BY <1>1, RefineStart, RefineStep, LessonsStart, LessonsStep, PTL DEF RefineSpec, UndoRestores
=============================================================================
