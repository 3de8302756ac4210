-------------------------- MODULE SearchIndexProofs --------------------------
(***************************************************************************)
(* A build that nothing came between is right, and what a query returns is *)
(* ordered and trimmed as it should be, for any documents, builders and    *)
(* bounds.                                                                 *)
(*                                                                         *)
(* The first invariant says how far a build is that is still alone: it is the    *)
(* only one, it has passed nothing over that is there, it writes into the  *)
(* file the path stands for, and what it is about to commit is one row for *)
(* each document it has been past, in its present version.  A forced build *)
(* that is alone found no file, so the one it made is still empty.         *)
(*                                                                         *)
(* The second says that a reply is what retrieve() makes of some hits.     *)
(* The loops of retrieve() and _trim_budget are recursive functions of the *)
(* number of steps: LoopExists says that there is a function with their    *)
(* equation, and Countup carries what holds after each step to the end.    *)
(***************************************************************************)
EXTENDS SearchIndex, FiniteSetTheorems, SequenceTheorems, WellFoundedInduction, TLAPS

\* A row: a document in some version.
Row == Items \X Nat

TypeInv ==
  /\ source \in [Items -> Nat]
  /\ path \in 0 .. Len(rows)
  /\ rows \in Seq(Seq(Row))
  /\ pc \in [Builders -> {"idle", "opening", "indexing"}]
  /\ forced \in [Builders -> BOOLEAN]
  /\ file \in [Builders -> Nat]
  /\ \A b \in Builders : pc[b] = "indexing" => file[b] \in 1 .. Len(rows)
  /\ next \in [Builders -> Nat \ {0}]
  /\ pending \in [Builders -> Seq(Row)]
  /\ skip \in [Builders -> SUBSET {FileOf[i] : i \in Items}]
  /\ changes \in Nat
  /\ alone \in [Builders -> BOOLEAN]
  /\ settled \in {"no", "complete", "exact"}

\* The rows that the first n documents call for.
There(n) == {j \in 1 .. n : source[Order[j]] # 0}
Due(n) == {<<Order[j], source[Order[j]]>> : j \in There(n)}

\* A sequence that lists a finite set, each element once.
Lists(s, S) == ToSet(s) = S /\ IsFiniteSet(S) /\ Len(s) = Cardinality(S)

\* The build of b is the only one, and has missed nothing so far.
Faithful(b) ==
  /\ pc[b] # "idle" /\ \A c \in Builders : c # b => pc[c] = "idle"
  /\ pc[b] = "opening" => (forced[b] => path = 0)
  /\ pc[b] = "indexing" =>
       /\ file[b] = path /\ next[b] <= Len(Order) + 1 /\ skip[b] = {}
       /\ Lists(pending[b], Due(next[b] - 1))
       /\ forced[b] => rows[path] = <<>>

AloneInv == \A b \in Builders : alone[b] => Faithful(b)

SettledInv ==
  settled # "no" =>
    /\ \A b \in Builders : pc[b] = "idle"
    /\ path # 0 /\ Due(Len(Order)) \subseteq ToSet(rows[path])
    /\ settled = "exact" => Lists(rows[path], Due(Len(Order)))

BuildInv == TypeInv /\ AloneInv /\ SettledInv

-----------------------------------------------------------------------------
(* Sequences as sets.                                                      *)

LEMMA OrderIsFinite ==
  /\ Len(Order) \in Nat
  /\ \A j \in 1 .. Len(Order) : Order[j] \in Items
BY ItemsAssumption, LenProperties DEF Items

\* A new element at the end of a list.
LEMMA ListsAppend ==
  ASSUME NEW s \in Seq(Row), NEW e \in Row, NEW S, Lists(s, S), e \notin S
  PROVE  Lists(Append(s, e), S \cup {e})
<1>1. Len(s) \in Nat /\ DOMAIN s = 1 .. Len(s)
  BY LenProperties
<1> DEFINE t == Append(s, e)
<1>2. /\ t \in Seq(Row) /\ Len(t) = Len(s) + 1 /\ t[Len(s) + 1] = e
      /\ \A i \in 1 .. Len(s) : t[i] = s[i]
  BY AppendProperties
<1>3. DOMAIN t = 1 .. Len(t)
  BY <1>2, LenProperties
<1> HIDE DEF t
<1>4. ToSet(t) = ToSet(s) \cup {e}
  <2>1. DOMAIN t = DOMAIN s \cup {Len(s) + 1}
    BY <1>1, <1>2, <1>3
  <2>2. \A i \in DOMAIN s : t[i] = s[i]
    BY <1>1, <1>2
  <2> QED
    BY <1>2, <2>1, <2>2 DEF ToSet
<1>5. IsFiniteSet(S \cup {e}) /\ Cardinality(S \cup {e}) = Cardinality(S) + 1
  BY FS_AddElement DEF Lists
<1> QED
  BY <1>2, <1>4, <1>5 DEF Lists, t

LEMMA EmptyLists == Lists(<<>>, {})
<1>1. <<>> \in Seq(Row) /\ Len(<<>>) = 0
  BY EmptySeq
<1>2. DOMAIN <<>> = {}
  BY <1>1, LenProperties
<1> QED
  BY <1>1, <1>2, FS_EmptySet DEF Lists, ToSet

LEMMA ConcatContains ==
  ASSUME NEW s \in Seq(Row), NEW t \in Seq(Row)
  PROVE  ToSet(t) \subseteq ToSet(s \o t)
<1> DEFINE u == s \o t
<1>1. /\ Len(s) \in Nat /\ Len(t) \in Nat /\ DOMAIN t = 1 .. Len(t)
  BY LenProperties
<1>2. /\ u \in Seq(Row) /\ Len(u) = Len(s) + Len(t)
      /\ \A i \in 1 .. Len(s) + Len(t) : u[i] = IF i <= Len(s) THEN s[i] ELSE t[i - Len(s)]
  BY ConcatProperties
<1>3. DOMAIN u = 1 .. Len(u)
  BY <1>2, LenProperties
<1> HIDE DEF u
<1>4. ASSUME NEW j \in DOMAIN t PROVE t[j] \in ToSet(u)
  <2>1. Len(s) + j \in DOMAIN u /\ ~(Len(s) + j <= Len(s)) /\ (Len(s) + j) - Len(s) = j
    BY <1>1, <1>2, <1>3
  <2>2. u[Len(s) + j] = t[j]
    BY <1>2, <1>3, <2>1
  <2> QED
    BY <2>1, <2>2 DEF ToSet
<1> QED
  BY <1>4 DEF ToSet, u

-----------------------------------------------------------------------------
(* What the documents call for.                                            *)

LEMMA NothingDue == Due(0) = {}
<1>1. There(0) = {}
  BY DEF There
<1> QED
  BY <1>1 DEF Due

\* The next document: nothing more if it is not there, or else one row more.
LEMMA DueNext ==
  ASSUME TypeInv, NEW n \in 1 .. Len(Order)
  PROVE  /\ source[Order[n]] = 0 => Due(n) = Due(n - 1)
         /\ source[Order[n]] # 0 =>
              /\ Due(n) = Due(n - 1) \cup {<<Order[n], source[Order[n]]>>}
              /\ <<Order[n], source[Order[n]]>> \notin Due(n - 1)
         /\ <<Order[n], source[Order[n]]>> \in Row
<1>1. 1 .. n = (1 .. n - 1) \cup {n} /\ n \notin 1 .. n - 1
  BY OrderIsFinite
<1>2. CASE source[Order[n]] = 0
  <2>1. There(n) = There(n - 1)
    BY <1>1, <1>2 DEF There
  <2> QED
    BY <1>2, <2>1, OrderIsFinite DEF Due, Row, TypeInv
<1>3. CASE source[Order[n]] # 0
  <2>1. There(n) = There(n - 1) \cup {n} /\ n \notin There(n - 1)
    BY <1>1, <1>3 DEF There
  <2>2. \A j \in There(n - 1) : j \in 1 .. Len(Order) /\ Order[j] # Order[n]
    <3> SUFFICES ASSUME NEW j \in There(n - 1)
                 PROVE  j \in 1 .. Len(Order) /\ Order[j] # Order[n]
      OBVIOUS
    <3>1. j \in 1 .. n - 1
      BY DEF There
    <3>2. j \in 1 .. Len(Order) /\ j # n
      BY <3>1, OrderIsFinite
    <3> QED
      BY <3>2, ItemsAssumption
  <2> QED
    BY <1>3, <2>1, <2>2, OrderIsFinite DEF Due, Row, TypeInv
<1> QED
  BY <1>2, <1>3

LEMMA SameDue == UNCHANGED source => \A n : Due(n)' = Due(n)
BY DEF Due, There

-----------------------------------------------------------------------------
(* Types.                                                                  *)

LEMMA NextCases ==
  ASSUME Next
  PROVE  \/ \E b \in Builders :
              \/ Begin(b, TRUE) \/ Begin(b, FALSE) \/ Open(b) \/ PassOver(b)
              \/ Insert(b) \/ InsertFails(b) \/ Commit(b) \/ Die(b)
         \/ \E i \in Items : ChangeSource(i)
         \/ retrieve
BY DEF Next, Build

\* The file an indexing builder has open, and the place it is at.
LEMMA OpenFile ==
  ASSUME TypeInv, NEW b \in Builders, pc[b] = "indexing"
  PROVE  /\ file[b] \in 1 .. Len(rows) /\ rows[file[b]] \in Seq(Row)
         /\ pending[b] \in Seq(Row)
<1>1. file[b] \in 1 .. Len(rows)
  BY DEF TypeInv
<1>2. rows[file[b]] \in Seq(Row)
  BY <1>1, ElementOfSeq DEF TypeInv
<1> QED
  BY <1>1, <1>2 DEF TypeInv

LEMMA ItemAt ==
  ASSUME TypeInv, NEW b \in Builders, Indexing(b)
  PROVE  /\ next[b] \in 1 .. Len(Order) /\ Item(b) \in Items
         /\ <<Item(b), source[Item(b)]>> \in Row
<1>1. next[b] \in 1 .. Len(Order)
  BY OrderIsFinite DEF Indexing, TypeInv
<1> QED
  BY <1>1, OrderIsFinite DEF Item, Row, TypeInv

\* A new file.
LEMMA NewFile ==
  ASSUME TypeInv
  PROVE  /\ Append(rows, <<>>) \in Seq(Seq(Row))
         /\ Len(Append(rows, <<>>)) = Len(rows) + 1 /\ Len(rows) \in Nat
         /\ Append(rows, <<>>)[Len(rows) + 1] = <<>>
<1>1. <<>> \in Seq(Row)
  BY EmptySeq
<1>2. rows \in Seq(Seq(Row))
  BY DEF TypeInv
<1> QED
  BY <1>1, <1>2, AppendProperties, LenProperties

\* What a build adds to its file.
LEMMA CommittedRows ==
  ASSUME TypeInv, NEW b \in Builders, pc[b] = "indexing",
         rows' = [rows EXCEPT ![file[b]] = @ \o pending[b]]
  PROVE  /\ rows' \in Seq(Seq(Row)) /\ Len(rows') = Len(rows)
         /\ rows'[file[b]] = rows[file[b]] \o pending[b]
<1> DEFINE e == rows[file[b]] \o pending[b]
<1>1. e \in Seq(Row)
  BY OpenFile, ConcatProperties
<1>2. rows \in Seq(Seq(Row)) /\ file[b] \in 1 .. Len(rows)
  BY OpenFile DEF TypeInv
<1>3. rows' = [rows EXCEPT ![file[b]] = e]
  OBVIOUS
<1> HIDE DEF e
<1>4. /\ [rows EXCEPT ![file[b]] = e] \in Seq(Seq(Row))
      /\ Len([rows EXCEPT ![file[b]] = e]) = Len(rows)
      /\ [rows EXCEPT ![file[b]] = e][file[b]] = e
  BY <1>1, <1>2, ExceptSeq
<1> QED
  BY <1>3, <1>4 DEF e

LEMMA InitType == Init => TypeInv
<1>1. <<>> \in Seq(Row) /\ <<>> \in Seq(Seq(Row)) /\ Len(<<>>) = 0
  BY EmptySeq
<1> QED
  BY <1>1 DEF Init, TypeInv

LEMMA LeaveType ==
  ASSUME TypeInv, NEW b \in Builders, Leave(b), Len(rows') = Len(rows)
  PROVE  /\ pc' \in [Builders -> {"idle", "opening", "indexing"}]
         /\ forced' \in [Builders -> BOOLEAN]
         /\ file' \in [Builders -> Nat]
         /\ \A c \in Builders : pc'[c] = "indexing" => file'[c] \in 1 .. Len(rows')
         /\ next' \in [Builders -> Nat \ {0}]
         /\ pending' \in [Builders -> Seq(Row)]
         /\ skip' \in [Builders -> SUBSET {FileOf[i] : i \in Items}]
<1>1. <<>> \in Seq(Row)
  BY EmptySeq
<1>2. pending' \in [Builders -> Seq(Row)]
  BY <1>1 DEF Leave, TypeInv
<1>3. ASSUME NEW c \in Builders, pc'[c] = "indexing"
      PROVE  file'[c] \in 1 .. Len(rows')
  <2>1. c # b /\ pc[c] = "indexing" /\ file'[c] = file[c]
    BY <1>3 DEF Leave, TypeInv
  <2> QED
    BY <2>1, OpenFile
<1>4. /\ pc' \in [Builders -> {"idle", "opening", "indexing"}]
      /\ forced' \in [Builders -> BOOLEAN] /\ file' \in [Builders -> Nat]
      /\ next' \in [Builders -> Nat \ {0}]
      /\ skip' \in [Builders -> SUBSET {FileOf[i] : i \in Items}]
  BY DEF Leave, TypeInv
<1> QED
  BY <1>2, <1>3, <1>4

LEMMA StepType == TypeInv /\ [Next]_vars => TypeInv'
<1> SUFFICES ASSUME TypeInv, [Next]_vars
             PROVE  TypeInv'
  OBVIOUS
<1>1. CASE UNCHANGED vars
  BY <1>1 DEF TypeInv, vars
<1>2. ASSUME NEW b \in Builders, NEW f \in BOOLEAN, Begin(b, f)
      PROVE  TypeInv'
  <2>1. /\ path' \in 0 .. Len(rows') /\ rows' = rows
        /\ pc' \in [Builders -> {"idle", "opening", "indexing"}]
        /\ forced' \in [Builders -> BOOLEAN] /\ alone' \in [Builders -> BOOLEAN]
        /\ \A c \in Builders : pc'[c] = "indexing" => pc[c] = "indexing"
    <3>1. Len(rows) \in Nat
      BY NewFile
    <3> QED
      BY <1>2, <3>1 DEF Begin, TypeInv
  <2> QED
    BY <1>2, <2>1 DEF Begin, TypeInv
<1>3. ASSUME NEW b \in Builders, Open(b)
      PROVE  TypeInv'
  <2>1. <<>> \in Seq(Row)
    BY EmptySeq
  <2>2. pending' \in [Builders -> Seq(Row)]
    BY <1>3, <2>1 DEF Open, TypeInv
  <2>3. /\ rows' \in Seq(Seq(Row)) /\ Len(rows) \in Nat /\ Len(rows') \in Nat
        /\ Len(rows) <= Len(rows') /\ path' \in 1 .. Len(rows')
        /\ file' = [file EXCEPT ![b] = path']
    <3>1. CASE path # 0
      BY <1>3, <3>1, NewFile DEF Open, TypeInv
    <3>2. CASE path = 0
      <4>1. rows' = Append(rows, <<>>) /\ path' = Len(rows) + 1
            /\ file' = [file EXCEPT ![b] = Len(rows) + 1]
        BY <1>3, <3>2 DEF Open
      <4> QED
        BY <4>1, NewFile
    <3> QED
      BY <3>1, <3>2
  <2>4. ASSUME NEW c \in Builders, pc'[c] = "indexing"
        PROVE  file'[c] \in 1 .. Len(rows')
    <3>1. CASE c = b
      BY <2>3, <3>1 DEF TypeInv
    <3>2. CASE c # b
      <4>1. pc[c] = "indexing" /\ file'[c] = file[c]
        BY <1>3, <2>3, <2>4, <3>2 DEF Open, TypeInv
      <4> QED
        BY <2>3, <4>1, OpenFile
    <3> QED
      BY <3>1, <3>2
  <2>5. /\ pc' \in [Builders -> {"idle", "opening", "indexing"}]
        /\ next' \in [Builders -> Nat \ {0}]
        /\ skip' \in [Builders -> SUBSET {FileOf[i] : i \in Items}]
    BY <1>3 DEF Open, TypeInv
  <2>6. path' \in Nat /\ path' \in 0 .. Len(rows')
    BY <2>3
  <2>7. file' \in [Builders -> Nat]
    BY <2>3, <2>6 DEF TypeInv
  <2> QED
    BY <1>3, <2>2, <2>3, <2>4, <2>5, <2>6, <2>7 DEF Open, TypeInv, bounds
<1>4. ASSUME NEW b \in Builders, PassOver(b)
      PROVE  TypeInv'
  <2>1. next' \in [Builders -> Nat \ {0}]
    BY <1>4 DEF PassOver, Advance, TypeInv
  <2> QED
    BY <1>4, <2>1 DEF PassOver, TypeInv, bounds
<1>5. ASSUME NEW b \in Builders, Insert(b)
      PROVE  TypeInv'
  <2>1. next' \in [Builders -> Nat \ {0}]
    BY <1>5 DEF Insert, Advance, TypeInv
  <2>2. pending' \in [Builders -> Seq(Row)]
    <3>1. <<Item(b), source[Item(b)]>> \in Row /\ pending[b] \in Seq(Row)
      BY <1>5, ItemAt DEF Insert, TypeInv
    <3>2. Append(pending[b], <<Item(b), source[Item(b)]>>) \in Seq(Row)
      BY <3>1, AppendProperties
    <3> QED
      BY <1>5, <3>2 DEF Insert, TypeInv
  <2> QED
    BY <1>5, <2>1, <2>2 DEF Insert, TypeInv, bounds
<1>6. ASSUME NEW b \in Builders, InsertFails(b)
      PROVE  TypeInv'
  <2>1. next' \in [Builders -> Nat \ {0}]
    BY <1>6 DEF InsertFails, Advance, TypeInv
  <2>2. skip' \in [Builders -> SUBSET {FileOf[i] : i \in Items}]
    BY <1>6, ItemAt DEF InsertFails, TypeInv
  <2> QED
    BY <1>6, <2>1, <2>2 DEF InsertFails, Disturb, TypeInv
<1>7. ASSUME NEW b \in Builders, Commit(b)
      PROVE  TypeInv'
  <2>1. rows' \in Seq(Seq(Row)) /\ Len(rows') = Len(rows)
    BY <1>7, CommittedRows DEF Commit
  <2>2. settled' \in {"no", "complete", "exact"} /\ alone' \in [Builders -> BOOLEAN]
        /\ UNCHANGED <<source, path, changes>>
    BY <1>7 DEF Commit, bounds
  <2>3. Leave(b)
    BY <1>7 DEF Commit
  <2>4. source' \in [Items -> Nat] /\ path' \in 0 .. Len(rows') /\ changes' \in Nat
    BY <2>1, <2>2 DEF TypeInv
  <2> QED
    BY <2>1, <2>2, <2>3, <2>4, LeaveType DEF TypeInv
<1>8. ASSUME NEW b \in Builders, Die(b)
      PROVE  TypeInv'
  <2>1. Leave(b) /\ Disturb /\ UNCHANGED <<source, path, rows, changes>>
    BY <1>8 DEF Die
  <2>2. /\ source' \in [Items -> Nat] /\ path' \in 0 .. Len(rows') /\ changes' \in Nat
        /\ rows' \in Seq(Seq(Row)) /\ Len(rows') = Len(rows)
    BY <2>1 DEF TypeInv
  <2>3. settled' \in {"no", "complete", "exact"} /\ alone' \in [Builders -> BOOLEAN]
    BY <2>1 DEF Disturb
  <2> QED
    BY <2>1, <2>2, <2>3, LeaveType DEF TypeInv
<1>9. ASSUME NEW i \in Items, ChangeSource(i)
      PROVE  TypeInv'
  <2>1. PICK v \in {0, changes + 2} : source' = [source EXCEPT ![i] = v]
    BY <1>9 DEF ChangeSource
  <2>2. source' \in [Items -> Nat] /\ changes' \in Nat
    <3>1. changes \in Nat /\ v \in Nat
      BY DEF TypeInv
    <3> QED
      BY <1>9, <2>1, <3>1 DEF ChangeSource, TypeInv
  <2> QED
    BY <1>9, <2>2 DEF ChangeSource, Disturb, TypeInv, build
<1>10. CASE retrieve
  BY <1>10 DEF retrieve, TypeInv, build, bounds
<1> QED
  BY <1>1, <1>2, <1>3, <1>4, <1>5, <1>6, <1>7, <1>8, <1>9, <1>10, NextCases

-----------------------------------------------------------------------------
(* A build that is alone.                                                  *)

\* While a builder works, no other build is alone, and nothing is settled.
LEMMA WorkingIsNotSettled ==
  ASSUME AloneInv, SettledInv, NEW b \in Builders, pc[b] # "idle"
  PROVE  settled = "no" /\ \A c \in Builders : alone[c] => c = b
BY DEF AloneInv, SettledInv, Faithful

LEMMA DisturbedIsFine == TypeInv /\ Disturb => AloneInv' /\ SettledInv'
BY DEF Disturb, AloneInv, SettledInv

LEMMA BeginAlone ==
  ASSUME TypeInv, NEW b \in Builders, NEW f \in BOOLEAN, Begin(b, f)
  PROVE  AloneInv' /\ SettledInv'
<1>1. settled' = "no"
  BY DEF Begin
<1>2. ASSUME NEW c \in Builders, alone'[c]
      PROVE  Faithful(c)'
  <2>1. c = b /\ \A d \in Builders : pc[d] = "idle"
    BY <1>2 DEF Begin
  <2>2. /\ pc'[b] = "opening" /\ forced'[b] = f
        /\ \A d \in Builders : d # b => pc'[d] = "idle"
    BY <2>1 DEF Begin, TypeInv
  <2>3. f => path' = 0
    BY DEF Begin
  <2> QED
    BY <2>1, <2>2, <2>3 DEF Faithful
<1> QED
  BY <1>1, <1>2 DEF AloneInv, SettledInv

LEMMA OpenAlone ==
  ASSUME TypeInv, AloneInv, SettledInv, NEW b \in Builders, Open(b)
  PROVE  AloneInv' /\ SettledInv'
<1>1. pc[b] = "opening" /\ alone' = alone /\ settled' = settled
  BY DEF Open
<1>2. settled' = "no" /\ \A c \in Builders : alone'[c] => c = b
  BY <1>1, WorkingIsNotSettled
<1>3. ASSUME alone[b]
      PROVE  Faithful(b)'
  <2>1. /\ \A c \in Builders : c # b => pc[c] = "idle"
        /\ forced[b] => path = 0
    BY <1>1, <1>3 DEF AloneInv, Faithful
  <2>2. /\ pc'[b] = "indexing" /\ forced' = forced /\ next'[b] = 1
        /\ skip'[b] = {} /\ pending'[b] = <<>>
        /\ \A c \in Builders : c # b => pc'[c] = "idle"
    BY <2>1 DEF Open, TypeInv
  <2>3. Lists(pending[b], Due(next[b] - 1))'
    <3>1. Lists(pending'[b], Due(0))
      BY <2>2, EmptyLists, NothingDue
    <3>2. source' = source /\ next'[b] - 1 = 0
      BY <2>2 DEF Open
    <3>3. Due(next[b] - 1)' = Due(0)
      BY <3>2 DEF Due, There
    <3> QED
      BY <3>1, <3>3 DEF Lists
  <2>4. file'[b] = path' /\ (forced[b] => rows'[path'] = <<>>)
    <3>1. CASE path # 0
      BY <2>1, <3>1 DEF Open, TypeInv
    <3>2. CASE path = 0
      <4>1. rows' = Append(rows, <<>>) /\ path' = Len(rows) + 1
            /\ file' = [file EXCEPT ![b] = Len(rows) + 1]
        BY <3>2 DEF Open
      <4>2. file'[b] = Len(rows) + 1
        BY <4>1 DEF TypeInv
      <4> QED
        BY <4>1, <4>2, NewFile
    <3> QED
      BY <3>1, <3>2
  <2>5. next'[b] <= Len(Order) + 1
    BY <2>2, OrderIsFinite
  <2>6. pc'[b] # "idle" /\ pc'[b] # "opening"
    BY <2>2
  <2> QED
    BY <2>2, <2>3, <2>4, <2>5, <2>6 DEF Faithful
<1> QED
  BY <1>1, <1>2, <1>3 DEF AloneInv, SettledInv

\* Past one document more.
LEMMA Past ==
  ASSUME TypeInv, AloneInv, SettledInv, NEW b \in Builders, Indexing(b), Advance(b),
         UNCHANGED <<source, path, rows, pc, forced, file, skip, alone, settled>>,
         alone[b] /\ Faithful(b) => Lists(pending'[b], Due(next[b]))
  PROVE  AloneInv' /\ SettledInv'
<1>1. pc[b] = "indexing" /\ next[b] \in 1 .. Len(Order)
  BY ItemAt DEF Indexing
<1>2. settled' = "no" /\ \A c \in Builders : alone'[c] => c = b
  BY <1>1, WorkingIsNotSettled
<1>3. ASSUME alone[b]
      PROVE  Faithful(b)'
  <2>1. Faithful(b)
    BY <1>3 DEF AloneInv
  <2>2. next'[b] = next[b] + 1
    BY DEF Advance, TypeInv
  <2>3. next'[b] - 1 = next[b] /\ next'[b] <= Len(Order) + 1
    BY <1>1, <2>2, OrderIsFinite
  <2>4. Due(next[b] - 1)' = Due(next[b])
    BY <2>3 DEF Due, There
  <2>5. Lists(pending[b], Due(next[b] - 1))'
    BY <1>3, <2>1, <2>4 DEF Lists
  <2> QED
    BY <1>1, <2>1, <2>3, <2>5 DEF Faithful
<1> QED
  BY <1>2, <1>3 DEF AloneInv, SettledInv

LEMMA PassOverAlone ==
  ASSUME TypeInv, AloneInv, SettledInv, NEW b \in Builders, PassOver(b)
  PROVE  AloneInv' /\ SettledInv'
<1>1. ASSUME Faithful(b)
      PROVE  Lists(pending'[b], Due(next[b]))
  <2>1. skip[b] = {} /\ Lists(pending[b], Due(next[b] - 1))
    BY <1>1 DEF Faithful, PassOver, Indexing
  <2>2. source[Item(b)] = 0
    BY <2>1 DEF PassOver, Wanted
  <2>3. next[b] \in 1 .. Len(Order)
    BY ItemAt DEF PassOver
  <2>4. Due(next[b]) = Due(next[b] - 1)
    BY <2>2, <2>3, DueNext DEF Item
  <2> QED
    BY <2>1, <2>4 DEF PassOver
<1> QED
  BY <1>1, Past DEF PassOver

LEMMA InsertAlone ==
  ASSUME TypeInv, AloneInv, SettledInv, NEW b \in Builders, Insert(b)
  PROVE  AloneInv' /\ SettledInv'
<1>1. ASSUME Faithful(b)
      PROVE  Lists(pending'[b], Due(next[b]))
  <2> DEFINE e == <<Order[next[b]], source[Order[next[b]]]>>
  <2>1. Lists(pending[b], Due(next[b] - 1)) /\ pending[b] \in Seq(Row)
    BY <1>1 DEF Faithful, Insert, Indexing, TypeInv
  <2>2. source[Order[next[b]]] # 0
    BY DEF Insert, Wanted, Item
  <2>3. next[b] \in 1 .. Len(Order)
    BY ItemAt DEF Insert
  <2>4. Due(next[b]) = Due(next[b] - 1) \cup {e} /\ e \notin Due(next[b] - 1) /\ e \in Row
    BY <2>2, <2>3, DueNext
  <2>5. pending'[b] = Append(pending[b], e)
    BY DEF Insert, TypeInv, Item
  <2> HIDE DEF e
  <2>6. Lists(Append(pending[b], e), Due(next[b] - 1) \cup {e})
    BY <2>1, <2>4, ListsAppend
  <2> QED
    BY <2>4, <2>5, <2>6
<1> QED
  BY <1>1, Past DEF Insert

LEMMA CommitAlone ==
  ASSUME TypeInv, AloneInv, SettledInv, NEW b \in Builders, Commit(b)
  PROVE  AloneInv' /\ SettledInv'
<1>1. AloneInv'
  BY DEF Commit, AloneInv
<1>2. ASSUME settled' # "no"
      PROVE  SettledInv'
  <2>1. /\ alone[b] /\ pc[b] = "indexing" /\ next[b] > Len(Order)
        /\ settled' = "exact" => forced[b]
    BY <1>2 DEF Commit
  <2>2. Faithful(b)
    BY <2>1 DEF AloneInv
  <2>3. next[b] - 1 = Len(Order)
    BY <2>1, <2>2, OrderIsFinite DEF Faithful, TypeInv
  <2>4. /\ file[b] = path /\ Lists(pending[b], Due(Len(Order)))
        /\ forced[b] => rows[path] = <<>>
    BY <2>1, <2>2, <2>3 DEF Faithful
  <2>5. path \in 1 .. Len(rows) /\ rows[path] \in Seq(Row) /\ pending[b] \in Seq(Row)
    BY <2>1, <2>4, OpenFile
  <2>6. rows'[path] = rows[path] \o pending[b]
    BY <2>1, <2>4, CommittedRows DEF Commit
  <2>7. path' = path /\ UNCHANGED source
    BY DEF Commit
  <2>8. Due(Len(Order))' = Due(Len(Order))
    BY <2>7 DEF Due, There
  <2>9. \A c \in Builders : pc'[c] = "idle"
    BY <2>1, <2>2 DEF Commit, Leave, Faithful, TypeInv
  <2>10. Due(Len(Order)) \subseteq ToSet(rows'[path])
    BY <2>4, <2>5, <2>6, ConcatContains DEF Lists
  <2>11. ASSUME settled' = "exact"
         PROVE  Lists(rows'[path], Due(Len(Order)))
    <3>1. rows[path] = <<>>
      BY <2>1, <2>4, <2>11
    <3>2. rows'[path] = pending[b]
      BY <2>5, <2>6, <3>1, ConcatEmptySeq
    <3> QED
      BY <2>4, <3>2
  <2>12. path # 0
    BY <2>5
  <2> QED
    BY <2>7, <2>8, <2>9, <2>10, <2>11, <2>12 DEF SettledInv, Lists
<1> QED
  BY <1>1, <1>2 DEF SettledInv

-----------------------------------------------------------------------------
(* The theorem.                                                            *)

LEMMA InitBuild == Init => BuildInv
BY InitType DEF BuildInv, Init, AloneInv, SettledInv

LEMMA StepBuild == BuildInv /\ [Next]_vars => BuildInv'
<1> SUFFICES ASSUME BuildInv, [Next]_vars
             PROVE  BuildInv'
  OBVIOUS
<1>1. TypeInv /\ AloneInv /\ SettledInv /\ TypeInv'
  BY StepType DEF BuildInv
<1>2. ASSUME UNCHANGED <<source, path, rows, pc, forced, file, next, pending, skip,
                         alone, settled>>
      PROVE  AloneInv' /\ SettledInv'
  <2>1. \A n : Due(n)' = Due(n)
    BY <1>2, SameDue
  <2>2. \A b \in Builders : Due(next[b] - 1)' = Due(next[b] - 1)
    BY <1>2 DEF Due, There
  <2> QED
    BY <1>1, <1>2, <2>1, <2>2 DEF AloneInv, SettledInv, Faithful, Lists
<1>3. CASE UNCHANGED vars
  BY <1>1, <1>2, <1>3 DEF vars, BuildInv
<1>4. CASE retrieve
  BY <1>1, <1>2, <1>4 DEF retrieve, build, BuildInv
<1>5. ASSUME NEW i \in Items, ChangeSource(i)
      PROVE  BuildInv'
  BY <1>1, <1>5, DisturbedIsFine DEF ChangeSource, BuildInv
<1>6. ASSUME NEW b \in Builders,
             InsertFails(b) \/ Die(b)
      PROVE  BuildInv'
  BY <1>1, <1>6, DisturbedIsFine DEF InsertFails, Die, BuildInv
<1>7. ASSUME NEW b \in Builders, NEW f \in BOOLEAN, Begin(b, f)
      PROVE  BuildInv'
  BY <1>1, <1>7, BeginAlone DEF BuildInv
<1>8. ASSUME NEW b \in Builders,
             Open(b) \/ PassOver(b) \/ Insert(b) \/ Commit(b)
      PROVE  BuildInv'
  BY <1>1, <1>8, OpenAlone, PassOverAlone, InsertAlone, CommitAlone DEF BuildInv
<1> QED
  BY <1>3, <1>4, <1>5, <1>6, <1>7, <1>8, NextCases

\* The documents, read off the order in which they are indexed.
LEMMA DueIsNow ==
  Due(Len(Order)) = {<<i, source[i]>> : i \in {j \in Items : source[j] # 0}}
BY DEF Due, There, Items

LEMMA SettledIsRight == BuildInv => UndisturbedBuildIsRight
BY DueIsNow DEF BuildInv, SettledInv, UndisturbedBuildIsRight, Lists

\* After a build during which nothing else was built, written, lost or killed, the index
\* holds every document in its current version; and a forced build leaves each of them
\* once and nothing else, whatever was in the file before (BM25Retriever.build,
\* bm25_retriever.py:90-122).
THEOREM BuildsAreRight == Spec => []UndisturbedBuildIsRight
<1>1. Spec => []BuildInv
  BY InitBuild, StepBuild, PTL DEF Spec
<1>2. BuildInv => UndisturbedBuildIsRight
  BY SettledIsRight
<1> QED
  BY <1>1, <1>2, PTL

-----------------------------------------------------------------------------
(* Loops: induction over the numbers, without an operator for a parameter.    *)

\* A set of numbers has a least one (the library's WFMin, with < on Nat).
LEMMA LeastNumber ==
  ASSUME NEW T \in SUBSET Nat, T # {}
  PROVE  \E x \in T : \A y \in T : x <= y
<1> DEFINE R == {ss \in Nat \X Nat : ss[1] < ss[2]}
<1>1. IsWellFoundedOn(R, Nat)
  BY NatLessThanWellFounded DEF OpToRel
<1>2. \A x, y \in Nat : x < y => <<x, y>> \in R
  OBVIOUS
<1> HIDE DEF R
<1>3. PICK x \in T : \A y \in T : ~(<<y, x>> \in R)
  BY <1>1, WFMin
<1>4. \A y \in T : x <= y
  <2> SUFFICES ASSUME NEW y \in T PROVE x <= y
    OBVIOUS
  <2>1. x \in Nat /\ y \in Nat /\ ~(y < x)
    BY <1>2, <1>3
  <2> QED
    BY <2>1
<1> QED
  BY <1>4

\* From each number to the next: had the set a gap, the first one would have nothing before
\* it.
LEMMA Countup ==
  ASSUME NEW N \in Nat, NEW S, 0 \in S, \A n \in 1 .. N : n - 1 \in S => n \in S
  PROVE  \A n \in 0 .. N : n \in S
<1> DEFINE T == {n \in 0 .. N : n \notin S}
<1> SUFFICES ASSUME T # {} PROVE FALSE
  OBVIOUS
<1>1. PICK x \in T : \A y \in T : x <= y
  <2>1. T \in SUBSET Nat
    OBVIOUS
  <2> HIDE DEF T
  <2> QED
    BY <2>1, LeastNumber
<1>2. x # 0 /\ x \in 1 .. N /\ x - 1 \in 0 .. N /\ ~(x <= x - 1)
  BY <1>1
<1>3. x - 1 \in S
  BY <1>1, <1>2
<1> QED
  BY <1>1, <1>2, <1>3

\* The values a loop goes through: from a0, by a step of its own each time.
IsRun(g, N, A, a0, st) ==
  /\ g \in [0 .. N -> A] /\ g[0] = a0
  /\ \A n \in 1 .. N : g[n] = st[n][g[n - 1]]

\* A loop over 1 .. N has its values: the longest run that exists is one of N steps.
LEMMA LoopExists ==
  ASSUME NEW N \in Nat, NEW A, NEW a0 \in A, NEW st \in [1 .. N -> [A -> A]]
  PROVE  \E g : IsRun(g, N, A, a0, st)
<1> DEFINE Runs(m) == {g \in [0 .. m -> A] : g[0] = a0 /\ \A n \in 1 .. m : g[n] = st[n][g[n - 1]]}
           S == {m \in 0 .. N : Runs(m) # {}}
<1>1. 0 \in S
  <2>1. [n \in 0 .. 0 |-> a0] \in Runs(0)
    OBVIOUS
  <2> QED
    BY <2>1
<1>2. \A m \in 1 .. N : m - 1 \in S => m \in S
  <2> SUFFICES ASSUME NEW m \in 1 .. N, m - 1 \in S PROVE m \in S
    OBVIOUS
  <2>1. PICK g \in Runs(m - 1) : TRUE
    OBVIOUS
  <2>2. g[m - 1] \in A /\ st[m][g[m - 1]] \in A
    BY <2>1
  <2>3. [n \in 0 .. m |-> IF n = m THEN st[m][g[m - 1]] ELSE g[n]] \in Runs(m)
    BY <2>1, <2>2
  <2>4. m \in 0 .. N
    OBVIOUS
  <2> HIDE DEF Runs
  <2> QED
    BY <2>3, <2>4
<1>3. \A n \in 0 .. N : n \in S
  <2> HIDE DEF S
  <2> QED
    BY <1>1, <1>2, Countup
<1>4. N \in S
  <2> HIDE DEF S
  <2> QED
    BY <1>3
<1>5. Runs(N) # {}
  <2> HIDE DEF Runs
  <2> QED
    BY <1>4
<1> QED
  BY <1>5 DEF IsRun

-----------------------------------------------------------------------------
(* What a query merges, and its ranking.                                      *)

\* What the list of a query holds of an item.
Entry == [item : Items, version : Nat, length : Nat, bm25 : Int]

\* The list has each item of the first n hits once; the items that are in no other result
\* stand in the order in which the search first names them, and none has a positive score.
Collected(list, hits, n, others) ==
  /\ list \in Seq(Entry)
  /\ \A j, k \in 1 .. Len(list) : list[j].item = list[k].item => j = k
  /\ \A j \in 1 .. Len(list) : list[j].bm25 <= 0
  /\ \A l \in 1 .. n : Has(list, hits[l][1])
  /\ \A j \in 1 .. Len(list) : list[j].item \notin others =>
       \E l \in 1 .. n : hits[l][1] = list[j].item
  /\ \A j, k \in 1 .. Len(list) :
       j < k /\ list[j].item \notin others /\ list[k].item \notin others =>
         \E l \in 1 .. n : /\ hits[l][1] = list[j].item
                           /\ \A m \in 1 .. l : hits[m][1] # list[k].item

\* A function on 1 .. n is a sequence.
LEMMA MapSeq ==
  ASSUME NEW S, NEW n \in Nat, NEW s \in [1 .. n -> S]
  PROVE  s \in Seq(S) /\ Len(s) = n
<1>1. s \in Seq(S)
  BY SeqDef
<1>2. DOMAIN s = 1 .. n
  OBVIOUS
<1>3. Len(s) \in Nat /\ DOMAIN s = 1 .. Len(s)
  BY <1>1, LenProperties
<1>4. 1 .. n = 1 .. Len(s)
  BY <1>2, <1>3
<1>5. Len(s) = n
  BY <1>3, <1>4
<1> QED
  BY <1>1, <1>5

\* A new entry at the end of a list.
LEMMA AppendEntry ==
  ASSUME NEW known \in Seq(Entry), NEW r \in Entry
  PROVE  /\ Append(known, r) \in Seq(Entry)
         /\ Len(known) \in Nat /\ Len(Append(known, r)) = Len(known) + 1
         /\ Append(known, r)[Len(known) + 1] = r
         /\ \A j \in 1 .. Len(known) : Append(known, r)[j] = known[j]
BY AppendProperties, LenProperties

\* A second row of an item changes its score.
LEMMA Updated ==
  ASSUME NEW known \in Seq(Entry), NEW r \in Entry, Has(known, r.item)
  PROVE  /\ WithHit(known, r) \in Seq(Entry)
         /\ Len(WithHit(known, r)) = Len(known) /\ Len(known) \in Nat
         /\ \A j \in 1 .. Len(known) :
              /\ WithHit(known, r)[j].item = known[j].item
              /\ WithHit(known, r)[j].bm25 \in {known[j].bm25, r.bm25}
<1>1. Len(known) \in Nat /\ \A j \in 1 .. Len(known) : known[j] \in Entry
  BY LenProperties, ElementOfSeq
<1> DEFINE n == Len(known)
           e(j) == IF known[j].item = r.item THEN [known[j] EXCEPT !.bm25 = r.bm25] ELSE known[j]
<1>2. ASSUME NEW j \in 1 .. n
      PROVE  e(j) \in Entry /\ e(j).item = known[j].item /\ e(j).bm25 \in {known[j].bm25, r.bm25}
  <2>1. known[j] \in Entry
    BY <1>1
  <2> QED
    BY <2>1 DEF Entry
<1> DEFINE s == [j \in 1 .. n |-> e(j)]
<1>3. WithHit(known, r) = s
  BY DEF WithHit
<1> HIDE DEF e, n
<1>4. s \in [1 .. n -> Entry] /\ n \in Nat
  BY <1>1, <1>2 DEF n
<1>5. \A j \in 1 .. n : s[j] = e(j)
  OBVIOUS
<1> HIDE DEF s
<1>6. s \in Seq(Entry) /\ Len(s) = n
  BY <1>4, MapSeq
<1> QED
  BY <1>1, <1>2, <1>3, <1>5, <1>6 DEF n

LEMMA WithHitType ==
  ASSUME NEW known \in Seq(Entry), NEW r \in Entry
  PROVE  WithHit(known, r) \in Seq(Entry)
<1>1. CASE Has(known, r.item)
  BY <1>1, Updated
<1>2. CASE ~Has(known, r.item)
  BY <1>2, AppendEntry DEF WithHit
<1> QED
  BY <1>1, <1>2

\* One hit more.
LEMMA CollectHit ==
  ASSUME NEW hits \in Seq(Row), NEW n \in 1 .. Len(hits), NEW known, NEW r \in Entry,
         r.item = hits[n][1], r.bm25 <= 0,
         Collected(known, hits, n - 1, {})
  PROVE  Collected(WithHit(known, r), hits, n, {})
<1> DEFINE w == WithHit(known, r)
<1>1. known \in Seq(Entry) /\ Len(known) \in Nat /\ Len(hits) \in Nat
  BY LenProperties DEF Collected
<1>2. \A l \in 1 .. n : l \in 1 .. n - 1 \/ l = n
  BY <1>1
<1>3. \A l \in 1 .. n - 1 : l \in 1 .. n
  BY <1>1
<1>4. \A j \in 1 .. Len(known) : \E l \in 1 .. n - 1 : hits[l][1] = known[j].item
  BY DEF Collected
<1>5. \A j, k \in 1 .. Len(known) : j < k =>
        \E l \in 1 .. n - 1 : /\ hits[l][1] = known[j].item
                              /\ \A m \in 1 .. l : hits[m][1] # known[k].item
  BY DEF Collected
<1>6. CASE Has(known, r.item)
  <2>1. /\ w \in Seq(Entry) /\ Len(w) = Len(known)
        /\ \A j \in 1 .. Len(known) :
              w[j].item = known[j].item /\ w[j].bm25 \in {known[j].bm25, r.bm25}
    BY <1>1, <1>6, Updated
  <2> HIDE DEF w
  <2>2. \A l \in 1 .. n : Has(w, hits[l][1])
    BY <1>2, <1>6, <2>1 DEF Collected, Has
  <2>3. \A j \in 1 .. Len(w) : w[j].bm25 <= 0
    BY <2>1 DEF Collected
  <2>4. \A j \in 1 .. Len(w) : \E l \in 1 .. n : hits[l][1] = w[j].item
    BY <1>3, <1>4, <2>1
  <2>5. \A j, k \in 1 .. Len(w) : j < k =>
          \E l \in 1 .. n : hits[l][1] = w[j].item /\ \A m \in 1 .. l : hits[m][1] # w[k].item
    <3> SUFFICES ASSUME NEW j \in 1 .. Len(known), NEW k \in 1 .. Len(known), j < k
                 PROVE  \E l \in 1 .. n : /\ hits[l][1] = w[j].item
                                          /\ \A m \in 1 .. l : hits[m][1] # w[k].item
      BY <2>1
    <3>1. w[j].item = known[j].item /\ w[k].item = known[k].item
      BY <2>1
    <3>2. PICK l \in 1 .. n - 1 :
            hits[l][1] = known[j].item /\ \A m \in 1 .. l : hits[m][1] # known[k].item
      BY <1>5
    <3> QED
      BY <1>3, <3>1, <3>2
  <2>6. \A j, k \in 1 .. Len(w) : w[j].item = w[k].item => j = k
    BY <2>1 DEF Collected
  <2>7. Collected(w, hits, n, {})
    BY <2>1, <2>2, <2>3, <2>4, <2>5, <2>6 DEF Collected
  <2> QED
    BY <2>7 DEF w
<1>7. CASE ~Has(known, r.item)
  <2>1. w = Append(known, r)
    BY <1>7 DEF WithHit
  <2> HIDE DEF w
  <2>2. /\ w \in Seq(Entry) /\ Len(w) = Len(known) + 1 /\ w[Len(w)] = r
        /\ \A j \in 1 .. Len(known) : w[j] = known[j]
    BY <1>1, <2>1, AppendEntry
  <2>3. \A j \in 1 .. Len(w) : j \in 1 .. Len(known) \/ j = Len(w)
    BY <1>1, <2>2
  <2>4. \A j \in 1 .. Len(known) : j \in 1 .. Len(w)
    BY <1>1, <2>2
  <2>5. Len(w) \in 1 .. Len(w) /\ \A j \in 1 .. Len(known) : j # Len(w) /\ ~(Len(w) < j)
    BY <1>1, <2>2
  <2>6. \A j \in 1 .. Len(known) : known[j].item # r.item
    BY <1>7 DEF Has
  <2>7. \A j, k \in 1 .. Len(w) : w[j].item = w[k].item => j = k
    <3>1. \A j, k \in 1 .. Len(known) : known[j].item = known[k].item => j = k
      BY DEF Collected
    <3>2. \A j \in 1 .. Len(known) : w[j].item = known[j].item /\ w[j].item # w[Len(w)].item
      BY <2>2, <2>6
    <3> QED
      BY <2>3, <3>1, <3>2
  <2>8. \A j \in 1 .. Len(w) : w[j].bm25 <= 0
    BY <2>2, <2>3 DEF Collected
  <2>9. \A l \in 1 .. n : Has(w, hits[l][1])
    <3> SUFFICES ASSUME NEW l \in 1 .. n PROVE Has(w, hits[l][1])
      OBVIOUS
    <3>1. CASE l = n
      BY <2>2, <2>5, <3>1 DEF Has
    <3>2. CASE l # n
      <4>1. Has(known, hits[l][1])
        BY <1>2, <3>2 DEF Collected
      <4>2. PICK j \in 1 .. Len(known) : known[j].item = hits[l][1]
        BY <4>1 DEF Has
      <4> QED
        BY <2>2, <2>4, <4>2 DEF Has
    <3> QED
      BY <3>1, <3>2
  <2>10. \A j \in 1 .. Len(w) : \E l \in 1 .. n : hits[l][1] = w[j].item
    <3> SUFFICES ASSUME NEW j \in 1 .. Len(w) PROVE \E l \in 1 .. n : hits[l][1] = w[j].item
      OBVIOUS
    <3>1. CASE j = Len(w)
      BY <2>2, <3>1
    <3>2. CASE j # Len(w)
      BY <1>3, <1>4, <2>2, <2>3, <3>2
    <3> QED
      BY <3>1, <3>2
  <2>11. ASSUME NEW j \in 1 .. Len(w), NEW k \in 1 .. Len(w), j < k
         PROVE  \E l \in 1 .. n : /\ hits[l][1] = w[j].item
                                  /\ \A m \in 1 .. l : hits[m][1] # w[k].item
    <3>1. j \in 1 .. Len(known) /\ w[j] = known[j]
      BY <2>2, <2>3, <2>5, <2>11
    <3>2. CASE k \in 1 .. Len(known)
      <4>1. w[k] = known[k]
        BY <2>2, <3>2
      <4>2. PICK l \in 1 .. n - 1 :
              hits[l][1] = known[j].item /\ \A m \in 1 .. l : hits[m][1] # known[k].item
        BY <1>5, <2>11, <3>1, <3>2
      <4>3. l \in 1 .. n
        BY <1>3
      <4> QED
        BY <3>1, <4>1, <4>2, <4>3
    <3>3. CASE k = Len(w)
      <4>1. PICK l \in 1 .. n - 1 : hits[l][1] = known[j].item
        BY <3>1 DEF Collected
      <4>2. \A m \in 1 .. l : m \in 1 .. n - 1
        BY <4>1
      <4>3. \A m \in 1 .. n - 1 : hits[m][1] # r.item
        BY <2>6 DEF Collected, Has
      <4> QED
        BY <1>3, <2>2, <3>1, <3>3, <4>1, <4>2, <4>3
    <3> QED
      BY <2>3, <3>2, <3>3
  <2>12. Collected(w, hits, n, {})
    BY <2>2, <2>7, <2>8, <2>9, <2>10, <2>11 DEF Collected
  <2> QED
    BY <2>12 DEF w
<1> QED
  BY <1>6, <1>7

LEMMA CollectVector ==
  ASSUME NEW hits, NEW n \in Nat, NEW known, NEW others, NEW i \in Items, i \in others,
         Collected(known, hits, n, others)
  PROVE  Collected(WithVector(known, i), hits, n, others)
<1>1. CASE Has(known, i)
  BY <1>1 DEF WithVector
<1>2. CASE ~Has(known, i)
  <2> DEFINE r == [item |-> i, version |-> 0,
                   length |-> IF Length[i] < SnippetLength THEN Length[i] ELSE SnippetLength,
                   bm25 |-> 0]
             w == WithVector(known, i)
  <2>1. r \in Entry /\ r.item = i /\ r.bm25 = 0
    BY ItemsAssumption, PlanAssumption DEF Entry
  <2>2. known \in Seq(Entry)
    BY DEF Collected
  <2>3. w = Append(known, r)
    BY <1>2 DEF WithVector
  <2> HIDE DEF r, w
  <2>4. /\ w \in Seq(Entry) /\ Len(w) = Len(known) + 1 /\ w[Len(w)] = r /\ Len(known) \in Nat
        /\ \A j \in 1 .. Len(known) : w[j] = known[j]
    BY <2>1, <2>2, <2>3, AppendEntry
  <2>5. \A j \in 1 .. Len(w) : (j \in 1 .. Len(known) /\ w[j] = known[j]) \/ (j = Len(w) /\ w[j] = r)
    <3> SUFFICES ASSUME NEW j \in 1 .. Len(w)
                 PROVE  (j \in 1 .. Len(known) /\ w[j] = known[j]) \/ (j = Len(w) /\ w[j] = r)
      OBVIOUS
    <3>1. CASE j = Len(w)
      BY <2>4, <3>1
    <3>2. CASE j # Len(w)
      <4>1. j \in 1 .. Len(known)
        BY <2>4, <3>2
      <4>2. w[j] = known[j]
        BY <2>4, <4>1, Zenon
      <4> QED
        BY <4>1, <4>2
    <3> QED
      BY <3>1, <3>2
  <2>6. \A j \in 1 .. Len(known) : j \in 1 .. Len(w) /\ known[j].item # i
    BY <1>2, <2>4 DEF Has
  <2>7. \A j, k \in 1 .. Len(w) : w[j].item = w[k].item => j = k
    BY <2>1, <2>5, <2>6 DEF Collected
  <2>8. \A j \in 1 .. Len(w) : w[j].bm25 <= 0
    BY <2>1, <2>5 DEF Collected
  <2>9. \A l \in 1 .. n : Has(w, hits[l][1])
    <3>1. \A l \in 1 .. n : Has(known, hits[l][1])
      BY DEF Collected
    <3> QED
      BY <2>4, <2>6, <3>1 DEF Has
  <2>10. \A j \in 1 .. Len(w) : w[j].item \notin others =>
           j \in 1 .. Len(known) /\ w[j] = known[j]
    BY <2>1, <2>5
  <2>11. \A j \in 1 .. Len(w) : w[j].item \notin others =>
           \E l \in 1 .. n : hits[l][1] = w[j].item
    <3>1. \A j \in 1 .. Len(known) : known[j].item \notin others =>
            \E l \in 1 .. n : hits[l][1] = known[j].item
      BY DEF Collected
    <3> QED
      BY <2>10, <3>1
  <2>12. \A j, k \in 1 .. Len(w) :
           j < k /\ w[j].item \notin others /\ w[k].item \notin others =>
             \E l \in 1 .. n : /\ hits[l][1] = w[j].item
                               /\ \A m \in 1 .. l : hits[m][1] # w[k].item
    <3>1. \A j, k \in 1 .. Len(known) :
            j < k /\ known[j].item \notin others /\ known[k].item \notin others =>
              \E l \in 1 .. n : /\ hits[l][1] = known[j].item
                                /\ \A m \in 1 .. l : hits[m][1] # known[k].item
      BY DEF Collected
    <3> QED
      BY <2>10, <3>1
  <2>13. Collected(w, hits, n, others)
    BY <2>4, <2>7, <2>8, <2>9, <2>11, <2>12 DEF Collected
  <2> QED
    BY <2>13 DEF w
<1> QED
  BY <1>1, <1>2

\* The loop over the hits.
LEMMA TextCollected ==
  ASSUME NEW hits \in Seq(Row)
  PROVE  Collected(FromText(hits), hits, Len(hits), {})
<1> DEFINE N == Len(hits)
           found(n) == [item |-> hits[n][1], version |-> hits[n][2],
                        length |-> Length[hits[n][1]], bm25 |-> n - Len(hits) - 1]
           st == [n \in 1 .. N |-> [known \in Seq(Entry) |-> WithHit(known, found(n))]]
<1>1. N \in Nat
  BY LenProperties
<1>2. \A n \in 1 .. N : found(n) \in Entry /\ found(n).item = hits[n][1] /\ found(n).bm25 <= 0
  <2> SUFFICES ASSUME NEW n \in 1 .. N
               PROVE  found(n) \in Entry /\ found(n).item = hits[n][1] /\ found(n).bm25 <= 0
    OBVIOUS
  <2>1. hits[n] \in Row
    BY ElementOfSeq
  <2>2. hits[n][1] \in Items /\ hits[n][2] \in Nat /\ Length[hits[n][1]] \in Nat
    BY <2>1, ItemsAssumption DEF Row
  <2>3. n - Len(hits) - 1 \in Int /\ n - Len(hits) - 1 <= 0
    BY <1>1
  <2> QED
    BY <2>2, <2>3 DEF Entry
<1>3. st \in [1 .. N -> [Seq(Entry) -> Seq(Entry)]]
  <2> HIDE DEF found, N
  <2>1. \A n \in 1 .. N : \A known \in Seq(Entry) : WithHit(known, found(n)) \in Seq(Entry)
    BY <1>2, WithHitType
  <2> QED
    BY <2>1
<1>4. <<>> \in Seq(Entry) /\ Len(<<>>) = 0
  BY EmptySeq
<1>5. PICK g : IsRun(g, N, Seq(Entry), <<>>, st)
  <2> HIDE DEF N, st
  <2> QED
    BY <1>1, <1>3, <1>4, LoopExists
<1>6. g \in [0 .. N -> Seq(Entry)] /\ g[0] = <<>>
  BY <1>5 DEF IsRun
<1>7. \A n \in 1 .. N : n - 1 \in 0 .. N /\ n \in 0 .. N /\ n # 0
  BY <1>1
<1>8. \A n \in 1 .. N : g[n] = WithHit(g[n - 1], found(n))
  <2>1. \A n \in 1 .. N : g[n] = st[n][g[n - 1]]
    BY <1>5 DEF IsRun
  <2>2. \A n \in 1 .. N : g[n - 1] \in Seq(Entry)
    BY <1>6, <1>7
  <2> HIDE DEF found, N
  <2> QED
    BY <2>1, <2>2
<1>9. g = [n \in 0 .. N |-> IF n = 0 THEN <<>> ELSE WithHit(g[n - 1], found(n))]
  <2> HIDE DEF found
  <2> QED
    BY <1>1, <1>6, <1>8
<1> DEFINE all_results ==
             CHOOSE f : f = [n \in 0 .. N |-> IF n = 0 THEN <<>> ELSE WithHit(f[n - 1], found(n))]
<1>10. all_results = [n \in 0 .. N |-> IF n = 0 THEN <<>> ELSE WithHit(all_results[n - 1], found(n))]
  BY <1>9, Zenon
<1>11. FromText(hits) = all_results[N]
  BY Zenon DEF FromText
<1> HIDE DEF all_results, found, st
<1>12. /\ all_results[0] = <<>>
       /\ \A n \in 1 .. N : all_results[n] = WithHit(all_results[n - 1], found(n))
  BY <1>1, <1>7, <1>10
<1> DEFINE S == {n \in 0 .. N : Collected(all_results[n], hits, n, {})}
<1>13. 0 \in S
  <2>1. Collected(<<>>, hits, 0, {})
    BY <1>4 DEF Collected
  <2> QED
    BY <1>1, <1>12, <2>1
<1>14. \A n \in 1 .. N : n - 1 \in S => n \in S
  <2> SUFFICES ASSUME NEW n \in 1 .. N, n - 1 \in S PROVE n \in S
    OBVIOUS
  <2>1. Collected(all_results[n - 1], hits, n - 1, {})
    OBVIOUS
  <2>2. Collected(WithHit(all_results[n - 1], found(n)), hits, n, {})
    BY <1>2, <2>1, CollectHit
  <2> QED
    BY <1>7, <1>12, <2>2
<1>15. \A n \in 0 .. N : n \in S
  <2> HIDE DEF S, N
  <2> QED
    BY <1>1, <1>13, <1>14, Countup
<1>16. N \in S
  BY <1>1, <1>15
<1> QED
  BY <1>11, <1>16

\* The loop over what the vectors found.
LEMMA MergedCollected ==
  ASSUME NEW hits \in Seq(Row), NEW vector \in Seq(Items)
  PROVE  Collected(Merged(hits, vector), hits, Len(hits), ToSet(vector))
<1> DEFINE N == Len(vector)
           V == ToSet(vector)
           A == {known \in Seq(Entry) : Collected(known, hits, Len(hits), V)}
           st == [n \in 1 .. N |-> [known \in A |-> WithVector(known, vector[n])]]
<1>1. N \in Nat /\ Len(hits) \in Nat /\ DOMAIN vector = 1 .. N
  BY LenProperties
<1>2. \A n \in 1 .. N : vector[n] \in Items /\ vector[n] \in V
  BY <1>1, ElementOfSeq DEF ToSet
<1>3. st \in [1 .. N -> [A -> A]]
  <2>1. ASSUME NEW n \in 1 .. N, NEW known \in A
        PROVE  WithVector(known, vector[n]) \in A
    <3>1. Collected(known, hits, Len(hits), V)
      OBVIOUS
    <3> HIDE DEF V, N
    <3>2. Collected(WithVector(known, vector[n]), hits, Len(hits), V)
      BY <1>1, <1>2, <3>1, CollectVector
    <3> QED
      BY <3>2 DEF Collected
  <2> HIDE DEF A, N
  <2> QED
    BY <2>1
<1>4. FromText(hits) \in A
  <2>1. Collected(FromText(hits), hits, Len(hits), {})
    BY TextCollected
  <2> HIDE DEF V
  <2>2. FromText(hits) \in Seq(Entry)
    BY <2>1 DEF Collected
  <2>3. Collected(FromText(hits), hits, Len(hits), V)
    BY <2>1 DEF Collected
  <2> QED
    BY <2>2, <2>3
<1>5. PICK g : IsRun(g, N, A, FromText(hits), st)
  <2> HIDE DEF N, st, A
  <2> QED
    BY <1>1, <1>3, <1>4, LoopExists
<1>6. g \in [0 .. N -> A] /\ g[0] = FromText(hits)
  <2> HIDE DEF A
  <2> QED
    BY <1>5 DEF IsRun
<1>7. \A n \in 1 .. N : n - 1 \in 0 .. N /\ n \in 0 .. N /\ n # 0
  BY <1>1
<1>8. \A n \in 1 .. N : g[n] = WithVector(g[n - 1], vector[n])
  <2> HIDE DEF A
  <2>1. \A n \in 1 .. N : g[n] = st[n][g[n - 1]]
    BY <1>5 DEF IsRun
  <2>2. \A n \in 1 .. N : g[n - 1] \in A
    BY <1>6, <1>7
  <2> HIDE DEF N
  <2> QED
    BY <2>1, <2>2
<1>9. g = [n \in 0 .. N |-> IF n = 0 THEN FromText(hits) ELSE WithVector(g[n - 1], vector[n])]
  <2> HIDE DEF A
  <2> QED
    BY <1>1, <1>6, <1>8
<1> DEFINE all_results ==
             CHOOSE f : f = [n \in 0 .. N |-> IF n = 0 THEN FromText(hits)
                                              ELSE WithVector(f[n - 1], vector[n])]
<1>10. all_results = [n \in 0 .. N |-> IF n = 0 THEN FromText(hits)
                                       ELSE WithVector(all_results[n - 1], vector[n])]
  BY <1>9, Zenon
<1>11. Merged(hits, vector) = all_results[N]
  BY Zenon DEF Merged
<1> HIDE DEF all_results, A, st
<1>12. /\ all_results[0] = FromText(hits)
       /\ \A n \in 1 .. N : all_results[n] = WithVector(all_results[n - 1], vector[n])
  BY <1>1, <1>7, <1>10
<1> DEFINE S == {n \in 0 .. N : all_results[n] \in A}
<1>13. 0 \in S
  BY <1>1, <1>4, <1>12
<1>14. \A n \in 1 .. N : n - 1 \in S => n \in S
  <2> SUFFICES ASSUME NEW n \in 1 .. N, n - 1 \in S PROVE n \in S
    OBVIOUS
  <2>1. all_results[n - 1] \in A
    OBVIOUS
  <2>2. st[n] \in [A -> A] /\ st[n][all_results[n - 1]] \in A
    BY <1>3, <2>1
  <2>3. st[n][all_results[n - 1]] = WithVector(all_results[n - 1], vector[n])
    BY <2>1 DEF st
  <2> QED
    BY <1>7, <1>12, <2>2, <2>3
<1>15. \A n \in 0 .. N : n \in S
  <2> HIDE DEF S, N
  <2> QED
    BY <1>1, <1>13, <1>14, Countup
<1>16. Merged(hits, vector) \in A
  BY <1>1, <1>11, <1>15
<1> QED
  BY <1>16 DEF A

\* Only what the vectors found has a score: bm25() is not positive.
LEMMA NoScore ==
  ASSUME NEW items, NEW vector \in Seq(Items), NEW c,
         c.bm25 <= 0, c.bm25 \in Int, c.item \notin ToSet(vector)
  PROVE  RRF(items, vector, c) = 0
<1>1. ~(c.bm25 > 0)
  OBVIOUS
<1>2. {j \in 1 .. Len(vector) : vector[j] = c.item} = {}
  <2>1. DOMAIN vector = 1 .. Len(vector)
    BY LenProperties
  <2> QED
    BY <2>1 DEF ToSet
<1> QED
  BY <1>1, <1>2 DEF RRF

\* The ranking has each item once, and those without a score in the order of the merge.
LEMMA RankingKeepsOrder ==
  ASSUME NEW hits \in Seq(Row), NEW vector \in Seq(Items), NEW ranking \in Rankings(hits, vector)
  PROVE  /\ ranking \in Seq(Entry)
         /\ \A j, k \in 1 .. Len(ranking) : ranking[j].item = ranking[k].item => j = k
         /\ \A l \in 1 .. Len(hits) : Has(ranking, hits[l][1])
         /\ \A j, k \in 1 .. Len(ranking) :
              j < k /\ ranking[j].item \notin ToSet(vector) /\ ranking[k].item \notin ToSet(vector) =>
                \E l \in 1 .. Len(hits) :
                  /\ hits[l][1] = ranking[j].item
                  /\ \A m \in 1 .. l : hits[m][1] # ranking[k].item
<1> DEFINE items == Merged(hits, vector)
           places == 1 .. Len(items)
           score == [j \in places |-> RRF(items, vector, items[j])]
           Sorts(at) == \A p, q \in places : p < q =>
                          \/ score[at[p]] > score[at[q]]
                          \/ score[at[p]] = score[at[q]] /\ at[p] < at[q]
<1>1. Collected(items, hits, Len(hits), ToSet(vector))
  BY MergedCollected
<1>2. PICK at \in Bijection(places, places) :
        Sorts(at) /\ ranking = [p \in places |-> items[at[p]]]
  BY DEF Rankings
<1> HIDE DEF items, Sorts
<1>3. items \in Seq(Entry) /\ Len(items) \in Nat /\ \A p \in places : items[p] \in Entry
  BY <1>1, LenProperties, ElementOfSeq DEF Collected
<1>4. /\ at \in [places -> places]
      /\ \A p, q \in places : at[p] = at[q] => p = q
      /\ \A t \in places : \E p \in places : at[p] = t
  BY <1>2 DEF Bijection, Injection, Surjection, IsInjective
<1>5. ranking \in [1 .. Len(items) -> Entry]
  BY <1>2, <1>3, <1>4
<1>6. ranking \in Seq(Entry) /\ Len(ranking) = Len(items)
  BY <1>3, <1>5, MapSeq
<1>7. \A p \in places : at[p] \in places /\ ranking[p] = items[at[p]]
  BY <1>2, <1>4
<1>8. \A j, k \in 1 .. Len(ranking) : ranking[j].item = ranking[k].item => j = k
  <2> SUFFICES ASSUME NEW j \in places, NEW k \in places, ranking[j].item = ranking[k].item
               PROVE  j = k
    BY <1>6
  <2>1. at[j] \in places /\ at[k] \in places /\ items[at[j]].item = items[at[k]].item
    BY <1>7
  <2>2. at[j] = at[k]
    BY <1>1, <2>1 DEF Collected
  <2> QED
    BY <1>4, <2>2
<1>9. \A l \in 1 .. Len(hits) : Has(ranking, hits[l][1])
  <2> SUFFICES ASSUME NEW l \in 1 .. Len(hits) PROVE Has(ranking, hits[l][1])
    OBVIOUS
  <2>1. PICK t \in places : items[t].item = hits[l][1]
    BY <1>1 DEF Collected, Has
  <2>2. PICK p \in places : at[p] = t
    BY <1>4
  <2> QED
    BY <1>6, <1>7, <2>1, <2>2 DEF Has
<1>10. ASSUME NEW j \in places, NEW k \in places, j < k,
              ranking[j].item \notin ToSet(vector), ranking[k].item \notin ToSet(vector)
       PROVE  at[j] < at[k]
  <2>1. \A p \in places : ranking[p].item \notin ToSet(vector) => score[at[p]] = 0
    <3> SUFFICES ASSUME NEW p \in places, ranking[p].item \notin ToSet(vector)
                 PROVE  score[at[p]] = 0
      OBVIOUS
    <3> DEFINE c == items[at[p]]
    <3>1. at[p] \in places /\ c = ranking[p]
      BY <1>7
    <3>2. c.bm25 <= 0 /\ c.bm25 \in Int
      BY <1>1, <1>3, <3>1 DEF Collected, Entry
    <3>3. c.item \notin ToSet(vector)
      BY <3>1
    <3> HIDE DEF c
    <3>4. RRF(items, vector, c) = 0
      BY <3>2, <3>3, NoScore
    <3> QED
      BY <3>1, <3>4 DEF c
  <2>2. score[at[j]] = 0 /\ score[at[k]] = 0
    BY <1>10, <2>1
  <2> HIDE DEF score
  <2>3. score[at[j]] > score[at[k]] \/ at[j] < at[k]
    BY <1>2, <1>10 DEF Sorts
  <2> QED
    BY <2>2, <2>3
<1>11. ASSUME NEW j \in places, NEW k \in places, j < k,
              ranking[j].item \notin ToSet(vector), ranking[k].item \notin ToSet(vector)
       PROVE  \E l \in 1 .. Len(hits) : /\ hits[l][1] = ranking[j].item
                                        /\ \A m \in 1 .. l : hits[m][1] # ranking[k].item
  <2>1. at[j] < at[k] /\ at[j] \in places /\ at[k] \in places
    BY <1>7, <1>10, <1>11
  <2>2. ranking[j] = items[at[j]] /\ ranking[k] = items[at[k]]
    BY <1>7
  <2>3. \A a, b \in 1 .. Len(items) :
          a < b /\ items[a].item \notin ToSet(vector) /\ items[b].item \notin ToSet(vector) =>
            \E l \in 1 .. Len(hits) : /\ hits[l][1] = items[a].item
                                      /\ \A m \in 1 .. l : hits[m][1] # items[b].item
    BY <1>1 DEF Collected
  <2>4. items[at[j]].item \notin ToSet(vector) /\ items[at[k]].item \notin ToSet(vector)
    BY <1>11, <2>2
  <2>5. \E l \in 1 .. Len(hits) : /\ hits[l][1] = items[at[j]].item
                                  /\ \A m \in 1 .. l : hits[m][1] # items[at[k]].item
    BY <2>1, <2>3, <2>4
  <2> QED
    BY <2>2, <2>5
<1> QED
  BY <1>6, <1>8, <1>9, <1>11

LEMMA LeastIsMin ==
  ASSUME NEW T \in SUBSET Nat, T # {}
  PROVE  Min(T) \in T /\ \A y \in T : Min(T) <= y
<1>1. \E x \in T : \A y \in T : x <= y
  BY LeastNumber
<1> QED
  BY <1>1 DEF Min

\* Where the hits name an item first, and where the ranking has it.
First(hits, i) == Min({l \in 1 .. Len(hits) : hits[l][1] = i})
Place(ranking, i) == CHOOSE l \in 1 .. Len(ranking) : ranking[l].item = i

\* What only the full-text search found is ranked in the order in which it was found.
LEMMA TextOrder ==
  ASSUME NEW hits \in Seq(Row), NEW vector \in Seq(Items), NEW ranking \in Rankings(hits, vector),
         NEW j \in 1 .. Len(hits), NEW k \in 1 .. Len(hits),
         hits[j][1] \notin ToSet(vector), hits[k][1] \notin ToSet(vector),
         First(hits, hits[j][1]) < First(hits, hits[k][1])
  PROVE  Place(ranking, hits[j][1]) < Place(ranking, hits[k][1])
<1> DEFINE c == hits[j][1]
           d == hits[k][1]
           places == 1 .. Len(ranking)
           C == {l \in 1 .. Len(hits) : hits[l][1] = c}
           D == {l \in 1 .. Len(hits) : hits[l][1] = d}
<1>1. Len(hits) \in Nat /\ Len(ranking) \in Nat
  BY RankingKeepsOrder, LenProperties
<1>2. /\ Min(C) \in C /\ \A l \in C : Min(C) <= l
      /\ Min(D) \in D /\ \A l \in D : Min(D) <= l
  <2>1. C \in SUBSET Nat /\ D \in SUBSET Nat /\ C # {} /\ D # {}
    BY <1>1
  <2> HIDE DEF C, D
  <2> QED
    BY <2>1, LeastIsMin
<1>3. Min(C) < Min(D)
  BY DEF First
<1> HIDE DEF c, d
<1>4. Has(ranking, c) /\ Has(ranking, d)
  BY RankingKeepsOrder DEF c, d
<1> DEFINE p == CHOOSE l \in places : ranking[l].item = c
           q == CHOOSE l \in places : ranking[l].item = d
<1>5. p \in places /\ ranking[p].item = c /\ q \in places /\ ranking[q].item = d
  <2>1. \E l \in places : ranking[l].item = c
    BY <1>4 DEF Has
  <2>2. \E l \in places : ranking[l].item = d
    BY <1>4 DEF Has
  <2> QED
    BY <2>1, <2>2
<1> HIDE DEF p, q
<1>6. c # d
  <2>1. ASSUME c = d PROVE FALSE
    <3>1. C = D
      BY <2>1
    <3> HIDE DEF C, D
    <3>2. Min(C) = Min(D)
      BY <3>1
    <3>3. Min(C) \in Nat
      BY <1>1, <1>2 DEF C
    <3> QED
      BY <1>3, <3>2, <3>3
  <2> QED
    BY <2>1
<1>7. p # q
  BY <1>5, <1>6
<1>8. ASSUME q < p
      PROVE  FALSE
  <2>1. c \notin ToSet(vector) /\ d \notin ToSet(vector)
    BY DEF c, d
  <2>2. PICK l \in 1 .. Len(hits) : hits[l][1] = d /\ \A m \in 1 .. l : hits[m][1] # c
    <3>1. \A a, b \in places :
            a < b /\ ranking[a].item \notin ToSet(vector) /\ ranking[b].item \notin ToSet(vector) =>
              \E l \in 1 .. Len(hits) : /\ hits[l][1] = ranking[a].item
                                        /\ \A m \in 1 .. l : hits[m][1] # ranking[b].item
      BY RankingKeepsOrder
    <3>2. ranking[q].item = d /\ ranking[p].item = c /\ q < p /\ p \in places /\ q \in places
      BY <1>5, <1>8
    <3> HIDE DEF places
    <3>3. \E l \in 1 .. Len(hits) : /\ hits[l][1] = ranking[q].item
                                    /\ \A m \in 1 .. l : hits[m][1] # ranking[p].item
      BY <2>1, <3>1, <3>2
    <3> QED
      BY <3>2, <3>3
  <2>3. l \in D
    BY <2>2
  <2>4. Min(C) \in 1 .. Len(hits) /\ hits[Min(C)][1] = c /\ Min(D) \in Nat /\ Min(D) <= l
    <3>1. \A x \in C : x \in 1 .. Len(hits) /\ hits[x][1] = c
      OBVIOUS
    <3>2. \A x \in D : x \in Nat
      BY <1>1
    <3> HIDE DEF C, D
    <3> QED
      BY <1>2, <2>3, <3>1, <3>2
  <2> DEFINE m == Min(C)
  <2>5. m < Min(D)
    BY <1>3
  <2>6. m \in 1 .. Len(hits) /\ hits[m][1] = c
    BY <2>4
  <2> HIDE DEF m
  <2>7. m \in 1 .. l
    BY <1>1, <2>2, <2>4, <2>5, <2>6
  <2> QED
    BY <2>2, <2>6, <2>7
<1>9. p < q
  BY <1>1, <1>5, <1>7, <1>8
<1> QED
  BY <1>9 DEF Place, p, q, c, d

-----------------------------------------------------------------------------
(* What a query trims.                                                        *)

\* The totals of a list; the recursive function has its equation, as the loop shows that
\* there is a function with it.
LEMMA CharsLoop ==
  ASSUME NEW list, Len(list) \in Nat, \A n \in 1 .. Len(list) : list[n].length \in Nat
  PROVE  /\ Chars(list) \in [0 .. Len(list) -> Nat] /\ Chars(list)[0] = 0
         /\ \A n \in 1 .. Len(list) : Chars(list)[n] = Chars(list)[n - 1] + list[n].length
<1> DEFINE N == Len(list)
           st == [n \in 1 .. N |-> [t \in Nat |-> t + list[n].length]]
<1>1. st \in [1 .. N -> [Nat -> Nat]]
  OBVIOUS
<1> HIDE DEF st
<1>2. PICK g : IsRun(g, N, Nat, 0, st)
  <2>1. N \in Nat /\ 0 \in Nat
    OBVIOUS
  <2> HIDE DEF N
  <2> QED
    BY <1>1, <2>1, LoopExists
<1>3. \A n \in 1 .. N : n - 1 \in 0 .. N /\ g[n - 1] \in Nat
  <2>1. \A n \in 1 .. N : n - 1 \in 0 .. N
    OBVIOUS
  <2>2. \A n \in 0 .. N : g[n] \in Nat
    BY <1>2 DEF IsRun
  <2> QED
    BY <2>1, <2>2
<1>4. \A n \in 1 .. N : g[n] = g[n - 1] + list[n].length
  BY <1>2, <1>3 DEF st, IsRun
<1>5. g = [n \in 0 .. N |-> IF n = 0 THEN 0 ELSE g[n - 1] + list[n].length]
  BY <1>2, <1>4 DEF IsRun
<1>6. Chars(list) = [n \in 0 .. N |-> IF n = 0 THEN 0 ELSE Chars(list)[n - 1] + list[n].length]
  BY <1>5, Zenon DEF Chars
<1>7. DOMAIN Chars(list) = 0 .. N /\ Chars(list)[0] = 0
  BY <1>6
<1>8. \A n \in 1 .. N : n \in 0 .. N /\ n # 0
  OBVIOUS
<1>9. \A n \in 1 .. N : Chars(list)[n] = Chars(list)[n - 1] + list[n].length
  BY <1>6, <1>8
<1> DEFINE S == {n \in 0 .. N : Chars(list)[n] \in Nat}
<1>10. 0 \in S /\ \A n \in 1 .. N : n - 1 \in S => n \in S
  BY <1>7, <1>8, <1>9
<1>11. \A n \in 0 .. N : n \in S
  <2> HIDE DEF S
  <2> QED
    BY <1>10, Countup
<1>12. \A n \in 0 .. N : Chars(list)[n] \in Nat
  BY <1>11
<1> QED
  BY <1>6, <1>7, <1>9, <1>12

LEMMA CharsOf ==
  ASSUME NEW list \in Seq(Entry)
  PROVE  /\ Len(list) \in Nat /\ Chars(list) \in [0 .. Len(list) -> Nat] /\ Chars(list)[0] = 0
         /\ \A n \in 1 .. Len(list) : Chars(list)[n] = Chars(list)[n - 1] + list[n].length
<1>1. Len(list) \in Nat
  BY LenProperties
<1>2. \A n \in 1 .. Len(list) : list[n].length \in Nat
  <2> SUFFICES ASSUME NEW n \in 1 .. Len(list) PROVE list[n].length \in Nat
    OBVIOUS
  <2>1. list[n] \in Entry
    BY ElementOfSeq
  <2> QED
    BY <2>1 DEF Entry
<1> QED
  BY <1>1, <1>2, CharsLoop

\* A new entry leaves the totals before it as they are.
LEMMA CharsAppend ==
  ASSUME NEW list \in Seq(Entry), NEW r \in Entry
  PROVE  /\ \A k \in 0 .. Len(list) : Chars(Append(list, r))[k] = Chars(list)[k]
         /\ Chars(Append(list, r))[Len(list) + 1] = Chars(list)[Len(list)] + r.length
<1> DEFINE w == Append(list, r)
           N == Len(list)
<1>1. /\ w \in Seq(Entry) /\ N \in Nat /\ Len(w) = N + 1 /\ w[N + 1] = r
      /\ \A j \in 1 .. N : w[j] = list[j]
  BY AppendEntry
<1> HIDE DEF w
<1>2. /\ Chars(w)[0] = 0 /\ Chars(list)[0] = 0
      /\ \A n \in 1 .. N + 1 : Chars(w)[n] = Chars(w)[n - 1] + w[n].length
      /\ \A n \in 1 .. N : Chars(list)[n] = Chars(list)[n - 1] + list[n].length
  BY <1>1, CharsOf
<1> HIDE DEF N
<1> DEFINE S == {k \in 0 .. N : Chars(w)[k] = Chars(list)[k]}
<1>3. 0 \in S
  BY <1>1, <1>2
<1>4. \A k \in 1 .. N : k - 1 \in S => k \in S
  <2> SUFFICES ASSUME NEW k \in 1 .. N, k - 1 \in S PROVE k \in S
    OBVIOUS
  <2>1. k \in 1 .. N + 1 /\ k \in 0 .. N
    BY <1>1
  <2>2. Chars(w)[k - 1] = Chars(list)[k - 1] /\ w[k] = list[k]
    BY <1>1
  <2> QED
    BY <1>2, <2>1, <2>2
<1>5. \A k \in 0 .. N : k \in S
  <2> HIDE DEF S
  <2> QED
    BY <1>1, <1>3, <1>4, Countup
<1>6. \A k \in 0 .. N : Chars(w)[k] = Chars(list)[k]
  BY <1>5
<1>7. N + 1 \in 1 .. N + 1 /\ (N + 1) - 1 = N /\ N \in 0 .. N
  BY <1>1
<1>8. Chars(w)[N + 1] = Chars(list)[N] + r.length
  BY <1>1, <1>2, <1>6, <1>7
<1> QED
  BY <1>6, <1>8 DEF w, N

\* at says where in the ranking the entries of t are; the one at j is passed over for a
\* reason.
Dropped(t, ranking, at, j, budget, max) ==
  \E k \in 0 .. Len(t) :
    /\ \A p \in 1 .. Len(t) : at[p] < j <=> p <= k
    /\ k = max \/ (k > 0 /\ Chars(t)[k] + ranking[j].length > budget)

Placed(t, ranking, n, at, budget, max) ==
  /\ at \in [1 .. Len(t) -> 1 .. n]
  /\ \A p \in 1 .. Len(t) : t[p] = ranking[at[p]]
  /\ \A p, q \in 1 .. Len(t) : p < q => at[p] < at[q]
  /\ \A j \in 1 .. n : (\A p \in 1 .. Len(t) : at[p] # j) =>
                         Dropped(t, ranking, at, j, budget, max)

Trimming == [trimmed : Seq(Entry), total : Nat]

\* What is left of the first n of a ranking.
Trimmed(s, ranking, n, budget, max) ==
  /\ s \in Trimming
  /\ Len(s.trimmed) <= max
  /\ s.total = Chars(s.trimmed)[Len(s.trimmed)]
  /\ Len(s.trimmed) > 1 => s.total <= budget
  /\ \E at : Placed(s.trimmed, ranking, n, at, budget, max)

LEMMA TakeType ==
  ASSUME NEW s \in Trimming, NEW r \in Entry, NEW budget, NEW max
  PROVE  Take(s, r, budget, max) \in Trimming
<1>1. s.trimmed \in Seq(Entry) /\ s.total \in Nat
  BY DEF Trimming
<1>2. s.total + r.length \in Nat
  BY <1>1 DEF Entry
<1>3. Append(s.trimmed, r) \in Seq(Entry)
  BY <1>1, AppendEntry
<1> QED
  BY <1>2, <1>3 DEF Take, Trimming

\* The next one is passed over.
LEMMA PassedOver ==
  ASSUME NEW ranking \in Seq(Entry), NEW n \in 1 .. Len(ranking),
         NEW budget \in Int, NEW max \in Nat,
         NEW t \in Seq(Entry), NEW at, Placed(t, ranking, n - 1, at, budget, max), Len(t) <= max,
         \/ Len(t) >= max
         \/ Chars(t)[Len(t)] + ranking[n].length > budget /\ t # <<>>
  PROVE  Placed(t, ranking, n, at, budget, max)
<1>1. Len(ranking) \in Nat /\ Len(t) \in Nat
  BY LenProperties
<1>2. t # <<>> => Len(t) > 0
  BY EmptySeq
<1>3. at \in [1 .. Len(t) -> 1 .. n - 1]
  BY DEF Placed
<1>4. at \in [1 .. Len(t) -> 1 .. n] /\ \A p \in 1 .. Len(t) : at[p] < n
  <2>1. \A p \in 1 .. Len(t) : at[p] \in 1 .. n - 1
    BY <1>3
  <2>2. 1 .. n - 1 \subseteq 1 .. n /\ \A x \in 1 .. n - 1 : x < n
    BY <1>1
  <2>3. at \in [1 .. Len(t) -> 1 .. n]
    BY <1>3, <2>2
  <2> QED
    BY <2>1, <2>2, <2>3
<1>5. Dropped(t, ranking, at, n, budget, max)
  <2>1. Len(t) \in 0 .. Len(t) /\ \A p \in 1 .. Len(t) : at[p] < n <=> p <= Len(t)
    BY <1>1, <1>4
  <2>2. Len(t) = max \/ (Len(t) > 0 /\ Chars(t)[Len(t)] + ranking[n].length > budget)
    BY <1>1, <1>2
  <2> QED
    BY <2>1, <2>2 DEF Dropped
<1>6. \A j \in 1 .. n : j \in 1 .. n - 1 \/ j = n
  BY <1>1
<1>7. \A j \in 1 .. n : (\A p \in 1 .. Len(t) : at[p] # j) => Dropped(t, ranking, at, j, budget, max)
  BY <1>5, <1>6 DEF Placed
<1> QED
  BY <1>4, <1>7 DEF Placed

\* The next one is taken.
LEMMA Taken ==
  ASSUME NEW ranking \in Seq(Entry), NEW n \in 1 .. Len(ranking), NEW budget, NEW max,
         NEW t \in Seq(Entry), NEW at, Placed(t, ranking, n - 1, at, budget, max)
  PROVE  \E b : Placed(Append(t, ranking[n]), ranking, n, b, budget, max)
<1> DEFINE r == ranking[n]
           w == Append(t, r)
           N == Len(t)
           b == [p \in 1 .. N + 1 |-> IF p = N + 1 THEN n ELSE at[p]]
<1>1. Len(ranking) \in Nat /\ r \in Entry
  BY LenProperties, ElementOfSeq
<1>2. /\ Len(w) = N + 1 /\ N \in Nat /\ w[N + 1] = r
      /\ \A p \in 1 .. N : w[p] = t[p]
  <2> HIDE DEF r
  <2> QED
    BY <1>1, AppendEntry
<1>3. \A k \in 0 .. N : Chars(w)[k] = Chars(t)[k]
  <2> HIDE DEF r
  <2> QED
    BY <1>1, CharsAppend
<1> HIDE DEF w, N
<1>4. at \in [1 .. N -> 1 .. n - 1]
  BY DEF Placed, N
<1>5. \A p \in 1 .. N : at[p] \in 1 .. n - 1 /\ at[p] < n
  BY <1>1, <1>4
<1>6. b \in [1 .. N + 1 -> 1 .. n]
  BY <1>1, <1>2, <1>5
<1>7. /\ b[N + 1] = n /\ N + 1 \in 1 .. N + 1
      /\ \A p \in 1 .. N : b[p] = at[p] /\ p \in 1 .. N + 1
      /\ \A p \in 1 .. N + 1 : p \in 1 .. N \/ p = N + 1
  BY <1>2
<1> HIDE DEF b
<1>8. \A p \in 1 .. N + 1 : w[p] = ranking[b[p]]
  <2>1. \A p \in 1 .. N : t[p] = ranking[at[p]]
    BY DEF Placed, N
  <2>2. w[N + 1] = ranking[b[N + 1]]
    BY <1>2, <1>7
  <2>3. \A p \in 1 .. N : w[p] = ranking[b[p]]
    BY <1>2, <1>7, <2>1
  <2> QED
    BY <1>7, <2>2, <2>3
<1>9. \A p, q \in 1 .. N + 1 : p < q => b[p] < b[q]
  <2> SUFFICES ASSUME NEW p \in 1 .. N + 1, NEW q \in 1 .. N + 1, p < q
               PROVE  b[p] < b[q]
    OBVIOUS
  <2>1. p \in 1 .. N /\ b[p] = at[p]
    BY <1>2, <1>7
  <2>2. CASE q \in 1 .. N
    <3>1. \A x, y \in 1 .. N : x < y => at[x] < at[y]
      BY DEF Placed, N
    <3> QED
      BY <1>7, <2>1, <2>2, <3>1
  <2>3. CASE q = N + 1
    BY <1>5, <1>7, <2>1, <2>3
  <2> QED
    BY <1>7, <2>2, <2>3
<1>10. ASSUME NEW j \in 1 .. n, \A p \in 1 .. N + 1 : b[p] # j
       PROVE  Dropped(w, ranking, b, j, budget, max)
  <2>1. j # n
    BY <1>7, <1>10
  <2>2. j \in 1 .. n - 1 /\ ~(n < j)
    BY <1>1, <2>1
  <2>3. \A p \in 1 .. N : at[p] # j
    BY <1>7, <1>10
  <2>4. Dropped(t, ranking, at, j, budget, max)
    BY <2>2, <2>3 DEF Placed, N
  <2>5. PICK k \in 0 .. N : /\ \A p \in 1 .. N : at[p] < j <=> p <= k
                            /\ k = max \/ (k > 0 /\ Chars(t)[k] + ranking[j].length > budget)
    BY <2>4 DEF Dropped, N
  <2>6. k \in 0 .. N + 1 /\ ~(N + 1 <= k)
    BY <1>2
  <2>7. \A p \in 1 .. N + 1 : b[p] < j <=> p <= k
    <3> SUFFICES ASSUME NEW p \in 1 .. N + 1 PROVE b[p] < j <=> p <= k
      OBVIOUS
    <3>1. CASE p \in 1 .. N
      BY <1>7, <2>5, <3>1
    <3>2. CASE p = N + 1
      BY <1>7, <2>2, <2>6, <3>2
    <3> QED
      BY <1>7, <3>1, <3>2
  <2>8. Chars(w)[k] = Chars(t)[k]
    BY <1>3
  <2>9. k = max \/ (k > 0 /\ Chars(w)[k] + ranking[j].length > budget)
    BY <2>5, <2>8
  <2> QED
    BY <1>2, <2>6, <2>7, <2>9 DEF Dropped
<1>11. Placed(w, ranking, n, b, budget, max)
  BY <1>2, <1>6, <1>8, <1>9, <1>10 DEF Placed
<1> QED
  BY <1>11 DEF w, r

\* One more of the ranking.
LEMMA TrimStep ==
  ASSUME NEW ranking \in Seq(Entry), NEW n \in 1 .. Len(ranking),
         NEW budget \in Int, NEW max \in Nat,
         NEW s, Trimmed(s, ranking, n - 1, budget, max)
  PROVE  Trimmed(Take(s, ranking[n], budget, max), ranking, n, budget, max)
<1> DEFINE r == ranking[n]
           t == s.trimmed
           e == Take(s, r, budget, max)
<1>1. s \in Trimming /\ t \in Seq(Entry) /\ s.total \in Nat
  BY DEF Trimmed, Trimming
<1>2. r \in Entry /\ r.length \in Nat
  <2>1. r \in Entry
    BY ElementOfSeq
  <2> QED
    BY <2>1 DEF Entry
<1>3. PICK at : Placed(t, ranking, n - 1, at, budget, max)
  BY DEF Trimmed
<1>4. /\ Len(t) \in Nat /\ Len(t) <= max /\ s.total = Chars(t)[Len(t)]
      /\ Len(t) > 1 => s.total <= budget
  BY <1>1, LenProperties DEF Trimmed
<1>5. e \in Trimming
  <2> HIDE DEF r
  <2> QED
    BY <1>1, <1>2, TakeType
<1>6. CASE Len(t) >= max \/ (s.total + r.length > budget /\ t # <<>>)
  <2>1. e = s
    BY <1>6 DEF Take
  <2>2. Placed(t, ranking, n, at, budget, max)
    <3> HIDE DEF t
    <3> QED
      BY <1>1, <1>3, <1>4, <1>6, PassedOver
  <2> HIDE DEF e
  <2> QED
    BY <1>1, <1>4, <2>1, <2>2 DEF Trimmed, e
<1>7. CASE ~(Len(t) >= max \/ (s.total + r.length > budget /\ t # <<>>))
  <2>1. e = [trimmed |-> Append(t, r), total |-> s.total + r.length]
    BY <1>7 DEF Take
  <2>2. e.trimmed = Append(t, r) /\ e.total = s.total + r.length
    BY <2>1
  <2>3. Len(Append(t, r)) = Len(t) + 1
        /\ Chars(Append(t, r))[Len(t) + 1] = Chars(t)[Len(t)] + r.length
    <3> HIDE DEF t, r
    <3> QED
      BY <1>1, <1>2, AppendEntry, CharsAppend
  <2>4. PICK b : Placed(Append(t, r), ranking, n, b, budget, max)
    <3> HIDE DEF t
    <3> QED
      BY <1>1, <1>3, Taken
  <2>5. Len(t) + 1 <= max
    BY <1>4, <1>7
  <2>6. Len(t) + 1 > 1 => s.total + r.length <= budget
    <3>1. t = <<>> => Len(t) = 0
      BY EmptySeq
    <3> QED
      BY <1>1, <1>2, <1>4, <1>7, <3>1
  <2> HIDE DEF e, t, r
  <2>7. Trimmed(e, ranking, n, budget, max)
    BY <1>4, <1>5, <2>2, <2>3, <2>4, <2>5, <2>6 DEF Trimmed
  <2> QED
    BY <2>7 DEF e, r
<1> QED
  BY <1>6, <1>7

\* The loop over the ranking.
LEMMA TrimIsTrimmed ==
  ASSUME NEW ranking \in Seq(Entry), NEW budget \in Int, NEW max \in Nat
  PROVE  \E s : /\ Trimmed(s, ranking, Len(ranking), budget, max)
                /\ Trim(ranking, budget, max) = s.trimmed
<1> DEFINE N == Len(ranking)
           a0 == [trimmed |-> <<>>, total |-> 0]
           st == [n \in 1 .. N |-> [s \in Trimming |-> Take(s, ranking[n], budget, max)]]
<1>1. N \in Nat /\ \A n \in 1 .. N : ranking[n] \in Entry
  BY LenProperties, ElementOfSeq
<1>2. <<>> \in Seq(Entry) /\ Len(<<>>) = 0
  BY EmptySeq
<1>3. a0 \in Trimming
  BY <1>2 DEF Trimming
<1>4. st \in [1 .. N -> [Trimming -> Trimming]]
  <2>1. \A n \in 1 .. N : \A s \in Trimming : Take(s, ranking[n], budget, max) \in Trimming
    BY <1>1, TakeType
  <2> HIDE DEF N
  <2> QED
    BY <2>1
<1>5. PICK g : IsRun(g, N, Trimming, a0, st)
  <2> HIDE DEF N, st, a0
  <2> QED
    BY <1>1, <1>3, <1>4, LoopExists
<1> HIDE DEF a0
<1>6. g \in [0 .. N -> Trimming] /\ g[0] = a0
  BY <1>5 DEF IsRun
<1>7. \A n \in 1 .. N : n - 1 \in 0 .. N /\ n \in 0 .. N /\ n # 0
  BY <1>1
<1>8. \A n \in 1 .. N : g[n] = Take(g[n - 1], ranking[n], budget, max)
  <2>1. \A n \in 1 .. N : g[n] = st[n][g[n - 1]]
    BY <1>5 DEF IsRun
  <2>2. \A n \in 1 .. N : g[n - 1] \in Trimming
    BY <1>6, <1>7
  <2> HIDE DEF N
  <2> QED
    BY <2>1, <2>2
<1>9. g = [n \in 0 .. N |-> IF n = 0 THEN a0 ELSE Take(g[n - 1], ranking[n], budget, max)]
  BY <1>1, <1>6, <1>8
<1> DEFINE after == CHOOSE f : f = [n \in 0 .. N |-> IF n = 0 THEN a0
                                                    ELSE Take(f[n - 1], ranking[n], budget, max)]
<1>10. after = [n \in 0 .. N |-> IF n = 0 THEN a0
                                 ELSE Take(after[n - 1], ranking[n], budget, max)]
  BY <1>9, Zenon
<1>11. Trim(ranking, budget, max) = after[N].trimmed
  BY Zenon DEF Trim, a0
<1> HIDE DEF after, st
<1>12. after[0] = a0 /\ \A n \in 1 .. N : after[n] = Take(after[n - 1], ranking[n], budget, max)
  BY <1>1, <1>7, <1>10
<1> DEFINE S == {n \in 0 .. N : Trimmed(after[n], ranking, n, budget, max)}
<1>13. 0 \in S
  <2>1. a0.trimmed = <<>> /\ a0.total = 0
    BY DEF a0
  <2>2. Chars(<<>>)[0] = 0
    BY <1>2, CharsOf
  <2>3. Placed(<<>>, ranking, 0, <<>>, budget, max)
    <3>1. <<>> \in [1 .. Len(<<>>) -> 1 .. 0]
      BY <1>2
    <3>2. 1 .. Len(<<>>) = {} /\ 1 .. 0 = {}
      BY <1>2
    <3> QED
      BY <3>1, <3>2 DEF Placed
  <2>4. Trimmed(a0, ranking, 0, budget, max)
    BY <1>2, <1>3, <2>1, <2>2, <2>3 DEF Trimmed
  <2> QED
    BY <1>1, <1>12, <2>4
<1>14. \A n \in 1 .. N : n - 1 \in S => n \in S
  <2> SUFFICES ASSUME NEW n \in 1 .. N, n - 1 \in S PROVE n \in S
    OBVIOUS
  <2>1. Trimmed(after[n - 1], ranking, n - 1, budget, max)
    OBVIOUS
  <2>2. Trimmed(Take(after[n - 1], ranking[n], budget, max), ranking, n, budget, max)
    BY <2>1, TrimStep
  <2> QED
    BY <1>7, <1>12, <2>2
<1>15. \A n \in 0 .. N : n \in S
  <2> HIDE DEF S, N
  <2> QED
    BY <1>1, <1>13, <1>14, Countup
<1>16. Trimmed(after[N], ranking, N, budget, max)
  BY <1>1, <1>15
<1> QED
  BY <1>11, <1>16

-----------------------------------------------------------------------------
(* The answer to a query.                                                     *)

\* The reply is what retrieve() made of some hits.
ReplyInv ==
  \/ reply = NoReply
  \/ \E hits \in Seq(Row), vector \in Seq(Items), budget \in Int, max \in Nat :
       \E ranking \in Rankings(hits, vector) :
         reply = [ranking |-> ranking, selected |-> Trim(ranking, budget, max),
                  hits |-> hits, vector |-> vector, budget |-> budget, max |-> max]

LEMMA HitsType ==
  ASSUME TypeInv, NEW hits \in Hits
  PROVE  hits \in Seq(Row)
<1>1. CASE path = 0
  BY <1>1, EmptySeq DEF Hits
<1>2. CASE path # 0
  <2> DEFINE R == rows[path]
             index == 1 .. Len(R)
  <2>1. path \in 1 .. Len(rows)
    BY <1>2, NewFile DEF TypeInv
  <2>2. R \in Seq(Row)
    BY <2>1, ElementOfSeq DEF TypeInv
  <2>3. \A j \in index : R[j] \in Row
    BY <2>2, ElementOfSeq
  <2> HIDE DEF R
  <2>4. PICK n \in 0 .. TopK :
          \E s \in [1 .. n -> index] : hits = [j \in 1 .. Len(s) |-> R[s[j]]]
    BY <1>2 DEF Hits, R
  <2>5. PICK s \in [1 .. n -> index] : hits = [j \in 1 .. Len(s) |-> R[s[j]]]
    BY <2>4
  <2>6. n \in Nat
    BY PlanAssumption
  <2>7. Len(s) = n
    <3> HIDE DEF index
    <3> QED
      BY <2>6, MapSeq
  <2>8. \A j \in 1 .. n : R[s[j]] \in Row
    BY <2>3
  <2>9. hits \in [1 .. n -> Row]
    BY <2>7, <2>8, <2>5
  <2> QED
    BY <2>6, <2>9, MapSeq
<1> QED
  BY <1>1, <1>2

LEMMA VectorType ==
  ASSUME NEW vector \in VectorHits
  PROVE  vector \in Seq(Items)
<1>1. PICK n \in 0 .. TopK : vector \in [1 .. n -> Items]
  BY DEF VectorHits
<1>2. n \in Nat
  BY PlanAssumption
<1> QED
  BY <1>1, <1>2, MapSeq

LEMMA StepReply == TypeInv /\ ReplyInv /\ [Next]_vars => ReplyInv'
<1> SUFFICES ASSUME TypeInv, ReplyInv, [Next]_vars
             PROVE  ReplyInv'
  OBVIOUS
<1>1. CASE reply' = reply
  BY <1>1 DEF ReplyInv
<1>2. CASE reply' = NoReply
  BY <1>2 DEF ReplyInv
<1>3. CASE retrieve
  <2>1. PICK hits \in Hits, vector \in VectorHits, plan \in Budgets :
          \E ranking \in Rankings(hits, vector) :
            reply' = [ranking |-> ranking, selected |-> Trim(ranking, plan[1], plan[2]),
                      hits |-> hits, vector |-> vector, budget |-> plan[1], max |-> plan[2]]
    BY <1>3 DEF retrieve
  <2>2. hits \in Seq(Row) /\ vector \in Seq(Items)
    BY HitsType, VectorType
  <2>3. plan[1] \in Int /\ plan[2] \in Nat
    BY PlanAssumption
  <2> QED
    BY <2>1, <2>2, <2>3 DEF ReplyInv
<1>4. ASSUME NEW b \in Builders, Build(b)
      PROVE  reply' = NoReply
  BY <1>4 DEF Build, Begin, Open, PassOver, Insert, InsertFails, Commit, Die, Leave
<1>5. ASSUME NEW i \in Items, ChangeSource(i)
      PROVE  reply' = NoReply
  BY <1>5 DEF ChangeSource
<1>6. CASE UNCHANGED vars
  BY <1>1, <1>6 DEF vars
<1> QED
  BY <1>2, <1>3, <1>4, <1>5, <1>6 DEF Next

LEMMA NothingIsBest == reply = NoReply => SelectionIsBest
<1> SUFFICES ASSUME reply = NoReply
             PROVE  SelectionIsBest
  OBVIOUS
<1>1. reply.ranking = <<>> /\ reply.selected = <<>> /\ reply.hits = <<>> /\ reply.max = 0
  BY DEF NoReply
<1>2. Len(<<>>) = 0 /\ 1 .. 0 = {}
  BY EmptySeq
<1>3. 1 .. Len(reply.ranking) = {} /\ 1 .. Len(reply.selected) = {} /\ 1 .. Len(reply.hits) = {}
  BY <1>1, <1>2
<1>4. Len(reply.selected) <= reply.max /\ ~(Len(reply.selected) > 1)
  BY <1>1, <1>2
<1>5. <<>> \in [1 .. Len(reply.selected) -> 1 .. Len(reply.ranking)]
  BY <1>3
<1> QED
  BY <1>3, <1>4, <1>5 DEF SelectionIsBest

LEMMA ReplyIsBest == ReplyInv => SelectionIsBest
<1> SUFFICES ASSUME NEW hits \in Seq(Row), NEW vector \in Seq(Items),
                    NEW budget \in Int, NEW max \in Nat, NEW ranking \in Rankings(hits, vector),
                    reply = [ranking |-> ranking, selected |-> Trim(ranking, budget, max),
                             hits |-> hits, vector |-> vector, budget |-> budget, max |-> max]
             PROVE  SelectionIsBest
  BY NothingIsBest DEF ReplyInv
<1>1. /\ reply.ranking = ranking /\ reply.selected = Trim(ranking, budget, max)
      /\ reply.hits = hits /\ reply.vector = vector /\ reply.budget = budget /\ reply.max = max
  OBVIOUS
<1>2. /\ ranking \in Seq(Entry)
      /\ \A j, k \in 1 .. Len(ranking) : ranking[j].item = ranking[k].item => j = k
  BY RankingKeepsOrder
<1> DEFINE t == reply.selected
<1>3. PICK s : Trimmed(s, ranking, Len(ranking), budget, max) /\ t = s.trimmed
  BY <1>1, <1>2, TrimIsTrimmed
<1>4. PICK at : Placed(t, ranking, Len(ranking), at, budget, max)
  BY <1>3 DEF Trimmed
<1>5. Len(t) <= max /\ (Len(t) > 1 => Chars(t)[Len(t)] <= budget)
  BY <1>3 DEF Trimmed
<1>6. /\ at \in [1 .. Len(t) -> 1 .. Len(ranking)]
      /\ \A p \in 1 .. Len(t) : t[p] = ranking[at[p]]
      /\ \A p, q \in 1 .. Len(t) : p < q => at[p] < at[q]
  BY <1>4 DEF Placed
<1>7. ASSUME NEW j \in 1 .. Len(ranking), \A p \in 1 .. Len(t) : at[p] # j
      PROVE  RightlyDropped(j, at)
  <2>1. Dropped(t, ranking, at, j, budget, max)
    BY <1>4, <1>7 DEF Placed
  <2> QED
    BY <1>1, <2>1 DEF Dropped, RightlyDropped
<1>8. \A j, k \in 1 .. Len(hits) :
         /\ hits[j][1] \notin ToSet(vector) /\ hits[k][1] \notin ToSet(vector)
         /\ First(hits, hits[j][1]) < First(hits, hits[k][1])
         => Place(ranking, hits[j][1]) < Place(ranking, hits[k][1])
  BY TextOrder
<1>9. \A j, k \in 1 .. Len(reply.hits) :
        LET c == reply.hits[j][1]  d == reply.hits[k][1]
        IN  /\ c \notin ToSet(reply.vector) /\ d \notin ToSet(reply.vector)
            /\ First(reply.hits, c) < First(reply.hits, d)
            => Place(reply.ranking, c) < Place(reply.ranking, d)
  BY <1>1, <1>8
<1>10. \E b \in [1 .. Len(t) -> 1 .. Len(reply.ranking)] :
         /\ \A p \in 1 .. Len(t) : t[p] = reply.ranking[b[p]]
         /\ \A p, q \in 1 .. Len(t) : p < q => b[p] < b[q]
         /\ \A j \in 1 .. Len(reply.ranking) :
              (\A p \in 1 .. Len(t) : b[p] # j) => RightlyDropped(j, b)
  <2> HIDE DEF t
  <2> QED
    BY <1>1, <1>6, <1>7
<1>11. \A j, k \in 1 .. Len(reply.ranking) :
         reply.ranking[j].item = reply.ranking[k].item => j = k
  BY <1>1, <1>2
<1>12. Len(t) <= reply.max /\ (Len(t) > 1 => Chars(t)[Len(t)] <= reply.budget)
  <2> HIDE DEF t
  <2> QED
    BY <1>1, <1>5
<1> QED
  BY <1>9, <1>10, <1>11, <1>12, Zenon DEF SelectionIsBest, First, Place

\* What a query returns is ordered and trimmed as it should be, for any hits, results of the
\* vectors, budgets and sizes (HybridRetriever.retrieve, hybrid_retriever.py:126-213, and
\* _trim_budget, 308-328).
THEOREM SelectionsAreBest == Spec => []SelectionIsBest
<1>1. Init => ReplyInv
  BY DEF Init, ReplyInv
<1>2. BuildInv /\ ReplyInv /\ [Next]_vars => ReplyInv'
  BY StepReply DEF BuildInv
<1>3. Spec => [](BuildInv /\ ReplyInv)
  BY <1>1, <1>2, InitBuild, StepBuild, PTL DEF Spec
<1>4. ReplyInv => SelectionIsBest
  BY ReplyIsBest
<1> QED
  BY <1>3, <1>4, PTL
=============================================================================
