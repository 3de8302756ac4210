----------------------------- MODULE SearchIndex -----------------------------
(****************************************************************************)
(* BM25Retriever builds a full-text index (SQLite FTS5) of manuscript,      *)
(* ledgers and summaries; HybridRetriever fuses what it finds with what a   *)
(* vector adapter finds and trims the list to a budget.  Builders and       *)
(* readers are processes that share nothing but the database file.          *)
(*                                                                          *)
(* A document is an item in some version.  A database file goes on living   *)
(* for a builder that has it open after another one has unlinked it, so     *)
(* files are numbered.  SQLite (external) gives the first writer of a file  *)
(* the write lock until it commits; another one gets "database is locked"   *)
(* after some seconds, and the build takes that for an unreadable document. *)
(* bm25() of FTS5 (external) is negative, the better the smaller.           *)
(*                                                                          *)
(* Which documents match, and in which order, is any choice.  Graph         *)
(* expansion, off by default, is left out: it finds nothing without a       *)
(* graph index and raises with the one NarrativeGraphBuilder writes.        *)
(****************************************************************************)
EXTENDS Integers, Sequences, FiniteSets, SequencesExt, FiniteSetsExt

CONSTANTS
  Order,        \* the items, in the order in which they are indexed
  FileOf,       \* the file an item comes from: chapters have their own
  Length,       \* characters of an item
  SnippetLength, \* bound of a vector result's snippet
  Builders,
  TopK,         \* top_k_per_source
  FusionK,      \* fusion_k
  Budgets,      \* char_budgets and max_results of the plans that are tried
  MaxBuilds, MaxChanges, MaxFaults   \* bounds

Items == {Order[j] : j \in 1 .. Len(Order)}

ASSUME ItemsAssumption ==
  /\ Order \in Seq(Items)
  /\ \A j, k \in 1 .. Len(Order) : Order[j] = Order[k] => j = k
  /\ DOMAIN FileOf = Items /\ Length \in [Items -> Nat]

ASSUME PlanAssumption ==
  TopK \in Nat /\ SnippetLength \in Nat /\ Budgets \subseteq Int \X Nat

VARIABLES
  source,   \* the version of each item in canon, ledgers and summaries; 0: none
  path,     \* the file workspace/fts5_index stands for; 0: none
  rows,     \* per file: narrative_fts, one row per insert
  locker,   \* per file: who writes
  pc, forced, file, next, pending, skip,   \* one build per builder
  reply,    \* of the retrieve() just made
  builds, changes, faults,
  alone,    \* history, per builder: nothing else has happened since its build began
  settled   \* history: the last build was alone, and nothing has happened since

build == <<pc, forced, file, next, pending, skip>>
bounds == <<builds, changes, faults>>
vars == <<source, path, rows, locker, pc, forced, file, next, pending, skip, reply,
          builds, changes, faults, alone, settled>>

Nobody == "nobody"
NoReply == [ranking |-> <<>>, selected |-> <<>>, hits |-> <<>>, vector |-> <<>>,
            budget |-> 0, max |-> 0]

Init ==
  /\ source = [i \in Items |-> 1]
  /\ path = 0 /\ rows = <<>> /\ locker = <<>>
  /\ pc = [b \in Builders |-> "idle"] /\ forced = [b \in Builders |-> FALSE]
  /\ file = [b \in Builders |-> 0] /\ next = [b \in Builders |-> 1]
  /\ pending = [b \in Builders |-> <<>>] /\ skip = [b \in Builders |-> {}]
  /\ reply = NoReply
  /\ builds = 0 /\ changes = 0 /\ faults = 0
  /\ alone = [b \in Builders |-> FALSE] /\ settled = "no"

Disturb == alone' = [b \in Builders |-> FALSE] /\ settled' = "no"

-----------------------------------------------------------------------------
(* BM25Retriever.build.                                                    *)

\* A chapter, a ledger entry or a summary is written, rewritten or removed.
ChangeSource(i) ==
  /\ changes < MaxChanges /\ changes' = changes + 1
  /\ \E v \in {0, changes + 2} : v # source[i] /\ source' = [source EXCEPT ![i] = v]
  /\ Disturb /\ reply' = NoReply
  /\ UNCHANGED <<path, rows, locker, build, builds, faults>>

\* Mutant: force builds on the old index.
BeginOnOld(b, force) ==
  /\ pc[b] = "idle" /\ builds < MaxBuilds /\ builds' = builds + 1
  /\ pc' = [pc EXCEPT ![b] = "opening"] /\ forced' = [forced EXCEPT ![b] = force]
  /\ alone' = [c \in Builders |-> c = b /\ \A d \in Builders : pc[d] = "idle"]
  /\ settled' = "no" /\ reply' = NoReply
  /\ UNCHANGED <<source, path, rows, locker, file, next, pending, skip, changes,
                 faults>>

\* force unlinks the file.
Begin(b, force) ==
  /\ pc[b] = "idle" /\ builds < MaxBuilds /\ builds' = builds + 1
  /\ path' = IF force THEN 0 ELSE path
  /\ pc' = [pc EXCEPT ![b] = "opening"] /\ forced' = [forced EXCEPT ![b] = force]
  /\ alone' = [c \in Builders |-> c = b /\ \A d \in Builders : pc[d] = "idle"]
  /\ settled' = "no" /\ reply' = NoReply
  /\ UNCHANGED <<source, rows, locker, file, next, pending, skip, changes, faults>>

\* connect and CREATE TABLE IF NOT EXISTS, committed at once.
Open(b) ==
  /\ pc[b] = "opening"
  /\ pc' = [pc EXCEPT ![b] = "indexing"]
  /\ next' = [next EXCEPT ![b] = 1]
  /\ pending' = [pending EXCEPT ![b] = <<>>] /\ skip' = [skip EXCEPT ![b] = {}]
  /\ IF path # 0
     THEN file' = [file EXCEPT ![b] = path] /\ UNCHANGED <<path, rows, locker>>
     ELSE /\ path' = Len(rows) + 1 /\ file' = [file EXCEPT ![b] = Len(rows) + 1]
          /\ rows' = Append(rows, <<>>) /\ locker' = Append(locker, Nobody)
  /\ reply' = NoReply
  /\ UNCHANGED <<source, forced, bounds, alone, settled>>

Item(b) == Order[next[b]]
Indexing(b) == pc[b] = "indexing" /\ next[b] <= Len(Order)
Wanted(b) == source[Item(b)] # 0 /\ FileOf[Item(b)] \notin skip[b]
Advance(b) == next' = [next EXCEPT ![b] = @ + 1]

PassOver(b) ==
  /\ Indexing(b) /\ ~Wanted(b)
  /\ Advance(b) /\ reply' = NoReply
  /\ UNCHANGED <<source, path, rows, locker, pc, forced, file, pending, skip,
                 bounds, alone, settled>>

\* _insert_doc: the first insert takes the write lock.
Insert(b) ==
  /\ Indexing(b) /\ Wanted(b)
  /\ locker[file[b]] \in {Nobody, b}
  /\ locker' = [locker EXCEPT ![file[b]] = b]
  /\ pending' = [pending EXCEPT ![b] = Append(@, <<Item(b), source[Item(b)]>>)]
  /\ Advance(b) /\ reply' = NoReply
  /\ UNCHANGED <<source, path, rows, pc, forced, file, skip, bounds, alone, settled>>

\* The document cannot be read, or the database is locked: a chapter is passed over, a
\* ledger is left where it is, and the build goes on.
InsertFails(b) ==
  /\ Indexing(b) /\ Wanted(b)
  /\ \/ faults < MaxFaults /\ faults' = faults + 1
     \/ locker[file[b]] \notin {Nobody, b} /\ UNCHANGED faults
  /\ skip' = [skip EXCEPT ![b] = @ \cup {FileOf[Item(b)]}]
  /\ Disturb
  /\ Advance(b) /\ reply' = NoReply
  /\ UNCHANGED <<source, path, rows, locker, pc, forced, file, pending, builds,
                 changes>>

Leave(b) ==
  /\ pc' = [pc EXCEPT ![b] = "idle"] /\ file' = [file EXCEPT ![b] = 0]
  /\ next' = [next EXCEPT ![b] = 1] /\ pending' = [pending EXCEPT ![b] = <<>>]
  /\ skip' = [skip EXCEPT ![b] = {}] /\ forced' = [forced EXCEPT ![b] = FALSE]
  /\ locker' = [f \in DOMAIN locker |-> IF locker[f] = b THEN Nobody ELSE locker[f]]
  /\ reply' = NoReply

Commit(b) ==
  /\ pc[b] = "indexing" /\ next[b] > Len(Order)
  /\ rows' = [rows EXCEPT ![file[b]] = @ \o pending[b]]
  /\ settled' = IF ~alone[b] THEN "no" ELSE IF forced[b] THEN "exact" ELSE "complete"
  /\ alone' = [c \in Builders |-> FALSE]
  /\ Leave(b)
  /\ UNCHANGED <<source, path, bounds>>

\* The builder dies: SQLite rolls back.
Die(b) ==
  /\ pc[b] # "idle"
  /\ faults < MaxFaults /\ faults' = faults + 1
  /\ Disturb /\ Leave(b)
  /\ UNCHANGED <<source, path, rows, builds, changes>>

-----------------------------------------------------------------------------
(* HybridRetriever.retrieve.                                               *)

\* BM25Retriever.search: at most TopK of the rows; two rows may be of one item.
Hits == IF path = 0 THEN {<<>>} ELSE
  LET index == 1 .. Len(rows[path])
  IN  {[j \in 1 .. Len(s) |-> rows[path][s[j]]] :
       s \in UNION {{t \in [1 .. n -> index] : IsInjective(t)} : n \in 0 .. TopK}}

\* VectorAdapter.search: TF-IDF gives only results above zero; the null adapter, or one
\* that is not available, none.
VectorHits == UNION {{t \in [1 .. n -> Items] : IsInjective(t)} : n \in 0 .. TopK}

\* all_results, in the order of insertion.  The item of a second row keeps the content of
\* the first and gets the score of the second.
Has(known, i) == \E j \in 1 .. Len(known) : known[j].item = i

WithHit(known, r) ==
  IF Has(known, r.item)
  THEN [j \in 1 .. Len(known) |->
          IF known[j].item = r.item THEN [known[j] EXCEPT !.bm25 = r.bm25] ELSE known[j]]
  ELSE Append(known, r)

FromText(hits) ==
  LET found(n) == [item |-> hits[n][1], version |-> hits[n][2],
                   length |-> Length[hits[n][1]], bm25 |-> n - Len(hits) - 1]
      all_results[n \in 0 .. Len(hits)] ==
        IF n = 0 THEN <<>> ELSE WithHit(all_results[n - 1], found(n))
  IN  all_results[Len(hits)]

\* What the vectors found comes after, unless it is there.
WithVector(known, i) ==
  IF Has(known, i) THEN known
  ELSE Append(known,
         [item |-> i, version |-> 0,
          length |-> IF Length[i] < SnippetLength THEN Length[i] ELSE SnippetLength,
          bm25 |-> 0])

Merged(hits, vector) ==
  LET all_results[n \in 0 .. Len(vector)] ==
        IF n = 0 THEN FromText(hits) ELSE WithVector(all_results[n - 1], vector[n])
  IN  all_results[Len(vector)]

\* _compute_rrf.  Scores are in units of 1 / Scale.
Scale == FoldFunction(LAMBDA n, acc : n * acc, 1, [r \in 1 .. 2 * TopK |-> FusionK + r])
Share(rank) == Scale \div (FusionK + rank)

RRF(items, vector, c) ==
  LET ranked == {d \in ToSet(items) : d.bm25 > 0}
      rank == Cardinality({d \in ranked : d.bm25 < c.bm25}) + 1
      place == {j \in 1 .. Len(vector) : vector[j] = c.item}
  IN  (IF c.bm25 > 0 THEN Share(rank) ELSE 0)
      + (IF place # {} THEN Share(Min(place)) ELSE 0)

\* list.sort (external) is stable, and reversed it puts the higher scores first.
Rankings(hits, vector) ==
  LET items == Merged(hits, vector)
      places == 1 .. Len(items)
      score == [j \in places |-> RRF(items, vector, items[j])]
      Sorts(at) == \A p, q \in places : p < q =>
                     \/ score[at[p]] > score[at[q]]
                     \/ score[at[p]] = score[at[q]] /\ at[p] < at[q]
  IN  {[p \in places |-> items[at[p]]] : at \in {b \in Bijection(places, places) : Sorts(b)}}

\* The characters of the first n of a list, for each n.
Chars(list) ==
  LET total_chars[n \in 0 .. Len(list)] ==
        IF n = 0 THEN 0 ELSE total_chars[n - 1] + list[n].length
  IN  total_chars

\* Mutant: trimming ends at the first item that does not fit.
TrimAtFirst(ranking, budget, max) ==
  LET fits == {n \in 1 .. Len(ranking) : n <= max /\ (n = 1 \/ Chars(ranking)[n] <= budget)}
  IN  SubSeq(ranking, 1, IF fits = {} THEN 0 ELSE Max(fits))

\* _trim_budget: what does not fit is passed over, except that one item is always there.
Take(before, r, budget, max) ==
  IF \/ Len(before.trimmed) >= max
     \/ before.total + r.length > budget /\ before.trimmed # <<>>
  THEN before
  ELSE [trimmed |-> Append(before.trimmed, r), total |-> before.total + r.length]

Trim(ranking, budget, max) ==
  LET after[n \in 0 .. Len(ranking)] ==
        IF n = 0 THEN [trimmed |-> <<>>, total |-> 0]
        ELSE Take(after[n - 1], ranking[n], budget, max)
  IN  after[Len(ranking)].trimmed

\* A query reads committed rows only, so it makes no difference when it is asked: here,
\* while nothing is being built and the answer to the last one is forgotten.
Quiet == reply = NoReply /\ \A b \in Builders : pc[b] = "idle"

retrieve ==
  /\ Quiet
  /\ \E hits \in Hits, vector \in VectorHits, plan \in Budgets :
       \E ranking \in Rankings(hits, vector) :
         reply' = [ranking |-> ranking, selected |-> Trim(ranking, plan[1], plan[2]),
                   hits |-> hits, vector |-> vector, budget |-> plan[1], max |-> plan[2]]
  /\ UNCHANGED <<source, path, rows, locker, build, bounds, alone, settled>>

-----------------------------------------------------------------------------
Build(b) ==
  \/ Begin(b, TRUE) \/ Begin(b, FALSE) \/ Open(b) \/ PassOver(b) \/ Insert(b)
  \/ InsertFails(b) \/ Commit(b) \/ Die(b)

Next ==
  \/ \E b \in Builders : Build(b)
  \/ \E i \in Items : ChangeSource(i)
  \/ retrieve

Spec == Init /\ [][Next]_vars

-----------------------------------------------------------------------------
\* A build that nothing came between leaves an index of the sources as they are, whatever
\* other builds, dead builders and failures left before it: every document is found in
\* its current version, and after force each once and nothing else
\* (bm25_retriever.py:90-122).
UndisturbedBuildIsRight ==
  settled # "no" =>
    LET now == {<<i, source[i]>> : i \in {j \in Items : source[j] # 0}}
    IN  /\ path # 0 /\ now \subseteq ToSet(rows[path])
        /\ settled = "exact" =>
             ToSet(rows[path]) = now /\ Len(rows[path]) = Cardinality(now)

\* The item at j is passed over for a reason, at being where the selected ones are: after n
\* better ones the list is full, or it does not fit any more.
RightlyDropped(j, at) ==
  \E n \in 0 .. Len(reply.selected) :
    /\ \A p \in 1 .. Len(reply.selected) : at[p] < j <=> p <= n
    /\ \/ n = reply.max
       \/ n > 0 /\ Chars(reply.selected)[n] + reply.ranking[j].length > reply.budget

\* What retrieve() returns is no arbitrary part of what it found: no item twice; within
\* the limits, but for a single item; the ranking's order, with nothing left out that would
\* have fitted after the better ones; and items that only the full-text search found in the
\* order of that search (hybrid_retriever.py:126-213, 308-328).
SelectionIsBest ==
  LET places == 1 .. Len(reply.ranking)
      chosen == 1 .. Len(reply.selected)
      first(i) == Min({l \in 1 .. Len(reply.hits) : reply.hits[l][1] = i})
      place(i) == CHOOSE l \in places : reply.ranking[l].item = i
  IN  /\ \A j, k \in places : reply.ranking[j].item = reply.ranking[k].item => j = k
      /\ Len(reply.selected) <= reply.max
      /\ Len(reply.selected) > 1 => Chars(reply.selected)[Len(reply.selected)] <= reply.budget
      /\ \E at \in [chosen -> places] :
           /\ \A p \in chosen : reply.selected[p] = reply.ranking[at[p]]
           /\ \A p, q \in chosen : p < q => at[p] < at[q]
           /\ \A j \in places : (\A p \in chosen : at[p] # j) => RightlyDropped(j, at)
      /\ \A j, k \in 1 .. Len(reply.hits) :
           LET c == reply.hits[j][1]  d == reply.hits[k][1]
           IN  c \notin ToSet(reply.vector) /\ d \notin ToSet(reply.vector)
               /\ first(c) < first(d) => place(c) < place(d)
=============================================================================
