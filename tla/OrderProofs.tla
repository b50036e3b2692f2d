----------------------------- MODULE OrderProofs ------------------------------
(***************************************************************************)
(* What is sorted and what keeps its order, for every number of entries,   *)
(* tasks, columns, requests, queries and issues: ReadingIsComplete of      *)
(* TimeEntries, RulesHold of TaskOrder, ImportIsAccountedFor of HulyImport, *)
(* ListsAreComplete of TaskLists, and the lemmas on sorting a finite set    *)
(* that they rest on.                                                      *)
(***************************************************************************)
EXTENDS TimeEntries, TaskOrder, HulyImport, TaskLists, SequencesExt, FiniteSetTheorems, TLAPS

----------------------------------------------------------------------------
(* Sorting. *)

\* Among finite sets there is one that contains no other of them.
LEMMA SmallestSet ==
    ASSUME NEW S, IsFiniteSet(S), NEW P, P \subseteq SUBSET S, P # {}
    PROVE  \E T \in P : \A U \in P : U \subseteq T => U = T
<1>1. IsWellFoundedOn(StrictSubsetOrdering(S), FiniteSubsetsOf(S))
  BY FS_StrictSubsetOrderingWellFounded
<1>2. FiniteSubsetsOf(S) = SUBSET S
  BY FS_FiniteSubsetsOfFinite
<1>3. \E T \in P : \A U \in P : ~ (<<U, T>> \in StrictSubsetOrdering(S))
  BY <1>1, <1>2, WFMin
<1>. QED BY <1>3 DEF StrictSubsetOrdering

\* R is a strict order in which any two elements of S are related.
TotallyOrders(R, S) ==
    /\ \A x, y \in S : x # y => <<x, y>> \in R \/ <<y, x>> \in R
    /\ \A x, y, z \in S : <<x, y>> \in R /\ <<y, z>> \in R => <<x, z>> \in R

LEMMA LeastElement ==
    ASSUME NEW S, IsFiniteSet(S), NEW R, TotallyOrders(R, S), S # {}
    PROVE  \E x \in S : \A y \in S : y # x => <<x, y>> \in R
<1> DEFINE Least(T) == \E x \in T : \A y \in T : y # x => <<x, y>> \in R
           P == {T \in SUBSET S : T # {} /\ ~ Least(T)}
<1> SUFFICES ASSUME P # {} PROVE FALSE
  OBVIOUS
<1>1. P \subseteq SUBSET S
  OBVIOUS
<1> HIDE DEF P
<1>2. PICK T \in P : \A U \in P : U \subseteq T => U = T
  BY <1>1, SmallestSet
<1> USE DEF P
<1>3. T \subseteq S /\ T # {} /\ ~ Least(T)
  BY <1>2
<1>4. PICK x \in T : TRUE
  BY <1>3
<1>5. T \ {x} # {}
  BY <1>3, <1>4
<1>6. Least(T \ {x})
  <2> SUFFICES ASSUME ~ Least(T \ {x}) PROVE FALSE
    OBVIOUS
  <2>1. T \ {x} \in P
    BY <1>3, <1>5
  <2>2. T \ {x} = T
    BY <1>2, <2>1
  <2>. QED BY <1>4, <2>2
<1>7. PICK m \in T \ {x} : \A y \in T \ {x} : y # m => <<m, y>> \in R
  BY <1>6
<1>8. CASE <<m, x>> \in R
  BY <1>3, <1>7, <1>8
<1>9. CASE <<x, m>> \in R
  <2>1. \A y \in T : y # x => <<x, y>> \in R
    BY <1>3, <1>4, <1>7, <1>9 DEF TotallyOrders
  <2>. QED BY <1>3, <1>4, <2>1
<1>. QED BY <1>3, <1>4, <1>7, <1>8, <1>9 DEF TotallyOrders

\* The elements of S, each once, one after the other.
Sorts(s, R, S) ==
    s \in SetToSeqs(S) /\ \A i, j \in DOMAIN s : i < j => <<s[i], s[j]>> \in R

LEMMA SortedSequence ==
    ASSUME NEW S, IsFiniteSet(S), NEW R, TotallyOrders(R, S)
    PROVE  \E s : Sorts(s, R, S)
<1> DEFINE P == {T \in SUBSET S : ~ \E s : Sorts(s, R, T)}
<1> SUFFICES ASSUME P # {} PROVE FALSE
  OBVIOUS
<1>1. P \subseteq SUBSET S
  OBVIOUS
<1> HIDE DEF P
<1>2. PICK T \in P : \A U \in P : U \subseteq T => U = T
  BY <1>1, SmallestSet
<1> USE DEF P
<1>3. T \subseteq S /\ ~ \E s : Sorts(s, R, T)
  BY <1>2
<1>4. IsFiniteSet(T) /\ Cardinality(T) \in Nat
  BY <1>3, FS_Subset, FS_CardinalityType
<1>5. T # {}
  <2> SUFFICES ASSUME T = {} PROVE FALSE
    OBVIOUS
  <2>1. Cardinality(T) = 0
    BY FS_EmptySet
  <2> DEFINE s == [i \in 1 .. 0 |-> i]
  <2>2. s \in [1 .. Cardinality(T) -> T] /\ DOMAIN s = {}
    BY <2>1
  <2>3. Sorts(s, R, T)
    BY <2>1, <2>2 DEF Sorts, SetToSeqs
  <2>. QED BY <1>3, <2>3
<1>6. TotallyOrders(R, T)
  BY <1>3 DEF TotallyOrders
<1>7. PICK x \in T : \A y \in T : y # x => <<x, y>> \in R
  BY <1>4, <1>5, <1>6, LeastElement
<1>8. PICK t : Sorts(t, R, T \ {x})
  BY <1>2, <1>3, <1>7
<1> DEFINE n == Cardinality(T)
           s == [i \in 1 .. n |-> IF i = 1 THEN x ELSE t[i - 1]]
<1>9. Cardinality(T \ {x}) = n - 1 /\ n \in Nat /\ n # 0
  BY <1>4, <1>5, <1>7, FS_RemoveElement, FS_EmptySet
<1>10. /\ t \in [1 .. n - 1 -> T \ {x}]
       /\ \A i, j \in 1 .. n - 1 : i # j => t[i] # t[j]
       /\ \A i, j \in 1 .. n - 1 : i < j => <<t[i], t[j]>> \in R
  BY <1>8, <1>9 DEF Sorts, SetToSeqs
<1> HIDE DEF n, P
<1>11. \A i \in 1 .. n : i # 1 => i - 1 \in 1 .. n - 1 /\ t[i - 1] \in T \ {x}
  BY <1>9, <1>10
<1>12. s \in [1 .. n -> T]
  BY <1>7, <1>11
<1>13. \A i, j \in 1 .. n : i # j => s[i] # s[j]
  <2> SUFFICES ASSUME NEW i \in 1 .. n, NEW j \in 1 .. n, i # j PROVE s[i] # s[j]
    OBVIOUS
  <2>. QED BY <1>9, <1>10, <1>11
<1>14. \A i, j \in 1 .. n : i < j => <<s[i], s[j]>> \in R
  <2> SUFFICES ASSUME NEW i \in 1 .. n, NEW j \in 1 .. n, i < j PROVE <<s[i], s[j]>> \in R
    OBVIOUS
  <2>1. j # 1
    BY <1>9
  <2>2. CASE i = 1
    BY <1>7, <1>11, <2>1, <2>2
  <2>3. CASE i # 1
    BY <1>9, <1>10, <1>11, <2>1, <2>3
  <2>. QED BY <2>2, <2>3
<1>15. Sorts(s, R, T)
  BY <1>12, <1>13, <1>14 DEF Sorts, SetToSeqs, n
<1>. QED BY <1>3, <1>15

LEMMA WiderSequence ==
    ASSUME NEW S, NEW T, S \subseteq T, NEW s \in Seq(S)
    PROVE  s \in Seq(T)
OBVIOUS

\* What a sequence of a set is.
LEMMA SequenceOfSet ==
    ASSUME NEW S, IsFiniteSet(S), NEW s \in SetToSeqs(S)
    PROVE  /\ s \in Seq(S) /\ Len(s) = Cardinality(S) /\ DOMAIN s = 1 .. Len(s)
           /\ Range(s) = S
           /\ \A i, j \in DOMAIN s : s[i] = s[j] => i = j
<1> DEFINE n == Cardinality(S)
<1>1. n \in Nat
  BY FS_CardinalityType
<1>2. s \in [1 .. n -> S] /\ \A i, j \in 1 .. n : i # j => s[i] # s[j]
  BY DEF SetToSeqs
<1>3. s \in Seq(S) /\ Len(s) = n
  <2> HIDE DEF n
  <2>. QED BY <1>1, <1>2
<1>4. s \in Injection(1 .. n, S)
  BY <1>2 DEF Injection, IsInjective
<1>5. IsFiniteSet(1 .. n) /\ Cardinality(1 .. n) = n
  <2> HIDE DEF n
  <2>. QED BY <1>1, FS_Interval
<1>6. s \in Surjection(1 .. n, S)
  BY <1>4, <1>5, FS_Injection
<1>7. Range(s) = S
  BY <1>2, <1>6 DEF Surjection, Range
<1>. QED BY <1>2, <1>3, <1>7

----------------------------------------------------------------------------
(* TimeEntries. Down to its cursor a reading misses no entry that could be seen all the
   time; below it, it has nothing yet. *)

EntryRow == [task : Work, seen : BOOLEAN]
PageState == [step : {"idle", "page", "done", "refused"}, kind : {"report", "task"},
              task : {pages.task}, before : Nat, got : Seq(Nat \ {0})]

\* What the reader asks for.
Wanted(e) == pages.kind = "task" => entries[e].task = pages.task
Got(e) == \E i \in DOMAIN pages.got : pages.got[i] = e

\* The reading so far goes down to the cursor, and misses nothing above it.
TimeInv ==
    /\ entries \in Seq(EntryRow) /\ open \subseteq Homes
    /\ pages \in PageState
    /\ steady \subseteq Ids
    /\ \A e \in steady : entries[e].seen /\ ProjectOf[entries[e].task] \in open
    /\ \A i, j \in DOMAIN pages.got : i < j => pages.got[i] > pages.got[j]
    /\ pages.step = "idle" => pages.got = <<>> /\ pages.before = 0
    /\ pages.step = "page" =>
          /\ pages.before = 0 => pages.got = <<>>
          /\ pages.before # 0 => \A i \in DOMAIN pages.got : pages.got[i] >= pages.before
          /\ \A e \in steady : Wanted(e) => Got(e) \/ pages.before = 0 \/ e < pages.before
    /\ pages.step = "done" => \A e \in steady : Wanted(e) => Got(e)

LEMMA TimeInitially == TimeInit => TimeInv
BY DEF TimeInit, TimeInv, NoPages, EntryRow, PageState, Ids

\* The entries of a page and beyond, from the newest id down.
LEMMA DownIsSorted ==
    ASSUME NEW ids \in SUBSET Nat, IsFiniteSet(ids)
    PROVE  /\ Down(ids) \in Seq(ids) /\ DOMAIN Down(ids) = 1 .. Len(Down(ids))
           /\ Range(Down(ids)) = ids
           /\ \A i, j \in DOMAIN Down(ids) : i < j => Down(ids)[i] > Down(ids)[j]
<1> DEFINE R == {p \in Nat \X Nat : p[1] > p[2]}
<1>1. \A x, y \in ids : <<x, y>> \in R <=> x > y
  OBVIOUS
<1>2. TotallyOrders(R, ids)
  <2> HIDE DEF R
  <2>. QED BY <1>1 DEF TotallyOrders
<1>3. PICK s : Sorts(s, R, ids)
  BY <1>2, SortedSequence
<1>4. s \in SetToSeqs(ids) /\ \A i, j \in DOMAIN s : i < j => s[i] > s[j]
  <2>1. \A i \in DOMAIN s : s[i] \in ids
    BY <1>3 DEF Sorts, SetToSeqs
  <2>. HIDE DEF R
  <2>. QED BY <1>1, <1>3, <2>1 DEF Sorts
<1>5. /\ Down(ids) \in SetToSeqs(ids)
      /\ \A i, j \in DOMAIN Down(ids) : i < j => Down(ids)[i] > Down(ids)[j]
  BY <1>4 DEF Down
<1>. QED BY <1>5, SequenceOfSet

LEMMA FirstOfSeq ==
    ASSUME NEW S, NEW s \in Seq(S), NEW n \in Nat
    PROVE  /\ FirstOf(s, n) \in Seq(S)
           /\ Len(FirstOf(s, n)) = IF Len(s) < n THEN Len(s) ELSE n
           /\ \A i \in 1 .. Len(FirstOf(s, n)) : FirstOf(s, n)[i] = s[i]
BY DEF FirstOf

LEMMA OneAfterTheOther ==
    ASSUME NEW S, NEW s \in Seq(S), NEW t \in Seq(S)
    PROVE  /\ DOMAIN (s \o t) = 1 .. Len(s) + Len(t)
           /\ \A i \in 1 .. Len(s) : (s \o t)[i] = s[i]
           /\ \A i \in 1 .. Len(t) : (s \o t)[Len(s) + i] = t[i]
           /\ DOMAIN s = 1 .. Len(s) /\ Len(s) \in Nat
<1>1. \A i \in 1 .. Len(t) : Len(s) + i \in 1 .. Len(s) + Len(t) /\ Len(s) + i > Len(s)
  OBVIOUS
<1>. QED BY <1>1

LEMMA ReadEntriesKeeps ==
    ASSUME TimeInv, ReadEntries PROVE TimeInv'
<1> DEFINE ids == Below(pages.kind, pages.task, pages.before)
           all == Down(ids)
           records == FirstOf(all, Limit + 1)
           page == FirstOf(records, Limit)
           k == IF Len(all) < Limit THEN Len(all) ELSE Limit
<1>1. /\ pages.step = "page" /\ UNCHANGED <<entries, open, may, steady, turns>>
      /\ pages' = [pages EXCEPT !.got = @ \o page,
                                !.before = IF page = <<>> THEN @ ELSE Last(page),
                                !.step = IF Len(records) > Limit THEN "page" ELSE "done"]
  BY DEF ReadEntries
<1>2. Limit \in Nat /\ Limit # 0
  BY TimeEntriesAssumption DEF TimeEntriesAssumption
<1>3. entries \in Seq(EntryRow) /\ Ids = 1 .. Len(entries) /\ Len(entries) \in Nat
  BY DEF TimeInv, Ids
<1>4. ids \in SUBSET Nat /\ IsFiniteSet(ids) /\ \A e \in ids : e # 0
  <2>1. ids \subseteq 1 .. Len(entries)
    BY <1>3 DEF Below
  <2>2. IsFiniteSet(1 .. Len(entries))
    BY <1>3, FS_Interval
  <2> HIDE DEF ids
  <2>3. IsFiniteSet(ids)
    BY <2>1, <2>2, FS_Subset
  <2>. QED BY <1>3, <2>1, <2>3
<1>5. /\ all \in Seq(ids) /\ DOMAIN all = 1 .. Len(all) /\ Len(all) \in Nat
      /\ Range(all) = ids
      /\ \A i, j \in DOMAIN all : i < j => all[i] > all[j]
  <2> HIDE DEF ids
  <2>. QED BY <1>4, DownIsSorted
<1> HIDE DEF all
<1>6. /\ page \in Seq(ids) /\ Len(page) = k /\ k \in Nat
      /\ \A i \in 1 .. k : page[i] = all[i]
      /\ Len(records) > Limit <=> Len(all) > k
  <2> HIDE DEF ids
  <2>1. /\ records \in Seq(ids)
        /\ Len(records) = IF Len(all) < Limit + 1 THEN Len(all) ELSE Limit + 1
        /\ \A i \in 1 .. Len(records) : records[i] = all[i]
    BY <1>2, <1>5, FirstOfSeq
  <2> HIDE DEF records
  <2>2. /\ page \in Seq(ids)
        /\ Len(page) = IF Len(records) < Limit THEN Len(records) ELSE Limit
        /\ \A i \in 1 .. Len(page) : page[i] = records[i]
    BY <1>2, <2>1, FirstOfSeq
  <2> HIDE DEF page
  <2>. QED BY <1>2, <1>5, <2>1, <2>2
<1> HIDE DEF page, records
<1>7. /\ pages \in PageState /\ pages.got \in Seq(Nat \ {0}) /\ pages.before \in Nat
  BY DEF TimeInv, PageState
<1>8. /\ pages'.got = pages.got \o page /\ pages'.kind = pages.kind /\ pages'.task = pages.task
      /\ pages'.before = IF k = 0 THEN pages.before ELSE page[k]
      /\ pages'.step = IF Len(all) > k THEN "page" ELSE "done"
  <2>1. page = <<>> <=> k = 0
    BY <1>6
  <2>2. k # 0 => Last(page) = page[k]
    BY <1>6 DEF Last
  <2>. QED BY <1>1, <1>6, <1>7, <2>1, <2>2 DEF PageState
<1>9. page \in Seq(Nat \ {0})
  <2>1. page \in Seq(ids) /\ ids \subseteq Nat \ {0}
    BY <1>4, <1>6
  <2> HIDE DEF ids, k
  <2>. QED BY <2>1, WiderSequence
<1>10. pages' \in PageState'
  <2>1. pages'.before \in Nat
    BY <1>6, <1>7, <1>8, <1>9
  <2>2. pages'.got \in Seq(Nat \ {0})
    BY <1>7, <1>8, <1>9
  <2>. QED BY <1>1, <1>7, <1>8, <2>1, <2>2 DEF PageState
<1>11. \A i \in 1 .. k : page[i] \in ids /\ (pages.before # 0 => page[i] < pages.before)
  <2>1. \A e \in ids : pages.before # 0 => e < pages.before
    BY DEF Below
  <2> HIDE DEF ids, k
  <2>. QED BY <1>6, <2>1
<1> DEFINE g == pages.got
<1>12. /\ DOMAIN pages'.got = 1 .. Len(g) + k
       /\ \A i \in 1 .. Len(g) : pages'.got[i] = g[i]
       /\ \A i \in 1 .. k : pages'.got[Len(g) + i] = page[i]
       /\ DOMAIN g = 1 .. Len(g) /\ Len(g) \in Nat
  <2>1. pages'.got = g \o page /\ g \in Seq(Nat \ {0}) /\ Len(page) = k /\ k \in Nat
    BY <1>6, <1>7, <1>8
  <2> HIDE DEF ids, k, g
  <2>2. /\ DOMAIN (g \o page) = 1 .. Len(g) + Len(page)
        /\ \A i \in 1 .. Len(g) : (g \o page)[i] = g[i]
        /\ \A i \in 1 .. Len(page) : (g \o page)[Len(g) + i] = page[i]
        /\ DOMAIN g = 1 .. Len(g) /\ Len(g) \in Nat
    BY <1>9, <2>1, OneAfterTheOther
  <2>. QED BY <2>1, <2>2, Zenon
<1>13. \A i, j \in DOMAIN pages'.got : i < j => pages'.got[i] > pages'.got[j]
  <2> SUFFICES ASSUME NEW i \in 1 .. Len(g) + k, NEW j \in 1 .. Len(g) + k, i < j
               PROVE  pages'.got[i] > pages'.got[j]
    BY <1>12
  <2> HIDE DEF k
  <2>1. CASE j <= Len(g)
    <3>1. i \in DOMAIN g /\ j \in DOMAIN g
      BY <1>6, <1>12, <2>1
    <3>. QED BY <1>12, <3>1 DEF TimeInv
  <2>2. CASE i <= Len(g) /\ j > Len(g)
    <3>1. i \in DOMAIN g /\ j - Len(g) \in 1 .. k /\ j = Len(g) + (j - Len(g))
      BY <1>6, <1>12, <2>2
    <3>2. pages.before # 0 /\ g[i] >= pages.before
      BY <1>1, <3>1 DEF TimeInv
    <3>3. page[j - Len(g)] < pages.before
      BY <1>11, <3>1, <3>2
    <3>4. page[j - Len(g)] \in Nat /\ g[i] \in Nat
      <4> HIDE DEF ids
      <4>1. j - Len(g) \in 1 .. Len(page)
        BY <1>6, <3>1
      <4>. QED BY <1>7, <1>9, <3>1, <4>1
    <3>5. pages'.got[i] = g[i] /\ pages'.got[j] = page[j - Len(g)]
      <4> HIDE DEF ids, g
      <4>. QED BY <1>12, <3>1
    <3>. QED BY <1>7, <3>2, <3>3, <3>4, <3>5
  <2>3. CASE i > Len(g)
    <3>1. /\ i - Len(g) \in 1 .. k /\ i = Len(g) + (i - Len(g))
          /\ j - Len(g) \in 1 .. k /\ j = Len(g) + (j - Len(g))
          /\ i - Len(g) < j - Len(g)
      BY <1>6, <1>12, <2>3
    <3>2. i - Len(g) \in DOMAIN all /\ j - Len(g) \in DOMAIN all
      BY <1>5, <1>6, <3>1 DEF k
    <3>. QED BY <1>5, <1>6, <1>12, <3>1, <3>2
  <2>. QED BY <1>6, <1>12, <2>1, <2>2, <2>3
<1>14. ASSUME NEW e \in steady, Wanted(e)
       PROVE  Got(e) \/ (e \in ids /\ \E i \in DOMAIN all : all[i] = e)
  <2>1. e \in Ids /\ entries[e].seen /\ ProjectOf[entries[e].task] \in open
    BY DEF TimeInv
  <2>2. Got(e) \/ pages.before = 0 \/ e < pages.before
    BY <1>1, <1>14 DEF TimeInv
  <2>3. ~ Got(e) => e \in ids
    BY <1>14, <2>1, <2>2 DEF Below, Wanted
  <2> HIDE DEF ids
  <2>. QED BY <1>5, <2>3 DEF Range
<1>15. ASSUME NEW e \in steady, Wanted(e)
       PROVE  Got(e)' \/ (Len(all) > k /\ k # 0 /\ e < page[k])
  <2>1. CASE Got(e)
    <3>1. PICK i \in 1 .. Len(g) : g[i] = e
      BY <1>12, <2>1 DEF Got
    <3>2. i \in 1 .. Len(g) + k
      <4> HIDE DEF k
      <4>. QED BY <1>6, <1>12
    <3>. QED BY <1>12, <3>1, <3>2 DEF Got
  <2>2. CASE ~ Got(e)
    <3>1. PICK i \in DOMAIN all : all[i] = e
      BY <1>14, <1>15, <2>2
    <3>2. CASE i <= k
      <4>1. i \in 1 .. k /\ page[i] = e /\ Len(g) + i \in DOMAIN pages'.got
        BY <1>5, <1>6, <1>12, <3>1, <3>2
      <4>. QED BY <1>12, <4>1 DEF Got
    <3>3. CASE i > k
      <4>1. Len(all) > k /\ k # 0 /\ k \in DOMAIN all /\ page[k] = all[k]
        BY <1>2, <1>5, <1>6, <3>1, <3>3
      <4>. QED BY <1>5, <3>1, <3>3, <4>1
    <3>. QED BY <1>5, <1>6, <3>2, <3>3
  <2>. QED BY <2>1, <2>2
<1>16. \A e \in steady' : Wanted(e)' => e \in steady /\ Wanted(e)
  BY <1>1, <1>8 DEF Wanted
<1>17. pages'.step = "page" =>
         /\ pages'.before = 0 => pages'.got = <<>>
         /\ pages'.before # 0 => \A i \in DOMAIN pages'.got : pages'.got[i] >= pages'.before
  <2> SUFFICES ASSUME pages'.step = "page"
               PROVE  pages'.before # 0
                      /\ \A i \in DOMAIN pages'.got : pages'.got[i] >= pages'.before
    OBVIOUS
  <2>1. Len(all) > k /\ k # 0 /\ pages'.before = page[k] /\ k \in 1 .. k
    BY <1>2, <1>5, <1>6, <1>8
  <2>2. page[k] \in Nat \ {0}
    BY <1>6, <1>9, <2>1
  <2> HIDE DEF k
  <2>3. ASSUME NEW i \in DOMAIN pages'.got PROVE pages'.got[i] >= pages'.before
    <3>1. CASE i = Len(g) + k
      BY <1>12, <2>1, <2>2, <3>1
    <3>2. CASE i # Len(g) + k
      <4>1. i < Len(g) + k /\ Len(g) + k \in DOMAIN pages'.got /\ pages'.got[Len(g) + k] = page[k]
            /\ pages'.got[i] \in Nat
        <5>1. i \in 1 .. Len(g) + k /\ k \in Nat /\ Len(g) \in Nat
          BY <1>6, <1>12, <2>3
        <5>2. pages'.got[i] \in Nat
          BY <1>10, <2>3 DEF PageState
        <5> HIDE DEF g
        <5>. QED BY <1>12, <2>1, <3>2, <5>1, <5>2
      <4>. QED BY <1>13, <2>1, <2>2, <4>1
    <3>. QED BY <3>1, <3>2
  <2>. QED BY <2>1, <2>2, <2>3
<1>18. /\ \A e \in steady' : Wanted(e)' /\ pages'.step = "page" =>
              Got(e)' \/ e < pages'.before
       /\ \A e \in steady' : Wanted(e)' /\ pages'.step = "done" => Got(e)'
  BY <1>8, <1>15, <1>16
<1>19. /\ entries' \in Seq(EntryRow) /\ open' \subseteq Homes /\ steady' \subseteq Ids'
       /\ \A e \in steady' : entries'[e].seen /\ ProjectOf[entries'[e].task] \in open'
       /\ pages'.step # "idle"
  BY <1>1, <1>8 DEF TimeInv, Ids
<1>. QED BY <1>10, <1>13, <1>17, <1>18, <1>19 DEF TimeInv

LEMMA TimeStep ==
    ASSUME TimeInv, [TimeNext]_timeVars PROVE TimeInv'
<1>1. CASE InsertTimeEntry
  <2>1. PICK t \in Work : entries' = Append(entries, [task |-> t, seen |-> FALSE])
    BY <1>1 DEF InsertTimeEntry
  <2>2. entries' \in Seq(EntryRow) /\ Ids \subseteq Ids' /\ \A e \in Ids : entries'[e] = entries[e]
    BY <2>1 DEF TimeInv, EntryRow, Ids
  <2>3. UNCHANGED <<open, pages, steady>>
    BY <1>1 DEF InsertTimeEntry
  <2>. QED BY <2>2, <2>3 DEF TimeInv, PageState, Wanted, Got
<1>2. CASE CommitTimeEntry
  <2>1. PICK e \in Ids : entries' = [entries EXCEPT ![e].seen = TRUE]
    BY <1>2 DEF CommitTimeEntry
  <2>2. /\ entries' \in Seq(EntryRow) /\ Ids' = Ids
        /\ \A f \in Ids : entries'[f].task = entries[f].task /\ (entries[f].seen => entries'[f].seen)
    <3>1. entries \in [1 .. Len(entries) -> EntryRow] /\ DOMAIN entries = 1 .. Len(entries)
          /\ Len(entries) \in Nat
      BY DEF TimeInv
    <3>2. entries' \in [1 .. Len(entries) -> EntryRow]
      BY <2>1, <3>1 DEF EntryRow
    <3>3. entries' \in Seq(EntryRow)
      BY <3>1, <3>2
    <3>. QED BY <2>1, <3>1, <3>3 DEF Ids, EntryRow
  <2>3. UNCHANGED <<open, pages, steady>>
    BY <1>2 DEF CommitTimeEntry
  <2>. QED BY <2>2, <2>3 DEF TimeInv, PageState, Wanted, Got
<1>3. CASE AccessTurns
  <2>1. UNCHANGED <<entries, pages>> /\ open' \subseteq Homes /\ steady' \subseteq steady
        /\ \A e \in steady' : ProjectOf[entries[e].task] \in open'
    BY <1>3 DEF AccessTurns, TimeInv
  <2>. QED BY <2>1 DEF TimeInv, PageState, Wanted, Got, Ids
<1>4. CASE StartReading
  <2>1. PICK kind \in {"report", "task"}, t \in Work :
           pages' = [NoPages EXCEPT !.step = "page", !.kind = kind, !.task = t]
    BY <1>4 DEF StartReading
  <2>2. /\ pages'.step = "page" /\ pages'.before = 0 /\ pages'.got = <<>>
        /\ pages' \in PageState'
    <3>1. pages' = [step |-> "page", kind |-> kind, task |-> t, before |-> 0, got |-> <<>>]
      BY <2>1 DEF NoPages
    <3>. QED BY <3>1 DEF PageState
  <2>3. UNCHANGED <<entries, open>>
        /\ steady' = {e \in Ids : entries[e].seen /\ ProjectOf[entries[e].task] \in open}
    BY <1>4 DEF StartReading
  <2>. QED BY <2>2, <2>3 DEF TimeInv, Ids
<1>5. CASE ReadEntries
  BY <1>5, ReadEntriesKeeps
<1>6. CASE RefuseReading
  <2>1. pages.step = "page" /\ pages' = [pages EXCEPT !.step = "refused"]
        /\ UNCHANGED <<entries, open, steady>>
    BY <1>6 DEF RefuseReading
  <2>2. /\ pages'.step = "refused" /\ pages'.got = pages.got /\ pages' \in PageState'
    BY <2>1 DEF TimeInv, PageState
  <2>. QED BY <2>1, <2>2 DEF TimeInv, Ids
<1>7. CASE UNCHANGED timeVars
  BY <1>7 DEF timeVars, TimeInv, PageState, Wanted, Got, Ids
<1>. QED BY <1>1, <1>2, <1>3, <1>4, <1>5, <1>6, <1>7 DEF TimeNext

LEMMA TimeInvariant == TimeSpec => []TimeInv
BY TimeInitially, TimeStep, PTL DEF TimeSpec

\* ReadingIsComplete, for every number of entries, tasks and pages: the pages of a report, read by
\* their cursor, hold each entry that could be seen all the time, and none of them twice.
THEOREM CompleteReading == TimeSpec => []ReadingIsComplete
<1>1. TimeInv => ReadingIsComplete
  BY DEF TimeInv, ReadingIsComplete, Wanted, Got
<1>. QED BY <1>1, TimeInvariant, PTL

----------------------------------------------------------------------------
(* TaskOrder. A request has locked the tasks it writes and shares the rules it goes by. *)

CardRows == UNION {[S -> CardRow] : S \in SUBSET Card}

Kinds == {"none", "create", "move", "attach", "detach", "delete", "restore"}

Steps == {"free", "children", "parent", "hierarchy", "mark", "target", "source", "leave",
          "leaving", "put", "putting", "shift", "shifting", "commit"}

\* The steps of each kind of request.
HasStepOfKind(r) ==
    /\ r.kind = "none" => r.step = "free"
    /\ r.kind = "create" => r.step \in {"shift", "shifting", "commit"}
    /\ r.kind = "move" =>
          r.step \in {"target", "source", "leave", "leaving", "put", "putting", "commit"}
    /\ r.kind = "attach" => r.step \in {"children", "parent", "leave", "leaving", "commit"}
    /\ r.kind = "detach" =>
          r.step \in {"children", "parent", "target", "source", "put", "putting", "commit"}
    /\ r.kind = "delete" => r.step \in {"hierarchy", "mark", "commit"}
    /\ r.kind = "restore" => r.step \in {"parent", "hierarchy", "mark", "commit"}

RequestType ==
    [kind : Kinds, step : Steps, card : Nat, parent : Nat, to : Lane \cup {""},
     place : Nat, role : Roles \cup {""}, todo : Seq(Card), list : Seq(Card),
     locked : SUBSET Card, shares : SUBSET Lane, draft : CardRows]

OrderTypeOK ==
    /\ cards \in [Cards -> CardRow] /\ Cards \subseteq Card
    /\ \A c \in Cards : cards[c].parent \in Cards \cup {0}
    /\ rules \in [Lane -> RuleRow]
    /\ mover \in [Mover -> RequestType]

\* A request knows the cards it works with.
RequestOK(r) ==
    /\ HasStepOfKind(r)
    /\ r.locked \subseteq Cards /\ r.todo \in Seq(Cards) /\ r.list \in Seq(r.locked)
    /\ \A d \in DOMAIN r.draft : r.draft[d].parent \in Cards \cup {0}
    /\ r.kind \in {"delete", "restore"} => r.card \in Cards
    /\ r.kind = "attach" => r.parent \in Cards
    /\ r.kind = "detach" /\ r.step = "children" => cards[r.card].parent # 0
    /\ r.kind = "detach" /\ r.step # "children" => r.parent \in Cards
    /\ r.kind \in {"move", "create"} => r.to \in Lane
    /\ r.kind = "detach" /\ r.step \notin {"children", "parent"} => r.to \in Lane

\* It has locked what it writes, but for the card it creates, which nobody has.
WritesLocked(r) ==
    /\ r.kind \in {"move", "attach", "detach"} => r.card \in r.locked
    /\ \A d \in DOMAIN r.draft :
          d \in r.locked \/ (r.kind = "create" /\ r.step = "commit" /\ d = r.card)
    /\ r.kind = "create" /\ r.step = "commit" => r.card \notin Cards

\* The rules it goes by are locked.
GoesByRules(r) ==
    r.kind \in {"move", "detach"} /\ r.step \notin {"children", "parent", "target"} =>
        LET from == cards[r.card].lane
        IN  /\ r.to \in r.shares
            /\ rules[r.to].archive /\ from # r.to => r.role # "other"
            /\ r.step # "source" /\ from # r.to =>
                  from \in r.shares /\ (rules[from].creatorsOnly => r.role = "controller")
            /\ r.step = "commit" => r.card \in DOMAIN r.draft /\ r.draft[r.card].lane = r.to

RequestInv(r) == RequestOK(r) /\ WritesLocked(r) /\ GoesByRules(r)

OrderInv ==
    /\ OrderTypeOK
    /\ \A m \in Mover : RequestInv(mover[m])
    /\ \A m, o \in Mover : m # o =>
          /\ mover[m].locked \cap mover[o].locked = {}
          /\ ~ (mover[m].kind = "create" /\ mover[o].kind = "create")

LEMMA RestsTyped ==
    /\ Rests \in RequestType /\ Rests.kind = "none" /\ Rests.step = "free"
    /\ Rests.locked = {} /\ Rests.todo = <<>> /\ Rests.list = <<>> /\ DOMAIN Rests.draft = {}
<1>1. <<>> \in [{} -> CardRow] /\ DOMAIN <<>> = {} /\ <<>> \in Seq(Card)
  OBVIOUS
<1>2. <<>> \in CardRows
  BY <1>1 DEF CardRows
<1>3. /\ Rests.kind = "none" /\ Rests.step = "free" /\ Rests.locked = {}
      /\ Rests.todo = <<>> /\ Rests.list = <<>> /\ DOMAIN Rests.draft = {}
  BY <1>1 DEF Rests
<1>4. Rests \in RequestType
  BY <1>1, <1>2 DEF Rests, RequestType, Kinds, Steps
<1>. QED BY <1>3, <1>4

LEMMA RestsInv == RequestInv(Rests)
BY RestsTyped DEF RequestInv, RequestOK, WritesLocked, GoesByRules, HasStepOfKind

LEMMA OrderInitially == OrderInit => OrderInv
<1> SUFFICES ASSUME OrderInit PROVE OrderInv
  OBVIOUS
<1>1. OrderTypeOK
  BY RestsTyped, TaskOrderAssumption DEF OrderInit, OrderTypeOK, Cards, TaskOrderAssumption
<1>2. \A m \in Mover : mover[m] = Rests
  BY DEF OrderInit
<1>. QED BY <1>1, <1>2, RestsInv, RestsTyped DEF OrderInv

\* Cards in their order.
LEMMA InOrderIsSequence ==
    ASSUME OrderTypeOK, NEW S \in SUBSET Cards
    PROVE  InOrder(cards, S) \in Seq(S) /\ Range(InOrder(cards, S)) = S
<1> DEFINE R == {p \in Cards \X Cards : Before(cards, p[1], p[2])}
<1>1. \A x, y \in S : <<x, y>> \in R <=> Before(cards, x, y)
  OBVIOUS
<1>2. \A x \in S : x \in Nat /\ cards[x].place \in Nat
  BY TaskOrderAssumption DEF OrderTypeOK, CardRow, TaskOrderAssumption
<1>3. TotallyOrders(R, S)
  <2> HIDE DEF R
  <2>1. \A x, y \in S : x # y => Before(cards, x, y) \/ Before(cards, y, x)
    BY <1>2 DEF Before
  <2>2. \A x, y, z \in S : Before(cards, x, y) /\ Before(cards, y, z) => Before(cards, x, z)
    BY <1>2 DEF Before
  <2>. QED BY <1>1, <2>1, <2>2 DEF TotallyOrders
<1>4. IsFiniteSet(S)
  BY TaskOrderAssumption, FS_Subset DEF OrderTypeOK, TaskOrderAssumption
<1>5. PICK s : Sorts(s, R, S)
  BY <1>3, <1>4, SortedSequence
<1>6. s \in SetToSeqs(S) /\ \A i, j \in DOMAIN s : i < j => Before(cards, s[i], s[j])
  <2>1. \A i \in DOMAIN s : s[i] \in S
    BY <1>5 DEF Sorts, SetToSeqs
  <2>. HIDE DEF R
  <2>. QED BY <1>1, <1>5, <2>1 DEF Sorts
<1>7. InOrder(cards, S) \in SetToSeqs(S)
  BY <1>6 DEF InOrder
<1>. QED BY <1>4, <1>7, SequenceOfSet

----------------------------------------------------------------------------
(* Requests that begin, read and lock. *)

LEMMA RequestGoesOn ==
    ASSUME OrderInv, NEW m \in Mover, NEW new \in RequestType,
           mover' = [mover EXCEPT ![m] = new], UNCHANGED <<cards, rules>>, RequestInv(new),
           \A o \in Mover \ {m} : /\ new.locked \cap mover[o].locked = {}
                                  /\ new.kind = "create" => mover[o].kind # "create"
    PROVE  OrderInv'
<1>1. OrderTypeOK'
  BY DEF OrderInv, OrderTypeOK, Cards
<1>2. mover'[m] = new /\ \A o \in Mover : o # m => mover'[o] = mover[o]
  BY DEF OrderInv, OrderTypeOK
<1>3. ASSUME NEW o \in Mover PROVE RequestInv(mover[o])'
  <2>1. RequestInv(mover'[o])
    BY <1>2 DEF OrderInv
  <2>. QED BY <2>1 DEF RequestInv, RequestOK, WritesLocked, GoesByRules, Cards, HasStepOfKind
<1>4. \A o, n \in Mover : o # n =>
          /\ mover'[o].locked \cap mover'[n].locked = {}
          /\ ~ (mover'[o].kind = "create" /\ mover'[n].kind = "create")
  BY <1>2 DEF OrderInv
<1>. QED BY <1>1, <1>3, <1>4 DEF OrderInv

\* What is known of a request, its card and its locks.
LEMMA RequestOf ==
    ASSUME OrderInv, NEW m \in Mover
    PROVE  /\ mover[m] \in RequestType /\ RequestInv(mover[m])
           /\ \A o \in Mover \ {m} :
                 /\ mover[m].locked \cap mover[o].locked = {}
                 /\ mover[m].kind = "create" => mover[o].kind # "create"
           /\ \A c : ~ CardLocked(m, c) => \A o \in Mover \ {m} : c \notin mover[o].locked
           /\ \A c \in Cards : /\ c \in Nat \ {0} /\ c \in Card /\ cards[c] \in CardRow
                               /\ cards[c].parent \in Cards \cup {0}
BY TaskOrderAssumption DEF OrderInv, OrderTypeOK, CardLocked, TaskOrderAssumption

LEMMA NewRequest ==
    ASSUME OrderInv, NEW m \in Mover, NEW new \in RequestType, Begins(m, new), RequestInv(new),
           \A o \in Mover \ {m} : /\ new.locked \cap mover[o].locked = {}
                                  /\ new.kind = "create" => mover[o].kind # "create"
    PROVE  OrderInv'
BY RequestGoesOn DEF Begins

LEMMA RequestsBegin ==
    ASSUME OrderInv, NEW m \in Mover,
           CreateCard(m) \/ MoveCard(m) \/ AttachCard(m) \/ DetachCard(m) \/ DeleteCard(m)
              \/ RestoreCard(m)
    PROVE  OrderInv'
<1>1. CASE CreateCard(m)
  <2>1. PICK l \in Lane : Begins(m, [Rests EXCEPT !.kind = "create", !.step = "shift", !.to = l])
    BY <1>1 DEF CreateCard
  <2> DEFINE new == [Rests EXCEPT !.kind = "create", !.step = "shift", !.to = l]
  <2>2. /\ new \in RequestType /\ new.kind = "create" /\ new.step = "shift" /\ new.to = l
        /\ new.locked = {} /\ new.todo = <<>> /\ new.list = <<>> /\ DOMAIN new.draft = {}
    BY RestsTyped DEF RequestType, Kinds, Steps
  <2>3. \A o \in Mover \ {m} : mover[o].kind # "create"
    BY <1>1 DEF CreateCard
  <2> HIDE DEF new
  <2>4. RequestInv(new)
    BY <2>2 DEF RequestInv, RequestOK, WritesLocked, GoesByRules, HasStepOfKind
  <2>. QED BY <2>1, <2>2, <2>3, <2>4, NewRequest DEF new
<1>2. CASE MoveCard(m)
  <2>1. PICK c \in Cards, l \in Lane, p \in AskedPlaces, r \in Roles :
           BeginsWith(m, c, [Rests EXCEPT !.kind = "move", !.step = "target", !.to = l,
                                          !.place = p, !.role = r])
    BY <1>2 DEF MoveCard
  <2> DEFINE first == [Rests EXCEPT !.kind = "move", !.step = "target", !.to = l, !.place = p,
                                    !.role = r]
             new == [first EXCEPT !.card = c, !.locked = {c}]
  <2>2. c \in Card /\ c \in Nat /\ p \in Nat
    BY RequestOf, TaskOrderAssumption DEF TaskOrderAssumption
  <2>3. /\ new \in RequestType /\ new.kind = "move" /\ new.step = "target" /\ new.to = l
        /\ new.locked = {c} /\ new.card = c /\ new.todo = <<>> /\ new.list = <<>>
        /\ DOMAIN new.draft = {}
    BY <2>2, RestsTyped DEF RequestType, Kinds, Steps
  <2>4. Begins(m, new) /\ ~ CardLocked(m, c)
    BY <2>1 DEF BeginsWith
  <2> HIDE DEF first, new
  <2>5. RequestInv(new)
    BY <2>3 DEF RequestInv, RequestOK, WritesLocked, GoesByRules, HasStepOfKind
  <2>. QED BY <2>3, <2>4, <2>5, NewRequest, RequestOf
<1>3. CASE AttachCard(m)
  <2>1. PICK c \in Cards, p \in Cards :
           BeginsWith(m, c, [Rests EXCEPT !.kind = "attach", !.step = "children", !.parent = p])
    BY <1>3 DEF AttachCard
  <2> DEFINE first == [Rests EXCEPT !.kind = "attach", !.step = "children", !.parent = p]
             new == [first EXCEPT !.card = c, !.locked = {c}]
  <2>2. c \in Card /\ c \in Nat /\ p \in Nat
    BY RequestOf
  <2>3. /\ new \in RequestType /\ new.kind = "attach" /\ new.step = "children" /\ new.parent = p
        /\ new.locked = {c} /\ new.card = c /\ new.todo = <<>> /\ new.list = <<>>
        /\ DOMAIN new.draft = {}
    BY <2>2, RestsTyped DEF RequestType, Kinds, Steps
  <2>4. Begins(m, new) /\ ~ CardLocked(m, c)
    BY <2>1 DEF BeginsWith
  <2> HIDE DEF first, new
  <2>5. RequestInv(new)
    BY <2>3 DEF RequestInv, RequestOK, WritesLocked, GoesByRules, HasStepOfKind
  <2>. QED BY <2>3, <2>4, <2>5, NewRequest, RequestOf
<1>4. CASE DetachCard(m)
  <2>1. PICK c \in Cards, r \in Roles :
           /\ cards[c].parent # 0
           /\ BeginsWith(m, c, [Rests EXCEPT !.kind = "detach", !.step = "children", !.role = r])
    BY <1>4 DEF DetachCard
  <2> DEFINE first == [Rests EXCEPT !.kind = "detach", !.step = "children", !.role = r]
             new == [first EXCEPT !.card = c, !.locked = {c}]
  <2>2. c \in Card /\ c \in Nat
    BY RequestOf
  <2>3. /\ new \in RequestType /\ new.kind = "detach" /\ new.step = "children"
        /\ new.locked = {c} /\ new.card = c /\ new.todo = <<>> /\ new.list = <<>>
        /\ DOMAIN new.draft = {}
    BY <2>2, RestsTyped DEF RequestType, Kinds, Steps
  <2>4. Begins(m, new) /\ ~ CardLocked(m, c)
    BY <2>1 DEF BeginsWith
  <2> HIDE DEF first, new
  <2>5. RequestInv(new)
    BY <2>1, <2>3 DEF RequestInv, RequestOK, WritesLocked, GoesByRules, HasStepOfKind
  <2>. QED BY <2>3, <2>4, <2>5, NewRequest, RequestOf
<1>5. CASE DeleteCard(m)
  <2>1. PICK c \in Cards :
           Begins(m, [Rests EXCEPT !.kind = "delete", !.step = "hierarchy", !.card = c])
    BY <1>5 DEF DeleteCard
  <2> DEFINE new == [Rests EXCEPT !.kind = "delete", !.step = "hierarchy", !.card = c]
  <2>2. c \in Nat
    BY RequestOf
  <2>3. /\ new \in RequestType /\ new.kind = "delete" /\ new.step = "hierarchy"
        /\ new.locked = {} /\ new.card = c /\ new.todo = <<>> /\ new.list = <<>>
        /\ DOMAIN new.draft = {}
    BY <2>2, RestsTyped DEF RequestType, Kinds, Steps
  <2> HIDE DEF new
  <2>4. RequestInv(new)
    BY <2>3 DEF RequestInv, RequestOK, WritesLocked, GoesByRules, HasStepOfKind
  <2>. QED BY <2>1, <2>3, <2>4, NewRequest DEF new
<1>6. CASE RestoreCard(m)
  <2>1. PICK c \in Cards :
           /\ ~ CardLocked(m, c)
           /\ Begins(m, [Rests EXCEPT !.kind = "restore", !.step = "parent", !.card = c,
                                      !.locked = {c}])
    BY <1>6 DEF RestoreCard
  <2> DEFINE new == [Rests EXCEPT !.kind = "restore", !.step = "parent", !.card = c,
                                  !.locked = {c}]
  <2>2. c \in Nat /\ c \in Card
    BY RequestOf
  <2>3. /\ new \in RequestType /\ new.kind = "restore" /\ new.step = "parent"
        /\ new.locked = {c} /\ new.card = c /\ new.todo = <<>> /\ new.list = <<>>
        /\ DOMAIN new.draft = {}
    BY <2>2, RestsTyped DEF RequestType, Kinds, Steps
  <2> HIDE DEF new
  <2>4. RequestInv(new)
    BY <2>3 DEF RequestInv, RequestOK, WritesLocked, GoesByRules, HasStepOfKind
  <2>5. Begins(m, new) /\ ~ CardLocked(m, c)
    BY <2>1 DEF new
  <2>. QED BY <2>3, <2>4, <2>5, NewRequest, RequestOf
<1>. QED BY <1>1, <1>2, <1>3, <1>4, <1>5, <1>6

\* A step of a request that goes on with the cards and rules as they are.
LEMMA GoesOn ==
    ASSUME OrderInv, NEW m \in Mover, NEW new \in RequestType, Going(m, new), RequestInv(new),
           new.kind = mover[m].kind,
           \A c \in new.locked \ mover[m].locked : ~ CardLocked(m, c)
    PROVE  OrderInv'
<1>1. \A o \in Mover \ {m} : new.locked \cap mover[o].locked = {}
  BY RequestOf
<1>2. /\ mover' = [mover EXCEPT ![m] = new] /\ UNCHANGED <<cards, rules>>
      /\ \A o \in Mover \ {m} : new.kind = "create" => mover[o].kind # "create"
  BY RequestOf DEF Going
<1>. QED BY <1>1, <1>2, RequestGoesOn

LEMMA WiderSeq ==
    ASSUME NEW S, NEW T, S \subseteq T, NEW s \in Seq(S)
    PROVE  s \in Seq(T)
OBVIOUS

LEMMA DraftOf ==
    ASSUME NEW S, S \subseteq Card, NEW f \in [S -> CardRow]
    PROVE  f \in CardRows /\ DOMAIN f = S
BY DEF CardRows

LEMMA KeepsFindChild ==
    ASSUME OrderInv, NEW m \in Mover, FindChild(m)
    PROVE  OrderInv'
<1> DEFINE r == mover[m]
           par == IF r.kind = "detach" THEN cards[r.card].parent ELSE r.parent
           new == [r EXCEPT !.step = "parent", !.parent = par]
<1>1. r \in RequestType /\ RequestInv(r)
  BY RequestOf
<1>2. r.kind \in {"attach", "detach"} /\ r.step = "children" /\ Going(m, new)
  BY DEF FindChild, Serves
<1>3. r.card \in Cards /\ par \in Cards /\ par \in Nat
  BY <1>1, <1>2, RequestOf DEF RequestInv, RequestOK, WritesLocked
<1>4. /\ new \in RequestType /\ new.kind = r.kind /\ new.step = "parent" /\ new.parent = par
      /\ new.card = r.card /\ new.to = r.to /\ new.locked = r.locked /\ new.todo = r.todo
      /\ new.list = r.list /\ new.draft = r.draft
  BY <1>1, <1>3 DEF RequestType, Steps
<1> HIDE DEF new, par
<1>5. RequestInv(new)
  BY <1>1, <1>2, <1>3, <1>4
     DEF RequestInv, RequestOK, WritesLocked, GoesByRules, HasStepOfKind
<1>. QED BY <1>2, <1>4, <1>5, GoesOn

LEMMA KeepsLockNewParent ==
    ASSUME OrderInv, NEW m \in Mover, LockNewParent(m)
    PROVE  OrderInv'
<1> DEFINE r == mover[m]
           p == r.parent
           c == r.card
           next == IF cards[c].parent = 0 THEN "leave" ELSE "commit"
           g == [d \in {c} |-> [cards[c] EXCEPT !.parent = p, !.place = 0]]
           new == [r EXCEPT !.locked = @ \cup {p}, !.step = next, !.draft = g]
<1>1. r \in RequestType /\ RequestInv(r)
  BY RequestOf
<1>2. r.kind = "attach" /\ r.step = "parent" /\ Going(m, new) /\ ~ CardLocked(m, p)
  BY DEF LockNewParent, Serves
<1>3. c \in Cards /\ p \in Cards /\ c \in r.locked /\ c \in Card /\ p \in Card /\ p \in Nat
  BY <1>1, <1>2, RequestOf DEF RequestInv, RequestOK, WritesLocked
<1>4. g \in CardRows /\ DOMAIN g = {c} /\ g[c].parent = p
  <2>1. cards[c] \in CardRow
    BY <1>3, RequestOf
  <2>2. g \in [{c} -> CardRow] /\ g[c].parent = p
    BY <1>3, <2>1 DEF CardRow
  <2>. HIDE DEF g
  <2>. QED BY <1>3, <2>2, DraftOf
<1>5. next \in {"leave", "commit"}
  OBVIOUS
<1> HIDE DEF g, next
<1>6. /\ new \in RequestType /\ new.kind = r.kind /\ new.step = next /\ new.parent = p
      /\ new.card = c /\ new.to = r.to /\ new.locked = r.locked \cup {p} /\ new.todo = r.todo
      /\ new.list = r.list /\ new.draft = g
  BY <1>1, <1>3, <1>4, <1>5 DEF RequestType, Steps
<1> HIDE DEF new
<1>7. new.list \in Seq(new.locked)
  BY <1>1, <1>6, WiderSeq DEF RequestInv, RequestOK
<1>8. RequestInv(new)
  BY <1>1, <1>2, <1>3, <1>4, <1>5, <1>6, <1>7
     DEF RequestInv, RequestOK, WritesLocked, GoesByRules, HasStepOfKind
<1>. QED BY <1>2, <1>6, <1>8, GoesOn

LEMMA KeepsLockOldParent ==
    ASSUME OrderInv, NEW m \in Mover, LockOldParent(m)
    PROVE  OrderInv'
<1> DEFINE r == mover[m]
           p == r.parent
           new == [r EXCEPT !.locked = @ \cup {p}, !.step = "target",
                            !.to = cards[p].lane, !.place = cards[p].place + 1]
<1>1. r \in RequestType /\ RequestInv(r)
  BY RequestOf
<1>2. r.kind = "detach" /\ r.step = "parent" /\ Going(m, new) /\ ~ CardLocked(m, p)
  BY DEF LockOldParent, Serves
<1>3. p \in Cards /\ p \in Card /\ r.card \in r.locked
  BY <1>1, <1>2, RequestOf DEF RequestInv, RequestOK, WritesLocked
<1>4. cards[p].lane \in Lane /\ cards[p].place + 1 \in Nat
  BY <1>3, RequestOf DEF CardRow
<1>5. /\ new \in RequestType /\ new.kind = r.kind /\ new.step = "target" /\ new.parent = p
      /\ new.card = r.card /\ new.to = cards[p].lane /\ new.locked = r.locked \cup {p}
      /\ new.todo = r.todo /\ new.list = r.list /\ new.draft = r.draft
  BY <1>1, <1>3, <1>4 DEF RequestType, Steps
<1> HIDE DEF new
<1>6. new.list \in Seq(new.locked)
  BY <1>1, <1>5, WiderSeq DEF RequestInv, RequestOK
<1>7. RequestInv(new)
  BY <1>1, <1>2, <1>3, <1>4, <1>5, <1>6
     DEF RequestInv, RequestOK, WritesLocked, GoesByRules, HasStepOfKind
<1>. QED BY <1>2, <1>5, <1>7, GoesOn

LEMMA KeepsHierarchy ==
    ASSUME OrderInv, NEW m \in Mover,
           ReadParentOfRestored(m) \/ LockHierarchy(m) \/ MarkHierarchy(m)
    PROVE  OrderInv'
<1> DEFINE r == mover[m]
<1>1. r \in RequestType /\ RequestInv(r) /\ r.locked \subseteq Cards /\ Cards \subseteq Card
  BY RequestOf DEF RequestInv, RequestOK
<1>2. CASE ReadParentOfRestored(m)
  <2> DEFINE new == [r EXCEPT !.step = "hierarchy"]
  <2>1. r.kind = "restore" /\ Going(m, new)
    BY <1>2 DEF ReadParentOfRestored, Serves
  <2>2. /\ new \in RequestType /\ new.kind = r.kind /\ new.step = "hierarchy"
        /\ new.card = r.card /\ new.locked = r.locked
        /\ new.todo = r.todo /\ new.list = r.list /\ new.draft = r.draft
    BY <1>1 DEF RequestType, Steps
  <2> HIDE DEF new
  <2>3. RequestInv(new)
    BY <1>1, <2>1, <2>2 DEF RequestInv, RequestOK, WritesLocked, GoesByRules, HasStepOfKind
  <2>. QED BY <2>1, <2>2, <2>3, GoesOn
<1>3. CASE LockHierarchy(m)
  <2> DEFINE W == {d \in Children(r.card) : r.kind = "restore" \/ cards[d].live}
             new == [r EXCEPT !.step = "mark", !.locked = @ \cup W]
  <2>1. /\ r.kind \in {"delete", "restore"} /\ Going(m, new)
        /\ \A d \in W : ~ CardLocked(m, d)
    BY <1>3 DEF LockHierarchy, Serves
  <2>2. W \subseteq Cards
    BY DEF Children
  <2> HIDE DEF W
  <2>3. /\ new \in RequestType /\ new.kind = r.kind /\ new.step = "mark"
        /\ new.card = r.card /\ new.locked = r.locked \cup W
        /\ new.todo = r.todo /\ new.list = r.list /\ new.draft = r.draft
    BY <1>1, <2>2 DEF RequestType, Steps
  <2> HIDE DEF new
  <2>4. new.list \in Seq(new.locked)
    BY <1>1, <2>3, WiderSeq DEF RequestInv, RequestOK
  <2>5. RequestInv(new)
    BY <1>1, <2>1, <2>2, <2>3, <2>4
       DEF RequestInv, RequestOK, WritesLocked, GoesByRules, HasStepOfKind
  <2>. QED BY <2>1, <2>3, <2>5, GoesOn
<1>4. CASE MarkHierarchy(m)
  <2> DEFINE c == r.card
             L == r.locked \cup {c}
             b == (r.kind = "restore")
             g == [d \in L |-> [cards[d] EXCEPT !.live = b]]
             new == [r EXCEPT !.step = "commit", !.locked = @ \cup {c}, !.draft = g]
  <2>1. r.kind \in {"delete", "restore"} /\ Going(m, new) /\ ~ CardLocked(m, c)
    BY <1>4 DEF MarkHierarchy, Serves
  <2>2. L \subseteq Cards /\ L \subseteq Card /\ b \in BOOLEAN
    BY <1>1, <2>1 DEF RequestInv, RequestOK
  <2>3. \A d \in L : /\ [cards[d] EXCEPT !.live = b] \in CardRow
                     /\ [cards[d] EXCEPT !.live = b].parent \in Cards \cup {0}
    <3> SUFFICES ASSUME NEW d \in L
                 PROVE  /\ [cards[d] EXCEPT !.live = b] \in CardRow
                        /\ [cards[d] EXCEPT !.live = b].parent \in Cards \cup {0}
      OBVIOUS
    <3>1. cards[d] \in CardRow /\ cards[d].parent \in Cards \cup {0}
      BY <2>2, RequestOf
    <3> HIDE DEF b
    <3>. QED BY <2>2, <3>1 DEF CardRow
  <2>4. g \in CardRows /\ DOMAIN g = L /\ \A d \in L : g[d].parent \in Cards \cup {0}
    <3> HIDE DEF b
    <3>1. g \in [L -> CardRow] /\ \A d \in L : g[d].parent \in Cards \cup {0}
      BY <2>3
    <3> HIDE DEF g
    <3>. QED BY <2>2, <3>1, DraftOf
  <2> HIDE DEF g
  <2>5. /\ new \in RequestType /\ new.kind = r.kind /\ new.step = "commit"
        /\ new.card = c /\ new.locked = L
        /\ new.todo = r.todo /\ new.list = r.list /\ new.draft = g
    BY <1>1, <2>2, <2>4 DEF RequestType, Steps
  <2> HIDE DEF new
  <2>6. new.list \in Seq(new.locked)
    BY <1>1, <2>5, WiderSeq DEF RequestInv, RequestOK
  <2>7. RequestInv(new)
    BY <1>1, <2>1, <2>2, <2>4, <2>5, <2>6
       DEF RequestInv, RequestOK, WritesLocked, GoesByRules, HasStepOfKind
  <2>. QED BY <2>1, <2>5, <2>7, GoesOn
<1>. QED BY <1>2, <1>3, <1>4

----------------------------------------------------------------------------
(* The rules. *)

\* A request that goes on after its rules, with the columns S locked.
LEMMA AfterRulesOK ==
    ASSUME OrderInv, NEW m \in Mover, mover[m].kind \in {"move", "detach"},
           mover[m].step \in {"target", "source"}, NEW S \in SUBSET Lane,
           Going(m, [AfterRules(m) EXCEPT !.shares = S]),
           mover[m].to \in S, Leaves(m) => cards[mover[m].card].lane \in S /\ MayLeave(m),
           MayEnter(m)
    PROVE  OrderInv'
<1> DEFINE r == mover[m]
           c == r.card
           next == IF r.kind = "detach" THEN "put"
                   ELSE IF cards[c].parent # 0 THEN "commit"
                   ELSE IF Leaves(m) THEN "leave" ELSE "put"
           f == [d \in {c} |-> [cards[d] EXCEPT !.lane = r.to]]
           g == IF r.kind # "detach" /\ cards[c].parent # 0 THEN f ELSE r.draft
           new == [r EXCEPT !.step = next, !.draft = g, !.shares = S]
<1>1. r \in RequestType /\ RequestInv(r)
  BY RequestOf
<1>2. [AfterRules(m) EXCEPT !.shares = S] = new
  <2>1. CASE r.kind = "detach"
    <3>1. AfterRules(m) = [r EXCEPT !.step = "put"]
      BY <2>1 DEF AfterRules
    <3> HIDE DEF f
    <3>. QED BY <1>1, <2>1, <3>1 DEF RequestType
  <2>2. CASE r.kind # "detach" /\ cards[c].parent # 0
    <3>1. AfterRules(m) = [r EXCEPT !.step = "commit", !.draft = f]
      BY <2>2 DEF AfterRules
    <3> HIDE DEF f
    <3>. QED BY <1>1, <2>2, <3>1 DEF RequestType
  <2>3. CASE r.kind # "detach" /\ cards[c].parent = 0
    <3>1. AfterRules(m) = [r EXCEPT !.step = next]
      BY <2>3 DEF AfterRules
    <3> HIDE DEF f
    <3>. QED BY <1>1, <2>3, <3>1 DEF RequestType
  <2>. QED BY <2>1, <2>2, <2>3
<1>3. c \in Cards /\ c \in r.locked /\ r.to \in Lane /\ c \in Card
  BY <1>1, RequestOf DEF RequestInv, RequestOK, WritesLocked
<1>4. /\ f \in CardRows /\ DOMAIN f = {c} /\ f[c].lane = r.to
      /\ f[c].parent \in Cards \cup {0}
  <2>1. cards[c] \in CardRow /\ cards[c].parent \in Cards \cup {0}
    BY <1>3, RequestOf
  <2>2. f \in [{c} -> CardRow] /\ f[c].lane = r.to /\ f[c].parent \in Cards \cup {0}
    BY <1>3, <2>1 DEF CardRow
  <2>. HIDE DEF f
  <2>. QED BY <1>3, <2>2, DraftOf
<1>5. /\ g \in CardRows
      /\ \A d \in DOMAIN g : g[d].parent \in Cards \cup {0} /\ d \in r.locked
      /\ next = "commit" => c \in DOMAIN g /\ g[c].lane = r.to
  <2> HIDE DEF f
  <2>. QED BY <1>1, <1>3, <1>4 DEF RequestType, RequestInv, RequestOK, WritesLocked
<1>6. /\ next \in {"put", "commit", "leave"}
      /\ r.kind = "detach" => next = "put"
  OBVIOUS
<1> HIDE DEF g, next
<1>7. /\ new \in RequestType /\ new.kind = r.kind /\ new.step = next /\ new.parent = r.parent
      /\ new.card = c /\ new.to = r.to /\ new.locked = r.locked /\ new.todo = r.todo
      /\ new.list = r.list /\ new.draft = g /\ new.shares = S /\ new.role = r.role
  BY <1>1, <1>3, <1>5, <1>6 DEF RequestType, Steps
<1> HIDE DEF new
<1>8. RequestOK(new) /\ WritesLocked(new)
  <2>1. HasStepOfKind(new)
    BY <1>6, <1>7 DEF HasStepOfKind
  <2>2. new.kind \in {"move", "detach"}
    BY <1>7
  <2>3. WritesLocked(new)
    BY <1>3, <1>5, <1>7, <2>2 DEF WritesLocked
  <2>4. r.kind = "detach" => r.parent \in Cards
    BY <1>1 DEF RequestInv, RequestOK
  <2>5. RequestOK(new)
    BY <1>1, <1>3, <1>5, <1>6, <1>7, <2>1, <2>2, <2>4 DEF RequestInv, RequestOK
  <2>. QED BY <2>3, <2>5
<1>9. GoesByRules(new)
  BY <1>3, <1>5, <1>6, <1>7 DEF GoesByRules, MayEnter, MayLeave, Leaves
<1>. QED BY <1>2, <1>7, <1>8, <1>9, GoesOn DEF RequestInv

LEMMA KeepsShareTarget ==
    ASSUME OrderInv, NEW m \in Mover, ShareTarget(m)
    PROVE  OrderInv'
<1> DEFINE r == mover[m]
<1>1. r \in RequestType /\ RequestInv(r)
  BY RequestOf
<1>2. r.kind \in {"move", "detach"} /\ r.step = "target" /\ MayEnter(m)
  BY DEF ShareTarget, Serves
<1>3. r.to \in Lane /\ r.card \in Cards
  BY <1>1, <1>2 DEF RequestInv, RequestOK, WritesLocked
<1>4. CASE ~ Leaves(m)
  BY <1>2, <1>3, <1>4, AfterRulesOK DEF ShareTarget
<1>5. CASE Leaves(m)
  <2> DEFINE new == [r EXCEPT !.step = "source", !.shares = {r.to}]
  <2>1. Going(m, new)
    BY <1>5 DEF ShareTarget
  <2>2. /\ new \in RequestType /\ new.kind = r.kind /\ new.step = "source"
        /\ new.card = r.card /\ new.parent = r.parent /\ new.to = r.to /\ new.role = r.role
        /\ new.locked = r.locked /\ new.shares = {r.to}
        /\ new.todo = r.todo /\ new.list = r.list /\ new.draft = r.draft
    BY <1>1, <1>3 DEF RequestType, Steps
  <2> HIDE DEF new
  <2>3. RequestInv(new)
    BY <1>1, <1>2, <1>3, <2>2
       DEF RequestInv, RequestOK, WritesLocked, GoesByRules, HasStepOfKind, MayEnter, Leaves
  <2>. QED BY <2>1, <2>2, <2>3, GoesOn
<1>. QED BY <1>4, <1>5

LEMMA KeepsShareSource ==
    ASSUME OrderInv, NEW m \in Mover, ShareSource(m)
    PROVE  OrderInv'
<1> DEFINE r == mover[m]
           from == cards[r.card].lane
           S == r.shares \cup {from}
<1>1. r \in RequestType /\ RequestInv(r)
  BY RequestOf
<1>2. r.kind \in {"move", "detach"} /\ r.step = "source" /\ MayLeave(m)
  BY DEF ShareSource, Serves
<1>3. r.card \in Cards /\ from \in Lane
  BY <1>1, <1>2, RequestOf DEF RequestInv, RequestOK, WritesLocked, CardRow
<1>4. r.to \in r.shares /\ MayEnter(m)
  BY <1>1, <1>2 DEF RequestInv, GoesByRules, MayEnter, Leaves
<1>5. AfterRules(m).shares = r.shares
  <2>1. CASE r.kind = "detach"
    BY <1>1, <2>1 DEF AfterRules, RequestType
  <2>2. CASE r.kind # "detach" /\ cards[r.card].parent # 0
    BY <1>1, <2>2 DEF AfterRules, RequestType
  <2>3. CASE r.kind # "detach" /\ cards[r.card].parent = 0
    BY <1>1, <2>3 DEF AfterRules, RequestType
  <2>. QED BY <2>1, <2>2, <2>3
<1>6. Going(m, [AfterRules(m) EXCEPT !.shares = S])
  BY <1>5 DEF ShareSource
<1>7. S \in SUBSET Lane /\ r.to \in S /\ from \in S
  BY <1>1, <1>3, <1>4 DEF RequestType
<1> HIDE DEF S
<1>. QED BY <1>2, <1>4, <1>6, <1>7, AfterRulesOK

----------------------------------------------------------------------------
(* Lists. *)

LEMMA KeepsScanList ==
    ASSUME OrderInv, NEW m \in Mover, ScanList(m)
    PROVE  OrderInv'
<1> DEFINE r == mover[m]
           next == Scanning[r.step]
           todo == OthersIn(cards, ListLane(m), r.card)
           new == [r EXCEPT !.step = next, !.list = <<>>, !.todo = todo]
<1>1. r \in RequestType /\ RequestInv(r)
  BY RequestOf
<1>2. r.step \in {"leave", "put", "shift"} /\ Going(m, new)
  BY DEF ScanList, Scanning
<1>3. /\ r.step = "leave" => next = "leaving"
      /\ r.step = "put" => next = "putting"
      /\ r.step = "shift" => next = "shifting"
  BY DEF Scanning
<1>4. todo \in Seq(Cards) /\ todo \in Seq(Card)
  <2> DEFINE S == LaneRoots(cards, ListLane(m)) \ {r.card}
  <2>1. S \subseteq Cards /\ S \subseteq Card /\ OrderTypeOK
    BY RequestOf DEF LaneRoots, Cards, OrderInv
  <2> HIDE DEF S
  <2>2. InOrder(cards, S) \in Seq(S)
    BY <2>1, InOrderIsSequence
  <2>3. todo = InOrder(cards, S)
    BY DEF OthersIn, S
  <2> HIDE DEF todo
  <2>. QED BY <2>1, <2>2, <2>3, WiderSeq
<1>5. <<>> \in Seq(r.locked) /\ <<>> \in Seq(Card)
  OBVIOUS
<1> HIDE DEF todo, next
<1>6. /\ new \in RequestType /\ new.kind = r.kind /\ new.step = next /\ new.parent = r.parent
      /\ new.card = r.card /\ new.to = r.to /\ new.locked = r.locked /\ new.todo = todo
      /\ new.list = <<>> /\ new.draft = r.draft /\ new.shares = r.shares /\ new.role = r.role
  BY <1>1, <1>2, <1>3, <1>4, <1>5 DEF RequestType, Steps
<1> HIDE DEF new
<1>7. HasStepOfKind(new) /\ new.step \notin {"commit", "source"} /\ r.step # "source"
  BY <1>1, <1>2, <1>3, <1>6 DEF RequestInv, RequestOK, HasStepOfKind
<1>8. RequestInv(new)
  BY <1>1, <1>2, <1>3, <1>4, <1>5, <1>6, <1>7
     DEF RequestInv, RequestOK, WritesLocked, GoesByRules
<1>. QED BY <1>2, <1>6, <1>8, GoesOn

LEMMA WithoutOne ==
    ASSUME NEW S, NEW s \in Seq(S), NEW i \in DOMAIN s
    PROVE  RemoveAt(s, i) \in Seq(S)
<1>1. i \in 1 .. Len(s) /\ Len(s) \in Nat
  OBVIOUS
<1>2. SubSeq(s, 1, i - 1) \in Seq(S) /\ SubSeq(s, i + 1, Len(s)) \in Seq(S)
  BY <1>1
<1>. QED BY <1>2 DEF RemoveAt

LEMMA KeepsLockListed ==
    ASSUME OrderInv, NEW m \in Mover, LockListed(m)
    PROVE  OrderInv'
<1> DEFINE r == mover[m]
<1>1. r \in RequestType /\ RequestInv(r) /\ r.todo \in Seq(Cards)
  BY RequestOf DEF RequestInv, RequestOK
<1>2. PICK i \in NextListed(m) :
         /\ ~ CardLocked(m, r.todo[i])
         /\ Going(m, [r EXCEPT !.todo = RemoveAt(@, i), !.locked = @ \cup {r.todo[i]},
               !.list = IF IsRoot(cards, ListLane(m), r.todo[i]) THEN Append(@, r.todo[i])
                        ELSE @])
  BY DEF LockListed
<1> DEFINE c == r.todo[i]
           L == r.locked \cup {c}
           list == IF IsRoot(cards, ListLane(m), c) THEN Append(r.list, c) ELSE r.list
           todo == RemoveAt(r.todo, i)
           new == [r EXCEPT !.todo = todo, !.locked = L, !.list = list]
<1>3. Going(m, new) /\ ~ CardLocked(m, c)
  BY <1>1, <1>2 DEF RequestType
<1>4. i \in DOMAIN r.todo
  BY DEF NextListed
<1>5. c \in Cards /\ c \in Card
  BY <1>1, <1>4, RequestOf
<1>6. todo \in Seq(Cards) /\ todo \in Seq(Card)
  <2>1. todo \in Seq(Cards)
    BY <1>1, <1>4, WithoutOne
  <2>2. Cards \subseteq Card
    BY RequestOf
  <2> HIDE DEF todo
  <2>. QED BY <2>1, <2>2, WiderSeq
<1>7. list \in Seq(L) /\ list \in Seq(Card) /\ L \subseteq Card /\ L \subseteq Cards
  <2>1. L \subseteq Card /\ r.list \in Seq(r.locked) /\ L \subseteq Cards
    BY <1>1, <1>5 DEF RequestType, RequestInv, RequestOK
  <2> HIDE DEF c
  <2>2. list \in Seq(L)
    BY <2>1, WiderSeq
  <2> HIDE DEF L, list
  <2>. QED BY <2>1, <2>2, WiderSeq
<1>8. r.step \in {"leaving", "putting", "shifting"}
  BY DEF LockListed, Listing
<1>9. r.locked \subseteq L /\ L \ r.locked \subseteq {c}
  OBVIOUS
<1> HIDE DEF c, L, list, todo
<1>10. /\ new \in RequestType /\ new.kind = r.kind /\ new.step = r.step
       /\ new.parent = r.parent
       /\ new.card = r.card /\ new.to = r.to /\ new.locked = L /\ new.todo = todo
       /\ new.list = list /\ new.draft = r.draft /\ new.shares = r.shares
       /\ new.role = r.role
  BY <1>1, <1>6, <1>7 DEF RequestType, Steps
<1> HIDE DEF new
<1>11. HasStepOfKind(new)
  BY <1>1, <1>10 DEF RequestInv, RequestOK, HasStepOfKind
<1>12. RequestInv(new)
  BY <1>1, <1>6, <1>7, <1>8, <1>9, <1>10, <1>11
     DEF RequestInv, RequestOK, WritesLocked, GoesByRules
<1>. QED BY <1>3, <1>9, <1>10, <1>12, GoesOn

----------------------------------------------------------------------------
(* What a request is going to write. *)

\* Cards a request has in hand, with rows that can be committed.
Writes(f, S) ==
    /\ f \in CardRows /\ DOMAIN f \subseteq S
    /\ \A d \in DOMAIN f : f[d].parent \in Cards \cup {0}

LEMMA CardsOf ==
    ASSUME OrderInv
    PROVE  \A c \in Cards : /\ c \in Nat \ {0} /\ c \in Card /\ cards[c] \in CardRow
                             /\ cards[c].parent \in Cards \cup {0}
BY TaskOrderAssumption DEF OrderInv, OrderTypeOK, TaskOrderAssumption

LEMMA PlacedWrites ==
    ASSUME OrderInv, NEW L \in SUBSET Cards, NEW s \in Seq(L), NEW at,
           \A i \in DOMAIN s : at[i] \in Nat
    PROVE  Writes(Placed(s, at), L) /\ \A d \in DOMAIN Placed(s, at) :
                                          Placed(s, at)[d].lane = cards[d].lane
<1>1. Range(s) \subseteq L
  BY DEF Range
<1>2. ASSUME NEW c \in Range(s) PROVE at[CHOOSE i \in DOMAIN s : s[i] = c] \in Nat
  <2>1. \E i \in DOMAIN s : s[i] = c
    BY DEF Range
  <2>. QED BY <2>1
<1>3. ASSUME NEW c \in Range(s), NEW n \in Nat
      PROVE  /\ [cards[c] EXCEPT !.place = n] \in CardRow
             /\ [cards[c] EXCEPT !.place = n].parent \in Cards \cup {0}
             /\ [cards[c] EXCEPT !.place = n].lane = cards[c].lane
  <2>1. cards[c] \in CardRow /\ cards[c].parent \in Cards \cup {0}
    BY <1>1, CardsOf
  <2>. QED BY <2>1 DEF CardRow
<1> DEFINE f == Placed(s, at)
<1>4. /\ f \in [Range(s) -> CardRow]
      /\ \A d \in Range(s) : f[d].parent \in Cards \cup {0} /\ f[d].lane = cards[d].lane
  BY <1>2, <1>3 DEF Placed
<1>5. Range(s) \subseteq Card
  BY <1>1, CardsOf
<1> HIDE DEF f
<1>6. f \in CardRows /\ DOMAIN f = Range(s)
  BY <1>4, <1>5, DraftOf
<1>7. Writes(f, L) /\ \A d \in DOMAIN f : f[d].lane = cards[d].lane
  BY <1>1, <1>4, <1>6 DEF Writes
<1>. QED BY <1>7 DEF f

LEMMA CardAtWrites ==
    ASSUME OrderInv, NEW m \in Mover, NEW c \in Card, NEW n \in Nat, mover[m].to \in Lane
    PROVE  /\ Writes(CardAt(m, c, n), {c}) /\ c \in DOMAIN CardAt(m, c, n)
           /\ CardAt(m, c, n)[c].lane = mover[m].to
<1> DEFINE f == CardAt(m, c, n)
<1>1. f \in [{c} -> CardRow] /\ f[c].parent = 0 /\ f[c].lane = mover[m].to
  BY DEF CardAt, CardRow
<1> HIDE DEF f
<1>2. f \in CardRows /\ DOMAIN f = {c}
  BY <1>1, DraftOf
<1>3. Writes(f, {c}) /\ c \in DOMAIN f /\ f[c].lane = mover[m].to
  BY <1>1, <1>2 DEF Writes
<1>. QED BY <1>3 DEF f

LEMMA MergedRows ==
    ASSUME NEW f \in CardRows, NEW g \in CardRows
    PROVE  /\ Merged(f, g) \in [DOMAIN f \cup DOMAIN g -> CardRow]
           /\ Merged(f, g) \in CardRows /\ DOMAIN Merged(f, g) = DOMAIN f \cup DOMAIN g
           /\ \A d \in DOMAIN f : Merged(f, g)[d] = f[d]
           /\ \A d \in DOMAIN g \ DOMAIN f : Merged(f, g)[d] = g[d]
<1>1. /\ f \in [DOMAIN f -> CardRow] /\ DOMAIN f \subseteq Card
      /\ g \in [DOMAIN g -> CardRow] /\ DOMAIN g \subseteq Card
  BY DEF CardRows
<1> DEFINE h == Merged(f, g)
<1>2. /\ h \in [DOMAIN f \cup DOMAIN g -> CardRow]
      /\ \A d \in DOMAIN f : h[d] = f[d]
      /\ \A d \in DOMAIN g \ DOMAIN f : h[d] = g[d]
  BY <1>1 DEF Merged
<1>3. DOMAIN f \cup DOMAIN g \subseteq Card
  BY <1>1
<1> HIDE DEF h
<1>4. h \in CardRows /\ DOMAIN h = DOMAIN f \cup DOMAIN g
  BY <1>2, <1>3, DraftOf
<1>. QED BY <1>2, <1>4 DEF h

LEMMA MergedWrites ==
    ASSUME NEW f, NEW g, NEW S, NEW T, Writes(f, S), Writes(g, T)
    PROVE  Writes(Merged(f, g), S \cup T)
<1>1. f \in CardRows /\ g \in CardRows
  BY DEF Writes
<1> DEFINE h == Merged(f, g)
<1>2. /\ h \in CardRows /\ DOMAIN h = DOMAIN f \cup DOMAIN g
      /\ \A d \in DOMAIN f : h[d] = f[d]
      /\ \A d \in DOMAIN g \ DOMAIN f : h[d] = g[d]
  BY <1>1, MergedRows
<1> HIDE DEF h
<1>3. Writes(h, S \cup T)
  BY <1>2 DEF Writes
<1>. QED BY <1>3 DEF h

\* What is known of a request with a list.
LEMMA ListOf ==
    ASSUME OrderInv, NEW m \in Mover, mover[m].step \in Listing
    PROVE  /\ mover[m].locked \in SUBSET Cards /\ mover[m].list \in Seq(mover[m].locked)
           /\ Writes(mover[m].draft, mover[m].locked)
           /\ mover[m].step = "leaving" => mover[m].kind \in {"move", "attach"}
           /\ mover[m].step = "putting" => mover[m].kind \in {"move", "detach"}
           /\ mover[m].step = "shifting" => mover[m].kind = "create"
           /\ mover[m].kind \in {"move", "detach"} =>
                 mover[m].card \in mover[m].locked /\ mover[m].card \in Cards
           /\ mover[m].kind \in {"move", "detach", "create"} => mover[m].to \in Lane
<1>1. mover[m] \in RequestType /\ RequestInv(mover[m])
  BY RequestOf
<1>2. mover[m].step \in {"leaving", "putting", "shifting"}
  BY DEF Listing
<1>3. Writes(mover[m].draft, mover[m].locked)
  BY <1>1, <1>2 DEF RequestType, RequestInv, RequestOK, WritesLocked, Writes
<1>4. /\ mover[m].step = "leaving" => mover[m].kind \in {"move", "attach"}
      /\ mover[m].step = "putting" => mover[m].kind \in {"move", "detach"}
      /\ mover[m].step = "shifting" => mover[m].kind = "create"
  BY <1>1 DEF RequestType, Kinds, RequestInv, RequestOK, HasStepOfKind
<1>. QED BY <1>1, <1>2, <1>3, <1>4 DEF RequestInv, RequestOK, WritesLocked

LEMMA KeepsCloseGap ==
    ASSUME OrderInv, NEW m \in Mover, CloseGap(m)
    PROVE  OrderInv'
<1> DEFINE r == mover[m]
           s == r.list
           at == [i \in DOMAIN s |-> i - 1]
           g == Merged(Placed(s, at), r.draft)
           next == IF r.kind = "attach" THEN "commit" ELSE "put"
           new == [r EXCEPT !.draft = g, !.step = next]
<1>1. r \in RequestType /\ RequestInv(r)
  BY RequestOf
<1>2. r.step = "leaving" /\ r.step \in Listing
  BY DEF CloseGap, Listing
<1>3. /\ r.locked \in SUBSET Cards /\ s \in Seq(r.locked) /\ Writes(r.draft, r.locked)
      /\ r.kind \in {"move", "attach"}
  BY <1>2, ListOf
<1>4. \A i \in DOMAIN s : at[i] \in Nat
  BY <1>3
<1>5. Going(m, new)
  BY <1>1 DEF CloseGap, RequestType
<1>6. Writes(g, r.locked)
  <2> HIDE DEF at
  <2>1. Writes(Placed(s, at), r.locked)
    BY <1>3, <1>4, PlacedWrites
  <2>2. Writes(g, r.locked \cup r.locked)
    BY <1>3, <2>1, MergedWrites
  <2>. QED BY <2>2
<1> HIDE DEF g
<1>7. /\ new \in RequestType /\ new.kind = r.kind /\ new.step = next
      /\ new.parent = r.parent
      /\ new.card = r.card /\ new.to = r.to /\ new.locked = r.locked /\ new.todo = r.todo
      /\ new.list = r.list /\ new.draft = g /\ new.shares = r.shares
      /\ new.role = r.role
  BY <1>1, <1>6 DEF RequestType, Steps, Writes
<1>8. r.kind = "move" => next = "put"
  OBVIOUS
<1>9. next \in {"commit", "put"} /\ r.kind = "attach" => next = "commit"
  OBVIOUS
<1>10. HasStepOfKind(new)
  BY <1>3, <1>7 DEF HasStepOfKind
<1> HIDE DEF new, next
<1>11. RequestInv(new)
  BY <1>1, <1>2, <1>3, <1>6, <1>7, <1>8, <1>10
     DEF RequestInv, RequestOK, WritesLocked, GoesByRules, Writes
<1>. QED BY <1>5, <1>7, <1>11, GoesOn

LEMMA LeastOfTwo ==
    ASSUME NEW a \in Nat, NEW b \in Nat
    PROVE  Min({a, b}) \in Nat
<1>1. CASE a <= b
  BY <1>1 DEF Min
<1>2. CASE b <= a
  BY <1>2 DEF Min
<1>. QED BY <1>1, <1>2

LEMMA KeepsPutCard ==
    ASSUME OrderInv, NEW m \in Mover, PutCard(m)
    PROVE  OrderInv'
<1> DEFINE r == mover[m]
           s == r.list
           c == r.card
           k == Min({r.place, Len(s)})
           at == [i \in DOMAIN s |-> IF i <= k THEN i - 1 ELSE i]
           g == Merged(CardAt(m, c, k), Merged(Placed(s, at), r.draft))
           new == [r EXCEPT !.step = "commit", !.draft = g]
<1>1. r \in RequestType /\ RequestInv(r)
  BY RequestOf
<1>2. r.step = "putting" /\ r.step \in Listing
  BY DEF PutCard, Listing
<1>3. /\ r.locked \in SUBSET Cards /\ s \in Seq(r.locked) /\ Writes(r.draft, r.locked)
      /\ r.kind \in {"move", "detach"} /\ c \in r.locked /\ c \in Cards /\ r.to \in Lane
  BY <1>2, ListOf
<1>4. k \in Nat /\ c \in Card
  <2>1. r.place \in Nat
    BY <1>1 DEF RequestType
  <2>2. Len(s) \in Nat
    BY <1>3
  <2>. QED BY <1>3, <2>1, <2>2, LeastOfTwo, RequestOf
<1> HIDE DEF k
<1>5. \A i \in DOMAIN s : at[i] \in Nat
  BY <1>3
<1>6. Going(m, new)
  BY <1>1 DEF PutCard, RequestType, k
<1>7. Writes(g, r.locked) /\ c \in DOMAIN g /\ g[c].lane = r.to
  <2> HIDE DEF at
  <2> DEFINE f == CardAt(m, c, k)
             h == Merged(Placed(s, at), r.draft)
  <2>1. Writes(Placed(s, at), r.locked)
    BY <1>3, <1>5, PlacedWrites
  <2>2. Writes(h, r.locked \cup r.locked)
    BY <1>3, <2>1, MergedWrites
  <2>3. Writes(f, {c}) /\ c \in DOMAIN f /\ f[c].lane = r.to
    BY <1>3, <1>4, CardAtWrites
  <2> HIDE DEF f, h
  <2>4. Writes(Merged(f, h), {c} \cup (r.locked \cup r.locked))
    BY <2>2, <2>3, MergedWrites
  <2>5. /\ DOMAIN Merged(f, h) = DOMAIN f \cup DOMAIN h
        /\ \A d \in DOMAIN f : Merged(f, h)[d] = f[d]
    BY <2>2, <2>3, MergedRows DEF Writes
  <2>6. {c} \cup (r.locked \cup r.locked) = r.locked
    BY <1>3
  <2>7. /\ Writes(Merged(f, h), r.locked) /\ c \in DOMAIN Merged(f, h)
        /\ Merged(f, h)[c].lane = r.to
    BY <2>3, <2>4, <2>5, <2>6
  <2>. QED BY <2>7 DEF f, h
<1> HIDE DEF g
<1>8. /\ new \in RequestType /\ new.kind = r.kind /\ new.step = "commit"
      /\ new.parent = r.parent
      /\ new.card = c /\ new.to = r.to /\ new.locked = r.locked /\ new.todo = r.todo
      /\ new.list = r.list /\ new.draft = g /\ new.shares = r.shares
      /\ new.role = r.role
  BY <1>1, <1>7 DEF RequestType, Steps, Writes
<1>9. HasStepOfKind(new)
  BY <1>3, <1>8 DEF HasStepOfKind
<1> HIDE DEF new
<1>10. RequestInv(new)
  BY <1>1, <1>2, <1>3, <1>7, <1>8, <1>9
     DEF RequestInv, RequestOK, WritesLocked, GoesByRules, Writes
<1>. QED BY <1>6, <1>8, <1>10, GoesOn

LEMMA LeastCard ==
    ASSUME NEW S \in SUBSET Card, S # {}
    PROVE  Min(S) \in S
<1>1. IsFiniteSet(S) /\ S \subseteq Nat
  BY TaskOrderAssumption, FS_Subset DEF TaskOrderAssumption
<1> DEFINE R == {p \in Nat \X Nat : p[1] < p[2]}
<1>2. \A x, y \in S : <<x, y>> \in R <=> x < y
  BY <1>1
<1>3. TotallyOrders(R, S)
  <2> HIDE DEF R
  <2>. QED BY <1>1, <1>2 DEF TotallyOrders
<1>4. \E x \in S : \A y \in S : y # x => <<x, y>> \in R
  <2> HIDE DEF R
  <2>. QED BY <1>1, <1>3, LeastElement
<1> HIDE DEF R
<1>5. PICK x \in S : \A y \in S : y # x => <<x, y>> \in R
  BY <1>4
<1>6. \A y \in S : x <= y
  <2> SUFFICES ASSUME NEW y \in S PROVE x <= y
    OBVIOUS
  <2>1. x \in Nat /\ y \in Nat
    BY <1>1
  <2>2. y # x => x < y
    BY <1>2, <1>5
  <2>. QED BY <2>1, <2>2
<1>. QED BY <1>6 DEF Min

LEMMA KeepsInsertCard ==
    ASSUME OrderInv, NEW m \in Mover, InsertCard(m)
    PROVE  OrderInv'
<1> DEFINE r == mover[m]
           s == r.list
           c == Min(Card \ Cards)
           at == [i \in DOMAIN s |-> cards[s[i]].place + 1]
           g == Merged(CardAt(m, c, 0), Placed(s, at))
           new == [r EXCEPT !.step = "commit", !.card = c, !.draft = g]
<1>1. r \in RequestType /\ RequestInv(r)
  BY RequestOf
<1>2. r.step = "shifting" /\ r.step \in Listing /\ Card \ Cards # {} /\ Going(m, new)
  BY DEF InsertCard, Listing
<1>3. /\ r.locked \in SUBSET Cards /\ s \in Seq(r.locked)
      /\ r.kind = "create" /\ r.to \in Lane
  BY <1>2, ListOf
<1>4. c \in Card \ Cards /\ c \in Nat
  <2>1. Card \ Cards \in SUBSET Card
    OBVIOUS
  <2>2. c \in Card \ Cards
    BY <1>2, <2>1, LeastCard
  <2>. QED BY <2>2, TaskOrderAssumption DEF TaskOrderAssumption
<1> HIDE DEF c
<1>5. \A i \in DOMAIN s : at[i] \in Nat
  <2> SUFFICES ASSUME NEW i \in DOMAIN s PROVE cards[s[i]].place + 1 \in Nat
    OBVIOUS
  <2>1. s[i] \in Cards
    BY <1>3
  <2>2. cards[s[i]] \in CardRow
    BY <2>1, RequestOf
  <2>. QED BY <2>2 DEF CardRow
<1>6. /\ g \in CardRows /\ \A d \in DOMAIN g : g[d].parent \in Cards \cup {0}
      /\ DOMAIN g \subseteq r.locked \cup {c}
  <2> HIDE DEF at
  <2> DEFINE f == CardAt(m, c, 0)
             h == Placed(s, at)
  <2>1. Writes(h, r.locked)
    BY <1>3, <1>5, PlacedWrites
  <2>2. Writes(f, {c})
    BY <1>3, <1>4, CardAtWrites
  <2> HIDE DEF f, h
  <2>3. Writes(Merged(f, h), {c} \cup r.locked)
    BY <2>1, <2>2, MergedWrites
  <2>4. g = Merged(f, h)
    BY DEF f, h
  <2> HIDE DEF g
  <2>. QED BY <2>3, <2>4 DEF Writes
<1> HIDE DEF g
<1>7. /\ new \in RequestType /\ new.kind = r.kind /\ new.step = "commit"
      /\ new.card = c /\ new.to = r.to /\ new.locked = r.locked /\ new.todo = r.todo
      /\ new.list = r.list /\ new.draft = g
  BY <1>1, <1>4, <1>6 DEF RequestType, Steps
<1>8. HasStepOfKind(new)
  BY <1>3, <1>7 DEF HasStepOfKind
<1> HIDE DEF new
<1>9. RequestInv(new)
  BY <1>1, <1>2, <1>3, <1>4, <1>6, <1>7, <1>8
     DEF RequestInv, RequestOK, WritesLocked, GoesByRules
<1>. QED BY <1>2, <1>7, <1>9, GoesOn

----------------------------------------------------------------------------
(* The end of a request, and the rules. *)

LEMMA KeepsFinish ==
    ASSUME OrderInv, NEW m \in Mover, Finish(m)
    PROVE  OrderInv' /\ mover[m].draft \in CardRows
           /\ \A d \in DOMAIN mover[m].draft : cards'[d] = mover[m].draft[d]
<1> DEFINE r == mover[m]
           g == r.draft
<1>1. r \in RequestType /\ RequestInv(r)
  BY RequestOf
<1>2. r.step = "commit" /\ cards' = Merged(g, cards) /\ mover' = [mover EXCEPT ![m] = Rests]
      /\ rules' = rules
  BY DEF Finish
<1>3. /\ g \in CardRows /\ \A d \in DOMAIN g : g[d].parent \in Cards \cup {0}
      /\ \A d \in DOMAIN g : d \in r.locked \/ (r.kind = "create" /\ d = r.card)
      /\ r.kind = "create" => r.card \notin Cards
  BY <1>1, <1>2 DEF RequestType, RequestInv, RequestOK, WritesLocked
<1>4. OrderTypeOK
  BY DEF OrderInv
<1>5. cards \in CardRows /\ DOMAIN cards = Cards
  BY <1>4 DEF OrderTypeOK, CardRows, Cards
<1>6. /\ cards' \in [DOMAIN g \cup Cards -> CardRow] /\ cards' \in CardRows
      /\ Cards' = DOMAIN g \cup Cards
      /\ \A d \in DOMAIN g : cards'[d] = g[d]
      /\ \A d \in Cards \ DOMAIN g : cards'[d] = cards[d]
  <2> DEFINE h == Merged(g, cards)
  <2>1. /\ h \in [DOMAIN g \cup DOMAIN cards -> CardRow] /\ h \in CardRows
        /\ DOMAIN h = DOMAIN g \cup DOMAIN cards
        /\ \A d \in DOMAIN g : h[d] = g[d]
        /\ \A d \in DOMAIN cards \ DOMAIN g : h[d] = cards[d]
    BY <1>3, <1>5, MergedRows
  <2>2. cards' = h
    BY <1>2
  <2> HIDE DEF h
  <2>3. DOMAIN cards' = DOMAIN g \cup Cards
    BY <1>5, <2>1, <2>2
  <2>. QED BY <1>5, <2>1, <2>2, <2>3 DEF Cards
<1>7. OrderTypeOK'
  <2>1. Cards' \subseteq Card
    BY <1>6, <1>3, <1>5 DEF CardRows
  <2>2. \A c \in Cards' : cards'[c].parent \in Cards' \cup {0}
    BY <1>3, <1>4, <1>6 DEF OrderTypeOK
  <2>3. cards' \in [Cards' -> CardRow]
    BY <1>6
  <2>4. mover' \in [Mover -> RequestType]
    BY <1>2, <1>4, RestsTyped DEF OrderTypeOK
  <2>5. rules' \in [Lane -> RuleRow]
    BY <1>2, <1>4 DEF OrderTypeOK
  <2>. QED BY <2>1, <2>2, <2>3, <2>4, <2>5 DEF OrderTypeOK
<1>8. mover'[m] = Rests /\ \A o \in Mover : o # m => mover'[o] = mover[o]
  BY <1>2, <1>4 DEF OrderTypeOK
<1>9. ASSUME NEW o \in Mover, o # m PROVE RequestInv(mover[o])'
  <2> DEFINE q == mover[o]
  <2>1. q \in RequestType /\ RequestInv(q) /\ q.locked \cap r.locked = {}
        /\ (r.kind = "create" => q.kind # "create")
    BY <1>9, RequestOf
  <2>2. q.locked \subseteq Cards
    BY <2>1 DEF RequestInv, RequestOK
  <2>3. \A d \in q.locked : cards'[d] = cards[d]
    BY <1>3, <1>6, <2>1, <2>2
  <2>4. Cards \subseteq Cards'
    BY <1>6
  <2>5. q.todo \in Seq(Cards')
    BY <2>1, <2>4, WiderSeq DEF RequestInv, RequestOK
  <2>6. q.kind = "create" /\ q.step = "commit" => q.card \notin Cards'
    <3> SUFFICES ASSUME q.kind = "create", q.step = "commit" PROVE q.card \notin Cards'
      OBVIOUS
    <3>1. q.card \notin Cards
      BY <2>1 DEF RequestInv, WritesLocked
    <3>2. DOMAIN g \subseteq Cards
      BY <1>1, <1>3, <2>1 DEF RequestInv, RequestOK
    <3>. QED BY <1>6, <3>1, <3>2
  <2>7. q.kind \in {"move", "detach"} => cards'[q.card] = cards[q.card]
    BY <2>1, <2>3 DEF RequestInv, WritesLocked
  <2>8. mover'[o] = q
    BY <1>8, <1>9
  <2>9. RequestOK(mover[o])'
    BY <2>1, <2>2, <2>4, <2>5, <2>7, <2>8 DEF RequestInv, RequestOK, HasStepOfKind
  <2>10. WritesLocked(mover[o])'
    BY <2>1, <2>6, <2>8 DEF RequestInv, WritesLocked
  <2>11. GoesByRules(mover[o])'
    BY <1>2, <2>1, <2>7, <2>8 DEF RequestInv, GoesByRules
  <2>. QED BY <2>9, <2>10, <2>11 DEF RequestInv
<1>10. RequestInv(mover[m])'
  <2>1. /\ mover'[m].kind = "none" /\ mover'[m].step = "free" /\ mover'[m].locked = {}
        /\ mover'[m].todo = <<>> /\ mover'[m].list = <<>> /\ DOMAIN mover'[m].draft = {}
    BY <1>8, RestsTyped
  <2>2. <<>> \in Seq(Cards') /\ <<>> \in Seq({})
    OBVIOUS
  <2>. QED BY <2>1, <2>2 DEF RequestInv, RequestOK, WritesLocked, GoesByRules, HasStepOfKind
<1>11. \A o, n \in Mover : o # n =>
          /\ mover'[o].locked \cap mover'[n].locked = {}
          /\ ~ (mover'[o].kind = "create" /\ mover'[n].kind = "create")
  <2>1. \A o, n \in Mover : o # n =>
          /\ mover[o].locked \cap mover[n].locked = {}
          /\ ~ (mover[o].kind = "create" /\ mover[n].kind = "create")
    BY DEF OrderInv
  <2>. QED BY <1>8, <2>1, RestsTyped
<1>12. OrderInv'
  BY <1>7, <1>9, <1>10, <1>11 DEF OrderInv
<1>. QED BY <1>3, <1>6, <1>12

LEMMA KeepsRollsBack ==
    ASSUME OrderInv, NEW m \in Mover, RollsBack(m)
    PROVE  OrderInv'
<1>1. mover' = [mover EXCEPT ![m] = Rests] /\ UNCHANGED <<cards, rules>>
  BY DEF RollsBack, Going
<1>2. \A o \in Mover \ {m} : /\ Rests.locked \cap mover[o].locked = {}
                             /\ Rests.kind = "create" => mover[o].kind # "create"
  BY RestsTyped
<1>. QED BY <1>1, <1>2, RestsTyped, RestsInv, RequestGoesOn

LEMMA KeepsUpdateRule ==
    ASSUME OrderInv, NEW l \in Lane, UpdateRule(l)
    PROVE  OrderInv'
<1>1. PICK new \in RuleRow : rules' = [rules EXCEPT ![l] = new]
  BY DEF UpdateRule
<1>2. UNCHANGED <<cards, mover>> /\ \A m \in Mover : l \notin mover[m].shares
  BY DEF UpdateRule
<1>3. OrderTypeOK /\ rules \in [Lane -> RuleRow]
  BY DEF OrderInv, OrderTypeOK
<1>4. rules' \in [Lane -> RuleRow] /\ \A k \in Lane \ {l} : rules'[k] = rules[k]
  BY <1>1, <1>3
<1>5. OrderTypeOK'
  BY <1>2, <1>3, <1>4 DEF OrderTypeOK, Cards
<1>6. ASSUME NEW m \in Mover PROVE RequestInv(mover[m])'
  <2> DEFINE r == mover[m]
  <2>1. r \in RequestType /\ RequestInv(r) /\ r.shares \subseteq Lane
    BY RequestOf DEF RequestType
  <2>2. \A k \in r.shares : rules'[k] = rules[k]
    BY <1>2, <1>4, <2>1
  <2>3. RequestOK(mover[m])' /\ WritesLocked(mover[m])'
    BY <1>2, <2>1 DEF RequestInv, RequestOK, WritesLocked, HasStepOfKind, Cards
  <2>4. GoesByRules(mover[m])'
    BY <1>2, <2>1, <2>2 DEF RequestInv, GoesByRules
  <2>. QED BY <2>3, <2>4 DEF RequestInv
<1>7. \A o, n \in Mover : o # n =>
          /\ mover'[o].locked \cap mover'[n].locked = {}
          /\ ~ (mover'[o].kind = "create" /\ mover'[n].kind = "create")
  BY <1>2 DEF OrderInv
<1>. QED BY <1>5, <1>6, <1>7 DEF OrderInv

LEMMA OrderStep ==
    OrderInv /\ [OrderNext]_orderVars => OrderInv'
<1> SUFFICES ASSUME OrderInv, [OrderNext]_orderVars PROVE OrderInv'
  OBVIOUS
<1>1. CASE UNCHANGED orderVars
  BY <1>1 DEF orderVars, OrderInv, OrderTypeOK, RequestInv, RequestOK, WritesLocked, GoesByRules,
              HasStepOfKind, Cards
<1>2. CASE \E l \in Lane : UpdateRule(l)
  BY <1>2, KeepsUpdateRule
<1>3. ASSUME NEW m \in Mover,
             CreateCard(m) \/ MoveCard(m) \/ AttachCard(m) \/ DetachCard(m) \/ DeleteCard(m)
                \/ RestoreCard(m)
      PROVE  OrderInv'
  BY <1>3, RequestsBegin
<1>4. ASSUME NEW m \in Mover,
             \/ FindChild(m) \/ LockNewParent(m) \/ LockOldParent(m)
             \/ ReadParentOfRestored(m) \/ LockHierarchy(m) \/ MarkHierarchy(m)
      PROVE  OrderInv'
  BY <1>4, KeepsFindChild, KeepsLockNewParent, KeepsLockOldParent, KeepsHierarchy
<1>5. ASSUME NEW m \in Mover,
             \/ ShareTarget(m) \/ ShareSource(m) \/ ScanList(m) \/ LockListed(m)
             \/ CloseGap(m) \/ PutCard(m) \/ InsertCard(m) \/ Finish(m) \/ RollsBack(m)
      PROVE  OrderInv'
  BY <1>5, KeepsShareTarget, KeepsShareSource, KeepsScanList, KeepsLockListed, KeepsCloseGap,
     KeepsPutCard, KeepsInsertCard, KeepsFinish, KeepsRollsBack
<1>. QED BY <1>1, <1>2, <1>3, <1>4, <1>5 DEF OrderNext

\* However the requests that place tasks interleave, what a request is about to write it keeps
\* locked, what others commit does not touch it, and the rules of the columns it goes by are
\* shared until it ends.
THEOREM OrderInvariant == OrderSpec => []OrderInv
BY OrderInitially, OrderStep, PTL DEF OrderSpec

\* Only the end of a request changes tasks.
LEMMA OnlyFinishCommits ==
    ASSUME OrderInv, [OrderNext]_orderVars, NEW m \in Mover, Commits(m)
    PROVE  Finish(m)
<1>1. cards' # cards /\ mover[m].step = "commit" /\ mover'[m].step = "free"
  BY DEF Commits
<1>2. PICK o \in Mover : Finish(o)
  <2>1. (\E l \in Lane : UpdateRule(l)) => cards' = cards
    BY DEF UpdateRule
  <2>2. \A o \in Mover :
           CreateCard(o) \/ MoveCard(o) \/ AttachCard(o) \/ DetachCard(o) \/ DeleteCard(o)
              \/ RestoreCard(o) => cards' = cards
    BY DEF CreateCard, MoveCard, AttachCard, DetachCard, DeleteCard, RestoreCard, Begins,
           BeginsWith
  <2>3. \A o \in Mover :
           FindChild(o) \/ LockNewParent(o) \/ LockOldParent(o) \/ ReadParentOfRestored(o)
              \/ LockHierarchy(o) \/ MarkHierarchy(o) => cards' = cards
    BY DEF FindChild, LockNewParent, LockOldParent, ReadParentOfRestored, LockHierarchy,
           MarkHierarchy, Going
  <2>4. \A o \in Mover : ShareTarget(o) => cards' = cards
    BY DEF ShareTarget, Going
  <2>5. \A o \in Mover : ShareSource(o) \/ ScanList(o) \/ LockListed(o) => cards' = cards
    BY DEF ShareSource, ScanList, LockListed, Going
  <2>6. \A o \in Mover : CloseGap(o) \/ PutCard(o) \/ InsertCard(o) \/ RollsBack(o)
           => cards' = cards
    BY DEF CloseGap, PutCard, InsertCard, RollsBack, Going
  <2>. QED BY <1>1, <2>1, <2>2, <2>3, <2>4, <2>5, <2>6 DEF OrderNext, orderVars
<1>3. CASE o # m
  <2>1. mover' = [mover EXCEPT ![o] = Rests] /\ mover \in [Mover -> RequestType]
    BY <1>2 DEF Finish, OrderInv, OrderTypeOK
  <2>2. mover'[m] = mover[m]
    BY <1>3, <2>1
  <2>. QED BY <1>1, <2>2
<1>. QED BY <1>2, <1>3

\* RulesHold, for every number of requests, tasks and columns: the creator and archive rules
\* that a move or a detachment was checked against are those in force when it commits.
THEOREM TransfersObeyRules == OrderSpec => RulesHold
<1>1. ASSUME OrderInv, [OrderNext]_orderVars
      PROVE  [\A m \in Mover : Commits(m) /\ mover[m].kind \in {"move", "detach"} =>
          LET r == mover[m]
          IN  cards'[r.card].lane # cards[r.card].lane =>
                 /\ rules[cards[r.card].lane].creatorsOnly => r.role = "controller"
                 /\ rules[r.to].archive => r.role # "other"
      ]_orderVars
  <2> SUFFICES ASSUME NEW m \in Mover, Commits(m), mover[m].kind \in {"move", "detach"},
                      cards'[mover[m].card].lane # cards[mover[m].card].lane
               PROVE  /\ rules[cards[mover[m].card].lane].creatorsOnly =>
                            mover[m].role = "controller"
                      /\ rules[mover[m].to].archive => mover[m].role # "other"
    OBVIOUS
  <2>1. Finish(m)
    BY <1>1, OnlyFinishCommits
  <2>2. \A d \in DOMAIN mover[m].draft : cards'[d] = mover[m].draft[d]
    BY <1>1, <2>1, KeepsFinish
  <2>3. RequestInv(mover[m]) /\ mover[m].step = "commit"
    BY <1>1, <2>1, RequestOf DEF Finish
  <2>. QED BY <2>2, <2>3 DEF RequestInv, GoesByRules
<1>. QED BY <1>1, OrderInvariant, PTL DEF OrderSpec, RulesHold

----------------------------------------------------------------------------
(* HulyImport. *)

\* No element twice.
Once(s) == \A m, n \in DOMAIN s : s[m] = s[n] => m = n

LEMMA RankedIsSorted ==
    ASSUME NEW S \in SUBSET Nat, IsFiniteSet(S)
    PROVE  /\ Ranked(S) \in Seq(S) /\ Range(Ranked(S)) = S /\ Once(Ranked(S))
           /\ Len(Ranked(S)) = Cardinality(S)
<1> DEFINE R == {p \in Nat \X Nat : p[1] < p[2]}
<1>1. \A x, y \in S : <<x, y>> \in R <=> x < y
  OBVIOUS
<1>2. TotallyOrders(R, S)
  <2> HIDE DEF R
  <2>. QED BY <1>1 DEF TotallyOrders
<1>3. PICK s : Sorts(s, R, S)
  BY <1>2, SortedSequence
<1>4. s \in SetToSeqs(S) /\ \A i, j \in DOMAIN s : i < j => s[i] < s[j]
  <2>1. \A i \in DOMAIN s : s[i] \in S
    BY <1>3 DEF Sorts, SetToSeqs
  <2>. HIDE DEF R
  <2>. QED BY <1>1, <1>3, <2>1 DEF Sorts
<1>5. Ranked(S) \in SetToSeqs(S)
  BY <1>4 DEF Ranked
<1>. QED BY <1>5, SequenceOfSet DEF Once

LEMMA ReverseOnce ==
    ASSUME NEW S, NEW s \in Seq(S), Once(s)
    PROVE  Reverse(s) \in Seq(S) /\ Range(Reverse(s)) = Range(s) /\ Once(Reverse(s))
<1> DEFINE r == Reverse(s)  n == Len(s)
<1>1. n \in Nat /\ DOMAIN s = 1 .. n /\ \A k \in 1 .. n : s[k] \in S /\ n - k + 1 \in 1 .. n
  OBVIOUS
<1>2. DOMAIN r = 1 .. n /\ \A k \in 1 .. n : r[k] = s[n - k + 1]
  BY DEF Reverse
<1>3. r \in Seq(S)
  BY <1>1 DEF Reverse
<1> HIDE DEF r, n
<1>4. \A k \in 1 .. n : s[k] = r[n - k + 1]
  <2> SUFFICES ASSUME NEW k \in 1 .. n PROVE s[k] = r[n - k + 1]
    OBVIOUS
  <2>1. n - k + 1 \in 1 .. n /\ n - (n - k + 1) + 1 = k
    BY <1>1
  <2>. QED BY <1>2, <2>1
<1>5. Range(r) = Range(s)
  BY <1>1, <1>2, <1>4 DEF Range
<1>6. Once(r)
  <2> SUFFICES ASSUME NEW a \in 1 .. n, NEW b \in 1 .. n, r[a] = r[b] PROVE a = b
    BY <1>2 DEF Once
  <2>1. n - a + 1 = n - b + 1
    BY <1>1, <1>2 DEF Once
  <2>. QED BY <1>1, <2>1
<1>. QED BY <1>3, <1>5, <1>6 DEF r

LEMMA TailOnce ==
    ASSUME NEW S, NEW s \in Seq(S), Once(s), s # <<>>
    PROVE  /\ Head(s) \in Range(s) /\ Head(s) \in S
           /\ Tail(s) \in Seq(S) /\ Range(Tail(s)) = Range(s) \ {Head(s)} /\ Once(Tail(s))
<1>1. /\ Len(s) \in Nat \ {0} /\ DOMAIN s = 1 .. Len(s) /\ Head(s) = s[1]
      /\ DOMAIN Tail(s) = 1 .. Len(s) - 1 /\ Tail(s) \in Seq(S)
      /\ \A k \in 1 .. Len(s) - 1 : Tail(s)[k] = s[k + 1] /\ k + 1 \in DOMAIN s /\ k + 1 # 1
  OBVIOUS
<1>2. \A k \in DOMAIN s : k # 1 => k - 1 \in DOMAIN Tail(s) /\ Tail(s)[k - 1] = s[k]
  OBVIOUS
<1>3. \A k \in DOMAIN s : s[k] = s[1] => k = 1
  BY <1>1 DEF Once
<1>4. Range(Tail(s)) = Range(s) \ {Head(s)}
  BY <1>1, <1>2, <1>3 DEF Range
<1>5. Once(Tail(s))
  <2> SUFFICES ASSUME NEW a \in DOMAIN Tail(s), NEW b \in DOMAIN Tail(s), Tail(s)[a] = Tail(s)[b]
               PROVE a = b
    BY DEF Once
  <2>1. a + 1 = b + 1
    BY <1>1 DEF Once
  <2>. QED BY <1>1, <2>1
<1>6. Head(s) \in Range(s) /\ Head(s) \in S
  BY <1>1 DEF Range
<1>. QED BY <1>1, <1>4, <1>5, <1>6

LEMMA RemoveAtOnce ==
    ASSUME NEW S, NEW s \in Seq(S), Once(s), NEW n \in DOMAIN s
    PROVE  /\ RemoveAt(s, n) \in Seq(S) /\ Len(RemoveAt(s, n)) = Len(s) - 1
           /\ Range(RemoveAt(s, n)) = Range(s) \ {s[n]} /\ Once(RemoveAt(s, n))
           /\ \A k \in 1 .. Len(s) - 1 : RemoveAt(s, n)[k] = s[IF k < n THEN k ELSE k + 1]
<1> DEFINE r == RemoveAt(s, n)  at(k) == IF k < n THEN k ELSE k + 1
           p == SubSeq(s, 1, n - 1)  q == SubSeq(s, n + 1, Len(s))
<1>1. /\ Len(s) \in Nat /\ n \in Nat /\ n >= 1 /\ n <= Len(s) /\ DOMAIN s = 1 .. Len(s)
  OBVIOUS
<1>2. p \in Seq(S) /\ Len(p) = n - 1 /\ \A k \in 1 .. n - 1 : p[k] = s[k]
  BY <1>1
<1>3. /\ q \in Seq(S) /\ Len(q) = Len(s) - n
      /\ \A k \in 1 .. Len(s) - n : q[k] = s[n + k]
  BY <1>1
<1>0. r = p \o q
  BY DEF RemoveAt
<1> HIDE DEF p, q, r
<1>4. /\ r \in Seq(S) /\ Len(r) = Len(s) - 1
      /\ \A k \in 1 .. n - 1 : r[k] = p[k]
      /\ \A k \in 1 .. Len(s) - n : r[n - 1 + k] = q[k]
  <2>1. /\ r \in Seq(S) /\ Len(r) = Len(p) + Len(q)
        /\ \A k \in 1 .. Len(p) : r[k] = p[k]
        /\ \A k \in 1 .. Len(q) : r[Len(p) + k] = q[k]
    <3>1. p \in Seq(S) /\ q \in Seq(S)
      BY <1>2, <1>3
    <3>2. p \o q \in Seq(S) /\ Len(p \o q) = Len(p) + Len(q)
      BY <3>1
    <3>3. /\ \A k \in 1 .. Len(p) : (p \o q)[k] = p[k]
          /\ \A k \in 1 .. Len(q) : (p \o q)[Len(p) + k] = q[k]
      BY <3>1, OneAfterTheOther
    <3>. QED BY <1>0, <3>2, <3>3
  <2>. QED BY <1>1, <1>2, <1>3, <2>1
<1>5. \A k \in 1 .. Len(s) - 1 : r[k] = s[at(k)]
  <2> SUFFICES ASSUME NEW k \in 1 .. Len(s) - 1 PROVE r[k] = s[at(k)]
    OBVIOUS
  <2>1. CASE k < n
    BY <1>1, <1>2, <1>4, <2>1
  <2>2. CASE ~ (k < n)
    <3>1. /\ k - (n - 1) \in 1 .. Len(s) - n /\ n + (k - (n - 1)) = k + 1
          /\ n - 1 + (k - (n - 1)) = k
      BY <1>1, <2>2
    <3>2. r[k] = q[k - (n - 1)]
      BY <1>4, <3>1
    <3>. QED BY <1>3, <2>2, <3>1, <3>2
  <2>. QED BY <2>1, <2>2
<1>6. DOMAIN r = 1 .. Len(s) - 1
  BY <1>4
<1>7. \A k \in 1 .. Len(s) - 1 : at(k) \in 1 .. Len(s) /\ at(k) # n
  BY <1>1
<1>8. \A k \in 1 .. Len(s) : k # n => \E m \in 1 .. Len(s) - 1 : at(m) = k
  <2> SUFFICES ASSUME NEW k \in 1 .. Len(s), k # n PROVE \E m \in 1 .. Len(s) - 1 : at(m) = k
    OBVIOUS
  <2>1. CASE k < n
    BY <1>1, <2>1
  <2>2. CASE ~ (k < n)
    <3>1. k - 1 \in 1 .. Len(s) - 1 /\ at(k - 1) = k
      BY <1>1, <2>2
    <3>. QED BY <3>1
  <2>. QED BY <2>1, <2>2
<1>9. \A a, b \in 1 .. Len(s) - 1 : at(a) = at(b) => a = b
  BY <1>1
<1> HIDE DEF at
<1>10. \A k \in DOMAIN s : s[k] = s[n] => k = n
  BY DEF Once
<1>11. Range(r) = Range(s) \ {s[n]}
  BY <1>1, <1>5, <1>6, <1>7, <1>8, <1>10 DEF Range
<1>12. Once(r)
  <2> SUFFICES ASSUME NEW a \in 1 .. Len(s) - 1, NEW b \in 1 .. Len(s) - 1, r[a] = r[b]
               PROVE a = b
    BY <1>6 DEF Once
  <2>1. at(a) = at(b)
    BY <1>1, <1>5, <1>7 DEF Once
  <2>. QED BY <1>9, <2>1
<1>. QED BY <1>4, <1>5, <1>11, <1>12 DEF r, at

LEMMA OneMore ==
    ASSUME NEW S, NEW s \in Seq(S), Once(s), NEW x \in S, x \notin Range(s)
    PROVE  /\ s \o <<x>> \in Seq(S) /\ Range(s \o <<x>>) = Range(s) \cup {x}
           /\ Once(s \o <<x>>)
<1> DEFINE r == s \o <<x>>
<1>1. /\ r \in Seq(S) /\ DOMAIN r = 1 .. Len(s) + 1 /\ DOMAIN s = 1 .. Len(s) /\ Len(s) \in Nat
      /\ r[Len(s) + 1] = x /\ \A k \in 1 .. Len(s) : r[k] = s[k]
  OBVIOUS
<1> HIDE DEF r
<1>2. Range(r) = Range(s) \cup {x}
  BY <1>1 DEF Range
<1>3. Once(r)
  <2> SUFFICES ASSUME NEW a \in DOMAIN r, NEW b \in DOMAIN r, r[a] = r[b] PROVE a = b
    BY DEF Once
  <2>1. \A k \in 1 .. Len(s) : r[k] # x
    BY <1>1 DEF Range
  <2>. QED BY <1>1, <2>1 DEF Once
<1>. QED BY <1>1, <1>2, <1>3 DEF r

LEMMA MentionsOnce ==
    ASSUME NEW s, Once(s), NEW i
    PROVE  Mentions(s, i) = IF i \in Range(s) THEN 1 ELSE 0
<1> DEFINE at == {k \in DOMAIN s : s[k] = i}
<1>1. CASE i \in Range(s)
  <2>1. PICK k \in DOMAIN s : s[k] = i
    BY <1>1 DEF Range
  <2>2. at = {k}
    BY <2>1 DEF Once
  <2>. QED BY <1>1, <2>2, FS_Singleton DEF Mentions
<1>2. CASE i \notin Range(s)
  <2>1. at = {}
    BY <1>2 DEF Range
  <2>. QED BY <1>2, <2>1, FS_EmptySet DEF Mentions
<1>. QED BY <1>1, <1>2

TaskRow == [number : Nat, column : Nat, parent : Nat, issue : Nat, live : BOOLEAN]
ImportStep == {"idle", "columns", "failed", "roots", "reserve", "insert", "pass", "done"}
ImportState ==
    [step : ImportStep, dry : BOOLEAN, columns : Seq(Nat), status : Nat, todo : Seq(Issue),
     rows : [Issue -> SUBSET Nat], issue : Nat, parent : Nat, column : Nat, number : Nat,
     at : Nat, progress : BOOLEAN, errors : Seq(Issue), skipped : Seq(Issue)]

HulyTypeOK ==
    /\ import \in ImportState /\ taskRows \in Seq(TaskRow)
    /\ columnRows \in Seq(Nat) /\ counterRow \in [lock : {"none", "import"}, count : Nat]

\* The script has not come to the tasks, is at the roots, or at the subtasks.
Preparing(k) == k.step \in {"idle", "columns", "failed"}
Inserts(k) == k.step \in {"reserve", "insert"}
AtRoots(k) == k.step = "roots" \/ (Inserts(k) /\ k.parent = 0)
AtSubtasks(k) == k.step \in {"pass", "done"} \/ (Inserts(k) /\ k.parent # 0)

\* The issues still to come.
Later(k) == {i \in Issue : Above[i] # 0 \/ StatusOf[i] > k.status}
Pending(k) ==
    IF Preparing(k) THEN Issue
    ELSE IF AtRoots(k) THEN Range(k.todo) \cup Later(k)
    ELSE Range(k.todo)

\* Of the issues P is still to come; each other one was reported, or has one row.
Accounted(P, errors, rows) ==
    /\ Once(errors)
    /\ \A i \in Issue :
          /\ i \in P \/ i \in Range(errors) \/ rows[i] # {}
          /\ i \in P => i \notin Range(errors) /\ rows[i] = {}
          /\ i \in Range(errors) => rows[i] = {}
          /\ \A s, t \in rows[i] : s = t

\* What is to do at the roots of one status, and at the subtasks.
Todo(k) ==
    /\ Once(k.todo)
    /\ AtRoots(k) => /\ k.status \in 1 .. Statuses
                     /\ \A i \in Range(k.todo) : Above[i] = 0 /\ StatusOf[i] = k.status
    /\ AtSubtasks(k) => /\ \A i \in Range(k.todo) : Above[i] # 0
                        /\ k.at <= Len(k.todo)
    /\ ~ Preparing(k) => Len(k.columns) = Statuses
    /\ k.step = "done" => k.skipped = k.todo

HasParent(k, i) == Above[i] \in Issue /\ k.rows[Above[i]] # {}

\* A transaction is about an issue still to come, and the row of its parent.
Transacts(k) ==
    Inserts(k) =>
        /\ ~ k.dry /\ k.todo # <<>>
        /\ k.parent = 0 => k.issue = Head(k.todo)
        /\ k.parent # 0 => /\ k.at \in DOMAIN k.todo /\ k.issue = k.todo[k.at]
                           /\ Above[k.issue] \in Issue /\ k.parent \in k.rows[Above[k.issue]]

\* In a dry run nothing fails, an issue is counted after its parent, and a pass without
\* progress has found no parent behind it.
DryCounts(k) ==
    k.dry =>
        /\ k.errors = <<>>
        /\ \A i \in Issue : k.rows[i] \subseteq {0}
        /\ \A i \in Issue : k.rows[i] # {} /\ Above[i] # 0 => HasParent(k, i)
        /\ k.step = "pass" /\ ~ k.progress =>
              \A n \in DOMAIN k.todo : n > k.at => ~ HasParent(k, k.todo[n])
        /\ k.step = "done" => \A i \in Range(k.todo) : ~ HasParent(k, i)

\* What the script remembers are the rows of the board.
RowsMatch(k) ==
    \A i \in Issue : RowsOf(i) = IF k.dry THEN {} ELSE k.rows[i]

UnderParents ==
    \A i \in Issue : \A t \in RowsOf(i) :
        IF Above[i] = 0 THEN taskRows[t].parent = 0
        ELSE Above[i] \in Issue /\ taskRows[t].parent \in RowsOf(Above[i])

\* Numbers are given behind the lock.
Numbered ==
    /\ \A s, t \in TaskIds : s # t => taskRows[s].number # taskRows[t].number
    /\ import.step = "insert" =>
          counterRow.lock = "import" /\ \A t \in TaskIds : taskRows[t].number < import.number

HulyInv ==
    /\ HulyTypeOK /\ Todo(import) /\ Accounted(Pending(import), import.errors, import.rows)
    /\ Transacts(import) /\ DryCounts(import)
    /\ RowsMatch(import) /\ UnderParents /\ Numbered

LEMMA HulyFacts ==
    /\ 0 \notin Issue /\ Issue \subseteq Nat /\ IsFiniteSet(Issue)
    /\ \A i \in Issue : StatusOf[i] \in 1 .. Statuses
    /\ Statuses \in Nat \ {0} /\ FirstColumns \in Nat
BY HulyImportAssumption DEF HulyImportAssumption

\* The roots of a status, and the subtasks, each once.
LEMMA RootsOnce ==
    ASSUME NEW status \in Nat
    PROVE  /\ Reverse(Roots(status)) \in Seq(Issue) /\ Once(Reverse(Roots(status)))
           /\ Range(Reverse(Roots(status))) = {i \in Issue : StatusOf[i] = status /\ Above[i] = 0}
<1> DEFINE S == {i \in Issue : StatusOf[i] = status /\ Above[i] = 0}
<1>1. S \subseteq Issue /\ S \in SUBSET Nat
  BY HulyFacts
<1>2. IsFiniteSet(S)
  BY <1>1, HulyFacts, FS_Subset
<1>3. Roots(status) = Ranked(S)
  BY DEF Roots
<1>. HIDE DEF S
<1>4. Ranked(S) \in Seq(S) /\ Range(Ranked(S)) = S /\ Once(Ranked(S))
  BY <1>1, <1>2, RankedIsSorted
<1>5. Ranked(S) \in Seq(Issue)
  BY <1>1, <1>4, WiderSequence
<1>6. /\ Reverse(Ranked(S)) \in Seq(Issue) /\ Range(Reverse(Ranked(S))) = S
      /\ Once(Reverse(Ranked(S)))
  BY <1>4, <1>5, ReverseOnce
<1>7. S = {i \in Issue : StatusOf[i] = status /\ Above[i] = 0}
  BY DEF S
<1>. QED BY <1>3, <1>6, <1>7

LEMMA SubtasksOnce ==
    /\ Subtasks \in Seq(Issue) /\ Once(Subtasks)
    /\ Range(Subtasks) = {i \in Issue : Above[i] # 0}
<1> DEFINE S == {i \in Issue : Above[i] # 0}
<1>1. S \subseteq Issue /\ S \in SUBSET Nat
  BY HulyFacts
<1>2. IsFiniteSet(S)
  BY <1>1, HulyFacts, FS_Subset
<1>3. Subtasks = Ranked(S)
  BY DEF Subtasks
<1>. HIDE DEF S
<1>4. Ranked(S) \in Seq(S) /\ Range(Ranked(S)) = S /\ Once(Ranked(S))
  BY <1>1, <1>2, RankedIsSorted
<1>5. Ranked(S) \in Seq(Issue)
  BY <1>1, <1>4, WiderSequence
<1>7. S = {i \in Issue : Above[i] # 0}
  BY DEF S
<1>. QED BY <1>3, <1>4, <1>5, <1>7

\* An issue gets its row, or is reported.
LEMMA SettledByRow ==
    ASSUME NEW P, NEW e, NEW r \in [Issue -> SUBSET Nat], Accounted(P, e, r),
           NEW i \in Issue, i \in P, NEW t \in Nat
    PROVE  /\ Accounted(P \ {i}, e, [r EXCEPT ![i] = {t}])
           /\ [r EXCEPT ![i] = {t}] \in [Issue -> SUBSET Nat]
<1> DEFINE q == [r EXCEPT ![i] = {t}]
<1>1. q \in [Issue -> SUBSET Nat] /\ q[i] = {t} /\ \A j \in Issue : j # i => q[j] = r[j]
  OBVIOUS
<1>. HIDE DEF q
<1>2. Accounted(P \ {i}, e, q)
  BY <1>1 DEF Accounted
<1>. QED BY <1>1, <1>2 DEF q

LEMMA SettledByError ==
    ASSUME NEW P, NEW e \in Seq(Issue), NEW r \in [Issue -> SUBSET Nat], Accounted(P, e, r),
           NEW i \in Issue, i \in P
    PROVE  Accounted(P \ {i}, e \o <<i>>, r) /\ e \o <<i>> \in Seq(Issue)
<1>1. Once(e) /\ i \notin Range(e) /\ r[i] = {}
  BY DEF Accounted
<1>2. /\ e \o <<i>> \in Seq(Issue) /\ Range(e \o <<i>>) = Range(e) \cup {i}
      /\ Once(e \o <<i>>)
  BY <1>1, OneMore
<1>. HIDE DEF Once
<1>3. Accounted(P \ {i}, e \o <<i>>, r)
  BY <1>1, <1>2 DEF Accounted
<1>. QED BY <1>2, <1>3

\* The next number is greater than all.
LEMMA NextNumberIsNew ==
    ASSUME taskRows \in Seq(TaskRow), counterRow.count \in Nat
    PROVE  NextNumber \in Nat /\ \A t \in TaskIds : taskRows[t].number < NextNumber
<1> DEFINE f == [t \in TaskIds |-> taskRows[t].number]
           T == {taskRows[t].number : t \in TaskIds}
           used == {counterRow.count} \cup T
<1>1. /\ TaskIds = 1 .. Len(taskRows) /\ Len(taskRows) \in Nat
      /\ \A t \in TaskIds : taskRows[t].number \in Nat
  <2>1. TaskIds = 1 .. Len(taskRows) /\ Len(taskRows) \in Nat
    BY DEF TaskIds
  <2>2. \A t \in TaskIds : taskRows[t] \in TaskRow
    BY <2>1
  <2>. QED BY <2>1, <2>2 DEF TaskRow
<1>2. IsFiniteSet(T)
  <2>1. IsFiniteSet(TaskIds)
    BY <1>1, FS_Interval
  <2>2. f \in Surjection(TaskIds, T)
    BY DEF Surjection
  <2>. QED BY <2>1, <2>2, FS_Surjection
<1>3. T \subseteq Nat
  BY <1>1
<1>4. \A t \in TaskIds : taskRows[t].number \in used
  OBVIOUS
<1>5. NextNumber = (CHOOSE n \in used : \A k \in used : k <= n) + 1
  BY DEF NextNumber
<1>6. IsFiniteSet(used) /\ used \subseteq Nat /\ used # {}
  <2>. HIDE DEF T
  <2>1. used = T \cup {counterRow.count}
    OBVIOUS
  <2>2. IsFiniteSet(T \cup {counterRow.count})
    BY <1>2, FS_AddElement
  <2>. QED BY <2>1, <2>2, <1>3
<1>. HIDE DEF used
<1> DEFINE R == {p \in Nat \X Nat : p[1] > p[2]}
<1>7. \A x, y \in used : <<x, y>> \in R <=> x > y
  BY <1>6
<1>8. TotallyOrders(R, used)
  <2>. HIDE DEF R
  <2>. QED BY <1>6, <1>7 DEF TotallyOrders
<1>9. PICK x \in used : \A y \in used : y # x => <<x, y>> \in R
  <2>. HIDE DEF R
  <2>. QED BY <1>6, <1>8, LeastElement
<1>10. \A y \in used : y <= x
  <2> SUFFICES ASSUME NEW y \in used, y # x PROVE y <= x
    BY <1>6
  <2>1. <<x, y>> \in R
    BY <1>9
  <2>. HIDE DEF R
  <2>. QED BY <1>6, <1>7, <2>1
<1> DEFINE m == CHOOSE n \in used : \A k \in used : k <= n
<1>11. m \in used /\ \A k \in used : k <= m
  BY <1>10
<1>12. m \in Nat /\ NextNumber = m + 1
  BY <1>5, <1>6, <1>11
<1>. HIDE DEF m
<1>. QED BY <1>1, <1>4, <1>11, <1>12

\* A step of the script that leaves the tasks alone, and inserts none next.
LEMMA TasksAside ==
    ASSUME RowsMatch(import), UnderParents, Numbered, taskRows' = taskRows,
           import'.step # "insert",
           \/ import.dry /\ import'.dry
           \/ import.dry = import'.dry /\ import.rows = import'.rows
    PROVE  RowsMatch(import)' /\ UnderParents' /\ Numbered'
<1>1. TaskIds' = TaskIds /\ \A i : RowsOf(i)' = RowsOf(i)
  BY DEF TaskIds, RowsOf
<1>2. RowsMatch(import)'
  BY <1>1 DEF RowsMatch
<1>3. UnderParents'
  BY <1>1 DEF UnderParents
<1>4. Numbered'
  BY <1>1 DEF Numbered
<1>. QED BY <1>2, <1>3, <1>4

\* An import that has not come to the tasks has none.
LEMMA NothingYet ==
    ASSUME HulyInv, Preparing(import)
    PROVE  /\ \A i \in Issue : import.rows[i] = {} /\ RowsOf(i) = {} /\ i \notin Range(import.errors)
           /\ import.errors = <<>>
<1>1. \A i \in Issue : import.rows[i] = {} /\ i \notin Range(import.errors)
  BY DEF HulyInv, Accounted, Pending
<1>2. \A i \in Issue : RowsOf(i) = {}
  BY <1>1 DEF HulyInv, RowsMatch
<1>3. import.errors \in Seq(Issue)
  BY DEF HulyInv, HulyTypeOK, ImportState
<1>4. \A n \in DOMAIN import.errors : import.errors[n] \in Issue
  BY <1>3
<1>5. DOMAIN import.errors = {}
  BY <1>1, <1>4 DEF Range
<1>6. import.errors = <<>>
  <2>1. Len(import.errors) \in Nat /\ (Len(import.errors) # 0 => 1 \in DOMAIN import.errors)
    BY <1>3
  <2>. QED BY <1>3, <1>5, <2>1
<1>. QED BY <1>1, <1>2, <1>6

LEMMA StartImportKeeps ==
    ASSUME HulyInv, StartImport
    PROVE  HulyInv'
<1>1. PICK dry \in BOOLEAN : import' = [[import EXCEPT !.dry = dry] EXCEPT !.step = "columns"]
  BY DEF StartImport, ImportGoes
<1>2. import \in ImportState /\ import.step = "idle"
  BY DEF HulyInv, HulyTypeOK, StartImport, ImportIs
<1>3. /\ import' \in ImportState /\ import'.step = "columns" /\ import'.dry = dry
      /\ import'.rows = import.rows /\ import'.errors = import.errors /\ import'.todo = import.todo
  BY <1>1, <1>2 DEF ImportState, ImportStep
<1>4. UNCHANGED <<columnRows, taskRows, counterRow>>
  BY DEF StartImport
<1>5. Preparing(import) /\ ~ AtRoots(import') /\ ~ AtSubtasks(import') /\ ~ Inserts(import')
      /\ Preparing(import')
  BY <1>2, <1>3 DEF Preparing, AtRoots, AtSubtasks, Inserts
<1>6. /\ \A i \in Issue : import.rows[i] = {} /\ RowsOf(i) = {}
      /\ import.errors = <<>>
  BY <1>5, NothingYet
<1>7. HulyTypeOK'
  BY <1>3, <1>4 DEF HulyInv, HulyTypeOK
<1>8. Todo(import)'
  BY <1>3, <1>5 DEF HulyInv, Todo
<1>9. Accounted(Pending(import), import.errors, import.rows)'
  BY <1>3, <1>5, <1>6 DEF HulyInv, Accounted, Pending
<1>10. Transacts(import)'
  BY <1>5 DEF Transacts
<1>11. DryCounts(import)'
  BY <1>3, <1>6 DEF DryCounts
<1>12. TaskIds' = TaskIds /\ \A i : RowsOf(i)' = RowsOf(i)
  BY <1>4 DEF TaskIds, RowsOf
<1>13. RowsMatch(import)'
  BY <1>3, <1>6, <1>12 DEF RowsMatch
<1>14. UnderParents'
  BY <1>6, <1>12 DEF UnderParents
<1>15. Numbered'
  BY <1>3, <1>4, <1>12 DEF HulyInv, Numbered
<1>. QED BY <1>7, <1>8, <1>9, <1>10, <1>11, <1>13, <1>14, <1>15 DEF HulyInv

LEMMA CreateColumnKeeps ==
    ASSUME HulyInv, CreateColumn
    PROVE  HulyInv'
<1>1. PICK c \in Nat, step \in {"columns", "failed"} :
         /\ \/ import' = [[import EXCEPT !.columns = Append(@, c)] EXCEPT !.step = step]
            \/ import' = [import EXCEPT !.step = step]
         /\ columnRows' \in Seq(Nat)
  <2>1. import.columns \in Seq(Nat) /\ columnRows \in Seq(Nat)
    BY DEF HulyInv, HulyTypeOK, ImportState
  <2> DEFINE next == Len(import.columns) + 1
  <2>2. next \in Nat /\ next - 1 \in Nat /\ Len(columnRows) + 1 \in Nat
    BY <2>1
  <2>3. Append(columnRows, next - 1) \in Seq(Nat)
    BY <2>1, <2>2
  <2>4. CASE import' = [[import EXCEPT !.columns = Append(@, next)] EXCEPT !.step = "columns"]
             /\ columnRows' = columnRows
    BY <2>1, <2>2, <2>4
  <2>5. CASE /\ columnRows' = Append(columnRows, next - 1)
             /\ import' = [[import EXCEPT !.columns = Append(@, Len(columnRows) + 1)]
                             EXCEPT !.step = "columns"]
    BY <2>2, <2>3, <2>5
  <2>6. CASE import' = [import EXCEPT !.step = "failed"] /\ columnRows' = columnRows
    BY <2>1, <2>6
  <2>. QED BY <2>4, <2>5, <2>6 DEF CreateColumn, ImportGoes
<1>2. import \in ImportState /\ import.step = "columns" /\ import.columns \in Seq(Nat)
  BY DEF HulyInv, HulyTypeOK, CreateColumn, ImportIs, ImportState
<1>3. /\ import' \in ImportState /\ import'.step = step /\ import'.dry = import.dry
      /\ import'.rows = import.rows /\ import'.errors = import.errors
      /\ import'.todo = import.todo
  <2>1. Append(import.columns, c) \in Seq(Nat)
    BY <1>2
  <2>. QED BY <1>1, <1>2, <2>1 DEF ImportState, ImportStep
<1>4. UNCHANGED <<taskRows, counterRow>>
  BY DEF CreateColumn
<1>5. /\ Preparing(import) /\ Preparing(import')
      /\ ~ AtRoots(import') /\ ~ AtSubtasks(import') /\ ~ Inserts(import')
  BY <1>2, <1>3 DEF Preparing, AtRoots, AtSubtasks, Inserts
<1>6. (\A i \in Issue : import.rows[i] = {}) /\ import.errors = <<>>
  BY <1>5, NothingYet
<1>7. HulyTypeOK'
  BY <1>1, <1>3, <1>4 DEF HulyInv, HulyTypeOK
<1>8. Todo(import)'
  BY <1>3, <1>5 DEF HulyInv, Todo
<1>9. Accounted(Pending(import), import.errors, import.rows)'
  BY <1>3, <1>5 DEF HulyInv, Pending
<1>10. Transacts(import)'
  BY <1>5 DEF Transacts
<1>11. DryCounts(import)'
  BY <1>3, <1>6 DEF DryCounts
<1>12. RowsMatch(import)' /\ UnderParents' /\ Numbered'
  BY <1>3, <1>4, TasksAside DEF HulyInv
<1>. QED BY <1>7, <1>8, <1>9, <1>10, <1>11, <1>12 DEF HulyInv

\* The columns are there: the script goes on with roots, or stops.
LEMMA SaveColumnOrdersKeeps ==
    ASSUME HulyInv, SaveColumnOrders
    PROVE  HulyInv'
<1> DEFINE todo == Reverse(Roots(1))
<1>1. /\ columnRows' \in Seq(Nat)
      /\ \/ import' = [[import EXCEPT !.status = 1, !.todo = todo] EXCEPT !.step = "roots"]
         \/ import' = [import EXCEPT !.step = "failed"]
  <2> DEFINE rest == {c \in 1..FirstColumns : c > Len(import.columns)}
             all == import.columns \o Ranked(rest)
             place(saved, c) == CHOOSE n \in 1..saved : all[n] = c
             orders(saved) == [c \in DOMAIN columnRows |->
                                 IF \E n \in 1..saved : all[n] = c THEN place(saved, c) - 1
                                 ELSE columnRows[c]]
  <2>1. import.columns \in Seq(Nat) /\ columnRows \in Seq(Nat)
    BY DEF HulyInv, HulyTypeOK, ImportState
  <2>2. Ranked(rest) \in Seq(rest)
    <3>1. rest \in SUBSET Nat /\ rest \subseteq 1 .. FirstColumns
      BY HulyFacts
    <3>2. IsFiniteSet(rest)
      <4>1. IsFiniteSet(1 .. FirstColumns)
        BY HulyFacts, FS_Interval
      <4>. QED BY <3>1, <4>1, FS_Subset
    <3>. HIDE DEF rest
    <3>. QED BY <3>1, <3>2, RankedIsSorted
  <2>3. Len(all) \in Nat
    <3>1. Ranked(rest) \in Seq(Nat)
      BY <2>2, HulyFacts, WiderSequence
    <3>. HIDE DEF rest
    <3>. QED BY <2>1, <3>1
  <2>4. PICK saved \in IF import.dry THEN {0} ELSE 0..Len(all) :
          /\ columnRows' = orders(saved)
          /\ \/ import' = [[import EXCEPT !.status = 1, !.todo = todo] EXCEPT !.step = "roots"]
             \/ import' = [import EXCEPT !.step = "failed"]
    BY DEF SaveColumnOrders, ImportGoes
  <2>5. saved \in Nat
    <3>. HIDE DEF all
    <3>. QED BY <2>3, <2>4
  <2>6. orders(saved) \in Seq(Nat)
    <3>. HIDE DEF all
    <3>1. \A c : (\E n \in 1..saved : all[n] = c) => place(saved, c) \in 1..saved
      OBVIOUS
    <3>2. \A c : (\E n \in 1..saved : all[n] = c) => place(saved, c) - 1 \in Nat
      <4>. HIDE DEF place
      <4>. QED BY <2>5, <3>1
    <3>3. DOMAIN columnRows = 1 .. Len(columnRows) /\ Len(columnRows) \in Nat
          /\ \A c \in DOMAIN columnRows : columnRows[c] \in Nat
      BY <2>1
    <3>. HIDE DEF place
    <3>. QED BY <3>2, <3>3
  <2>. QED BY <2>4, <2>6
<1>2. /\ import \in ImportState /\ import.step = "columns" /\ Len(import.columns) = Statuses
  BY DEF HulyInv, HulyTypeOK, SaveColumnOrders, ImportIs
<1>3. /\ todo \in Seq(Issue) /\ Once(todo)
      /\ Range(todo) = {i \in Issue : StatusOf[i] = 1 /\ Above[i] = 0}
  BY RootsOnce
<1>. HIDE DEF todo
<1>4. /\ import' \in ImportState /\ import'.dry = import.dry
      /\ import'.rows = import.rows /\ import'.errors = import.errors
      /\ import'.columns = import.columns
      /\ \/ import'.step = "roots" /\ import'.status = 1 /\ import'.todo = todo
         \/ import'.step = "failed" /\ import'.todo = import.todo
  <2>1. CASE import' = [[import EXCEPT !.status = 1, !.todo = todo] EXCEPT !.step = "roots"]
    BY <1>2, <1>3, <2>1 DEF ImportState, ImportStep
  <2>2. CASE import' = [import EXCEPT !.step = "failed"]
    BY <1>2, <2>2 DEF ImportState, ImportStep
  <2>. QED BY <1>1, <2>1, <2>2
<1>5. UNCHANGED <<taskRows, counterRow>>
  BY DEF SaveColumnOrders
<1>6. Preparing(import) /\ ~ Inserts(import') /\ ~ AtSubtasks(import')
      /\ import'.step \notin {"pass", "done"}
  BY <1>2, <1>4 DEF Preparing, Inserts, AtSubtasks
<1>7. \/ import'.step = "roots" /\ ~ Preparing(import') /\ AtRoots(import')
      \/ import'.step = "failed" /\ Preparing(import') /\ ~ AtRoots(import')
  BY <1>4 DEF Preparing, AtRoots, Inserts
<1>8. (\A i \in Issue : import.rows[i] = {}) /\ import.errors = <<>>
  BY <1>6, NothingYet
<1>9. Pending(import') = Issue
  <2>1. CASE import'.step = "roots"
    <3>1. Pending(import') = Range(todo) \cup Later(import')
      BY <1>4, <1>7, <2>1 DEF Pending
    <3>2. Later(import') = {i \in Issue : Above[i] # 0 \/ StatusOf[i] > 1}
      BY <1>4, <2>1 DEF Later
    <3>3. \A i \in Issue : StatusOf[i] = 1 \/ StatusOf[i] > 1
      BY HulyFacts
    <3>. QED BY <1>3, <3>1, <3>2, <3>3
  <2>2. CASE import'.step = "failed"
    BY <1>7, <2>2 DEF Pending
  <2>. QED BY <1>4, <2>1, <2>2
<1>10. Pending(import) = Issue
  BY <1>6 DEF Pending
<1>11. HulyTypeOK'
  BY <1>1, <1>4, <1>5 DEF HulyInv, HulyTypeOK
<1>12. Todo(import)'
  BY <1>2, <1>3, <1>4, <1>6, <1>7, HulyFacts DEF HulyInv, Todo
<1>13. Accounted(Pending(import), import.errors, import.rows)'
  BY <1>4, <1>9, <1>10 DEF HulyInv
<1>14. Transacts(import)'
  BY <1>6 DEF Transacts
<1>15. DryCounts(import)'
  BY <1>4, <1>6, <1>8 DEF DryCounts
<1>16. RowsMatch(import)' /\ UnderParents' /\ Numbered'
  BY <1>4, <1>5, TasksAside DEF HulyInv
<1>. QED BY <1>11, <1>12, <1>13, <1>14, <1>15, <1>16 DEF HulyInv

\* The roots of the next status, or the subtasks: what is still to come stays the same.
LEMMA NextStatusKeeps ==
    ASSUME HulyInv, NextStatus
    PROVE  HulyInv'
<1> DEFINE todo == Reverse(Roots(import.status + 1))
<1>1. \/ /\ import.status < Statuses
         /\ import' = [[import EXCEPT !.status = @ + 1, !.todo = todo] EXCEPT !.step = "roots"]
      \/ /\ ~ import.status < Statuses
         /\ import' = [[import EXCEPT !.todo = Subtasks, !.at = Len(Subtasks),
                                      !.progress = FALSE] EXCEPT !.step = "pass"]
  BY DEF NextStatus, ImportGoes
<1>2. import \in ImportState /\ import.step = "roots" /\ import.todo = <<>>
  BY DEF HulyInv, HulyTypeOK, NextStatus, ImportIs
<1>3. /\ AtRoots(import) /\ ~ Preparing(import)
      /\ import.status \in 1 .. Statuses /\ import.status + 1 \in Nat
      /\ Len(import.columns) = Statuses
  BY <1>2, HulyFacts DEF HulyInv, Todo, AtRoots, Preparing
<1>4. /\ todo \in Seq(Issue) /\ Once(todo)
      /\ Range(todo) = {i \in Issue : StatusOf[i] = import.status + 1 /\ Above[i] = 0}
  BY <1>3, RootsOnce
<1>5. Subtasks \in Seq(Issue) /\ Len(Subtasks) \in Nat
  BY SubtasksOnce
<1>. HIDE DEF todo
<1>6. /\ import' \in ImportState /\ import'.dry = import.dry
      /\ import'.rows = import.rows /\ import'.errors = import.errors
      /\ import'.columns = import.columns
      /\ \/ /\ import.status < Statuses /\ import'.step = "roots"
            /\ import'.status = import.status + 1 /\ import'.todo = todo
         \/ /\ ~ import.status < Statuses /\ import'.step = "pass"
            /\ import'.todo = Subtasks /\ import'.at = Len(Subtasks)
  <2>1. CASE import.status < Statuses
    <3>1. import' = [[import EXCEPT !.status = @ + 1, !.todo = todo] EXCEPT !.step = "roots"]
      BY <1>1, <2>1
    <3>. QED BY <1>2, <1>3, <1>4, <2>1, <3>1 DEF ImportState, ImportStep
  <2>2. CASE ~ import.status < Statuses
    <3>1. import' = [[import EXCEPT !.todo = Subtasks, !.at = Len(Subtasks),
                                    !.progress = FALSE] EXCEPT !.step = "pass"]
      BY <1>1, <2>2
    <3>. QED BY <1>2, <1>5, <2>2, <3>1 DEF ImportState, ImportStep
  <2>. QED BY <2>1, <2>2
<1>7. UNCHANGED <<columnRows, taskRows, counterRow>>
  BY DEF NextStatus
<1>8. /\ ~ Inserts(import') /\ ~ Preparing(import')
      /\ import'.step = "roots" => AtRoots(import') /\ ~ AtSubtasks(import')
      /\ import'.step = "pass" => AtSubtasks(import') /\ ~ AtRoots(import')
  BY <1>6 DEF Preparing, Inserts, AtRoots, AtSubtasks
<1>9. Pending(import) = Later(import)
  <2>1. Range(import.todo) = {}
    BY <1>2 DEF Range
  <2>. QED BY <1>3, <2>1 DEF Pending
<1>10. Pending(import') = Later(import)
  <2>1. CASE import.status < Statuses
    <3>1. import'.status = import.status + 1 /\ import'.todo = todo /\ import'.step = "roots"
      BY <1>6, <2>1
    <3>2. \A i \in Issue : StatusOf[i] > import.status
                           <=> StatusOf[i] = import.status + 1 \/ StatusOf[i] > import.status + 1
      BY <1>3, HulyFacts
    <3>3. Pending(import') = Range(todo) \cup Later(import')
      BY <1>8, <3>1 DEF Pending
    <3>4. Later(import') = {i \in Issue : Above[i] # 0 \/ StatusOf[i] > import.status + 1}
      BY <3>1 DEF Later
    <3>. QED BY <1>4, <3>2, <3>3, <3>4 DEF Later
  <2>2. CASE ~ import.status < Statuses
    <3>1. Pending(import') = Range(Subtasks)
      BY <1>6, <1>8, <2>2 DEF Pending
    <3>2. \A i \in Issue : ~ StatusOf[i] > import.status
      BY <1>3, <2>2, HulyFacts
    <3>. QED BY <3>1, <3>2, SubtasksOnce DEF Later
  <2>. QED BY <2>1, <2>2
<1>11. HulyTypeOK'
  BY <1>6, <1>7 DEF HulyInv, HulyTypeOK
<1>12. Todo(import)'
  <2>1. CASE import.status < Statuses
    <3>1. import.status + 1 \in 1 .. Statuses
      BY <1>3, <2>1, HulyFacts
    <3>. QED BY <1>3, <1>4, <1>6, <1>8, <2>1, <3>1 DEF Todo
  <2>2. CASE ~ import.status < Statuses
    BY <1>3, <1>5, <1>6, <1>8, <2>2, SubtasksOnce DEF Todo
  <2>. QED BY <2>1, <2>2
<1>13. Accounted(Pending(import), import.errors, import.rows)'
  BY <1>6, <1>9, <1>10 DEF HulyInv
<1>14. Transacts(import)'
  BY <1>8 DEF Transacts
<1>15. DryCounts(import)'
  <2>1. import'.step = "pass" => \A n \in DOMAIN import'.todo : ~ n > import'.at
    BY <1>5, <1>6
  <2>2. \A i \in Issue : HasParent(import', i) <=> HasParent(import, i)
    BY <1>6 DEF HasParent
  <2>. QED BY <1>6, <2>1, <2>2 DEF HulyInv, DryCounts
<1>16. RowsMatch(import)' /\ UnderParents' /\ Numbered'
  BY <1>6, <1>7, TasksAside DEF HulyInv
<1>. QED BY <1>11, <1>12, <1>13, <1>14, <1>15, <1>16 DEF HulyInv

\* The head of the roots to come is a root of this status, and without it they are a task less.
LEMMA NextRoot ==
    ASSUME HulyInv, AtRoots(import), ~ AtSubtasks(import), import.todo # <<>>
    PROVE  LET i == Head(import.todo)
           IN  /\ i \in Issue /\ Above[i] = 0 /\ i \in Pending(import)
               /\ import.rows[i] = {} /\ RowsOf(i) = {}
               /\ Tail(import.todo) \in Seq(Issue) /\ Once(Tail(import.todo))
               /\ \A new : AtRoots(new) /\ ~ Preparing(new) /\ new.todo = Tail(import.todo)
                             /\ new.status = import.status
                           => Pending(new) = Pending(import) \ {i}
<1> DEFINE i == Head(import.todo)  rest == Tail(import.todo)
<1>1. import.todo \in Seq(Issue) /\ Once(import.todo) /\ import.status \in 1 .. Statuses
  BY DEF HulyInv, HulyTypeOK, ImportState, Todo
<1>2. /\ i \in Range(import.todo) /\ i \in Issue /\ rest \in Seq(Issue) /\ Once(rest)
      /\ Range(rest) = Range(import.todo) \ {i}
  BY <1>1, TailOnce
<1>3. \A j \in Range(import.todo) : Above[j] = 0 /\ StatusOf[j] = import.status
  BY DEF HulyInv, Todo
<1>. HIDE DEF i, rest
<1>4. ~ Preparing(import)
  BY DEF AtRoots, Inserts, Preparing
<1>5. Pending(import) = Range(import.todo) \cup Later(import)
  BY <1>4 DEF Pending
<1>6. i \notin Later(import)
  BY <1>1, <1>2, <1>3, HulyFacts DEF Later
<1>7. i \in Pending(import)
  BY <1>2, <1>5
<1>8. import.rows[i] = {}
  BY <1>2, <1>7 DEF HulyInv, Accounted
<1>9. RowsOf(i) = {}
  BY <1>2, <1>8 DEF HulyInv, RowsMatch
<1>10. ASSUME NEW new, AtRoots(new), ~ Preparing(new), new.todo = rest,
              new.status = import.status
       PROVE  Pending(new) = Pending(import) \ {i}
  BY <1>2, <1>5, <1>6, <1>10 DEF Pending, Later
<1>11. /\ i \in Issue /\ Above[i] = 0 /\ i \in Pending(import)
       /\ import.rows[i] = {} /\ RowsOf(i) = {}
       /\ rest \in Seq(Issue) /\ Once(rest)
  BY <1>2, <1>3, <1>7, <1>8, <1>9
<1>. QED BY <1>10, <1>11 DEF i, rest

LEMMA DryRootKeeps ==
    ASSUME HulyInv, DryRoot
    PROVE  HulyInv'
<1> DEFINE i == Head(import.todo)
<1>1. import' = [[import EXCEPT !.todo = Tail(@), !.rows[i] = {0}] EXCEPT !.step = "roots"]
  BY DEF DryRoot, ImportGoes
<1>2. import \in ImportState /\ import.step = "roots" /\ import.todo # <<>> /\ import.dry
  BY DEF HulyInv, HulyTypeOK, DryRoot, ImportIs
<1>3. AtRoots(import) /\ ~ AtSubtasks(import) /\ ~ Inserts(import) /\ ~ Preparing(import)
  BY <1>2 DEF AtRoots, AtSubtasks, Inserts, Preparing
<1>4. /\ i \in Issue /\ Above[i] = 0 /\ i \in Pending(import)
      /\ import.rows[i] = {} /\ Tail(import.todo) \in Seq(Issue) /\ Once(Tail(import.todo))
  BY <1>2, <1>3, NextRoot
<1>5. \A new : AtRoots(new) /\ ~ Preparing(new) /\ new.todo = Tail(import.todo)
                 /\ new.status = import.status
               => Pending(new) = Pending(import) \ {i}
  BY <1>2, <1>3, NextRoot
<1>6. /\ import.todo \in Seq(Issue) /\ import.rows \in [Issue -> SUBSET Nat]
      /\ \A j \in Range(import.todo) : Above[j] = 0 /\ StatusOf[j] = import.status
      /\ Range(Tail(import.todo)) = Range(import.todo) \ {i}
  <2>1. /\ import.todo \in Seq(Issue) /\ import.rows \in [Issue -> SUBSET Nat]
        /\ Once(import.todo)
    BY <1>2 DEF ImportState, HulyInv, Todo
  <2>. QED BY <1>2, <1>3, <2>1, TailOnce DEF HulyInv, Todo
<1>. HIDE DEF i
<1> DEFINE rows == [import.rows EXCEPT ![i] = {0}]
<1>7. rows \in [Issue -> SUBSET Nat] /\ rows[i] = {0}
      /\ \A j \in Issue : j # i => rows[j] = import.rows[j]
  BY <1>4, <1>6
<1>8. import' = [import EXCEPT !.todo = Tail(@), !.rows = rows, !.step = "roots"]
  BY <1>1, <1>2 DEF ImportState
<1>. HIDE DEF rows
<1>9. /\ import' \in ImportState /\ import'.dry = import.dry /\ import'.step = "roots"
      /\ import'.rows = rows /\ import'.errors = import.errors
      /\ import'.columns = import.columns /\ import'.status = import.status
      /\ import'.todo = Tail(import.todo)
  BY <1>2, <1>4, <1>7, <1>8 DEF ImportState, ImportStep
<1>10. UNCHANGED <<columnRows, taskRows, counterRow>>
  BY DEF DryRoot
<1>11. AtRoots(import') /\ ~ AtSubtasks(import') /\ ~ Inserts(import') /\ ~ Preparing(import')
  BY <1>9 DEF AtRoots, AtSubtasks, Inserts, Preparing
<1>12. HulyTypeOK'
  BY <1>9, <1>10 DEF HulyInv, HulyTypeOK
<1>13. Todo(import)'
  BY <1>3, <1>4, <1>6, <1>9, <1>11 DEF HulyInv, Todo
<1>14. Accounted(Pending(import), import.errors, import.rows)'
  <2>1. Pending(import') = Pending(import) \ {i}
    BY <1>5, <1>9, <1>11
  <2>2. Accounted(Pending(import) \ {i}, import.errors, rows)
    <3>1. Accounted(Pending(import), import.errors, import.rows) /\ 0 \in Nat
      BY DEF HulyInv
    <3>. QED BY <1>4, <1>6, <3>1, SettledByRow DEF rows
  <2>. QED BY <1>9, <2>1, <2>2
<1>15. Transacts(import)'
  BY <1>11 DEF Transacts
<1>16. DryCounts(import)'
  <2>1. \A j \in Issue : HasParent(import, j) => HasParent(import', j)
    BY <1>7, <1>9 DEF HasParent
  <2>2. /\ import.errors = <<>>
        /\ \A j \in Issue : import.rows[j] \subseteq {0}
        /\ \A j \in Issue : import.rows[j] # {} /\ Above[j] # 0 => HasParent(import, j)
    BY <1>2 DEF HulyInv, DryCounts
  <2>. QED BY <1>4, <1>7, <1>9, <2>1, <2>2 DEF DryCounts
<1>17. RowsMatch(import)' /\ UnderParents' /\ Numbered'
  BY <1>2, <1>9, <1>10, TasksAside DEF HulyInv
<1>. QED BY <1>12, <1>13, <1>14, <1>15, <1>16, <1>17 DEF HulyInv

LEMMA BeginRootKeeps ==
    ASSUME HulyInv, BeginRoot
    PROVE  HulyInv'
<1> DEFINE i == Head(import.todo)
<1>1. import' = [[import EXCEPT !.issue = i, !.parent = 0,
                                !.column = import.columns[import.status]] EXCEPT !.step = "reserve"]
  BY DEF BeginRoot, ImportGoes
<1>2. import \in ImportState /\ import.step = "roots" /\ import.todo # <<>> /\ ~ import.dry
  BY DEF HulyInv, HulyTypeOK, BeginRoot, ImportIs
<1>3. AtRoots(import) /\ ~ AtSubtasks(import) /\ ~ Inserts(import) /\ ~ Preparing(import)
  BY <1>2 DEF AtRoots, AtSubtasks, Inserts, Preparing
<1>4. i \in Issue
  BY <1>2, <1>3, NextRoot
<1>5. import.columns[import.status] \in Nat
  BY <1>2, <1>3 DEF ImportState, HulyInv, Todo
<1>6. /\ import' \in ImportState /\ import'.dry = import.dry /\ import'.step = "reserve"
      /\ import'.rows = import.rows /\ import'.errors = import.errors
      /\ import'.columns = import.columns /\ import'.status = import.status
      /\ import'.todo = import.todo /\ import'.parent = 0 /\ import'.issue = i
  BY <1>1, <1>2, <1>4, <1>5, HulyFacts DEF ImportState, ImportStep
<1>. HIDE DEF i
<1>7. UNCHANGED <<columnRows, taskRows, counterRow>>
  BY DEF BeginRoot
<1>8. AtRoots(import') /\ ~ AtSubtasks(import') /\ ~ Preparing(import')
  BY <1>6 DEF AtRoots, AtSubtasks, Inserts, Preparing
<1>9. HulyTypeOK'
  BY <1>6, <1>7 DEF HulyInv, HulyTypeOK
<1>10. Todo(import)'
  BY <1>3, <1>6, <1>8 DEF HulyInv, Todo
<1>11. Accounted(Pending(import), import.errors, import.rows)'
  <2>1. Pending(import') = Pending(import)
    BY <1>3, <1>6, <1>8 DEF Pending, Later
  <2>. QED BY <1>6, <2>1 DEF HulyInv
<1>12. Transacts(import)'
  BY <1>2, <1>6 DEF Transacts, i
<1>13. DryCounts(import)'
  BY <1>2, <1>6 DEF DryCounts
<1>14. RowsMatch(import)' /\ UnderParents' /\ Numbered'
  BY <1>6, <1>7, TasksAside DEF HulyInv
<1>. QED BY <1>9, <1>10, <1>11, <1>12, <1>13, <1>14 DEF HulyInv

LEMMA ReserveNumberKeeps ==
    ASSUME HulyInv, ReserveNumber
    PROVE  HulyInv'
<1>1. /\ import' = [[import EXCEPT !.number = NextNumber] EXCEPT !.step = "insert"]
      /\ counterRow' = [counterRow EXCEPT !.lock = "import"]
      /\ UNCHANGED <<columnRows, taskRows>>
  BY DEF ReserveNumber, ImportGoes
<1>2. import \in ImportState /\ import.step = "reserve"
  BY DEF HulyInv, HulyTypeOK, ReserveNumber, ImportIs
<1>3. NextNumber \in Nat /\ \A t \in TaskIds : taskRows[t].number < NextNumber
  BY NextNumberIsNew DEF HulyInv, HulyTypeOK
<1>4. /\ import' \in ImportState /\ import'.dry = import.dry /\ import'.step = "insert"
      /\ import'.rows = import.rows /\ import'.errors = import.errors
      /\ import'.columns = import.columns /\ import'.status = import.status
      /\ import'.todo = import.todo /\ import'.parent = import.parent
      /\ import'.issue = import.issue /\ import'.at = import.at /\ import'.number = NextNumber
  BY <1>1, <1>2, <1>3 DEF ImportState, ImportStep
<1>5. /\ AtRoots(import') = AtRoots(import) /\ AtSubtasks(import') = AtSubtasks(import)
      /\ ~ Preparing(import') /\ ~ Preparing(import) /\ Inserts(import)
  BY <1>2, <1>4 DEF AtRoots, AtSubtasks, Inserts, Preparing
<1>6. HulyTypeOK'
  BY <1>1, <1>4 DEF HulyInv, HulyTypeOK
<1>7. Todo(import)'
  BY <1>4, <1>5 DEF HulyInv, Todo
<1>8. Accounted(Pending(import), import.errors, import.rows)'
  <2>1. Pending(import') = Pending(import)
    BY <1>4, <1>5 DEF Pending, Later
  <2>. QED BY <1>4, <2>1 DEF HulyInv
<1>9. Transacts(import)'
  BY <1>4, <1>5 DEF HulyInv, Transacts
<1>10. DryCounts(import)'
  <2>1. ~ import.dry
    BY <1>5 DEF HulyInv, Transacts
  <2>. QED BY <1>4, <2>1 DEF DryCounts
<1>11. TaskIds' = TaskIds /\ \A j : RowsOf(j)' = RowsOf(j)
  BY <1>1 DEF TaskIds, RowsOf
<1>12. RowsMatch(import)'
  BY <1>4, <1>11 DEF HulyInv, RowsMatch
<1>13. UnderParents'
  BY <1>1, <1>11 DEF HulyInv, UnderParents
<1>14. Numbered'
  <2>1. counterRow'.lock = "import"
    BY <1>1 DEF HulyInv, HulyTypeOK
  <2>. QED BY <1>1, <1>3, <1>4, <1>11, <2>1 DEF HulyInv, Numbered
<1>. QED BY <1>6, <1>7, <1>8, <1>9, <1>10, <1>12, <1>13, <1>14 DEF HulyInv

LEMMA SkipForNowKeeps ==
    ASSUME HulyInv, SkipForNow
    PROVE  HulyInv'
<1>1. /\ import' = [[import EXCEPT !.at = @ - 1] EXCEPT !.step = "pass"]
      /\ UNCHANGED <<columnRows, taskRows, counterRow>>
  BY DEF SkipForNow, ImportGoes
<1>2. /\ import \in ImportState /\ import.step = "pass" /\ import.at > 0
      /\ ~ ParentHasRow(import.todo[import.at])
  BY DEF HulyInv, HulyTypeOK, SkipForNow, ImportIs
<1>3. /\ AtSubtasks(import) /\ ~ AtRoots(import) /\ ~ Inserts(import) /\ ~ Preparing(import)
  BY <1>2 DEF AtRoots, AtSubtasks, Inserts, Preparing
<1>4. /\ import.at \in Nat /\ import.at - 1 \in Nat /\ import.at <= Len(import.todo)
      /\ import.todo \in Seq(Issue)
  BY <1>2, <1>3 DEF ImportState, HulyInv, Todo
<1>5. /\ import' \in ImportState /\ import'.dry = import.dry /\ import'.step = "pass"
      /\ import'.rows = import.rows /\ import'.errors = import.errors
      /\ import'.columns = import.columns /\ import'.progress = import.progress
      /\ import'.todo = import.todo /\ import'.at = import.at - 1
  BY <1>1, <1>2, <1>4 DEF ImportState, ImportStep
<1>6. AtSubtasks(import') /\ ~ AtRoots(import') /\ ~ Inserts(import') /\ ~ Preparing(import')
  BY <1>5 DEF AtRoots, AtSubtasks, Inserts, Preparing
<1>7. HulyTypeOK'
  BY <1>1, <1>5 DEF HulyInv, HulyTypeOK
<1>8. Todo(import)'
  <2>1. import.at - 1 <= Len(import.todo)
    BY <1>4
  <2>. QED BY <1>3, <1>5, <1>6, <2>1 DEF HulyInv, Todo
<1>9. Accounted(Pending(import), import.errors, import.rows)'
  <2>1. Pending(import') = Pending(import)
    BY <1>3, <1>5, <1>6 DEF Pending
  <2>. QED BY <1>5, <2>1 DEF HulyInv
<1>10. Transacts(import)'
  BY <1>6 DEF Transacts
<1>11. DryCounts(import)'
  <2>1. \A j : HasParent(import', j) <=> HasParent(import, j)
    BY <1>5 DEF HasParent
  <2>2. ~ HasParent(import, import.todo[import.at])
    BY <1>2 DEF HasParent, ParentHasRow
  <2>3. \A n \in DOMAIN import.todo : n > import.at - 1 => n = import.at \/ n > import.at
    BY <1>4
  <2>4. import.dry /\ ~ import.progress =>
          \A n \in DOMAIN import.todo : n > import.at - 1 => ~ HasParent(import, import.todo[n])
    BY <1>2, <2>2, <2>3 DEF HulyInv, DryCounts
  <2>. QED BY <1>5, <2>1, <2>4 DEF HulyInv, DryCounts
<1>12. RowsMatch(import)' /\ UnderParents' /\ Numbered'
  BY <1>1, <1>5, TasksAside DEF HulyInv
<1>. QED BY <1>7, <1>8, <1>9, <1>10, <1>11, <1>12 DEF HulyInv

LEMMA EndPassKeeps ==
    ASSUME HulyInv, EndPass
    PROVE  HulyInv'
<1> DEFINE again == import.todo # <<>> /\ import.progress
<1>1. /\ import' = IF again
                   THEN [[import EXCEPT !.at = Len(import.todo), !.progress = FALSE]
                           EXCEPT !.step = "pass"]
                   ELSE [[import EXCEPT !.skipped = import.todo] EXCEPT !.step = "done"]
      /\ UNCHANGED <<columnRows, taskRows, counterRow>>
  BY DEF EndPass, ImportGoes
<1>2. import \in ImportState /\ import.step = "pass" /\ import.at = 0
  BY DEF HulyInv, HulyTypeOK, EndPass, ImportIs
<1>3. /\ AtSubtasks(import) /\ ~ AtRoots(import) /\ ~ Inserts(import) /\ ~ Preparing(import)
  BY <1>2 DEF AtRoots, AtSubtasks, Inserts, Preparing
<1>4. import.todo \in Seq(Issue) /\ Len(import.todo) \in Nat
  BY <1>2 DEF ImportState
<1>5. /\ import' \in ImportState /\ import'.dry = import.dry
      /\ import'.rows = import.rows /\ import'.errors = import.errors
      /\ import'.columns = import.columns /\ import'.todo = import.todo
      /\ again => import'.step = "pass" /\ import'.at = Len(import.todo)
      /\ ~ again => /\ import'.step = "done" /\ import'.at = 0
                    /\ import'.skipped = import.todo
  <2>1. CASE again
    BY <1>1, <1>2, <1>4, <2>1 DEF ImportState, ImportStep
  <2>2. CASE ~ again
    <3>1. import' = [[import EXCEPT !.skipped = import.todo] EXCEPT !.step = "done"]
      BY <1>1, <2>2
    <3>. HIDE DEF again
    <3>. QED BY <1>2, <1>4, <2>2, <3>1 DEF ImportState, ImportStep
  <2>. QED BY <2>1, <2>2
<1>6. AtSubtasks(import') /\ ~ AtRoots(import') /\ ~ Inserts(import') /\ ~ Preparing(import')
  BY <1>5 DEF AtRoots, AtSubtasks, Inserts, Preparing
<1>7. HulyTypeOK'
  BY <1>1, <1>5 DEF HulyInv, HulyTypeOK
<1>8. Todo(import)'
  <2>1. import'.at <= Len(import.todo) /\ (import'.step = "done" => import'.skipped = import.todo)
    <3>. HIDE DEF again
    <3>. QED BY <1>4, <1>5
  <2>. QED BY <1>3, <1>5, <1>6, <2>1 DEF HulyInv, Todo
<1>9. Accounted(Pending(import), import.errors, import.rows)'
  <2>1. Pending(import') = Pending(import)
    BY <1>3, <1>5, <1>6 DEF Pending
  <2>. QED BY <1>5, <2>1 DEF HulyInv
<1>10. Transacts(import)'
  BY <1>6 DEF Transacts
<1>11. DryCounts(import)'
  <2>1. \A j : HasParent(import', j) <=> HasParent(import, j)
    BY <1>5 DEF HasParent
  <2>2. CASE again
    <3>1. \A n \in DOMAIN import'.todo : ~ n > import'.at
      BY <1>4, <1>5, <2>2
    <3>. QED BY <1>5, <2>1, <2>2, <3>1 DEF HulyInv, DryCounts
  <2>3. CASE ~ again
    <3>1. import.dry => \A i \in Range(import.todo) : ~ HasParent(import, i)
      <4>1. CASE import.todo = <<>>
        BY <4>1 DEF Range
      <4>2. CASE ~ import.progress
        <5>1. \A n \in DOMAIN import.todo : n > import.at
          BY <1>2, <1>4
        <5>. QED BY <1>2, <4>2, <5>1 DEF HulyInv, DryCounts, Range
      <4>. QED BY <2>3, <4>1, <4>2
    <3>2. import'.step = "done" /\ import'.step # "pass"
      BY <1>5, <2>3
    <3>. QED BY <1>5, <2>1, <3>1, <3>2 DEF HulyInv, DryCounts
  <2>. QED BY <2>2, <2>3
<1>12. RowsMatch(import)' /\ UnderParents' /\ Numbered'
  <2>1. import'.step # "insert"
    BY <1>5
  <2>. QED BY <1>1, <1>5, <2>1, TasksAside DEF HulyInv
<1>. QED BY <1>7, <1>8, <1>9, <1>10, <1>11, <1>12 DEF HulyInv

\* A pending subtask, and what is left without it.
LEMMA NextSubtask ==
    ASSUME HulyInv, AtSubtasks(import), ~ AtRoots(import), import.at > 0
    PROVE  LET i == import.todo[import.at]
               rest == RemoveAt(import.todo, import.at)
           IN  /\ import.at \in DOMAIN import.todo /\ import.at - 1 \in Nat
               /\ i \in Issue /\ Above[i] # 0 /\ i \in Pending(import)
               /\ import.rows[i] = {} /\ RowsOf(i) = {}
               /\ rest \in Seq(Issue) /\ Once(rest)
               /\ import.at - 1 <= Len(rest) /\ Range(rest) = Pending(import) \ {i}
               /\ \A j \in Range(rest) : Above[j] # 0
<1> DEFINE i == import.todo[import.at]  rest == RemoveAt(import.todo, import.at)
<1>1. /\ import.todo \in Seq(Issue) /\ Once(import.todo) /\ import.at \in Nat
      /\ import.at <= Len(import.todo) /\ import.at > 0
      /\ \A j \in Range(import.todo) : Above[j] # 0
  BY DEF HulyInv, HulyTypeOK, ImportState, Todo
<1>2. import.at \in DOMAIN import.todo /\ import.at - 1 \in Nat /\ Len(import.todo) \in Nat
  BY <1>1
<1>3. /\ rest \in Seq(Issue) /\ Len(rest) = Len(import.todo) - 1 /\ Once(rest)
      /\ Range(rest) = Range(import.todo) \ {i}
  BY <1>1, <1>2, RemoveAtOnce
<1>4. i \in Issue /\ i \in Range(import.todo)
  BY <1>1, <1>2 DEF Range
<1>. HIDE DEF i, rest
<1>5. ~ Preparing(import)
  BY DEF AtSubtasks, Inserts, Preparing
<1>6. Pending(import) = Range(import.todo)
  BY <1>5 DEF Pending
<1>7. import.rows[i] = {}
  BY <1>4, <1>6 DEF HulyInv, Accounted
<1>8. RowsOf(i) = {}
  BY <1>4, <1>7 DEF HulyInv, RowsMatch
<1>9. import.at - 1 <= Len(rest)
  BY <1>1, <1>2, <1>3
<1>10. /\ import.at \in DOMAIN import.todo /\ import.at - 1 \in Nat
       /\ i \in Issue /\ Above[i] # 0 /\ i \in Pending(import)
       /\ import.rows[i] = {} /\ RowsOf(i) = {}
       /\ rest \in Seq(Issue) /\ Once(rest)
       /\ import.at - 1 <= Len(rest) /\ Range(rest) = Pending(import) \ {i}
       /\ \A j \in Range(rest) : Above[j] # 0
  BY <1>1, <1>2, <1>3, <1>4, <1>6, <1>7, <1>8, <1>9
<1>. QED BY <1>10 DEF i, rest

\* A root fails: it is reported and the next one follows.
LEMMA RootFails ==
    ASSUME HulyInv, Inserts(import), import.parent = 0, UNCHANGED <<columnRows, taskRows>>,
           counterRow' \in [lock : {"none", "import"}, count : Nat],
           import' = [import EXCEPT !.errors = @ \o <<import.issue>>, !.todo = Tail(@),
                                    !.progress = FALSE, !.step = "roots"]
    PROVE  HulyInv'
<1> DEFINE i == import.issue  errors == import.errors \o <<i>>
<1>1. /\ import \in ImportState /\ import.errors \in Seq(Issue) /\ import.todo \in Seq(Issue)
      /\ import.rows \in [Issue -> SUBSET Nat]
  BY DEF HulyInv, HulyTypeOK, ImportState
<1>2. /\ AtRoots(import) /\ ~ AtSubtasks(import) /\ ~ Preparing(import)
  BY DEF AtRoots, AtSubtasks, Inserts, Preparing
<1>3. i = Head(import.todo) /\ import.todo # <<>> /\ ~ import.dry
  BY DEF HulyInv, Transacts
<1>4. /\ i \in Issue /\ i \in Pending(import)
      /\ Tail(import.todo) \in Seq(Issue) /\ Once(Tail(import.todo))
  BY <1>2, <1>3, NextRoot
<1>5. \A new : AtRoots(new) /\ ~ Preparing(new) /\ new.todo = Tail(import.todo)
                 /\ new.status = import.status
               => Pending(new) = Pending(import) \ {i}
  BY <1>2, <1>3, NextRoot
<1>6. /\ \A j \in Range(import.todo) : Above[j] = 0 /\ StatusOf[j] = import.status
      /\ Range(Tail(import.todo)) = Range(import.todo) \ {i}
  <2>1. Once(import.todo)
    BY DEF HulyInv, Todo
  <2>. QED BY <1>1, <1>2, <1>3, <2>1, TailOnce DEF HulyInv, Todo
<1>7. Accounted(Pending(import) \ {i}, errors, import.rows) /\ errors \in Seq(Issue)
  <2>1. Accounted(Pending(import), import.errors, import.rows)
    BY DEF HulyInv
  <2>. QED BY <1>1, <1>4, <2>1, SettledByError
<1>. HIDE DEF errors
<1>8. import' = [import EXCEPT !.errors = errors, !.todo = Tail(import.todo),
                               !.progress = FALSE, !.step = "roots"]
  BY <1>1 DEF ImportState, errors
<1>9. /\ import' \in ImportState /\ import'.dry = import.dry /\ import'.step = "roots"
      /\ import'.rows = import.rows /\ import'.errors = errors
      /\ import'.columns = import.columns /\ import'.status = import.status
      /\ import'.todo = Tail(import.todo)
  <2>. HIDE DEF i
  <2>. QED BY <1>1, <1>4, <1>7, <1>8 DEF ImportState, ImportStep
<1>10. AtRoots(import') /\ ~ AtSubtasks(import') /\ ~ Inserts(import') /\ ~ Preparing(import')
  BY <1>9 DEF AtRoots, AtSubtasks, Inserts, Preparing
<1>11. HulyTypeOK'
  BY <1>9 DEF HulyInv, HulyTypeOK
<1>12. Todo(import)'
  BY <1>2, <1>4, <1>6, <1>9, <1>10 DEF HulyInv, Todo
<1>13. Accounted(Pending(import), import.errors, import.rows)'
  <2>1. Pending(import') = Pending(import) \ {i}
    BY <1>5, <1>9, <1>10
  <2>. QED BY <1>7, <1>9, <2>1
<1>14. Transacts(import)'
  BY <1>10 DEF Transacts
<1>15. DryCounts(import)'
  BY <1>3, <1>9 DEF DryCounts
<1>16. RowsMatch(import)' /\ UnderParents' /\ Numbered'
  BY <1>9, TasksAside DEF HulyInv
<1>. QED BY <1>11, <1>12, <1>13, <1>14, <1>15, <1>16 DEF HulyInv

\* A subtask fails: it is reported and waits no longer.
LEMMA SubtaskFails ==
    ASSUME HulyInv, AtSubtasks(import), ~ AtRoots(import), import.at > 0, ~ import.dry,
           UNCHANGED <<columnRows, taskRows>>,
           counterRow' \in [lock : {"none", "import"}, count : Nat],
           import' = [import EXCEPT !.errors = @ \o <<import.todo[import.at]>>, !.at = @ - 1,
                                    !.todo = RemoveAt(@, import.at), !.progress = TRUE,
                                    !.step = "pass"]
    PROVE  HulyInv'
<1> DEFINE i == import.todo[import.at]  errors == import.errors \o <<i>>
           rest == RemoveAt(import.todo, import.at)
<1>1. /\ import \in ImportState /\ import.errors \in Seq(Issue)
      /\ import.rows \in [Issue -> SUBSET Nat]
  BY DEF HulyInv, HulyTypeOK, ImportState
<1>2. ~ Preparing(import)
  BY DEF AtSubtasks, Inserts, Preparing
<1>3. /\ import.at - 1 \in Nat /\ i \in Issue /\ i \in Pending(import)
      /\ rest \in Seq(Issue) /\ Once(rest)
      /\ import.at - 1 <= Len(rest) /\ Range(rest) = Pending(import) \ {i}
      /\ \A j \in Range(rest) : Above[j] # 0
  BY NextSubtask
<1>4. Accounted(Pending(import) \ {i}, errors, import.rows) /\ errors \in Seq(Issue)
  <2>1. Accounted(Pending(import), import.errors, import.rows)
    BY DEF HulyInv
  <2>. QED BY <1>1, <1>3, <2>1, SettledByError
<1>5. import' = [import EXCEPT !.errors = errors, !.at = @ - 1, !.todo = rest,
                               !.progress = TRUE, !.step = "pass"]
  BY <1>1 DEF ImportState
<1>. HIDE DEF errors, rest, i
<1>6. /\ import' \in ImportState /\ import'.dry = import.dry /\ import'.step = "pass"
      /\ import'.rows = import.rows /\ import'.errors = errors
      /\ import'.columns = import.columns /\ import'.at = import.at - 1
      /\ import'.todo = rest
  BY <1>1, <1>3, <1>4, <1>5 DEF ImportState, ImportStep
<1>7. AtSubtasks(import') /\ ~ AtRoots(import') /\ ~ Inserts(import') /\ ~ Preparing(import')
  BY <1>6 DEF AtRoots, AtSubtasks, Inserts, Preparing
<1>8. HulyTypeOK'
  BY <1>6 DEF HulyInv, HulyTypeOK
<1>9. Todo(import)'
  BY <1>2, <1>3, <1>6, <1>7 DEF HulyInv, Todo
<1>10. Accounted(Pending(import), import.errors, import.rows)'
  <2>1. Pending(import') = Pending(import) \ {i}
    BY <1>3, <1>6, <1>7 DEF Pending
  <2>. QED BY <1>4, <1>6, <2>1
<1>11. Transacts(import)'
  BY <1>7 DEF Transacts
<1>12. DryCounts(import)'
  BY <1>6 DEF DryCounts
<1>13. RowsMatch(import)' /\ UnderParents' /\ Numbered'
  BY <1>6, TasksAside DEF HulyInv
<1>. QED BY <1>8, <1>9, <1>10, <1>11, <1>12, <1>13 DEF HulyInv

LEMMA TaskFailsKeeps ==
    ASSUME HulyInv, TaskFails
    PROVE  HulyInv'
<1>1. /\ Inserts(import) /\ import \in ImportState
      /\ counterRow \in [lock : {"none", "import"}, count : Nat]
  BY DEF HulyInv, HulyTypeOK, TaskFails, Inserts
<1>2. /\ counterRow' \in [lock : {"none", "import"}, count : Nat]
      /\ UNCHANGED <<columnRows, taskRows>>
  BY <1>1 DEF TaskFails
<1>3. CASE import.parent = 0
  <2>1. import' = [[import EXCEPT !.errors = @ \o <<import.issue>>, !.todo = Tail(@),
                                  !.at = @, !.progress = FALSE] EXCEPT !.step = "roots"]
    BY <1>3 DEF TaskFails, ImportGoes
  <2>2. import' = [import EXCEPT !.errors = @ \o <<import.issue>>, !.todo = Tail(@),
                                 !.progress = FALSE, !.step = "roots"]
    BY <1>1, <2>1 DEF ImportState
  <2>. QED BY <1>1, <1>2, <1>3, <2>2, RootFails
<1>4. CASE import.parent # 0
  <2>1. /\ import.at \in DOMAIN import.todo /\ import.issue = import.todo[import.at]
        /\ ~ import.dry
    BY <1>1, <1>4 DEF HulyInv, Transacts
  <2>2. AtSubtasks(import) /\ ~ AtRoots(import) /\ import.at > 0
    BY <1>1, <1>4, <2>1 DEF AtSubtasks, AtRoots, Inserts, ImportState
  <2>3. import' = [[import EXCEPT !.errors = @ \o <<import.issue>>,
                                  !.todo = RemoveAt(@, import.at),
                                  !.at = @ - 1, !.progress = TRUE] EXCEPT !.step = "pass"]
    BY <1>4 DEF TaskFails, ImportGoes
  <2>4. import' = [import EXCEPT !.errors = @ \o <<import.todo[import.at]>>, !.at = @ - 1,
                                 !.todo = RemoveAt(@, import.at), !.progress = TRUE,
                                 !.step = "pass"]
    BY <1>1, <2>1, <2>3 DEF ImportState
  <2>. QED BY <1>2, <2>1, <2>2, <2>4, SubtaskFails
<1>. QED BY <1>3, <1>4

LEMMA CountedState ==
    ASSUME NEW k \in ImportState, NEW rows \in [Issue -> SUBSET Nat], k.at - 1 \in Nat,
           NEW rest \in Seq(Issue)
    PROVE  [k EXCEPT !.rows = rows, !.at = @ - 1, !.todo = rest, !.progress = TRUE,
                     !.step = "pass"] \in ImportState
BY DEF ImportState, ImportStep

\* The dry run counts a subtask whose parent it has counted.
LEMMA SubtaskCounted ==
    ASSUME HulyInv, import.step = "pass", import.at > 0, import.dry,
           ParentHasRow(import.todo[import.at]), UNCHANGED <<columnRows, taskRows, counterRow>>,
           import' = [import EXCEPT !.rows[import.todo[import.at]] = {0}, !.at = @ - 1,
                                    !.todo = RemoveAt(@, import.at), !.progress = TRUE,
                                    !.step = "pass"]
    PROVE  HulyInv'
<1> DEFINE i == import.todo[import.at]  rest == RemoveAt(import.todo, import.at)
           rows == [import.rows EXCEPT ![i] = {0}]
<1>1. /\ import \in ImportState /\ import.rows \in [Issue -> SUBSET Nat]
  BY DEF HulyInv, HulyTypeOK, ImportState
<1>2. /\ AtSubtasks(import) /\ ~ AtRoots(import) /\ ~ Preparing(import)
  BY DEF AtSubtasks, AtRoots, Inserts, Preparing
<1>3. /\ import.at - 1 \in Nat /\ i \in Issue /\ i \in Pending(import)
      /\ rest \in Seq(Issue) /\ Once(rest)
      /\ import.at - 1 <= Len(rest) /\ Range(rest) = Pending(import) \ {i}
      /\ \A j \in Range(rest) : Above[j] # 0
  BY <1>2, NextSubtask
<1>4. Accounted(Pending(import) \ {i}, import.errors, rows) /\ rows \in [Issue -> SUBSET Nat]
  <2>1. Accounted(Pending(import), import.errors, import.rows) /\ 0 \in Nat
    BY DEF HulyInv
  <2>. QED BY <1>1, <1>3, <2>1, SettledByRow
<1>5. rows[i] = {0} /\ \A j \in Issue : j # i => rows[j] = import.rows[j]
  BY <1>1, <1>3
<1>6. HasParent(import, i)
  BY DEF ParentHasRow, HasParent
<1>7. import' = [import EXCEPT !.rows = rows, !.at = @ - 1, !.todo = rest,
                               !.progress = TRUE, !.step = "pass"]
  BY <1>1 DEF ImportState
<1>. HIDE DEF rest, i, rows
<1>8. /\ import' \in ImportState /\ import'.dry = import.dry /\ import'.step = "pass"
      /\ import'.rows = rows /\ import'.errors = import.errors
      /\ import'.columns = import.columns /\ import'.at = import.at - 1
      /\ import'.todo = rest /\ import'.progress = TRUE
  <2>1. import' \in ImportState
    <3>1. /\ import \in ImportState /\ rows \in [Issue -> SUBSET Nat]
          /\ import.at - 1 \in Nat /\ rest \in Seq(Issue)
      BY <1>1, <1>3, <1>4
    <3>2. [import EXCEPT !.rows = rows, !.at = @ - 1, !.todo = rest, !.progress = TRUE,
                         !.step = "pass"] \in ImportState
      BY <3>1, CountedState
    <3>. QED BY <1>7, <3>2
  <2>. QED BY <1>1, <1>7, <2>1 DEF ImportState
<1>9. AtSubtasks(import') /\ ~ AtRoots(import') /\ ~ Inserts(import') /\ ~ Preparing(import')
  BY <1>8 DEF AtRoots, AtSubtasks, Inserts, Preparing
<1>10. HulyTypeOK'
  BY <1>8 DEF HulyInv, HulyTypeOK
<1>11. Todo(import)'
  BY <1>2, <1>3, <1>8, <1>9 DEF HulyInv, Todo
<1>12. Accounted(Pending(import), import.errors, import.rows)'
  <2>1. Pending(import') = Pending(import) \ {i}
    BY <1>3, <1>8, <1>9 DEF Pending
  <2>. QED BY <1>4, <1>8, <2>1
<1>13. Transacts(import)'
  BY <1>9 DEF Transacts
<1>14. DryCounts(import)'
  <2>1. \A j \in Issue : HasParent(import, j) => HasParent(import', j)
    BY <1>5, <1>8 DEF HasParent
  <2>2. /\ import.errors = <<>>
        /\ \A j \in Issue : import.rows[j] \subseteq {0}
        /\ \A j \in Issue : import.rows[j] # {} /\ Above[j] # 0 => HasParent(import, j)
    BY DEF HulyInv, DryCounts
  <2>. QED BY <1>3, <1>5, <1>6, <1>8, <2>1, <2>2 DEF DryCounts
<1>15. RowsMatch(import)' /\ UnderParents' /\ Numbered'
  BY <1>8, TasksAside DEF HulyInv
<1>. QED BY <1>10, <1>11, <1>12, <1>13, <1>14, <1>15 DEF HulyInv

\* A transaction for a subtask begins, under the row of its parent.
LEMMA SubtaskBegins ==
    ASSUME HulyInv, import.step = "pass", import.at > 0, ~ import.dry,
           UNCHANGED <<columnRows, taskRows, counterRow>>,
           Above[import.todo[import.at]] \in Issue,
           NEW p \in import.rows[Above[import.todo[import.at]]], p # 0, NEW column \in Nat,
           import' = [import EXCEPT !.issue = import.todo[import.at], !.parent = p,
                                    !.column = column, !.step = "reserve"]
    PROVE  HulyInv'
<1> DEFINE i == import.todo[import.at]
<1>1. /\ import \in ImportState /\ import.rows \in [Issue -> SUBSET Nat]
  BY DEF HulyInv, HulyTypeOK, ImportState
<1>2. /\ AtSubtasks(import) /\ ~ AtRoots(import) /\ ~ Preparing(import)
  BY DEF AtSubtasks, AtRoots, Inserts, Preparing
<1>3. i \in Issue /\ import.at \in DOMAIN import.todo
  BY <1>2, NextSubtask
<1>4. p \in Nat
  BY <1>1
<1>5. /\ import' \in ImportState /\ import'.dry = import.dry /\ import'.step = "reserve"
      /\ import'.rows = import.rows /\ import'.errors = import.errors
      /\ import'.columns = import.columns /\ import'.at = import.at
      /\ import'.todo = import.todo /\ import'.parent = p /\ import'.issue = i
  BY <1>1, <1>3, <1>4, HulyFacts DEF ImportState, ImportStep
<1>6. AtSubtasks(import') /\ ~ AtRoots(import') /\ ~ Preparing(import')
  BY <1>5 DEF AtRoots, AtSubtasks, Inserts, Preparing
<1>7. HulyTypeOK'
  BY <1>5 DEF HulyInv, HulyTypeOK
<1>8. Todo(import)'
  BY <1>2, <1>5, <1>6 DEF HulyInv, Todo
<1>9. Accounted(Pending(import), import.errors, import.rows)'
  <2>1. Pending(import') = Pending(import)
    BY <1>2, <1>5, <1>6 DEF Pending
  <2>. QED BY <1>5, <2>1 DEF HulyInv
<1>10. Transacts(import)'
  <2>1. import.todo # <<>>
    BY <1>3
  <2>. QED BY <1>3, <1>5, <2>1 DEF Transacts
<1>11. DryCounts(import)'
  BY <1>5 DEF DryCounts
<1>12. RowsMatch(import)' /\ UnderParents' /\ Numbered'
  BY <1>5, TasksAside DEF HulyInv
<1>. QED BY <1>7, <1>8, <1>9, <1>10, <1>11, <1>12 DEF HulyInv

LEMMA BeginSubtaskKeeps ==
    ASSUME HulyInv, BeginSubtask
    PROVE  HulyInv'
<1> DEFINE i == import.todo[import.at]
<1>1. /\ import \in ImportState /\ import.step = "pass" /\ import.at > 0
      /\ ParentHasRow(i) /\ UNCHANGED <<columnRows, taskRows, counterRow>>
  BY DEF HulyInv, HulyTypeOK, BeginSubtask, ImportIs
<1>2. Above[i] \in Issue
  BY <1>1 DEF ParentHasRow
<1>3. PICK p \in import.rows[Above[i]] :
        IF import.dry
        THEN import' = [[import EXCEPT !.rows[i] = {0}, !.progress = TRUE,
                                       !.todo = RemoveAt(@, import.at), !.at = @ - 1]
                          EXCEPT !.step = "pass"]
        ELSE IF taskRows[p].live
        THEN import' = [[import EXCEPT !.issue = i, !.parent = p, !.column = taskRows[p].column]
                          EXCEPT !.step = "reserve"]
        ELSE import' = [[import EXCEPT !.errors = @ \o <<i>>, !.progress = TRUE,
                                       !.todo = RemoveAt(@, import.at), !.at = @ - 1]
                          EXCEPT !.step = "pass"]
  BY DEF BeginSubtask, ImportGoes
<1>4. AtSubtasks(import) /\ ~ AtRoots(import)
  BY <1>1 DEF AtSubtasks, AtRoots, Inserts
<1>5. CASE import.dry
  <2>1. import' = [import EXCEPT !.rows[i] = {0}, !.at = @ - 1,
                                 !.todo = RemoveAt(@, import.at), !.progress = TRUE,
                                 !.step = "pass"]
    BY <1>1, <1>3, <1>5 DEF ImportState
  <2>. QED BY <1>1, <1>5, <2>1, SubtaskCounted
<1>6. CASE ~ import.dry /\ taskRows[p].live
  <2>1. import' = [import EXCEPT !.issue = i, !.parent = p, !.column = taskRows[p].column,
                                 !.step = "reserve"]
    BY <1>1, <1>3, <1>6 DEF ImportState
  <2>2. p \in DOMAIN taskRows /\ taskRows \in Seq(TaskRow)
    <3>1. RowsOf(Above[i]) = import.rows[Above[i]]
      BY <1>2, <1>6 DEF HulyInv, RowsMatch
    <3>. QED BY <3>1 DEF RowsOf, TaskIds, HulyInv, HulyTypeOK
  <2>3. p # 0 /\ taskRows[p] \in TaskRow
    BY <2>2
  <2>4. taskRows[p].column \in Nat
    BY <2>3 DEF TaskRow
  <2>. QED BY <1>1, <1>2, <1>6, <2>1, <2>3, <2>4, SubtaskBegins
<1>7. CASE ~ import.dry /\ ~ taskRows[p].live
  <2>1. import' = [import EXCEPT !.errors = @ \o <<i>>, !.at = @ - 1,
                                 !.todo = RemoveAt(@, import.at), !.progress = TRUE,
                                 !.step = "pass"]
    BY <1>1, <1>3, <1>7 DEF ImportState
  <2>2. counterRow' \in [lock : {"none", "import"}, count : Nat]
    BY <1>1 DEF HulyInv, HulyTypeOK
  <2>. QED BY <1>1, <1>4, <1>7, <2>1, <2>2, SubtaskFails
<1>. QED BY <1>5, <1>6, <1>7

\* A row is appended: whose it is, and that numbers remain different.
LEMMA RowAppended ==
    ASSUME taskRows \in Seq(TaskRow), NEW row \in TaskRow, taskRows' = Append(taskRows, row),
           \A s, t \in TaskIds : s # t => taskRows[s].number # taskRows[t].number,
           \A t \in TaskIds : taskRows[t].number < row.number
    PROVE  /\ taskRows' \in Seq(TaskRow) /\ TaskIds' = TaskIds \cup {Len(taskRows) + 1}
           /\ Len(taskRows) + 1 \in Nat \ {0} /\ Len(taskRows) + 1 \notin TaskIds
           /\ \A t \in TaskIds : taskRows'[t] = taskRows[t]
           /\ taskRows'[Len(taskRows) + 1] = row
           /\ \A i : RowsOf(i)' = IF i = row.issue THEN RowsOf(i) \cup {Len(taskRows) + 1}
                                  ELSE RowsOf(i)
           /\ \A s, t \in TaskIds' : s # t => taskRows'[s].number # taskRows'[t].number
<1> DEFINE n == Len(taskRows)
<1>1. /\ n \in Nat /\ TaskIds = 1 .. n /\ TaskIds' = 1 .. n + 1
      /\ taskRows' \in Seq(TaskRow)
      /\ \A t \in 1 .. n : taskRows'[t] = taskRows[t]
      /\ taskRows'[n + 1] = row
  BY DEF TaskIds
<1>2. TaskIds' = TaskIds \cup {n + 1} /\ n + 1 \in Nat \ {0} /\ n + 1 \notin TaskIds
  BY <1>1
<1>3. \A t \in TaskIds : taskRows'[t] = taskRows[t]
  BY <1>1
<1>4. \A t \in TaskIds : taskRows[t].number \in Nat
  <2>1. \A t \in TaskIds : taskRows[t] \in TaskRow
    BY <1>1
  <2>. QED BY <2>1 DEF TaskRow
<1>5. row.number \in Nat
  BY DEF TaskRow
<1>. HIDE DEF n
<1>6. \A s, t \in TaskIds' : s # t => taskRows'[s].number # taskRows'[t].number
  BY <1>1, <1>2, <1>3, <1>4, <1>5
<1>7. \A i : RowsOf(i)' = IF i = row.issue THEN RowsOf(i) \cup {n + 1} ELSE RowsOf(i)
  <2> SUFFICES ASSUME NEW i
               PROVE  RowsOf(i)' = IF i = row.issue THEN RowsOf(i) \cup {n + 1} ELSE RowsOf(i)
    OBVIOUS
  <2>1. RowsOf(i)' = {t \in TaskIds \cup {n + 1} : taskRows'[t].issue = i}
    BY <1>2 DEF RowsOf
  <2>2. RowsOf(i) = {t \in TaskIds : taskRows'[t].issue = i}
    BY <1>3 DEF RowsOf
  <2>3. taskRows'[n + 1].issue = row.issue
    BY <1>1
  <2>. QED BY <2>1, <2>2, <2>3
<1>. QED BY <1>1, <1>2, <1>3, <1>6, <1>7 DEF n

LEMMA InsertTaskKeeps ==
    ASSUME HulyInv, InsertTask
    PROVE  HulyInv'
<1> DEFINE i == import.issue  id == Len(taskRows) + 1
           root == import.parent = 0
           row == [number |-> import.number, column |-> import.column,
                   parent |-> import.parent, issue |-> import.issue, live |-> TRUE]
           todo == IF root THEN Tail(import.todo) ELSE RemoveAt(import.todo, import.at)
           rows == [import.rows EXCEPT ![i] = {id}]
           at == IF root THEN import.at ELSE import.at - 1
<1>1. /\ import \in ImportState /\ import.step = "insert" /\ taskRows \in Seq(TaskRow)
      /\ import.rows \in [Issue -> SUBSET Nat] /\ import.todo \in Seq(Issue)
      /\ import.at \in Nat
  BY DEF HulyInv, HulyTypeOK, InsertTask, ImportIs, ImportState
<1>2. Inserts(import) /\ ~ Preparing(import) /\ ~ import.dry /\ import.todo # <<>>
  BY <1>1 DEF Inserts, Preparing, HulyInv, Transacts
<1>3. /\ root => AtRoots(import) /\ ~ AtSubtasks(import) /\ i = Head(import.todo)
      /\ ~ root => /\ AtSubtasks(import) /\ ~ AtRoots(import) /\ i = import.todo[import.at]
                   /\ import.at > 0 /\ Above[i] \in Issue
                   /\ import.parent \in import.rows[Above[i]]
  <2>1. ~ root => import.at \in DOMAIN import.todo
    BY <1>2 DEF HulyInv, Transacts
  <2>2. ~ root => import.at > 0
    BY <1>1, <2>1
  <2>. QED BY <1>1, <1>2, <2>2 DEF AtRoots, AtSubtasks, Inserts, HulyInv, Transacts
<1>4. /\ i \in Issue /\ i \in Pending(import) /\ import.rows[i] = {} /\ RowsOf(i) = {}
      /\ todo \in Seq(Issue) /\ Once(todo) /\ at \in Nat
      /\ root => Above[i] = 0 /\ Range(todo) = Range(import.todo) \ {i}
      /\ ~ root => Above[i] # 0 /\ at <= Len(todo) /\ Range(todo) = Pending(import) \ {i}
                   /\ \A j \in Range(todo) : Above[j] # 0
  <2>1. CASE root
    <3>1. Once(import.todo)
      BY DEF HulyInv, Todo
    <3>2. Range(Tail(import.todo)) = Range(import.todo) \ {Head(import.todo)}
      BY <1>1, <1>2, <3>1, TailOnce
    <3>. QED BY <1>1, <1>2, <1>3, <2>1, <3>2, NextRoot
  <2>2. CASE ~ root
    BY <1>3, <2>2, NextSubtask
  <2>. QED BY <2>1, <2>2
<1>5. row \in TaskRow
  BY <1>1 DEF ImportState, TaskRow
<1>6. /\ taskRows' = Append(taskRows, row) /\ columnRows' = columnRows
      /\ counterRow' = [lock |-> "none", count |-> import.number]
  BY DEF InsertTask
<1>7. /\ taskRows' \in Seq(TaskRow) /\ TaskIds' = TaskIds \cup {id}
      /\ id \in Nat \ {0} /\ id \notin TaskIds
      /\ \A t \in TaskIds : taskRows'[t] = taskRows[t]
      /\ taskRows'[id] = row
      /\ \A j : RowsOf(j)' = IF j = i THEN RowsOf(j) \cup {id} ELSE RowsOf(j)
      /\ \A s, t \in TaskIds' : s # t => taskRows'[s].number # taskRows'[t].number
  <2>1. \A t \in TaskIds : taskRows[t].number < row.number
    BY <1>1 DEF HulyInv, Numbered
  <2>2. \A s, t \in TaskIds : s # t => taskRows[s].number # taskRows[t].number
    BY DEF HulyInv, Numbered
  <2>3. row.issue = i
    OBVIOUS
  <2>. HIDE DEF row, i
  <2>. QED BY <1>1, <1>5, <1>6, <2>1, <2>2, <2>3, RowAppended
<1>8. Accounted(Pending(import) \ {i}, import.errors, rows) /\ rows \in [Issue -> SUBSET Nat]
  <2>1. Accounted(Pending(import), import.errors, import.rows) /\ id \in Nat
    BY <1>7 DEF HulyInv
  <2>. HIDE DEF id
  <2>. QED BY <1>1, <1>4, <2>1, SettledByRow
<1>9. rows[i] = {id} /\ \A j \in Issue : j # i => rows[j] = import.rows[j]
  BY <1>1, <1>4
<1>10. import' = [import EXCEPT !.rows = rows, !.todo = todo, !.at = at, !.progress = ~ root,
                                !.step = IF root THEN "roots" ELSE "pass"]
  BY <1>1 DEF InsertTask, ImportGoes, ImportState
<1>11. row.parent = import.parent
  OBVIOUS
<1>12. import.parent # 0 => ~ root
  OBVIOUS
<1>13. root => import.parent = 0
  OBVIOUS
<1>. HIDE DEF row, rows, todo, at, root, id, i
<1>14. /\ import' \in ImportState /\ import'.dry = import.dry
       /\ root => import'.step = "roots"
       /\ ~ root => import'.step = "pass"
       /\ import'.rows = rows /\ import'.errors = import.errors
       /\ import'.columns = import.columns /\ import'.at = at /\ import'.status = import.status
       /\ import'.todo = todo
  <2>1. CASE root
    <3>1. import' = [import EXCEPT !.rows = rows, !.todo = todo, !.at = at, !.progress = FALSE,
                                   !.step = "roots"]
      BY <1>10, <2>1
    <3>. QED BY <1>1, <1>4, <1>8, <2>1, <3>1 DEF ImportState, ImportStep
  <2>2. CASE ~ root
    <3>1. import' = [import EXCEPT !.rows = rows, !.todo = todo, !.at = at, !.progress = TRUE,
                                   !.step = "pass"]
      BY <1>10, <2>2
    <3>. QED BY <1>1, <1>4, <1>8, <2>2, <3>1 DEF ImportState, ImportStep
  <2>. QED BY <2>1, <2>2
<1>15. /\ ~ Inserts(import') /\ ~ Preparing(import')
       /\ import'.step # "done" /\ import'.step # "insert"
       /\ root => AtRoots(import') /\ ~ AtSubtasks(import')
       /\ ~ root => AtSubtasks(import') /\ ~ AtRoots(import')
  BY <1>14 DEF AtRoots, AtSubtasks, Inserts, Preparing
<1>16. HulyTypeOK'
  <2>1. counterRow' \in [lock : {"none", "import"}, count : Nat]
    BY <1>1, <1>6 DEF ImportState
  <2>. QED BY <1>6, <1>7, <1>14, <2>1 DEF HulyInv, HulyTypeOK
<1>17. Todo(import)'
  <2>1. CASE root
    BY <1>2, <1>3, <1>4, <1>14, <1>15, <2>1 DEF HulyInv, Todo
  <2>2. CASE ~ root
    BY <1>2, <1>3, <1>4, <1>14, <1>15, <2>2 DEF HulyInv, Todo
  <2>. QED BY <2>1, <2>2
<1>18. Accounted(Pending(import), import.errors, import.rows)'
  <2>1. Pending(import') = Pending(import) \ {i}
    <3>1. CASE root
      <4>1. i \notin Later(import)
        <5>1. StatusOf[i] = import.status /\ import.status \in Nat
          <6>1. i \in Range(import.todo)
            BY <1>1, <1>2, <1>3, <3>1, TailOnce DEF HulyInv, Todo
          <6>. QED BY <1>1, <1>3, <3>1, <6>1 DEF HulyInv, Todo, ImportState
        <5>. QED BY <1>4, <3>1, <5>1 DEF Later
      <4>. QED BY <1>2, <1>3, <1>4, <1>14, <1>15, <3>1, <4>1 DEF Pending, Later
    <3>2. CASE ~ root
      BY <1>4, <1>14, <1>15, <3>2 DEF Pending
    <3>. QED BY <3>1, <3>2
  <2>. QED BY <1>8, <1>14, <2>1
<1>19. Transacts(import)'
  BY <1>15 DEF Transacts
<1>20. DryCounts(import)'
  BY <1>2, <1>14 DEF DryCounts
<1>21. RowsMatch(import)'
  <2>1. \A j \in Issue : RowsOf(j) = import.rows[j]
    BY <1>2 DEF HulyInv, RowsMatch
  <2>. QED BY <1>2, <1>4, <1>7, <1>9, <1>14, <2>1 DEF RowsMatch
<1>22. UnderParents'
  <2> SUFFICES ASSUME NEW j \in Issue, NEW t \in RowsOf(j)'
               PROVE  IF Above[j] = 0 THEN taskRows'[t].parent = 0
                      ELSE Above[j] \in Issue /\ taskRows'[t].parent \in RowsOf(Above[j])'
    BY DEF UnderParents
  <2>1. CASE t \in RowsOf(j)
    <3>1. t \in TaskIds
      BY <2>1 DEF RowsOf
    <3>. QED BY <1>7, <2>1, <3>1 DEF HulyInv, UnderParents
  <2>2. CASE t \notin RowsOf(j)
    <3>1. j = i /\ t = id
      BY <1>7, <2>2
    <3>2. taskRows'[t].parent = import.parent
      BY <1>7, <1>11, <3>1
    <3>3. CASE root
      BY <1>4, <1>13, <3>1, <3>2, <3>3
    <3>4. CASE ~ root
      <4>1. RowsOf(Above[i]) = import.rows[Above[i]]
        BY <1>2, <1>3, <3>4 DEF HulyInv, RowsMatch
      <4>2. Above[i] # 0 /\ Above[i] \in Issue /\ import.parent \in RowsOf(Above[i])
        BY <1>3, <1>4, <3>4, <4>1
      <4>3. \A r : RowsOf(r) \subseteq RowsOf(r)'
        BY <1>7
      <4>4. import.parent \in RowsOf(Above[j])'
        BY <3>1, <4>2, <4>3
      <4>. QED BY <3>1, <3>2, <4>2, <4>4
    <3>. QED BY <3>3, <3>4
  <2>. QED BY <2>1, <2>2
<1>23. Numbered'
  BY <1>7, <1>15 DEF Numbered
<1>. QED BY <1>16, <1>17, <1>18, <1>19, <1>20, <1>21, <1>22, <1>23 DEF HulyInv

LEMMA UserCreatesKeeps ==
    ASSUME HulyInv, UserCreates
    PROVE  HulyInv'
<1> DEFINE id == Len(taskRows) + 1
           row == [number |-> NextNumber, column |-> 1, parent |-> 0, issue |-> 0, live |-> TRUE]
<1>1. /\ counterRow.lock = "none" /\ taskRows' = Append(taskRows, row)
      /\ counterRow' = [counterRow EXCEPT !.count = NextNumber]
      /\ import' = import /\ columnRows' = columnRows
  BY DEF UserCreates
<1>2. /\ taskRows \in Seq(TaskRow) /\ counterRow \in [lock : {"none", "import"}, count : Nat]
  BY DEF HulyInv, HulyTypeOK
<1>3. NextNumber \in Nat /\ \A t \in TaskIds : taskRows[t].number < NextNumber
  BY <1>2, NextNumberIsNew
<1>4. row \in TaskRow /\ row.number = NextNumber /\ row.issue = 0
  BY <1>3 DEF TaskRow
<1>5. import.step # "insert"
  BY <1>1 DEF HulyInv, Numbered
<1>. HIDE DEF row
<1>6. /\ taskRows' \in Seq(TaskRow) /\ id \notin TaskIds
      /\ \A t \in TaskIds : taskRows'[t] = taskRows[t]
      /\ \A i : RowsOf(i)' = IF i = row.issue THEN RowsOf(i) \cup {id} ELSE RowsOf(i)
      /\ \A s, t \in TaskIds' : s # t => taskRows'[s].number # taskRows'[t].number
  BY <1>1, <1>2, <1>3, <1>4, RowAppended DEF HulyInv, Numbered
<1>7. \A i \in Issue : RowsOf(i)' = RowsOf(i)
  BY <1>4, <1>6, HulyFacts
<1>8. HulyTypeOK'
  <2>1. counterRow' \in [lock : {"none", "import"}, count : Nat]
    BY <1>1, <1>2, <1>3
  <2>. QED BY <1>1, <1>6, <2>1 DEF HulyInv, HulyTypeOK
<1>9. /\ Todo(import)' /\ Accounted(Pending(import), import.errors, import.rows)'
      /\ Transacts(import)' /\ DryCounts(import)'
  <2>1. /\ Todo(import) /\ Accounted(Pending(import), import.errors, import.rows)
        /\ Transacts(import) /\ DryCounts(import)
    BY DEF HulyInv
  <2>. QED BY <1>1, <2>1
<1>10. RowsMatch(import)'
  BY <1>1, <1>7 DEF HulyInv, RowsMatch
<1>11. UnderParents'
  <2> SUFFICES ASSUME NEW i \in Issue, NEW t \in RowsOf(i)'
               PROVE  IF Above[i] = 0 THEN taskRows'[t].parent = 0
                      ELSE Above[i] \in Issue /\ taskRows'[t].parent \in RowsOf(Above[i])'
    BY DEF UnderParents
  <2>1. t \in RowsOf(i) /\ taskRows'[t] = taskRows[t]
    BY <1>6, <1>7 DEF RowsOf
  <2>. QED BY <1>7, <2>1 DEF HulyInv, UnderParents
<1>12. Numbered'
  BY <1>1, <1>5, <1>6 DEF Numbered
<1>. QED BY <1>8, <1>9, <1>10, <1>11, <1>12 DEF HulyInv

LEMMA UserArchivesKeeps ==
    ASSUME HulyInv, UserArchives
    PROVE  HulyInv'
<1>1. PICK a \in TaskIds :
        taskRows' = [s \in TaskIds |-> IF s = a \/ taskRows[s].parent = a
                                       THEN [taskRows[s] EXCEPT !.live = FALSE]
                                       ELSE taskRows[s]]
  BY DEF UserArchives
<1>2. UNCHANGED <<import, columnRows, counterRow>> /\ taskRows \in Seq(TaskRow)
  BY DEF UserArchives, HulyInv, HulyTypeOK
<1>3. /\ TaskIds = 1 .. Len(taskRows) /\ Len(taskRows) \in Nat
      /\ \A t \in TaskIds : taskRows[t] \in TaskRow
  BY <1>2 DEF TaskIds
<1>4. TaskIds' = TaskIds
  BY <1>1 DEF TaskIds
<1>5. \A t \in TaskIds : /\ taskRows'[t] \in TaskRow
                         /\ taskRows'[t].number = taskRows[t].number
                         /\ taskRows'[t].parent = taskRows[t].parent
                         /\ taskRows'[t].issue = taskRows[t].issue
  BY <1>1, <1>3 DEF TaskRow
<1>6. taskRows' \in Seq(TaskRow)
  <2>1. DOMAIN taskRows' = 1 .. Len(taskRows) /\ \A t \in DOMAIN taskRows' : taskRows'[t] \in TaskRow
    BY <1>3, <1>4, <1>5 DEF TaskIds
  <2>2. taskRows' = [t \in 1 .. Len(taskRows) |-> taskRows'[t]]
    BY <1>1, <1>3
  <2>. QED BY <1>3, <2>1, <2>2
<1>7. \A i : RowsOf(i)' = RowsOf(i)
  BY <1>4, <1>5 DEF RowsOf
<1>8. HulyTypeOK'
  BY <1>2, <1>6 DEF HulyInv, HulyTypeOK
<1>9. /\ Todo(import)' /\ Accounted(Pending(import), import.errors, import.rows)'
      /\ Transacts(import)' /\ DryCounts(import)'
  <2>1. /\ Todo(import) /\ Accounted(Pending(import), import.errors, import.rows)
        /\ Transacts(import) /\ DryCounts(import)
    BY DEF HulyInv
  <2>. QED BY <1>2, <2>1
<1>10. RowsMatch(import)'
  BY <1>2, <1>7 DEF HulyInv, RowsMatch
<1>11. UnderParents'
  <2>1. \A i : \A t \in RowsOf(i) : taskRows'[t].parent = taskRows[t].parent
    BY <1>5 DEF RowsOf
  <2>. QED BY <1>7, <2>1 DEF HulyInv, UnderParents
<1>12. Numbered'
  BY <1>2, <1>4, <1>5 DEF HulyInv, Numbered
<1>. QED BY <1>8, <1>9, <1>10, <1>11, <1>12 DEF HulyInv

LEMMA HulyStarts == HulyInit => HulyInv
<1> SUFFICES ASSUME HulyInit PROVE HulyInv
  OBVIOUS
<1> DEFINE S == FirstNumbers  n == Cardinality(S)  ranked == Ranked(S)
<1>1. S \in SUBSET Nat /\ IsFiniteSet(S) /\ FirstCounter \in Nat
  BY HulyImportAssumption DEF HulyImportAssumption
<1>2. n \in Nat /\ ranked \in Seq(Nat) /\ Len(ranked) = n /\ Once(ranked)
  <2>1. ranked \in Seq(S) /\ Len(ranked) = n /\ Once(ranked)
    BY <1>1, RankedIsSorted
  <2>2. ranked \in Seq(Nat)
    BY <1>1, <2>1, WiderSequence
  <2>. QED BY <1>1, <2>1, <2>2, FS_CardinalityType
<1>. HIDE DEF S, n, ranked
<1>3. \A k \in 1 .. n : ranked[k] \in Nat
  BY <1>2
<1>4. taskRows = [k \in 1 .. n |-> [number |-> ranked[k], column |-> 1, parent |-> 0, issue |-> 0,
                                    live |-> FALSE]]
  BY DEF HulyInit, n, S, ranked
<1>5. /\ import.step = "idle" /\ import.dry = FALSE /\ import.todo = <<>>
      /\ import.rows = [i \in Issue |-> {}] /\ import.errors = <<>>
  BY DEF HulyInit
<1>6. Preparing(import) /\ ~ Inserts(import) /\ ~ AtRoots(import) /\ ~ AtSubtasks(import)
  BY <1>5 DEF Preparing, Inserts, AtRoots, AtSubtasks
<1>7. HulyTypeOK
  <2>1. import \in ImportState
    BY DEF HulyInit, ImportState, ImportStep
  <2>2. taskRows \in Seq(TaskRow)
    <3>1. \A k \in 1 .. n : [number |-> ranked[k], column |-> 1, parent |-> 0, issue |-> 0,
                             live |-> FALSE] \in TaskRow
      BY <1>3 DEF TaskRow
    <3>. QED BY <1>2, <1>4, <3>1
  <2>3. columnRows \in Seq(Nat)
    <3>1. \A c \in 1 .. FirstColumns : c - 1 \in Nat
      BY HulyFacts
    <3>2. columnRows = [c \in 1 .. FirstColumns |-> c - 1]
      BY DEF HulyInit
    <3>. QED BY <3>1, <3>2, HulyFacts
  <2>4. counterRow \in [lock : {"none", "import"}, count : Nat]
    BY <1>1 DEF HulyInit
  <2>. QED BY <2>1, <2>2, <2>3, <2>4 DEF HulyTypeOK
<1>8. TaskIds = 1 .. n /\ \A t \in TaskIds : taskRows[t].number = ranked[t] /\ taskRows[t].issue = 0
  BY <1>4 DEF TaskIds
<1>9. \A i \in Issue : RowsOf(i) = {}
  BY <1>8, HulyFacts DEF RowsOf
<1>10. Todo(import)
  BY <1>5, <1>6 DEF Todo, Once
<1>11. Accounted(Pending(import), import.errors, import.rows)
  <2>1. Once(<<>>) /\ Range(<<>>) = {}
    BY DEF Once, Range
  <2>. QED BY <1>5, <1>6, <2>1 DEF Accounted, Pending
<1>12. Transacts(import)
  BY <1>6 DEF Transacts
<1>13. DryCounts(import)
  BY <1>5 DEF DryCounts
<1>14. RowsMatch(import) /\ UnderParents
  BY <1>5, <1>9 DEF RowsMatch, UnderParents
<1>15. Numbered
  BY <1>2, <1>5, <1>8 DEF Numbered, Once
<1>. QED BY <1>7, <1>10, <1>11, <1>12, <1>13, <1>14, <1>15 DEF HulyInv

LEMMA HulyStep == HulyInv /\ [HulyNext]_hulyVars => HulyInv'
<1> SUFFICES ASSUME HulyInv, [HulyNext]_hulyVars PROVE HulyInv'
  OBVIOUS
<1>1. CASE UNCHANGED hulyVars
  <2>1. /\ import' = import /\ columnRows' = columnRows
        /\ taskRows' = taskRows /\ counterRow' = counterRow
    BY <1>1 DEF hulyVars
  <2>2. HulyTypeOK'
    BY <2>1 DEF HulyInv, HulyTypeOK
  <2>3. TaskIds' = TaskIds /\ \A i : RowsOf(i)' = RowsOf(i)
    BY <2>1 DEF TaskIds, RowsOf
  <2>4. RowsMatch(import)' /\ UnderParents' /\ Numbered'
    BY <2>1, <2>3 DEF HulyInv, RowsMatch, UnderParents, Numbered
  <2>5. /\ Todo(import) /\ Accounted(Pending(import), import.errors, import.rows)
        /\ Transacts(import) /\ DryCounts(import)
    BY DEF HulyInv
  <2>. QED BY <2>1, <2>2, <2>4, <2>5 DEF HulyInv
<1>2. CASE HulyNext
  BY <1>2, StartImportKeeps, CreateColumnKeeps, SaveColumnOrdersKeeps, NextStatusKeeps,
     DryRootKeeps, BeginRootKeeps, ReserveNumberKeeps, InsertTaskKeeps, TaskFailsKeeps,
     SkipForNowKeeps, BeginSubtaskKeeps, EndPassKeeps, UserCreatesKeeps, UserArchivesKeeps
     DEF HulyNext
<1>. QED BY <1>1, <1>2

\* Where the import is done, an issue is in one of the three lists.
LEMMA DoneIsAccounted == HulyInv => ImportIsAccountedFor
<1> SUFFICES ASSUME HulyInv PROVE ImportIsAccountedFor
  OBVIOUS
<1>1. \A s, t \in TaskIds : s # t => taskRows[s].number # taskRows[t].number
  BY DEF HulyInv, Numbered
<1>2. \A i \in Issue : \A t \in RowsOf(i) :
        IF Above[i] = 0 THEN taskRows[t].parent = 0
        ELSE Above[i] \in Issue /\ taskRows[t].parent \in RowsOf(Above[i])
  BY DEF HulyInv, UnderParents
<1>3. ASSUME ImportIs("done"), NEW i \in Issue
      PROVE  Mentions(import.errors, i) + Mentions(import.skipped, i)
               + Cardinality(import.rows[i]) = 1
  <2>1. import.step = "done" /\ import.skipped = import.todo
    BY <1>3 DEF ImportIs, HulyInv, Todo
  <2>2. Pending(import) = Range(import.skipped)
    BY <2>1 DEF Pending, Preparing, AtRoots, Inserts
  <2>3. Once(import.errors) /\ Once(import.skipped)
    BY <2>1 DEF HulyInv, Todo, Accounted
  <2>4. /\ Mentions(import.errors, i) = IF i \in Range(import.errors) THEN 1 ELSE 0
        /\ Mentions(import.skipped, i) = IF i \in Range(import.skipped) THEN 1 ELSE 0
    BY <2>3, MentionsOnce
  <2>5. /\ i \in Range(import.skipped) \/ i \in Range(import.errors) \/ import.rows[i] # {}
        /\ i \in Range(import.skipped) => i \notin Range(import.errors) /\ import.rows[i] = {}
        /\ i \in Range(import.errors) => import.rows[i] = {}
        /\ \A s, t \in import.rows[i] : s = t
    BY <2>2 DEF HulyInv, Accounted
  <2>6. CASE import.rows[i] = {}
    <3>1. Cardinality(import.rows[i]) = 0
      BY <2>6, FS_EmptySet
    <3>. QED BY <2>4, <2>5, <2>6, <3>1
  <2>7. CASE import.rows[i] # {}
    <3>1. PICK t : t \in import.rows[i]
      BY <2>7
    <3>2. import.rows[i] = {t}
      BY <2>5, <3>1
    <3>3. Cardinality(import.rows[i]) = 1
      BY <3>2, FS_Singleton
    <3>. QED BY <2>4, <2>5, <2>7, <3>3
  <2>. QED BY <2>6, <2>7
<1>4. ~ import.dry => \A i \in Issue : RowsOf(i) = import.rows[i]
  BY DEF HulyInv, RowsMatch
<1>5. import.dry => \A i \in Issue : RowsOf(i) = {}
  BY DEF HulyInv, RowsMatch
<1>6. ASSUME ImportIs("done"), import.dry, NEW i \in Issue
      PROVE  import.rows[i] = {} <=> Above[i] # 0 /\ ~ ParentHasRow(i)
  <2>1. import.step = "done"
    BY <1>6 DEF ImportIs
  <2>2. ParentHasRow(i) <=> HasParent(import, i)
    BY DEF ParentHasRow, HasParent
  <2>3. Pending(import) = Range(import.todo) /\ AtSubtasks(import)
    BY <2>1 DEF Pending, Preparing, AtRoots, Inserts, AtSubtasks
  <2>4. ASSUME import.rows[i] = {} PROVE Above[i] # 0 /\ ~ ParentHasRow(i)
    <3>1. Range(import.errors) = {}
      BY <1>6 DEF HulyInv, DryCounts, Range
    <3>2. i \in Range(import.todo)
      BY <2>3, <2>4, <3>1 DEF HulyInv, Accounted
    <3>. QED BY <1>6, <2>1, <2>2, <2>3, <3>2 DEF HulyInv, DryCounts, Todo
  <2>5. ASSUME import.rows[i] # {} PROVE ~ (Above[i] # 0 /\ ~ ParentHasRow(i))
    BY <1>6, <2>2, <2>5 DEF HulyInv, DryCounts
  <2>. QED BY <2>4, <2>5
<1>. QED BY <1>1, <1>2, <1>3, <1>4, <1>5, <1>6 DEF ImportIsAccountedFor

\* The summary of the script is true of the board, for every board and any number of users
\* beside it: an issue has one row under its parent's row, or is reported once, as failed or
\* skipped; a dry run writes nothing and skips the issues whose parents it has not counted.
THEOREM ImportAccounted == HulySpec => []ImportIsAccountedFor
<1>1. HulySpec => []HulyInv
  BY HulyStarts, HulyStep, PTL DEF HulySpec
<1>. QED BY <1>1, DoneIsAccounted, PTL

----------------------------------------------------------------------------
(* TaskLists.  The tasks of the forest do not move while a list is read, so that each
   statement finds what a definition of the whole query says, and every page is the next
   piece of one and the same sequence. *)

ForestOK ==
    /\ parent \in [Item -> Item \cup {0}] /\ IsForest(parent)
    /\ lane \in [Item -> ColumnId] /\ live \in SUBSET Item

ReadingSteps == {"idle", "refused", "search", "candidates", "children", "match", "workers",
                 "tags", "page", "ids", "counters", "done"}

ReadingType ==
    [q : Query \cup {NoQuery}, step : ReadingSteps, found : SUBSET Item, cards : SUBSET Item,
     level : SUBSET Item, match : SUBSET Item, ids : Seq(Item), offset : Nat, got : Seq(Item)]

\* What the statements of getByColumn find: the roots with the text sought, the tasks or
\* roots to filter, those and their subtasks, and what is left after each filter.
FoundBy(q) ==
    IF q.search
    THEN {IF Flat(q) \/ parent[c] = 0 THEN c ELSE parent[c] :
             c \in {c \in Item : InLane(c, q) /\ Attr[c].text}}
    ELSE Item
Candidates(q) ==
    {c \in Item : /\ InLane(c, q) /\ (Flat(q) \/ parent[c] = 0)
                  /\ (~ q.sub \/ Flat(q)) => OneOf(Attr[c].priority, q.priorities)}
Examined(q) ==
    IF Flat(q) \/ ~ q.sub THEN Candidates(q) ELSE UNION {CardOf(r) : r \in Candidates(q)}
Suitable(q) ==
    {c \in Examined(q) : /\ OneOf(Attr[c].creator, q.creators)
                         /\ q.sub => OneOf(Attr[c].priority, q.priorities)
                         /\ MatchesDateRange(Attr[c].due, q.from, q.to)}
SuitableOf(q) == {c \in Suitable(q) : AnyOf(Attr[c].workers, q.workers)}
Tagged(q) == {c \in SuitableOf(q) : AnyOf(Attr[c].tags, q.tags)}
MatchedBy(q) ==
    IF ~ HasFilters(q) THEN Item
    ELSE IF Flat(q) THEN Tagged(q) ELSE {Root[c] : c \in Tagged(q)}

\* The beginning of a list, up to the next page.
ReadSoFar(r, list) == r.offset <= Len(list) /\ r.got = SubSeq(list, 1, r.offset)

ColumnReading(r) ==
    /\ r.step \in {"search", "candidates", "children", "match", "workers", "tags", "page",
                   "done", "refused"}
    /\ ReadSoFar(r, Sorted(Belonging(r.q)))
    /\ r.step # "done" /\ r.q.limit = 0 => r.offset = 0
    /\ r.step = "done" => r.offset = Len(Sorted(Belonging(r.q)))
    /\ r.step \in {"candidates", "children", "match", "workers", "tags"} => HasFilters(r.q)
    /\ r.step \in {"candidates", "children", "match", "workers", "tags", "page"} =>
          r.found = FoundBy(r.q)
    /\ r.step = "children" =>
          /\ ~ Flat(r.q) /\ r.q.sub
          /\ Candidates(r.q) \subseteq r.cards /\ r.cards \subseteq Examined(r.q)
          /\ r.level \subseteq r.cards
          /\ \A d \in live : parent[d] \in r.cards \ r.level => d \in r.cards
    /\ r.step = "match" => r.cards = Examined(r.q)
    /\ r.step = "workers" => r.match = Suitable(r.q)
    /\ r.step = "tags" => r.match = SuitableOf(r.q)
    /\ r.step = "page" => r.match = MatchedBy(r.q)

PersonalReading(r) ==
    LET list == ByDate({c \in Item : Personal(c, r.q)}, r.q)
    IN  /\ r.step \in {"page", "done", "refused"} /\ ReadSoFar(r, list)
        /\ r.step = "done" => r.offset = Len(list)

GanttReading(r) ==
    /\ r.step \in {"page", "done", "refused"}
    /\ r.step = "done" => r.got = ByLane(OnTheGantt(r.q))

CountersReading(r) ==
    LET list == ById({c \in Item : Personal(c, r.q)})
        before == IF r.offset < Len(list) THEN r.offset ELSE Len(list)
    IN  /\ r.step \in {"ids", "counters", "done", "refused"}
        /\ r.step = "ids" => r.offset = 0 /\ r.got = <<>>
        /\ r.step \in {"counters", "done"} =>
              r.ids = list /\ r.got = SubSeq(list, 1, before)
        /\ r.step = "done" => r.offset >= Len(list)

ReadingInv(r) ==
    r.step # "idle" =>
        /\ r.q \in Query
        /\ r.q.kind = "column" => ColumnReading(r)
        /\ r.q.kind = "personal" => PersonalReading(r)
        /\ r.q.kind = "gantt" => GanttReading(r)
        /\ r.q.kind = "counters" => CountersReading(r)

ListsInv == ForestOK /\ reading \in ReadingType /\ ReadingInv(reading)

\* Reading a list changes no task, and what belongs on it stays what it is.
LEMMA RootKept ==
    ASSUME UNCHANGED <<parent, lane, live>> PROVE Root' = Root
BY DEF Root


LEMMA QueryKept ==
    ASSUME UNCHANGED <<parent, lane, live>>, NEW q
    PROVE  /\ FoundBy(q)' = FoundBy(q) /\ Candidates(q)' = Candidates(q)
           /\ Examined(q)' = Examined(q) /\ Suitable(q)' = Suitable(q)
           /\ SuitableOf(q)' = SuitableOf(q) /\ MatchedBy(q)' = MatchedBy(q)
           /\ Belonging(q)' = Belonging(q) /\ OnTheGantt(q)' = OnTheGantt(q)
           /\ \A c : Personal(c, q)' = Personal(c, q)
           /\ \A S : ByLane(S)' = ByLane(S)
<1>1. FoundBy(q)' = FoundBy(q)
  BY DEF FoundBy, InLane, Shown
<1>2. Candidates(q)' = Candidates(q)
  BY DEF Candidates, InLane, Shown
<1>3. Examined(q)' = Examined(q)
  BY <1>2 DEF Examined, CardOf, Candidates, InLane, Shown
<1>4. Suitable(q)' = Suitable(q)
  BY <1>3 DEF Suitable, Examined, CardOf, Candidates, InLane, Shown
<1>5. SuitableOf(q)' = SuitableOf(q)
  BY <1>4 DEF SuitableOf, Suitable, Examined, CardOf, Candidates, InLane, Shown
<1>6. MatchedBy(q)' = MatchedBy(q)
  BY <1>5 DEF MatchedBy, Tagged, SuitableOf, Suitable, Examined, CardOf, Candidates,
              InLane, Shown, Root
<1>7. Belonging(q)' = Belonging(q)
  BY DEF Belonging, MatchesAll, CardOf, InLane, Shown
<1>8. OnTheGantt(q)' = OnTheGantt(q)
  BY DEF OnTheGantt
<1>9. \A c : Personal(c, q)' = Personal(c, q)
  BY DEF Personal
<1>10. \A S : ByLane(S)' = ByLane(S)
  BY DEF ByLane, EarlierPlace, Ranking
<1>. QED BY <1>1, <1>2, <1>3, <1>4, <1>5, <1>6, <1>7, <1>8, <1>9, <1>10

LEMMA InvKept ==
    ASSUME UNCHANGED <<parent, lane, live>>, NEW r
    PROVE  ReadingInv(r)' = ReadingInv(r)
<1>1. ColumnReading(r)' = ColumnReading(r)
  BY QueryKept DEF ColumnReading
<1>2. PersonalReading(r)' = PersonalReading(r)
  BY QueryKept DEF PersonalReading
<1>3. GanttReading(r)' = GanttReading(r)
  BY QueryKept DEF GanttReading
<1>4. CountersReading(r)' = CountersReading(r)
  BY QueryKept DEF CountersReading
<1>. QED BY <1>1, <1>2, <1>3, <1>4 DEF ReadingInv

LEMMA ReadingKeeps ==
    ASSUME ListsInv, NEW new \in ReadingType, NEW step \in ReadingSteps, Becomes(step, new),
           ReadingInv([new EXCEPT !.step = step])
    PROVE  ListsInv'
<1> DEFINE r == [new EXCEPT !.step = step]
<1>1. reading' = r /\ UNCHANGED <<parent, lane, live>>
  BY DEF Becomes
<1>2. r \in ReadingType
  BY DEF ReadingType
<1> HIDE DEF r
<1>3. ReadingInv(r)'
  BY <1>1, InvKept DEF r
<1>. QED BY <1>1, <1>2, <1>3 DEF ListsInv, ForestOK

----------------------------------------------------------------------------
(* The sequences. *)

LEMMA RankingIsSequence ==
    ASSUME NEW S, IsFiniteSet(S), NEW R, TotallyOrders(R, S)
    PROVE  /\ Ranking(S, R) \in Seq(S) /\ Len(Ranking(S, R)) \in Nat
           /\ Len(Ranking(S, R)) = Cardinality(S)
<1>1. PICK s : Sorts(s, R, S)
  BY SortedSequence
<1>2. Ranking(S, R) \in SetToSeqs(S)
  BY <1>1 DEF Ranking, Sorts
<1>. QED BY <1>2, SequenceOfSet

LEMMA ListOfTasks ==
    ASSUME NEW S \in SUBSET Item, NEW R, TotallyOrders(R, Item)
    PROVE  /\ Ranking(S, R) \in Seq(Item) /\ Len(Ranking(S, R)) \in Nat
           /\ Len(Ranking(S, R)) = Cardinality(S)
<1>1. IsFiniteSet(S)
  BY TaskListsAssumption, FS_Subset DEF TaskListsAssumption
<1>2. TotallyOrders(R, S)
  BY DEF TotallyOrders
<1>3. Ranking(S, R) \in Seq(S)
  BY <1>1, <1>2, RankingIsSequence
<1>. QED BY <1>1, <1>2, <1>3, RankingIsSequence, WiderSequence

LEMMA TasksAreOrdered ==
    /\ TotallyOrders(EarlierPlace, Item)
    /\ \A desc : TotallyOrders(EarlierDate(desc), Item)
    /\ TotallyOrders({e \in Item \X Item : e[1] < e[2]}, Item)
<1>1. \A c \in Item : c \in Nat /\ Attr[c].order \in Nat /\ Attr[c].due \in Nat
  BY TaskListsAssumption DEF TaskListsAssumption
<1>2. TotallyOrders(EarlierPlace, Item)
  BY <1>1 DEF TotallyOrders, EarlierPlace
<1>3. ASSUME NEW desc PROVE TotallyOrders(EarlierDate(desc), Item)
  BY <1>1 DEF TotallyOrders, EarlierDate
<1>4. TotallyOrders({e \in Item \X Item : e[1] < e[2]}, Item)
  BY <1>1 DEF TotallyOrders
<1>. QED BY <1>2, <1>3, <1>4

LEMMA Lists ==
    ASSUME NEW S \in SUBSET Item, NEW q
    PROVE  /\ Sorted(S) \in Seq(Item) /\ Len(Sorted(S)) \in Nat
           /\ Len(Sorted(S)) = Cardinality(S)
           /\ ByDate(S, q) \in Seq(Item) /\ Len(ByDate(S, q)) \in Nat
           /\ ById(S) \in Seq(Item) /\ Len(ById(S)) \in Nat
BY TasksAreOrdered, ListOfTasks DEF Sorted, ByDate, ById

LEMMA NextPiece ==
    ASSUME NEW s \in Seq(Item), NEW a \in Nat, NEW b \in Nat, a <= b, b <= Len(s)
    PROVE  /\ SubSeq(s, 1, a) \in Seq(Item)
           /\ SubSeq(s, a + 1, b) \in Seq(Item) /\ Len(SubSeq(s, a + 1, b)) = b - a
           /\ SubSeq(s, 1, a) \o SubSeq(s, a + 1, b) = SubSeq(s, 1, b)
           /\ SubSeq(s, 1, Len(s)) = s
<1>1. SubSeq(s, 1, a) \in Seq(Item) /\ Len(SubSeq(s, 1, a)) = a
  OBVIOUS
<1>2. SubSeq(s, a + 1, b) \in Seq(Item) /\ Len(SubSeq(s, a + 1, b)) = b - a
  OBVIOUS
<1>3. SubSeq(s, 1, a) \o SubSeq(s, a + 1, b) = SubSeq(s, 1, b)
  OBVIOUS
<1>4. SubSeq(s, 1, Len(s)) = s
  OBVIOUS
<1>. QED BY <1>1, <1>2, <1>3, <1>4

LEMMA SliceIsPiece ==
    ASSUME NEW s \in Seq(Item), NEW offset \in Nat, NEW limit \in Nat,
           offset <= Len(s), limit = 0 => offset = 0
    PROVE  \E end \in Nat :
              /\ offset <= end /\ end <= Len(s)
              /\ Slice(s, offset, limit) = SubSeq(s, offset + 1, end)
              /\ limit = 0 \/ Len(s) < offset + limit => end = Len(s)
              /\ ~ (limit = 0 \/ Len(s) < offset + limit) => end = offset + limit
<1> DEFINE end == IF limit = 0 \/ Len(s) < offset + limit THEN Len(s) ELSE offset + limit
<1>1. Len(s) \in Nat /\ end \in Nat /\ offset <= end /\ end <= Len(s)
  OBVIOUS
<1>2. Slice(s, offset, limit) = SubSeq(s, offset + 1, end)
  <2>1. CASE limit = 0
    BY <1>1, <2>1, NextPiece DEF Slice
  <2>2. CASE limit # 0
    BY <2>2 DEF Slice
  <2>. QED BY <2>1, <2>2
<1>. QED BY <1>1, <1>2

LEMMA NextSlice ==
    ASSUME NEW s \in Seq(Item), NEW offset \in Nat, NEW limit \in Nat,
           offset <= Len(s), limit = 0 => offset = 0,
           NEW items, items = Slice(s, offset, limit)
    PROVE  /\ items \in Seq(Item) /\ Len(items) \in Nat /\ offset + Len(items) <= Len(s)
           /\ SubSeq(s, 1, offset) \o items = SubSeq(s, 1, offset + Len(items))
<1>1. PICK end \in Nat : offset <= end /\ end <= Len(s) /\ items = SubSeq(s, offset + 1, end)
  BY SliceIsPiece
<1>2. /\ items \in Seq(Item) /\ Len(items) = end - offset
      /\ SubSeq(s, 1, offset) \o items = SubSeq(s, 1, end)
  BY <1>1, NextPiece
<1>3. offset + Len(items) = end
  BY <1>1, <1>2
<1>. QED BY <1>1, <1>2, <1>3

LEMMA SliceLength ==
    ASSUME NEW s \in Seq(Item), NEW offset \in Nat, NEW limit \in Nat,
           offset <= Len(s), limit = 0 => offset = 0,
           NEW items, items = Slice(s, offset, limit)
    PROVE  /\ limit = 0 \/ Len(s) < offset + limit => offset + Len(items) = Len(s)
           /\ ~ (limit = 0 \/ Len(s) < offset + limit) => Len(items) = limit
<1>1. PICK end \in Nat :
         /\ offset <= end /\ end <= Len(s) /\ items = SubSeq(s, offset + 1, end)
         /\ limit = 0 \/ Len(s) < offset + limit => end = Len(s)
         /\ ~ (limit = 0 \/ Len(s) < offset + limit) => end = offset + limit
  BY SliceIsPiece
<1>2. Len(items) = end - offset
  BY <1>1, NextPiece
<1>. QED BY <1>1, <1>2

LEMMA JoinedTasks ==
    ASSUME NEW s \in Seq(Item), NEW t \in Seq(Item) PROVE s \o t \in Seq(Item)
OBVIOUS

----------------------------------------------------------------------------
(* Trees. *)

\* Every group of tasks has one whose parent is outside it, and there are finitely many
\* tasks: walking up from any task ends.  The tasks not yet walked from get fewer by one
\* whose parent is done.
LEMMA RootExists ==
    ASSUME ForestOK
    PROVE  \E f : f = [c \in Item |-> IF parent[c] = 0 THEN c ELSE f[parent[c]]]
<1> DEFINE Closed(T) == \A c \in T : parent[c] # 0 => parent[c] \in T
           Walks(f, T) == f = [c \in T |-> IF parent[c] = 0 THEN c ELSE f[parent[c]]]
           P == {U \in SUBSET Item : Closed(Item \ U) /\ \E f : Walks(f, Item \ U)}
<1>0. Item \subseteq Nat \ {0} /\ IsFiniteSet(Item) /\ parent \in [Item -> Item \cup {0}]
  BY TaskListsAssumption DEF TaskListsAssumption, ForestOK
<1>1. P # {}
  <2> DEFINE f == [c \in {} |-> 0]
  <2>1. Item \ Item = {} /\ Closed({}) /\ Walks(f, {})
    OBVIOUS
  <2>2. Item \in P
    <3>1. Walks(f, Item \ Item) /\ Closed(Item \ Item)
      BY <2>1
    <3>. QED BY <3>1
  <2>. QED BY <2>2
<1>2. P \subseteq SUBSET Item
  OBVIOUS
<1> HIDE DEF P
<1>3. PICK U \in P : \A V \in P : V \subseteq U => V = U
  BY <1>0, <1>1, <1>2, SmallestSet
<1>4. U \in SUBSET Item /\ Closed(Item \ U) /\ \E f : Walks(f, Item \ U)
  BY DEF P
<1>5. CASE U = {}
  <2>1. Item \ U = Item
    BY <1>5
  <2>. QED BY <1>4, <2>1
<1>6. CASE U # {}
  <2>1. PICK m \in U : parent[m] \notin U
    BY <1>4, <1>6 DEF ForestOK, IsForest
  <2> DEFINE T == Item \ U
             V == U \ {m}
             W == Item \ V
  <2>2. m \in W /\ m \notin T /\ \A c : c \in W <=> c = m \/ c \in T
    BY <1>4
  <2>3. parent[m] # 0 => parent[m] \in T
    BY <1>0, <1>4, <2>1
  <2>4. PICK g : Walks(g, T)
    BY <1>4
  <2>5. \A c \in T : parent[c] # 0 => parent[c] \in T
    BY <1>4
  <2> DEFINE f == [c \in W |-> IF c # m THEN g[c] ELSE IF parent[m] = 0 THEN m ELSE g[parent[m]]]
  <2>6. V \in SUBSET Item /\ V \subseteq U /\ V # U
    BY <1>4, <2>1
  <2> HIDE DEF T, V
  <2>7. Closed(W)
    BY <2>2, <2>3, <2>5
  <2>8. ASSUME NEW c \in W
        PROVE  f[c] = IF parent[c] = 0 THEN c ELSE f[parent[c]]
    <3>1. parent[c] # 0 => parent[c] \in W /\ parent[c] # m
      BY <2>2, <2>3, <2>5
    <3>2. CASE c = m
      BY <3>1, <3>2
    <3>3. CASE c # m
      <4>1. g[c] = IF parent[c] = 0 THEN c ELSE g[parent[c]]
        BY <2>2, <2>4, <3>3
      <4>. QED BY <3>1, <3>3, <4>1
    <3>. QED BY <3>2, <3>3
  <2>9. Walks(f, W)
    <3> HIDE DEF W
    <3>. QED BY <2>8
  <2>10. V \in P
    BY <2>6, <2>7, <2>9 DEF P
  <2>. QED BY <1>3, <2>6, <2>10
<1>. QED BY <1>5, <1>6

LEMMA RootOf ==
    ASSUME ForestOK
    PROVE  \A c \in Item : Root[c] = IF parent[c] = 0 THEN c ELSE Root[parent[c]]
<1>1. Root = [c \in Item |-> IF parent[c] = 0 THEN c ELSE Root[parent[c]]]
  BY RootExists DEF Root
<1>. QED BY <1>1

\* The tasks of a root's card are tasks whose root it is.
LEMMA CardHasOneRoot ==
    ASSUME ForestOK, NEW r \in Item, parent[r] = 0
    PROVE  /\ r \in CardOf(r) /\ \A c \in CardOf(r) : c \in Item /\ Root[c] = r
           /\ \A d \in live : parent[d] \in CardOf(r) => d \in CardOf(r)
<1>0. 0 \notin Item
  BY TaskListsAssumption DEF TaskListsAssumption
<1> DEFINE S == {c \in Item : Root[c] = r}
<1>1. r \in S
  BY RootOf
<1>2. \A d \in live : parent[d] \in S => d \in S
  BY <1>0, RootOf DEF ForestOK
<1>3. r \in CardOf(r)
  BY DEF CardOf
<1>4. ASSUME NEW c \in CardOf(r) PROVE c \in Item /\ Root[c] = r
  <2>1. c \in S
    BY <1>1, <1>2 DEF CardOf
  <2>. QED BY <2>1
<1>5. \A d \in live : parent[d] \in CardOf(r) => d \in CardOf(r)
  BY DEF CardOf, ForestOK
<1>. QED BY <1>3, <1>4, <1>5

LEMMA CandidatesAreRoots ==
    ASSUME NEW q, ~ Flat(q)
    PROVE  Candidates(q) \subseteq Item /\ \A r \in Candidates(q) : parent[r] = 0
BY DEF Candidates

LEMMA ExaminedIsClosed ==
    ASSUME ForestOK, NEW q
    PROVE  /\ Examined(q) \subseteq Item /\ Candidates(q) \subseteq Examined(q)
           /\ ~ Flat(q) /\ q.sub =>
                 \A d \in live : parent[d] \in Examined(q) => d \in Examined(q)
<1>1. CASE Flat(q) \/ ~ q.sub
  BY <1>1 DEF Examined, Candidates
<1>2. CASE ~ (Flat(q) \/ ~ q.sub)
  BY <1>2, CandidatesAreRoots, CardHasOneRoot DEF Examined
<1>. QED BY <1>1, <1>2

\* When there are no more children to find, all of the cards have been found.
LEMMA ClosedIsExamined ==
    ASSUME ForestOK, NEW q, ~ Flat(q), q.sub, NEW C, Candidates(q) \subseteq C,
           C \subseteq Examined(q), \A d \in live : parent[d] \in C => d \in C
    PROVE  C = Examined(q)
<1> SUFFICES ASSUME NEW c \in Examined(q) PROVE c \in C
  OBVIOUS
<1>1. PICK r \in Candidates(q) : c \in CardOf(r)
  BY DEF Examined
<1>2. C \in SUBSET Item
  BY ExaminedIsClosed
<1>. QED BY <1>1, <1>2 DEF CardOf

\* What the filters leave and the search finds is what belongs on the list.
LEMMA RowsBelong ==
    ASSUME ForestOK, NEW q
    PROVE  {c \in FoundBy(q) \cap MatchedBy(q) : InLane(c, q) /\ (Flat(q) \/ parent[c] = 0)}
             = Belonging(q)
<1> DEFINE rows == {c \in FoundBy(q) \cap MatchedBy(q) :
                       InLane(c, q) /\ (Flat(q) \/ parent[c] = 0)}
           Hit(c) == ~ q.search \/ \E d \in Item : InLane(d, q) /\ Attr[d].text
                                                    /\ (d = c \/ parent[d] = c)
<1>0. 0 \notin Item
  BY TaskListsAssumption DEF TaskListsAssumption
<1>1. CASE Flat(q)
  <2>1. \A c \in Item : InLane(c, q) => (c \in FoundBy(q) <=> (q.search => Attr[c].text))
    BY <1>1 DEF FoundBy
  <2>2. \A c \in Item : InLane(c, q) => (c \in MatchedBy(q) <=> MatchesAll(c, q))
    <3>1. CASE ~ HasFilters(q)
      BY <3>1 DEF HasFilters, MatchedBy, MatchesAll, OneOf, AnyOf, MatchesDateRange
    <3>2. CASE HasFilters(q)
      BY <1>1, <3>2 DEF MatchedBy, MatchesAll, Tagged, SuitableOf, Suitable, Examined, Candidates
    <3>. QED BY <3>1, <3>2
  <2>3. FoundBy(q) \subseteq Item
    BY <1>1 DEF FoundBy
  <2>. QED BY <1>1, <2>1, <2>2, <2>3 DEF Belonging
<1>2. CASE ~ Flat(q)
  <2> DEFINE Suits(r) == \E c \in IF q.sub THEN CardOf(r) ELSE {r} : MatchesAll(c, q)
  <2>1. FoundBy(q) \subseteq Item /\ \A r \in Item : parent[r] = 0 => (r \in FoundBy(q) <=> Hit(r))
    BY <1>0, <1>2 DEF FoundBy, ForestOK
  <2>2. ASSUME NEW r \in Item, InLane(r, q), parent[r] = 0
        PROVE  r \in MatchedBy(q) <=> Suits(r)
    <3>0. r \in CardOf(r) /\ Root[r] = r
      BY <2>2, CardHasOneRoot
    <3>1. CASE ~ HasFilters(q)
      <4>1. r \in MatchedBy(q) /\ MatchesAll(r, q)
        BY <3>1 DEF HasFilters, MatchedBy, MatchesAll, OneOf, AnyOf, MatchesDateRange
      <4>. QED BY <3>0, <4>1
    <3>2. CASE HasFilters(q)
      <4>1. r \in MatchedBy(q) <=> \E c \in Tagged(q) : Root[c] = r
        BY <1>2, <3>2 DEF MatchedBy
      <4>2. CASE q.sub
        <5>1. r \in Candidates(q)
          BY <1>2, <2>2, <4>2 DEF Candidates
        <5>2. \A c \in Item : c \in Examined(q) /\ Root[c] = r <=> c \in CardOf(r)
          <6>1. \A c \in CardOf(r) : c \in Examined(q) /\ Root[c] = r
            BY <1>2, <2>2, <4>2, <5>1, CardHasOneRoot DEF Examined
          <6>2. ASSUME NEW c \in Examined(q), Root[c] = r PROVE c \in CardOf(r)
            <7>1. PICK s \in Candidates(q) : c \in CardOf(s)
              BY <1>2, <4>2 DEF Examined
            <7>2. s = r
              BY <1>2, <6>2, <7>1, CandidatesAreRoots, CardHasOneRoot
            <7>. QED BY <7>1, <7>2
          <6>. QED BY <6>1, <6>2
        <5>3. \A c \in Item : c \in Tagged(q) <=> c \in Examined(q) /\ MatchesAll(c, q)
          BY <4>2 DEF Tagged, SuitableOf, Suitable, MatchesAll
        <5>4. Tagged(q) \subseteq Item /\ CardOf(r) \subseteq Item
          BY ExaminedIsClosed DEF Tagged, SuitableOf, Suitable, CardOf
        <5>. QED BY <4>1, <4>2, <5>2, <5>3, <5>4
      <4>3. CASE ~ q.sub
        <5>1. \A c \in Tagged(q) : c \in Candidates(q)
          BY <4>3 DEF Tagged, SuitableOf, Suitable, Examined
        <5>2. \A c \in Tagged(q) : Root[c] = c
          BY <1>2, <5>1, CandidatesAreRoots, RootOf
        <5>3. r \in MatchedBy(q) <=> r \in Tagged(q)
          BY <3>0, <4>1, <5>2
        <5>4. r \in Tagged(q) <=> MatchesAll(r, q)
          BY <1>2, <2>2, <4>3 DEF Tagged, SuitableOf, Suitable, Examined, Candidates, MatchesAll
        <5>. QED BY <4>3, <5>3, <5>4
      <4>. QED BY <4>2, <4>3
    <3>. QED BY <3>1, <3>2
  <2>3. Belonging(q) = {r \in Item : InLane(r, q) /\ parent[r] = 0 /\ Hit(r) /\ Suits(r)}
    BY <1>2 DEF Belonging
  <2> HIDE DEF Hit, Suits
  <2>. QED BY <1>2, <2>1, <2>2, <2>3
<1>. QED BY <1>1, <1>2

----------------------------------------------------------------------------
(* The steps. *)

LEMMA NoReadingTyped == NoReading \in ReadingType /\ NoReading.step = "idle"
<1>1. <<>> \in Seq(Item)
  OBVIOUS
<1>2. NoReading \in ReadingType
  BY <1>1 DEF NoReading, ReadingType, ReadingSteps
<1>3. NoReading.step = "idle"
  BY DEF NoReading
<1>. QED BY <1>2, <1>3

LEMMA ListsStart == ListsInit => ListsInv
<1> SUFFICES ASSUME ListsInit PROVE ListsInv
  OBVIOUS
<1>1. ForestOK
  BY TaskListsAssumption DEF ListsInit, ForestOK, TaskListsAssumption
<1>. QED BY <1>1, NoReadingTyped DEF ListsInit, ListsInv, ReadingInv

LEMMA QueryOf ==
    ASSUME NEW q \in Query
    PROVE  /\ q.kind \in {"column", "personal", "counters", "gantt"} /\ q.limit \in Nat
           /\ q.sub \in BOOLEAN /\ q.search \in BOOLEAN
BY TaskListsAssumption DEF TaskListsAssumption, IsQuery

LEMMA BelongingAreTasks ==
    ASSUME NEW q
    PROVE  /\ Belonging(q) \in SUBSET Item
           /\ {c \in Item : Personal(c, q)} \in SUBSET Item
BY DEF Belonging

LEMMA NothingRead ==
    ASSUME NEW s \in Seq(Item)
    PROVE  SubSeq(s, 1, 0) = <<>> /\ 0 <= Len(s)
OBVIOUS

LEMMA AskKeeps ==
    ASSUME ListsInv, Ask PROVE ListsInv'
<1>1. PICK q \in Query :
         Becomes(CASE q.from # 0 /\ q.to # 0 /\ q.from > q.to -> "refused"
                   [] q.kind = "column" -> "search"
                   [] q.kind \in {"personal", "gantt"} -> "page"
                   [] q.kind = "counters" -> "ids", [NoReading EXCEPT !.q = q])
  BY DEF Ask
<1> DEFINE new == [NoReading EXCEPT !.q = q]
           step == CASE q.from # 0 /\ q.to # 0 /\ q.from > q.to -> "refused"
                     [] q.kind = "column" -> "search"
                     [] q.kind \in {"personal", "gantt"} -> "page"
                     [] q.kind = "counters" -> "ids"
           r == [new EXCEPT !.step = step]
<1>2. /\ step \in {"refused", "search", "page", "ids"}
      /\ step = "refused" \/ (q.kind = "column" /\ step = "search")
           \/ (q.kind \in {"personal", "gantt"} /\ step = "page")
           \/ (q.kind = "counters" /\ step = "ids")
  <2>1. q.kind \in {"column", "personal", "counters", "gantt"}
    BY QueryOf
  <2>. QED BY <2>1
<1> HIDE DEF step
<1>3. new \in ReadingType /\ step \in ReadingSteps
  <2>1. new \in ReadingType
    BY NoReadingTyped DEF ReadingType
  <2>2. step \in ReadingSteps
    BY <1>2 DEF ReadingSteps
  <2>. QED BY <2>1, <2>2
<1>4. r.q = q /\ r.step = step /\ r.offset = 0 /\ r.got = <<>>
  BY DEF NoReading
<1>5. \A S \in SUBSET Item : ReadSoFar(r, Sorted(S)) /\ ReadSoFar(r, ByDate(S, q))
  BY <1>4, Lists, NothingRead DEF ReadSoFar
<1> HIDE DEF r, new
<1>6. ReadingInv(r)
  BY <1>2, <1>4, <1>5, BelongingAreTasks
     DEF ReadingInv, ColumnReading, PersonalReading, GanttReading, CountersReading
<1>. QED BY <1>1, <1>2, <1>3, <1>6, ReadingKeeps DEF r, new, step

LEMMA ColumnGoesOn ==
    ASSUME ListsInv, NEW new \in ReadingType, NEW step \in ReadingSteps, Becomes(step, new),
           reading.q.kind = "column", reading.step # "idle", new.q = reading.q,
           ColumnReading([new EXCEPT !.step = step])
    PROVE  ListsInv'
<1> DEFINE r == [new EXCEPT !.step = step]
<1>1. r.q = reading.q
  BY DEF ReadingType
<1> HIDE DEF r
<1>2. ReadingInv(r)
  BY <1>1 DEF ReadingInv, ListsInv, r
<1>. QED BY <1>2, ReadingKeeps DEF r

LEMMA ColumnOf ==
    ASSUME ListsInv, NEW step, ReadingIs({"column"}, step), step # "idle"
    PROVE  /\ ForestOK /\ reading \in ReadingType /\ reading.q \in Query
           /\ reading.q.kind = "column" /\ reading.step = step /\ ColumnReading(reading)
BY DEF ReadingIs, ListsInv, ReadingInv

\* A statement before the page: what has been got stays.
LEMMA ColumnStatement ==
    ASSUME ListsInv, reading.q.kind = "column", reading.q \in Query, reading \in ReadingType,
           ColumnReading(reading), reading.step \notin {"idle", "done"},
           NEW new \in ReadingType, NEW step \in ReadingSteps, Becomes(step, new),
           new.q = reading.q, new.offset = reading.offset, new.got = reading.got,
           step \in {"candidates", "children", "match", "workers", "tags", "page"},
           new.found = FoundBy(reading.q),
           step # "page" => HasFilters(reading.q),
           step = "children" =>
              /\ ~ Flat(reading.q) /\ reading.q.sub
              /\ Candidates(reading.q) \subseteq new.cards
              /\ new.cards \subseteq Examined(reading.q) /\ new.level \subseteq new.cards
              /\ \A d \in live : parent[d] \in new.cards \ new.level => d \in new.cards,
           step = "match" => new.cards = Examined(reading.q),
           step = "workers" => new.match = Suitable(reading.q),
           step = "tags" => new.match = SuitableOf(reading.q),
           step = "page" => new.match = MatchedBy(reading.q)
    PROVE  ListsInv'
<1> DEFINE r == [new EXCEPT !.step = step]
<1>1. /\ r.q = reading.q /\ r.step = step /\ r.offset = reading.offset /\ r.got = reading.got
      /\ r.found = new.found /\ r.cards = new.cards /\ r.level = new.level
      /\ r.match = new.match
  BY DEF ReadingType
<1> HIDE DEF r
<1>2. ReadSoFar(r, Sorted(Belonging(r.q)))
  BY <1>1 DEF ColumnReading, ReadSoFar
<1>3. r.q.limit = 0 => r.offset = 0
  BY <1>1 DEF ColumnReading
<1>4. ColumnReading(r)
  BY <1>1, <1>2, <1>3 DEF ColumnReading
<1>. QED BY <1>4, ColumnGoesOn DEF r

LEMMA SearchKeeps ==
    ASSUME ListsInv, FindMatchingRootTaskIds PROVE ListsInv'
<1> DEFINE matches == {c \in Item : InLane(c, Q) /\ Attr[c].text}
           found == {IF Flat(Q) \/ parent[c] = 0 THEN c ELSE parent[c] : c \in matches}
           step == IF HasFilters(Q) THEN "candidates" ELSE "page"
           new == [reading EXCEPT !.found = IF Q.search THEN found ELSE Item,
                                  !.match = IF HasFilters(Q) THEN {} ELSE Item]
<1>1. ReadingIs({"column"}, "search") /\ Becomes(step, new)
  BY DEF FindMatchingRootTaskIds
<1>2. /\ ForestOK /\ reading \in ReadingType /\ reading.q \in Query /\ ColumnReading(reading)
      /\ reading.q.kind = "column" /\ reading.step = "search"
  BY <1>1, ColumnOf
<1>3. found \in SUBSET Item
  BY <1>2 DEF ForestOK
<1>4. new.found = FoundBy(reading.q)
  BY <1>2 DEF FoundBy, ReadingType, Q
<1> HIDE DEF found, matches
<1>5. new \in ReadingType
  BY <1>2, <1>3 DEF ReadingType
<1>6. /\ new.q = reading.q /\ new.offset = reading.offset /\ new.got = reading.got
      /\ ~ HasFilters(reading.q) => new.match = Item
  BY <1>2 DEF ReadingType, Q
<1>7. /\ step \in ReadingSteps /\ step \in {"candidates", "page"}
      /\ step = "page" <=> ~ HasFilters(reading.q)
  BY DEF ReadingSteps, Q
<1>8. ~ HasFilters(reading.q) => MatchedBy(reading.q) = Item
  BY DEF MatchedBy
<1> HIDE DEF new, step
<1>. QED BY <1>1, <1>2, <1>4, <1>5, <1>6, <1>7, <1>8, ColumnStatement

LEMMA CandidatesKeep ==
    ASSUME ListsInv, FindFilterCandidates PROVE ListsInv'
<1> DEFINE roots == {c \in Item : /\ InLane(c, Q) /\ (Flat(Q) \/ parent[c] = 0)
                                  /\ (~ Q.sub \/ Flat(Q)) => OneOf(Attr[c].priority, Q.priorities)}
           step == IF Flat(Q) \/ ~ Q.sub \/ roots = {} THEN "match" ELSE "children"
           new == [reading EXCEPT !.cards = roots, !.level = roots]
<1>1. ReadingIs({"column"}, "candidates") /\ Becomes(step, new)
  BY DEF FindFilterCandidates
<1>2. /\ ForestOK /\ reading \in ReadingType /\ reading.q \in Query /\ ColumnReading(reading)
      /\ reading.q.kind = "column" /\ reading.step = "candidates"
  BY <1>1, ColumnOf
<1>3. HasFilters(reading.q) /\ reading.found = FoundBy(reading.q)
  BY <1>2 DEF ColumnReading
<1>4. roots = Candidates(reading.q) /\ roots \in SUBSET Item
  BY DEF Candidates, Q
<1> HIDE DEF roots
<1>5. /\ new \in ReadingType /\ new.q = reading.q /\ new.offset = reading.offset
      /\ new.got = reading.got /\ new.found = FoundBy(reading.q)
      /\ new.cards = roots /\ new.level = roots
  BY <1>2, <1>3, <1>4 DEF ReadingType
<1>6. /\ step \in ReadingSteps /\ step \in {"match", "children"}
      /\ step = "children" => ~ Flat(reading.q) /\ reading.q.sub
  BY DEF ReadingSteps, Q
<1>7. step = "match" => roots = Examined(reading.q)
  BY <1>4 DEF Examined, Q
<1> HIDE DEF new, step
<1>8. Candidates(reading.q) \subseteq Examined(reading.q)
  BY <1>2, ExaminedIsClosed
<1>. QED BY <1>1, <1>2, <1>3, <1>4, <1>5, <1>6, <1>7, <1>8, ColumnStatement

LEMMA ChildrenKeep ==
    ASSUME ListsInv, FindChildren PROVE ListsInv'
<1> DEFINE more == {c \in live : parent[c] \in reading.level} \ reading.cards
           step == IF more = {} THEN "match" ELSE "children"
           new == [reading EXCEPT !.cards = @ \cup more, !.level = more]
<1>1. ReadingIs({"column"}, "children") /\ Becomes(step, new)
  BY DEF FindChildren
<1>2. /\ ForestOK /\ reading \in ReadingType /\ reading.q \in Query /\ ColumnReading(reading)
      /\ reading.q.kind = "column" /\ reading.step = "children"
  BY <1>1, ColumnOf
<1>3. /\ HasFilters(reading.q) /\ reading.found = FoundBy(reading.q)
      /\ ~ Flat(reading.q) /\ reading.q.sub
      /\ Candidates(reading.q) \subseteq reading.cards
      /\ reading.cards \subseteq Examined(reading.q) /\ reading.level \subseteq reading.cards
      /\ \A d \in live : parent[d] \in reading.cards \ reading.level => d \in reading.cards
  BY <1>2 DEF ColumnReading
<1>4. more \in SUBSET Item /\ more \subseteq Examined(reading.q)
  BY <1>2, <1>3, ExaminedIsClosed DEF ForestOK
<1>5. /\ new \in ReadingType /\ new.q = reading.q /\ new.offset = reading.offset
      /\ new.got = reading.got /\ new.found = FoundBy(reading.q)
      /\ new.cards = reading.cards \cup more /\ new.level = more
  <2> HIDE DEF more
  <2>1. new \in ReadingType
    BY <1>2, <1>4 DEF ReadingType
  <2>. QED BY <1>2, <1>3, <2>1 DEF ReadingType
<1>6. \A d \in live : parent[d] \in reading.cards => d \in reading.cards \cup more
  BY <1>3
<1>7. step \in ReadingSteps /\ step \in {"match", "children"} /\ (step = "match" => more = {})
  BY DEF ReadingSteps
<1> HIDE DEF more, new, step
<1>8. step = "match" => new.cards = Examined(reading.q)
  BY <1>2, <1>3, <1>5, <1>6, <1>7, ClosedIsExamined
<1>9. \A d \in live : parent[d] \in new.cards \ new.level => d \in new.cards
  BY <1>5, <1>6
<1>. QED BY <1>1, <1>2, <1>3, <1>4, <1>5, <1>7, <1>8, <1>9, ColumnStatement

LEMMA FiltersKeep ==
    ASSUME ListsInv, MatchCandidates \/ MatchWorkers PROVE ListsInv'
<1>1. CASE MatchCandidates
  <2> DEFINE new == [reading EXCEPT !.match =
                {c \in reading.cards :
                    /\ OneOf(Attr[c].creator, Q.creators)
                    /\ Q.sub => OneOf(Attr[c].priority, Q.priorities)
                    /\ MatchesDateRange(Attr[c].due, Q.from, Q.to)}]
  <2>1. ReadingIs({"column"}, "match") /\ Becomes("workers", new)
    BY <1>1 DEF MatchCandidates
  <2>2. /\ ForestOK /\ reading \in ReadingType /\ reading.q \in Query /\ ColumnReading(reading)
        /\ reading.q.kind = "column" /\ reading.step = "match"
    BY <2>1, ColumnOf
  <2>3. /\ HasFilters(reading.q) /\ reading.found = FoundBy(reading.q)
        /\ reading.cards = Examined(reading.q)
    BY <2>2 DEF ColumnReading
  <2>4. new.match = Suitable(reading.q)
    BY <2>2, <2>3 DEF Suitable, ReadingType, Q
  <2>5. Suitable(reading.q) \in SUBSET Item
    BY <2>2, <2>3 DEF Suitable, ReadingType
  <2>6. /\ new \in ReadingType /\ new.q = reading.q /\ new.offset = reading.offset
        /\ new.got = reading.got /\ new.found = FoundBy(reading.q)
    BY <2>2, <2>3, <2>4, <2>5 DEF ReadingType
  <2>7. "workers" \in ReadingSteps
    BY DEF ReadingSteps
  <2> HIDE DEF new
  <2>. QED BY <2>1, <2>2, <2>3, <2>4, <2>6, <2>7, ColumnStatement
<1>2. CASE MatchWorkers
  <2> DEFINE new == [reading EXCEPT !.match = {c \in @ : AnyOf(Attr[c].workers, Q.workers)}]
  <2>1. ReadingIs({"column"}, "workers") /\ Becomes("tags", new)
    BY <1>2 DEF MatchWorkers
  <2>2. /\ ForestOK /\ reading \in ReadingType /\ reading.q \in Query /\ ColumnReading(reading)
        /\ reading.q.kind = "column" /\ reading.step = "workers"
    BY <2>1, ColumnOf
  <2>3. /\ HasFilters(reading.q) /\ reading.found = FoundBy(reading.q)
        /\ reading.match = Suitable(reading.q)
    BY <2>2 DEF ColumnReading
  <2>4. new.match = SuitableOf(reading.q)
    BY <2>2, <2>3 DEF SuitableOf, ReadingType, Q
  <2>5. SuitableOf(reading.q) \in SUBSET Item
    BY <2>2, <2>3 DEF SuitableOf, ReadingType
  <2>6. /\ new \in ReadingType /\ new.q = reading.q /\ new.offset = reading.offset
        /\ new.got = reading.got /\ new.found = FoundBy(reading.q)
    BY <2>2, <2>3, <2>4, <2>5 DEF ReadingType
  <2>7. "tags" \in ReadingSteps
    BY DEF ReadingSteps
  <2> HIDE DEF new
  <2>. QED BY <2>1, <2>2, <2>3, <2>4, <2>6, <2>7, ColumnStatement
<1>. QED BY <1>1, <1>2

LEMMA MatchedAreTasks ==
    ASSUME ForestOK, NEW q
    PROVE  MatchedBy(q) \in SUBSET Item
<1>1. Tagged(q) \subseteq Examined(q) /\ Tagged(q) \subseteq Item
  BY ExaminedIsClosed DEF Tagged, SuitableOf, Suitable
<1>2. ASSUME ~ Flat(q), NEW c \in Examined(q) PROVE Root[c] \in Item
  <2>1. CASE q.sub
    <3>1. PICK r \in Candidates(q) : c \in CardOf(r)
      BY <1>2, <2>1 DEF Examined
    <3>2. r \in Item /\ parent[r] = 0
      BY <1>2, <3>1, CandidatesAreRoots
    <3>. QED BY <3>1, <3>2, CardHasOneRoot
  <2>2. CASE ~ q.sub
    <3>1. c \in Item /\ parent[c] = 0
      BY <1>2, <2>2, CandidatesAreRoots DEF Examined
    <3>. QED BY <3>1, RootOf
  <2>. QED BY <2>1, <2>2
<1>. QED BY <1>1, <1>2 DEF MatchedBy

LEMMA TagsKeep ==
    ASSUME ListsInv, MatchTags PROVE ListsInv'
<1> DEFINE matching == {c \in reading.match : AnyOf(Attr[c].tags, Q.tags)}
           new == [reading EXCEPT !.match =
                      IF Flat(Q) THEN matching ELSE {Root[c] : c \in matching}]
<1>1. ReadingIs({"column"}, "tags") /\ Becomes("page", new)
  BY DEF MatchTags
<1>2. /\ ForestOK /\ reading \in ReadingType /\ reading.q \in Query /\ ColumnReading(reading)
      /\ reading.q.kind = "column" /\ reading.step = "tags"
  BY <1>1, ColumnOf
<1>3. /\ HasFilters(reading.q) /\ reading.found = FoundBy(reading.q)
      /\ reading.match = SuitableOf(reading.q)
  BY <1>2 DEF ColumnReading
<1>4. matching = Tagged(reading.q)
  BY <1>3 DEF Tagged, Q
<1> HIDE DEF matching
<1>5. new.match = MatchedBy(reading.q)
  BY <1>2, <1>3, <1>4 DEF MatchedBy, ReadingType, Q
<1>6. new \in ReadingType
  BY <1>2, <1>5, MatchedAreTasks DEF ReadingType
<1>7. /\ new.q = reading.q /\ new.offset = reading.offset /\ new.got = reading.got
      /\ new.found = FoundBy(reading.q)
  BY <1>2, <1>3 DEF ReadingType
<1>8. "page" \in ReadingSteps
  BY DEF ReadingSteps
<1> HIDE DEF new
<1>. QED BY <1>1, <1>2, <1>5, <1>6, <1>7, <1>8, ColumnStatement

LEMMA ReadPageKeeps ==
    ASSUME ListsInv, ReadPage PROVE ListsInv'
<1> DEFINE rows == {c \in reading.found \cap reading.match :
                       InLane(c, Q) /\ (Flat(Q) \/ parent[c] = 0)}
           list == Sorted(rows)
           items == Slice(list, reading.offset, Q.limit)
           hasMore == Q.limit # 0 /\ reading.offset + Len(items) < Cardinality(rows)
           step == IF hasMore THEN "search" ELSE "done"
           new == [reading EXCEPT !.got = @ \o items, !.offset = @ + Len(items)]
           r == [new EXCEPT !.step = step]
<1>1. ReadingIs({"column"}, "page") /\ Becomes(step, new)
  BY DEF ReadPage
<1>2. /\ ForestOK /\ reading \in ReadingType /\ reading.q \in Query /\ ColumnReading(reading)
      /\ reading.q.kind = "column" /\ reading.step = "page"
  BY <1>1, ColumnOf
<1>3. rows = Belonging(reading.q)
  BY <1>2, RowsBelong DEF ColumnReading, Q
<1>4. rows \in SUBSET Item
  BY <1>3, BelongingAreTasks
<1> HIDE DEF rows
<1>5. list \in Seq(Item) /\ Len(list) \in Nat /\ Len(list) = Cardinality(rows)
  BY <1>4, Lists
<1>6. /\ reading.offset <= Len(list) /\ reading.got = SubSeq(list, 1, reading.offset)
      /\ Q.limit = 0 => reading.offset = 0
  BY <1>2, <1>3 DEF ColumnReading, ReadSoFar, Q
<1>7. Q.limit \in Nat /\ reading.offset \in Nat /\ reading.got \in Seq(Item)
  BY <1>2, QueryOf DEF ReadingType, Q
<1> HIDE DEF list
<1>8. items = Slice(list, reading.offset, Q.limit)
  OBVIOUS
<1> HIDE DEF items
<1>9. /\ items \in Seq(Item) /\ Len(items) \in Nat /\ reading.offset + Len(items) <= Len(list)
      /\ reading.got \o items = SubSeq(list, 1, reading.offset + Len(items))
  <2>1. /\ items \in Seq(Item) /\ Len(items) \in Nat
        /\ reading.offset + Len(items) <= Len(list)
        /\ SubSeq(list, 1, reading.offset) \o items
             = SubSeq(list, 1, reading.offset + Len(items))
    <3> DEFINE offset == reading.offset  limit == Q.limit
    <3>1. /\ list \in Seq(Item) /\ offset \in Nat /\ limit \in Nat /\ offset <= Len(list)
          /\ limit = 0 => offset = 0
          /\ items = Slice(list, offset, limit)
      BY <1>5, <1>6, <1>7, <1>8
    <3> HIDE DEF offset, limit
    <3>2. /\ items \in Seq(Item) /\ Len(items) \in Nat /\ offset + Len(items) <= Len(list)
          /\ SubSeq(list, 1, offset) \o items = SubSeq(list, 1, offset + Len(items))
      BY <3>1, NextSlice
    <3>. QED BY <3>2 DEF offset
  <2>. QED BY <1>6, <2>1
<1>10. ~ hasMore => reading.offset + Len(items) = Len(list)
  <2>1. Q.limit = 0 => reading.offset + Len(items) = Len(list)
    BY <1>5, <1>6, <1>7, <1>8, SliceLength
  <2>. QED BY <1>5, <1>7, <1>9, <2>1
<1>11. step \in ReadingSteps /\ step \in {"search", "done"} /\ (step = "search" => Q.limit # 0)
       /\ (step = "done" => ~ hasMore)
  BY DEF ReadingSteps
<1> HIDE DEF hasMore, step
<1>12. reading.got \o items \in Seq(Item) /\ reading.offset + Len(items) \in Nat
  <2>1. reading.got \o items \in Seq(Item)
    BY <1>7, <1>9, JoinedTasks, Zenon
  <2>2. reading.offset + Len(items) \in Nat
    BY <1>7, <1>9
  <2>. QED BY <2>1, <2>2
<1>13. /\ new \in ReadingType /\ new.q = reading.q
       /\ new.got = reading.got \o items /\ new.offset = reading.offset + Len(items)
  <2>1. new \in ReadingType
    BY <1>2, <1>12 DEF ReadingType
  <2>. QED BY <1>2, <2>1 DEF ReadingType
<1> HIDE DEF new
<1>14. /\ r.q = reading.q /\ r.step = step /\ r.got = reading.got \o items
       /\ r.offset = reading.offset + Len(items)
  BY <1>13 DEF ReadingType
<1> HIDE DEF r
<1>15. list = Sorted(Belonging(r.q)) /\ r.q.limit = Q.limit
  BY <1>3, <1>14 DEF list, Q
<1>16. ColumnReading(r)
  BY <1>9, <1>10, <1>11, <1>14, <1>15 DEF ColumnReading, ReadSoFar
<1>. QED BY <1>1, <1>2, <1>11, <1>13, <1>16, ColumnGoesOn DEF r

LEMMA PieceOfPiece ==
    ASSUME NEW s \in Seq(Item), NEW a \in Nat, NEW e \in Nat, NEW k \in Nat,
           a + k <= e, e <= Len(s)
    PROVE  SubSeq(SubSeq(s, a + 1, e), 1, k) = SubSeq(s, a + 1, a + k)
<1>1. SubSeq(s, a + 1, e) \in Seq(Item) /\ Len(SubSeq(s, a + 1, e)) = e - a
  OBVIOUS
<1>. QED BY <1>1

\* A page of personal tasks: one row more is read than is shown.
RowsRead(s, offset, limit) == Slice(s, offset, limit + 1)
PageOf(s, offset, limit) == Slice(RowsRead(s, offset, limit), 0, limit)

LEMMA PageAndOneMore ==
    ASSUME NEW s \in Seq(Item), NEW offset \in Nat, NEW limit \in Nat, offset <= Len(s)
    PROVE  /\ PageOf(s, offset, limit) \in Seq(Item) /\ Len(PageOf(s, offset, limit)) \in Nat
           /\ offset + Len(PageOf(s, offset, limit)) <= Len(s)
           /\ SubSeq(s, 1, offset) \o PageOf(s, offset, limit)
                = SubSeq(s, 1, offset + Len(PageOf(s, offset, limit)))
           /\ ~ (Len(RowsRead(s, offset, limit)) > limit) =>
                 offset + Len(PageOf(s, offset, limit)) = Len(s)
<1> DEFINE rows == RowsRead(s, offset, limit)
           items == PageOf(s, offset, limit)
<1>0. rows = Slice(s, offset, limit + 1) /\ items = Slice(rows, 0, limit)
  BY DEF RowsRead, PageOf
<1> HIDE DEF rows, items
<1>1. PICK e \in Nat :
         /\ offset <= e /\ e <= Len(s) /\ rows = SubSeq(s, offset + 1, e)
         /\ Len(s) < offset + (limit + 1) => e = Len(s)
         /\ ~ (Len(s) < offset + (limit + 1)) => e = offset + (limit + 1)
  <2>1. limit + 1 \in Nat /\ limit + 1 # 0
    OBVIOUS
  <2> DEFINE n == limit + 1
  <2> HIDE DEF n
  <2>2. n \in Nat /\ n # 0 /\ rows = Slice(s, offset, n)
    BY <1>0, <2>1 DEF n
  <2>3. PICK e \in Nat :
           /\ offset <= e /\ e <= Len(s) /\ rows = SubSeq(s, offset + 1, e)
           /\ Len(s) < offset + n => e = Len(s)
           /\ ~ (Len(s) < offset + n) => e = offset + n
    BY <2>2, SliceIsPiece
  <2>. QED BY <2>3 DEF n
<1>2. rows \in Seq(Item) /\ Len(rows) = e - offset /\ Len(rows) \in Nat
  <2>1. e \in Nat /\ offset <= e /\ e <= Len(s) /\ rows = SubSeq(s, offset + 1, e)
    BY <1>1
  <2>2. rows \in Seq(Item) /\ Len(rows) = e - offset
    BY <2>1, NextPiece
  <2>. QED BY <2>1, <2>2
<1>3. PICK k \in Nat :
         /\ k <= Len(rows) /\ items = SubSeq(rows, 1, k)
         /\ limit = 0 \/ Len(rows) < limit => k = Len(rows)
         /\ ~ (limit = 0 \/ Len(rows) < limit) => k = limit
  <2>1. CASE limit = 0 \/ Len(rows) < limit
    <3>1. items = SubSeq(rows, 1, Len(rows))
      BY <1>0, <1>2, <2>1, NextPiece DEF Slice
    <3>. QED BY <1>2, <2>1, <3>1
  <2>2. CASE ~ (limit = 0 \/ Len(rows) < limit)
    <3>1. items = SubSeq(rows, 1, limit)
      BY <1>0, <1>2, <2>2 DEF Slice
    <3>. QED BY <1>2, <2>2, <3>1
  <2>. QED BY <2>1, <2>2
<1>4. offset + k <= e /\ offset + k \in Nat /\ offset + k <= Len(s) /\ offset <= offset + k
  BY <1>1, <1>2, <1>3
<1>5. items = SubSeq(s, offset + 1, offset + k)
  BY <1>1, <1>3, <1>4, PieceOfPiece
<1>6. /\ items \in Seq(Item) /\ Len(items) = k
      /\ SubSeq(s, 1, offset) \o items = SubSeq(s, 1, offset + k)
  <2> DEFINE b == offset + k
  <2>1. b \in Nat /\ offset <= b /\ b <= Len(s) /\ items = SubSeq(s, offset + 1, b)
    BY <1>4, <1>5
  <2>2. b - offset = k
    OBVIOUS
  <2> HIDE DEF b
  <2>3. /\ items \in Seq(Item) /\ Len(items) = b - offset
        /\ SubSeq(s, 1, offset) \o items = SubSeq(s, 1, b)
    BY <2>1, NextPiece
  <2>. QED BY <2>2, <2>3 DEF b
<1>7. ~ (Len(rows) > limit) => offset + k = Len(s)
  BY <1>1, <1>2, <1>3
<1>. QED BY <1>4, <1>6, <1>7 DEF rows, items

LEMMA OtherKind ==
    ASSUME ListsInv, NEW kind \in {"personal", "gantt", "counters"}, NEW step,
           ReadingIs({kind}, step), step # "idle"
    PROVE  /\ reading \in ReadingType /\ reading.q \in Query
           /\ reading.q.kind = kind /\ reading.step = step
           /\ kind = "personal" => PersonalReading(reading)
           /\ kind = "gantt" => GanttReading(reading)
           /\ kind = "counters" => CountersReading(reading)
BY DEF ReadingIs, ListsInv, ReadingInv

LEMMA OtherGoesOn ==
    ASSUME ListsInv, NEW kind \in {"personal", "gantt", "counters"},
           reading.q.kind = kind, reading.step # "idle",
           NEW new \in ReadingType, NEW step \in ReadingSteps, Becomes(step, new),
           new.q = reading.q,
           kind = "personal" => PersonalReading([new EXCEPT !.step = step]),
           kind = "gantt" => GanttReading([new EXCEPT !.step = step]),
           kind = "counters" => CountersReading([new EXCEPT !.step = step])
    PROVE  ListsInv'
<1> DEFINE r == [new EXCEPT !.step = step]
<1>1. r.q = reading.q
  BY DEF ReadingType
<1> HIDE DEF r
<1>2. ReadingInv(r)
  BY <1>1 DEF ReadingInv, ListsInv, r
<1>. QED BY <1>2, ReadingKeeps DEF r

\* One row of task_assignees that is wanted, or that makes a task of mine another's work.
LEMMA GanttSelects ==
    ASSUME NEW q
    PROVE  {c \in live : parent[c] = 0 /\ (q.workers # {} => Selected(c, q))} = OnTheGantt(q)
<1>1. ASSUME NEW c \in live
      PROVE  Selected(c, q) <=> \/ Attr[c].workers \cap q.workers # {}
                                \/ q.me \in q.workers /\ Attr[c].creator = q.me
                                     /\ Attr[c].workers \ {q.me} # {}
  BY DEF Selected
<1>. QED BY <1>1 DEF OnTheGantt

LEMMA ByLaneIsSequence ==
    ASSUME ForestOK, NEW S \in SUBSET Item
    PROVE  ByLane(S) \in Seq(Item)
<1> DEFINE R == {e \in Item \X Item :
                    \/ lane[e[1]] < lane[e[2]]
                    \/ lane[e[1]] = lane[e[2]] /\ e \in EarlierPlace}
<1>1. \A c \in Item : c \in Nat /\ Attr[c].order \in Nat /\ lane[c] \in Nat
  BY TaskListsAssumption DEF TaskListsAssumption, ForestOK
<1>2. TotallyOrders(R, Item)
  BY <1>1 DEF TotallyOrders, EarlierPlace
<1>. QED BY <1>2, ListOfTasks DEF ByLane

LEMMA GanttKeeps ==
    ASSUME ListsInv, ReadGantt PROVE ListsInv'
<1> DEFINE list == ByLane({c \in live : parent[c] = 0 /\ (Q.workers # {} => Selected(c, Q))})
           new == [reading EXCEPT !.got = list]
           r == [new EXCEPT !.step = "done"]
<1>1. ReadingIs({"gantt"}, "page") /\ Becomes("done", new)
  BY DEF ReadGantt
<1>2. /\ reading \in ReadingType /\ reading.q \in Query /\ reading.step = "page"
      /\ reading.q.kind = "gantt"
  BY <1>1, OtherKind
<1>3. list = ByLane(OnTheGantt(reading.q))
  BY GanttSelects DEF Q
<1>4. OnTheGantt(reading.q) \in SUBSET Item
  BY DEF OnTheGantt, ListsInv, ForestOK
<1>5. list \in Seq(Item)
  BY <1>3, <1>4, ByLaneIsSequence DEF ListsInv
<1> HIDE DEF list
<1>6. new \in ReadingType /\ new.q = reading.q
  BY <1>2, <1>5 DEF ReadingType
<1>7. r.q = reading.q /\ r.step = "done" /\ r.got = list
  BY <1>2 DEF ReadingType
<1>8. "done" \in ReadingSteps
  BY DEF ReadingSteps
<1> HIDE DEF r
<1>9. GanttReading(r)
  BY <1>3, <1>7 DEF GanttReading
<1> HIDE DEF new
<1>. QED BY <1>1, <1>2, <1>6, <1>8, <1>9, OtherGoesOn DEF r

LEMMA PersonalKeeps ==
    ASSUME ListsInv, ReadPersonalPage PROVE ListsInv'
<1> DEFINE list == ByDate({c \in Item : Personal(c, Q)}, Q)
           rows == Slice(list, reading.offset, Q.limit + 1)
           items == Slice(rows, 0, Q.limit)
           step == IF Len(rows) > Q.limit THEN "page" ELSE "done"
           new == [reading EXCEPT !.got = @ \o items, !.offset = @ + Len(items)]
           r == [new EXCEPT !.step = step]
<1>1. ReadingIs({"personal"}, "page") /\ Becomes(step, new)
  BY DEF ReadPersonalPage
<1>2. /\ reading \in ReadingType /\ reading.q \in Query /\ PersonalReading(reading)
      /\ reading.q.kind = "personal" /\ reading.step = "page"
  BY <1>1, OtherKind
<1>3. list \in Seq(Item) /\ Len(list) \in Nat
  BY BelongingAreTasks, Lists
<1>4. reading.offset <= Len(list) /\ reading.got = SubSeq(list, 1, reading.offset)
  BY <1>2 DEF PersonalReading, ReadSoFar, Q
<1>5. Q.limit \in Nat /\ reading.offset \in Nat /\ reading.got \in Seq(Item)
  BY <1>2, QueryOf DEF ReadingType, Q
<1> HIDE DEF list
<1>6. rows = RowsRead(list, reading.offset, Q.limit) /\ items = PageOf(list, reading.offset, Q.limit)
  BY DEF RowsRead, PageOf
<1> HIDE DEF rows, items
<1>7. /\ items \in Seq(Item) /\ Len(items) \in Nat /\ reading.offset + Len(items) <= Len(list)
      /\ SubSeq(list, 1, reading.offset) \o items = SubSeq(list, 1, reading.offset + Len(items))
      /\ ~ (Len(rows) > Q.limit) => reading.offset + Len(items) = Len(list)
  BY <1>3, <1>4, <1>5, <1>6, PageAndOneMore
<1>8. reading.got \o items \in Seq(Item) /\ reading.offset + Len(items) \in Nat
  <2>1. reading.got \o items \in Seq(Item)
    BY <1>5, <1>7, JoinedTasks, Zenon
  <2>2. reading.offset + Len(items) \in Nat
    BY <1>5, <1>7
  <2>. QED BY <2>1, <2>2
<1>9. step \in ReadingSteps /\ step \in {"page", "done"}
      /\ (step = "done" => ~ (Len(rows) > Q.limit))
  BY DEF ReadingSteps
<1> HIDE DEF step
<1>10. /\ new \in ReadingType /\ new.q = reading.q
       /\ new.got = reading.got \o items /\ new.offset = reading.offset + Len(items)
  <2>1. new \in ReadingType
    BY <1>2, <1>8 DEF ReadingType
  <2>. QED BY <1>2, <2>1 DEF ReadingType
<1> HIDE DEF new
<1>11. /\ r.q = reading.q /\ r.step = step /\ r.got = reading.got \o items
       /\ r.offset = reading.offset + Len(items)
  BY <1>10 DEF ReadingType
<1> HIDE DEF r
<1>12. list = ByDate({c \in Item : Personal(c, r.q)}, r.q)
  BY <1>11 DEF list, Q
<1>13. ReadSoFar(r, list)
  BY <1>4, <1>7, <1>11 DEF ReadSoFar
<1>14. PersonalReading(r)
  BY <1>7, <1>9, <1>11, <1>12, <1>13 DEF PersonalReading
<1>. QED BY <1>1, <1>2, <1>9, <1>10, <1>14, OtherGoesOn DEF r

LEMMA PersonalIdsKeep ==
    ASSUME ListsInv, ReadPersonalIds PROVE ListsInv'
<1> DEFINE list == ById({c \in Item : Personal(c, Q)})
           new == [reading EXCEPT !.ids = list]
           r == [new EXCEPT !.step = "counters"]
<1>1. ReadingIs({"counters"}, "ids") /\ Becomes("counters", new)
  BY DEF ReadPersonalIds
<1>2. /\ reading \in ReadingType /\ reading.q \in Query /\ CountersReading(reading)
      /\ reading.q.kind = "counters" /\ reading.step = "ids"
  BY <1>1, OtherKind
<1>3. list \in Seq(Item) /\ Len(list) \in Nat
  BY BelongingAreTasks, Lists
<1>4. list = ById({c \in Item : Personal(c, reading.q)})
  BY DEF Q
<1> HIDE DEF list
<1>5. new \in ReadingType /\ new.q = reading.q
  BY <1>2, <1>3 DEF ReadingType
<1>6. r.q = reading.q /\ r.step = "counters" /\ r.ids = list /\ r.offset = 0 /\ r.got = <<>>
  BY <1>2 DEF ReadingType, CountersReading
<1>7. "counters" \in ReadingSteps
  BY DEF ReadingSteps
<1> HIDE DEF new, r
<1>8. SubSeq(list, 1, 0) = <<>> /\ (IF 0 < Len(list) THEN 0 ELSE Len(list)) = 0
  BY <1>3
<1>9. CountersReading(r)
  BY <1>4, <1>6, <1>8 DEF CountersReading
<1>. QED BY <1>1, <1>2, <1>5, <1>7, <1>9, OtherGoesOn DEF r, new

LEMMA CountersKeep ==
    ASSUME ListsInv, ReadCounters PROVE ListsInv'
<1> DEFINE list == reading.ids
           offset == reading.offset
           batch == Slice(list, offset, Batch)
<1>1. /\ ReadingIs({"counters"}, "counters")
      /\ IF offset >= Len(list) THEN Becomes("done", reading)
         ELSE \E answer \in {batch, Tail(batch)} :
                 IF Len(answer) # Len(batch) THEN Becomes("refused", reading)
                 ELSE Becomes("counters", [reading EXCEPT !.got = @ \o answer,
                                                          !.offset = @ + Batch])
  BY DEF ReadCounters
<1>2. /\ reading \in ReadingType /\ reading.q \in Query /\ CountersReading(reading)
      /\ reading.q.kind = "counters" /\ reading.step = "counters"
  BY <1>1, OtherKind
<1>3. /\ list = ById({c \in Item : Personal(c, reading.q)})
      /\ reading.got = SubSeq(list, 1, IF offset < Len(list) THEN offset ELSE Len(list))
  BY <1>2 DEF CountersReading
<1>4. /\ list \in Seq(Item) /\ Len(list) \in Nat /\ offset \in Nat /\ reading.got \in Seq(Item)
      /\ Batch \in Nat /\ Batch # 0
  BY <1>2, TaskListsAssumption DEF ReadingType, TaskListsAssumption
<1>5. {"done", "refused", "counters"} \subseteq ReadingSteps
  BY DEF ReadingSteps
<1>6. ASSUME NEW step \in {"done", "refused"}, Becomes(step, reading),
             step = "done" => offset >= Len(list)
      PROVE  ListsInv'
  <2> DEFINE r == [reading EXCEPT !.step = step]
  <2>1. /\ r.q = reading.q /\ r.step = step /\ r.ids = list /\ r.offset = offset
        /\ r.got = reading.got
    BY <1>2 DEF ReadingType
  <2> HIDE DEF r
  <2>2. CountersReading(r)
    BY <1>3, <1>6, <2>1 DEF CountersReading
  <2>. QED BY <1>2, <1>5, <1>6, <2>2, OtherGoesOn DEF r
<1>7. CASE offset >= Len(list)
  BY <1>1, <1>6, <1>7
<1>8. CASE ~ (offset >= Len(list))
  <2>1. PICK answer \in {batch, Tail(batch)} :
           IF Len(answer) # Len(batch) THEN Becomes("refused", reading)
           ELSE Becomes("counters", [reading EXCEPT !.got = @ \o answer, !.offset = @ + Batch])
    BY <1>1, <1>8
  <2>2. CASE Len(answer) # Len(batch)
    BY <1>6, <2>1, <2>2
  <2>3. CASE Len(answer) = Len(batch)
    <3> DEFINE new == [reading EXCEPT !.got = @ \o answer, !.offset = @ + Batch]
               r == [new EXCEPT !.step = "counters"]
               end == IF Len(list) < offset + Batch THEN Len(list) ELSE offset + Batch
    <3>1. /\ batch \in Seq(Item) /\ Len(batch) \in Nat /\ Len(batch) # 0
          /\ offset + Len(batch) = end
          /\ SubSeq(list, 1, offset) \o batch = SubSeq(list, 1, offset + Len(batch))
      <4> DEFINE l == list  o == offset  b == batch
      <4>1. /\ l \in Seq(Item) /\ o \in Nat /\ Batch \in Nat /\ Batch # 0 /\ o <= Len(l)
            /\ Len(l) \in Nat /\ ~ (o >= Len(l)) /\ b = Slice(l, o, Batch)
        BY <1>4, <1>8
      <4> HIDE DEF l, o, b
      <4>2. PICK e \in Nat :
               /\ o <= e /\ e <= Len(l) /\ Slice(l, o, Batch) = SubSeq(l, o + 1, e)
               /\ Batch = 0 \/ Len(l) < o + Batch => e = Len(l)
               /\ ~ (Batch = 0 \/ Len(l) < o + Batch) => e = o + Batch
        BY <4>1, SliceIsPiece, Zenon
      <4>3. /\ b \in Seq(Item) /\ Len(b) = e - o
            /\ SubSeq(l, 1, o) \o b = SubSeq(l, 1, e)
        <5>1. /\ SubSeq(l, o + 1, e) \in Seq(Item) /\ Len(SubSeq(l, o + 1, e)) = e - o
              /\ SubSeq(l, 1, o) \o SubSeq(l, o + 1, e) = SubSeq(l, 1, e)
          BY <4>1, <4>2, NextPiece, Zenon
        <5>. QED BY <4>1, <4>2, <5>1, Zenon
      <4>4. /\ Len(b) \in Nat /\ Len(b) # 0 /\ o + Len(b) = e
            /\ e = IF Len(l) < o + Batch THEN Len(l) ELSE o + Batch
        BY <4>1, <4>2, <4>3
      <4>. QED BY <4>3, <4>4 DEF l, o, b
    <3> HIDE DEF batch
    <3>2. answer = batch
      <4>1. Len(Tail(batch)) = Len(batch) - 1
        BY <3>1
      <4>. QED BY <2>3, <3>1, <4>1
    <3>3. /\ reading.got \o answer = SubSeq(list, 1, end) /\ reading.got \o answer \in Seq(Item)
          /\ offset + Batch \in Nat
      <4>1. reading.got = SubSeq(list, 1, offset)
        <5>1. (IF offset < Len(list) THEN offset ELSE Len(list)) = offset
          BY <1>4, <1>8
        <5>. QED BY <1>3, <5>1
      <4>2. reading.got \o answer \in Seq(Item)
        BY <1>4, <3>1, <3>2, JoinedTasks, Zenon
      <4>3. offset + Batch \in Nat
        BY <1>4
      <4>. QED BY <3>1, <3>2, <4>1, <4>2, <4>3, Zenon
    <3>4. /\ new \in ReadingType /\ new.q = reading.q /\ new.got = reading.got \o answer
          /\ new.offset = offset + Batch /\ new.ids = list
      <4>1. new \in ReadingType
        BY <1>2, <3>3 DEF ReadingType
      <4>. QED BY <1>2, <4>1 DEF ReadingType
    <3>5. Becomes("counters", new)
      BY <2>1, <2>3
    <3> HIDE DEF new
    <3>6. /\ r.q = reading.q /\ r.step = "counters" /\ r.got = SubSeq(list, 1, end)
          /\ r.offset = offset + Batch /\ r.ids = list
      BY <3>3, <3>4 DEF ReadingType
    <3> HIDE DEF r
    <3>7. (IF offset + Batch < Len(list) THEN offset + Batch ELSE Len(list)) = end
      BY <1>4
    <3> HIDE DEF end
    <3>8. CountersReading(r)
      BY <1>3, <3>6, <3>7 DEF CountersReading
    <3>. QED BY <1>2, <1>5, <3>4, <3>5, <3>8, OtherGoesOn DEF r
  <2>. QED BY <2>2, <2>3
<1>. QED BY <1>7, <1>8

LEMMA ListsStep == ListsInv /\ [ListsNext]_listVars => ListsInv'
<1> SUFFICES ASSUME ListsInv, [ListsNext]_listVars PROVE ListsInv'
  OBVIOUS
<1>1. CASE ListsNext
  BY <1>1, AskKeeps, SearchKeeps, CandidatesKeep, ChildrenKeep, FiltersKeep, TagsKeep,
     ReadPageKeeps, GanttKeeps, PersonalKeeps, PersonalIdsKeep, CountersKeep DEF ListsNext
<1>2. CASE UNCHANGED listVars
  <2>1. ReadingInv(reading)' = ReadingInv(reading')
    BY <1>2, InvKept DEF listVars
  <2>. QED BY <1>2, <2>1 DEF listVars, ListsInv, ForestOK
<1>. QED BY <1>1, <1>2

LEMMA ReadIsComplete == ListsInv => ListsAreComplete
<1> SUFFICES ASSUME ListsInv, reading.step = "done"
             PROVE  reading.got = CASE Q.kind = "column" -> Sorted(Belonging(Q))
                                    [] Q.kind = "personal" -> ByDate({c \in Item : Personal(c, Q)}, Q)
                                    [] Q.kind = "gantt" -> ByLane(OnTheGantt(Q))
                                    [] Q.kind = "counters" -> ById({c \in Item : Personal(c, Q)})
  BY DEF ListsAreComplete
<1>1. reading.q \in Query /\ ReadingInv(reading)
  BY DEF ListsInv, ReadingInv
<1>2. \A s \in Seq(Item) : SubSeq(s, 1, Len(s)) = s
  OBVIOUS
<1>3. CASE Q.kind = "column"
  <2>1. Sorted(Belonging(Q)) \in Seq(Item)
    BY BelongingAreTasks, Lists
  <2>2. reading.got = SubSeq(Sorted(Belonging(Q)), 1, Len(Sorted(Belonging(Q))))
    BY <1>1, <1>3 DEF ReadingInv, ColumnReading, ReadSoFar, Q
  <2>. QED BY <1>2, <1>3, <2>1, <2>2
<1>4. CASE Q.kind = "personal"
  <2> DEFINE list == ByDate({c \in Item : Personal(c, Q)}, Q)
  <2>1. list \in Seq(Item)
    BY BelongingAreTasks, Lists
  <2>2. reading.got = SubSeq(list, 1, Len(list))
    BY <1>1, <1>4 DEF ReadingInv, PersonalReading, ReadSoFar, Q
  <2>. QED BY <1>2, <1>4, <2>1, <2>2
<1>5. CASE Q.kind = "gantt"
  BY <1>1, <1>5 DEF ReadingInv, GanttReading, Q
<1>6. CASE Q.kind = "counters"
  <2> DEFINE list == ById({c \in Item : Personal(c, Q)})
  <2>1. list \in Seq(Item) /\ Len(list) \in Nat
    BY BelongingAreTasks, Lists
  <2>2. /\ reading.got = SubSeq(list, 1, IF reading.offset < Len(list) THEN reading.offset
                                         ELSE Len(list))
        /\ reading.offset >= Len(list) /\ reading.offset \in Nat
    BY <1>1, <1>6 DEF ReadingInv, CountersReading, Q, ListsInv, ReadingType
  <2> HIDE DEF list
  <2>3. (IF reading.offset < Len(list) THEN reading.offset ELSE Len(list)) = Len(list)
    BY <2>1, <2>2
  <2>4. reading.got = SubSeq(list, 1, Len(list))
    BY <2>2, <2>3
  <2>. QED BY <1>2, <1>6, <2>1, <2>4 DEF list
<1>7. Q.kind \in {"column", "personal", "counters", "gantt"}
  BY <1>1, QueryOf DEF Q
<1>. QED BY <1>3, <1>4, <1>5, <1>6, <1>7

\* For every forest of tasks, every query and every page size, each statement of a list
\* finds what it should of the whole query, and the pages got so far are the beginning of
\* the list of what belongs on it.
THEOREM ListsInvariant == ListsSpec => []ListsInv
BY ListsStart, ListsStep, PTL DEF ListsSpec

\* A list read to its end, page by page, has what belongs on it, each task once and in
\* order, for every forest of tasks, every combination of filters and every page size.
THEOREM CompleteLists == ListsSpec => []ListsAreComplete
<1>1. ListsSpec => []ListsInv
  BY ListsInvariant
<1>. QED BY <1>1, ReadIsComplete, PTL
===============================================================================
