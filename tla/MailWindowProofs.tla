---------------------------- MODULE MailWindowProofs ----------------------------
(***************************************************************************)
(* What the specification of the list promises, for any number of          *)
(* messages, places, queries, steps and failures.                          *)
(***************************************************************************)
EXTENDS MailWindow, FiniteSetTheorems, SequenceTheorems, NaturalLemmas, TLAPS

-----------------------------------------------------------------------------
(* Rows in order *)

\* A sequence that gives each rank its member lists the set, each member once.
LEMMA Enumerated ==
  ASSUME NEW S, IsFiniteSet(S), NEW before, Order(S, before),
         NEW f \in [1..Cardinality(S) -> S],
         \A k \in 1..Cardinality(S) : Cardinality(before[f[k]]) = k - 1
  PROVE  /\ f \in Seq(S)
         /\ DOMAIN f = 1..Cardinality(S)
         /\ IsInjective(f) /\ ToSet(f) = S
<1>1. DOMAIN f = 1..Cardinality(S)
  OBVIOUS
<1>2. f \in Seq(S)
  BY <1>1, Ranks, SeqDef
<1>3. IsInjective(f)
  <2>1. SUFFICES ASSUME NEW k \in 1..Cardinality(S), NEW l \in 1..Cardinality(S), f[k] = f[l]
                 PROVE  k = l
    BY <1>1 DEF IsInjective
  <2>2. k - 1 = l - 1
    BY <2>1
  <2> QED BY <2>2, Ranks
<1>4. ASSUME NEW i \in S PROVE i \in ToSet(f)
  <2>1. /\ Cardinality(before[i]) + 1 \in 1..Cardinality(S)
        /\ Cardinality(before[i]) + 1 - 1 = Cardinality(before[i])
    BY Ranks
  <2>2. f[Cardinality(before[i]) + 1] = i
    BY <2>1, Ranks
  <2> QED BY <1>1, <2>1, <2>2 DEF ToSet
<1> QED BY <1>1, <1>2, <1>3, <1>4 DEF ToSet

\* NewestFirst lists a set of messages, each once, a newer one before an older.
LEMMA NewestFirstLists ==
  ASSUME NEW ms \in SUBSET Nat, IsFiniteSet(ms)
  PROVE  LET rows == NewestFirst(ms)
         IN  /\ rows \in Seq(ms) /\ IsInjective(rows) /\ ToSet(rows) = ms
             /\ Len(rows) = Cardinality(ms)
             /\ \A k, l \in 1..Len(rows) : k < l => rows[k] > rows[l]
<1> DEFINE before == Newer(ms)
           rows == NewestFirst(ms)
<1>0. \A m \in ms : before[m] = {n \in ms : n > m}
  BY DEF Newer
<1>1. Order(ms, before)
  BY NewerOrders
<1> HIDE DEF before, rows
<1> DEFINE nth(k) == CHOOSE m \in ms : Cardinality({n \in ms : n > m}) = k - 1
<1>2. ASSUME NEW k \in 1..Cardinality(ms)
      PROVE  nth(k) \in ms /\ Cardinality(before[nth(k)]) = k - 1
  <2>1. \E m \in ms : Cardinality({n \in ms : n > m}) = k - 1
    <3>1. \E m \in ms : Cardinality(before[m]) = k - 1
      <4>1. Nth(before, k) \in ms /\ Cardinality(before[Nth(before, k)]) = k - 1
        BY <1>1, Ranks
      <4> QED BY <4>1
    <3> QED BY <1>0, <3>1
  <2>2. nth(k) \in ms /\ Cardinality({n \in ms : n > nth(k)}) = k - 1
    BY <2>1
  <2> QED BY <1>0, <2>2
<1>3. rows = [k \in 1..Cardinality(ms) |-> nth(k)]
  BY DEF NewestFirst, rows
<1> HIDE DEF nth
<1>4. /\ rows \in [1..Cardinality(ms) -> ms]
      /\ \A k \in 1..Cardinality(ms) : Cardinality(before[rows[k]]) = k - 1
  BY <1>2, <1>3
<1>5. /\ rows \in Seq(ms) /\ DOMAIN rows = 1..Cardinality(ms)
      /\ IsInjective(rows) /\ ToSet(rows) = ms
  BY <1>1, <1>4, Enumerated
<1>6. Len(rows) = Cardinality(ms)
  BY <1>4, FS_CardinalityType
<1>7. ASSUME NEW k \in 1..Cardinality(ms), NEW l \in 1..Cardinality(ms), k < l,
             ~(rows[k] > rows[l])
      PROVE  FALSE
  <2>1. rows[k] \in Nat /\ rows[l] \in Nat
    BY <1>4
  <2>2. rows[k] # rows[l]
    BY <1>4, <1>7
  <2>3. rows[l] > rows[k]
    BY <1>7, <2>1, <2>2
  <2>4. before[rows[l]] \in SUBSET before[rows[k]]
    <3>1. rows[k] \in ms /\ rows[l] \in ms /\ rows[l] \in before[rows[k]]
      BY <1>0, <1>4, <2>3
    <3> QED BY <1>1, <3>1 DEF Order
  <2>5. IsFiniteSet(before[rows[k]])
    BY <1>0, <1>4, FS_Subset
  <2>6. Cardinality(before[rows[l]]) <= Cardinality(before[rows[k]])
    BY <2>4, <2>5, FS_Subset
  <2>7. Cardinality(ms) \in Nat
    BY FS_CardinalityType
  <2> QED BY <1>4, <1>7, <2>6, <2>7
<1> QED BY <1>4, <1>5, <1>6, <1>7 DEF rows

\* The rows at some positions.
RowsAt(rows, S) == {rows[i] : i \in S}

\* Rows taken from a set of places, each place once.
LEMMA Rearranged ==
  ASSUME NEW T, NEW rows \in Seq(T), NEW S, S \subseteq DOMAIN rows, NEW from \in Seq(S),
         IsInjective(from), ToSet(from) = S,
         NEW out \in [1..Len(from) -> T], \A k \in 1..Len(from) : out[k] = rows[from[k]]
  PROVE  /\ out \in Seq(T)
         /\ ToSet(out) = RowsAt(rows, S)
         /\ IsInjective(rows) => IsInjective(out)
<1>1. DOMAIN rows = 1..Len(rows) /\ \A i \in DOMAIN rows : rows[i] \in T
  BY LenProperties
<1>2. /\ Len(from) \in Nat /\ DOMAIN from = 1..Len(from)
      /\ \A k \in 1..Len(from) : from[k] \in S
  BY LenProperties
<1>3. DOMAIN out = 1..Len(from)
  OBVIOUS
<1>4. out \in Seq(T)
  BY <1>2, <1>3, SeqDef
<1>5. ToSet(out) = {rows[i] : i \in S}
  <2>1. ASSUME NEW k \in DOMAIN out PROVE out[k] \in {rows[i] : i \in S}
    BY <1>2, <1>3
  <2>2. ASSUME NEW i \in S PROVE rows[i] \in ToSet(out)
    <3>1. PICK k \in DOMAIN from : from[k] = i
      BY DEF ToSet
    <3> QED BY <1>2, <1>3, <3>1 DEF ToSet
  <2>3. ToSet(out) \subseteq {rows[i] : i \in S}
    BY <2>1 DEF ToSet
  <2>4. {rows[i] : i \in S} \subseteq ToSet(out)
    BY <2>2
  <2> QED BY <2>3, <2>4
<1>6. ASSUME IsInjective(rows), NEW k \in DOMAIN out, NEW l \in DOMAIN out, out[k] = out[l]
      PROVE  k = l
  <2>1. rows[from[k]] = rows[from[l]] /\ from[k] \in DOMAIN rows /\ from[l] \in DOMAIN rows
    BY <1>2, <1>3, <1>6
  <2>2. from[k] = from[l]
    BY <1>6, <2>1 DEF IsInjective
  <2> QED BY <1>2, <1>3, <2>2 DEF IsInjective
<1> QED BY <1>4, <1>5, <1>6 DEF IsInjective, RowsAt

\* Array.filter: the rows that are of a set, and none twice that was not.
LEMMA KeepKeeps ==
  ASSUME NEW T, NEW rows \in Seq(T), NEW ms
  PROVE  /\ Keep(rows, ms) \in Seq(T)
         /\ ToSet(Keep(rows, ms)) = ToSet(rows) \cap ms
         /\ IsInjective(rows) => IsInjective(Keep(rows, ms))
<1> DEFINE kept == {i \in DOMAIN rows : rows[i] \in ms}
           before == [i \in kept |-> {j \in kept : j < i}]
           nth(k) == CHOOSE i \in kept : Cardinality({j \in kept : j < i}) = k - 1
           from == [k \in 1..Cardinality(kept) |-> nth(k)]
<1>1. /\ DOMAIN rows = 1..Len(rows) /\ Len(rows) \in Nat
      /\ kept \subseteq DOMAIN rows /\ \A i \in kept : i \in Int
  BY LenProperties
<1>2. IsFiniteSet(kept)
  <2>1. IsFiniteSet(1..Len(rows))
    BY <1>1, FS_Interval
  <2> QED BY <1>1, <2>1, FS_Subset
<1>3. \A i \in kept : before[i] = {j \in kept : j < i}
  OBVIOUS
<1>4. Keep(rows, ms) = [k \in 1..Cardinality(kept) |-> rows[nth(k)]]
  BY DEF Keep
<1>5. ToSet(rows) \cap ms = RowsAt(rows, kept)
  BY DEF ToSet, RowsAt
<1>6. before \in [kept -> SUBSET kept]
  OBVIOUS
<1> HIDE DEF kept, before
<1>7. Order(kept, before)
  <2>1. \A i \in kept : i \notin before[i]
    BY <1>1, <1>3
  <2>2. ASSUME NEW i \in kept, NEW j \in kept, j \in before[i] PROVE before[j] \subseteq before[i]
    <3>1. SUFFICES ASSUME NEW n \in before[j] PROVE n \in before[i]
      OBVIOUS
    <3>2. n \in kept /\ n < j /\ j < i
      BY <1>3, <2>2, <3>1
    <3>3. n \in Int /\ i \in Int /\ j \in Int
      BY <1>1, <3>2
    <3>4. n < i
      BY <3>2, <3>3
    <3> QED BY <1>3, <3>2, <3>4
  <2>3. ASSUME NEW i \in kept, NEW j \in kept
        PROVE  i = j \/ i \in before[j] \/ j \in before[i]
    <3>1. i \in Int /\ j \in Int
      BY <1>1
    <3>2. i = j \/ i < j \/ j < i
      BY <3>1
    <3> QED BY <1>3, <3>2
  <2> QED BY <1>6, <2>1, <2>2, <2>3 DEF Order
<1>8. ASSUME NEW k \in 1..Cardinality(kept)
      PROVE  nth(k) \in kept /\ Cardinality(before[nth(k)]) = k - 1
  <2>1. \E i \in kept : Cardinality({j \in kept : j < i}) = k - 1
    <3>1. Nth(before, k) \in kept /\ Cardinality(before[Nth(before, k)]) = k - 1
      BY <1>2, <1>7, Ranks
    <3> QED BY <1>3, <3>1
  <2>2. nth(k) \in kept /\ Cardinality({j \in kept : j < nth(k)}) = k - 1
    BY <2>1
  <2> QED BY <1>3, <2>2
<1> HIDE DEF nth
<1>9. /\ from \in [1..Cardinality(kept) -> kept]
      /\ \A k \in 1..Cardinality(kept) : Cardinality(before[from[k]]) = k - 1
      /\ \A k \in 1..Cardinality(kept) : from[k] = nth(k)
  BY <1>8
<1> HIDE DEF from
<1>10. /\ from \in Seq(kept) /\ DOMAIN from = 1..Cardinality(kept)
       /\ IsInjective(from) /\ ToSet(from) = kept
  BY <1>2, <1>7, <1>9, Enumerated
<1>11. Len(from) = Cardinality(kept)
  BY <1>2, <1>9, FS_CardinalityType
<1>12. \A i \in kept : rows[i] \in T
  BY <1>1, LenProperties
<1>13. /\ Keep(rows, ms) \in [1..Len(from) -> T]
       /\ \A k \in 1..Len(from) : Keep(rows, ms)[k] = rows[from[k]]
  BY <1>4, <1>9, <1>11, <1>12
<1>14. /\ Keep(rows, ms) \in Seq(T)
       /\ ToSet(Keep(rows, ms)) = RowsAt(rows, kept)
       /\ IsInjective(rows) => IsInjective(Keep(rows, ms))
  <2>1. kept \subseteq DOMAIN rows
    BY <1>1
  <2>2. from \in Seq(kept) /\ IsInjective(from) /\ ToSet(from) = kept
    BY <1>10
  <2> QED BY <1>13, <2>1, <2>2, Rearranged
<1> QED BY <1>5, <1>14

\* Sorted and NewestFirst compare rows as numbers.
Numbers(rows) == \A i \in DOMAIN rows : rows[i] \in Int

\* Array.sort: the same rows, and none twice that was not.
LEMMA SortedKeeps ==
  ASSUME NEW T, NEW rows \in Seq(T), Numbers(rows)
  PROVE  /\ Sorted(rows) \in Seq(T)
         /\ ToSet(Sorted(rows)) = ToSet(rows)
         /\ IsInjective(rows) => IsInjective(Sorted(rows))
<1> DEFINE D == DOMAIN rows
           before == [i \in D |-> {j \in D : Precedes(rows, j, i)}]
           nth(k) == CHOOSE i \in D : Cardinality({j \in D : Precedes(rows, j, i)}) = k - 1
           from == [k \in 1..Cardinality(D) |-> nth(k)]
<1>1. D = 1..Len(rows) /\ Len(rows) \in Nat /\ \A i \in D : i \in Int /\ rows[i] \in Int
  <2>1. D = 1..Len(rows) /\ Len(rows) \in Nat
    BY LenProperties
  <2>2. ASSUME NEW i \in D PROVE i \in Int /\ rows[i] \in Int
    BY <2>1 DEF Numbers
  <2> QED BY <2>1, <2>2
<1>2. IsFiniteSet(D) /\ Cardinality(D) = Len(rows)
  <2>1. /\ IsFiniteSet(1..Len(rows))
        /\ Cardinality(1..Len(rows)) = IF 1 > Len(rows) THEN 0 ELSE Len(rows) - 1 + 1
    BY <1>1, FS_Interval
  <2> QED BY <1>1, <2>1
<1>3. \A i \in D : before[i] = {j \in D : Precedes(rows, j, i)}
  OBVIOUS
<1>4. Sorted(rows) = [k \in D |-> rows[nth(k)]]
  BY DEF Sorted
<1>5. ToSet(rows) = RowsAt(rows, D)
  BY DEF ToSet, RowsAt
<1>6. before \in [D -> SUBSET D]
  OBVIOUS
<1>7. D \subseteq DOMAIN rows
  OBVIOUS
<1> HIDE DEF D, before
<1>8. Order(D, before)
  <2>1. \A i \in D : i \notin before[i]
    BY <1>1, <1>3 DEF Precedes
  <2>2. ASSUME NEW i \in D, NEW j \in D, j \in before[i] PROVE before[j] \subseteq before[i]
    <3>1. SUFFICES ASSUME NEW n \in before[j] PROVE n \in before[i]
      OBVIOUS
    <3>2. n \in D /\ Precedes(rows, n, j) /\ Precedes(rows, j, i)
      BY <1>3, <2>2, <3>1
    <3>3. /\ n \in Int /\ i \in Int /\ j \in Int
          /\ rows[n] \in Int /\ rows[i] \in Int /\ rows[j] \in Int
      BY <1>1, <3>2
    <3>4. Precedes(rows, n, i)
      BY <3>2, <3>3 DEF Precedes
    <3> QED BY <1>3, <3>2, <3>4
  <2>3. ASSUME NEW i \in D, NEW j \in D
        PROVE  i = j \/ i \in before[j] \/ j \in before[i]
    <3>1. i \in Int /\ j \in Int /\ rows[i] \in Int /\ rows[j] \in Int
      BY <1>1
    <3>2. i = j \/ Precedes(rows, i, j) \/ Precedes(rows, j, i)
      BY <3>1 DEF Precedes
    <3> QED BY <1>3, <3>2
  <2> QED BY <1>6, <2>1, <2>2, <2>3 DEF Order
<1>9. ASSUME NEW k \in 1..Cardinality(D)
      PROVE  nth(k) \in D /\ Cardinality(before[nth(k)]) = k - 1
  <2>1. \E i \in D : Cardinality({j \in D : Precedes(rows, j, i)}) = k - 1
    <3>1. Nth(before, k) \in D /\ Cardinality(before[Nth(before, k)]) = k - 1
      BY <1>2, <1>8, Ranks
    <3> QED BY <1>3, <3>1
  <2>2. nth(k) \in D /\ Cardinality({j \in D : Precedes(rows, j, nth(k))}) = k - 1
    BY <2>1
  <2> QED BY <1>3, <2>2
<1> HIDE DEF nth
<1>10. /\ from \in [1..Cardinality(D) -> D]
       /\ \A k \in 1..Cardinality(D) : Cardinality(before[from[k]]) = k - 1
       /\ \A k \in 1..Cardinality(D) : from[k] = nth(k)
  BY <1>9
<1> HIDE DEF from
<1>11. from \in Seq(D) /\ IsInjective(from) /\ ToSet(from) = D
  BY <1>2, <1>8, <1>10, Enumerated
<1>12. Len(from) = Len(rows)
  BY <1>1, <1>2, <1>10
<1>13. \A i \in D : rows[i] \in T
  BY <1>1, LenProperties
<1>14. /\ Sorted(rows) \in [1..Len(from) -> T]
       /\ \A k \in 1..Len(from) : Sorted(rows)[k] = rows[from[k]]
  <2>1. D = 1..Len(from) /\ D = 1..Cardinality(D)
    BY <1>1, <1>2, <1>12
  <2>2. \A k \in D : nth(k) \in D /\ from[k] = nth(k)
    BY <1>9, <1>10, <2>1
  <2>3. Sorted(rows) \in [D -> T] /\ \A k \in D : Sorted(rows)[k] = rows[from[k]]
    BY <1>4, <1>13, <2>2
  <2> QED BY <2>1, <2>3
<1>15. /\ Sorted(rows) \in Seq(T)
       /\ ToSet(Sorted(rows)) = RowsAt(rows, D)
       /\ IsInjective(rows) => IsInjective(Sorted(rows))
  BY <1>7, <1>11, <1>14, Rearranged
<1> QED BY <1>5, <1>15

\* A stretch of a list.
LEMMA Stretch ==
  ASSUME NEW T, NEW rows \in Seq(T), NEW m \in Nat \ {0}, NEW n \in Int, n <= Len(rows)
  PROVE  /\ SubSeq(rows, m, n) \in Seq(T)
         /\ ToSet(SubSeq(rows, m, n)) \subseteq ToSet(rows)
         /\ IsInjective(rows) => IsInjective(SubSeq(rows, m, n))
<1> DEFINE part == SubSeq(rows, m, n)
<1>1. Len(rows) \in Nat /\ DOMAIN rows = 1..Len(rows) /\ \A i \in 1..Len(rows) : rows[i] \in T
  BY LenProperties
<1>2. \A i \in m..n : rows[i] \in T
  BY <1>1
<1>3. /\ part \in Seq(T)
      /\ Len(part) = IF m <= n THEN n - m + 1 ELSE 0
      /\ \A i \in 1..(n - m + 1) : part[i] = rows[m + i - 1]
  BY <1>2, SubSeqProperties
<1> HIDE DEF part
<1>4. DOMAIN part = 1..Len(part)
  BY <1>3, LenProperties
<1>5. ASSUME NEW i \in DOMAIN part
      PROVE  /\ i \in Int /\ m + i - 1 \in DOMAIN rows
             /\ part[i] = rows[m + i - 1]
  <2>1. i \in 1..(n - m + 1)
    BY <1>3, <1>4
  <2>2. m + i - 1 \in 1..Len(rows)
    BY <1>1, <2>1
  <2> QED BY <1>1, <1>3, <2>1, <2>2
<1>6. ToSet(part) \subseteq ToSet(rows)
  BY <1>5 DEF ToSet
<1>7. ASSUME IsInjective(rows), NEW i \in DOMAIN part, NEW j \in DOMAIN part, part[i] = part[j]
      PROVE  i = j
  <2>1. m + i - 1 = m + j - 1
    BY <1>5, <1>7 DEF IsInjective
  <2> QED BY <1>5, <2>1
<1> QED BY <1>3, <1>6, <1>7 DEF part, IsInjective

\* The extremes of two numbers.
LEMMA MinOfTwo ==
  ASSUME NEW a \in Int, NEW b \in Int
  PROVE  /\ Min({a, b}) \in {a, b}
         /\ Min({a, b}) <= a /\ Min({a, b}) <= b
<1>1. \E x \in {a, b} : \A y \in {a, b} : x <= y
  OBVIOUS
<1>2. Min({a, b}) \in {a, b} /\ \A y \in {a, b} : Min({a, b}) <= y
  BY <1>1 DEF Min
<1> QED BY <1>2

LEMMA MaxOfTwo ==
  ASSUME NEW a \in Int, NEW b \in Int
  PROVE  /\ Max({a, b}) \in {a, b}
         /\ Max({a, b}) >= a /\ Max({a, b}) >= b
<1>1. \E x \in {a, b} : \A y \in {a, b} : x >= y
  OBVIOUS
<1>2. Max({a, b}) \in {a, b} /\ \A y \in {a, b} : Max({a, b}) >= y
  BY <1>1 DEF Max
<1> QED BY <1>2

\* LIMIT and OFFSET.
LEMMA TakeTakes ==
  ASSUME NEW T, NEW rows \in Seq(T), NEW offset \in Nat, NEW size \in Nat
  PROVE  /\ Take(rows, offset, size) \in Seq(T)
         /\ ToSet(Take(rows, offset, size)) \subseteq ToSet(rows)
         /\ IsInjective(rows) => IsInjective(Take(rows, offset, size))
<1> DEFINE n == Min({offset + size, Len(rows)})
<1>1. Len(rows) \in Nat
  BY LenProperties
<1>2. n \in Int /\ n <= Len(rows)
  <2>1. offset + size \in Int /\ Len(rows) \in Int
    BY <1>1
  <2>2. n \in {offset + size, Len(rows)} /\ n <= Len(rows)
    BY <2>1, MinOfTwo
  <2> QED BY <2>1, <2>2
<1>3. offset + 1 \in Nat \ {0}
  OBVIOUS
<1> HIDE DEF n
<1> QED BY <1>2, <1>3, Stretch DEF Take, n

\* appendPage: both, and no row twice.
LEMMA Appends ==
  ASSUME NEW loaded \in Seq(Id), NEW page \in Seq(Id)
  PROVE  /\ AppendPage(loaded, page) \in Seq(Id)
         /\ ToSet(AppendPage(loaded, page)) = ToSet(loaded) \cup ToSet(page)
         /\ IsInjective(loaded) /\ IsInjective(page) => IsInjective(AppendPage(loaded, page))
<1> DEFINE new == Keep(page, Id \ ToSet(loaded))
           both == loaded \o new
<1>1. /\ new \in Seq(Id)
      /\ ToSet(new) = ToSet(page) \cap (Id \ ToSet(loaded))
      /\ IsInjective(page) => IsInjective(new)
  BY KeepKeeps
<1> HIDE DEF new
<1>2. /\ both \in Seq(Id) /\ Len(both) = Len(loaded) + Len(new)
      /\ \A i \in 1..(Len(loaded) + Len(new)) :
           both[i] = IF i <= Len(loaded) THEN loaded[i] ELSE new[i - Len(loaded)]
  BY <1>1, ConcatProperties
<1> HIDE DEF both
<1>3. /\ Len(loaded) \in Nat /\ DOMAIN loaded = 1..Len(loaded)
      /\ Len(new) \in Nat /\ DOMAIN new = 1..Len(new)
      /\ DOMAIN both = 1..(Len(loaded) + Len(new))
  BY <1>1, <1>2, LenProperties
<1>4. ToSet(loaded) \subseteq Id /\ ToSet(page) \subseteq Id
  BY LenProperties DEF ToSet
<1>5. ASSUME NEW i \in DOMAIN both
      PROVE  \/ i \in DOMAIN loaded /\ both[i] = loaded[i]
             \/ i - Len(loaded) \in DOMAIN new /\ both[i] = new[i - Len(loaded)] /\ i \in Int
  BY <1>2, <1>3
<1>6. ToSet(both) \subseteq ToSet(loaded) \cup ToSet(new)
  BY <1>5 DEF ToSet
<1>7. ToSet(loaded) \cup ToSet(new) \subseteq ToSet(both)
  <2>1. ASSUME NEW i \in DOMAIN loaded PROVE loaded[i] \in ToSet(both)
    <3>1. i \in DOMAIN both /\ both[i] = loaded[i]
      BY <1>2, <1>3
    <3> QED BY <3>1 DEF ToSet
  <2>2. ASSUME NEW i \in DOMAIN new PROVE new[i] \in ToSet(both)
    <3>1. i + Len(loaded) \in DOMAIN both /\ both[i + Len(loaded)] = new[i]
      BY <1>2, <1>3
    <3> QED BY <3>1 DEF ToSet
  <2> QED BY <2>1, <2>2 DEF ToSet
<1>8. ASSUME IsInjective(loaded), IsInjective(page),
             NEW i \in DOMAIN both, NEW j \in DOMAIN both, both[i] = both[j]
      PROVE  i = j
  <2>1. CASE i \in DOMAIN loaded /\ both[i] = loaded[i] /\ j \in DOMAIN loaded /\ both[j] = loaded[j]
    BY <1>8, <2>1 DEF IsInjective
  <2>2. \A k, l : k \in DOMAIN loaded /\ l \in DOMAIN new => loaded[k] # new[l]
    BY <1>1 DEF ToSet
  <2>3. CASE /\ i - Len(loaded) \in DOMAIN new /\ both[i] = new[i - Len(loaded)]
             /\ j - Len(loaded) \in DOMAIN new /\ both[j] = new[j - Len(loaded)]
             /\ i \in Int /\ j \in Int
    <3>1. i - Len(loaded) = j - Len(loaded)
      BY <1>1, <1>8, <2>3 DEF IsInjective
    <3> QED BY <1>3, <2>3, <3>1
  <2> QED BY <1>5, <1>8, <2>1, <2>2, <2>3
<1>9. both = AppendPage(loaded, page)
  BY DEF both, new, AppendPage
<1> QED BY <1>1, <1>2, <1>4, <1>6, <1>7, <1>8, <1>9 DEF IsInjective

-----------------------------------------------------------------------------
(* Types *)

\* What is asked of a place, and what is asked of a search.
Pages    == {"list", "more", "older", "olderMore"}
Searches == {"search", "searchMore"}

\* A call, of whatever kind.
CallSet == [kind : Kind, generation : Nat, of : Place \cup Query \cup Id, offset : Nat,
            hasOlder : BOOLEAN, got : Answer]

\* A page holds what was asked about, no row twice.
PageOf(c, rows) ==
  /\ IsInjective(rows)
  /\ c.kind \in Pages => ToSet(rows) \subseteq Contents[c.of]
  /\ c.kind \in Searches => ToSet(rows) \subseteq Matches[c.of]

\* A call asks about something that its kind can be asked about, and is no younger than
\* the last load.
CallOK(c, generation) ==
  /\ c \in CallSet /\ c.generation <= generation
  /\ c.kind \in Pages => c.of \in Place
  /\ c.kind \in Searches => c.of \in Query
  /\ c.kind = "ids" => c.of \in Place \cup Query
  /\ c.kind \in {"delete", "undo"} => c.of \in Id
  /\ c.got \notin {Waiting, Failed} => PageOf(c, c.got.rows)

CallsOK == \A c \in calls : CallOK(c, at.generation)

\* The parts of the types: the store, a list, where it stands, what the bounds leave,
\* and what the window adds.
StoreOK ==
  /\ cached \in SUBSET Id /\ pending \in SUBSET cached
  /\ expunged \in SUBSET (Id \ cached)

ShownOK(l) ==
  /\ l \in [status : Status, data : Data \cup {NoData}]
  /\ l.status = "ready" => l.data # NoData
  /\ l.data # NoData => IsInjective(l.data.items)

AtOK ==
  /\ at \in [place : Place, offset : Nat, search : Query \cup {NoQuery}, generation : Nat]
  /\ bar \in [place : Place, query : Query \cup {NoQuery}]
  /\ failed \in BOOLEAN /\ derailed \in BOOLEAN

LeftOK == left \in [steps : 0..Steps, failures : 0..Failures]

WindowOK ==
  /\ picked \in SUBSET Id
  /\ open \in Id \cup {NoMessage}
  /\ batch \in Batch \cup {NoBatch}
  /\ undoable \in Seq(Seq(Id) \ {<<>>})
  /\ restoring \in Seq(Id)
  /\ restored \in SUBSET Id /\ lost \in SUBSET Id

\* The calls of a kind that are out.
Out(kind) == {c \in calls : c.kind = kind}

\* A deletion and an undo that are running have one call out each.
Deleting ==
  /\ batch = NoBatch => Out("delete") = {}
  /\ batch # NoBatch =>
       /\ \E c : Out("delete") = {c} /\ c.of \in batch.all
       /\ ToSet(batch.done) \cup ToSet(batch.todo) \subseteq batch.all

\* So has an undo, about the first of what is left to restore.
Restoring ==
  /\ restoring = <<>> => Out("undo") = {}
  /\ restoring # <<>> => \E c : Out("undo") = {c} /\ c.of = Head(restoring)

\* The inductive invariant of types and rows.
TInv ==
  /\ StoreOK /\ ShownOK(list) /\ AtOK /\ LeftOK /\ CallsOK /\ WindowOK
  /\ Deleting /\ Restoring

\* It gives what TypeOK and NoRowTwice say.
LEMMA TInvMeans == TInv => TypeOK /\ NoRowTwice
<1> SUFFICES ASSUME TInv PROVE TypeOK /\ NoRowTwice
  OBVIOUS
<1>1. ASSUME NEW c \in calls
      PROVE  /\ c.kind \in Kind /\ c.generation \in 0..at.generation
             /\ c.offset \in Nat /\ c.hasOlder \in BOOLEAN /\ c.got \in Answer
  <2>1. c \in CallSet /\ c.generation <= at.generation /\ at.generation \in Nat
    BY DEF TInv, CallsOK, CallOK, AtOK
  <2> QED BY <2>1 DEF CallSet
<1>2. undoable \in Seq(Seq(Id))
  <2>1. undoable \in Seq(Seq(Id) \ {<<>>}) /\ Seq(Id) \ {<<>>} \subseteq Seq(Id)
    BY DEF TInv, WindowOK
  <2> HIDE DEF TInv
  <2> QED BY <2>1, SeqMonotonic
<1>3. IsInjective(<<>>)
  BY DEF IsInjective
<1>4. ListTypeOK
  BY <1>1 DEF TInv, StoreOK, ShownOK, AtOK, LeftOK, ListTypeOK
<1>5. NoRowTwice
  BY <1>3 DEF TInv, ShownOK, NoRowTwice, Rows
<1> QED BY <1>2, <1>4, <1>5 DEF TInv, WindowOK, TypeOK

-----------------------------------------------------------------------------
(* Calls *)

\* A new call is fine.
LEMMA CallingOK ==
  ASSUME NEW c \in CallSet, NEW g \in Nat, c.generation <= g, c.got = Waiting,
         c.kind \in Pages => c.of \in Place,
         c.kind \in Searches => c.of \in Query,
         c.kind = "ids" => c.of \in Place \cup Query,
         c.kind \in {"delete", "undo"} => c.of \in Id
  PROVE  CallOK(c, g)
BY DEF CallOK

\* An answer changes nothing of a call but what it got.
LEMMA Answering ==
  ASSUME NEW c \in CallSet, NEW got \in Answer
  PROVE  LET d == [c EXCEPT !.got = got]
         IN  /\ d \in CallSet /\ d.got = got
             /\ d.kind = c.kind /\ d.generation = c.generation /\ d.of = c.of
             /\ d.offset = c.offset /\ d.hasOlder = c.hasOlder
BY DEF CallSet

\* An answer leaves a call as it was but for the answer.
LEMMA AnsweringOK ==
  ASSUME NEW g \in Nat, NEW c, CallOK(c, g), NEW got \in Answer,
         got \notin {Waiting, Failed} => PageOf(c, got.rows)
  PROVE  CallOK([c EXCEPT !.got = got], g)
<1>1. c \in CallSet
  BY DEF CallOK
<1> DEFINE d == [c EXCEPT !.got = got]
<1>2. /\ d \in CallSet /\ d.got = got
      /\ d.kind = c.kind /\ d.generation = c.generation /\ d.of = c.of
  BY <1>1, Answering
<1> HIDE DEF d
<1>3. PageOf(c, got.rows) => PageOf(d, d.got.rows)
  BY <1>2 DEF PageOf
<1> QED BY <1>2, <1>3 DEF CallOK, d

\* A call is as good after another load.
LEMMA LaterOK ==
  ASSUME NEW c, NEW g \in Nat, NEW h \in Nat, g <= h, CallOK(c, g)
  PROVE  CallOK(c, h)
BY DEF CallOK, CallSet

\* An answer of the right kind leaves the calls what they were.
LEMMA ReplyKeeps ==
  ASSUME TInv, NEW c \in calls, NEW got \in Answer, Reply(c, got),
         got \notin {Waiting, Failed} => PageOf(c, got.rows),
         at' = at, batch' = batch, restoring' = restoring
  PROVE  CallsOK' /\ Deleting' /\ Restoring'
<1> DEFINE d == [c EXCEPT !.got = got]
<1>1. at.generation \in Nat /\ CallOK(c, at.generation) /\ c \in CallSet
  BY DEF TInv, AtOK, CallsOK, CallOK
<1>2. CallOK(d, at.generation)
  BY <1>1, AnsweringOK
<1>3. d.kind = c.kind /\ d.of = c.of
  BY <1>1, Answering
<1> HIDE DEF d
<1>4. calls' = (calls \ {c}) \cup {d}
  BY DEF Reply, d
<1>5. CallsOK'
  BY <1>2, <1>4 DEF TInv, CallsOK
<1>6. \A kind : Out(kind)' = IF c.kind = kind THEN (Out(kind) \ {c}) \cup {d} ELSE Out(kind)
  BY <1>3, <1>4 DEF Out
<1>7. ASSUME NEW kind, NEW e, Out(kind) = {e}
      PROVE  \E f : Out(kind)' = {f} /\ f.of = e.of
  <2>1. CASE c.kind = kind
    <3>1. c \in Out(kind)
      BY <2>1 DEF Out
    <3>2. e = c /\ Out(kind)' = {d}
      BY <1>6, <1>7, <2>1, <3>1
    <3> QED BY <1>3, <3>2
  <2>2. CASE c.kind # kind
    BY <1>6, <1>7, <2>2
  <2> QED BY <2>1, <2>2
<1>8. ASSUME NEW kind, Out(kind) = {} PROVE Out(kind)' = {}
  <2>1. c \notin Out(kind)
    BY <1>8
  <2>2. c.kind # kind
    BY <2>1 DEF Out
  <2> QED BY <1>6, <1>8, <2>2
<1>9. Deleting'
  <2>1. CASE batch = NoBatch
    BY <1>8, <2>1 DEF TInv, Deleting
  <2>2. CASE batch # NoBatch
    <3>1. PICK e : Out("delete") = {e} /\ e.of \in batch.all
      BY <2>2 DEF TInv, Deleting
    <3>2. PICK f : Out("delete")' = {f} /\ f.of = e.of
      BY <1>7, <3>1
    <3> QED BY <2>2, <3>1, <3>2 DEF TInv, Deleting
  <2> QED BY <2>1, <2>2
<1>10. Restoring'
  <2>1. CASE restoring = <<>>
    BY <1>8, <2>1 DEF TInv, Restoring
  <2>2. CASE restoring # <<>>
    <3>1. PICK e : Out("undo") = {e} /\ e.of = Head(restoring)
      BY <2>2 DEF TInv, Restoring
    <3>2. PICK f : Out("undo")' = {f} /\ f.of = e.of
      BY <1>7, <3>1
    <3> QED BY <2>2, <3>1, <3>2 DEF TInv, Restoring
  <2> QED BY <2>1, <2>2
<1> QED BY <1>5, <1>9, <1>10

\* A step that calls or hears about anything but deletions and undos.
LEMMA HandsOff ==
  ASSUME Deleting, Restoring, batch' = batch, restoring' = restoring,
         \A c \in calls' \ calls : c.kind \notin {"delete", "undo"},
         \A c \in calls \ calls' : c.kind \notin {"delete", "undo"}
  PROVE  Deleting' /\ Restoring'
<1>1. Out("delete")' = Out("delete") /\ Out("undo")' = Out("undo")
  BY DEF Out
<1> QED BY <1>1 DEF Deleting, Restoring

\* What the store lists of a place is of that place.
LEMMA ListedPart ==
  ASSUME StoreOK, NEW place \in Place
  PROVE  /\ Listed(place) \subseteq Contents[place] /\ Listed(place) \subseteq Nat
         /\ IsFiniteSet(Listed(place)) /\ Listed(place) \subseteq Id
         /\ Uncached(place) \subseteq Id \ (cached \cup expunged) /\ IsFiniteSet(Uncached(place))
         /\ Uncached(place) \subseteq Nat
<1>1. Contents[place] \subseteq Id /\ Id \subseteq Nat /\ IsFiniteSet(Id) /\ Old \subseteq Id
  BY ListAssumption
<1>2. Listed(place) \subseteq Contents[place] /\ Uncached(place) \subseteq Id \ (cached \cup expunged)
  BY <1>1 DEF Listed, Uncached
<1>3. Listed(place) \subseteq Id /\ Uncached(place) \subseteq Id
  BY <1>1, <1>2
<1>4. IsFiniteSet(Listed(place)) /\ IsFiniteSet(Uncached(place))
  BY <1>1, <1>3, FS_Subset
<1> QED BY <1>1, <1>2, <1>3, <1>4

\* A page is an answer.
LEMMA DoneAnswers ==
  ASSUME NEW rows \in Seq(Id), NEW total \in Nat, NEW hasOlder \in BOOLEAN
  PROVE  /\ Done(rows, total, hasOlder) \in Answer
         /\ Done(rows, total, hasOlder).rows = rows
         /\ Done(rows, total, hasOlder).total = total
         /\ Done(rows, total, hasOlder).hasOlder = hasOlder
         /\ Done(rows, total, hasOlder).state = "done"
BY DEF Done, Answer

\* A page of a place.
LEMMA PlacePage ==
  ASSUME StoreOK, NEW place \in Place, NEW offset \in Nat
  PROVE  /\ ListPage(place, offset) \in Answer
         /\ IsInjective(ListPage(place, offset).rows)
         /\ ToSet(ListPage(place, offset).rows) \subseteq Contents[place]
<1> DEFINE rows == NewestFirst(Listed(place))
           page == Take(rows, offset, PageSize)
           older == Uncached(place) # {}
<1>1. /\ rows \in Seq(Listed(place)) /\ IsInjective(rows) /\ ToSet(rows) = Listed(place)
  BY ListedPart, NewestFirstLists
<1>2. rows \in Seq(Id)
  BY <1>1, ListedPart, SeqMonotonic
<1>3. PageSize \in Nat
  BY ListAssumption
<1> HIDE DEF rows
<1>4. /\ page \in Seq(Id) /\ ToSet(page) \subseteq ToSet(rows) /\ IsInjective(page)
  BY <1>1, <1>2, <1>3, TakeTakes
<1>5. Len(rows) \in Nat
  BY <1>2, LenProperties
<1> HIDE DEF page
<1>6. ListPage(place, offset) = Done(page, Len(rows), older)
  BY DEF ListPage, page, rows
<1>7. older \in BOOLEAN
  OBVIOUS
<1> HIDE DEF older
<1>8. ListPage(place, offset) \in Answer /\ ListPage(place, offset).rows = page
  BY <1>4, <1>5, <1>6, <1>7, DoneAnswers
<1> QED BY <1>1, <1>4, <1>8, ListedPart

\* The hits of a search match it, each once.
LEMMA HitsPart ==
  ASSUME StoreOK, NEW query \in Query
  PROVE  /\ Hits(query) \in Seq(Id) /\ IsInjective(Hits(query))
         /\ ToSet(Hits(query)) \subseteq Matches[query]
<1> DEFINE ms == Matches[query] \cap (cached \cup expunged)
<1>1. Matches[query] \subseteq Id /\ Id \subseteq Nat /\ IsFiniteSet(Id)
  BY ListAssumption
<1>2. ms \subseteq Matches[query] /\ ms \subseteq Id
  BY <1>1
<1>3. Hits(query) = NewestFirst(ms)
  BY DEF Hits
<1> HIDE DEF ms
<1>4. IsFiniteSet(ms) /\ ms \subseteq Nat
  BY <1>1, <1>2, FS_Subset
<1>5. /\ NewestFirst(ms) \in Seq(ms) /\ IsInjective(NewestFirst(ms))
      /\ ToSet(NewestFirst(ms)) = ms
  BY <1>4, NewestFirstLists
<1>6. NewestFirst(ms) \in Seq(Id)
  BY <1>2, <1>5, SeqMonotonic
<1> QED BY <1>2, <1>3, <1>5, <1>6

\* A page of a search.
LEMMA SearchPageRead ==
  ASSUME StoreOK, NEW query \in Query, NEW offset \in Nat
  PROVE  /\ SearchHits(query, offset) \in Answer
         /\ IsInjective(SearchHits(query, offset).rows)
         /\ ToSet(SearchHits(query, offset).rows) \subseteq Matches[query]
<1> DEFINE hits == Hits(query)
           part == Take(hits, offset, SearchPage)
           page == Keep(part, cached)
<1>1. hits \in Seq(Id) /\ IsInjective(hits) /\ ToSet(hits) \subseteq Matches[query]
  BY HitsPart
<1>2. SearchPage \in Nat
  BY ListAssumption
<1> HIDE DEF hits
<1>3. part \in Seq(Id) /\ ToSet(part) \subseteq ToSet(hits) /\ IsInjective(part)
  BY <1>1, <1>2, TakeTakes
<1> HIDE DEF part
<1>4. page \in Seq(Id) /\ ToSet(page) \subseteq ToSet(part) /\ IsInjective(page)
  BY <1>3, KeepKeeps
<1>5. Len(hits) \in Nat
  BY <1>1, LenProperties
<1> HIDE DEF page
<1>6. SearchHits(query, offset) = Done(page, Len(hits), FALSE)
  BY DEF SearchHits, page, part, hits
<1>7. SearchHits(query, offset) \in Answer /\ SearchHits(query, offset).rows = page
  BY <1>4, <1>5, <1>6 DEF Done, Answer
<1> QED BY <1>1, <1>3, <1>4, <1>7

-----------------------------------------------------------------------------
(* What each step does to the types: loading *)

\* The parts that a load of the list changes.
LoadOK == ShownOK(list) /\ CallsOK /\ Deleting /\ Restoring

\* A list keeps its rows when it starts to load or fails.
LEMMA StatusShown ==
  ASSUME ShownOK(list), NEW status \in {"loading", "error"}
  PROVE  ShownOK([list EXCEPT !.status = status])
BY DEF ShownOK, Status

\* A list is fine with data that are.
LEMMA ReadyShown ==
  ASSUME NEW data \in Data, IsInjective(data.items)
  PROVE  ShownOK(Ready(data))
BY NoDataAssumption DEF ShownOK, Status, Ready

\* Its data are, if it has any.
LEMMA HaveData ==
  ASSUME ShownOK(list), list.data # NoData
  PROVE  list.data \in Data /\ IsInjective(list.data.items)
BY DEF ShownOK

\* A call of the list's own, in its generation.
LEMMA LoadCall ==
  ASSUME TInv, NEW c \in CallSet, NEW g \in Nat, c.got = Waiting, c.generation <= g,
         c.kind \notin {"ids", "delete", "undo"},
         c.kind \in Pages => c.of \in Place,
         c.kind \in Searches => c.of \in Query,
         at.generation <= g, at'.generation = g, batch' = batch, restoring' = restoring,
         NEW rest \in SUBSET calls, \A d \in calls \ rest : d.kind \notin {"delete", "undo"},
         calls' = rest \cup {c}
  PROVE  CallsOK' /\ Deleting' /\ Restoring'
<1>1. at.generation \in Nat
  BY DEF TInv, AtOK
<1>2. \A d \in calls : CallOK(d, g)
  BY <1>1, LaterOK DEF TInv, CallsOK
<1>3. CallOK(c, g)
  BY CallingOK
<1>4. CallsOK'
  BY <1>2, <1>3 DEF CallsOK
<1>5. Deleting' /\ Restoring'
  BY HandsOff DEF TInv
<1> QED BY <1>4, <1>5

\* The two loads start a generation with a call of its own.
LEMMA LoadListTypes ==
  ASSUME TInv, NEW place \in Place, LoadList(place), batch' = batch, restoring' = restoring
  PROVE  /\ LoadOK'
         /\ at' \in [place : Place, offset : Nat, search : Query \cup {NoQuery}, generation : Nat]
         /\ failed' \in BOOLEAN /\ derailed' \in BOOLEAN
<1> DEFINE g == at.generation + 1
           c == Call("list", g, place, 0)
<1>1. at.generation \in Nat /\ g \in Nat /\ at.generation <= g
  BY DEF TInv, AtOK
<1>2. c \in CallSet /\ c.got = Waiting /\ c.kind = "list" /\ c.generation = g /\ c.of = place
  BY <1>1 DEF Call, CallSet, Answer, Kind
<1>3. at' = [place |-> place, offset |-> 0, search |-> NoQuery, generation |-> g]
  BY DEF LoadList
<1>4. calls' = calls \cup {c}
  BY DEF LoadList
<1> HIDE DEF c, g
<1>5. CallsOK' /\ Deleting' /\ Restoring'
  BY <1>1, <1>2, <1>3, <1>4, LoadCall DEF Pages, Searches
<1>6. ShownOK(list')
  BY StatusShown DEF TInv, LoadList
<1>7. failed' \in BOOLEAN /\ derailed' \in BOOLEAN
  BY DEF LoadList
<1> QED BY <1>1, <1>3, <1>5, <1>6, <1>7 DEF LoadOK

LEMMA RunSearchTypes ==
  ASSUME TInv, NEW query \in Query, RunSearch(query), batch' = batch, restoring' = restoring
  PROVE  /\ LoadOK'
         /\ at' \in [place : Place, offset : Nat, search : Query \cup {NoQuery}, generation : Nat]
         /\ failed' \in BOOLEAN /\ derailed' \in BOOLEAN
<1> DEFINE g == at.generation + 1
           c == Call("search", g, query, 0)
<1>1. at.generation \in Nat /\ g \in Nat /\ at.generation <= g
  BY DEF TInv, AtOK
<1>2. c \in CallSet /\ c.got = Waiting /\ c.kind = "search" /\ c.generation = g /\ c.of = query
  BY <1>1 DEF Call, CallSet, Answer, Kind
<1>3. at' = [at EXCEPT !.search = query, !.generation = g]
  BY DEF RunSearch
<1>4. calls' = calls \cup {c}
  BY DEF RunSearch
<1> HIDE DEF c, g
<1>5. /\ at' \in [place : Place, offset : Nat, search : Query \cup {NoQuery}, generation : Nat]
      /\ at'.generation = g
  BY <1>1, <1>3 DEF TInv, AtOK
<1>6. CallsOK' /\ Deleting' /\ Restoring'
  BY <1>1, <1>2, <1>4, <1>5, LoadCall DEF Pages, Searches
<1>7. ShownOK(list')
  BY StatusShown DEF TInv, RunSearch
<1>8. failed' \in BOOLEAN /\ derailed' \in BOOLEAN
  BY DEF RunSearch, TInv, AtOK
<1> QED BY <1>5, <1>6, <1>7, <1>8 DEF LoadOK

\* What an action of the list alone has to keep.
ListOK == StoreOK /\ AtOK /\ LeftOK /\ LoadOK

LEMMA StepLeft ==
  ASSUME LeftOK, Step \/ Fault \/ left' = left
  PROVE  LeftOK'
<1>1. Steps \in Nat /\ Failures \in Nat
  BY ListAssumption
<1> QED BY <1>1 DEF LeftOK, Step, Fault

LEMMA SameStore == StoreOK /\ UNCHANGED backend => StoreOK'
BY DEF StoreOK, backend

\* A step that leaves the calls and the list alone.
LEMMA SameLoad ==
  ASSUME LoadOK, list' = list, calls' = calls, at' = at, batch' = batch, restoring' = restoring
  PROVE  LoadOK'
<1>1. Deleting' /\ Restoring'
  BY HandsOff DEF LoadOK
<1> QED BY <1>1 DEF LoadOK, CallsOK

\* Each action of the list keeps its part.
LEMMA ChooseTypes ==
  ASSUME TInv, NEW place \in Place, Choose(place), batch' = batch, restoring' = restoring
  PROVE  ListOK'
<1>1. StoreOK' /\ LeftOK'
  BY SameStore, StepLeft DEF TInv, Choose
<1>2. bar' \in [place : Place, query : Query \cup {NoQuery}]
  BY DEF Choose
<1>3. CASE place # bar.place
  <2>1. LoadList(place)
    BY <1>3 DEF Choose
  <2> QED BY <1>1, <1>2, <2>1, LoadListTypes DEF ListOK, AtOK
<1>4. CASE place = bar.place
  <2>1. UNCHANGED <<list, at, failed, calls, derailed>>
    BY <1>4 DEF Choose
  <2>2. LoadOK'
    BY <2>1, SameLoad DEF TInv, LoadOK
  <2> QED BY <1>1, <1>2, <2>1, <2>2 DEF ListOK, AtOK, TInv
<1> QED BY <1>3, <1>4

LEMMA TypeTypes ==
  ASSUME TInv, NEW query \in Query \cup {NoQuery}, Type(query), batch' = batch, restoring' = restoring
  PROVE  ListOK'
<1>1. StoreOK' /\ LeftOK'
  BY SameStore, StepLeft DEF TInv, Type
<1>2. bar' \in [place : Place, query : Query \cup {NoQuery}] /\ bar.place \in Place
  BY DEF Type, TInv, AtOK
<1>3. CASE query = NoQuery
  <2>1. LoadList(bar.place)
    BY <1>3 DEF Type
  <2> QED BY <1>1, <1>2, <2>1, LoadListTypes DEF ListOK, AtOK
<1>4. CASE query # NoQuery
  <2>1. RunSearch(query) /\ query \in Query
    BY <1>4 DEF Type
  <2> QED BY <1>1, <1>2, <2>1, RunSearchTypes DEF ListOK, AtOK
<1> QED BY <1>3, <1>4

LEMMA RefreshTypes ==
  ASSUME TInv, Refresh, batch' = batch, restoring' = restoring
  PROVE  ListOK'
<1>1. StoreOK' /\ LeftOK' /\ LoadList(bar.place) /\ bar' = bar
  BY SameStore, StepLeft DEF TInv, Refresh
<1>2. bar.place \in Place
  BY DEF TInv, AtOK
<1> QED BY <1>1, <1>2, LoadListTypes DEF ListOK, AtOK, TInv

LEMMA ScrollTypes ==
  ASSUME TInv, Scroll, batch' = batch, restoring' = restoring
  PROVE  ListOK'
<1>1. StoreOK' /\ LeftOK' /\ AtOK'
  BY SameStore, StepLeft DEF TInv, Scroll, AtOK
<1>2. ShownOK(list')
  BY StatusShown DEF TInv, Scroll
<1>3. list.data \in Data
  BY HaveData DEF TInv, ShownOK, Scroll, Showing
<1>4. at.generation \in Nat /\ at.offset + PageSize \in Nat /\ at.place \in Place
  BY ListAssumption DEF TInv, AtOK
<1>5. CASE list.data.searching
  <2> DEFINE c == Call("searchMore", at.generation, at.search, list.data.hits)
  <2>1. at.search \in Query /\ list.data.hits \in Nat
    BY <1>3, <1>5 DEF Scroll, TInv, AtOK, Data
  <2>2. /\ c \in CallSet /\ c.got = Waiting /\ c.kind = "searchMore"
        /\ c.generation = at.generation /\ c.of \in Query
    BY <1>4, <2>1 DEF Call, CallSet, Answer, Kind
  <2>3. calls' = calls \cup {c} /\ at' = at
    BY <1>5 DEF Scroll
  <2> HIDE DEF c
  <2>4. CallsOK' /\ Deleting' /\ Restoring'
    BY <1>4, <2>2, <2>3, LoadCall DEF Pages, Searches
  <2> QED BY <1>1, <1>2, <2>4 DEF ListOK, LoadOK
<1>6. CASE ~list.data.searching
  <2> DEFINE c == Call("more", at.generation, at.place, at.offset + PageSize)
  <2>2. /\ c \in CallSet /\ c.got = Waiting /\ c.kind = "more"
        /\ c.generation = at.generation /\ c.of = at.place
    BY <1>4 DEF Call, CallSet, Answer, Kind
  <2>3. calls' = calls \cup {c} /\ at' = at
    BY <1>6 DEF Scroll
  <2> HIDE DEF c
  <2>4. CallsOK' /\ Deleting' /\ Restoring'
    BY <1>4, <2>2, <2>3, LoadCall DEF Pages, Searches
  <2> QED BY <1>1, <1>2, <2>4 DEF ListOK, LoadOK
<1> QED BY <1>5, <1>6

LEMMA LoadOlderTypes ==
  ASSUME TInv, LoadOlder, batch' = batch, restoring' = restoring
  PROVE  ListOK'
<1>1. StoreOK' /\ LeftOK' /\ AtOK'
  BY SameStore, StepLeft DEF TInv, LoadOlder, AtOK
<1>2. list.data \in Data /\ IsInjective(list.data.items)
  BY HaveData DEF TInv, ShownOK, LoadOlder, Showing
<1>3. ShownOK(list')
  <2>1. list' = [list EXCEPT !.data.backfilling = TRUE]
    BY DEF LoadOlder
  <2>2. /\ list' \in [status : Status, data : Data] /\ list'.data.items = list.data.items
    BY <1>2, <2>1 DEF TInv, ShownOK, Data
  <2> QED BY <1>2, <2>2, NoDataAssumption DEF ShownOK
<1>4. at.generation \in Nat /\ at.place \in Place
  BY DEF TInv, AtOK
<1> DEFINE c == Call("older", at.generation, at.place, 0)
<1>5. /\ c \in CallSet /\ c.got = Waiting /\ c.kind = "older"
      /\ c.generation = at.generation /\ c.of = at.place
  BY <1>4 DEF Call, CallSet, Answer, Kind
<1>6. calls' = calls \cup {c} /\ at' = at
  BY DEF LoadOlder
<1> HIDE DEF c
<1>7. CallsOK' /\ Deleting' /\ Restoring'
  BY <1>4, <1>5, <1>6, LoadCall DEF Pages, Searches
<1> QED BY <1>1, <1>3, <1>7 DEF ListOK, LoadOK

-----------------------------------------------------------------------------
(* Types: the backend and its answers *)

\* What the invariant says of one call.
LEMMA CallFields ==
  ASSUME TInv, NEW c \in calls
  PROVE  /\ CallOK(c, at.generation) /\ c \in CallSet
         /\ c.kind \in Kind /\ c.offset \in Nat /\ c.hasOlder \in BOOLEAN /\ c.got \in Answer
         /\ c.generation \in Nat /\ c.generation <= at.generation /\ at.generation \in Nat
         /\ c.kind \in Pages => c.of \in Place
         /\ c.kind \in Searches => c.of \in Query
<1>1. CallOK(c, at.generation) /\ at.generation \in Nat
  BY DEF TInv, CallsOK, AtOK
<1> QED BY <1>1 DEF CallOK, CallSet

\* A call that has come back well brought a page.
LEMMA Brought ==
  ASSUME TInv, NEW c \in calls, c.got # Waiting, c.got # Failed
  PROVE  /\ c.got \in [state : {"done"}, rows : Seq(Id), total : Nat, hasOlder : BOOLEAN]
         /\ c.got.rows \in Seq(Id) /\ c.got.total \in Nat /\ c.got.hasOlder \in BOOLEAN
         /\ PageOf(c, c.got.rows)
<1>1. CallOK(c, at.generation) /\ c.got \in Answer
  BY CallFields
<1>2. c.got \in [state : {"done"}, rows : Seq(Id), total : Nat, hasOlder : BOOLEAN]
  BY <1>1 DEF Answer
<1> QED BY <1>1, <1>2 DEF CallOK

LEMMA ReplyTypes ==
  ASSUME TInv, NEW c \in calls, NEW got \in Answer, Reply(c, got),
         got \notin {Waiting, Failed} => PageOf(c, got.rows),
         list' = list, at' = at, batch' = batch, restoring' = restoring
  PROVE  LoadOK'
<1>1. CallsOK' /\ Deleting' /\ Restoring'
  BY ReplyKeeps
<1> QED BY <1>1 DEF LoadOK, TInv

LEMMA ReadTypes ==
  ASSUME TInv, Read, batch' = batch, restoring' = restoring
  PROVE  ListOK'
<1>1. UNCHANGED <<backend, list, at, failed, bar, left, derailed>>
  BY DEF Read
<1>2. StoreOK' /\ LeftOK' /\ AtOK' /\ StoreOK
  BY <1>1, SameStore, StepLeft DEF TInv, AtOK
<1>3. ASSUME NEW c \in Unanswered({"list", "more", "olderMore"}),
             Reply(c, ListPage(c.of, c.offset))
      PROVE  LoadOK'
  <2>1. c \in calls /\ c.kind \in Pages /\ c.kind \notin Searches
    BY DEF Unanswered, Pages, Searches
  <2>2. c.of \in Place /\ c.offset \in Nat
    BY <2>1, CallFields
  <2>3. ListPage(c.of, c.offset) \in Answer /\ PageOf(c, ListPage(c.of, c.offset).rows)
    BY <1>2, <2>1, <2>2, PlacePage DEF PageOf
  <2> QED BY <1>1, <1>3, <2>1, <2>3, ReplyTypes
<1>4. ASSUME NEW c \in Unanswered({"search", "searchMore"}),
             Reply(c, SearchHits(c.of, c.offset))
      PROVE  LoadOK'
  <2>1. c \in calls /\ c.kind \notin Pages /\ c.kind \in Searches
    BY DEF Unanswered, Pages, Searches
  <2>2. c.of \in Query /\ c.offset \in Nat
    BY <2>1, CallFields
  <2>3. SearchHits(c.of, c.offset) \in Answer /\ PageOf(c, SearchHits(c.of, c.offset).rows)
    BY <1>2, <2>1, <2>2, SearchPageRead DEF PageOf
  <2> QED BY <1>1, <1>4, <2>1, <2>3, ReplyTypes
<1> QED BY <1>2, <1>3, <1>4 DEF Read, ListOK

\* An empty page is one of anything.
LEMMA EmptyPage ==
  ASSUME NEW c, NEW total \in Nat, NEW hasOlder \in BOOLEAN
  PROVE  /\ Done(<<>>, total, hasOlder) \in Answer
         /\ PageOf(c, Done(<<>>, total, hasOlder).rows)
<1>1. <<>> \in Seq(Id)
  OBVIOUS
<1>2. ToSet(<<>>) = {} /\ IsInjective(<<>>)
  BY DEF ToSet, IsInjective
<1>3. /\ Done(<<>>, total, hasOlder) \in Answer
      /\ Done(<<>>, total, hasOlder).rows = <<>>
  BY <1>1, DoneAnswers
<1> QED BY <1>2, <1>3 DEF PageOf

LEMMA FetchOlderTypes ==
  ASSUME TInv, FetchOlder, batch' = batch, restoring' = restoring
  PROVE  ListOK'
<1>1. PICK c \in Unanswered({"older"}) :
        LET fetched == ToSet(Take(NewestFirst(Uncached(c.of)), 0, Backfill))
        IN  /\ cached' = cached \cup fetched
            /\ Reply(c, Done(<<>>, Cardinality(fetched), Uncached(c.of) # fetched))
            /\ UNCHANGED <<pending, expunged, list, at, failed, bar, left, derailed>>
  BY DEF FetchOlder
<1> DEFINE all == NewestFirst(Uncached(c.of))
           fetched == ToSet(Take(all, 0, Backfill))
           total == Cardinality(fetched)
           hasOlder == Uncached(c.of) # fetched
<1>2. c \in calls /\ c.kind = "older"
  BY DEF Unanswered
<1>3. c.of \in Place /\ StoreOK
  BY <1>2, CallFields DEF Pages, TInv
<1>4. all \in Seq(Uncached(c.of)) /\ ToSet(all) = Uncached(c.of)
  BY <1>3, ListedPart, NewestFirstLists
<1>5. Backfill \in Nat /\ 0 \in Nat
  BY ListAssumption
<1> HIDE DEF all
<1>6. fetched \subseteq Uncached(c.of)
  BY <1>4, <1>5, TakeTakes
<1>7. /\ cached' = cached \cup fetched /\ Reply(c, Done(<<>>, total, hasOlder))
      /\ UNCHANGED <<pending, expunged, list, at, failed, bar, left, derailed>>
  BY <1>1 DEF all
<1> HIDE DEF fetched
<1>8. Uncached(c.of) \subseteq Id \ (cached \cup expunged)
  BY <1>3, ListedPart
<1>9. total \in Nat
  <2>1. IsFiniteSet(fetched)
    BY <1>3, <1>6, ListedPart, FS_Subset
  <2> QED BY <2>1, FS_CardinalityType
<1>10. hasOlder \in BOOLEAN
  OBVIOUS
<1> HIDE DEF total, hasOlder
<1>11. Done(<<>>, total, hasOlder) \in Answer /\ PageOf(c, Done(<<>>, total, hasOlder).rows)
  BY <1>9, <1>10, EmptyPage
<1>12. LoadOK'
  BY <1>2, <1>7, <1>11, ReplyTypes
<1>13. StoreOK'
  BY <1>3, <1>6, <1>7, <1>8 DEF StoreOK
<1>14. LeftOK' /\ AtOK'
  BY <1>7, StepLeft DEF TInv, AtOK
<1> QED BY <1>12, <1>13, <1>14 DEF ListOK

LEMMA FaultTypes ==
  ASSUME TInv, FetchOlderUnreachable \/ CallFails, batch' = batch, restoring' = restoring
  PROVE  ListOK'
<1>1. Fault /\ UNCHANGED <<backend, list, at, failed, bar, derailed>>
  BY DEF FetchOlderUnreachable, CallFails
<1>2. StoreOK' /\ LeftOK' /\ AtOK'
  BY <1>1, SameStore, StepLeft DEF TInv, AtOK
<1>3. PICK c \in calls, got \in {Done(<<>>, 0, FALSE), Failed} : Reply(c, got)
  BY DEF FetchOlderUnreachable, CallFails, Unanswered
<1>4. Done(<<>>, 0, FALSE) \in Answer /\ PageOf(c, Done(<<>>, 0, FALSE).rows)
  BY EmptyPage
<1>5. got \in Answer /\ (got \notin {Waiting, Failed} => PageOf(c, got.rows))
  BY <1>4 DEF Answer
<1>6. LoadOK'
  BY <1>1, <1>3, <1>5, ReplyTypes
<1> QED BY <1>2, <1>6 DEF ListOK

LEMMA SyncTypes ==
  ASSUME TInv, NEW m \in Id, Arrive(m) \/ Drop(m), batch' = batch, restoring' = restoring
  PROVE  ListOK'
<1>1. Step /\ UNCHANGED <<list, at, failed, bar, calls, derailed>>
  BY DEF Arrive, Drop
<1>2. StoreOK'
  BY DEF TInv, StoreOK, Arrive, Drop
<1>3. LeftOK' /\ AtOK' /\ LoadOK'
  BY <1>1, StepLeft, SameLoad DEF TInv, LoadOK, AtOK
<1> QED BY <1>2, <1>3 DEF ListOK

-----------------------------------------------------------------------------
(* Types: answers *)

\* An answer to the list that leads to no other call.
LEMMA Heard ==
  ASSUME TInv, NEW c \in calls, c.kind \notin {"delete", "undo"}, calls' = calls \ {c},
         at'.generation = at.generation, batch' = batch, restoring' = restoring
  PROVE  CallsOK' /\ Deleting' /\ Restoring'
<1>1. CallsOK'
  BY DEF TInv, CallsOK
<1>2. Deleting' /\ Restoring'
  BY HandsOff DEF TInv
<1> QED BY <1>1, <1>2

LEMMA FirstPageTypes ==
  ASSUME TInv, NEW c \in Answered({"list", "search"}), calls' = calls \ {c}, FirstPageArrives(c),
         batch' = batch, restoring' = restoring
  PROVE  LoadOK' /\ at' = at /\ failed' \in BOOLEAN /\ derailed' \in BOOLEAN
<1>1. UNCHANGED <<at, failed, derailed>>
  BY DEF FirstPageArrives
<1>2. c \in calls /\ c.kind \in {"list", "search"} /\ c.got # Waiting
  BY DEF Answered
<1>3. CallsOK' /\ Deleting' /\ Restoring'
  BY <1>1, <1>2, Heard
<1>4. ASSUME ~Current(c) PROVE ShownOK(list')
  BY <1>4 DEF FirstPageArrives, TInv
<1>5. ASSUME Current(c) /\ c.got = Failed PROVE ShownOK(list')
  BY <1>5 DEF FirstPageArrives, ShownOK, Status
<1>6. ASSUME Current(c) /\ c.got # Failed PROVE ShownOK(list')
  <2>1. /\ c.got.rows \in Seq(Id) /\ c.got.total \in Nat /\ c.got.hasOlder \in BOOLEAN
        /\ IsInjective(c.got.rows) /\ SearchPage \in Nat
    BY <1>2, <1>6, Brought, ListAssumption DEF PageOf
  <2>2. FirstPage(c) \in Data /\ FirstPage(c).items = c.got.rows
    BY <2>1 DEF FirstPage, Data
  <2> QED BY <1>6, <2>1, <2>2, ReadyShown DEF FirstPageArrives
<1>7. ShownOK(list')
  BY <1>4, <1>5, <1>6 DEF FirstPageArrives
<1> QED BY <1>1, <1>3, <1>7 DEF LoadOK, TInv, AtOK

\* A page added to what is loaded.
LEMMA ExtendTypes ==
  ASSUME TInv, NEW c \in calls, c.got # Waiting, c.got # Failed, NEW data,
         list.data # NoData => data \in Data /\ data.items = list.data.items,
         Extend(c, data)
  PROVE  ShownOK(list')
<1>1. CASE list.data = NoData
  BY <1>1 DEF Extend, TInv
<1>2. CASE list.data # NoData
  <2> DEFINE both == AppendPage(list.data.items, c.got.rows)
             new == [data EXCEPT !.items = AppendPage(@, c.got.rows), !.total = c.got.total]
  <2>1. /\ c.got.rows \in Seq(Id) /\ c.got.total \in Nat /\ IsInjective(c.got.rows)
    BY Brought DEF PageOf
  <2>2. list.data \in Data /\ IsInjective(list.data.items)
    BY <1>2, HaveData DEF TInv
  <2>3. list.data.items \in Seq(Id)
    BY <2>2 DEF Data
  <2>4. both \in Seq(Id) /\ IsInjective(both)
    BY <2>1, <2>2, <2>3, Appends
  <2>5. data \in Data /\ data.items = list.data.items
    BY <1>2
  <2> HIDE DEF both
  <2>6. new = [data EXCEPT !.items = both, !.total = c.got.total]
    BY <2>5 DEF both, Data
  <2>7. new \in Data /\ new.items = both
    BY <2>1, <2>4, <2>5, <2>6 DEF Data
  <2>8. list' = Ready(new)
    BY <1>2 DEF Extend
  <2> HIDE DEF new
  <2> QED BY <2>4, <2>7, <2>8, ReadyShown
<1> QED BY <1>1, <1>2

\* The offset of a page.
LEMMA OffsetTypes ==
  ASSUME AtOK, NEW n \in Nat, at' = [at EXCEPT !.offset = n]
  PROVE  /\ at' \in [place : Place, offset : Nat, search : Query \cup {NoQuery}, generation : Nat]
         /\ at'.generation = at.generation
BY DEF AtOK

LEMMA MoreTypes ==
  ASSUME TInv, NEW c \in Answered({"more"}), calls' = calls \ {c}, MoreArrives(c),
         batch' = batch, restoring' = restoring, bar' = bar
  PROVE  LoadOK' /\ AtOK'
<1>1. UNCHANGED <<failed, derailed>>
  BY DEF MoreArrives
<1>2. c \in calls /\ c.kind = "more" /\ c.got # Waiting
  BY DEF Answered
<1>3. CASE ~(Current(c) /\ c.got # Failed)
  <2>1. at' = at
    BY <1>3 DEF MoreArrives
  <2>2. ShownOK(list')
    <3>1. CASE ~Current(c)
      BY <3>1 DEF MoreArrives, TInv
    <3>2. CASE Current(c) /\ list.data = NoData
      <4>1. list' = [list EXCEPT !.status = "error"]
        BY <1>3, <3>2 DEF MoreArrives
      <4> QED BY <4>1, StatusShown DEF TInv
    <3>3. CASE Current(c) /\ list.data # NoData
      <4>1. list' = Ready(list.data)
        BY <1>3, <3>3 DEF MoreArrives
      <4> QED BY <3>3, <4>1, HaveData, ReadyShown DEF TInv
    <3> QED BY <3>1, <3>2, <3>3
  <2>3. CallsOK' /\ Deleting' /\ Restoring'
    BY <1>2, <2>1, Heard
  <2> QED BY <1>1, <2>1, <2>2, <2>3 DEF LoadOK, AtOK, TInv
<1>4. CASE Current(c) /\ c.got # Failed
  <2> DEFINE data == [list.data EXCEPT !.searching = FALSE, !.hasOlder = c.got.hasOlder]
  <2>1. at' = [at EXCEPT !.offset = c.offset] /\ Extend(c, data)
    BY <1>4 DEF MoreArrives
  <2>2. c.offset \in Nat /\ c.got.hasOlder \in BOOLEAN
    BY <1>2, <1>4, CallFields, Brought
  <2>3. list.data # NoData => data \in Data /\ data.items = list.data.items
    BY <2>2, HaveData DEF TInv, Data
  <2> HIDE DEF data
  <2>4. ShownOK(list')
    BY <1>2, <1>4, <2>1, <2>3, ExtendTypes
  <2>5. /\ at' \in [place : Place, offset : Nat, search : Query \cup {NoQuery}, generation : Nat]
        /\ at'.generation = at.generation
    BY <2>1, <2>2, OffsetTypes DEF TInv
  <2>6. CallsOK' /\ Deleting' /\ Restoring'
    BY <1>2, <2>5, Heard
  <2> QED BY <1>1, <2>4, <2>5, <2>6 DEF LoadOK, AtOK, TInv
<1> QED BY <1>3, <1>4

LEMMA MoreSearchTypes ==
  ASSUME TInv, NEW c \in Answered({"searchMore"}), calls' = calls \ {c}, MoreSearchArrives(c),
         batch' = batch, restoring' = restoring, bar' = bar
  PROVE  LoadOK' /\ AtOK'
<1>1. UNCHANGED <<at, failed>> /\ derailed' \in BOOLEAN
  BY DEF MoreSearchArrives, TInv, AtOK
<1>2. c \in calls /\ c.kind = "searchMore" /\ c.got # Waiting
  BY DEF Answered
<1>3. CallsOK' /\ Deleting' /\ Restoring'
  BY <1>1, <1>2, Heard
<1>4. ASSUME list' = list PROVE ShownOK(list')
  BY <1>4 DEF TInv
<1>5. ASSUME list.data # NoData /\ list' = Ready(list.data) PROVE ShownOK(list')
  BY <1>5, HaveData, ReadyShown DEF TInv
<1>6. ASSUME c.got # Failed, list.data # NoData,
             list' = Ready([list.data EXCEPT !.items = AppendPage(@, c.got.rows),
                                             !.total = c.got.total,
                                             !.hits = c.offset + SearchPage,
                                             !.exhausted = c.got.rows = <<>>])
      PROVE  ShownOK(list')
  <2> DEFINE both == AppendPage(list.data.items, c.got.rows)
             empty == c.got.rows = <<>>
             n == c.offset + SearchPage
             new == [list.data EXCEPT !.items = both, !.total = c.got.total, !.hits = n,
                                      !.exhausted = empty]
  <2>1. /\ c.got.rows \in Seq(Id) /\ c.got.total \in Nat /\ IsInjective(c.got.rows)
    BY <1>2, <1>6, Brought DEF PageOf
  <2>2. list.data \in Data /\ IsInjective(list.data.items)
    BY <1>6, HaveData DEF TInv
  <2>3. list.data.items \in Seq(Id)
    BY <2>2 DEF Data
  <2>4. both \in Seq(Id) /\ IsInjective(both)
    BY <2>1, <2>2, <2>3, Appends
  <2>5. n \in Nat /\ empty \in BOOLEAN
    BY <1>2, CallFields, ListAssumption
  <2>6. list' = Ready(new)
    BY <1>6, <2>2 DEF Data
  <2> HIDE DEF both, n, empty
  <2>7. new \in Data /\ new.items = both
    BY <2>1, <2>2, <2>4, <2>5 DEF Data
  <2> HIDE DEF new
  <2> QED BY <2>4, <2>6, <2>7, ReadyShown
<1>7. ShownOK(list')
  BY <1>4, <1>5, <1>6 DEF MoreSearchArrives
<1> QED BY <1>1, <1>3, <1>7 DEF LoadOK, AtOK, TInv

LEMMA NotBackfilledTypes ==
  ASSUME TInv, NotBackfilled
  PROVE  ShownOK(list') /\ failed' \in BOOLEAN /\ at' = at
<1>1. failed' \in BOOLEAN /\ at' = at
  BY DEF NotBackfilled
<1>2. CASE list.data = NoData
  BY <1>1, <1>2 DEF NotBackfilled, TInv
<1>3. CASE list.data # NoData
  <2> DEFINE new == [list.data EXCEPT !.backfilling = FALSE]
  <2>1. list' = Ready(new)
    BY <1>3 DEF NotBackfilled
  <2>2. new \in Data /\ IsInjective(new.items)
    BY <1>3, HaveData DEF TInv, Data
  <2> HIDE DEF new
  <2> QED BY <1>1, <2>1, <2>2, ReadyShown
<1> QED BY <1>2, <1>3

LEMMA OlderTypes ==
  ASSUME TInv, NEW c \in Answered({"older"}), OlderArrives(c),
         batch' = batch, restoring' = restoring, bar' = bar
  PROVE  LoadOK' /\ AtOK'
<1>1. c \in calls /\ c.kind = "older" /\ c.got # Waiting
  BY DEF Answered
<1>2. c \in CallSet /\ c.got \in Answer /\ c.of \in Place
  BY <1>1, CallFields DEF Pages
<1>3. at' = at /\ derailed' = derailed /\ failed' \in BOOLEAN
  BY NotBackfilledTypes DEF OlderArrives, TInv, AtOK
<1>4. ShownOK(list')
  <2>1. CASE list' = list
    BY <2>1 DEF TInv
  <2>2. CASE NotBackfilled
    BY <2>2, NotBackfilledTypes
  <2>3. CASE /\ c.got # Failed /\ list.data # NoData
             /\ list' = Ready(Backfilled(list.data, c.got.hasOlder))
    <3> DEFINE new == Backfilled(list.data, c.got.hasOlder)
    <3>1. c.got.hasOlder \in BOOLEAN
      BY <1>1, <2>3, Brought
    <3>2. new \in Data /\ IsInjective(new.items)
      BY <2>3, <3>1, HaveData DEF TInv, Data, Backfilled
    <3> HIDE DEF new
    <3> QED BY <2>3, <3>2, ReadyShown DEF new
  <2> QED BY <2>1, <2>2, <2>3 DEF OlderArrives
<1>5. CASE calls' = calls \ {c}
  BY <1>1, <1>3, <1>4, <1>5, Heard DEF LoadOK, AtOK, TInv
<1>6. CASE calls' # calls \ {c}
  <2> DEFINE n == at.offset + PageSize
             page == [Call("olderMore", c.generation, c.of, n) EXCEPT !.hasOlder = c.got.hasOlder]
  <2>1. Current(c) /\ c.got # Failed /\ calls' = (calls \ {c}) \cup {page}
    BY <1>6 DEF OlderArrives
  <2>2. c.got.hasOlder \in BOOLEAN
    BY <1>1, <2>1, Brought
  <2>3. n \in Nat
    BY ListAssumption DEF TInv, AtOK
  <2> HIDE DEF n
  <2>4. /\ page \in CallSet /\ page.got = Waiting /\ page.kind = "olderMore"
        /\ page.generation = c.generation /\ page.of = c.of
    BY <1>2, <2>2, <2>3 DEF Call, CallSet, Answer, Kind
  <2> HIDE DEF page
  <2>5. c.generation <= at.generation /\ at.generation \in Nat
    BY <1>1, CallFields
  <2>6. \A d \in calls \ (calls \ {c}) : d.kind \notin {"delete", "undo"}
    BY <1>1
  <2>7. at.generation <= at.generation
    BY <2>5
  <2>8. CallsOK' /\ Deleting' /\ Restoring'
    BY <1>2, <1>3, <2>1, <2>4, <2>5, <2>6, <2>7, LoadCall DEF Pages, Searches
  <2> QED BY <1>3, <1>4, <2>8 DEF LoadOK, AtOK, TInv
<1> QED BY <1>5, <1>6

LEMMA OlderPageTypes ==
  ASSUME TInv, NEW c \in Answered({"olderMore"}), calls' = calls \ {c}, OlderPageArrives(c),
         batch' = batch, restoring' = restoring, bar' = bar
  PROVE  LoadOK' /\ AtOK'
<1>1. c \in calls /\ c.kind = "olderMore" /\ c.got # Waiting /\ derailed' = derailed
  BY DEF Answered, OlderPageArrives
<1>2. CASE ~(Current(c) /\ c.got # Failed)
  <2>1. at' = at /\ failed' \in BOOLEAN /\ ShownOK(list')
    BY <1>2, NotBackfilledTypes DEF OlderPageArrives, TInv, AtOK
  <2>2. CallsOK' /\ Deleting' /\ Restoring'
    BY <1>1, <2>1, Heard
  <2> QED BY <1>1, <2>1, <2>2 DEF LoadOK, AtOK, TInv
<1>3. CASE Current(c) /\ c.got # Failed
  <2> DEFINE data == Backfilled(list.data, c.hasOlder)
  <2>1. at' = [at EXCEPT !.offset = c.offset] /\ Extend(c, data) /\ failed' = failed
    BY <1>3 DEF OlderPageArrives
  <2>2. c.offset \in Nat /\ c.hasOlder \in BOOLEAN
    BY <1>1, CallFields
  <2>3. list.data # NoData => data \in Data /\ data.items = list.data.items
    BY <2>2, HaveData DEF TInv, Data, Backfilled
  <2> HIDE DEF data
  <2>4. ShownOK(list')
    BY <1>1, <1>3, <2>1, <2>3, ExtendTypes
  <2>5. /\ at' \in [place : Place, offset : Nat, search : Query \cup {NoQuery}, generation : Nat]
        /\ at'.generation = at.generation
    BY <2>1, <2>2, OffsetTypes DEF TInv
  <2>6. CallsOK' /\ Deleting' /\ Restoring'
    BY <1>1, <2>5, Heard
  <2> QED BY <1>1, <2>1, <2>4, <2>5, <2>6 DEF LoadOK, AtOK, TInv
<1> QED BY <1>2, <1>3

LEMMA DeliverTypes ==
  ASSUME TInv, Deliver, batch' = batch, restoring' = restoring
  PROVE  ListOK'
<1>1. UNCHANGED <<backend, bar, left>>
  BY DEF Deliver
<1>2. StoreOK' /\ LeftOK'
  BY <1>1, SameStore, StepLeft DEF TInv
<1>3. LoadOK' /\ AtOK'
  <2>1. ASSUME NEW c \in Answered({"list", "search"}), calls' = calls \ {c}, FirstPageArrives(c)
        PROVE  LoadOK' /\ AtOK'
    BY <1>1, <2>1, FirstPageTypes DEF AtOK, TInv
  <2>2. ASSUME NEW c \in Answered({"more"}), calls' = calls \ {c}, MoreArrives(c)
        PROVE  LoadOK' /\ AtOK'
    BY <1>1, <2>2, MoreTypes
  <2>3. ASSUME NEW c \in Answered({"searchMore"}), calls' = calls \ {c}, MoreSearchArrives(c)
        PROVE  LoadOK' /\ AtOK'
    BY <1>1, <2>3, MoreSearchTypes
  <2>4. ASSUME NEW c \in Answered({"older"}), OlderArrives(c)
        PROVE  LoadOK' /\ AtOK'
    BY <1>1, <2>4, OlderTypes
  <2>5. ASSUME NEW c \in Answered({"olderMore"}), calls' = calls \ {c}, OlderPageArrives(c)
        PROVE  LoadOK' /\ AtOK'
    BY <1>1, <2>5, OlderPageTypes
  <2> QED BY <2>1, <2>2, <2>3, <2>4, <2>5 DEF Deliver
<1> QED BY <1>2, <1>3 DEF ListOK

-----------------------------------------------------------------------------
(* Types: the window *)

\* A list that is not empty is its first entry and the rest.
LEMMA FirstAndRest ==
  ASSUME NEW T, NEW s \in Seq(T), s # <<>>
  PROVE  /\ Head(s) \in T /\ Head(s) \in ToSet(s) /\ Head(s) = s[1]
         /\ Tail(s) \in Seq(T) /\ Len(Tail(s)) = Len(s) - 1
         /\ ToSet(s) = {Head(s)} \cup ToSet(Tail(s))
<1>1. /\ Len(s) \in Nat \ {0} /\ DOMAIN s = 1..Len(s)
  BY EmptySeq, LenProperties
<1>2. /\ Head(s) \in T /\ Tail(s) \in Seq(T) /\ Len(Tail(s)) = Len(s) - 1
      /\ \A i \in 1..Len(Tail(s)) : Tail(s)[i] = s[i + 1]
  BY HeadTailProperties
<1>3. DOMAIN Tail(s) = 1..(Len(s) - 1)
  BY <1>2, LenProperties
<1>4. Head(s) = s[1] /\ 1 \in DOMAIN s
  BY <1>1
<1>5. ASSUME NEW i \in DOMAIN s PROVE s[i] \in {Head(s)} \cup ToSet(Tail(s))
  <2>1. CASE i = 1
    BY <1>4, <2>1
  <2>2. CASE i # 1
    <3>1. i - 1 \in 1..(Len(s) - 1) /\ i - 1 + 1 = i
      BY <1>1, <2>2
    <3>2. Tail(s)[i - 1] = s[i]
      BY <1>2, <3>1
    <3> QED BY <1>3, <3>1, <3>2 DEF ToSet
  <2> QED BY <2>1, <2>2
<1>6. ASSUME NEW i \in DOMAIN Tail(s) PROVE Tail(s)[i] \in ToSet(s)
  <2>1. i + 1 \in DOMAIN s /\ Tail(s)[i] = s[i + 1]
    BY <1>1, <1>2, <1>3
  <2> QED BY <2>1 DEF ToSet
<1>7. ToSet(s) \subseteq {Head(s)} \cup ToSet(Tail(s))
  BY <1>5 DEF ToSet
<1>8. {Head(s)} \cup ToSet(Tail(s)) \subseteq ToSet(s)
  BY <1>4, <1>6 DEF ToSet
<1> QED BY <1>2, <1>4, <1>7, <1>8 DEF ToSet

\* What is appended comes last.
LEMMA Appended ==
  ASSUME NEW T, NEW s \in Seq(T), NEW x \in T
  PROVE  /\ Append(s, x) \in Seq(T) /\ Append(s, x) # <<>>
         /\ Len(Append(s, x)) = Len(s) + 1 /\ Len(s) \in Nat
         /\ DOMAIN s = 1..Len(s) /\ DOMAIN Append(s, x) = 1..(Len(s) + 1)
         /\ \A i \in DOMAIN s : Append(s, x)[i] = s[i]
         /\ Append(s, x)[Len(s) + 1] = x
         /\ ToSet(Append(s, x)) = ToSet(s) \cup {x}
         /\ IsInjective(s) /\ x \notin ToSet(s) => IsInjective(Append(s, x))
<1> DEFINE t == Append(s, x)
<1>1. Len(s) \in Nat /\ DOMAIN s = 1..Len(s)
  BY LenProperties
<1>2. /\ t \in Seq(T) /\ Len(t) = Len(s) + 1
      /\ \A i \in 1..Len(s) : t[i] = s[i]
      /\ t[Len(s) + 1] = x
  BY <1>1
<1> HIDE DEF t
<1>3. DOMAIN t = 1..(Len(s) + 1) /\ t # <<>>
  BY <1>1, <1>2, LenProperties
<1>4. ASSUME NEW i \in DOMAIN t PROVE (i \in DOMAIN s /\ t[i] = s[i]) \/ (i = Len(s) + 1 /\ t[i] = x)
  BY <1>1, <1>2, <1>3
<1>5. ToSet(t) \subseteq ToSet(s) \cup {x}
  BY <1>4 DEF ToSet
<1>6. ASSUME NEW i \in DOMAIN s PROVE s[i] \in ToSet(t)
  <2>1. i \in DOMAIN t /\ t[i] = s[i]
    BY <1>1, <1>2, <1>3
  <2> QED BY <2>1 DEF ToSet
<1>7. x \in ToSet(t)
  <2>1. Len(s) + 1 \in DOMAIN t
    BY <1>1, <1>3
  <2> QED BY <1>2, <2>1 DEF ToSet
<1>8. ToSet(s) \cup {x} \subseteq ToSet(t)
  BY <1>6, <1>7 DEF ToSet
<1>9. ASSUME IsInjective(s), x \notin ToSet(s),
             NEW i \in DOMAIN t, NEW j \in DOMAIN t, t[i] = t[j]
      PROVE  i = j
  <2>1. \A k \in DOMAIN s : s[k] # x
    BY <1>9 DEF ToSet
  <2> QED BY <1>4, <1>9, <2>1 DEF IsInjective
<1>10. \A i \in DOMAIN s : t[i] = s[i]
  BY <1>1, <1>2
<1> QED BY <1>1, <1>2, <1>3, <1>5, <1>8, <1>9, <1>10 DEF t, IsInjective

\* The last entry of a stack, and the stack without it.
LEMMA LastAndRest ==
  ASSUME NEW T, NEW s \in Seq(T), s # <<>>
  PROVE  /\ Last(s) \in T /\ Front(s) \in Seq(T)
         /\ Len(s) \in Nat \ {0} /\ DOMAIN s = 1..Len(s) /\ Last(s) = s[Len(s)]
         /\ DOMAIN Front(s) = 1..(Len(s) - 1)
         /\ \A i \in 1..(Len(s) - 1) : Front(s)[i] = s[i]
<1>1. Len(s) \in Nat \ {0} /\ DOMAIN s = 1..Len(s) /\ \A i \in 1..Len(s) : s[i] \in T
  BY EmptySeq, LenProperties
<1>2. Last(s) = s[Len(s)] /\ Last(s) \in T
  BY <1>1 DEF Last
<1> DEFINE n == Len(s) - 1
           t == SubSeq(s, 1, n)
<1>3. n \in Nat /\ \A i \in 1..n : s[i] \in T
  BY <1>1
<1>4. /\ t \in Seq(T) /\ Len(t) = IF 1 <= n THEN n - 1 + 1 ELSE 0
      /\ \A i \in 1..(n - 1 + 1) : t[i] = s[1 + i - 1]
  <2> HIDE DEF n
  <2> QED BY <1>3, SubSeqProperties
<1> HIDE DEF t
<1>5. Len(t) = n /\ DOMAIN t = 1..n
  <2>1. Len(t) = n
    <3>1. Len(s) \in Nat \ {0}
      BY <1>1
    <3>2. Len(t) = IF 1 <= n THEN n - 1 + 1 ELSE 0
      BY <1>4
    <3> DEFINE a == Len(s)
               b == Len(t)
    <3> HIDE DEF a, b
    <3>3. a \in Nat \ {0} /\ b = IF 1 <= a - 1 THEN a - 1 - 1 + 1 ELSE 0
      BY <3>1, <3>2 DEF a, b
    <3>4. b = a - 1
      BY <3>3
    <3> QED BY <3>4 DEF a, b
  <2>2. DOMAIN t = 1..Len(t)
    BY <1>4, LenProperties
  <2> QED BY <2>1, <2>2
<1>6. \A i \in 1..n : t[i] = s[i]
  BY <1>3, <1>4
<1>7. Front(s) = t
  BY DEF Front, t
<1> QED BY <1>1, <1>2, <1>4, <1>5, <1>6, <1>7

\* What is on screen is messages, each once.
LEMMA RowsOK ==
  ASSUME ShownOK(list)
  PROVE  /\ Rows \in Seq(Id) /\ IsInjective(Rows) /\ ToSet(Rows) \subseteq Id
         /\ list.status = "ready" => list.data \in Data /\ Rows = list.data.items
<1>1. Rows \in Seq(Id) /\ IsInjective(Rows)
  <2>1. CASE list.data = NoData
    BY <2>1 DEF Rows, IsInjective
  <2>2. CASE list.data # NoData
    BY <2>2, HaveData DEF Rows, Data
  <2> QED BY <2>1, <2>2
<1>2. ToSet(Rows) \subseteq Id
  BY <1>1, LenProperties DEF ToSet
<1>3. list.status = "ready" => list.data # NoData /\ list.data \in Data
  BY HaveData DEF ShownOK
<1> QED BY <1>1, <1>2, <1>3 DEF Rows

\* A step of the user's that leaves the list and the calls alone.
LEMMA ListLeft ==
  ASSUME TInv, UNCHANGED <<backend, list, at, failed, bar, calls, derailed>>,
         batch' = batch, restoring' = restoring, Step
  PROVE  ListOK'
<1>1. StoreOK' /\ LeftOK' /\ AtOK'
  BY SameStore, StepLeft DEF TInv, AtOK
<1>2. LoadOK'
  BY SameLoad DEF TInv, LoadOK
<1> QED BY <1>1, <1>2 DEF ListOK

\* The two parts make the invariant.
LEMMA Joined == ListOK' /\ WindowOK' => TInv'
BY DEF TInv, ListOK, LoadOK

\* Each action of the window keeps the invariant.
LEMMA PickTypes ==
  ASSUME TInv, NEW ms \in SUBSET ToSet(Rows), Pick(ms)
  PROVE  TInv'
<1>1. ListOK'
  BY ListLeft DEF Pick
<1>2. ToSet(Rows) \subseteq Id
  BY RowsOK DEF TInv
<1>3. WindowOK'
  BY <1>2 DEF Pick, TInv, WindowOK
<1> QED BY <1>1, <1>3, Joined

LEMMA OpenTypes ==
  ASSUME TInv, NEW m \in Id, Open(m)
  PROVE  TInv'
<1>1. ListOK'
  BY ListLeft DEF Open
<1>2. WindowOK'
  BY DEF Open, TInv, WindowOK
<1> QED BY <1>1, <1>2, Joined

LEMMA ExpandTypes ==
  ASSUME TInv, ExpandSelection
  PROVE  TInv'
<1> DEFINE of == IF at.search = NoQuery THEN at.place ELSE at.search
           c == Call("ids", 0, of, 0)
<1>1. UNCHANGED <<backend, list, at, failed, bar, derailed, window>> /\ Step
  BY DEF ExpandSelection
<1>2. of \in Place \cup Query /\ at.generation \in Nat
  BY DEF TInv, AtOK
<1>3. calls' = calls \cup {c}
  BY DEF ExpandSelection
<1> HIDE DEF of
<1>4. c \in CallSet /\ c.got = Waiting /\ c.kind = "ids" /\ c.generation = 0 /\ c.of = of
  BY <1>2 DEF Call, CallSet, Answer, Kind
<1> HIDE DEF c
<1>5. c.generation <= at.generation
  BY <1>2, <1>4
<1>6. CallOK(c, at.generation)
  BY <1>2, <1>4, <1>5, CallingOK DEF Pages, Searches
<1>7. CallsOK'
  BY <1>1, <1>3, <1>6 DEF TInv, CallsOK
<1>8. Deleting' /\ Restoring'
  BY <1>1, <1>3, <1>4, HandsOff DEF TInv, window
<1>9. StoreOK' /\ LeftOK' /\ AtOK' /\ ShownOK(list)'
  BY <1>1, SameStore, StepLeft DEF TInv, AtOK
<1>10. WindowOK'
  BY <1>1 DEF TInv, WindowOK, window
<1> QED BY <1>7, <1>8, <1>9, <1>10 DEF TInv

\* An answer of the backend's that leaves the frontend alone.
LEMMA AnswerTypes ==
  ASSUME TInv, NEW c \in calls, NEW got \in Answer, Reply(c, got),
         got \notin {Waiting, Failed} => PageOf(c, got.rows),
         UNCHANGED <<list, at, failed, bar, left, derailed, window>>, StoreOK'
  PROVE  TInv'
<1>1. LoadOK'
  BY ReplyTypes DEF window
<1>2. LeftOK' /\ AtOK'
  BY StepLeft DEF TInv, AtOK
<1>3. WindowOK'
  BY DEF TInv, WindowOK, window
<1> QED BY <1>1, <1>2, <1>3, Joined DEF ListOK

LEMMA ReadIdsTypes ==
  ASSUME TInv, ReadIds
  PROVE  TInv'
<1>1. PICK c \in Unanswered({"ids"}) :
        Reply(c, Done(IF c.of \in Query THEN Keep(Hits(c.of), cached)
                                        ELSE NewestFirst(Listed(c.of)), 0, FALSE))
  BY DEF ReadIds
<1>2. UNCHANGED <<backend, list, at, failed, bar, left, derailed, window>>
  BY DEF ReadIds
<1> DEFINE rows == IF c.of \in Query THEN Keep(Hits(c.of), cached) ELSE NewestFirst(Listed(c.of))
<1>3. c \in calls /\ c.kind = "ids"
  BY DEF Unanswered
<1>4. c.of \in Place \cup Query /\ StoreOK
  BY <1>3, CallFields DEF CallOK, TInv
<1>5. rows \in Seq(Id) /\ IsInjective(rows)
  <2>1. CASE c.of \in Query
    BY <1>4, <2>1, HitsPart, KeepKeeps
  <2>2. CASE c.of \notin Query
    <3>1. c.of \in Place
      BY <1>4, <2>2
    <3>2. NewestFirst(Listed(c.of)) \in Seq(Listed(c.of)) /\ IsInjective(NewestFirst(Listed(c.of)))
      BY <1>4, <3>1, ListedPart, NewestFirstLists
    <3>3. NewestFirst(Listed(c.of)) \in Seq(Id)
      BY <1>4, <3>1, <3>2, ListedPart, SeqMonotonic
    <3> QED BY <2>2, <3>2, <3>3
  <2> QED BY <2>1, <2>2
<1>6. Reply(c, Done(rows, 0, FALSE))
  BY <1>1
<1> HIDE DEF rows
<1>7. Done(rows, 0, FALSE) \in Answer /\ Done(rows, 0, FALSE).rows = rows
  BY <1>5 DEF Done, Answer
<1>8. PageOf(c, Done(rows, 0, FALSE).rows)
  BY <1>3, <1>5, <1>7 DEF PageOf, Pages, Searches
<1>9. StoreOK'
  BY <1>2, <1>4, SameStore
<1> QED BY <1>2, <1>3, <1>6, <1>7, <1>8, <1>9, AnswerTypes

LEMMA IdsTypes ==
  ASSUME TInv, IdsArrive
  PROVE  TInv'
<1>1. PICK c \in Answered({"ids"}) :
        /\ calls' = calls \ {c}
        /\ picked' = IF c.got = Failed THEN picked ELSE ToSet(c.got.rows)
        /\ UNCHANGED <<backend, list, at, failed, bar, left, derailed>>
        /\ UNCHANGED <<open, batch, undoable, restoring, restored, lost>>
  BY DEF IdsArrive
<1>2. c \in calls /\ c.kind = "ids" /\ c.got # Waiting
  BY DEF Answered
<1>3. CallsOK' /\ Deleting' /\ Restoring'
  BY <1>1, <1>2, Heard
<1>4. picked' \subseteq Id
  <2>1. CASE c.got = Failed
    BY <1>1, <2>1 DEF TInv, WindowOK
  <2>2. CASE c.got # Failed
    <3>1. c.got.rows \in Seq(Id)
      BY <1>2, <2>2, Brought
    <3>2. ToSet(c.got.rows) \subseteq Id
      BY <3>1, LenProperties DEF ToSet
    <3> QED BY <1>1, <2>2, <3>2
  <2> QED BY <2>1, <2>2
<1>5. StoreOK' /\ LeftOK' /\ AtOK' /\ ShownOK(list)'
  BY <1>1, SameStore, StepLeft DEF TInv, AtOK
<1>6. WindowOK'
  BY <1>1, <1>4 DEF TInv, WindowOK
<1> QED BY <1>3, <1>5, <1>6 DEF TInv

LEMMA MarkTypes ==
  ASSUME TInv, MarkDeletePending \/ ClearDeletePending
  PROVE  TInv'
<1>1. PICK c \in calls, got \in {Done(<<>>, 0, FALSE), Failed} : Reply(c, got)
  BY DEF MarkDeletePending, ClearDeletePending, Unanswered
<1>2. UNCHANGED <<cached, expunged, list, at, failed, bar, left, derailed, window>>
  BY DEF MarkDeletePending, ClearDeletePending
<1>3. StoreOK'
  BY DEF MarkDeletePending, ClearDeletePending, TInv, StoreOK
<1>4. Done(<<>>, 0, FALSE) \in Answer /\ PageOf(c, Done(<<>>, 0, FALSE).rows)
  BY EmptyPage
<1>5. got \in Answer /\ (got \notin {Waiting, Failed} => PageOf(c, got.rows))
  BY <1>4 DEF Answer
<1> QED BY <1>1, <1>2, <1>3, <1>5, AnswerTypes

LEMMA DeleteTypes ==
  ASSUME TInv, NEW ms \in Seq(Id), Delete(ms), picked' \in SUBSET Id
  PROVE  TInv'
<1> DEFINE c == Call("delete", 0, Head(ms), 0)
           new == [todo |-> Tail(ms), all |-> ToSet(ms), done |-> <<>>]
<1>1. /\ Step /\ batch = NoBatch /\ ms # <<>> /\ batch' = new /\ calls' = calls \cup {c}
      /\ UNCHANGED <<backend, list, at, failed, bar, derailed>>
      /\ UNCHANGED <<open, undoable, restoring, restored, lost>>
  BY DEF Delete
<1>2. /\ Head(ms) \in Id /\ Head(ms) \in ToSet(ms) /\ Tail(ms) \in Seq(Id)
      /\ ToSet(ms) = {Head(ms)} \cup ToSet(Tail(ms))
  BY <1>1, FirstAndRest
<1>3. ToSet(ms) \subseteq Id
  BY LenProperties DEF ToSet
<1>4. c \in CallSet /\ c.got = Waiting /\ c.kind = "delete" /\ c.generation = 0 /\ c.of = Head(ms)
  BY <1>2 DEF Call, CallSet, Answer, Kind
<1>5. ToSet(<<>>) = {}
  BY DEF ToSet
<1>6. new \in Batch /\ new # NoBatch
  <2>1. <<>> \in Seq(Id)
    OBVIOUS
  <2>2. new \in Batch
    BY <1>2, <1>3, <2>1 DEF Batch
  <2> HIDE DEF new
  <2> QED BY <2>2, NoBatchAssumption
<1>7. new.all = ToSet(ms) /\ new.done = <<>> /\ new.todo = Tail(ms)
  OBVIOUS
<1> HIDE DEF new, c
<1>8. CallsOK'
  <2>1. at.generation \in Nat /\ 0 <= at.generation
    BY DEF TInv, AtOK
  <2>2. CallOK(c, at.generation)
    BY <1>2, <1>4, <2>1, CallingOK DEF Pages, Searches
  <2> QED BY <1>1, <2>2 DEF TInv, CallsOK
<1>9. Deleting'
  <2>1. Out("delete") = {}
    BY <1>1 DEF TInv, Deleting
  <2>2. Out("delete")' = {c}
    BY <1>1, <1>4, <2>1 DEF Out
  <2>3. c.of \in new.all /\ ToSet(new.done) \cup ToSet(new.todo) \subseteq new.all
    BY <1>2, <1>4, <1>5, <1>7
  <2> QED BY <1>1, <1>6, <2>2, <2>3 DEF Deleting
<1>10. Restoring'
  <2>1. Out("undo")' = Out("undo")
    BY <1>1, <1>4 DEF Out
  <2> QED BY <1>1, <2>1 DEF TInv, Restoring
<1>11. StoreOK' /\ LeftOK' /\ AtOK' /\ ShownOK(list)'
  BY <1>1, SameStore, StepLeft DEF TInv, AtOK
<1>12. WindowOK'
  BY <1>1, <1>6 DEF TInv, WindowOK
<1> QED BY <1>8, <1>9, <1>10, <1>11, <1>12 DEF TInv

LEMMA DeletePickedTypes ==
  ASSUME TInv, DeletePicked
  PROVE  TInv'
<1>1. Keep(Rows, picked) \in Seq(Id)
  BY RowsOK, KeepKeeps DEF TInv
<1>2. Delete(Keep(Rows, picked)) /\ picked' \in SUBSET Id
  BY DEF DeletePicked
<1> QED BY <1>1, <1>2, DeleteTypes

LEMMA DeleteOneTypes ==
  ASSUME TInv, NEW m \in Id, DeleteOne(m)
  PROVE  TInv'
<1>1. <<m>> \in Seq(Id)
  OBVIOUS
<1>2. Delete(<<m>>) /\ picked' \in SUBSET Id
  BY DEF DeleteOne, TInv, WindowOK
<1> QED BY <1>1, <1>2, DeleteTypes

\* The row that is opened instead is a row.
LEMMA NeighbourIs ==
  ASSUME ShownOK(list), NEW m \in Id, NEW going
  PROVE  Neighbour(m, going) \in Id \cup {NoMessage}
<1> DEFINE here  == {i \in DOMAIN Rows : Rows[i] = m}
           stays == Id \ (going \cup {m})
           down  == SubSeq(Rows, Min(here) + 1, Len(Rows))
           up    == SubSeq(Rows, 1, Min(here) - 1)
           below == Keep(down, stays)
           above == Keep(up, stays)
<1>1. CASE list.status # "ready" \/ here = {}
  BY <1>1 DEF Neighbour
<1>2. CASE ~(list.status # "ready" \/ here = {})
  <2>1. Rows \in Seq(Id) /\ Len(Rows) \in Nat /\ DOMAIN Rows = 1..Len(Rows)
    BY RowsOK, LenProperties
  <2>2. here \in SUBSET Nat /\ here # {} /\ here \subseteq 1..Len(Rows)
    BY <1>2, <2>1
  <2> DEFINE n == Min(here)
  <2>3. n \in 1..Len(Rows)
    BY <2>2, MinOfNaturals
  <2>4. Neighbour(m, going) = IF below # <<>> THEN Head(below)
                              ELSE IF above # <<>> THEN Last(above) ELSE NoMessage
    BY <1>2 DEF Neighbour
  <2> HIDE DEF n, here, stays
  <2>5. down \in Seq(Id) /\ up \in Seq(Id)
    <3>1. down = SubSeq(Rows, n + 1, Len(Rows)) /\ up = SubSeq(Rows, 1, n - 1)
      BY DEF n
    <3>2. /\ n + 1 \in Nat \ {0} /\ Len(Rows) \in Int /\ Len(Rows) <= Len(Rows)
          /\ 1 \in Nat \ {0} /\ n - 1 \in Int /\ n - 1 <= Len(Rows)
      BY <2>1, <2>3
    <3> HIDE DEF down, up
    <3> QED BY <2>1, <3>1, <3>2, Stretch
  <2> HIDE DEF down, up
  <2>6. below \in Seq(Id) /\ above \in Seq(Id)
    BY <2>5, KeepKeeps
  <2> HIDE DEF below, above
  <2>7. below # <<>> => Head(below) \in Id
    BY <2>6, FirstAndRest
  <2>8. above # <<>> => Last(above) \in Id
    BY <2>6, LastAndRest
  <2> QED BY <2>4, <2>7, <2>8
<1> QED BY <1>1, <1>2

\* The list without a row, and none twice.
LEMMA Removed ==
  ASSUME ShownOK(list), NEW m \in Id, RemoveFromList(m)
  PROVE  /\ ShownOK(list') /\ list'.status = list.status
         /\ list'.data = NoData <=> list.data = NoData
         /\ list.data # NoData =>
              /\ list'.data.searching = list.data.searching
              /\ ToSet(list'.data.items) \subseteq ToSet(list.data.items)
<1>1. CASE list.status # "ready"
  BY <1>1 DEF RemoveFromList
<1>2. CASE list.status = "ready"
  <2> DEFINE items == Without(list.data.items, m)
             total == IF m \in ToSet(Rows) THEN Max({0, list.data.total - 1}) ELSE list.data.total
             data  == [list.data EXCEPT !.items = items, !.total = total]
  <2>1. list.data \in Data /\ list.data # NoData /\ IsInjective(list.data.items)
    BY <1>2, HaveData DEF ShownOK
  <2>2. list.data.items \in Seq(Id) /\ list.data.total \in Nat
    BY <2>1 DEF Data
  <2>3. /\ items \in Seq(Id) /\ IsInjective(items)
        /\ ToSet(items) \subseteq ToSet(list.data.items)
    BY <2>1, <2>2, KeepKeeps DEF Without
  <2>4. total \in Nat
    <3>1. 0 \in Int /\ list.data.total - 1 \in Int
      BY <2>2
    <3>2. /\ Max({0, list.data.total - 1}) \in {0, list.data.total - 1}
          /\ Max({0, list.data.total - 1}) >= 0
      BY <3>1, MaxOfTwo
    <3> QED BY <2>2, <3>1, <3>2
  <2>5. list' = [list EXCEPT !.data = data]
    <3>1. list' = [list EXCEPT
                  !.data.items = Without(@, m),
                  !.data.total = IF m \in ToSet(Rows) THEN Max({0, @ - 1}) ELSE @]
      BY <1>2 DEF RemoveFromList
    <3> QED BY <2>1, <3>1 DEF ShownOK, Data
  <2> HIDE DEF items, total
  <2>6. data \in Data /\ data.items = items /\ data.searching = list.data.searching
    BY <2>1, <2>3, <2>4 DEF Data
  <2> HIDE DEF data
  <2>7. list' \in [status : Status, data : Data] /\ list'.data = data /\ list'.status = list.status
    BY <2>5, <2>6 DEF ShownOK
  <2>8. data # NoData
    BY <2>6, NoDataAssumption
  <2>9. ShownOK(list')
    BY <2>3, <2>6, <2>7, <2>8 DEF ShownOK
  <2> QED BY <2>1, <2>3, <2>6, <2>7, <2>8, <2>9
<1> QED BY <1>1, <1>2

\* What an answered deletion finds, and what it leaves.
LEMMA DeleteAnswered ==
  ASSUME TInv, NEW c \in Answered({"delete"})
  PROVE  /\ c \in calls /\ c.kind = "delete" /\ c.got # Waiting /\ c.of \in Id
         /\ batch \in Batch /\ batch # NoBatch /\ c.of \in batch.all
         /\ Out("delete") = {c}
         /\ ToSet(batch.done) \cup ToSet(batch.todo) \subseteq batch.all
         /\ batch.done \in Seq(Id) /\ batch.todo \in Seq(Id) /\ batch.all \subseteq Id
<1>1. c \in calls /\ c.kind = "delete" /\ c.got # Waiting
  BY DEF Answered
<1>2. c \in Out("delete")
  BY <1>1 DEF Out
<1>3. batch # NoBatch
  BY <1>2 DEF TInv, Deleting
<1>4. PICK d : Out("delete") = {d} /\ d.of \in batch.all
  BY <1>3 DEF TInv, Deleting
<1>5. c = d
  BY <1>2, <1>4
<1>6. ToSet(batch.done) \cup ToSet(batch.todo) \subseteq batch.all
  BY <1>3 DEF TInv, Deleting
<1>7. batch \in Batch
  BY <1>3 DEF TInv, WindowOK
<1>8. c.of \in Id
  BY <1>1, CallFields DEF CallOK
<1> QED BY <1>1, <1>3, <1>4, <1>5, <1>6, <1>7, <1>8 DEF Batch

LEMMA DeleteArrivesTypes ==
  ASSUME TInv, DeleteArrives
  PROVE  TInv'
<1>1. PICK c \in Answered({"delete"}) :
    LET done == IF c.got = Failed THEN batch.done ELSE Append(batch.done, c.of)
    IN  /\ IF c.got = Failed THEN UNCHANGED <<list, open>> ELSE DropDeleted(c.of)
        /\ IF batch.todo = <<>>
             THEN /\ batch' = NoBatch
                  /\ undoable' = Record(done)
                  /\ calls' = calls \ {c}
             ELSE /\ batch' = [batch EXCEPT !.todo = Tail(@), !.done = done]
                  /\ calls' = (calls \ {c}) \cup {Call("delete", 0, Head(batch.todo), 0)}
                  /\ UNCHANGED undoable
        /\ UNCHANGED <<backend, at, failed, bar, left, derailed>>
        /\ UNCHANGED <<picked, restoring, restored, lost>>
  BY DEF DeleteArrives
<1> DEFINE done == IF c.got = Failed THEN batch.done ELSE Append(batch.done, c.of)
           next == Call("delete", 0, Head(batch.todo), 0)
<1>2. /\ c \in calls /\ c.kind = "delete" /\ c.got # Waiting /\ c.of \in Id
      /\ batch \in Batch /\ batch # NoBatch /\ c.of \in batch.all
      /\ Out("delete") = {c}
      /\ ToSet(batch.done) \cup ToSet(batch.todo) \subseteq batch.all
      /\ batch.done \in Seq(Id) /\ batch.todo \in Seq(Id) /\ batch.all \subseteq Id
  BY DeleteAnswered
<1>3. /\ IF c.got = Failed THEN UNCHANGED <<list, open>> ELSE DropDeleted(c.of)
      /\ batch.todo = <<>> => batch' = NoBatch /\ undoable' = Record(done) /\ calls' = calls \ {c}
      /\ batch.todo # <<>> =>
           /\ batch' = [batch EXCEPT !.todo = Tail(@), !.done = done]
           /\ calls' = (calls \ {c}) \cup {next}
           /\ UNCHANGED undoable
      /\ UNCHANGED <<backend, at, failed, bar, left, derailed>>
      /\ UNCHANGED <<picked, restoring, restored, lost>>
  BY <1>1
<1>4. done \in Seq(Id) /\ ToSet(done) \subseteq batch.all
  <2>1. CASE c.got = Failed
    BY <1>2, <2>1
  <2>2. CASE c.got # Failed
    <3>1. Append(batch.done, c.of) \in Seq(Id) /\ ToSet(Append(batch.done, c.of)) = ToSet(batch.done) \cup {c.of}
      BY <1>2, Appended
    <3> QED BY <1>2, <2>2, <3>1
  <2> QED BY <2>1, <2>2
<1> HIDE DEF done
<1>5. ShownOK(list') /\ open' \in Id \cup {NoMessage}
  <2>1. ShownOK(list) /\ open \in Id \cup {NoMessage}
    BY DEF TInv, WindowOK
  <2>2. CASE c.got = Failed
    BY <1>3, <2>1, <2>2
  <2>3. CASE c.got # Failed
    <3>1. RemoveFromList(c.of) /\ open' = IF open = c.of THEN Neighbour(c.of, batch.all) ELSE open
      BY <1>3, <2>3 DEF DropDeleted
    <3>2. ShownOK(list')
      BY <1>2, <2>1, <3>1, Removed
    <3>3. Neighbour(c.of, batch.all) \in Id \cup {NoMessage}
      BY <1>2, <2>1, NeighbourIs
    <3> QED BY <2>1, <3>1, <3>2, <3>3
  <2> QED BY <2>2, <2>3
<1>6. StoreOK' /\ LeftOK' /\ AtOK'
  BY <1>3, SameStore, StepLeft DEF TInv, AtOK
<1>7. ASSUME batch.todo = <<>>
      PROVE  CallsOK' /\ Deleting' /\ Restoring' /\ WindowOK'
  <2>1. batch' = NoBatch /\ undoable' = Record(done) /\ calls' = calls \ {c} /\ at' = at
    BY <1>3, <1>7
  <2>2. CallsOK'
    BY <2>1 DEF TInv, CallsOK
  <2>3. Out("delete")' = {} /\ Out("undo")' = Out("undo")
    BY <1>2, <2>1 DEF Out
  <2>4. Deleting' /\ Restoring'
    BY <1>3, <2>1, <2>3 DEF Deleting, Restoring, TInv
  <2>5. undoable' \in Seq(Seq(Id) \ {<<>>})
    <3>1. undoable \in Seq(Seq(Id) \ {<<>>})
      BY DEF TInv, WindowOK
    <3>2. CASE done = <<>>
      BY <2>1, <3>1, <3>2 DEF Record
    <3>3. CASE done # <<>>
      <4>1. done \in Seq(Id) \ {<<>>} /\ undoable' = Append(undoable, done)
        BY <1>4, <2>1, <3>3 DEF Record
      <4> QED BY <3>1, <4>1, Appended
    <3> QED BY <3>2, <3>3
  <2>6. WindowOK'
    BY <1>3, <1>5, <2>1, <2>5 DEF TInv, WindowOK
  <2> QED BY <2>2, <2>4, <2>6
<1>8. ASSUME batch.todo # <<>>
      PROVE  CallsOK' /\ Deleting' /\ Restoring' /\ WindowOK'
  <2>1. /\ batch' = [batch EXCEPT !.todo = Tail(@), !.done = done]
        /\ calls' = (calls \ {c}) \cup {next} /\ at' = at /\ UNCHANGED undoable
    BY <1>3, <1>8
  <2>2. /\ Head(batch.todo) \in Id /\ Tail(batch.todo) \in Seq(Id)
        /\ ToSet(batch.todo) = {Head(batch.todo)} \cup ToSet(Tail(batch.todo))
    BY <1>2, <1>8, FirstAndRest
  <2>3. /\ next \in CallSet /\ next.got = Waiting /\ next.kind = "delete" /\ next.generation = 0
        /\ next.of = Head(batch.todo)
    BY <2>2 DEF Call, CallSet, Answer, Kind
  <2> HIDE DEF next
  <2>4. at.generation \in Nat /\ 0 <= at.generation
    BY DEF TInv, AtOK
  <2>5. CallOK(next, at.generation)
    BY <2>2, <2>3, <2>4, CallingOK DEF Pages, Searches
  <2>6. CallsOK'
    BY <2>1, <2>5 DEF TInv, CallsOK
  <2>7. Out("delete")' = {next} /\ Out("undo")' = Out("undo")
    BY <1>2, <2>1, <2>3 DEF Out
  <2>8. /\ batch' \in Batch /\ batch'.todo = Tail(batch.todo) /\ batch'.done = done
        /\ batch'.all = batch.all
    BY <1>2, <1>4, <2>1, <2>2 DEF Batch
  <2>9. batch' # NoBatch
    BY <2>8, NoBatchAssumption
  <2>10. Deleting'
    BY <1>2, <1>4, <2>2, <2>3, <2>7, <2>8, <2>9 DEF Deleting
  <2>11. Restoring'
    BY <1>3, <2>7 DEF Restoring, TInv
  <2>12. WindowOK'
    BY <1>3, <1>5, <2>1, <2>8 DEF TInv, WindowOK
  <2> QED BY <2>6, <2>10, <2>11, <2>12
<1> QED BY <1>5, <1>6, <1>7, <1>8 DEF TInv

LEMMA UndoDeleteTypes ==
  ASSUME TInv, UndoDelete
  PROVE  TInv'
<1> DEFINE last == Last(undoable)
           c == Call("undo", 0, Head(last), 0)
<1>1. /\ Step /\ undoable # <<>> /\ restoring = <<>>
      /\ undoable' = Front(undoable) /\ restoring' = last /\ calls' = calls \cup {c}
      /\ UNCHANGED <<backend, list, at, failed, bar, derailed>>
      /\ UNCHANGED <<picked, open, batch, restored, lost>>
  BY DEF UndoDelete
<1>2. undoable \in Seq(Seq(Id) \ {<<>>})
  BY DEF TInv, WindowOK
<1>3. last \in Seq(Id) \ {<<>>} /\ Front(undoable) \in Seq(Seq(Id) \ {<<>>})
  BY <1>1, <1>2, LastAndRest
<1> HIDE DEF last
<1>4. Head(last) \in Id
  BY <1>3, FirstAndRest
<1>5. c \in CallSet /\ c.got = Waiting /\ c.kind = "undo" /\ c.generation = 0 /\ c.of = Head(last)
  BY <1>4 DEF Call, CallSet, Answer, Kind
<1> HIDE DEF c
<1>6. CallsOK'
  <2>1. at.generation \in Nat /\ 0 <= at.generation
    BY DEF TInv, AtOK
  <2>2. CallOK(c, at.generation)
    BY <1>4, <1>5, <2>1, CallingOK DEF Pages, Searches
  <2> QED BY <1>1, <2>2 DEF TInv, CallsOK
<1>7. Restoring'
  <2>1. Out("undo") = {}
    BY <1>1 DEF TInv, Restoring
  <2>2. Out("undo")' = {c}
    BY <1>1, <1>5, <2>1 DEF Out
  <2> QED BY <1>1, <1>3, <1>5, <2>2 DEF Restoring
<1>8. Deleting'
  <2>1. Out("delete")' = Out("delete")
    BY <1>1, <1>5 DEF Out
  <2> QED BY <1>1, <2>1 DEF TInv, Deleting
<1>9. StoreOK' /\ LeftOK' /\ AtOK' /\ ShownOK(list)'
  BY <1>1, SameStore, StepLeft DEF TInv, AtOK
<1>10. WindowOK'
  BY <1>1, <1>3 DEF TInv, WindowOK
<1> QED BY <1>6, <1>7, <1>8, <1>9, <1>10 DEF TInv

\* The list with a row put back, and none twice.
LEMMA PutBack ==
  ASSUME ShownOK(list), NEW m \in Id, RestoreToList(m)
  PROVE  /\ ShownOK(list') /\ list'.status = list.status
         /\ list'.data = NoData <=> list.data = NoData
         /\ list.data # NoData =>
              /\ list'.data.searching = list.data.searching
              /\ ToSet(list'.data.items) \subseteq ToSet(list.data.items) \cup {m}
<1>1. CASE list.status # "ready" \/ m \in ToSet(Rows)
  BY <1>1 DEF RestoreToList
<1>2. CASE ~(list.status # "ready" \/ m \in ToSet(Rows))
  <2> DEFINE more == Append(list.data.items, m)
             items == Sorted(more)
             total == list.data.total + 1
             data  == [list.data EXCEPT !.items = items, !.total = total]
  <2>1. list.data \in Data /\ list.data # NoData /\ IsInjective(list.data.items)
    BY <1>2, HaveData DEF ShownOK
  <2>2. list.data.items \in Seq(Id) /\ list.data.total \in Nat
    BY <2>1 DEF Data
  <2>3. m \notin ToSet(list.data.items)
    BY <1>2, <2>1 DEF Rows
  <2>4. /\ more \in Seq(Id) /\ IsInjective(more)
        /\ ToSet(more) = ToSet(list.data.items) \cup {m}
    BY <2>1, <2>2, <2>3, Appended
  <2>5. list' = [list EXCEPT !.data = data]
    <3>1. list' = [list EXCEPT !.data.items = Sorted(Append(@, m)), !.data.total = @ + 1]
      BY <1>2 DEF RestoreToList
    <3> QED BY <2>1, <3>1 DEF ShownOK, Data
  <2> HIDE DEF more
  <2>6. Numbers(more)
    <3>1. \A i \in DOMAIN more : more[i] \in Id
      BY <2>4, LenProperties
    <3>2. ASSUME NEW i \in DOMAIN more PROVE more[i] \in Int
      <4> DEFINE n == more[i]
      <4>1. n \in Id
        BY <3>1
      <4> HIDE DEF n
      <4>2. n \in Int
        BY <4>1, ListAssumption
      <4> QED BY <4>2 DEF n
    <3> QED BY <3>2 DEF Numbers
  <2>7. items \in Seq(Id) /\ IsInjective(items) /\ ToSet(items) = ToSet(more)
    BY <2>4, <2>6, SortedKeeps
  <2>8. total \in Nat
    BY <2>2
  <2> HIDE DEF items, total
  <2>9. data \in Data /\ data.items = items /\ data.searching = list.data.searching
    BY <2>1, <2>7, <2>8 DEF Data
  <2> HIDE DEF data
  <2>10. list' \in [status : Status, data : Data] /\ list'.data = data /\ list'.status = list.status
    BY <2>5, <2>9 DEF ShownOK
  <2>11. data # NoData
    BY <2>9, NoDataAssumption
  <2>12. ShownOK(list')
    BY <2>7, <2>9, <2>10, <2>11 DEF ShownOK
  <2> QED BY <2>1, <2>4, <2>7, <2>9, <2>10, <2>11, <2>12
<1> QED BY <1>1, <1>2

\* What an answered undo finds.
LEMMA UndoAnswered ==
  ASSUME TInv, NEW c \in Answered({"undo"})
  PROVE  /\ c \in calls /\ c.kind = "undo" /\ c.got # Waiting /\ c.of \in Id
         /\ restoring # <<>> /\ c.of = Head(restoring) /\ Out("undo") = {c}
         /\ restoring \in Seq(Id)
<1>1. c \in calls /\ c.kind = "undo" /\ c.got # Waiting
  BY DEF Answered
<1>2. c \in Out("undo")
  BY <1>1 DEF Out
<1>3. restoring # <<>>
  BY <1>2 DEF TInv, Restoring
<1>4. PICK d : Out("undo") = {d} /\ d.of = Head(restoring)
  BY <1>3 DEF TInv, Restoring
<1>5. c = d
  BY <1>2, <1>4
<1>6. c.of \in Id
  BY <1>1, CallFields DEF CallOK
<1> QED BY <1>1, <1>3, <1>4, <1>5, <1>6 DEF TInv, WindowOK

LEMMA UndoArrivesTypes ==
  ASSUME TInv, UndoArrives
  PROVE  TInv'
<1> DEFINE next == Call("undo", 0, restoring[2], 0)
<1>1. PICK c \in Answered({"undo"}) :
    /\ IF c.got = Failed
         THEN lost' = lost \cup {c.of} /\ UNCHANGED <<list, restored>>
         ELSE RestoreToList(c.of) /\ restored' = restored \cup {c.of} /\ UNCHANGED lost
    /\ restoring' = Tail(restoring)
    /\ calls' = (calls \ {c}) \cup (IF Len(restoring) = 1 THEN {} ELSE {next})
    /\ UNCHANGED <<backend, at, failed, bar, left, derailed>>
    /\ UNCHANGED <<picked, open, batch, undoable>>
  BY DEF UndoArrives
<1>2. /\ c \in calls /\ c.kind = "undo" /\ c.got # Waiting /\ c.of \in Id
      /\ restoring # <<>> /\ c.of = Head(restoring) /\ Out("undo") = {c}
      /\ restoring \in Seq(Id)
  BY UndoAnswered
<1>3. Tail(restoring) \in Seq(Id) /\ Len(Tail(restoring)) = Len(restoring) - 1
  BY <1>2, FirstAndRest
<1>4. ShownOK(list')
  <2>1. CASE c.got = Failed
    BY <1>1, <2>1 DEF TInv
  <2>2. CASE c.got # Failed
    <3>1. RestoreToList(c.of)
      BY <1>1, <2>2
    <3> QED BY <1>2, <3>1, PutBack DEF TInv
  <2> QED BY <2>1, <2>2
<1>5. StoreOK' /\ LeftOK' /\ AtOK'
  BY <1>1, SameStore, StepLeft DEF TInv, AtOK
<1>6. WindowOK'
  BY <1>1, <1>2, <1>3 DEF TInv, WindowOK
<1>7. ASSUME Len(restoring) = 1
      PROVE  CallsOK' /\ Deleting' /\ Restoring'
  <2>1. calls' = calls \ {c}
    BY <1>1, <1>7
  <2>2. Tail(restoring) = <<>>
    <3>1. Len(Tail(restoring)) = 0
      BY <1>3, <1>7
    <3> QED BY <1>3, <3>1, EmptySeq
  <2>3. CallsOK'
    BY <1>1, <2>1 DEF TInv, CallsOK
  <2>4. Out("delete")' = Out("delete") /\ Out("undo")' = {}
    BY <1>2, <2>1 DEF Out
  <2> QED BY <1>1, <2>2, <2>3, <2>4 DEF TInv, Deleting, Restoring
<1>8. ASSUME Len(restoring) # 1
      PROVE  CallsOK' /\ Deleting' /\ Restoring'
  <2>1. calls' = (calls \ {c}) \cup {next}
    BY <1>1, <1>8
  <2> DEFINE n == Len(restoring)
  <2>0. n \in Nat \ {0} /\ n # 1
    BY <1>2, <1>8, EmptySeq
  <2> HIDE DEF n
  <2>2. n \in Nat \ {0} /\ 2 \in 1..n /\ n - 1 # 0 /\ 1 \in 1..(n - 1)
    BY <2>0
  <2>3. restoring[2] \in Id
    BY <1>2, <2>2, ElementOfSeq DEF n
  <2>4. Tail(restoring) # <<>>
    <3>1. Len(Tail(restoring)) # 0
      BY <1>3, <2>2 DEF n
    <3> QED BY <1>3, <3>1, EmptySeq
  <2>5. Head(Tail(restoring)) = restoring[2]
    <3>1. \A i \in 1..Len(Tail(restoring)) : Tail(restoring)[i] = restoring[i + 1]
      BY <1>2, HeadTailProperties
    <3>2. 1 \in 1..Len(Tail(restoring)) /\ 1 + 1 = 2
      BY <1>3, <2>2 DEF n
    <3>3. Tail(restoring)[1] = restoring[2]
      BY <3>1, <3>2
    <3>4. Head(Tail(restoring)) = Tail(restoring)[1]
      BY <1>3, <2>4, FirstAndRest
    <3> QED BY <3>3, <3>4
  <2>6. /\ next \in CallSet /\ next.got = Waiting /\ next.kind = "undo" /\ next.generation = 0
        /\ next.of = restoring[2]
    BY <2>3 DEF Call, CallSet, Answer, Kind
  <2> HIDE DEF next
  <2>7. at.generation \in Nat /\ 0 <= at.generation
    BY DEF TInv, AtOK
  <2>8. CallOK(next, at.generation)
    BY <2>3, <2>6, <2>7, CallingOK DEF Pages, Searches
  <2>9. CallsOK'
    BY <1>1, <2>1, <2>8 DEF TInv, CallsOK
  <2>10. Out("undo")' = {next} /\ Out("delete")' = Out("delete")
    BY <1>2, <2>1, <2>6 DEF Out
  <2>11. Restoring'
    BY <1>1, <2>4, <2>5, <2>6, <2>10 DEF Restoring
  <2> QED BY <1>1, <2>9, <2>10, <2>11 DEF TInv, Deleting
<1> QED BY <1>4, <1>5, <1>6, <1>7, <1>8 DEF TInv

LEMMA MoveTypes ==
  ASSUME TInv, Move
  PROVE  TInv'
<1>1. ASSUME NEW place \in Place, Choose(place), open' = NoMessage,
             picked' = IF place # bar.place THEN {} ELSE picked,
             UNCHANGED <<batch, undoable, restoring, restored, lost>>
      PROVE  TInv'
  <2>1. ListOK'
    BY <1>1, ChooseTypes
  <2>2. WindowOK'
    BY <1>1 DEF TInv, WindowOK
  <2> QED BY <2>1, <2>2, Joined
<1>2. ASSUME NEW query \in Query \cup {NoQuery}, Type(query), picked' = {},
             UNCHANGED <<open, batch, undoable, restoring, restored, lost>>
      PROVE  TInv'
  <2>1. ListOK'
    BY <1>2, TypeTypes
  <2>2. WindowOK'
    BY <1>2 DEF TInv, WindowOK
  <2> QED BY <2>1, <2>2, Joined
<1> QED BY <1>1, <1>2 DEF Move

LEMMA LoadsTypes ==
  ASSUME TInv, Loads
  PROVE  TInv'
<1>1. UNCHANGED window /\ batch' = batch /\ restoring' = restoring
  BY DEF Loads, window
<1>2. WindowOK'
  BY <1>1 DEF TInv, WindowOK, window
<1>3. ListOK'
  BY <1>1, RefreshTypes, ScrollTypes, LoadOlderTypes, ReadTypes, FetchOlderTypes, FaultTypes,
     SyncTypes, DeliverTypes DEF Loads, World
<1> QED BY <1>2, <1>3, Joined

LEMMA InitTypes == Init => TInv
<1> SUFFICES ASSUME Init PROVE TInv
  OBVIOUS
<1> DEFINE c == Call("list", 1, Start, 0)
<1>1. calls = {c} /\ batch = NoBatch /\ restoring = <<>>
  BY DEF Init, ListInit
<1>2. c \in CallSet /\ c.got = Waiting /\ c.kind = "list" /\ c.generation = 1 /\ c.of = Start
  BY ListAssumption DEF Call, CallSet, Answer, Kind
<1> HIDE DEF c
<1>3. CallsOK
  <2>1. at.generation = 1
    BY DEF Init, ListInit
  <2>2. 1 \in Nat /\ 1 <= 1
    OBVIOUS
  <2>3. CallOK(c, 1)
    BY <1>2, <2>2, CallingOK, ListAssumption DEF Pages, Searches
  <2> QED BY <1>1, <2>1, <2>3 DEF CallsOK
<1>4. Deleting /\ Restoring
  BY <1>1, <1>2 DEF Deleting, Restoring, Out
<1>5. StoreOK
  BY ListAssumption DEF Init, ListInit, StoreOK
<1>6. ShownOK(list)
  BY DEF Init, ListInit, ShownOK, Status
<1>7. AtOK
  BY ListAssumption DEF Init, ListInit, AtOK
<1>8. LeftOK
  BY ListAssumption DEF Init, ListInit, LeftOK
<1>9. WindowOK
  <2>1. undoable \in Seq(Seq(Id) \ {<<>>}) /\ restoring \in Seq(Id)
    BY EmptySeq DEF Init
  <2> QED BY <2>1 DEF Init, WindowOK
<1> QED BY <1>3, <1>4, <1>5, <1>6, <1>7, <1>8, <1>9 DEF TInv

LEMMA NextTypes == TInv /\ [Next]_vars => TInv'
<1> SUFFICES ASSUME TInv, [Next]_vars PROVE TInv'
  OBVIOUS
<1>1. CASE User
  <2>1. ASSUME NEW m \in Id, Open(m) \/ DeleteOne(m) PROVE TInv'
    BY <2>1, OpenTypes, DeleteOneTypes
  <2>2. ASSUME NEW ms \in SUBSET ToSet(Rows), Pick(ms) PROVE TInv'
    BY <2>2, PickTypes
  <2> QED BY <1>1, <2>1, <2>2, MoveTypes, ExpandTypes, DeletePickedTypes, UndoDeleteTypes DEF User
<1>2. CASE Loads
  BY <1>2, LoadsTypes
<1>3. CASE Answers
  BY <1>3, ReadIdsTypes, IdsTypes, MarkTypes, DeleteArrivesTypes, UndoArrivesTypes DEF Answers
<1>4. CASE UNCHANGED vars
  <2>1. /\ UNCHANGED <<backend, list, at, failed, bar, calls, left, derailed>>
        /\ UNCHANGED window
    BY <1>4 DEF vars, listVars
  <2>2. batch' = batch /\ restoring' = restoring
    BY <2>1 DEF window
  <2>3. LoadOK' /\ StoreOK' /\ LeftOK' /\ AtOK'
    BY <2>1, <2>2, SameLoad, SameStore, StepLeft DEF TInv, LoadOK, AtOK
  <2>4. WindowOK'
    BY <2>1 DEF TInv, WindowOK, window
  <2> QED BY <2>3, <2>4, Joined DEF ListOK
<1> QED BY <1>1, <1>2, <1>3, <1>4 DEF Next

\* Every state of the window has its types.
THEOREM WindowTypes == Spec => []TypeOK
<1>1. Spec => []TInv
  BY InitTypes, NextTypes, PTL DEF Spec
<1> QED BY <1>1, TInvMeans, PTL

\* No message is shown in two rows, whichever pages, searches, refreshes,
\* deletions and undos are answered in whichever order.
THEOREM RowsOnce == Spec => []NoRowTwice
<1>1. Spec => []TInv
  BY InitTypes, NextTypes, PTL DEF Spec
<1> QED BY <1>1, TInvMeans, PTL

-----------------------------------------------------------------------------
(* Deletions *)

\* Where a deleted message waits: among those its deletion has done, with the
\* answer that has yet to say so, on the stack, behind the one that is being
\* restored, with the undo that has not yet reached the backend, or lost.
Covered(m) ==
  \/ batch # NoBatch /\ m \in ToSet(batch.done)
  \/ \E c \in Out("delete") : c.of = m /\ c.got \notin {Waiting, Failed}
  \/ \E i \in DOMAIN undoable : m \in ToSet(undoable[i])
  \/ restoring # <<>> /\ m \in ToSet(Tail(restoring))
  \/ \E c \in Out("undo") : c.of = m /\ c.got \in {Waiting, Failed}
  \/ m \in lost

\* The inductive invariant of deletions.
DInv == \A m \in pending : Covered(m)

\* It gives that every deletion can be undone.
LEMMA DInvMeans == TInv /\ DInv => EveryDeletionCanBeUndone
<1> SUFFICES ASSUME TInv, DInv, NEW m \in pending
             PROVE  \/ batch # NoBatch /\ m \in batch.all
                    \/ \E i \in DOMAIN undoable : m \in ToSet(undoable[i])
                    \/ m \in ToSet(restoring) \cup lost
  BY DEF EveryDeletionCanBeUndone
<1>1. Covered(m)
  BY DEF DInv
<1>2. CASE batch # NoBatch /\ m \in ToSet(batch.done)
  BY <1>2 DEF TInv, Deleting
<1>3. CASE \E c \in Out("delete") : c.of = m
  BY <1>3 DEF TInv, Deleting
<1>4. CASE restoring # <<>> /\ m \in ToSet(Tail(restoring))
  <2>1. restoring \in Seq(Id)
    BY DEF TInv, WindowOK
  <2> QED BY <1>4, <2>1, FirstAndRest
<1>5. CASE \E c \in Out("undo") : c.of = m
  <2>1. PICK c \in Out("undo") : c.of = m
    BY <1>5
  <2>2. restoring # <<>>
    BY <2>1 DEF TInv, Restoring
  <2>3. m = Head(restoring)
    BY <2>1, <2>2 DEF TInv, Restoring
  <2>4. restoring \in Seq(Id)
    BY DEF TInv, WindowOK
  <2> QED BY <2>2, <2>3, <2>4, FirstAndRest
<1> QED BY <1>1, <1>2, <1>3, <1>4, <1>5 DEF Covered

\* A step that neither calls nor hears about a deletion or an undo.
LEMMA CoverKept ==
  ASSUME DInv, UNCHANGED <<batch, undoable, restoring, lost>>, pending' \subseteq pending,
         \A c \in calls' \ calls : c.kind \notin {"delete", "undo"},
         \A c \in calls \ calls' : c.kind \notin {"delete", "undo"}
  PROVE  DInv'
<1>1. Out("delete")' = Out("delete") /\ Out("undo")' = Out("undo")
  BY DEF Out
<1> QED BY <1>1 DEF DInv, Covered

\* An answer leaves a message where it waits, unless it is the undo of it.
LEMMA ReplyCovers ==
  ASSUME TInv, NEW c \in calls, c.got = Waiting, NEW got, Reply(c, got),
         UNCHANGED <<batch, undoable, restoring, lost>>,
         NEW m, Covered(m), c.kind = "undo" /\ c.of = m => got = Failed
  PROVE  Covered(m)'
<1> DEFINE d == [c EXCEPT !.got = got]
<1>1. c \in CallSet
  BY CallFields
<1>2. d.kind = c.kind /\ d.of = c.of /\ d.got = got
  BY <1>1 DEF CallSet
<1> HIDE DEF d
<1>3. calls' = (calls \ {c}) \cup {d}
  BY DEF Reply, d
<1>4. CASE \E e \in Out("delete") : e.of = m /\ e.got \notin {Waiting, Failed}
  <2>1. PICK e \in Out("delete") : e.of = m /\ e.got \notin {Waiting, Failed}
    BY <1>4
  <2>2. e \in Out("delete")'
    BY <1>3, <2>1 DEF Out
  <2> QED BY <2>1, <2>2 DEF Covered
<1>5. CASE \E e \in Out("undo") : e.of = m /\ e.got \in {Waiting, Failed}
  <2>1. PICK e \in Out("undo") : e.of = m /\ e.got \in {Waiting, Failed}
    BY <1>5
  <2>2. CASE e # c
    <3>1. e \in Out("undo")'
      BY <1>3, <2>1, <2>2 DEF Out
    <3> QED BY <2>1, <3>1 DEF Covered
  <2>3. CASE e = c
    <3>1. c.kind = "undo" /\ c.of = m
      BY <2>1, <2>3 DEF Out
    <3>2. d \in Out("undo")' /\ d.of = m /\ d.got = Failed
      BY <1>2, <1>3, <3>1 DEF Out
    <3> QED BY <3>2 DEF Covered
  <2> QED BY <2>2, <2>3
<1> QED BY <1>4, <1>5 DEF Covered

\* An answer to anything but a deletion and an undo.
LEMMA OtherReply ==
  ASSUME TInv, NEW c \in calls, c.kind \notin {"delete", "undo"}, NEW got, Reply(c, got)
  PROVE  /\ \A d \in calls' \ calls : d.kind \notin {"delete", "undo"}
         /\ \A d \in calls \ calls' : d.kind \notin {"delete", "undo"}
<1>1. [c EXCEPT !.got = got].kind = c.kind
  BY CallFields DEF CallSet
<1> QED BY <1>1 DEF Reply

\* The calls of a load are not deletions.
LEMMA CallKind ==
  ASSUME NEW kind, NEW generation, NEW of, NEW offset
  PROVE  Call(kind, generation, of, offset).kind = kind
BY DEF Call

\* Each action leaves every pending message covered.
LEMMA LoadsCover ==
  ASSUME TInv, DInv, Loads
  PROVE  DInv'
<1>1. UNCHANGED <<batch, undoable, restoring, lost>>
  BY DEF Loads, window
<1> DEFINE Apart == /\ pending' \subseteq pending
                    /\ \A c \in calls' \ calls : c.kind \notin {"delete", "undo"}
                    /\ \A c \in calls \ calls' : c.kind \notin {"delete", "undo"}
<1>2. CASE Refresh
  <2>1. Apart
    BY <1>2, CallKind DEF Refresh, LoadList, backend
  <2> QED BY <1>1, <2>1, CoverKept
<1>3. CASE Scroll
  <2>1. Apart
    BY <1>3, CallKind DEF Scroll, backend
  <2> QED BY <1>1, <2>1, CoverKept
<1>4. CASE LoadOlder
  <2>1. Apart
    BY <1>4, CallKind DEF LoadOlder, backend
  <2> QED BY <1>1, <2>1, CoverKept
<1>5. CASE Read \/ FetchOlder \/ FetchOlderUnreachable
  <2>1. PICK c, got : c \in calls /\ Reply(c, got) /\ c.kind \notin {"delete", "undo"}
    BY <1>5 DEF Read, FetchOlder, FetchOlderUnreachable, Unanswered
  <2>2. pending' = pending
    BY <1>5 DEF Read, FetchOlder, FetchOlderUnreachable, backend
  <2> QED BY <1>1, <2>1, <2>2, OtherReply, CoverKept
<1>6. CASE CallFails
  <2>1. PICK c \in calls : c.got = Waiting /\ Reply(c, Failed)
    BY <1>6 DEF CallFails, Unanswered
  <2>2. pending' = pending
    BY <1>6 DEF CallFails, backend
  <2>3. ASSUME NEW m \in pending PROVE Covered(m)'
    BY <1>1, <2>1, ReplyCovers DEF DInv
  <2> QED BY <2>2, <2>3 DEF DInv
<1>7. CASE \E m \in Id : Arrive(m) \/ Drop(m)
  <2>1. calls' = calls /\ pending' \subseteq pending
    BY <1>7 DEF Arrive, Drop
  <2> QED BY <1>1, <2>1, CoverKept
<1>8. CASE Deliver
  <2>1. pending' = pending
    BY <1>8 DEF Deliver, backend
  <2>2. PICK c \in calls :
          /\ c.kind \notin {"delete", "undo"}
          /\ calls' = calls \ {c} \/ OlderArrives(c)
    BY <1>8 DEF Deliver, Answered
  <2>3. CASE calls' = calls \ {c}
    BY <1>1, <2>1, <2>2, <2>3, CoverKept
  <2>4. CASE OlderArrives(c)
    <3> DEFINE page == [Call("olderMore", c.generation, c.of, at.offset + PageSize)
                          EXCEPT !.hasOlder = c.got.hasOlder]
    <3>1. page.kind = "olderMore"
      BY DEF Call
    <3>2. calls' = calls \ {c} \/ calls' = (calls \ {c}) \cup {page}
      BY <2>4 DEF OlderArrives
    <3> HIDE DEF page
    <3> QED BY <1>1, <2>1, <2>2, <3>1, <3>2, CoverKept
  <2> QED BY <2>2, <2>3, <2>4
<1> QED BY <1>2, <1>3, <1>4, <1>5, <1>6, <1>7, <1>8 DEF Loads, World

\* Steps of the user's that touch no deletion.
LEMMA UserCovers ==
  ASSUME DInv, Move \/ (\E ms \in SUBSET ToSet(Rows) : Pick(ms)) \/ ExpandSelection
                 \/ (\E m \in Id : Open(m))
  PROVE  DInv'
<1>1. UNCHANGED <<batch, undoable, restoring, lost>> /\ pending' = pending
  BY DEF Move, Choose, Type, Pick, ExpandSelection, Open, window, backend
<1>2. /\ \A c \in calls' \ calls : c.kind \notin {"delete", "undo"}
      /\ \A c \in calls \ calls' : c.kind \notin {"delete", "undo"}
  <2>1. CASE \E place : Choose(place)
    BY <2>1, CallKind DEF Choose, LoadList
  <2>2. CASE \E query : Type(query)
    BY <2>2, CallKind DEF Type, LoadList, RunSearch
  <2>3. CASE ExpandSelection
    BY <2>3, CallKind DEF ExpandSelection
  <2>4. CASE calls' = calls
    BY <2>4
  <2> QED BY <2>1, <2>2, <2>3, <2>4 DEF Move, Pick, Open
<1> QED BY <1>1, <1>2, CoverKept

LEMMA IdsCover ==
  ASSUME TInv, DInv, ReadIds \/ IdsArrive
  PROVE  DInv'
<1>1. UNCHANGED <<batch, undoable, restoring, lost>> /\ pending' = pending
  BY DEF ReadIds, IdsArrive, window, backend
<1>2. CASE ReadIds
  <2>1. PICK c, got : c \in calls /\ Reply(c, got) /\ c.kind \notin {"delete", "undo"}
    BY <1>2 DEF ReadIds, Unanswered
  <2> QED BY <1>1, <2>1, OtherReply, CoverKept
<1>3. CASE IdsArrive
  <2>1. PICK c \in calls : calls' = calls \ {c} /\ c.kind \notin {"delete", "undo"}
    BY <1>3 DEF IdsArrive, Answered
  <2> QED BY <1>1, <2>1, CoverKept
<1> QED BY <1>2, <1>3

LEMMA MarkCovers ==
  ASSUME TInv, DInv, MarkDeletePending
  PROVE  DInv'
<1>1. PICK c \in Unanswered({"delete"}) :
        IF c.of \in cached
          THEN pending' = pending \cup {c.of} /\ Reply(c, Done(<<>>, 0, FALSE))
          ELSE UNCHANGED pending /\ Reply(c, Failed)
  BY DEF MarkDeletePending
<1>2. UNCHANGED <<batch, undoable, restoring, lost>>
  BY DEF MarkDeletePending, window
<1>3. c \in calls /\ c.kind = "delete" /\ c.got = Waiting
  BY DEF Unanswered
<1>4. PICK got : Reply(c, got)
  BY <1>1
<1>5. ASSUME NEW m \in pending PROVE Covered(m)'
  BY <1>2, <1>3, <1>4, ReplyCovers DEF DInv
<1>6. ASSUME c.of \in cached PROVE Covered(c.of)'
  <2> DEFINE d == [c EXCEPT !.got = Done(<<>>, 0, FALSE)]
  <2>1. c \in CallSet
    BY <1>3, CallFields
  <2>2. d.kind = "delete" /\ d.of = c.of /\ d.got = Done(<<>>, 0, FALSE)
    BY <1>3, <2>1 DEF CallSet
  <2>3. d \in calls'
    BY <1>1, <1>6 DEF Reply
  <2> HIDE DEF d
  <2>4. Done(<<>>, 0, FALSE) \notin {Waiting, Failed}
    <3>1. /\ Done(<<>>, 0, FALSE).state = "done"
          /\ Waiting.state = "waiting" /\ Failed.state = "failed"
      BY DEF Done, Waiting, Failed
    <3> QED BY <3>1
  <2>5. d \in Out("delete")'
    BY <2>2, <2>3 DEF Out
  <2> QED BY <2>2, <2>4, <2>5 DEF Covered
<1>7. pending' \subseteq pending \cup {c.of} /\ (c.of \notin cached => pending' = pending)
  BY <1>1
<1> QED BY <1>5, <1>6, <1>7 DEF DInv

LEMMA ClearCovers ==
  ASSUME TInv, DInv, ClearDeletePending
  PROVE  DInv'
<1>1. PICK c \in Unanswered({"undo"}) :
        IF c.of \in cached
          THEN pending' = pending \ {c.of} /\ Reply(c, Done(<<>>, 0, FALSE))
          ELSE UNCHANGED pending /\ Reply(c, Failed)
  BY DEF ClearDeletePending
<1>2. UNCHANGED <<batch, undoable, restoring, lost>>
  BY DEF ClearDeletePending, window
<1>3. c \in calls /\ c.got = Waiting
  BY DEF Unanswered
<1>4. PICK got : Reply(c, got) /\ (c.of \in pending' => got = Failed)
  BY <1>1
<1>5. ASSUME NEW m \in pending' PROVE Covered(m)'
  <2>1. m \in pending /\ (c.of = m => got = Failed)
    BY <1>1, <1>4, <1>5
  <2>2. Covered(m)
    BY <2>1 DEF DInv
  <2> QED BY <1>2, <1>3, <1>4, <2>1, <2>2, ReplyCovers
<1> QED BY <1>5 DEF DInv

LEMMA DeleteCovers ==
  ASSUME TInv, DInv, NEW ms, Delete(ms)
  PROVE  DInv'
<1> DEFINE c == Call("delete", 0, Head(ms), 0)
<1>1. /\ batch = NoBatch /\ calls' = calls \cup {c}
      /\ UNCHANGED <<undoable, restoring, lost>> /\ pending' = pending
  BY DEF Delete, backend
<1>2. c.kind = "delete"
  BY CallKind
<1> HIDE DEF c
<1>3. Out("delete") = {}
  BY <1>1 DEF TInv, Deleting
<1>4. Out("undo")' = Out("undo")
  BY <1>1, <1>2 DEF Out
<1>5. ASSUME NEW m \in pending PROVE Covered(m)'
  <2>1. \/ \E i \in DOMAIN undoable : m \in ToSet(undoable[i])
        \/ restoring # <<>> /\ m \in ToSet(Tail(restoring))
        \/ \E d \in Out("undo") : d.of = m /\ d.got \in {Waiting, Failed}
        \/ m \in lost
    BY <1>1, <1>3 DEF DInv, Covered
  <2> QED BY <1>1, <1>4, <2>1 DEF Covered
<1> QED BY <1>1, <1>5 DEF DInv

LEMMA DeleteArrivesCovers ==
  ASSUME TInv, DInv, DeleteArrives
  PROVE  DInv'
<1>1. PICK c \in Answered({"delete"}) :
    LET done == IF c.got = Failed THEN batch.done ELSE Append(batch.done, c.of)
    IN  /\ IF c.got = Failed THEN UNCHANGED <<list, open>> ELSE DropDeleted(c.of)
        /\ IF batch.todo = <<>>
             THEN /\ batch' = NoBatch
                  /\ undoable' = Record(done)
                  /\ calls' = calls \ {c}
             ELSE /\ batch' = [batch EXCEPT !.todo = Tail(@), !.done = done]
                  /\ calls' = (calls \ {c}) \cup {Call("delete", 0, Head(batch.todo), 0)}
                  /\ UNCHANGED undoable
        /\ UNCHANGED <<backend, at, failed, bar, left, derailed>>
        /\ UNCHANGED <<picked, restoring, restored, lost>>
  BY DEF DeleteArrives
<1> DEFINE done == IF c.got = Failed THEN batch.done ELSE Append(batch.done, c.of)
           next == Call("delete", 0, Head(batch.todo), 0)
<1>2. /\ c \in calls /\ c.kind = "delete" /\ c.got # Waiting /\ c.of \in Id
      /\ batch \in Batch /\ batch # NoBatch /\ Out("delete") = {c}
      /\ batch.done \in Seq(Id) /\ batch.todo \in Seq(Id)
  BY DeleteAnswered
<1>3. /\ batch.todo = <<>> => batch' = NoBatch /\ undoable' = Record(done) /\ calls' = calls \ {c}
      /\ batch.todo # <<>> =>
           /\ batch' = [batch EXCEPT !.todo = Tail(@), !.done = done]
           /\ calls' = (calls \ {c}) \cup {next}
           /\ UNCHANGED undoable
      /\ UNCHANGED <<pending, restoring, lost>>
  BY <1>1 DEF backend
<1>4. /\ done \in Seq(Id) /\ ToSet(batch.done) \subseteq ToSet(done)
      /\ c.got # Failed => c.of \in ToSet(done)
  BY <1>2, Appended
<1>5. next.kind = "delete"
  BY CallKind
<1> HIDE DEF done, next
<1>6. Out("undo")' = Out("undo")
  BY <1>2, <1>3, <1>5 DEF Out
<1>7. undoable \in Seq(Seq(Id) \ {<<>>})
  BY DEF TInv, WindowOK
<1>8. ASSUME NEW i \in DOMAIN undoable
      PROVE  i \in DOMAIN undoable' /\ undoable'[i] = undoable[i]
  <2>1. CASE undoable' = undoable
    BY <2>1
  <2>2. CASE done # <<>> /\ undoable' = Append(undoable, done)
    <3>1. done \in Seq(Id) \ {<<>>}
      BY <1>4, <2>2
    <3>2. /\ DOMAIN undoable = 1..Len(undoable) /\ Len(undoable) \in Nat
          /\ DOMAIN undoable' = 1..(Len(undoable) + 1)
          /\ \A j \in DOMAIN undoable : undoable'[j] = undoable[j]
      BY <1>7, <2>2, <3>1, Appended
    <3> QED BY <3>2
  <2> QED BY <1>3, <2>1, <2>2 DEF Record
<1>9. ASSUME NEW m \in ToSet(done) PROVE Covered(m)'
  <2>1. CASE batch.todo = <<>>
    <3>1. done # <<>>
      BY <1>9 DEF ToSet
    <3>2. done \in Seq(Id) \ {<<>>} /\ undoable' = Append(undoable, done)
      BY <1>3, <1>4, <2>1, <3>1 DEF Record
    <3>3. /\ Len(undoable) \in Nat /\ DOMAIN undoable' = 1..(Len(undoable) + 1)
          /\ undoable'[Len(undoable) + 1] = done
      BY <1>7, <3>2, Appended
    <3>4. Len(undoable) + 1 \in DOMAIN undoable'
      BY <3>3
    <3> QED BY <3>3, <3>4 DEF Covered
  <2>2. CASE batch.todo # <<>>
    <3>1. batch' \in Batch /\ batch'.done = done
      <4>1. Tail(batch.todo) \in Seq(Id)
        BY <1>2, <2>2, FirstAndRest
      <4> QED BY <1>2, <1>3, <1>4, <2>2, <4>1 DEF Batch
    <3>2. batch' # NoBatch
      BY <3>1, NoBatchAssumption
    <3> QED BY <3>1, <3>2 DEF Covered
  <2> QED BY <2>1, <2>2
<1>10. ASSUME NEW m \in pending PROVE Covered(m)'
  <2>1. Covered(m)
    BY DEF DInv
  <2>2. CASE m \in ToSet(done)
    BY <1>9, <2>2
  <2>3. CASE m \notin ToSet(done)
    <3>1. /\ ~ (batch # NoBatch /\ m \in ToSet(batch.done))
          /\ ~ \E d \in Out("delete") : d.of = m /\ d.got \notin {Waiting, Failed}
      BY <1>2, <1>4, <2>3
    <3>2. \/ \E i \in DOMAIN undoable : m \in ToSet(undoable[i])
          \/ restoring # <<>> /\ m \in ToSet(Tail(restoring))
          \/ \E d \in Out("undo") : d.of = m /\ d.got \in {Waiting, Failed}
          \/ m \in lost
      BY <2>1, <3>1 DEF Covered
    <3>3. (\E i \in DOMAIN undoable : m \in ToSet(undoable[i])) =>
            \E i \in DOMAIN undoable' : m \in ToSet(undoable'[i])
      BY <1>8
    <3> QED BY <1>3, <1>6, <3>2, <3>3 DEF Covered
  <2> QED BY <2>2, <2>3
<1> QED BY <1>3, <1>10 DEF DInv

LEMMA UndoDeleteCovers ==
  ASSUME TInv, DInv, UndoDelete
  PROVE  DInv'
<1> DEFINE last == Last(undoable)
           c == Call("undo", 0, Head(last), 0)
<1>1. /\ undoable # <<>> /\ restoring = <<>>
      /\ undoable' = Front(undoable) /\ restoring' = last /\ calls' = calls \cup {c}
      /\ UNCHANGED <<pending, batch, lost>>
  BY DEF UndoDelete, backend
<1>2. undoable \in Seq(Seq(Id) \ {<<>>})
  BY DEF TInv, WindowOK
<1>3. /\ last \in Seq(Id) \ {<<>>}
      /\ Len(undoable) \in Nat \ {0} /\ DOMAIN undoable = 1..Len(undoable)
      /\ last = undoable[Len(undoable)]
      /\ DOMAIN undoable' = 1..(Len(undoable) - 1)
      /\ \A i \in 1..(Len(undoable) - 1) : undoable'[i] = undoable[i]
  BY <1>1, <1>2, LastAndRest
<1> HIDE DEF last
<1>4. ToSet(last) = {Head(last)} \cup ToSet(Tail(last))
  BY <1>3, FirstAndRest
<1>5. c.kind = "undo" /\ c.of = Head(last) /\ c.got = Waiting
  BY DEF Call
<1> HIDE DEF c
<1>6. Out("delete")' = Out("delete") /\ Out("undo") = {} /\ c \in Out("undo")'
  BY <1>1, <1>5 DEF Out, TInv, Restoring
<1>7. ASSUME NEW m \in ToSet(last) PROVE Covered(m)'
  BY <1>1, <1>3, <1>4, <1>5, <1>6, <1>7 DEF Covered
<1>8. ASSUME NEW i \in DOMAIN undoable, NEW m \in ToSet(undoable[i]) PROVE Covered(m)'
  <2>1. CASE i = Len(undoable)
    BY <1>3, <1>7, <1>8, <2>1
  <2>2. CASE i # Len(undoable)
    <3>1. i \in DOMAIN undoable' /\ undoable'[i] = undoable[i]
      BY <1>3, <2>2
    <3> QED BY <1>8, <3>1 DEF Covered
  <2> QED BY <2>1, <2>2
<1>9. ASSUME NEW m \in pending PROVE Covered(m)'
  <2>1. \/ batch # NoBatch /\ m \in ToSet(batch.done)
        \/ \E d \in Out("delete") : d.of = m /\ d.got \notin {Waiting, Failed}
        \/ \E i \in DOMAIN undoable : m \in ToSet(undoable[i])
        \/ m \in lost
    BY <1>1, <1>6 DEF DInv, Covered
  <2> QED BY <1>1, <1>6, <1>8, <2>1 DEF Covered
<1> QED BY <1>1, <1>9 DEF DInv

LEMMA UndoArrivesCovers ==
  ASSUME TInv, DInv, UndoArrives
  PROVE  DInv'
<1> DEFINE next == Call("undo", 0, restoring[2], 0)
<1>1. PICK c \in Answered({"undo"}) :
    /\ IF c.got = Failed
         THEN lost' = lost \cup {c.of} /\ UNCHANGED <<list, restored>>
         ELSE RestoreToList(c.of) /\ restored' = restored \cup {c.of} /\ UNCHANGED lost
    /\ restoring' = Tail(restoring)
    /\ calls' = (calls \ {c}) \cup (IF Len(restoring) = 1 THEN {} ELSE {next})
    /\ UNCHANGED <<backend, at, failed, bar, left, derailed>>
    /\ UNCHANGED <<picked, open, batch, undoable>>
  BY DEF UndoArrives
<1>2. /\ c \in calls /\ c.kind = "undo" /\ c.got # Waiting
      /\ restoring # <<>> /\ c.of = Head(restoring) /\ Out("undo") = {c}
      /\ restoring \in Seq(Id)
  BY UndoAnswered
<1>3. Tail(restoring) \in Seq(Id)
  BY <1>2, FirstAndRest
<1>4. next.kind = "undo" /\ next.got = Waiting
  BY DEF Call
<1>5. calls' = calls \ {c} \/ calls' = (calls \ {c}) \cup {next}
  BY <1>1
<1>6. restoring' = Tail(restoring) /\ UNCHANGED <<batch, undoable, pending>> /\ lost \subseteq lost'
  BY <1>1 DEF backend
<1> HIDE DEF next
<1>7. Out("delete")' = Out("delete")
  BY <1>2, <1>4, <1>5 DEF Out
<1>8. Restoring'
  BY UndoArrivesTypes DEF TInv
<1>9. ASSUME NEW m \in ToSet(Tail(restoring)) PROVE Covered(m)'
  <2>1. Tail(restoring) # <<>>
    BY <1>9 DEF ToSet
  <2>2. ToSet(Tail(restoring)) = {Head(Tail(restoring))} \cup ToSet(Tail(Tail(restoring)))
    BY <1>3, <2>1, FirstAndRest
  <2>3. CASE m = Head(Tail(restoring))
    <3>1. PICK d : Out("undo")' = {d} /\ d.of = Head(restoring')
      BY <1>6, <1>8, <2>1 DEF Restoring
    <3>2. d \in calls' /\ d.kind = "undo" /\ d \in Out("undo")'
      BY <3>1 DEF Out
    <3>3. d \notin calls \ {c}
      BY <1>2, <3>2 DEF Out
    <3>4. d = next
      BY <1>5, <3>2, <3>3
    <3> QED BY <1>4, <1>6, <2>3, <3>1, <3>2, <3>4 DEF Covered
  <2>4. CASE m \in ToSet(Tail(Tail(restoring)))
    BY <1>6, <2>1, <2>4 DEF Covered
  <2> QED BY <1>9, <2>2, <2>3, <2>4
<1>10. ASSUME NEW d \in Out("undo"), d.got \in {Waiting, Failed} PROVE Covered(d.of)'
  <2>1. d = c /\ c.got = Failed
    BY <1>2, <1>10
  <2> QED BY <1>1, <2>1 DEF Covered
<1>11. ASSUME NEW m \in pending PROVE Covered(m)'
  BY <1>6, <1>7, <1>9, <1>10 DEF DInv, Covered
<1> QED BY <1>6, <1>11 DEF DInv

LEMMA NextCovers == TInv /\ DInv /\ [Next]_vars => DInv'
<1> SUFFICES ASSUME TInv, DInv, [Next]_vars PROVE DInv'
  OBVIOUS
<1>1. CASE User
  <2>1. ASSUME NEW ms, Delete(ms) PROVE DInv'
    BY <2>1, DeleteCovers
  <2> QED BY <1>1, <2>1, UserCovers, UndoDeleteCovers DEF User, DeleteOne, DeletePicked
<1>2. CASE Loads
  BY <1>2, LoadsCover
<1>3. CASE Answers
  BY <1>3, IdsCover, MarkCovers, ClearCovers, DeleteArrivesCovers, UndoArrivesCovers DEF Answers
<1>4. CASE UNCHANGED vars
  <2>1. UNCHANGED <<batch, undoable, restoring, lost, pending, calls>>
    BY <1>4 DEF vars, listVars, backend, window
  <2> QED BY <2>1, CoverKept
<1> QED BY <1>1, <1>2, <1>3, <1>4 DEF Next

\* A message that is hidden because it was deleted is always in the batch that
\* runs, on the undo stack, in the undo that runs, or among the lost ones: no
\* failed call and no order of the answers makes a deletion final behind the
\* user's back.
THEOREM DeletionsKept == Spec => []EveryDeletionCanBeUndone
<1>1. Spec => []TInv
  BY InitTypes, NextTypes, PTL DEF Spec
<1>2. Init => DInv
  BY DEF Init, ListInit, DInv
<1>3. Spec => [](TInv /\ DInv)
  BY <1>1, <1>2, NextCovers, PTL DEF Spec
<1> QED BY <1>3, DInvMeans, PTL

-----------------------------------------------------------------------------
(* What is on screen *)

\* The calls that are out for the list there is to be: its first page, and what
\* follows it.
FirstCalls == {c \in calls : c.kind \in {"list", "search"} /\ Current(c)}
PageCalls  == {c \in calls : c.kind \in {"more", "searchMore", "older", "olderMore"} /\ Current(c)}

\* The messages of the place or of the search that was asked for last.
Wanted == IF at.search = NoQuery THEN Contents[at.place] ELSE Matches[at.search]

\* The list is of what was asked for last.
RightList ==
  /\ list.data # NoData
  /\ list.data.searching <=> at.search # NoQuery
  /\ ToSet(list.data.items) \ restored \subseteq Wanted

\* A call asks about what was asked for last.
ForNow(c) == IF c.kind \in Searches THEN at.search = c.of
                                    ELSE at.search = NoQuery /\ at.place = c.of

\* The inductive invariant of loads.
Loading ==
  /\ \A c, d \in FirstCalls : c = d
  /\ \A c \in FirstCalls : ForNow(c)
  /\ list.status = "error" => list.data = NoData
  /\ ~derailed =>
       /\ FirstCalls # {} => list.status = "loading"
       /\ \A c \in PageCalls : ForNow(c)
       /\ PageCalls # {} => RightList /\ FirstCalls = {}
       /\ RightList \/ list.status = "error" \/ FirstCalls # {}

\* It gives what LastLoadWins says, once no call is out.
LEMMA LoadingMeans == TInv /\ Loading => LastLoadWins
<1> SUFFICES ASSUME TInv, Loading, Settled, ~derailed
             PROVE  /\ list.data.searching <=> at.search # NoQuery
                    /\ ToSet(Rows) \ restored \subseteq Wanted
  BY DEF LastLoadWins, Wanted
<1>1. FirstCalls = {} /\ list.status # "error"
  BY DEF Settled, FirstCalls
<1>2. RightList
  BY <1>1 DEF Loading
<1> QED BY <1>2 DEF RightList, Rows

\* A step that goes on with the load there is.
LEMMA LoadingKept ==
  ASSUME Loading, at'.search = at.search, at'.place = at.place, derailed => derailed',
         \A c, d \in FirstCalls' : c = d,
         \A c \in FirstCalls' : \E d \in FirstCalls : d.kind = c.kind /\ d.of = c.of,
         \A c \in PageCalls' :
           \E d \in PageCalls : d.of = c.of /\ (d.kind \in Searches <=> c.kind \in Searches),
         FirstCalls # {} => FirstCalls' # {},
         list'.status = "error" => list'.data = NoData,
         ~derailed' /\ FirstCalls # {} => list'.status = "loading",
         ~derailed' /\ RightList => RightList',
         ~derailed' /\ list.status = "error" /\ FirstCalls = {} => list'.status = "error"
  PROVE  Loading'
<1>1. \A c \in FirstCalls' : ForNow(c)'
  BY DEF Loading, ForNow
<1>2. ASSUME ~derailed'
      PROVE  /\ FirstCalls' # {} => list'.status = "loading"
             /\ \A c \in PageCalls' : ForNow(c)'
             /\ PageCalls' # {} => RightList' /\ FirstCalls' = {}
             /\ RightList' \/ list'.status = "error" \/ FirstCalls' # {}
  <2>1. ~derailed
    BY <1>2
  <2>2. FirstCalls' # {} => FirstCalls # {}
    OBVIOUS
  <2>3. PageCalls' # {} => PageCalls # {}
    OBVIOUS
  <2>4. \A c \in PageCalls' : ForNow(c)'
    BY <2>1 DEF Loading, ForNow
  <2>5. PageCalls' # {} => RightList' /\ FirstCalls' = {}
    BY <1>2, <2>1, <2>2, <2>3 DEF Loading
  <2>6. RightList' \/ list'.status = "error" \/ FirstCalls' # {}
    BY <1>2, <2>1 DEF Loading
  <2> QED BY <1>2, <2>2, <2>4, <2>5, <2>6
<1> QED BY <1>1, <1>2 DEF Loading

\* A step that leaves the calls for the list alone.
LEMMA SameCalls ==
  ASSUME at'.generation = at.generation,
         \A c \in calls' \ calls : c.kind \in {"ids", "delete", "undo"},
         \A c \in calls \ calls' : c.kind \in {"ids", "delete", "undo"}
  PROVE  FirstCalls' = FirstCalls /\ PageCalls' = PageCalls
<1>1. \A c : c \in FirstCalls' <=> c \in FirstCalls
  BY DEF FirstCalls, Current
<1>2. \A c : c \in PageCalls' <=> c \in PageCalls
  BY DEF PageCalls, Current
<1> QED BY <1>1, <1>2

\* A step that leaves the calls for the list alone, and what it shows the same
\* but for rows that are gone or were put back.
LEMMA LoadingSame ==
  ASSUME Loading, at' = at, derailed' = derailed,
         FirstCalls' = FirstCalls, PageCalls' = PageCalls,
         list'.status = list.status, list'.data = NoData <=> list.data = NoData,
         list.data # NoData => list'.data.searching = list.data.searching,
         list.data # NoData =>
           ToSet(list'.data.items) \ restored' \subseteq ToSet(list.data.items) \ restored
  PROVE  Loading'
<1>1. Wanted' = Wanted
  BY DEF Wanted
<1>2. RightList => RightList'
  BY <1>1 DEF RightList
<1>3. \A c \in FirstCalls' : \E d \in FirstCalls : d.kind = c.kind /\ d.of = c.of
  OBVIOUS
<1>4. \A c \in PageCalls' :
        \E d \in PageCalls : d.of = c.of /\ (d.kind \in Searches <=> c.kind \in Searches)
  OBVIOUS
<1>5. \A c, d \in FirstCalls' : c = d
  BY DEF Loading
<1>6. list'.status = "error" => list'.data = NoData
  BY DEF Loading
<1>7. ~derailed' /\ FirstCalls # {} => list'.status = "loading"
  BY DEF Loading
<1> QED BY <1>2, <1>3, <1>4, <1>5, <1>6, <1>7, LoadingKept

\* The backend answers a call.
LEMMA LoadingReply ==
  ASSUME TInv, Loading, NEW c \in calls, NEW got, Reply(c, got),
         UNCHANGED <<list, at, derailed, restored>>
  PROVE  Loading'
<1> DEFINE d == [c EXCEPT !.got = got]
<1>1. c \in CallSet
  BY CallFields
<1>2. d.kind = c.kind /\ d.of = c.of /\ d.generation = c.generation
  BY <1>1 DEF CallSet
<1> HIDE DEF d
<1>3. calls' = (calls \ {c}) \cup {d}
  BY DEF Reply, d
<1>4. \A e \in calls' : \E f \in calls :
        /\ f.kind = e.kind /\ f.of = e.of /\ f.generation = e.generation
        /\ e = f \/ (e = d /\ f = c)
  BY <1>2, <1>3
<1>5. ASSUME NEW e \in FirstCalls'
      PROVE  \E f \in FirstCalls : f.kind = e.kind /\ f.of = e.of /\ (e = f \/ (e = d /\ f = c))
  BY <1>4 DEF FirstCalls, Current
<1>6. \A e, f \in FirstCalls' : e = f
  <2>1. SUFFICES ASSUME NEW e \in FirstCalls', NEW f \in FirstCalls' PROVE e = f
    OBVIOUS
  <2>2. PICK x \in FirstCalls : e = x \/ (e = d /\ x = c)
    BY <1>5
  <2>3. PICK y \in FirstCalls : f = y \/ (f = d /\ y = c)
    BY <1>5
  <2>4. x = y
    BY DEF Loading
  <2>5. e \in calls' /\ f \in calls'
    BY DEF FirstCalls
  <2>6. c \in calls' => d = c
    BY <1>3
  <2> QED BY <2>2, <2>3, <2>4, <2>5, <2>6
<1>7. \A e \in PageCalls' :
        \E f \in PageCalls : f.of = e.of /\ (f.kind \in Searches <=> e.kind \in Searches)
  BY <1>4 DEF PageCalls, Current
<1>8. FirstCalls # {} => FirstCalls' # {}
  <2>1. ASSUME NEW f \in FirstCalls PROVE f \in FirstCalls' \/ d \in FirstCalls'
    BY <1>2, <1>3 DEF FirstCalls, Current
  <2> QED BY <2>1
<1>9. RightList => RightList'
  BY DEF RightList, Wanted
<1>10. /\ list'.status = "error" => list'.data = NoData
       /\ ~derailed' /\ FirstCalls # {} => list'.status = "loading"
  BY DEF Loading
<1> QED BY <1>5, <1>6, <1>7, <1>8, <1>9, <1>10, LoadingKept

\* A load begins, and what is out for the one before is of no matter.
LEMMA Started ==
  ASSUME TInv, NEW c, calls' = calls \cup {c}, c.kind \in {"list", "search"},
         c.generation = at.generation + 1, at'.generation = at.generation + 1,
         list'.status = "loading",
         IF c.kind \in Searches THEN at'.search = c.of
                                       ELSE at'.search = NoQuery /\ at'.place = c.of
  PROVE  Loading'
<1>1. ASSUME NEW d \in calls PROVE d.generation # at.generation + 1
  <2>1. d.generation \in Nat /\ d.generation <= at.generation /\ at.generation \in Nat
    BY CallFields
  <2> QED BY <2>1
<1>2. FirstCalls' = {c}
  BY <1>1 DEF FirstCalls, Current
<1>3. PageCalls' = {}
  BY <1>1 DEF PageCalls, Current
<1>4. ForNow(c)'
  BY DEF ForNow
<1> QED BY <1>2, <1>3, <1>4 DEF Loading

\* A load begins anew: no call before it is of its generation.
LEMMA LoadListLoads ==
  ASSUME TInv, NEW place, LoadList(place)
  PROVE  Loading'
<1> DEFINE c == Call("list", at.generation + 1, place, 0)
<1>1. /\ at' = [place |-> place, offset |-> 0, search |-> NoQuery, generation |-> at.generation + 1]
      /\ list' = [list EXCEPT !.status = "loading"] /\ calls' = calls \cup {c}
  BY DEF LoadList
<1>2. c.kind = "list" /\ c.generation = at.generation + 1 /\ c.of = place
  BY DEF Call
<1> HIDE DEF c
<1>3. list'.status = "loading"
  BY <1>1 DEF TInv, ShownOK
<1>4. at'.generation = at.generation + 1 /\ at'.search = NoQuery /\ at'.place = place
  BY <1>1
<1>5. IF c.kind \in Searches THEN at'.search = c.of
                                      ELSE at'.search = NoQuery /\ at'.place = c.of
  BY <1>2, <1>4 DEF Searches
<1> QED BY <1>1, <1>2, <1>3, <1>4, <1>5, Started

LEMMA RunSearchLoads ==
  ASSUME TInv, NEW query \in Query, RunSearch(query)
  PROVE  Loading'
<1> DEFINE c == Call("search", at.generation + 1, query, 0)
<1>1. /\ at' = [at EXCEPT !.search = query, !.generation = at.generation + 1]
      /\ list' = [list EXCEPT !.status = "loading"] /\ calls' = calls \cup {c}
  BY DEF RunSearch
<1>2. c.kind = "search" /\ c.generation = at.generation + 1 /\ c.of = query
  BY DEF Call
<1> HIDE DEF c
<1>3. list'.status = "loading"
  BY <1>1 DEF TInv, ShownOK
<1>4. at'.generation = at.generation + 1 /\ at'.search = query
  BY <1>1 DEF TInv, AtOK
<1>5. IF c.kind \in Searches THEN at'.search = c.of
                                      ELSE at'.search = NoQuery /\ at'.place = c.of
  BY <1>2, <1>4 DEF Searches
<1> QED BY <1>1, <1>2, <1>3, <1>4, <1>5, Started

\* The list asks for more, or for older mail, while it is shown.
LEMMA PagingLoads ==
  ASSUME TInv, Loading, NEW c, calls' = calls \cup {c},
         c.kind \in {"more", "searchMore", "older"}, c.generation = at.generation,
         at' = at, derailed' = derailed, restored' = restored, list.status = "ready",
         list'.status # "error",
         list'.data # NoData, list'.data.searching = list.data.searching,
         list'.data.items = list.data.items,
         IF c.kind \in Searches THEN list.data.searching /\ c.of = at.search
                                ELSE ~list.data.searching /\ c.of = at.place
  PROVE  Loading'
<1>1. FirstCalls' = FirstCalls
  BY DEF FirstCalls, Current
<1>2. PageCalls' = PageCalls \cup {c}
  BY DEF PageCalls, Current
<1>3. \A d : ForNow(d)' = ForNow(d)
  BY DEF ForNow
<1>4. ASSUME ~derailed
      PROVE  FirstCalls = {} /\ RightList /\ RightList' /\ ForNow(c)
  <2>1. FirstCalls = {} /\ RightList
    BY <1>4 DEF Loading
  <2>2. RightList'
    BY <2>1 DEF RightList, Wanted
  <2>3. ForNow(c)
    BY <2>1 DEF ForNow, RightList
  <2> QED BY <2>1, <2>2, <2>3
<1> QED BY <1>1, <1>2, <1>3, <1>4 DEF Loading

\* A page is asked for on top of the right list.
LEMMA ScrollLoads ==
  ASSUME TInv, Loading, Scroll, restored' = restored
  PROVE  Loading'
<1>1. /\ at' = at /\ derailed' = derailed /\ list.status = "ready"
      /\ list' = [list EXCEPT !.status = "loading"]
  BY DEF Scroll, Showing
<1>2. list'.status = "loading" /\ list'.data = list.data /\ list.data # NoData
  BY <1>1 DEF TInv, ShownOK
<1>3. CASE list.data.searching
  <2> DEFINE c == Call("searchMore", at.generation, at.search, list.data.hits)
  <2>1. calls' = calls \cup {c}
    BY <1>3 DEF Scroll
  <2>2. c.kind = "searchMore" /\ c.generation = at.generation /\ c.of = at.search
    BY DEF Call
  <2> HIDE DEF c
  <2> QED BY <1>1, <1>2, <1>3, <2>1, <2>2, PagingLoads DEF Searches
<1>4. CASE ~list.data.searching
  <2> DEFINE c == Call("more", at.generation, at.place, at.offset + PageSize)
  <2>1. calls' = calls \cup {c}
    BY <1>4 DEF Scroll
  <2>2. c.kind = "more" /\ c.generation = at.generation /\ c.of = at.place
    BY DEF Call
  <2> HIDE DEF c
  <2> QED BY <1>1, <1>2, <1>4, <2>1, <2>2, PagingLoads DEF Searches
<1> QED BY <1>3, <1>4

LEMMA LoadOlderLoads ==
  ASSUME TInv, Loading, LoadOlder, restored' = restored
  PROVE  Loading'
<1> DEFINE c == Call("older", at.generation, at.place, 0)
<1>1. /\ at' = at /\ derailed' = derailed /\ list.status = "ready" /\ ~list.data.searching
      /\ list' = [list EXCEPT !.data.backfilling = TRUE] /\ calls' = calls \cup {c}
  BY DEF LoadOlder, Showing
<1>2. list.data \in Data
  BY <1>1, HaveData DEF TInv, ShownOK
<1>3. /\ list'.status = "ready" /\ list'.data \in Data
      /\ list'.data.searching = list.data.searching /\ list'.data.items = list.data.items
  BY <1>1, <1>2 DEF TInv, ShownOK, Data
<1>4. list'.data # NoData
  BY <1>3, NoDataAssumption
<1>5. c.kind = "older" /\ c.generation = at.generation /\ c.of = at.place
  BY DEF Call
<1> HIDE DEF c
<1> QED BY <1>1, <1>3, <1>4, <1>5, PagingLoads DEF Searches

\* The answer to a call of an earlier load, or one that changes nothing.
LEMMA LoadingHears ==
  ASSUME TInv, Loading, NEW c \in calls, calls' = calls \ {c},
         c \notin FirstCalls,
         UNCHANGED <<list, at, derailed, restored>>
  PROVE  Loading'
<1>1. FirstCalls' = FirstCalls
  BY DEF FirstCalls, Current
<1>2. PageCalls' \subseteq PageCalls
  BY DEF PageCalls, Current
<1>3. RightList => RightList'
  BY DEF RightList, Wanted
<1>4. \A d \in PageCalls' :
        \E e \in PageCalls : e.of = d.of /\ (e.kind \in Searches <=> d.kind \in Searches)
  BY <1>2
<1>5. /\ \A d, e \in FirstCalls' : d = e
      /\ list'.status = "error" => list'.data = NoData
      /\ ~derailed' /\ FirstCalls # {} => list'.status = "loading"
  BY <1>1 DEF Loading
<1> QED BY <1>1, <1>3, <1>4, <1>5, LoadingKept

\* The answer to a call for more: what is shown then is still what was asked for.
LEMMA LoadingGoesOn ==
  ASSUME TInv, Loading, NEW c \in PageCalls, calls' = calls \ {c},
         at'.search = at.search, at'.place = at.place, at'.generation = at.generation,
         derailed' = derailed,
         list'.status = "error" => list'.data = NoData,
         RightList /\ ForNow(c) => RightList'
  PROVE  Loading'
<1>1. FirstCalls' = FirstCalls
  BY DEF FirstCalls, PageCalls, Current
<1>2. PageCalls' = PageCalls \ {c}
  BY DEF PageCalls, Current
<1>3. ~derailed => FirstCalls = {} /\ RightList /\ ForNow(c)
  BY DEF Loading
<1>4. \A d \in PageCalls' :
        \E e \in PageCalls : e.of = d.of /\ (e.kind \in Searches <=> d.kind \in Searches)
  BY <1>2
<1>5. \A d, e \in FirstCalls' : d = e
  BY <1>1 DEF Loading
<1>6. \A d : ForNow(d)' = ForNow(d)
  BY DEF ForNow
<1> QED BY <1>1, <1>2, <1>3, <1>5, <1>6 DEF Loading

\* A first page of the last load brings the right list, any other is dropped.
LEMMA FirstPageLoads ==
  ASSUME TInv, Loading, NEW c \in Answered({"list", "search"}), calls' = calls \ {c},
         FirstPageArrives(c), restored' = restored
  PROVE  Loading'
<1>1. c \in calls /\ c.kind \in {"list", "search"} /\ c.got # Waiting
  BY DEF Answered
<1>2. UNCHANGED <<at, derailed>>
  BY DEF FirstPageArrives
<1>3. CASE ~Current(c)
  <2>1. list' = list /\ c \notin FirstCalls
    BY <1>3 DEF FirstPageArrives, FirstCalls
  <2> QED BY <1>1, <1>2, <2>1, LoadingHears
<1>4. CASE Current(c)
  <2>1. c \in FirstCalls
    BY <1>1, <1>4 DEF FirstCalls
  <2>2. FirstCalls' = {}
    <3>1. FirstCalls \subseteq {c}
      BY <2>1 DEF Loading
    <3>2. FirstCalls' \subseteq FirstCalls \ {c}
      BY <1>2 DEF FirstCalls, Current
    <3> QED BY <3>1, <3>2
  <2>3. PageCalls' = PageCalls
    BY <1>1, <1>2 DEF PageCalls, Current
  <2>4. ~derailed => PageCalls = {}
    BY <2>1 DEF Loading
  <2>5. ForNow(c)
    BY <2>1 DEF Loading
  <2>6. CASE c.got = Failed
    <3>1. list' = [status |-> "error", data |-> NoData]
      BY <1>4, <2>6 DEF FirstPageArrives
    <3> QED BY <1>2, <2>2, <2>3, <2>4, <3>1 DEF Loading
  <2>7. CASE c.got # Failed
    <3>1. list' = Ready(FirstPage(c))
      BY <1>4, <2>7 DEF FirstPageArrives
    <3>2. /\ list'.status = "ready" /\ list'.data = FirstPage(c)
          /\ list'.data.items = c.got.rows /\ list'.data.searching = (c.kind = "search")
      BY <3>1 DEF Ready, FirstPage
    <3>3. FirstPage(c) # NoData
      <4>1. /\ c.got.rows \in Seq(Id) /\ c.got.total \in Nat /\ c.got.hasOlder \in BOOLEAN
            /\ SearchPage \in Nat
        BY <1>1, <2>7, Brought, ListAssumption
      <4>2. FirstPage(c) \in Data
        BY <4>1 DEF FirstPage, Data
      <4> QED BY <4>2, NoDataAssumption
    <3>4. PageOf(c, c.got.rows)
      BY <1>1, <2>7, Brought
    <3>5. RightList'
      <4>1. CASE c.kind = "search"
        <5>1. at.search = c.of /\ c.of \in Query
          BY <1>1, <2>5, <4>1, CallFields DEF ForNow, Searches
        <5>2. at.search # NoQuery
          BY <5>1, ListAssumption
        <5>3. ToSet(c.got.rows) \subseteq Matches[at.search]
          BY <3>4, <4>1, <5>1 DEF PageOf, Searches
        <5> QED BY <1>2, <3>2, <3>3, <4>1, <5>2, <5>3 DEF RightList, Wanted
      <4>2. CASE c.kind = "list"
        <5>1. at.search = NoQuery /\ at.place = c.of
          BY <2>5, <4>2 DEF ForNow, Searches
        <5>2. ToSet(c.got.rows) \subseteq Contents[at.place]
          BY <3>4, <4>2, <5>1 DEF PageOf, Pages
        <5> QED BY <1>2, <3>2, <3>3, <4>2, <5>1, <5>2 DEF RightList, Wanted
      <4> QED BY <1>1, <4>1, <4>2
    <3> QED BY <1>2, <2>2, <2>3, <2>4, <3>2, <3>5 DEF Loading
  <2> QED BY <2>6, <2>7
<1> QED BY <1>3, <1>4

\* A page added to what is shown is of what was asked for.
LEMMA RightLonger ==
  ASSUME TInv, RightList, NEW c \in PageCalls, ForNow(c), c.got # Waiting, c.got # Failed,
         NEW data \in Data, data.items = AppendPage(list.data.items, c.got.rows),
         data.searching = list.data.searching, list' = Ready(data),
         at'.search = at.search, at'.place = at.place, restored' = restored
  PROVE  RightList'
<1>1. c \in calls /\ c.kind \in {"more", "searchMore", "older", "olderMore"}
  BY DEF PageCalls
<1>2. c.got.rows \in Seq(Id) /\ PageOf(c, c.got.rows)
  BY <1>1, Brought
<1>3. list.data.items \in Seq(Id)
  BY HaveData DEF TInv, RightList, Data
<1>4. ToSet(data.items) = ToSet(list.data.items) \cup ToSet(c.got.rows)
  BY <1>2, <1>3, Appends
<1>5. ToSet(c.got.rows) \subseteq Wanted
  <2>1. CASE c.kind = "searchMore"
    <3>1. at.search = c.of /\ c.of \in Query
      BY <1>1, <2>1, CallFields DEF ForNow, Searches
    <3>2. at.search # NoQuery
      BY <3>1, ListAssumption
    <3> QED BY <1>2, <2>1, <3>1, <3>2 DEF PageOf, Searches, Wanted
  <2>2. CASE c.kind # "searchMore"
    <3>1. at.search = NoQuery /\ at.place = c.of /\ c.kind \in Pages
      BY <1>1, <2>2 DEF ForNow, Searches, Pages
    <3> QED BY <1>2, <3>1 DEF PageOf, Wanted
  <2> QED BY <2>1, <2>2
<1>6. list'.data = data /\ data # NoData
  BY NoDataAssumption DEF Ready
<1>7. Wanted' = Wanted
  BY DEF Wanted
<1> HIDE DEF Wanted
<1> QED BY <1>4, <1>5, <1>6, <1>7 DEF RightList

\* A page of the last load adds rows of what was asked for last.
LEMMA ExtendLoads ==
  ASSUME TInv, Loading, NEW c \in PageCalls, c.kind # "searchMore", c.got # Waiting, c.got # Failed,
         NEW data, Extend(c, data),
         list.data # NoData => data \in Data /\ data.items = list.data.items
                                 /\ data.searching \in {FALSE, list.data.searching},
         calls' = calls \ {c}, at' = [at EXCEPT !.offset = c.offset],
         derailed' = derailed, restored' = restored
  PROVE  Loading'
<1>1. at'.search = at.search /\ at'.place = at.place /\ at'.generation = at.generation
  BY DEF TInv, AtOK
<1>2. c \in calls /\ c.kind \notin Searches
  BY DEF PageCalls, Searches
<1>3. CASE list.data = NoData
  <2>1. list' = list
    BY <1>3 DEF Extend
  <2> QED BY <1>1, <1>3, <2>1, LoadingGoesOn DEF RightList
<1>4. CASE list.data # NoData
  <2> DEFINE both == AppendPage(list.data.items, c.got.rows)
             new == [data EXCEPT !.items = AppendPage(@, c.got.rows), !.total = c.got.total]
  <2>1. c.got.rows \in Seq(Id) /\ c.got.total \in Nat
    BY <1>2, Brought
  <2>2. data \in Data /\ data.items = list.data.items
    BY <1>4
  <2>3. both \in Seq(Id)
    BY <2>1, <2>2, Appends DEF Data
  <2>4. new = [data EXCEPT !.items = both, !.total = c.got.total]
    BY <2>2 DEF Data
  <2>5. list' = Ready(new)
    BY <1>4 DEF Extend
  <2> HIDE DEF both
  <2>6. new \in Data /\ new.items = both /\ new.searching = data.searching
    BY <2>1, <2>2, <2>3, <2>4 DEF Data
  <2> HIDE DEF new
  <2>7. list'.status = "ready"
    BY <2>5 DEF Ready
  <2>8. ASSUME RightList, ForNow(c) PROVE RightList'
    <3>1. at.search = NoQuery
      BY <1>2, <2>8 DEF ForNow
    <3>2. ~list.data.searching /\ list.data.searching \in BOOLEAN
      BY <1>4, <2>8, <3>1, HaveData DEF RightList, TInv, Data
    <3>3. new.searching = list.data.searching
      BY <1>4, <2>6, <3>2
    <3> QED BY <1>1, <2>5, <2>6, <2>8, <3>3, RightLonger DEF both
  <2> QED BY <1>1, <2>7, <2>8, LoadingGoesOn
<1> QED BY <1>3, <1>4

\* What is shown is shown again.
LEMMA ShownAgain ==
  ASSUME TInv, RightList, NEW data \in Data, data.items = list.data.items,
         data.searching = list.data.searching, list' = Ready(data),
         at'.search = at.search, at'.place = at.place, restored' = restored
  PROVE  RightList' /\ list'.status = "ready"
<1>1. list'.data = data /\ list'.status = "ready" /\ data # NoData
  BY NoDataAssumption DEF Ready
<1>2. Wanted' = Wanted
  BY DEF Wanted
<1> QED BY <1>1, <1>2 DEF RightList

LEMMA MoreLoads ==
  ASSUME TInv, Loading, NEW c \in Answered({"more"}), calls' = calls \ {c}, MoreArrives(c),
         restored' = restored
  PROVE  Loading'
<1>1. derailed' = derailed
  BY DEF MoreArrives
<1>2. c \in calls /\ c.kind = "more" /\ c.got # Waiting /\ c \notin FirstCalls
  BY DEF Answered, FirstCalls
<1>3. CASE ~Current(c)
  <2>1. UNCHANGED <<at, list>>
    BY <1>3 DEF MoreArrives
  <2> QED BY <1>1, <1>2, <2>1, LoadingHears
<1>4. CASE Current(c) /\ c.got = Failed
  <2>1. /\ list' = IF list.data = NoData THEN [list EXCEPT !.status = "error"] ELSE Ready(list.data)
        /\ UNCHANGED at
    BY <1>4 DEF MoreArrives
  <2>2. c \in PageCalls
    BY <1>2, <1>4 DEF PageCalls
  <2>3. CASE list.data = NoData
    <3>1. list'.data = NoData
      BY <2>1, <2>3 DEF TInv, ShownOK
    <3> QED BY <1>1, <2>1, <2>2, <2>3, <3>1, LoadingGoesOn DEF RightList
  <2>4. CASE list.data # NoData
    <3>1. list.data \in Data /\ list' = Ready(list.data)
      BY <2>1, <2>4, HaveData DEF TInv
    <3>2. list'.status = "ready"
      BY <3>1 DEF Ready
    <3>3. RightList => RightList'
      BY <2>1, <3>1, ShownAgain
    <3> QED BY <1>1, <2>1, <2>2, <3>2, <3>3, LoadingGoesOn
  <2> QED BY <2>3, <2>4
<1>5. CASE Current(c) /\ c.got # Failed
  <2> DEFINE data == [list.data EXCEPT !.searching = FALSE, !.hasOlder = c.got.hasOlder]
  <2>1. at' = [at EXCEPT !.offset = c.offset] /\ Extend(c, data)
    BY <1>5 DEF MoreArrives
  <2>2. c \in PageCalls
    BY <1>2, <1>5 DEF PageCalls
  <2>3. c.got.hasOlder \in BOOLEAN
    BY <1>2, <1>5, Brought
  <2>4. list.data # NoData => data \in Data /\ data.items = list.data.items /\ data.searching = FALSE
    BY <2>3, HaveData DEF TInv, Data
  <2> HIDE DEF data
  <2> QED BY <1>1, <1>2, <1>5, <2>1, <2>2, <2>4, ExtendLoads
<1> QED BY <1>3, <1>4, <1>5

LEMMA MoreSearchLoads ==
  ASSUME TInv, Loading, NEW c \in Answered({"searchMore"}), calls' = calls \ {c},
         MoreSearchArrives(c), restored' = restored
  PROVE  Loading'
<1>1. at' = at /\ derailed' = (derailed \/ (c.got = Failed /\ ~Current(c) /\ list.status = "loading"))
  BY DEF MoreSearchArrives
<1>2. c \in calls /\ c.kind = "searchMore" /\ c.got # Waiting /\ c \notin FirstCalls
  BY DEF Answered, FirstCalls
<1>3. derailed \in BOOLEAN
  BY DEF TInv, AtOK
<1>4. CASE list' = list /\ derailed' = derailed
  BY <1>1, <1>2, <1>4, LoadingHears
<1>5. CASE c.got = Failed /\ list.data = NoData
  <2>1. list' = list
    BY <1>5 DEF MoreSearchArrives
  <2>2. FirstCalls' = FirstCalls
    BY <1>1, <1>2 DEF FirstCalls, Current
  <2>3. PageCalls' \subseteq PageCalls
    BY <1>1 DEF PageCalls, Current
  <2>4. \A d : ForNow(d)' = ForNow(d)
    BY <1>1 DEF ForNow
  <2>5. RightList => RightList'
    BY <1>1, <2>1 DEF RightList, Wanted
  <2> QED BY <1>1, <1>3, <2>1, <2>2, <2>3, <2>4, <2>5 DEF Loading
<1>6. CASE c.got = Failed /\ list.data # NoData
  <2>1. list' = Ready(list.data)
    BY <1>6 DEF MoreSearchArrives
  <2>2. list.data \in Data
    BY <1>6, HaveData DEF TInv
  <2>3. list'.status = "ready"
    BY <2>1 DEF Ready
  <2>4. RightList => RightList'
    BY <1>1, <2>1, <2>2, ShownAgain
  <2>5. CASE Current(c)
    <3>1. c \in PageCalls /\ derailed' = derailed
      BY <1>1, <1>2, <1>3, <2>5 DEF PageCalls
    <3> QED BY <1>1, <2>3, <2>4, <3>1, LoadingGoesOn
  <2>6. CASE ~Current(c)
    <3>1. FirstCalls' = FirstCalls /\ PageCalls' = PageCalls
      BY <1>1, <2>6 DEF FirstCalls, PageCalls, Current
    <3>2. \A d : ForNow(d)' = ForNow(d)
      BY <1>1 DEF ForNow
    <3>3. ~derailed' => ~derailed /\ list.status # "loading"
      BY <1>1, <1>3, <1>6, <2>6
    <3> QED BY <1>6, <2>3, <2>4, <3>1, <3>2, <3>3 DEF Loading
  <2> QED BY <2>5, <2>6
<1>7. CASE /\ c.got # Failed
           /\ list.data # NoData /\ list.data.searching /\ at.search # NoQuery /\ Current(c)
  <2> DEFINE both == AppendPage(list.data.items, c.got.rows)
             n == c.offset + SearchPage
             empty == c.got.rows = <<>>
             new == [list.data EXCEPT !.items = both, !.total = c.got.total, !.hits = n,
                                      !.exhausted = empty]
  <2>1. list.data \in Data
    BY <1>7, HaveData DEF TInv
  <2>2. list' = Ready(new)
    BY <1>7, <2>1 DEF MoreSearchArrives, Data
  <2>3. c.got.rows \in Seq(Id) /\ c.got.total \in Nat
    BY <1>2, <1>7, Brought
  <2>4. both \in Seq(Id)
    BY <2>1, <2>3, Appends DEF Data
  <2>5. n \in Nat /\ empty \in BOOLEAN
    BY <1>2, CallFields, ListAssumption
  <2> HIDE DEF both, n, empty
  <2>6. new \in Data /\ new.items = both /\ new.searching = list.data.searching
    BY <2>1, <2>3, <2>4, <2>5 DEF Data
  <2> HIDE DEF new
  <2>7. list'.status = "ready"
    BY <2>2 DEF Ready
  <2>8. c \in PageCalls /\ derailed' = derailed
    BY <1>1, <1>2, <1>3, <1>7 DEF PageCalls
  <2>9. ASSUME RightList, ForNow(c) PROVE RightList'
    BY <1>1, <1>2, <1>7, <2>2, <2>6, <2>8, <2>9, RightLonger DEF both
  <2> QED BY <1>1, <2>7, <2>8, <2>9, LoadingGoesOn
<1>8. CASE /\ c.got # Failed
           /\ ~(list.data # NoData /\ list.data.searching /\ at.search # NoQuery /\ Current(c))
  <2>1. list' = list /\ derailed' = derailed
    BY <1>1, <1>3, <1>8 DEF MoreSearchArrives
  <2> QED BY <1>4, <2>1
<1> QED BY <1>5, <1>6, <1>7, <1>8

\* A backfill that brings nothing leaves the rows.
LEMMA NotBackfilledLoads ==
  ASSUME TInv, Loading, NEW c \in PageCalls, calls' = calls \ {c}, NotBackfilled,
         derailed' = derailed, restored' = restored
  PROVE  Loading'
<1>1. at' = at
  BY DEF NotBackfilled
<1>2. CASE list.data = NoData
  <2>1. list' = list
    BY <1>2 DEF NotBackfilled
  <2> QED BY <1>1, <1>2, <2>1, LoadingGoesOn DEF RightList
<1>3. CASE list.data # NoData
  <2> DEFINE new == [list.data EXCEPT !.backfilling = FALSE]
  <2>1. list' = Ready(new)
    BY <1>3 DEF NotBackfilled
  <2>2. new \in Data /\ new.items = list.data.items /\ new.searching = list.data.searching
    BY <1>3, HaveData DEF TInv, Data
  <2> HIDE DEF new
  <2>3. list'.status = "ready"
    BY <2>1 DEF Ready
  <2>4. RightList => RightList'
    BY <1>1, <2>1, <2>2, ShownAgain
  <2> QED BY <1>1, <2>3, <2>4, LoadingGoesOn
<1> QED BY <1>2, <1>3

LEMMA OlderLoads ==
  ASSUME TInv, Loading, NEW c \in Answered({"older"}), OlderArrives(c), restored' = restored
  PROVE  Loading'
<1>1. c \in calls /\ c.kind = "older" /\ c.got # Waiting /\ c \notin FirstCalls
  BY DEF Answered, FirstCalls
<1>2. derailed' = derailed
  BY DEF OlderArrives
<1>3. CASE ~Current(c)
  <2>1. calls' = calls \ {c} /\ UNCHANGED <<list, at>>
    BY <1>3 DEF OlderArrives
  <2> QED BY <1>1, <1>2, <2>1, LoadingHears
<1>4. ASSUME Current(c) PROVE c \in PageCalls
  BY <1>1, <1>4 DEF PageCalls
<1>5. CASE Current(c) /\ c.got = Failed
  <2>1. calls' = calls \ {c} /\ NotBackfilled
    BY <1>5 DEF OlderArrives
  <2> QED BY <1>2, <1>4, <1>5, <2>1, NotBackfilledLoads
<1>6. CASE Current(c) /\ c.got # Failed /\ c.got.total = 0
  <2>1. /\ calls' = calls \ {c} /\ at' = at
        /\ list' = IF list.data = NoData THEN list
                   ELSE Ready(Backfilled(list.data, c.got.hasOlder))
    BY <1>6 DEF OlderArrives
  <2>2. CASE list.data = NoData
    <3>1. list' = list
      BY <2>1, <2>2
    <3> QED BY <1>1, <1>2, <2>1, <3>1, LoadingHears
  <2>3. CASE list.data # NoData
    <3> DEFINE new == Backfilled(list.data, c.got.hasOlder)
    <3>1. c.got.hasOlder \in BOOLEAN
      BY <1>1, <1>6, Brought
    <3>2. new \in Data /\ new.items = list.data.items /\ new.searching = list.data.searching
      BY <2>3, <3>1, HaveData DEF TInv, Data, Backfilled
    <3>3. list' = Ready(new)
      BY <2>1, <2>3
    <3> HIDE DEF new
    <3>4. list'.status = "ready"
      BY <3>3 DEF Ready
    <3>5. RightList => RightList'
      BY <2>1, <3>2, <3>3, ShownAgain
    <3> QED BY <1>2, <1>4, <1>6, <2>1, <3>4, <3>5, LoadingGoesOn
  <2> QED BY <2>2, <2>3
<1>7. CASE Current(c) /\ c.got # Failed /\ c.got.total # 0
  <2> DEFINE page == [Call("olderMore", c.generation, c.of, at.offset + PageSize)
                        EXCEPT !.hasOlder = c.got.hasOlder]
  <2>1. calls' = (calls \ {c}) \cup {page} /\ UNCHANGED <<list, at>>
    BY <1>7 DEF OlderArrives
  <2>2. page.kind = "olderMore" /\ page.generation = c.generation /\ page.of = c.of
    BY DEF Call
  <2> HIDE DEF page
  <2>3. FirstCalls' = FirstCalls
    BY <1>1, <2>1, <2>2 DEF FirstCalls, Current
  <2>4. PageCalls' \subseteq PageCalls \cup {page} /\ c \in PageCalls
    BY <1>4, <1>7, <2>1 DEF PageCalls, Current
  <2>5. \A d : ForNow(d)' = ForNow(d)
    BY <2>1 DEF ForNow
  <2>6. ForNow(c) => ForNow(page)
    BY <1>1, <2>2 DEF ForNow, Searches
  <2>7. RightList => RightList'
    BY <2>1 DEF RightList, Wanted
  <2> QED BY <1>2, <2>1, <2>3, <2>4, <2>5, <2>6, <2>7 DEF Loading
<1> QED BY <1>3, <1>5, <1>6, <1>7

LEMMA OlderPageLoads ==
  ASSUME TInv, Loading, NEW c \in Answered({"olderMore"}), calls' = calls \ {c},
         OlderPageArrives(c), restored' = restored
  PROVE  Loading'
<1>1. c \in calls /\ c.kind = "olderMore" /\ c.got # Waiting /\ c \notin FirstCalls
  BY DEF Answered, FirstCalls
<1>2. derailed' = derailed
  BY DEF OlderPageArrives
<1>3. CASE ~Current(c)
  <2>1. UNCHANGED <<list, at>>
    BY <1>3 DEF OlderPageArrives
  <2> QED BY <1>1, <1>2, <2>1, LoadingHears
<1>4. ASSUME Current(c) PROVE c \in PageCalls
  BY <1>1, <1>4 DEF PageCalls
<1>5. CASE Current(c) /\ c.got = Failed
  <2>1. NotBackfilled
    BY <1>5 DEF OlderPageArrives
  <2> QED BY <1>2, <1>4, <1>5, <2>1, NotBackfilledLoads
<1>6. CASE Current(c) /\ c.got # Failed
  <2> DEFINE data == Backfilled(list.data, c.hasOlder)
  <2>1. at' = [at EXCEPT !.offset = c.offset] /\ Extend(c, data)
    BY <1>6 DEF OlderPageArrives
  <2>2. c.hasOlder \in BOOLEAN
    BY <1>1, CallFields
  <2>3. list.data # NoData => data \in Data /\ data.items = list.data.items
                                /\ data.searching = list.data.searching
    BY <2>2, HaveData DEF TInv, Data, Backfilled
  <2> HIDE DEF data
  <2> QED BY <1>1, <1>2, <1>4, <1>6, <2>1, <2>3, ExtendLoads
<1> QED BY <1>3, <1>5, <1>6

LEMMA DeliverLoads ==
  ASSUME TInv, Loading, Deliver, restored' = restored
  PROVE  Loading'
<1>1. ASSUME NEW c \in Answered({"list", "search"}), calls' = calls \ {c}, FirstPageArrives(c)
      PROVE  Loading'
  BY <1>1, FirstPageLoads
<1>2. ASSUME NEW c \in Answered({"more"}), calls' = calls \ {c}, MoreArrives(c)
      PROVE  Loading'
  BY <1>2, MoreLoads
<1>3. ASSUME NEW c \in Answered({"searchMore"}), calls' = calls \ {c}, MoreSearchArrives(c)
      PROVE  Loading'
  BY <1>3, MoreSearchLoads
<1>4. ASSUME NEW c \in Answered({"older"}), OlderArrives(c)
      PROVE  Loading'
  BY <1>4, OlderLoads
<1>5. ASSUME NEW c \in Answered({"olderMore"}), calls' = calls \ {c}, OlderPageArrives(c)
      PROVE  Loading'
  BY <1>5, OlderPageLoads
<1> QED BY <1>1, <1>2, <1>3, <1>4, <1>5 DEF Deliver

\* A step that leaves list and loads alone.
LEMMA LoadingApart ==
  ASSUME Loading, UNCHANGED <<list, at, derailed, restored>>,
         \A c \in calls' \ calls : c.kind \in {"ids", "delete", "undo"},
         \A c \in calls \ calls' : c.kind \in {"ids", "delete", "undo"}
  PROVE  Loading'
<1>1. FirstCalls' = FirstCalls /\ PageCalls' = PageCalls
  BY SameCalls
<1> QED BY <1>1, LoadingSame

LEMMA NavigationLoads ==
  ASSUME TInv, Loading, restored' = restored,
         (\E place \in Place : Choose(place)) \/ (\E query \in Query \cup {NoQuery} : Type(query))
           \/ Refresh
  PROVE  Loading'
<1>1. ASSUME NEW place \in Place, Choose(place) PROVE Loading'
  <2>1. CASE place # bar.place
    BY <1>1, <2>1, LoadListLoads DEF Choose
  <2>2. CASE place = bar.place
    <3>1. UNCHANGED <<list, at, calls, derailed>>
      BY <1>1, <2>2 DEF Choose
    <3> QED BY <3>1, LoadingApart
  <2> QED BY <2>1, <2>2
<1>2. ASSUME NEW query \in Query \cup {NoQuery}, Type(query) PROVE Loading'
  BY <1>2, LoadListLoads, RunSearchLoads DEF Type
<1>3. CASE Refresh
  BY <1>3, LoadListLoads DEF Refresh
<1> QED BY <1>1, <1>2, <1>3

LEMMA LoadsLoad ==
  ASSUME TInv, Loading, Loads
  PROVE  Loading'
<1>1. restored' = restored
  BY DEF Loads, window
<1>2. CASE Read \/ FetchOlder \/ FetchOlderUnreachable \/ CallFails
  <2>1. UNCHANGED <<list, at, derailed>>
    BY <1>2 DEF Read, FetchOlder, FetchOlderUnreachable, CallFails
  <2>2. PICK c, got : c \in calls /\ Reply(c, got)
    BY <1>2 DEF Read, FetchOlder, FetchOlderUnreachable, CallFails, Unanswered
  <2> QED BY <1>1, <2>1, <2>2, LoadingReply
<1>3. CASE \E m \in Id : Arrive(m) \/ Drop(m)
  <2>1. UNCHANGED <<list, at, derailed, calls>>
    BY <1>3 DEF Arrive, Drop
  <2> QED BY <1>1, <2>1, LoadingApart
<1> QED BY <1>1, <1>2, <1>3, NavigationLoads, ScrollLoads, LoadOlderLoads, DeliverLoads
        DEF Loads, World

\* What the user picks, opens, deletes and restores asks for no other list.
LEMMA UserLoads ==
  ASSUME TInv, Loading, User
  PROVE  Loading'
<1>1. CASE Move
  <2>1. restored' = restored
    BY <1>1 DEF Move
  <2> QED BY <1>1, <2>1, NavigationLoads DEF Move
<1>2. CASE (\E ms \in SUBSET ToSet(Rows) : Pick(ms)) \/ (\E m \in Id : Open(m))
  <2>1. UNCHANGED <<list, at, derailed, restored, calls>>
    BY <1>2 DEF Pick, Open
  <2> QED BY <2>1, LoadingApart
<1>3. CASE ExpandSelection
  <2>1. UNCHANGED <<list, at, derailed, restored>>
    BY <1>3 DEF ExpandSelection, window
  <2>2. \A c \in calls' \ calls : c.kind \in {"ids", "delete", "undo"}
    BY <1>3, CallKind DEF ExpandSelection
  <2>3. calls \subseteq calls'
    BY <1>3 DEF ExpandSelection
  <2> QED BY <2>1, <2>2, <2>3, LoadingApart
<1>4. ASSUME NEW ms, Delete(ms) PROVE Loading'
  <2>1. UNCHANGED <<list, at, derailed, restored>>
    BY <1>4 DEF Delete
  <2>2. \A c \in calls' \ calls : c.kind \in {"ids", "delete", "undo"}
    BY <1>4, CallKind DEF Delete
  <2>3. calls \subseteq calls'
    BY <1>4 DEF Delete
  <2> QED BY <2>1, <2>2, <2>3, LoadingApart
<1>5. CASE UndoDelete
  <2>1. UNCHANGED <<list, at, derailed, restored>>
    BY <1>5 DEF UndoDelete
  <2>2. \A c \in calls' \ calls : c.kind \in {"ids", "delete", "undo"}
    BY <1>5, CallKind DEF UndoDelete
  <2>3. calls \subseteq calls'
    BY <1>5 DEF UndoDelete
  <2> QED BY <2>1, <2>2, <2>3, LoadingApart
<1> QED BY <1>1, <1>2, <1>3, <1>4, <1>5 DEF User, DeleteOne, DeletePicked

LEMMA AnswersLoad ==
  ASSUME TInv, Loading, Answers
  PROVE  Loading'
<1>1. CASE ReadIds \/ MarkDeletePending \/ ClearDeletePending
  <2>1. UNCHANGED <<list, at, derailed, restored>>
    BY <1>1 DEF ReadIds, MarkDeletePending, ClearDeletePending, window
  <2>2. PICK c, got : c \in calls /\ Reply(c, got)
    BY <1>1 DEF ReadIds, MarkDeletePending, ClearDeletePending, Unanswered
  <2> QED BY <2>1, <2>2, LoadingReply
<1>2. CASE IdsArrive
  <2>1. UNCHANGED <<list, at, derailed, restored>>
    BY <1>2 DEF IdsArrive
  <2>2. PICK c \in calls : calls' = calls \ {c} /\ c.kind = "ids"
    BY <1>2 DEF IdsArrive, Answered
  <2> QED BY <2>1, <2>2, LoadingApart
<1>3. CASE DeleteArrives
  <2>1. PICK c \in Answered({"delete"}) :
          /\ list' = list \/ RemoveFromList(c.of)
          /\ \/ calls' = calls \ {c}
             \/ calls' = (calls \ {c}) \cup {Call("delete", 0, Head(batch.todo), 0)}
          /\ UNCHANGED <<at, derailed, restored>>
    BY <1>3 DEF DeleteArrives, DropDeleted
  <2>2. c.kind = "delete" /\ c.of \in Id
    BY DeleteAnswered
  <2>3. /\ \A d \in calls' \ calls : d.kind \in {"ids", "delete", "undo"}
        /\ \A d \in calls \ calls' : d.kind \in {"ids", "delete", "undo"}
    BY <2>1, <2>2, CallKind
  <2>4. FirstCalls' = FirstCalls /\ PageCalls' = PageCalls
    BY <2>1, <2>3, SameCalls
  <2>5. CASE list' = list
    BY <2>1, <2>4, <2>5, LoadingSame
  <2>6. CASE RemoveFromList(c.of)
    <3>1. /\ list'.status = list.status
          /\ list'.data = NoData <=> list.data = NoData
          /\ list.data # NoData =>
               /\ list'.data.searching = list.data.searching
               /\ ToSet(list'.data.items) \subseteq ToSet(list.data.items)
      BY <2>2, <2>6, Removed DEF TInv
    <3>2. list.data # NoData =>
            ToSet(list'.data.items) \ restored' \subseteq ToSet(list.data.items) \ restored
      BY <2>1, <3>1
    <3> QED BY <2>1, <2>4, <3>1, <3>2, LoadingSame
  <2> QED BY <2>1, <2>5, <2>6
<1>4. CASE UndoArrives
  <2>1. PICK c \in Answered({"undo"}) :
          /\ \/ list' = list /\ restored' = restored
             \/ RestoreToList(c.of) /\ restored' = restored \cup {c.of}
          /\ \/ calls' = calls \ {c}
             \/ calls' = (calls \ {c}) \cup {Call("undo", 0, restoring[2], 0)}
          /\ UNCHANGED <<at, derailed>>
    BY <1>4 DEF UndoArrives
  <2>2. c.kind = "undo" /\ c.of \in Id
    BY UndoAnswered
  <2>3. /\ \A d \in calls' \ calls : d.kind \in {"ids", "delete", "undo"}
        /\ \A d \in calls \ calls' : d.kind \in {"ids", "delete", "undo"}
    BY <2>1, <2>2, CallKind
  <2>4. FirstCalls' = FirstCalls /\ PageCalls' = PageCalls
    BY <2>1, <2>3, SameCalls
  <2>5. CASE list' = list /\ restored' = restored
    BY <2>1, <2>4, <2>5, LoadingSame
  <2>6. CASE RestoreToList(c.of) /\ restored' = restored \cup {c.of}
    <3>1. /\ list'.status = list.status
          /\ list'.data = NoData <=> list.data = NoData
          /\ list.data # NoData =>
               /\ list'.data.searching = list.data.searching
               /\ ToSet(list'.data.items) \subseteq ToSet(list.data.items) \cup {c.of}
      BY <2>2, <2>6, PutBack DEF TInv
    <3>2. list.data # NoData =>
            ToSet(list'.data.items) \ restored' \subseteq ToSet(list.data.items) \ restored
      BY <2>6, <3>1
    <3> QED BY <2>1, <2>4, <3>1, <3>2, LoadingSame
  <2> QED BY <2>1, <2>5, <2>6
<1> QED BY <1>1, <1>2, <1>3, <1>4 DEF Answers

LEMMA NextLoads == TInv /\ Loading /\ [Next]_vars => Loading'
<1> SUFFICES ASSUME TInv, Loading, [Next]_vars PROVE Loading'
  OBVIOUS
<1>1. CASE UNCHANGED vars
  <2>1. UNCHANGED <<list, at, derailed, calls, restored>>
    BY <1>1 DEF vars, listVars, window
  <2> QED BY <2>1, LoadingApart
<1> QED BY <1>1, UserLoads, LoadsLoad, AnswersLoad DEF Next

LEMMA InitLoads == Init => Loading
<1> SUFFICES ASSUME Init PROVE Loading
  OBVIOUS
<1> DEFINE c == Call("list", 1, Start, 0)
<1>1. /\ calls = {c} /\ list.status = "loading"
      /\ at.search = NoQuery /\ at.place = Start /\ at.generation = 1
  BY DEF Init, ListInit
<1>2. c.kind = "list" /\ c.generation = 1 /\ c.of = Start
  BY DEF Call
<1> HIDE DEF c
<1>3. FirstCalls = {c} /\ PageCalls = {}
  BY <1>1, <1>2 DEF FirstCalls, PageCalls, Current
<1>4. ForNow(c)
  BY <1>1, <1>2 DEF ForNow, Searches
<1> QED BY <1>1, <1>3, <1>4 DEF Loading

\* Once nothing is on its way, the list shows what was asked for last: an
\* answer to an earlier load, page, search or backfill never ends up under the
\* name of a later one.
THEOREM LastLoadShown == Spec => []LastLoadWins
<1>1. Spec => []TInv
  BY InitTypes, NextTypes, PTL DEF Spec
<1>2. Spec => [](TInv /\ Loading)
  BY <1>1, InitLoads, NextLoads, PTL DEF Spec
<1> QED BY <1>2, LoadingMeans, PTL

=============================================================================
