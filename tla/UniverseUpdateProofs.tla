------------------------ MODULE UniverseUpdateProofs ------------------------
(***************************************************************************)
(* Proofs about UniverseUpdate, for every set of invocations, security     *)
(* file, list, index file and number of seconds.  An invocation that no    *)
(* other overlapped owns the disk while it runs, and one that shares it    *)
(* owns its entry of the history unless another run has its very stamp;    *)
(* the inductive invariant says so step by step.                           *)
(***************************************************************************)
EXTENDS UniverseUpdate, SumProofs

-------------------------------------------------------------------------------
(* Ranked *)

\* Keys that differ give each row a place of its own.
LEMMA RankedIs ==
    ASSUME NEW S, IsFiniteSet(S), NEW key, \A i \in S : key[i] \in Nat,
           \A i, j \in S : key[i] = key[j] => i = j
    PROVE  /\ Ranked(S, key) \in [1 .. Cardinality(S) -> S]
           /\ \A k, l \in 1 .. Cardinality(S) : Ranked(S, key)[k] = Ranked(S, key)[l] => k = l
<1> DEFINE below(i) == {j \in S : key[j] < key[i]}
           n == Cardinality(S)
           rank == [i \in S |-> Cardinality(below(i))]
<1>1. n \in Nat /\ IsFiniteSet(0 .. n - 1) /\ Cardinality(0 .. n - 1) = n
  <2>1. Cardinality(S) \in Nat
    BY FS_CardinalityType
  <2>2. 0 \in Int /\ n - 1 \in Int
    BY <2>1
  <2> HIDE DEF n
  <2>3. IsFiniteSet(0 .. n - 1) /\ Cardinality(0 .. n - 1) = IF 0 > n - 1 THEN 0 ELSE n - 1 - 0 + 1
    BY <2>2, FS_Interval
  <2>4. n \in Nat
    BY <2>1 DEF n
  <2> QED
    BY <2>3, <2>4
<1>2. \A i \in S : below(i) \in SUBSET S /\ below(i) # S
  OBVIOUS
<1>3. \A i \in S : /\ IsFiniteSet(below(i)) /\ rank[i] \in Nat
                   /\ rank[i] < n
  <2> SUFFICES ASSUME NEW i \in S
               PROVE  IsFiniteSet(below(i)) /\ rank[i] \in Nat /\ rank[i] < n
    OBVIOUS
  <2>1. below(i) \in SUBSET S /\ below(i) # S /\ rank[i] = Cardinality(below(i))
    BY <1>2
  <2> HIDE DEF below, rank
  <2>2. IsFiniteSet(below(i)) /\ Cardinality(below(i)) <= n /\ Cardinality(below(i)) # n
    BY <2>1, FS_Subset
  <2>3. Cardinality(below(i)) \in Nat
    BY <2>2, FS_CardinalityType
  <2> QED
    BY <1>1, <2>1, <2>2, <2>3
<1>4. ASSUME NEW i \in S, NEW j \in S, key[i] < key[j] PROVE rank[i] # rank[j]
  <2>1. below(i) \in SUBSET below(j) /\ i \in below(j) /\ i \notin below(i)
    BY <1>4
  <2>2. IsFiniteSet(below(j)) /\ rank[i] = Cardinality(below(i)) /\ rank[j] = Cardinality(below(j))
    BY <1>3
  <2> HIDE DEF below, rank
  <2> QED
    BY <2>1, <2>2, FS_Subset
<1>5. rank \in Injection(S, 0 .. n - 1)
  <2>1. rank \in [S -> 0 .. n - 1]
    <3>1. \A i \in S : rank[i] \in 0 .. n - 1
      <4>1. n \in Nat /\ \A i \in S : rank[i] \in Nat /\ rank[i] < n
        BY <1>1, <1>3, Zenon
      <4> HIDE DEF rank, n
      <4> QED
        BY <4>1
    <3>2. rank = [i \in S |-> rank[i]]
      OBVIOUS
    <3> HIDE DEF rank
    <3> QED
      BY <3>1, <3>2
  <2>2. \A i, j \in S : rank[i] = rank[j] => i = j
    <3> HIDE DEF rank
    <3> QED
      BY <1>4
  <2> HIDE DEF rank, n
  <2> QED
    BY <2>1, <2>2, Zenon DEF Injection, IsInjective
<1>6. rank \in Surjection(S, 0 .. n - 1)
  <2>1. Cardinality(S) = Cardinality(0 .. n - 1)
    BY <1>1
  <2> HIDE DEF rank, n
  <2> QED
    BY <1>1, <1>5, <2>1, FS_Injection
<1>7. ASSUME NEW k \in 1 .. n
      PROVE  Ranked(S, key)[k] \in S /\ rank[Ranked(S, key)[k]] = k - 1
  <2>1. \E i \in S : rank[i] = k - 1
    <3>1. k - 1 \in 0 .. n - 1
      BY <1>1
    <3> HIDE DEF rank, n
    <3> QED
      BY <1>6, <3>1 DEF Surjection
  <2>2. \E i \in S : Cardinality(below(i)) = k - 1
    BY <2>1
  <2>3. Ranked(S, key)[k] = CHOOSE i \in S : Cardinality(below(i)) = k - 1
    BY DEF Ranked
  <2>4. Ranked(S, key)[k] \in S /\ Cardinality(below(Ranked(S, key)[k])) = k - 1
    <3> HIDE DEF below
    <3> QED
      BY <2>2, <2>3
  <2> QED
    BY <2>4
<1>8. Ranked(S, key) \in [1 .. n -> S]
  <2>1. Ranked(S, key) = [k \in 1 .. n |-> CHOOSE i \in S : Cardinality(below(i)) = k - 1]
    BY Zenon DEF Ranked
  <2>2. \A k \in 1 .. n : Ranked(S, key)[k] \in S
    BY <1>7
  <2> HIDE DEF n, below
  <2> QED
    BY <2>1, <2>2
<1> HIDE DEF rank
<1> QED
  BY <1>1, <1>7, <1>8

-------------------------------------------------------------------------------
(* The rows a list names, and the order of the rows of one symbol *)

\* The numbers of the mainboard series, and whose rows are the mainboard's.
LEMMA RankIs ==
    /\ ToSet(Preference) = {"EQ", "BE", "BZ"}
    /\ Rank("EQ") = 1 /\ Rank("BE") = 2 /\ Rank("BZ") = 3
<1>1. DOMAIN Preference = 1 .. 3 /\ Preference[1] = "EQ" /\ Preference[2] = "BE" /\ Preference[3] = "BZ"
  BY DEF Preference
<1>2. ToSet(Preference) = {"EQ", "BE", "BZ"}
  BY <1>1 DEF ToSet
<1>3. Rank("EQ") = 1
  BY <1>1 DEF Rank
<1>4. Rank("BE") = 2
  BY <1>1 DEF Rank
<1>5. Rank("BZ") = 3
  BY <1>1 DEF Rank
<1> QED
  BY <1>2, <1>3, <1>4, <1>5

\* The rows of a security file.
LEMMA FileIs ==
    ASSUME NEW file \in Seq(Listing)
    PROVE  /\ DOMAIN file = 1 .. Len(file) /\ Len(file) \in Nat
           /\ IsFiniteSet(DOMAIN file) /\ Cardinality(DOMAIN file) = Len(file)
           /\ \A i \in DOMAIN file : file[i] \in Listing
           /\ MainboardRows(file) = {i \in DOMAIN file : file[i].series # "SM"}
<1>1. DOMAIN file = 1 .. Len(file) /\ Len(file) \in Nat /\ \A i \in DOMAIN file : file[i] \in Listing
  OBVIOUS
<1>2. IsFiniteSet(1 .. Len(file)) /\ Cardinality(1 .. Len(file)) = Len(file)
  <2>1. 1 \in Int /\ Len(file) \in Int
    BY <1>1
  <2>2. /\ IsFiniteSet(1 .. Len(file))
        /\ Cardinality(1 .. Len(file)) = IF 1 > Len(file) THEN 0 ELSE Len(file) - 1 + 1
    BY <2>1, FS_Interval
  <2> QED
    BY <1>1, <2>2
<1>3. MainboardRows(file) = {i \in DOMAIN file : file[i].series # "SM"}
  BY <1>1, RankIs DEF MainboardRows, Listing, Series
<1> QED
  BY <1>1, <1>2, <1>3

\* A list names a row by the symbol or the ISIN of one of its own rows that is
\* no note.
LEMMA HitsAre ==
    ASSUME NEW file, NEW frame, NEW list, \A i \in frame : file[i] \in Listing
    PROVE  Hits(file, frame, Parsed(list)) =
               {i \in frame : \E row \in {x \in ToSet(list.rows) : list.notes => x.sym # 0} :
                   \/ file[i].sym = row.sym
                   \/ file[i].isin = row.isin /\ row.isin # 0}
  BY DEF Hits, Parsed

\* A row excluded is excluded under one category, and is one that a list names.
LEMMA ExcludedOnce ==
    ASSUME NEW file, NEW frame, NEW lists, DOMAIN lists \in SUBSET Nat
    PROVE  LET out == ExcludedBy(file, frame, lists)
           IN  /\ DOMAIN out = DOMAIN lists
               /\ \A c \in DOMAIN lists : out[c] \in SUBSET frame
               /\ \A c, d \in DOMAIN lists : c # d => out[c] \cap out[d] = {}
               /\ UNION {out[c] : c \in DOMAIN out}
                      = UNION {Hits(file, frame, lists[c]) : c \in DOMAIN lists}
<1> DEFINE hits(c) == Hits(file, frame, lists[c])
           out == ExcludedBy(file, frame, lists)
<1>1. out = [c \in DOMAIN lists |-> hits(c) \ UNION {hits(b) : b \in {d \in DOMAIN lists : d < c}}]
  BY DEF ExcludedBy
<1>2. \A c \in DOMAIN lists : hits(c) \in SUBSET frame
  BY DEF Hits
<1> HIDE DEF hits, out
<1>3. DOMAIN out = DOMAIN lists /\ \A c \in DOMAIN lists : out[c] \in SUBSET hits(c)
  BY <1>1
<1>4. ASSUME NEW c \in DOMAIN lists, NEW d \in DOMAIN lists, c < d PROVE out[c] \cap out[d] = {}
  <2>1. out[d] \cap hits(c) = {}
    BY <1>1, <1>4
  <2> QED
    BY <1>3, <2>1
<1>5. ASSUME NEW c \in DOMAIN lists, NEW i \in hits(c) PROVE \E b \in DOMAIN lists : i \in out[b]
  <2> DEFINE T == {d \in DOMAIN lists : i \in hits(d)}
  <2>1. T \in SUBSET Nat /\ T # {}
    BY <1>5
  <2> HIDE DEF T
  <2>2. PICK b \in T : \A d \in T : b <= d
    BY <2>1, LeastNumber
  <2>3. b \in DOMAIN lists /\ i \in hits(b) /\ \A d \in DOMAIN lists : d < b => i \notin hits(d)
    BY <2>1, <2>2 DEF T
  <2>4. i \in out[b]
    BY <1>1, <2>3
  <2> QED
    BY <2>3, <2>4
<1>6. UNION {out[c] : c \in DOMAIN out} = UNION {hits(c) : c \in DOMAIN lists}
  BY <1>3, <1>5
<1>7. \A c, d \in DOMAIN lists : c # d => out[c] \cap out[d] = {}
  BY <1>4
<1> QED
  BY <1>2, <1>3, <1>6, <1>7 DEF out, hits

\* One row of each symbol is kept, the first in the order of the sort.
LEMMA DeduplicatedIs ==
    ASSUME NEW file \in Seq(Listing), NEW frame \in SUBSET MainboardRows(file)
    PROVE  LET kept == Deduplicated(file, frame)
           IN  /\ kept \in SUBSET frame
               /\ \A j \in frame : \E i \in kept : file[i].sym = file[j].sym
               /\ \A i \in kept, j \in frame :
                     file[i].sym = file[j].sym =>
                         /\ Rank(file[i].series) <= Rank(file[j].series)
                         /\ j \in kept => i = j
<1> DEFINE kept == Deduplicated(file, frame)
           n == Len(file) + 1
           key(i) == Rank(file[i].series) * n + i
<1>1. /\ n \in Nat
      /\ \A i \in frame : /\ i \in 1 .. n - 1 /\ file[i].series \in {"EQ", "BE", "BZ"}
                          /\ Rank(file[i].series) \in 1 .. 3
  BY FileIs, RankIs DEF MainboardRows
<1>2. \A i, j \in frame : Rank(file[i].series) = Rank(file[j].series) => file[i].series = file[j].series
  BY <1>1, RankIs
<1> HIDE DEF n
<1>3. \A i, j \in frame : ~ Before(file, j, i) => key(i) <= key(j)
  <2> SUFFICES ASSUME NEW i \in frame, NEW j \in frame, ~ Before(file, j, i)
               PROVE  key(i) <= key(j)
    OBVIOUS
  <2>1. \/ Rank(file[i].series) = Rank(file[j].series) /\ i <= j
        \/ Rank(file[i].series) < Rank(file[j].series)
    BY <1>1, <1>2 DEF Before
  <2> DEFINE a == Rank(file[i].series) b == Rank(file[j].series)
  <2>2. a \in 1 .. 3 /\ b \in 1 .. 3 /\ i \in 1 .. n - 1 /\ j \in 1 .. n - 1
    BY <1>1
  <2>3. (a = b /\ i <= j) \/ a < b
    BY <2>1
  <2> HIDE DEF a, b
  <2>4. a * n + i <= b * n + j
    BY <1>1, <2>2, <2>3
  <2> QED
    BY <2>4 DEF a, b
<1>4. ASSUME NEW j \in frame PROVE \E i \in kept : file[i].sym = file[j].sym
  <2> DEFINE same == {i \in frame : file[i].sym = file[j].sym}
             T == {key(i) : i \in same}
  <2>1. T \in SUBSET Nat /\ T # {}
    <3>1. \A i \in frame : key(i) \in Nat
      BY <1>1
    <3> HIDE DEF key
    <3> QED
      BY <3>1
  <2>2. PICK m \in T : \A k \in T : m <= k
    <3> HIDE DEF T
    <3> QED
      BY <2>1, LeastNumber
  <2>3. PICK i \in same : key(i) = m
    BY <2>2
  <2>4. ASSUME NEW k \in same, Before(file, k, i) PROVE FALSE
    <3>1. key(i) <= key(k)
      BY <2>2, <2>3
    <3> DEFINE a == Rank(file[i].series) b == Rank(file[k].series)
    <3>2. a \in 1 .. 3 /\ b \in 1 .. 3 /\ i \in 1 .. n - 1 /\ k \in 1 .. n - 1
      BY <1>1
    <3>3. b < a \/ (a = b /\ k < i)
      BY <2>4 DEF Before
    <3>4. a * n + i <= b * n + k
      BY <3>1
    <3> HIDE DEF a, b
    <3> QED
      BY <1>1, <3>2, <3>3, <3>4
  <2>5. i \in kept
    BY <2>4 DEF Deduplicated
  <2> QED
    BY <2>5
<1>5. ASSUME NEW i \in kept, NEW j \in frame, file[i].sym = file[j].sym
      PROVE  Rank(file[i].series) <= Rank(file[j].series) /\ (j \in kept => i = j)
  <2>1. i \in frame /\ ~ Before(file, j, i) /\ (j \in kept => ~ Before(file, i, j))
    BY <1>5 DEF Deduplicated
  <2> QED
    BY <1>1, <1>2, <2>1 DEF Before
<1>6. kept \in SUBSET frame
  BY DEF Deduplicated
<1> QED
  BY <1>4, <1>5, <1>6

-------------------------------------------------------------------------------
(* The diagnostics *)

\* A total of counts is a sum over what is counted.
LEMMA TotalIs ==
    ASSUME NEW counts
    PROVE  FoldFunction(+, 0, counts) = SumFunctionOnSet(counts, DOMAIN counts)
  BY Zenon DEF FoldFunction, SumFunctionOnSet

\* Counts of rows by what the rows have in common add up to the rows.
LEMMA TallyAddsUp ==
    ASSUME NEW rows, IsFiniteSet(rows), NEW D, IsFiniteSet(D), NEW A, NEW counts,
           counts = [d \in D |-> Cardinality(A[d])],
           \A d \in D : A[d] \in SUBSET rows,
           \A c, d \in D : c # d => A[c] \cap A[d] = {},
           \A i \in rows : \E d \in D : i \in A[d]
    PROVE  FoldFunction(+, 0, counts) = Cardinality(rows)
<1>1. FoldFunction(+, 0, counts) = SumFunctionOnSet(counts, D)
  <2>1. DOMAIN counts = D
    OBVIOUS
  <2> QED
    BY <2>1, TotalIs, Zenon
<1>2. \A d \in D : IsFiniteSet(A[d])
  BY FS_Subset
<1>3. SumFunctionOnSet(counts, D) = Cardinality(UNION {A[d] : d \in D})
  <2>1. \A d \in D : counts[d] = Cardinality(A[d])
    OBVIOUS
  <2> QED
    BY <1>2, <2>1, SumOfSizes
<1>4. UNION {A[d] : d \in D} = rows
  OBVIOUS
<1> QED
  BY <1>1, <1>3, <1>4

\* The rows of the file by series.
LEMMA SeriesAddUp ==
    ASSUME NEW file \in Seq(Listing), NEW frame, NEW out, NEW kept
    PROVE  LET shown == Diagnostics(file, frame, out, kept)
           IN  shown.raw = Len(file) /\ FoldFunction(+, 0, shown.series) = Len(file)
<1> DEFINE D == {file[i].series : i \in DOMAIN file}
           A == [x \in D |-> {i \in DOMAIN file : file[i].series = x}]
           counts == [x \in D |-> Cardinality({i \in DOMAIN file : file[i].series = x})]
<1>1. /\ IsFiniteSet(DOMAIN file) /\ Cardinality(DOMAIN file) = Len(file)
      /\ \A i \in DOMAIN file : file[i].series \in Series
  BY FileIs DEF Listing
<1>2. IsFiniteSet(D)
  <2>1. IsFiniteSet(Series)
    <3>1. IsFiniteSet({"EQ"}) /\ Series = (({"EQ"} \cup {"BE"}) \cup {"BZ"}) \cup {"SM"}
      BY FS_Singleton DEF Series
    <3> QED
      BY <3>1, FS_AddElement
  <2>2. D \in SUBSET Series
    BY <1>1
  <2> HIDE DEF D
  <2> QED
    BY <2>1, <2>2, FS_Subset
<1>3. /\ counts = [x \in D |-> Cardinality(A[x])]
      /\ \A x \in D : A[x] \in SUBSET DOMAIN file
      /\ \A x, y \in D : x # y => A[x] \cap A[y] = {}
      /\ \A i \in DOMAIN file : \E x \in D : i \in A[x]
  OBVIOUS
<1>4. FoldFunction(+, 0, counts) = Cardinality(DOMAIN file)
  <2> DEFINE rows == DOMAIN file
  <2>1. IsFiniteSet(rows)
    BY <1>1
  <2>2. /\ \A x \in D : A[x] \in SUBSET rows
        /\ \A x, y \in D : x # y => A[x] \cap A[y] = {}
        /\ \A i \in rows : \E x \in D : i \in A[x]
    BY <1>3
  <2>3. counts = [x \in D |-> Cardinality(A[x])]
    BY <1>3
  <2> HIDE DEF D, A, counts, rows
  <2>4. FoldFunction(+, 0, counts) = Cardinality(rows)
    BY <1>2, <2>1, <2>2, <2>3, TallyAddsUp, Zenon
  <2> QED
    BY <2>4 DEF rows
<1>5. /\ Diagnostics(file, frame, out, kept).raw = Len(file)
      /\ Diagnostics(file, frame, out, kept).series = counts
  BY DEF Diagnostics
<1> HIDE DEF counts
<1> QED
  BY <1>1, <1>4, <1>5, Zenon

\* The excluded rows by category.
LEMMA CategoriesAddUp ==
    ASSUME NEW file, NEW frame, IsFiniteSet(frame), NEW out, NEW kept,
           IsFiniteSet(DOMAIN out),
           \A c \in DOMAIN out : out[c] \in SUBSET frame,
           \A c, d \in DOMAIN out : c # d => out[c] \cap out[d] = {}
    PROVE  LET shown == Diagnostics(file, frame, out, kept)
           IN  /\ shown.excluded = Cardinality(UNION {out[c] : c \in DOMAIN out})
               /\ FoldFunction(+, 0, shown.byCategory) = shown.excluded
<1> DEFINE D == {d \in DOMAIN out : out[d] # {}}
           rows == UNION {out[c] : c \in DOMAIN out}
           counts == [c \in D |-> Cardinality(out[c])]
<1>1. IsFiniteSet(rows) /\ IsFiniteSet(D)
  <2>1. rows \in SUBSET frame /\ D \in SUBSET DOMAIN out
    OBVIOUS
  <2> HIDE DEF rows, D
  <2> QED
    BY <2>1, FS_Subset
<1>2. /\ \A c \in D : out[c] \in SUBSET rows
      /\ \A c, d \in D : c # d => out[c] \cap out[d] = {}
      /\ \A i \in rows : \E c \in D : i \in out[c]
  OBVIOUS
<1>3. FoldFunction(+, 0, counts) = Cardinality(rows)
  <2> HIDE DEF D, rows
  <2> QED
    BY <1>1, <1>2, TallyAddsUp, Zenon
<1>4. /\ Diagnostics(file, frame, out, kept).excluded = Cardinality(rows)
      /\ Diagnostics(file, frame, out, kept).byCategory = counts
  BY DEF Diagnostics
<1> HIDE DEF counts
<1> QED
  BY <1>3, <1>4, Zenon

\* The dropped rows by reason.
LEMMA ReasonsAddUp ==
    ASSUME NEW file, NEW frame, IsFiniteSet(frame), NEW out, NEW kept
    PROVE  LET shown == Diagnostics(file, frame, out, kept)
           IN  /\ shown.dropped = Cardinality((frame \ UNION {out[c] : c \in DOMAIN out}) \ kept)
               /\ FoldFunction(+, 0, shown.reasons) = shown.dropped
<1> DEFINE dropped == (frame \ UNION {out[c] : c \in DOMAIN out}) \ kept
           reason(i) == DedupReason(file, i, CHOOSE j \in kept : file[j].sym = file[i].sym)
           D == {reason(i) : i \in dropped}
           A == [w \in D |-> {i \in dropped : reason(i) = w}]
           counts == [w \in D |-> Cardinality({i \in dropped : reason(i) = w})]
           Words == {"SERIES_PREFERENCE_EQ_OVER_BE"}
                        \cup {"DUPLICATE_ROW_SAME_SERIES_ROW_ORDER_TIEBREAK"}
<1>1. IsFiniteSet(dropped)
  <2>1. dropped \in SUBSET frame
    OBVIOUS
  <2> HIDE DEF dropped
  <2> QED
    BY <2>1, FS_Subset
<1>2. IsFiniteSet(D)
  <2>1. IsFiniteSet(Words)
    <3>1. IsFiniteSet({"SERIES_PREFERENCE_EQ_OVER_BE"})
      BY FS_Singleton
    <3> QED
      BY <3>1, FS_AddElement
  <2>2. D \in SUBSET Words
    <3>1. \A i \in dropped : reason(i) \in Words
      BY DEF DedupReason
    <3> HIDE DEF reason, dropped, Words
    <3> QED
      BY <3>1
  <2> HIDE DEF D, Words
  <2> QED
    BY <2>1, <2>2, FS_Subset
<1>3. /\ counts = [w \in D |-> Cardinality(A[w])]
      /\ \A w \in D : A[w] \in SUBSET dropped
      /\ \A v, w \in D : v # w => A[v] \cap A[w] = {}
      /\ \A i \in dropped : \E w \in D : i \in A[w]
  <2> HIDE DEF reason, dropped
  <2> QED
    OBVIOUS
<1>4. FoldFunction(+, 0, counts) = Cardinality(dropped)
  <2> HIDE DEF D, A, counts, dropped
  <2> QED
    BY <1>1, <1>2, <1>3, TallyAddsUp, Zenon
<1>5. /\ Diagnostics(file, frame, out, kept).dropped = Cardinality(dropped)
      /\ Diagnostics(file, frame, out, kept).reasons = counts
  BY DEF Diagnostics
<1> HIDE DEF counts, dropped
<1> QED
  BY <1>4, <1>5, Zenon DEF dropped

-------------------------------------------------------------------------------
(* The funnel *)

\* The constituents are rows of the file, each with a symbol of its own.
LEMMA ConstituentsAre ==
    ASSUME NEW file \in Seq(Listing), NEW kept \in SUBSET DOMAIN file,
           \A i, j \in kept : file[i].sym = file[j].sym => i = j
    PROVE  LET frame == Constituents(file, kept)
           IN  /\ frame \in Seq(Listing)
               /\ \A k, l \in DOMAIN frame : frame[k].sym = frame[l].sym => k = l
<1> DEFINE key == [i \in kept |-> file[i].sym]
           rows == Ranked(kept, key)
           n == Cardinality(kept)
           frame == Constituents(file, kept)
<1>1. \A i \in DOMAIN file : file[i] \in Listing
  BY FileIs
<1>2. n \in Nat /\ IsFiniteSet(kept)
  <2>1. IsFiniteSet(DOMAIN file)
    BY FileIs
  <2>2. IsFiniteSet(kept)
    BY <2>1, FS_Subset
  <2> QED
    BY <2>2, FS_CardinalityType
<1>3. rows \in [1 .. n -> kept] /\ \A k, l \in 1 .. n : rows[k] = rows[l] => k = l
  <2>1. /\ \A i \in kept : key[i] \in Nat
        /\ \A i, j \in kept : key[i] = key[j] => i = j
    BY <1>1 DEF Listing
  <2> HIDE DEF key
  <2> QED
    BY <1>2, <2>1, RankedIs, Zenon DEF rows, n
<1>4. frame = [k \in 1 .. n |-> file[rows[k]]]
  BY Zenon DEF Constituents
<1> HIDE DEF rows, n, frame, key
<1>5. frame \in [1 .. n -> Listing] /\ DOMAIN frame = 1 .. n
  BY <1>1, <1>3, <1>4
<1>6. frame \in Seq(Listing)
  BY <1>2, <1>5
<1>7. \A k, l \in DOMAIN frame : frame[k].sym = frame[l].sym => k = l
  BY <1>3, <1>4, <1>5
<1> QED
  BY <1>6, <1>7 DEF frame

\* The constituents stand for the rows no list names, and the diagnostics add up.
Accounts(file, failed) ==
    LET fetched == UNION {{row \in ToSet(Lists[c].rows) : Lists[c].notes => row.sym # 0} :
                             c \in DOMAIN Lists \ failed}
        named  == {i \in DOMAIN file : \E row \in fetched :
                      \/ file[i].sym = row.sym
                      \/ file[i].isin = row.isin /\ row.isin # 0}
        equity == {i \in DOMAIN file : file[i].series # "SM"} \ named
        kept   == Funnel(file, failed).kept
        shown  == Funnel(file, failed).diagnostics
        frame  == Funnel(file, failed).constituents
    IN  /\ kept \in SUBSET equity
        /\ \A j \in equity : \E i \in kept : file[i].sym = file[j].sym
        /\ \A i \in kept, j \in equity :
              file[i].sym = file[j].sym =>
                  /\ Rank(file[i].series) <= Rank(file[j].series)
                  /\ j \in kept => i = j
        /\ FoldFunction(+, 0, shown.series) = shown.raw
        /\ shown.raw = Len(file) /\ shown.final = Cardinality(kept)
        /\ shown.mainboard = shown.excluded + shown.final + shown.dropped
        /\ FoldFunction(+, 0, shown.byCategory) = shown.excluded
        /\ FoldFunction(+, 0, shown.reasons) = shown.dropped
        /\ frame \in Seq(Listing)
        /\ \A k, l \in DOMAIN frame : frame[k].sym = frame[l].sym => k = l

\* What Funnel returns of any security file, whichever lists fail.
LEMMA FunnelIs ==
    ASSUME NEW file \in Seq(Listing), NEW failed \in SUBSET DOMAIN Lists
    PROVE  Accounts(file, failed)
<1> DEFINE rowsOf(c) == {row \in ToSet(Lists[c].rows) : Lists[c].notes => row.sym # 0}
           fetched == UNION {rowsOf(c) : c \in DOMAIN Lists \ failed}
           named == {i \in DOMAIN file : \E row \in fetched :
                        \/ file[i].sym = row.sym
                        \/ file[i].isin = row.isin /\ row.isin # 0}
           equity == {i \in DOMAIN file : file[i].series # "SM"} \ named
           frame == MainboardRows(file)
           lists == FetchAll(failed)
           out == ExcludedBy(file, frame, lists)
           gone == UNION {out[c] : c \in DOMAIN out}
           kept == Deduplicated(file, frame \ gone)
           shown == Diagnostics(file, frame, out, kept)
           dropped == (frame \ gone) \ kept
<1>1. /\ Funnel(file, failed).kept = kept
      /\ Funnel(file, failed).constituents = Constituents(file, kept)
      /\ Funnel(file, failed).diagnostics = shown
  BY DEF Funnel, Outcome
<1>2. /\ frame = {i \in DOMAIN file : file[i].series # "SM"}
      /\ \A i \in frame : file[i] \in Listing
      /\ IsFiniteSet(DOMAIN file)
      /\ frame \in SUBSET DOMAIN file
  BY FileIs
<1>3. IsFiniteSet(frame)
  <2> HIDE DEF frame
  <2> QED
    BY <1>2, FS_Subset
<1>4. /\ DOMAIN lists = DOMAIN Lists \ failed
      /\ DOMAIN lists \in SUBSET Nat /\ IsFiniteSet(DOMAIN lists)
      /\ \A c \in DOMAIN lists : lists[c] = Parsed(Lists[c])
  <2>1. DOMAIN Lists = 1 .. Len(Lists) /\ Len(Lists) \in Nat
    BY ListsAssumption
  <2>2. DOMAIN lists = DOMAIN Lists \ failed /\ \A c \in DOMAIN lists : lists[c] = Parsed(Lists[c])
    BY DEF FetchAll
  <2>3. 1 \in Int /\ Len(Lists) \in Int
    BY <2>1
  <2>4. IsFiniteSet(1 .. Len(Lists))
    BY <2>3, FS_Interval
  <2>5. DOMAIN lists \in SUBSET (1 .. Len(Lists)) /\ DOMAIN lists \in SUBSET Nat
    BY <2>1, <2>2
  <2> HIDE DEF lists
  <2>6. IsFiniteSet(DOMAIN lists)
    BY <2>4, <2>5, FS_Subset
  <2> QED
    BY <2>2, <2>5, <2>6
<1> HIDE DEF lists, frame
<1>5. /\ DOMAIN out = DOMAIN lists
      /\ \A c \in DOMAIN out : out[c] \in SUBSET frame
      /\ \A c, d \in DOMAIN out : c # d => out[c] \cap out[d] = {}
      /\ gone = UNION {Hits(file, frame, lists[c]) : c \in DOMAIN lists}
  BY <1>4, ExcludedOnce
<1>6. \A c \in DOMAIN lists : Hits(file, frame, lists[c]) =
          {i \in frame : \E row \in rowsOf(c) :
              \/ file[i].sym = row.sym
              \/ file[i].isin = row.isin /\ row.isin # 0}
  BY <1>2, <1>4, HitsAre
<1>7. gone = frame \cap named
  <2> DEFINE matches(i, row) == \/ file[i].sym = row.sym
                                \/ file[i].isin = row.isin /\ row.isin # 0
  <2>1. \A i : i \in gone <=> \E c \in DOMAIN lists : i \in Hits(file, frame, lists[c])
    BY <1>5
  <2>2. named = {i \in DOMAIN file : \E row \in fetched : matches(i, row)}
    OBVIOUS
  <2> HIDE DEF rowsOf, gone, matches, named
  <2>3. ASSUME NEW i PROVE i \in gone <=> i \in frame \cap named
    <3>1. i \in gone <=> \E c \in DOMAIN Lists \ failed : i \in frame /\ \E row \in rowsOf(c) : matches(i, row)
      <4>1. \A c \in DOMAIN lists : i \in Hits(file, frame, lists[c])
                <=> i \in frame /\ \E row \in rowsOf(c) : matches(i, row)
        BY <1>6 DEF matches
      <4> QED
        BY <1>4, <2>1, <4>1
    <3>2. i \in frame \cap named <=> i \in frame /\ \E row \in fetched : matches(i, row)
      BY <1>2, <2>2
    <3>3. \A row : row \in fetched <=> \E c \in DOMAIN Lists \ failed : row \in rowsOf(c)
      OBVIOUS
    <3> HIDE DEF fetched
    <3> QED
      BY <3>1, <3>2, <3>3
  <2> QED
    BY <2>3
<1>8. frame \ gone = equity /\ equity \in SUBSET MainboardRows(file)
  <2>1. frame \in SUBSET MainboardRows(file)
    BY DEF frame
  <2> HIDE DEF named, gone
  <2> QED
    BY <1>2, <1>7, <2>1
<1>9. /\ kept \in SUBSET equity
      /\ \A j \in equity : \E i \in kept : file[i].sym = file[j].sym
      /\ \A i \in kept, j \in equity :
            file[i].sym = file[j].sym =>
                /\ Rank(file[i].series) <= Rank(file[j].series)
                /\ j \in kept => i = j
  <2> HIDE DEF equity, gone
  <2> QED
    BY <1>8, DeduplicatedIs
<1>10. FoldFunction(+, 0, shown.series) = shown.raw /\ shown.raw = Len(file)
  <2> HIDE DEF kept, out
  <2>1. shown.raw = Len(file) /\ FoldFunction(+, 0, shown.series) = Len(file)
    BY SeriesAddUp, Zenon
  <2> QED
    BY <2>1, Zenon
<1>11. shown.excluded = Cardinality(gone) /\ FoldFunction(+, 0, shown.byCategory) = shown.excluded
  <2>1. IsFiniteSet(DOMAIN out)
    BY <1>4, <1>5
  <2> HIDE DEF kept, out
  <2> QED
    BY <1>3, <1>5, <2>1, CategoriesAddUp, Zenon
<1>12. shown.dropped = Cardinality(dropped) /\ FoldFunction(+, 0, shown.reasons) = shown.dropped
  <2> HIDE DEF kept, out
  <2> QED
    BY <1>3, ReasonsAddUp, Zenon
<1>13. shown.mainboard = Cardinality(frame) /\ shown.final = Cardinality(kept)
  BY DEF Diagnostics, frame
<1>14. Cardinality(frame) = Cardinality(gone) + Cardinality(kept) + Cardinality(dropped)
  <2> HIDE DEF gone, kept
  <2> DEFINE rest == frame \ gone
  <2>1. gone \in SUBSET frame /\ kept \in SUBSET rest /\ rest \in SUBSET frame
    BY <1>5, <1>8, <1>9 DEF gone
  <2>2. frame = gone \cup rest /\ gone \cap rest = {}
    BY <2>1
  <2>3. rest = kept \cup dropped /\ kept \cap dropped = {} /\ dropped \in SUBSET rest
    BY <2>1
  <2> HIDE DEF rest, dropped
  <2>4. IsFiniteSet(gone) /\ IsFiniteSet(rest)
    BY <1>3, <2>1, FS_Subset
  <2>5. IsFiniteSet(kept) /\ IsFiniteSet(dropped)
    BY <2>1, <2>3, <2>4, FS_Subset
  <2>6. /\ Cardinality(gone) \in Nat /\ Cardinality(rest) \in Nat
        /\ Cardinality(kept) \in Nat /\ Cardinality(dropped) \in Nat
    BY <2>4, <2>5, FS_CardinalityType
  <2>7. Cardinality({}) = 0
    BY FS_EmptySet
  <2>8. Cardinality(frame) = Cardinality(gone) + Cardinality(rest) - Cardinality({})
    BY <2>2, <2>4, FS_Union, Zenon
  <2>9. Cardinality(rest) = Cardinality(kept) + Cardinality(dropped) - Cardinality({})
    BY <2>3, <2>5, FS_Union, Zenon
  <2> QED
    BY <2>6, <2>7, <2>8, <2>9
<1>15. LET f == Constituents(file, kept)
       IN  /\ f \in Seq(Listing)
           /\ \A k, l \in DOMAIN f : f[k].sym = f[l].sym => k = l
  <2>1. kept \in SUBSET DOMAIN file /\ \A i, j \in kept : file[i].sym = file[j].sym => i = j
    BY <1>9
  <2> HIDE DEF kept
  <2> QED
    BY <2>1, ConstituentsAre
<1>16. shown.mainboard = shown.excluded + shown.final + shown.dropped
  <2> HIDE DEF shown, gone, kept, dropped
  <2> QED
    BY <1>11, <1>12, <1>13, <1>14
<1> HIDE DEF kept, shown, equity
<1> DEFINE F == Funnel(file, failed)
<1>17. /\ F.kept \in SUBSET equity
       /\ \A j \in equity : \E i \in F.kept : file[i].sym = file[j].sym
       /\ \A i \in F.kept, j \in equity :
             file[i].sym = file[j].sym =>
                 /\ Rank(file[i].series) <= Rank(file[j].series)
                 /\ j \in F.kept => i = j
  <2> HIDE DEF F
  <2> QED
    BY <1>1, <1>9, Zenon DEF F
<1>18. /\ FoldFunction(+, 0, F.diagnostics.series) = F.diagnostics.raw
       /\ F.diagnostics.raw = Len(file) /\ F.diagnostics.final = Cardinality(F.kept)
       /\ F.diagnostics.mainboard = F.diagnostics.excluded + F.diagnostics.final + F.diagnostics.dropped
       /\ FoldFunction(+, 0, F.diagnostics.byCategory) = F.diagnostics.excluded
       /\ FoldFunction(+, 0, F.diagnostics.reasons) = F.diagnostics.dropped
  BY <1>1, <1>10, <1>11, <1>12, <1>13, <1>16, Zenon
<1>19. /\ F.constituents \in Seq(Listing)
       /\ \A k, l \in DOMAIN F.constituents : F.constituents[k].sym = F.constituents[l].sym => k = l
  BY <1>1, <1>15, Zenon
<1> HIDE DEF F
<1> QED
  BY <1>17, <1>18, <1>19, Zenon DEF Accounts, F, equity, named, fetched, rowsOf

\* The record counts the constituents, none of them twice.
Records(file, kept, age, limit) ==
    LET record == Snapshot(file, kept, age)
    IN  /\ record.count = Cardinality(kept)
        /\ record.count = record.symbols /\ record.duplicates = 0
        /\ record.raw = Len(file) /\ record.age <= limit

\* What Snapshot returns of constituents without a duplicate.
LEMMA SnapshotIs ==
    ASSUME NEW file \in Seq(Listing), NEW kept \in SUBSET DOMAIN file,
           \A i, j \in kept : file[i].sym = file[j].sym => i = j,
           NEW limit \in Nat, NEW age, age = {} \/ \E n \in 0 .. limit : age = {n}
    PROVE  Records(file, kept, age, limit)
<1> DEFINE syms == {file[i].sym : i \in kept}
           twice == {i \in kept : \E j \in kept : j < i /\ file[j].sym = file[i].sym}
           f == [i \in kept |-> file[i].sym]
<1>1. IsFiniteSet(kept) /\ DOMAIN file \in SUBSET Nat
  <2>1. IsFiniteSet(DOMAIN file) /\ DOMAIN file \in SUBSET Nat
    BY FileIs
  <2> QED
    BY <2>1, FS_Subset
<1>2. Cardinality(syms) = Cardinality(kept)
  <2>1. f \in Surjection(kept, syms) /\ f \in Injection(kept, syms)
    BY DEF Surjection, Injection, IsInjective
  <2> HIDE DEF f, syms
  <2> QED
    BY <1>1, <2>1, FS_Surjection
<1>3. Cardinality(twice) = 0
  <2>1. twice = {}
    <3>1. \A i \in kept : i \in Nat
      BY <1>1
    <3>2. \A i, j \in kept : j < i => file[j].sym # file[i].sym
      BY <3>1
    <3> QED
      BY <3>2
  <2> HIDE DEF twice
  <2> QED
    BY <2>1, FS_EmptySet
<1>4. Max(age \cup {0}) <= limit
  <2>1. CASE age = {}
    <3>1. Max({0}) = 0
      BY DEF Max
    <3>2. age \cup {0} = {0}
      BY <2>1
    <3>3. Max(age \cup {0}) = 0
      BY <3>1, <3>2, Zenon
    <3> QED
      BY <3>3
  <2>2. CASE age # {}
    <3>1. PICK n \in 0 .. limit : age = {n}
      BY <2>2
    <3>2. Max({n, 0}) = n
      BY DEF Max
    <3>3. age \cup {0} = {n, 0}
      BY <3>1
    <3>4. Max(age \cup {0}) = n
      BY <3>2, <3>3, Zenon
    <3> QED
      BY <3>4
  <2> QED
    BY <2>1, <2>2
<1> QED
  BY <1>2, <1>3, <1>4 DEF Records, Snapshot

-------------------------------------------------------------------------------
(* The inductive invariant *)

Member == [sym : Nat \ {0}, isin : Nat, series : Series \cup {"none"}]
Outcomes == {NoOutcome} \cup {f.outcome : f \in Funnels}
Ages == {{}} \cup {{n} : n \in 0 .. Lookback}
Found == [age : Ages, file : Files \cup {<<>>}, failed : SUBSET DOMAIN Lists, outcome : Outcomes]
Contents == Runs \cup {NoFile, Torn}
Pair == [members : Runs \cup {NoRun}, record : Runs \cup {NoRun}]
Codes == {"none", "0", "1", "raised", "killed"}

TypeInv ==
    /\ now \in Stamps
    /\ disk \in [Paths -> Contents]
    /\ scope \in [Runs -> Scopes]
    /\ pc \in [Runs -> Steps]
    /\ probe \in [Runs -> Nat]
    /\ funnel \in [Runs -> Found]
    /\ members \in [Runs -> Seq(Member)]
    /\ stamp \in [Runs -> 0 .. LastStamp]
    /\ previous \in [Runs -> Pair]
    /\ drift = [r \in Runs |-> drift[r]]
    /\ code \in [Runs -> Codes]
    /\ mixed \subseteq Runs /\ alone \subseteq Runs /\ newest \in Runs

\* Where a run has no retrieval time yet, and where its members may still change.
Unstamped == {"idle", "discover", "download"}
Searching == Unstamped \cup {"lists", "gate", "index"}
Distinct(frame) == \A i, j \in DOMAIN frame : frame[i].sym = frame[j].sym => i = j

\* What a run has done so far, by its step.
Stage(r) ==
    /\ pc[r] = "idle" => probe[r] = 0
    /\ pc[r] = "discover" => probe[r] < Probes
    /\ pc[r] \in {"lists", "gate"} => funnel[r].file \in Files
    /\ pc[r] = "gate" => funnel[r].outcome = Funnel(funnel[r].file, funnel[r].failed)
    /\ pc[r] \in Unstamped => stamp[r] = 0
    /\ pc[r] \notin Unstamped \cup {"done"} => stamp[r] # 0
    /\ stamp[r] <= now
    /\ code[r] = "none" <=> pc[r] # "done"
    /\ code[r] = "0" => stamp[r] # 0
    /\ r # First => Distinct(members[r])
    /\ pc[r] \in Searching \cup {"compare"} => previous[r] = NoPair

StageInv == pc[First] = "done" /\ stamp[First] = 1 /\ \A r \in Runs : Stage(r)

\* A run that nothing overlapped is the only one at work, and the last to start.
OverlapInv ==
    /\ \A r \in alone : r \in Active => Active = {r} /\ newest = r
    /\ \A r \in Runs : r \notin alone => pc[r] # "idle"
    /\ newest \in alone => Active \subseteq {newest}
    /\ pc[newest] # "idle"

\* Another run overlapped some run too and has the scope and the stamp of r.
Contested(r) ==
    \E q \in Runs : q # r /\ q \notin alone /\ r \notin alone
                    /\ scope[q] = scope[r] /\ stamp[q] = stamp[r] /\ stamp[r] # 0

OpenSteps == {Opened(w) : w \in Writes}

\* Only runs that overlap have one file open together.
MixInv ==
    \A r \in Runs : r \in mixed /\ pc[r] \in OpenSteps =>
        /\ r \notin alone
        /\ pc[r] \in {"members_open", "record_open"} => Contested(r)

\* Files are written by runs whose members are settled, stamped no later than now.
DiskInv ==
    /\ \A p \in Paths : disk[p] \in Runs => pc[disk[p]] \notin Searching
    /\ \A s \in Scopes : \A t \in Listed(s) : t <= now

Entry(r, what) == disk[<<scope[r], what, stamp[r]>>]

\* What a run that writes its entry finds of it on the disk.
EntryInv ==
    \A r \in Runs : ~ Contested(r) =>
        /\ pc[r] = "members" => Entry(r, "members") = NoFile /\ Entry(r, "record") = NoFile
        /\ pc[r] = "members_open" => Entry(r, "members") = Torn /\ Entry(r, "record") = NoFile
        /\ pc[r] = "record" => Entry(r, "members") = r /\ Entry(r, "record") = NoFile
        /\ pc[r] = "record_open" => Entry(r, "members") = r /\ Entry(r, "record") = Torn

EntrySteps == {"members", "members_open", "record", "record_open"}
LatestSteps == {"latest_record", "latest_record_open", "latest_members", "latest_members_open", "append"}

\* What the newest run, if nothing overlapped it, has made of the shared files
\* and of the history.
NewestInv ==
    newest \in alone =>
        /\ stamp[newest] # 0 => \A t \in Listed(scope[newest]) : t <= stamp[newest]
        /\ \/ pc[newest] \in EntrySteps \cup {"latest_members", "latest_members_open", "append"}
           \/ code[newest] = "0"
           => disk[<<Shared, "record", 0>>] = newest
        /\ pc[newest] \in EntrySteps \cup {"append"} \/ code[newest] = "0"
           => disk[<<Shared, "members", 0>>] = newest
        /\ code[newest] = "0" =>
              Entry(newest, "members") = newest /\ Entry(newest, "record") = newest

\* Runs at work have later stamps than a run that ended and overlapped none.
OrderInv ==
    \A r \in alone, q \in Active : pc[r] = "done" => stamp[q] = 0 \/ stamp[q] >= stamp[r]

Earlier(r) == {t \in Listed(scope[r]) : t < stamp[r]}
At(r, what, T) == IF T = {} THEN NoRun ELSE disk[<<scope[r], what, Max(T)>>]
PairAt(r, T) == [members |-> At(r, "members", T), record |-> At(r, "record", T)]
DriftSince(pair, r) ==
    IF pair.members = NoRun THEN NoReport(NoPrevious)
    ELSE Drift(members[pair.members], members[r])

\* What a run read is of a run with settled members.
ReadInv == \A r \in Runs : previous[r].members \in Runs => pc[previous[r].members] \notin Searching

\* What a run reports of the universe it read.
ReportSteps == LatestSteps \cup EntrySteps
ReportInv ==
    \A r \in Runs : pc[r] \in ReportSteps \/ code[r] = "0" => drift[r] = DriftSince(previous[r], r)

\* What a run that nothing overlapped read is the newest entry before its own.
PredecessorInv ==
    \A r \in alone :
        /\ pc[r] = "compare_record" =>
              previous[r] = [members |-> At(r, "members", Listed(scope[r])), record |-> NoRun]
        /\ pc[r] \in LatestSteps => previous[r] = PairAt(r, Listed(scope[r]))
        /\ pc[r] \in EntrySteps \/ code[r] = "0" => previous[r] = PairAt(r, Earlier(r))

IInv ==
    /\ TypeInv /\ StageInv /\ OverlapInv /\ MixInv /\ DiskInv /\ EntryInv
    /\ HistoryEntriesWhole /\ NewestInv /\ OrderInv
    /\ ReadInv /\ ReportInv /\ PredecessorInv

-------------------------------------------------------------------------------
(* Frames and paths *)

\* A frame of listings is a membership frame.
LEMMA ListingsAreMembers == Seq(Listing) \subseteq Seq(Member)
<1> SUFFICES ASSUME NEW frame \in Seq(Listing) PROVE frame \in Seq(Member)
  OBVIOUS
<1>1. Listing \subseteq Member
  BY DEF Listing, Member
<1>2. frame \in [1 .. Len(frame) -> Listing] /\ Len(frame) \in Nat
  OBVIOUS
<1>3. frame \in [1 .. Len(frame) -> Member]
  BY <1>1, <1>2
<1> QED
  BY <1>2, <1>3

\* The frame of an index file has each of its symbols once.
LEMMA IndexFrameIs ==
    ASSUME NEW symbols \in Seq(Nat \ {0})
    PROVE  IndexFrame(symbols) \in Seq(Member) /\ Distinct(IndexFrame(symbols))
<1> DEFINE kept == {i \in DOMAIN symbols : \A j \in 1 .. i - 1 : symbols[j] # symbols[i]}
           key == [i \in kept |-> i]
           first == Ranked(kept, key)
           n == Cardinality(kept)
           frame == [k \in 1 .. n |-> [sym |-> symbols[first[k]], isin |-> 0, series |-> "none"]]
<1>1. DOMAIN symbols = 1 .. Len(symbols) /\ Len(symbols) \in Nat
  OBVIOUS
<1>2. n \in Nat /\ IsFiniteSet(kept)
  <2>1. 1 \in Int /\ Len(symbols) \in Int
    BY <1>1
  <2>2. IsFiniteSet(1 .. Len(symbols))
    BY <2>1, FS_Interval
  <2>3. kept \in SUBSET (1 .. Len(symbols))
    BY <1>1
  <2>4. IsFiniteSet(kept)
    <3> HIDE DEF kept
    <3> QED
      BY <2>2, <2>3, FS_Subset
  <2> QED
    BY <2>4, FS_CardinalityType
<1>3. \A i, j \in kept : symbols[i] = symbols[j] => i = j
  BY <1>1
<1>4. first \in [1 .. n -> kept] /\ \A k, l \in 1 .. n : first[k] = first[l] => k = l
  <2>1. /\ \A i \in kept : key[i] \in Nat
        /\ \A i, j \in kept : key[i] = key[j] => i = j
    BY <1>1
  <2> HIDE DEF kept, key
  <2> QED
    BY <1>2, <2>1, RankedIs, Zenon DEF first, n
<1>5. \A i \in kept : symbols[i] \in Nat \ {0}
  OBVIOUS
<1>6. IndexFrame(symbols) = frame
  BY Zenon DEF IndexFrame
<1> HIDE DEF first, n, key, kept
<1>7. frame \in [1 .. n -> Member]
  BY <1>4, <1>5 DEF Member
<1>8. Distinct(frame)
  BY <1>3, <1>4 DEF Distinct
<1>9. frame \in Seq(Member)
  <2> HIDE DEF frame
  <2> QED
    BY <1>2, <1>7
<1> QED
  BY <1>6, <1>8, <1>9, Zenon

\* The files of the history, and the two shared ones.
LEMMA PathsAre ==
    /\ \A s \in Scopes, w \in {"members", "record"}, t \in Stamps : <<s, w, t>> \in Paths
    /\ <<Shared, "members", 0>> \in Paths /\ <<Shared, "record", 0>> \in Paths
    /\ \A s \in Scopes : s # Shared
<1>1. \A s \in Scopes, w \in {"members", "record"}, t \in Stamps :
          <<s, w, t>> \in Scopes \X {"members", "record"} \X Stamps
  OBVIOUS
<1>2. \A w \in {"members", "record"} : <<Shared, w, 0>> \in {Shared} \X {"members", "record"} \X {0}
  OBVIOUS
<1>3. \A s \in Scopes : s # Shared
  BY DEF Scopes, Shared
<1> QED
  BY <1>1, <1>2, <1>3, Zenon DEF Paths

\* What a write opens and closes.
LEMMA PathIs ==
    ASSUME NEW r
    PROVE  /\ Path(r, "latest_record") = <<Shared, "record", 0>>
           /\ Path(r, "latest_members") = <<Shared, "members", 0>>
           /\ Path(r, "members") = <<scope[r], "members", stamp[r]>>
           /\ Path(r, "record") = <<scope[r], "record", stamp[r]>>
  BY DEF Path

\* The steps before and after an open file.
LEMMA StepsAre ==
    /\ Opened("latest_record") = "latest_record_open"
    /\ Opened("latest_members") = "latest_members_open"
    /\ Opened("members") = "members_open"
    /\ Opened("record") = "record_open"
    /\ After("latest_record") = "latest_members"
    /\ After("latest_members") = "append"
    /\ After("append") = "members"
    /\ After("members") = "record"
    /\ After("record") = "done"
    /\ OpenSteps = {"latest_record_open", "latest_members_open", "members_open", "record_open"}
    /\ Steps = Searching \cup LatestSteps \cup EntrySteps \cup {"compare", "compare_record", "done"}
<1>1. /\ Opened("latest_record") = "latest_record_open"
      /\ Opened("latest_members") = "latest_members_open"
      /\ Opened("members") = "members_open"
      /\ Opened("record") = "record_open"
  BY DEF Opened
<1>2. /\ After("latest_record") = "latest_members"
      /\ After("latest_members") = "append"
      /\ After("append") = "members"
      /\ After("members") = "record"
      /\ After("record") = "done"
  BY DEF After
<1>3. OpenSteps = {"latest_record_open", "latest_members_open", "members_open", "record_open"}
  BY <1>1 DEF OpenSteps, Writes
<1>4. Steps = Searching \cup LatestSteps \cup EntrySteps \cup {"compare", "compare_record", "done"}
  <2>1. Steps = {"idle", "discover", "download", "lists", "gate", "index", "compare",
                 "compare_record", "append", "done"} \cup Writes \cup OpenSteps
    BY DEF Steps, OpenSteps
  <2> QED
    BY <1>3, <2>1 DEF Writes, Searching, Unstamped, LatestSteps, EntrySteps
<1> QED
  BY <1>1, <1>2, <1>3, <1>4

-------------------------------------------------------------------------------
(* The start *)

\* The invariant holds at the start.
LEMMA InitIInv == Init => IInv
<1> SUFFICES ASSUME Init PROVE IInv
  OBVIOUS
<1> USE UniverseAssumption
<1>1. /\ First \in Runs /\ 2 \in Stamps /\ 1 \in Stamps /\ Runs \cap {NoFile, Torn, NoRun} = {}
      /\ \A s \in Scopes : Listed(s) = IF s = "NSE_MAINBOARD_EQ" THEN {1} ELSE {}
  <2>1. First \in Runs /\ 2 \in Stamps /\ 1 \in Stamps /\ Runs \cap {NoFile, Torn, NoRun} = {}
    BY RunsAreNoContents DEF Stamps
  <2>2. ASSUME NEW s \in Scopes, NEW t \in Stamps
        PROVE  disk[<<s, "record", t>>] = IF s = "NSE_MAINBOARD_EQ" /\ t = 1 THEN First ELSE NoFile
    <3>1. <<s, "record", t>> \in Paths /\ s # Shared
      BY PathsAre
    <3> QED
      BY <3>1 DEF Init
  <2> QED
    BY <2>1, <2>2 DEF Listed
<1>2. TypeInv
  <2>1. disk \in [Paths -> Contents]
    BY <1>1 DEF Init, Contents
  <2>2. pc \in [Runs -> Steps]
    BY StepsAre DEF Init, Searching, Unstamped
  <2>3. funnel \in [Runs -> Found]
    BY DEF Init, NoFunnel, Ages, Outcomes, Found
  <2>4. members \in [Runs -> Seq(Member)]
    <3>1. <<>> \in Seq(Member) /\ FirstMembers \in Seq(Member)
      BY ListingsAreMembers
    <3> QED
      BY <3>1 DEF Init
  <2>5. previous \in [Runs -> Pair]
    BY DEF Init, NoPair, Pair
  <2> QED
    BY <1>1, <2>1, <2>2, <2>3, <2>4, <2>5 DEF TypeInv, Init, Scopes, Stamps, Codes
<1>3. StageInv
  <2>1. \A r \in Runs : r # First => Distinct(members[r])
    BY DEF Init, Distinct
  <2> QED
    BY <1>1, <2>1 DEF StageInv, Stage, Init, Unstamped, Searching
<1>4. Active = {}
  BY DEF Active, Init
<1>5. OverlapInv
  BY <1>1, <1>4 DEF OverlapInv, Init
<1>6. MixInv
  BY DEF MixInv, Init
<1>7. DiskInv
  <2>1. \A p \in Paths : disk[p] \in Runs => disk[p] = First
    BY <1>1 DEF Init
  <2> QED
    BY <1>1, <2>1 DEF DiskInv, Init, Searching, Unstamped
<1>8. EntryInv
  BY DEF EntryInv, Init
<1>9. /\ disk[<<"NSE_MAINBOARD_EQ", "members", 1>>] = First
      /\ disk[<<"NSE_MAINBOARD_EQ", "record", 1>>] = First
      /\ disk[<<Shared, "members", 0>>] = First /\ disk[<<Shared, "record", 0>>] = First
  <2>1. "NSE_MAINBOARD_EQ" \in Scopes
    BY DEF Scopes
  <2> QED
    BY <1>1, <2>1, PathsAre DEF Init
<1>10. HistoryEntriesWhole
  BY <1>1, <1>9 DEF HistoryEntriesWhole
<1>11. scope[First] = "NSE_MAINBOARD_EQ" /\ stamp[First] = 1 /\ newest = First
  BY <1>1 DEF Init
<1>12. NewestInv
  <2>1. \A t \in Listed(scope[First]) : t <= 1
    BY <1>1, <1>11 DEF Scopes
  <2> QED
    BY <1>9, <1>11, <2>1 DEF NewestInv, Entry
<1>13. OrderInv
  BY <1>4 DEF OrderInv
<1>14. ReadInv /\ ReportInv /\ PredecessorInv
  <2>1. Earlier(First) = {}
    BY <1>1, <1>11 DEF Earlier, Scopes
  <2>2. PairAt(First, Earlier(First)) = NoPair
    BY <2>1 DEF PairAt, At, NoPair
  <2>3. /\ \A r \in Runs : previous[r] = NoPair /\ pc[r] \in {"idle", "done"} /\ (code[r] = "0" => r = First)
        /\ drift[First] = NoReport(NoPrevious)
    BY <1>1 DEF Init
  <2>4. NoRun \notin Runs /\ NoPair.members = NoRun
    BY <1>1 DEF NoPair
  <2>5. drift[First] = DriftSince(previous[First], First)
    BY <1>1, <2>3, <2>4, Zenon DEF DriftSince
  <2>6. alone \subseteq Runs
    BY <1>2 DEF TypeInv
  <2> QED
    BY <2>2, <2>3, <2>4, <2>5, <2>6 DEF ReadInv, ReportInv, PredecessorInv, ReportSteps, LatestSteps, EntrySteps
<1> QED
  BY <1>2, <1>3, <1>5, <1>6, <1>7, <1>8, <1>10, <1>12, <1>13, <1>14 DEF IInv

-------------------------------------------------------------------------------
(* Types *)

\* What passes the count gate, and what the index serves, are frames without a
\* symbol twice.
LEMMA GateIs ==
    ASSUME TypeInv, StageInv, NEW r \in Runs, pc[r] = "gate"
    PROVE  /\ funnel[r].outcome.constituents \in Seq(Member)
           /\ Distinct(funnel[r].outcome.constituents)
<1>1. funnel[r].file \in Seq(Listing) /\ funnel[r].failed \in SUBSET DOMAIN Lists
  BY UniverseAssumption DEF TypeInv, StageInv, Stage, Found
<1>2. funnel[r].outcome = Funnel(funnel[r].file, funnel[r].failed)
  BY DEF StageInv, Stage
<1> DEFINE file == funnel[r].file failed == funnel[r].failed
           frame == Funnel(file, failed).constituents
<1>3. frame \in Seq(Listing) /\ Distinct(frame)
  <2> HIDE DEF file, failed
  <2>1. file \in Seq(Listing) /\ failed \in SUBSET DOMAIN Lists
    BY <1>1 DEF file, failed
  <2> QED
    BY <2>1, FunnelIs, Zenon DEF Distinct, Accounts
<1>4. funnel[r].outcome.constituents = frame
  BY <1>2, Zenon
<1> HIDE DEF frame
<1> QED
  BY <1>3, <1>4, ListingsAreMembers, Zenon

\* A run goes on to a step, or ends.
LEMMA GoesOn ==
    ASSUME TypeInv, NEW r \in Runs, NEW x \in Steps, Go(r, x)
    PROVE  pc' \in [Runs -> Steps]
  BY DEF TypeInv, Go

\* A run that ends has a step and an exit code of the model.
LEMMA Ends ==
    ASSUME TypeInv, NEW r \in Runs, NEW exit \in Codes, End(r, exit)
    PROVE  pc' \in [Runs -> Steps] /\ code' \in [Runs -> Codes]
<1>1. "done" \in Steps
  BY StepsAre
<1> QED
  BY <1>1 DEF TypeInv, End, Go

\* What a run reads keeps the type of a pair.
LEMMA Reads ==
    ASSUME TypeInv, NEW r \in Runs, NEW v \in Runs \cup {NoRun}
    PROVE  /\ [previous EXCEPT ![r].members = v] \in [Runs -> Pair]
           /\ [previous EXCEPT ![r].record = v] \in [Runs -> Pair]
<1>1. [previous[r] EXCEPT !.members = v] \in Pair /\ [previous[r] EXCEPT !.record = v] \in Pair
  BY DEF TypeInv, Pair
<1> QED
  BY <1>1 DEF TypeInv

\* Every step keeps the types.
LEMMA TypeKeeps == TypeInv /\ StageInv /\ [Next]_vars => TypeInv'
<1> SUFFICES ASSUME TypeInv, StageInv, [Next]_vars PROVE TypeInv'
  OBVIOUS
<1>1. CASE UNCHANGED vars
  BY <1>1 DEF vars, result, history, TypeInv
<1>2. CASE Tick
  BY <1>2, UniverseAssumption DEF Tick, result, history, Stamps, TypeInv
<1> SUFFICES ASSUME NEW r \in Runs, Start(r) \/ StartRefused(r) \/ Step(r) \/ Kill(r)
             PROVE  TypeInv'
  BY <1>1, <1>2 DEF Next
<1>3. NoPair \in Pair
  BY DEF NoPair, Pair
<1>4. NoFunnel \in Found
  BY DEF NoFunnel, Ages, Outcomes, Found
<1>5. /\ {"done", "discover", "download", "lists", "gate", "index", "compare", "compare_record",
          "latest_record"} \subseteq Steps
      /\ LatestSteps \subseteq Steps /\ EntrySteps \subseteq Steps
  BY StepsAre DEF LatestSteps, Searching, Unstamped
<1>6. {"0", "1", "raised", "killed"} \subseteq Codes
  BY DEF Codes
<1>7. CASE Start(r)
  <2>1. pc' \in [Runs -> Steps]
    BY <1>5, <1>7, GoesOn DEF Start
  <2>2. stamp' \in [Runs -> 0 .. LastStamp]
    BY <1>7 DEF TypeInv, Start, Stamps
  <2>3. scope' \in [Runs -> Scopes]
    BY <1>7 DEF TypeInv, Start
  <2>4. alone' \subseteq Runs
    BY <1>7 DEF TypeInv, Start
  <2> QED
    BY <1>7, <2>1, <2>2, <2>3, <2>4 DEF TypeInv, Start, result
<1>8. CASE StartRefused(r)
  BY <1>6, <1>8, Ends DEF TypeInv, StartRefused, result, history
<1>9. CASE ProbeFails(r)
  <2>1. pc' \in [Runs -> Steps] /\ code' \in [Runs -> Codes]
    BY <1>6, <1>9, Ends DEF ProbeFails, TypeInv
  <2>2. probe' \in [Runs -> Nat]
    <3>1. \E n \in Nat : probe' = [probe EXCEPT ![r] = n]
      BY <1>9 DEF ProbeFails, TypeInv
    <3> QED
      BY <3>1 DEF TypeInv
  <2> QED
    BY <1>9, <2>1, <2>2 DEF TypeInv, ProbeFails, result, history
<1>10. CASE ProbeFinds(r)
  <2>1. Dated(probe[r]) \in Ages
    <3>1. probe[r] \in Nat /\ probe[r] < 1 + 2 * (Lookback + 1) /\ Lookback \in Nat
      BY <1>10, UniverseAssumption DEF ProbeFinds, StageInv, Stage, Probes, TypeInv
    <3>2. probe[r] = 0 \/ (probe[r] - 1) \div 2 \in 0 .. Lookback
      BY <3>1
    <3> QED
      BY <3>2 DEF Dated, Ages
  <2>2. funnel' \in [Runs -> Found]
    BY <1>10, <2>1 DEF ProbeFinds, TypeInv, Found
  <2>3. pc' \in [Runs -> Steps]
    BY <1>5, <1>10, GoesOn DEF ProbeFinds
  <2> QED
    BY <1>10, <2>2, <2>3 DEF TypeInv, ProbeFinds, result, history
<1>11. CASE Download(r)
  <2>1. funnel' \in [Runs -> Found]
    BY <1>11 DEF Download, TypeInv, Found
  <2>2. pc' \in [Runs -> Steps]
    BY <1>5, <1>11, GoesOn DEF Download
  <2>3. stamp' \in [Runs -> 0 .. LastStamp]
    BY <1>11 DEF Download, TypeInv, Stamps
  <2> QED
    BY <1>11, <2>1, <2>2, <2>3 DEF TypeInv, Download, result, history
<1>12. CASE DownloadFails(r)
  <2>1. pc' \in [Runs -> Steps] /\ code' \in [Runs -> Codes]
    BY <1>6, <1>12, Ends DEF DownloadFails
  <2> QED
    BY <1>4, <1>12, <2>1 DEF TypeInv, DownloadFails, result, history
<1>13. CASE Classify(r)
  <2>1. \A f \in Funnels : f.failed \in SUBSET DOMAIN Lists /\ f.outcome \in Outcomes
    BY DEF Funnels, Outcomes
  <2>2. PICK f \in Funnels : funnel' = [funnel EXCEPT ![r].failed = f.failed, ![r].outcome = f.outcome]
    BY <1>13 DEF Classify
  <2>3. f.failed \in SUBSET DOMAIN Lists /\ f.outcome \in Outcomes
    BY <2>1
  <2>4. funnel' \in [Runs -> Found]
    BY <2>2, <2>3 DEF TypeInv, Found
  <2>5. pc' \in [Runs -> Steps]
    BY <1>5, <1>13, GoesOn DEF Classify
  <2> QED
    BY <1>13, <2>4, <2>5 DEF TypeInv, Classify, result, history
<1>14. CASE ClassifyRaises(r)
  <2>1. pc' \in [Runs -> Steps] /\ code' \in [Runs -> Codes]
    BY <1>6, <1>14, Ends DEF ClassifyRaises
  <2> QED
    BY <1>4, <1>14, <2>1 DEF TypeInv, ClassifyRaises, result, history
<1>15. CASE Gate(r)
  <2>1. funnel[r].outcome.constituents \in Seq(Member)
    BY <1>15, GateIs DEF Gate
  <2>2. pc' \in [Runs -> Steps] /\ code' \in [Runs -> Codes]
    BY <1>5, <1>6, <1>15, GoesOn, Ends DEF Gate, TypeInv
  <2>3. members' \in [Runs -> Seq(Member)]
    BY <1>15, <2>1 DEF TypeInv, Gate
  <2> QED
    BY <1>4, <1>15, <2>2, <2>3 DEF TypeInv, Gate, result, history
<1>16. CASE IndexFound(r)
  <2>1. \A f \in IndexFiles : IndexFrame(f) \in Seq(Member)
    BY UniverseAssumption, IndexFrameIs
  <2>2. pc' \in [Runs -> Steps]
    BY <1>5, <1>16, GoesOn DEF IndexFound
  <2> QED
    BY <1>16, <2>1, <2>2 DEF TypeInv, IndexFound, result, history
<1>17. CASE IndexFails(r)
  <2>1. pc' \in [Runs -> Steps] /\ code' \in [Runs -> Codes]
    BY <1>6, <1>17, Ends DEF IndexFails, TypeInv
  <2>2. probe' \in [Runs -> Nat]
    <3>1. \E n \in Nat : probe' = [probe EXCEPT ![r] = n]
      BY <1>17 DEF IndexFails, TypeInv
    <3> QED
      BY <3>1 DEF TypeInv
  <2> QED
    BY <1>17, <2>1, <2>2 DEF TypeInv, IndexFails, result, history
<1>18. CASE ReadMembers(r)
  <2>1. pc' \in [Runs -> Steps] /\ code' \in [Runs -> Codes]
    BY <1>5, <1>6, <1>18, GoesOn, Ends DEF ReadMembers, TypeInv
  <2>2. previous' \in [Runs -> Pair]
    <3>1. \/ previous' = previous
          \/ \E v \in Runs : previous' = [previous EXCEPT ![r].members = v]
      BY <1>18 DEF ReadMembers
    <3>2. ASSUME NEW v \in Runs, previous' = [previous EXCEPT ![r].members = v]
          PROVE  previous' \in [Runs -> Pair]
      BY <3>2, Reads
    <3> QED
      BY <3>1, <3>2 DEF TypeInv
  <2> QED
    BY <1>18, <2>1, <2>2 DEF TypeInv, ReadMembers, history
<1>19. CASE ReadRecord(r)
  <2>1. pc' \in [Runs -> Steps] /\ code' \in [Runs -> Codes]
    BY <1>5, <1>6, <1>19, GoesOn, Ends DEF ReadRecord, TypeInv
  <2>2. previous' \in [Runs -> Pair]
    <3>1. \/ previous' = previous
          \/ \E v \in Runs \cup {NoRun} : previous' = [previous EXCEPT ![r].record = v]
      BY <1>19 DEF ReadRecord, result
    <3>2. ASSUME NEW v \in Runs \cup {NoRun}, previous' = [previous EXCEPT ![r].record = v]
          PROVE  previous' \in [Runs -> Pair]
      BY <3>2, Reads
    <3> QED
      BY <3>1, <3>2 DEF TypeInv
  <2>3. drift' = [q \in Runs |-> drift'[q]]
    BY <1>19 DEF ReadRecord, result, TypeInv
  <2> QED
    BY <1>19, <2>1, <2>2, <2>3 DEF TypeInv, ReadRecord, history
<1>20. CASE AppendEntry(r)
  <2>1. "members" \in Steps
    BY <1>5 DEF EntrySteps
  <2>2. pc' \in [Runs -> Steps] /\ code' \in [Runs -> Codes]
    BY <1>6, <1>20, <2>1, StepsAre, GoesOn, Ends DEF AppendEntry, TypeInv
  <2> QED
    BY <1>20, <2>2 DEF TypeInv, AppendEntry, result, history
<1>21. CASE OpenFile(r)
  <2>1. disk' \in [Paths -> Contents]
    BY <1>21 DEF OpenFile, Contents, TypeInv
  <2>2. pc' \in [Runs -> Steps]
    <3>1. \A w \in Writes : Opened(w) \in Steps
      BY DEF Steps
    <3> QED
      BY <1>21, <3>1, GoesOn DEF OpenFile
  <2>3. mixed' \subseteq Runs
    BY <1>21 DEF OpenFile, TypeInv
  <2> QED
    BY <1>21, <2>1, <2>2, <2>3 DEF OpenFile, result, TypeInv
<1>22. CASE CloseFile(r)
  <2>1. disk' \in [Paths -> Contents]
    BY <1>22 DEF CloseFile, Contents, TypeInv
  <2>2. pc' \in [Runs -> Steps] /\ code' \in [Runs -> Codes]
    <3>1. \A w \in Writes : After(w) \in Steps
      BY <1>5, StepsAre DEF Writes, LatestSteps, EntrySteps
    <3> QED
      BY <1>6, <1>22, <3>1, GoesOn, Ends DEF CloseFile, TypeInv
  <2> QED
    BY <1>22, <2>1, <2>2 DEF CloseFile, result, history, TypeInv
<1>23. CASE Kill(r)
  <2>1. pc' \in [Runs -> Steps] /\ code' \in [Runs -> Codes]
    BY <1>6, <1>23, Ends DEF Kill
  <2> QED
    BY <1>3, <1>4, <1>23, <2>1 DEF TypeInv, Kill, history
<1> QED
  BY <1>7, <1>8, <1>9, <1>10, <1>11, <1>12, <1>13, <1>14, <1>15, <1>16, <1>17, <1>18,
     <1>19, <1>20, <1>21, <1>22, <1>23 DEF Step

-------------------------------------------------------------------------------
(* Stages *)

Same(q) ==
    /\ pc'[q] = pc[q] /\ probe'[q] = probe[q] /\ funnel'[q] = funnel[q] /\ stamp'[q] = stamp[q]
    /\ code'[q] = code[q] /\ members'[q] = members[q] /\ previous'[q] = previous[q]

\* A run that ended does nothing, and the others leave a run as it is.
LEMMA StageStays ==
    ASSUME StageInv, now' >= now, now \in Nat, now' \in Nat, NEW q \in Runs, stamp[q] \in Nat, Same(q)
    PROVE  Stage(q)'
  BY DEF StageInv, Stage, Same

\* Every step leaves each run with what its step calls for.
LEMMA StageKeeps == TypeInv /\ StageInv /\ [Next]_vars => StageInv'
<1> SUFFICES ASSUME TypeInv, StageInv, [Next]_vars PROVE StageInv'
  OBVIOUS
<1>1. First \in Runs /\ now \in Nat /\ now # 0 /\ now' \in Nat /\ \A q \in Runs : stamp[q] \in Nat
  <2>1. TypeInv'
    BY TypeKeeps
  <2>2. now \in Stamps /\ now' \in Stamps /\ stamp \in [Runs -> 0 .. LastStamp]
    BY <2>1 DEF TypeInv
  <2> QED
    BY <2>2, UniverseAssumption DEF Stamps
<1>2. CASE UNCHANGED vars
  <2>1. \A q \in Runs : Same(q)
    BY <1>2 DEF vars, result, history, Same
  <2>2. now' = now
    BY <1>2 DEF vars
  <2> QED
    BY <1>1, <2>1, <2>2, StageStays DEF StageInv, Same
<1>3. CASE Tick
  <2>1. \A q \in Runs : Same(q)
    BY <1>3 DEF Tick, result, history, Same
  <2>2. now' = now + 1
    BY <1>3 DEF Tick
  <2> QED
    BY <1>1, <2>1, <2>2, StageStays DEF StageInv, Same
<1> SUFFICES ASSUME NEW r \in Runs, Start(r) \/ StartRefused(r) \/ Step(r) \/ Kill(r)
             PROVE  StageInv'
  BY <1>2, <1>3 DEF Next
<1>4. ASSUME r # First, now' = now, \A q \in Runs \ {r} : Same(q), Stage(r)' PROVE StageInv'
  <2>1. \A q \in Runs : Stage(q)'
    BY <1>1, <1>4, StageStays
  <2>2. pc'[First] = "done" /\ stamp'[First] = 1
    BY <1>1, <1>4 DEF StageInv, Same
  <2> QED
    BY <2>1, <2>2 DEF StageInv
<1>5. Stage(r) /\ (r = First => pc[r] = "done") /\ pc[r] \in Steps /\ stamp[r] \in Nat /\ now \in Nat /\ now # 0
  BY <1>1 DEF StageInv, TypeInv
<1> DEFINE Others == now' = now /\ \A q \in Runs \ {r} : Same(q)
<1>6. CASE Start(r)
  <2>1. Others
    BY <1>6 DEF Start, Go, result, TypeInv, Same
  <2>2. 0 < Probes
    BY UniverseAssumption DEF Probes
  <2>3. Stage(r)'
    BY <1>5, <1>6, <2>2 DEF Start, Go, result, TypeInv, Stage, Unstamped, Searching
  <2> QED
    BY <1>4, <1>5, <1>6, <2>1, <2>3 DEF Start
<1>7. CASE StartRefused(r)
  <2>1. Others
    BY <1>7 DEF StartRefused, End, Go, result, history, TypeInv, Same
  <2>2. Stage(r)'
    BY <1>5, <1>7 DEF StartRefused, End, Go, result, history, TypeInv, Stage, Unstamped, Searching
  <2> QED
    BY <1>4, <1>5, <1>7, <2>1, <2>2 DEF StartRefused
<1>8. CASE ProbeFails(r)
  <2>1. Others
    BY <1>8 DEF ProbeFails, End, Go, result, history, TypeInv, Same
  <2>2. Stage(r)'
    BY <1>5, <1>8 DEF ProbeFails, End, Go, result, history, TypeInv, Stage, Unstamped, Searching
  <2> QED
    BY <1>4, <1>5, <1>8, <2>1, <2>2 DEF ProbeFails
<1>9. CASE ProbeFinds(r)
  <2>1. Others
    BY <1>9 DEF ProbeFinds, Go, result, history, TypeInv, Same
  <2>2. Stage(r)'
    BY <1>5, <1>9 DEF ProbeFinds, Go, result, history, TypeInv, Stage, Unstamped, Searching
  <2> QED
    BY <1>4, <1>5, <1>9, <2>1, <2>2 DEF ProbeFinds
<1>10. CASE Download(r)
  <2>1. Others
    BY <1>10 DEF Download, Go, result, history, TypeInv, Same
  <2>2. Stage(r)'
    BY <1>5, <1>10 DEF Download, Go, result, history, TypeInv, Stage, Unstamped, Searching
  <2> QED
    BY <1>4, <1>5, <1>10, <2>1, <2>2 DEF Download
<1>11. CASE DownloadFails(r)
  <2>1. Others
    BY <1>11 DEF DownloadFails, End, Go, result, history, TypeInv, Same
  <2>2. Stage(r)'
    BY <1>5, <1>11 DEF DownloadFails, End, Go, result, history, TypeInv, Stage, Unstamped, Searching
  <2> QED
    BY <1>4, <1>5, <1>11, <2>1, <2>2 DEF DownloadFails
<1>12. CASE Classify(r)
  <2>1. Others
    BY <1>12 DEF Classify, Go, result, history, Funnels, Found, TypeInv, Same
  <2>2. Stage(r)'
    BY <1>5, <1>12 DEF Classify, Go, result, history, Funnels, Found, TypeInv, Stage, Unstamped, Searching
  <2> QED
    BY <1>4, <1>5, <1>12, <2>1, <2>2 DEF Classify
<1>13. CASE ClassifyRaises(r)
  <2>1. Others
    BY <1>13 DEF ClassifyRaises, End, Go, result, history, TypeInv, Same
  <2>2. Stage(r)'
    BY <1>5, <1>13 DEF ClassifyRaises, End, Go, result, history, TypeInv, Stage, Unstamped, Searching
  <2> QED
    BY <1>4, <1>5, <1>13, <2>1, <2>2 DEF ClassifyRaises
<1>14. CASE Gate(r)
  <2>1. Others
    BY <1>14 DEF Gate, End, Go, result, history, TypeInv, Same
  <2>2. Distinct(funnel[r].outcome.constituents)
    BY <1>14, GateIs DEF Gate
  <2>3. Stage(r)'
    BY <1>5, <1>14, <2>2 DEF Gate, End, Go, result, history, TypeInv, Stage, Unstamped, Searching
  <2> QED
    BY <1>4, <1>5, <1>14, <2>1, <2>3 DEF Gate
<1>15. CASE IndexFound(r)
  <2>1. Others
    BY <1>15 DEF IndexFound, Go, result, history, TypeInv, Same
  <2>2. \A f \in IndexFiles : Distinct(IndexFrame(f))
    BY UniverseAssumption, IndexFrameIs
  <2>3. Stage(r)'
    BY <1>5, <1>15, <2>2 DEF IndexFound, Go, result, history, TypeInv, Stage, Unstamped, Searching
  <2> QED
    BY <1>4, <1>5, <1>15, <2>1, <2>3 DEF IndexFound
<1>16. CASE IndexFails(r)
  <2>1. Others
    BY <1>16 DEF IndexFails, End, Go, result, history, TypeInv, Same
  <2>2. Stage(r)'
    BY <1>5, <1>16 DEF IndexFails, End, Go, result, history, TypeInv, Stage, Unstamped, Searching
  <2> QED
    BY <1>4, <1>5, <1>16, <2>1, <2>2 DEF IndexFails
<1>17. CASE ReadMembers(r)
  <2>1. Others
    BY <1>17 DEF ReadMembers, End, Go, history, TypeInv, Same
  <2>2. Stage(r)'
    BY <1>5, <1>17 DEF ReadMembers, End, Go, history, TypeInv, Stage, Unstamped, Searching
  <2> QED
    BY <1>4, <1>5, <1>17, <2>1, <2>2 DEF ReadMembers
<1>18. CASE ReadRecord(r)
  <2>1. Others
    BY <1>18 DEF ReadRecord, End, Go, history, result, TypeInv, Same
  <2>2. Stage(r)'
    BY <1>5, <1>18 DEF ReadRecord, End, Go, history, result, TypeInv, Stage, Unstamped, Searching
  <2> QED
    BY <1>4, <1>5, <1>18, <2>1, <2>2 DEF ReadRecord
<1>19. CASE AppendEntry(r)
  <2>1. Others
    BY <1>19 DEF AppendEntry, End, Go, result, history, After, TypeInv, Same
  <2>2. Stage(r)'
    BY <1>5, <1>19 DEF AppendEntry, End, Go, result, history, After, TypeInv, Stage, Unstamped, Searching
  <2> QED
    BY <1>4, <1>5, <1>19, <2>1, <2>2 DEF AppendEntry
<1>20. CASE OpenFile(r)
  <2>1. Others
    BY <1>20 DEF OpenFile, Go, result, TypeInv, Same
  <2>2. \E w \in Writes : pc[r] = w /\ pc'[r] = Opened(w)
    BY <1>20 DEF OpenFile, Go, End, TypeInv
  <2>3. Stage(r)'
    BY <1>5, <1>20, <2>2, StepsAre DEF OpenFile, Go, result, TypeInv, Stage, Unstamped, Searching, Writes
  <2> QED
    BY <1>4, <1>5, <1>20, <2>1, <2>3, <2>2, StepsAre DEF OpenFile, Writes
<1>21. CASE CloseFile(r)
  <2>1. Others
    BY <1>21 DEF CloseFile, End, Go, result, history, TypeInv, Same
  <2>2. \E w \in Writes : pc[r] = Opened(w) /\ pc'[r] = After(w) /\ code'[r] = IF After(w) = "done" THEN "0" ELSE code[r]
    BY <1>21 DEF CloseFile, Go, End, TypeInv
  <2>3. Stage(r)'
    BY <1>5, <1>21, <2>2, StepsAre DEF CloseFile, End, Go, result, history, TypeInv, Stage, Unstamped, Searching, Writes
  <2> QED
    BY <1>4, <1>5, <1>21, <2>1, <2>3, <2>2, StepsAre DEF CloseFile, Writes
<1>22. CASE Kill(r)
  <2>1. Others
    BY <1>22 DEF Kill, End, Go, history, TypeInv, Same
  <2>2. Stage(r)'
    BY <1>5, <1>22 DEF Kill, End, Go, history, TypeInv, Stage, Unstamped, Searching
  <2> QED
    BY <1>4, <1>5, <1>22, <2>1, <2>2 DEF Kill, Active
<1> QED
  BY <1>6, <1>7, <1>8, <1>9, <1>10, <1>11, <1>12, <1>13, <1>14, <1>15, <1>16, <1>17, <1>18, <1>19, <1>20, <1>21, <1>22 DEF Step

-------------------------------------------------------------------------------
(* What a step of a run leaves alone *)

\* A step of a run at work.
Local(r) ==
    /\ r \in Active /\ \E x \in Steps \ {"idle"} : pc' = [pc EXCEPT ![r] = x]
    /\ UNCHANGED <<now, scope, alone, newest>>
    /\ \/ stamp' = stamp
       \/ pc[r] = "download" /\ stamp' = [stamp EXCEPT ![r] = now]
    /\ \A q \in Runs \ {r} : /\ code'[q] = code[q] /\ members'[q] = members[q]
                             /\ previous'[q] = previous[q] /\ drift'[q] = drift[q]

\* The search goes on, or has found what it needs.
SearchStep(r) ==
    /\ pc[r] \in Searching \ {"idle"} /\ pc'[r] \in (Searching \ {"idle"}) \cup {"compare", "done"}
    /\ code'[r] # "0" /\ previous' = previous /\ disk' = disk /\ mixed' = mixed

\* The run ends without its entry.
EndStep(r) ==
    /\ pc'[r] = "done" /\ code'[r] # "0" /\ previous'[r] \in {previous[r], NoPair}
    /\ UNCHANGED <<disk, mixed, stamp, members>>

ReadsMembers(r) == ReadMembers(r) /\ pc'[r] = "compare_record"
ReadsRecord(r) == ReadRecord(r) /\ pc'[r] = "latest_record"
Appends(r) == AppendEntry(r) /\ pc'[r] = "members"

\* The steps of a run are of these kinds.
LEMMA StepIs ==
    ASSUME TypeInv, StageInv, NEW r \in Runs, Step(r) \/ Kill(r)
    PROVE  /\ Local(r)
           /\ \/ SearchStep(r) \/ EndStep(r) \/ ReadsMembers(r) \/ ReadsRecord(r)
              \/ Appends(r) \/ OpenFile(r) \/ CloseFile(r)
<1> DEFINE Kinds == \/ SearchStep(r) \/ EndStep(r) \/ ReadsMembers(r) \/ ReadsRecord(r)
                    \/ Appends(r) \/ OpenFile(r) \/ CloseFile(r)
<1>1. /\ {"done", "discover", "download", "lists", "gate", "index", "compare", "compare_record",
          "latest_record"} \subseteq Steps
      /\ LatestSteps \subseteq Steps /\ EntrySteps \subseteq Steps
  BY StepsAre DEF LatestSteps, Searching, Unstamped
<1>2. pc \in [Runs -> Steps] /\ code \in [Runs -> Codes] /\ (code[r] = "none" <=> pc[r] # "done")
  BY DEF TypeInv, StageInv, Stage
<1>3. /\ funnel = [q \in Runs |-> funnel[q]] /\ members = [q \in Runs |-> members[q]]
      /\ previous = [q \in Runs |-> previous[q]] /\ drift = [q \in Runs |-> drift[q]]
  BY DEF TypeInv
<1>4. CASE ProbeFails(r)
  <2>1. Local(r)
    BY <1>1, <1>2, <1>3, <1>4 DEF ProbeFails, End, Go, result, history, Local, Active
  <2>2. Kinds
    BY <1>2, <1>3, <1>4 DEF ProbeFails, End, Go, result, history, SearchStep, Searching, Unstamped
  <2> QED
    BY <2>1, <2>2
<1>5. CASE ProbeFinds(r)
  <2>1. Local(r)
    BY <1>1, <1>2, <1>3, <1>5 DEF ProbeFinds, Go, result, history, Local, Active
  <2>2. Kinds
    BY <1>2, <1>3, <1>5 DEF ProbeFinds, Go, result, history, SearchStep, Searching, Unstamped
  <2> QED
    BY <2>1, <2>2
<1>6. CASE Download(r)
  <2>1. Local(r)
    BY <1>1, <1>2, <1>3, <1>6 DEF Download, Go, result, history, Local, Active
  <2>2. Kinds
    BY <1>2, <1>3, <1>6 DEF Download, Go, result, history, SearchStep, Searching, Unstamped
  <2> QED
    BY <2>1, <2>2
<1>7. CASE DownloadFails(r)
  <2>1. Local(r)
    BY <1>1, <1>2, <1>3, <1>7 DEF DownloadFails, End, Go, result, history, Local, Active
  <2>2. Kinds
    BY <1>2, <1>3, <1>7 DEF DownloadFails, End, Go, result, history, SearchStep, Searching, Unstamped
  <2> QED
    BY <2>1, <2>2
<1>8. CASE Classify(r)
  <2>1. Local(r)
    BY <1>1, <1>2, <1>3, <1>8 DEF Classify, Go, result, history, Local, Active
  <2>2. Kinds
    BY <1>2, <1>3, <1>8 DEF Classify, Go, result, history, SearchStep, Searching, Unstamped
  <2> QED
    BY <2>1, <2>2
<1>9. CASE ClassifyRaises(r)
  <2>1. Local(r)
    BY <1>1, <1>2, <1>3, <1>9 DEF ClassifyRaises, End, Go, result, history, Local, Active
  <2>2. Kinds
    BY <1>2, <1>3, <1>9 DEF ClassifyRaises, End, Go, result, history, SearchStep, Searching, Unstamped
  <2> QED
    BY <2>1, <2>2
<1>10. CASE Gate(r)
  <2>1. Local(r)
    BY <1>1, <1>2, <1>3, <1>10 DEF Gate, End, Go, result, history, Local, Active
  <2>2. Kinds
    BY <1>2, <1>3, <1>10 DEF Gate, End, Go, result, history, SearchStep, Searching, Unstamped
  <2> QED
    BY <2>1, <2>2
<1>11. CASE IndexFound(r)
  <2>1. Local(r)
    BY <1>1, <1>2, <1>3, <1>11 DEF IndexFound, Go, result, history, Local, Active
  <2>2. Kinds
    BY <1>2, <1>3, <1>11 DEF IndexFound, Go, result, history, SearchStep, Searching, Unstamped
  <2> QED
    BY <2>1, <2>2
<1>12. CASE IndexFails(r)
  <2>1. Local(r)
    BY <1>1, <1>2, <1>3, <1>12 DEF IndexFails, End, Go, result, history, Local, Active
  <2>2. Kinds
    BY <1>2, <1>3, <1>12 DEF IndexFails, End, Go, result, history, SearchStep, Searching, Unstamped
  <2> QED
    BY <2>1, <2>2
<1>13. CASE ReadMembers(r)
  <2>1. Local(r)
    BY <1>1, <1>2, <1>3, <1>13 DEF ReadMembers, End, Go, history, Local, Active
  <2>2. Kinds
    BY <1>2, <1>3, <1>13 DEF ReadMembers, End, Go, history, EndStep, ReadsMembers
  <2> QED
    BY <2>1, <2>2
<1>14. CASE ReadRecord(r)
  <2>1. Local(r)
    BY <1>1, <1>2, <1>3, <1>14 DEF ReadRecord, End, Go, history, result, Local, Active
  <2>2. Kinds
    BY <1>2, <1>3, <1>14 DEF ReadRecord, End, Go, history, result, EndStep, ReadsRecord
  <2> QED
    BY <2>1, <2>2
<1>15. CASE AppendEntry(r)
  <2>1. Local(r)
    BY <1>1, <1>2, <1>3, <1>15, StepsAre DEF AppendEntry, End, Go, result, history, Local, Active, LatestSteps, EntrySteps
  <2>2. Kinds
    BY <1>2, <1>3, <1>15, StepsAre DEF AppendEntry, End, Go, result, history, EndStep, Appends
  <2> QED
    BY <2>1, <2>2
<1>16. CASE OpenFile(r)
  <2>1. \E w \in Writes : pc[r] = w /\ pc' = [pc EXCEPT ![r] = Opened(w)]
    BY <1>16 DEF OpenFile, Go, End
  <2>2. r \in Active /\ \E x \in Steps \ {"idle"} : pc' = [pc EXCEPT ![r] = x]
    BY <1>1, <2>1, StepsAre DEF Active, Writes, LatestSteps, EntrySteps
  <2> QED
    BY <1>2, <1>3, <1>16, <2>2 DEF OpenFile, Go, result, Local
<1>17. CASE CloseFile(r)
  <2>1. \E w \in Writes : pc[r] = Opened(w) /\ pc' = [pc EXCEPT ![r] = After(w)]
    BY <1>17 DEF CloseFile, Go, End
  <2>2. r \in Active /\ \E x \in Steps \ {"idle"} : pc' = [pc EXCEPT ![r] = x]
    BY <1>1, <2>1, StepsAre DEF Active, Writes, LatestSteps, EntrySteps
  <2> QED
    BY <1>2, <1>3, <1>17, <2>2 DEF CloseFile, End, Go, result, history, Local
<1>18. CASE Kill(r)
  <2>1. Local(r)
    BY <1>1, <1>2, <1>3, <1>18 DEF Kill, End, Go, history, Local, Active
  <2>2. Kinds
    BY <1>2, <1>3, <1>18 DEF Kill, End, Go, history, EndStep
  <2> QED
    BY <2>1, <2>2
<1> QED
  BY <1>4, <1>5, <1>6, <1>7, <1>8, <1>9, <1>10, <1>11, <1>12, <1>13, <1>14, <1>15, <1>16, <1>17, <1>18 DEF Step

-------------------------------------------------------------------------------
(* Overlaps *)

\* A run that starts.
LEMMA StartIs ==
    ASSUME TypeInv, StageInv, NEW r \in Runs, Start(r)
    PROVE  /\ pc[r] = "idle" /\ r # First /\ stamp[r] = 0 /\ code[r] = "none" /\ newest' = r
           /\ alone' = IF Active = {} THEN alone ELSE alone \ (Active \cup {r})
           /\ \E x \in {"index", "discover"} : pc' = [pc EXCEPT ![r] = x]
           /\ stamp' = stamp \/ stamp' = [stamp EXCEPT ![r] = now]
           /\ \A q \in Runs \ {r} : scope'[q] = scope[q]
           /\ UNCHANGED <<now, disk, probe, funnel, members, previous, drift, code, mixed>>
  BY DEF Start, Go, StageInv, Stage, Unstamped, TypeInv, result

\* Every step keeps account of who overlapped whom.
LEMMA OverlapKeeps == TypeInv /\ StageInv /\ OverlapInv /\ [Next]_vars => OverlapInv'
<1> SUFFICES ASSUME TypeInv, StageInv, OverlapInv, [Next]_vars PROVE OverlapInv'
  OBVIOUS
<1>0. pc \in [Runs -> Steps] /\ alone \subseteq Runs /\ newest \in Runs
  BY DEF TypeInv
<1>1. CASE UNCHANGED vars \/ Tick
  <2>1. pc' = pc /\ alone' = alone /\ newest' = newest
    BY <1>1 DEF vars, Tick, history
  <2> QED
    BY <2>1 DEF OverlapInv, Active
<1> SUFFICES ASSUME NEW r \in Runs, Start(r) \/ StartRefused(r) \/ Step(r) \/ Kill(r)
             PROVE  OverlapInv'
  BY <1>1 DEF Next
<1>2. CASE Start(r)
  <2>1. /\ pc[r] = "idle" /\ newest' = r
        /\ alone' = IF Active = {} THEN alone ELSE alone \ (Active \cup {r})
        /\ \E x \in {"index", "discover"} : pc' = [pc EXCEPT ![r] = x]
    BY <1>2, StartIs
  <2>2. Active' = Active \cup {r}
    BY <1>0, <2>1 DEF Active
  <2> QED
    BY <1>0, <2>1, <2>2 DEF OverlapInv, Active
<1>3. CASE StartRefused(r)
  <2>1. pc[r] = "idle" /\ pc' = [pc EXCEPT ![r] = "done"] /\ alone' = alone /\ newest' = newest
    BY <1>3 DEF StartRefused, End, Go, history
  <2>2. Active' = Active
    BY <1>0, <2>1 DEF Active
  <2> QED
    BY <1>0, <2>1, <2>2 DEF OverlapInv
<1>4. CASE Step(r) \/ Kill(r)
  <2>1. r \in Active /\ (\E x \in Steps \ {"idle"} : pc' = [pc EXCEPT ![r] = x])
        /\ alone' = alone /\ newest' = newest
    BY <1>4, StepIs DEF Local
  <2>2. Active' \subseteq Active
    BY <1>0, <2>1 DEF Active
  <2> QED
    BY <1>0, <2>1, <2>2 DEF OverlapInv
<1> QED
  BY <1>2, <1>3, <1>4

\* Who overlapped another stays so, and a stamp once taken stays.
LEMMA StampsStay ==
    ASSUME TypeInv, StageInv, OverlapInv, [Next]_vars, NEW q \in Runs
    PROVE  /\ q \notin alone => q \notin alone'
           /\ stamp[q] # 0 => stamp'[q] = stamp[q] /\ scope'[q] = scope[q]
<1>1. CASE UNCHANGED vars \/ Tick
  BY <1>1 DEF vars, Tick, history
<1> SUFFICES ASSUME NEW r \in Runs, Start(r) \/ StartRefused(r) \/ Step(r) \/ Kill(r)
             PROVE  /\ q \notin alone => q \notin alone'
                    /\ stamp[q] # 0 => stamp'[q] = stamp[q] /\ scope'[q] = scope[q]
  BY <1>1 DEF Next
<1>0. stamp \in [Runs -> 0 .. LastStamp] /\ (pc[r] \in Unstamped => stamp[r] = 0)
  BY DEF TypeInv, StageInv, Stage
<1>2. CASE Start(r)
  BY <1>0, <1>2, StartIs
<1>3. CASE StartRefused(r)
  BY <1>3 DEF StartRefused, history
<1>4. CASE Step(r) \/ Kill(r)
  <2>1. /\ alone' = alone /\ scope' = scope
        /\ stamp' = stamp \/ (pc[r] = "download" /\ stamp' = [stamp EXCEPT ![r] = now])
    BY <1>4, StepIs DEF Local
  <2> QED
    BY <1>0, <2>1 DEF Unstamped
<1> QED
  BY <1>2, <1>3, <1>4

\* A contested entry stays contested.
LEMMA ContestedStays ==
    ASSUME TypeInv, StageInv, OverlapInv, [Next]_vars, NEW r \in Runs, Contested(r)
    PROVE  Contested(r)'
<1>1. PICK q \in Runs : /\ q # r /\ q \notin alone /\ r \notin alone
                        /\ scope[q] = scope[r] /\ stamp[q] = stamp[r] /\ stamp[r] # 0
  BY DEF Contested
<1>2. /\ q \notin alone' /\ r \notin alone'
      /\ stamp'[q] = stamp[q] /\ scope'[q] = scope[q] /\ stamp'[r] = stamp[r] /\ scope'[r] = scope[r]
  BY <1>1, StampsStay
<1> QED
  BY <1>1, <1>2 DEF Contested

\* Rivals stay rivals.
LEMMA RivalsStay ==
    ASSUME TypeInv, StageInv, OverlapInv, [Next]_vars, NEW s, NEW t \in Stamps, Rivals(s, t)
    PROVE  Rivals(s, t)'
<1>1. PICK q, r \in Runs \ alone : q # r /\ scope[q] = s /\ scope[r] = s /\ stamp[q] = t /\ stamp[r] = t
  BY DEF Rivals
<1>2. t # 0
  BY DEF Stamps
<1>3. /\ q \notin alone' /\ r \notin alone'
      /\ stamp'[q] = stamp[q] /\ scope'[q] = scope[q] /\ stamp'[r] = stamp[r] /\ scope'[r] = scope[r]
  BY <1>1, <1>2, StampsStay
<1> QED
  BY <1>1, <1>3 DEF Rivals

\* A contested entry has rivals.
LEMMA ContestedAreRivals ==
    ASSUME NEW r \in Runs, Contested(r)
    PROVE  Rivals(scope[r], stamp[r])
  BY DEF Contested, Rivals

\* Two runs at work have overlapped, and if they write one entry contest it.
LEMMA ActiveAreRivals ==
    ASSUME OverlapInv, NEW q \in Runs, NEW r \in Runs, q # r, q \in Active, r \in Active
    PROVE  /\ q \notin alone /\ r \notin alone
           /\ scope[q] = scope[r] /\ stamp[q] = stamp[r] /\ stamp[r] # 0 => Contested(q) /\ Contested(r)
<1>1. q \notin alone /\ r \notin alone
  BY DEF OverlapInv
<1> QED
  BY <1>1 DEF Contested

\* Every step keeps files open together to runs that overlap.
LEMMA MixKeeps ==
    TypeInv /\ StageInv /\ OverlapInv /\ MixInv /\ [Next]_vars => MixInv'
<1> SUFFICES ASSUME TypeInv, StageInv, OverlapInv, MixInv, [Next]_vars, NEW q \in Runs,
                    q \in mixed', pc'[q] \in OpenSteps
             PROVE  /\ q \notin alone'
                    /\ pc'[q] \in {"members_open", "record_open"} => Contested(q)'
  BY DEF MixInv
<1>0. pc \in [Runs -> Steps] /\ mixed \subseteq Runs
  BY DEF TypeInv
<1> DEFINE Mixes(p) == /\ p \notin alone
                       /\ pc'[p] \in {"members_open", "record_open"} => Contested(p)
<1>1. SUFFICES Mixes(q)
  BY <1>1, StampsStay, ContestedStays
<1>2. CASE q \in mixed /\ pc'[q] = pc[q]
  BY <1>2 DEF MixInv
<1>3. CASE UNCHANGED vars \/ Tick
  BY <1>2, <1>3 DEF vars, Tick, history
<1> SUFFICES ASSUME NEW r \in Runs, Start(r) \/ StartRefused(r) \/ Step(r) \/ Kill(r)
             PROVE  Mixes(q)
  BY <1>3 DEF Next
<1>4. CASE Start(r)
  <2>1. mixed' = mixed /\ \E x \in {"index", "discover"} : pc' = [pc EXCEPT ![r] = x]
    BY <1>4, StartIs
  <2> QED
    BY <1>0, <1>2, <2>1, StepsAre
<1>5. CASE StartRefused(r)
  <2>1. mixed' = mixed /\ pc' = [pc EXCEPT ![r] = "done"]
    BY <1>5 DEF StartRefused, End, Go, history
  <2> QED
    BY <1>0, <1>2, <2>1, StepsAre
<1>6. CASE Step(r) \/ Kill(r)
  <2>1. r \in Active /\ \E x \in Steps \ {"idle"} : pc' = [pc EXCEPT ![r] = x]
    BY <1>6, StepIs DEF Local
  <2>2. CASE ~ OpenFile(r)
    <3>1. mixed' = mixed
      BY <1>6, <2>2, StepIs DEF SearchStep, EndStep, ReadsMembers, ReadMembers, ReadsRecord, ReadRecord,
                                Appends, AppendEntry, CloseFile, history
    <3>2. pc'[r] \notin OpenSteps
      <4>1. \A w \in Writes : After(w) \notin OpenSteps
        BY StepsAre DEF Writes
      <4>2. CASE CloseFile(r)
        <5>1. \E w \in Writes : pc' = [pc EXCEPT ![r] = After(w)]
          BY <4>2, StepsAre DEF CloseFile, Go, End, Writes
        <5> QED
          BY <1>0, <4>1, <5>1
      <4>3. CASE ~ CloseFile(r)
        BY <1>6, <2>2, <4>3, StepIs, StepsAre
           DEF SearchStep, Searching, Unstamped, EndStep, ReadsMembers, ReadsRecord, Appends
      <4> QED
        BY <4>2, <4>3
    <3> QED
      BY <1>0, <1>2, <2>1, <3>1, <3>2
  <2>3. CASE OpenFile(r)
    <3>1. PICK w \in Writes :
              /\ pc[r] = w /\ pc' = [pc EXCEPT ![r] = Opened(w)]
              /\ LET others == {p \in Runs \ {r} : \E v \in Writes : pc[p] = Opened(v) /\ Path(p, v) = Path(r, w)}
                 IN  mixed' = IF others = {} THEN mixed \ {r} ELSE mixed \cup others \cup {r}
      BY <2>3 DEF OpenFile, Go
    <3> DEFINE others == {p \in Runs \ {r} : \E v \in Writes : pc[p] = Opened(v) /\ Path(p, v) = Path(r, w)}
    <3>2. \A p \in others : p \in Active /\ p \in Runs
      BY StepsAre DEF Active, Writes
    <3>3. stamp[r] # 0
      BY <3>1 DEF StageInv, Stage, Unstamped, Writes
    <3>4. ASSUME NEW p \in others, pc'[p] \in {"members_open", "record_open"} \/ w \in {"members", "record"}
          PROVE  scope[p] = scope[r] /\ stamp[p] = stamp[r]
      <4>1. PICK v \in Writes : pc[p] = Opened(v) /\ Path(p, v) = Path(r, w)
        OBVIOUS
      <4>2. pc'[p] = pc[p]
        BY <1>0, <3>1
      <4>3. /\ Path(p, v) = IF v = "latest_record" THEN <<Shared, "record", 0>>
                            ELSE IF v = "latest_members" THEN <<Shared, "members", 0>>
                            ELSE <<scope[p], v, stamp[p]>>
            /\ Path(r, w) = IF w = "latest_record" THEN <<Shared, "record", 0>>
                            ELSE IF w = "latest_members" THEN <<Shared, "members", 0>>
                            ELSE <<scope[r], w, stamp[r]>>
        BY PathIs DEF Writes
      <4>4. scope[p] # Shared /\ scope[r] # Shared
        BY <3>2, PathsAre DEF TypeInv
      <4>5. v \in {"members", "record"} \/ w \in {"members", "record"}
        BY <3>4, <4>1, <4>2, StepsAre DEF Writes
      <4> DEFINE entries == {"members", "record"}
      <4>6. CASE v \in entries /\ w \in entries
        <5>1. <<scope[p], v, stamp[p]>> = <<scope[r], w, stamp[r]>>
          BY <4>1, <4>3, <4>6
        <5> QED
          BY <5>1
      <4>7. CASE v \in entries /\ w \notin entries
        <5>1. \E k : <<scope[p], v, stamp[p]>> = <<Shared, k, 0>>
          BY <4>1, <4>3, <4>7 DEF Writes
        <5> QED
          BY <4>4, <5>1
      <4>8. CASE v \notin entries /\ w \in entries
        <5>1. \E k : <<scope[r], w, stamp[r]>> = <<Shared, k, 0>>
          BY <4>1, <4>3, <4>8 DEF Writes
        <5> QED
          BY <4>4, <5>1
      <4> QED
        BY <4>5, <4>6, <4>7, <4>8
    <3>5. CASE q \in others
      <4>1. q # r /\ q \in Active
        BY <3>2, <3>5
      <4> QED
        BY <2>1, <3>3, <3>4, <3>5, <4>1, ActiveAreRivals
    <3>6. CASE q = r /\ others # {}
      <4>1. PICK p \in others : p # r
        BY <3>6
      <4>2. p \in Active /\ p \in Runs
        BY <3>2
      <4>3. pc'[r] \in {"members_open", "record_open"} => w \in {"members", "record"}
        BY <1>0, <3>1, StepsAre DEF Writes
      <4> QED
        BY <2>1, <3>3, <3>4, <3>6, <4>1, <4>2, <4>3, ActiveAreRivals
    <3>7. CASE q \notin others /\ (q # r \/ others = {})
      <4>1. q \in mixed /\ q # r
        BY <3>1, <3>7
      <4> QED
        BY <1>0, <1>2, <3>1, <4>1
    <3> QED
      BY <3>5, <3>6, <3>7
  <2> QED
    BY <2>2, <2>3
<1> QED
  BY <1>4, <1>5, <1>6

-------------------------------------------------------------------------------
(* The disk *)

\* A run past its search keeps its members.
LEMMA SettledStays ==
    ASSUME TypeInv, StageInv, [Next]_vars, NEW q \in Runs, pc[q] \notin Searching
    PROVE  pc'[q] \notin Searching /\ members'[q] = members[q]
<1>0. pc \in [Runs -> Steps]
  BY DEF TypeInv
<1>1. CASE UNCHANGED vars \/ Tick
  BY <1>1 DEF vars, Tick
<1> SUFFICES ASSUME NEW r \in Runs, Start(r) \/ StartRefused(r) \/ Step(r) \/ Kill(r)
             PROVE  pc'[q] \notin Searching /\ members'[q] = members[q]
  BY <1>1 DEF Next
<1>2. CASE Start(r)
  BY <1>0, <1>2, StartIs DEF Searching, Unstamped
<1>3. CASE StartRefused(r)
  BY <1>0, <1>3 DEF StartRefused, End, Go, Searching, Unstamped
<1>4. CASE Step(r) \/ Kill(r)
  <2>1. Local(r)
    BY <1>4, StepIs
  <2>2. CASE q # r
    BY <1>0, <2>1, <2>2 DEF Local
  <2>3. CASE q = r
    <3>1. ~ SearchStep(r)
      BY <2>3 DEF SearchStep
    <3>2. CASE EndStep(r)
      BY <2>3, <3>2 DEF EndStep, Searching, Unstamped
    <3>3. CASE ReadsMembers(r) \/ ReadsRecord(r) \/ Appends(r)
      BY <2>3, <3>3 DEF ReadsMembers, ReadMembers, ReadsRecord, ReadRecord, Appends, AppendEntry,
                        Searching, Unstamped
    <3>4. CASE OpenFile(r)
      <4>1. \E w \in Writes : pc'[r] = Opened(w)
        BY <1>0, <3>4 DEF OpenFile, Go
      <4> QED
        BY <2>3, <3>4, <4>1, StepsAre DEF OpenFile, Writes, Searching, Unstamped
    <3>5. CASE CloseFile(r)
      <4>1. \E w \in Writes : pc'[r] = After(w)
        BY <1>0, <3>5, StepsAre DEF CloseFile, Go, End, Writes
      <4> QED
        BY <2>3, <3>5, <4>1, StepsAre DEF CloseFile, Writes, Searching, Unstamped
    <3> QED
      BY <1>4, <3>1, <3>2, <3>3, <3>4, <3>5, StepIs
  <2> QED
    BY <2>2, <2>3
<1> QED
  BY <1>2, <1>3, <1>4

\* A run puts something into one of its four files.
Puts(r, w, content) == disk' = [disk EXCEPT ![Path(r, w)] = content]

\* What a write changes of the history and of the shared files.
LEMMA PutIs ==
    ASSUME TypeInv, NEW r \in Runs, NEW w \in Writes, NEW content, Puts(r, w, content)
    PROVE  /\ \A s \in Scopes, k \in {"members", "record"}, t \in Stamps :
                 disk'[<<s, k, t>>] = IF s = scope[r] /\ k = w /\ t = stamp[r] THEN content
                                      ELSE disk[<<s, k, t>>]
           /\ disk'[<<Shared, "record", 0>>] = IF w = "latest_record" THEN content
                                               ELSE disk[<<Shared, "record", 0>>]
           /\ disk'[<<Shared, "members", 0>>] = IF w = "latest_members" THEN content
                                                ELSE disk[<<Shared, "members", 0>>]
<1> DEFINE path == Path(r, w)
<1>1. path = IF w = "latest_record" THEN <<Shared, "record", 0>>
             ELSE IF w = "latest_members" THEN <<Shared, "members", 0>>
             ELSE <<scope[r], w, stamp[r]>>
  BY PathIs DEF Writes
<1>2. disk' = [disk EXCEPT ![path] = content] /\ DOMAIN disk = Paths
  BY DEF Puts, TypeInv
<1>3. scope[r] # Shared /\ \A s \in Scopes : s # Shared
  BY PathsAre DEF TypeInv
<1> HIDE DEF path
<1>4. ASSUME NEW s \in Scopes, NEW k \in {"members", "record"}, NEW t \in Stamps
      PROVE  disk'[<<s, k, t>>] = IF s = scope[r] /\ k = w /\ t = stamp[r] THEN content
                                  ELSE disk[<<s, k, t>>]
  <2>1. <<s, k, t>> \in Paths
    BY PathsAre
  <2>2. path = <<s, k, t>> <=> s = scope[r] /\ k = w /\ t = stamp[r]
    <3>1. CASE w \in {"latest_record", "latest_members"}
      BY <1>1, <1>3, <3>1
    <3>2. CASE w \in {"members", "record"}
      BY <1>1, <3>2
    <3> QED
      BY <3>1, <3>2 DEF Writes
  <2> QED
    BY <1>2, <2>1, <2>2
<1>5. ASSUME NEW k \in {"members", "record"}
      PROVE  disk'[<<Shared, k, 0>>] = IF path = <<Shared, k, 0>> THEN content ELSE disk[<<Shared, k, 0>>]
  <2>1. <<Shared, k, 0>> \in Paths
    BY PathsAre
  <2> QED
    BY <1>2, <2>1
<1>6. /\ path = <<Shared, "record", 0>> <=> w = "latest_record"
      /\ path = <<Shared, "members", 0>> <=> w = "latest_members"
  BY <1>1, <1>3
<1> QED
  BY <1>4, <1>5, <1>6

\* A file opened, and a file closed.
LEMMA OpenIs ==
    ASSUME TypeInv, StageInv, NEW r \in Runs, OpenFile(r)
    PROVE  /\ \E w \in Writes : pc[r] = w /\ pc' = [pc EXCEPT ![r] = Opened(w)] /\ Puts(r, w, Torn)
           /\ scope[r] \in Scopes /\ stamp[r] \in Stamps
           /\ UNCHANGED <<now, scope, stamp, members, previous, drift, code, alone, newest>>
<1>1. scope[r] \in Scopes /\ stamp[r] \in 0 .. LastStamp
  BY DEF TypeInv
<1>2. stamp[r] # 0
  BY DEF OpenFile, StageInv, Stage, Unstamped, Writes
<1>3. stamp[r] \in Stamps
  BY <1>1, <1>2 DEF Stamps
<1> QED
  BY <1>1, <1>3 DEF OpenFile, Go, Puts, result

\* A file closed holds the rows of its run, or is torn if it was shared.
LEMMA CloseIs ==
    ASSUME TypeInv, StageInv, NEW r \in Runs, CloseFile(r)
    PROVE  /\ \E w \in Writes, content \in {r, Torn} :
                 /\ pc[r] = Opened(w) /\ pc' = [pc EXCEPT ![r] = After(w)] /\ Puts(r, w, content)
                 /\ content = Torn => r \in mixed
                 /\ code' = IF w = "record" THEN [code EXCEPT ![r] = "0"] ELSE code
           /\ scope[r] \in Scopes /\ stamp[r] \in Stamps
           /\ UNCHANGED <<now, scope, stamp, members, previous, drift, alone, newest>>
<1>1. scope[r] \in Scopes /\ stamp[r] \in 0 .. LastStamp
  BY DEF TypeInv
<1>2. PICK w \in Writes :
        /\ pc[r] = Opened(w)
        /\ IF After(w) = "done" THEN End(r, "0") ELSE Go(r, After(w)) /\ UNCHANGED code
        /\ \E content \in {r} \cup (IF r \in mixed THEN {Torn} ELSE {}) :
              disk' = [disk EXCEPT ![Path(r, w)] = content]
  BY DEF CloseFile
<1>3. stamp[r] # 0
  BY <1>2, StepsAre DEF StageInv, Stage, Unstamped, Writes
<1>4. stamp[r] \in Stamps
  BY <1>1, <1>3 DEF Stamps
<1>5. PICK content \in {r} \cup (IF r \in mixed THEN {Torn} ELSE {}) : Puts(r, w, content)
  BY <1>2 DEF Puts
<1>6. Torn \notin Runs
  BY RunsAreNoContents
<1>7. content \in {r, Torn} /\ (content = Torn => r \in mixed)
  BY <1>5, <1>6
<1>8. /\ pc' = [pc EXCEPT ![r] = After(w)]
      /\ code' = IF w = "record" THEN [code EXCEPT ![r] = "0"] ELSE code
  BY <1>2, StepsAre DEF Go, End, Writes
<1> QED
  BY <1>1, <1>2, <1>4, <1>5, <1>7, <1>8 DEF CloseFile, result, history

\* Any other step leaves the disk alone.
LEMMA DiskStays ==
    ASSUME TypeInv, StageInv, NEW r \in Runs, Step(r) \/ Kill(r), ~ OpenFile(r), ~ CloseFile(r)
    PROVE  disk' = disk
  BY StepIs DEF SearchStep, EndStep, ReadsMembers, ReadMembers, ReadsRecord, ReadRecord, Appends, AppendEntry

\* So nothing but the opening and the closing of a file changes the disk.
LEMMA DiskChanges ==
    ASSUME TypeInv, StageInv, [Next]_vars
    PROVE  disk' = disk \/ \E r \in Runs : OpenFile(r) \/ CloseFile(r)
<1>1. CASE UNCHANGED vars \/ Tick
  BY <1>1 DEF vars, Tick
<1>2. ASSUME NEW r \in Runs, Start(r) \/ StartRefused(r)
      PROVE  disk' = disk
  BY <1>2 DEF Start, StartRefused
<1>3. ASSUME NEW r \in Runs, Step(r) \/ Kill(r), ~ OpenFile(r), ~ CloseFile(r)
      PROVE  disk' = disk
  BY <1>3, DiskStays
<1> QED
  BY <1>1, <1>2, <1>3 DEF Next

\* Every step keeps what is on the disk in order.
LEMMA DiskKeeps == TypeInv /\ StageInv /\ DiskInv /\ [Next]_vars => DiskInv'
<1> SUFFICES ASSUME TypeInv, StageInv, DiskInv, [Next]_vars PROVE DiskInv'
  OBVIOUS
<1>1. now' >= now /\ now \in Nat /\ now' \in Nat
  <2>1. now \in Stamps /\ now' \in Stamps
    BY TypeKeeps DEF TypeInv
  <2>2. now' = now \/ now' = now + 1
    <3>1. ASSUME NEW r \in Runs, Start(r) \/ StartRefused(r) \/ Step(r) \/ Kill(r)
          PROVE  now' = now
      BY <3>1, StepIs DEF Start, StartRefused, Local
    <3> QED
      BY <3>1 DEF Next, Tick, vars
  <2> QED
    BY <2>1, <2>2 DEF Stamps
<1>2. \A s \in Scopes : \A t \in Listed(s) : t \in Nat
  BY DEF Listed, Stamps
<1>3. CASE disk' = disk
  <2>1. \A p \in Paths : disk'[p] \in Runs => pc'[disk'[p]] \notin Searching
    BY <1>3, SettledStays DEF DiskInv
  <2>2. \A s \in Scopes : Listed(s)' = Listed(s)
    BY <1>3 DEF Listed
  <2> QED
    BY <1>1, <1>2, <2>1, <2>2 DEF DiskInv
<1>4. ASSUME NEW r \in Runs, NEW w \in Writes, NEW content \in {r, Torn}, Puts(r, w, content),
             content = r => pc'[r] \notin Searching,
             scope[r] \in Scopes, stamp[r] \in Stamps
      PROVE  DiskInv'
  <2>1. ASSUME NEW p \in Paths, disk'[p] \in Runs PROVE pc'[disk'[p]] \notin Searching
    <3>1. disk'[p] = disk[p] \/ disk'[p] = content
      BY <1>4 DEF Puts, TypeInv
    <3>2. Torn \notin Runs
      BY RunsAreNoContents
    <3> QED
      BY <1>4, <2>1, <3>1, <3>2, SettledStays DEF DiskInv
  <2>2. ASSUME NEW s \in Scopes, NEW t \in Listed(s)' PROVE t <= now'
    <3>1. t \in Stamps /\ disk'[<<s, "record", t>>] # NoFile
      BY DEF Listed
    <3>2. t = stamp[r] \/ t \in Listed(s)
      BY <1>4, <3>1, PutIs DEF Listed
    <3>3. stamp[r] <= now
      BY DEF StageInv, Stage
    <3> QED
      BY <1>1, <3>1, <3>2, <3>3 DEF DiskInv, Stamps
  <2> QED
    BY <2>1, <2>2 DEF DiskInv
<1>5. ASSUME NEW r \in Runs, OpenFile(r) PROVE DiskInv'
  <2>1. r # Torn
    BY RunsAreNoContents
  <2> QED
    BY <1>4, <1>5, <2>1, OpenIs
<1>6. ASSUME NEW r \in Runs, CloseFile(r) PROVE DiskInv'
  <2>1. \A w \in Writes : After(w) \notin Searching
    BY StepsAre DEF Writes, Searching, Unstamped
  <2>2. pc \in [Runs -> Steps]
    BY DEF TypeInv
  <2> QED
    BY <1>4, <1>6, <2>1, <2>2, CloseIs
<1> QED
  BY <1>3, <1>5, <1>6, DiskChanges

-------------------------------------------------------------------------------
(* The entries of the history *)

\* A run that has a file open by itself leaves its own rows in it.
LEMMA ClosesWhole ==
    ASSUME TypeInv, StageInv, MixInv, NEW r \in Runs, CloseFile(r)
    PROVE  \E w \in Writes, content \in {r, Torn} :
              /\ pc[r] = Opened(w) /\ pc' = [pc EXCEPT ![r] = After(w)] /\ Puts(r, w, content)
              /\ r \in alone => content = r
              /\ w \in {"members", "record"} /\ ~ Contested(r) => content = r
              /\ code' = IF w = "record" THEN [code EXCEPT ![r] = "0"] ELSE code
<1>1. PICK w \in Writes, content \in {r, Torn} :
          /\ pc[r] = Opened(w) /\ pc' = [pc EXCEPT ![r] = After(w)] /\ Puts(r, w, content)
          /\ content = Torn => r \in mixed
          /\ code' = IF w = "record" THEN [code EXCEPT ![r] = "0"] ELSE code
  BY CloseIs
<1>2. pc[r] \in OpenSteps /\ (w \in {"members", "record"} => pc[r] \in {"members_open", "record_open"})
  BY <1>1, StepsAre DEF Writes
<1> QED
  BY <1>1, <1>2 DEF MixInv

\* Whoever writes into the entry of another run at work contests it.
LEMMA EntryOfAnother ==
    ASSUME TypeInv, StageInv, OverlapInv, NEW q \in Runs, NEW r \in Runs, q # r,
           q \in Active, r \in Active, ~ Contested(q), stamp[q] \in Stamps,
           NEW w \in Writes, NEW content, Puts(r, w, content)
    PROVE  \A k \in {"members", "record"} :
              disk'[<<scope[q], k, stamp[q]>>] = disk[<<scope[q], k, stamp[q]>>]
<1>1. stamp[q] # 0 /\ scope[q] \in Scopes
  BY DEF Stamps, TypeInv
<1>2. scope[q] # scope[r] \/ stamp[q] # stamp[r]
  BY <1>1, ActiveAreRivals
<1> QED
  BY <1>1, <1>2, PutIs

\* A run at one of the steps of its entry.
LEMMA WritersAre ==
    ASSUME TypeInv, StageInv, NEW q \in Runs, pc[q] \in EntrySteps
    PROVE  q \in Active /\ stamp[q] \in Stamps /\ scope[q] \in Scopes
<1>1. stamp[q] \in 0 .. LastStamp /\ scope[q] \in Scopes /\ stamp[q] # 0
  BY DEF TypeInv, StageInv, Stage, EntrySteps, Unstamped
<1>2. stamp[q] \in Stamps
  BY <1>1 DEF Stamps
<1> QED
  BY <1>1, <1>2 DEF Active, EntrySteps

\* Every step leaves a run that alone writes its entry with what it wrote.
LEMMA EntryKeeps ==
    TypeInv /\ StageInv /\ OverlapInv /\ MixInv /\ EntryInv /\ [Next]_vars => EntryInv'
<1> SUFFICES ASSUME TypeInv, StageInv, OverlapInv, MixInv, EntryInv, [Next]_vars, NEW q \in Runs,
                    ~ Contested(q)', pc'[q] \in EntrySteps
             PROVE
                /\ pc'[q] = "members" => Entry(q, "members")' = NoFile /\ Entry(q, "record")' = NoFile
                /\ pc'[q] = "members_open" => Entry(q, "members")' = Torn /\ Entry(q, "record")' = NoFile
                /\ pc'[q] = "record" => Entry(q, "members")' = q /\ Entry(q, "record")' = NoFile
                /\ pc'[q] = "record_open" => Entry(q, "members")' = q /\ Entry(q, "record")' = Torn
  BY DEF EntryInv, EntrySteps
<1> DEFINE Goal ==
       /\ pc'[q] = "members" => Entry(q, "members")' = NoFile /\ Entry(q, "record")' = NoFile
       /\ pc'[q] = "members_open" => Entry(q, "members")' = Torn /\ Entry(q, "record")' = NoFile
       /\ pc'[q] = "record" => Entry(q, "members")' = q /\ Entry(q, "record")' = NoFile
       /\ pc'[q] = "record_open" => Entry(q, "members")' = q /\ Entry(q, "record")' = Torn
<1>0. ~ Contested(q) /\ pc \in [Runs -> Steps]
  BY ContestedStays DEF TypeInv
<1>1. ASSUME pc'[q] = pc[q],
             \A k \in {"members", "record"} :
                 disk'[<<scope[q], k, stamp[q]>>] = disk[<<scope[q], k, stamp[q]>>]
      PROVE  Goal
  <2>1. stamp[q] # 0
    BY <1>1, WritersAre DEF Stamps
  <2>2. stamp'[q] = stamp[q] /\ scope'[q] = scope[q]
    BY <2>1, StampsStay
  <2> QED
    BY <1>0, <1>1, <2>2 DEF EntryInv, Entry
<1>2. CASE UNCHANGED vars \/ Tick
  BY <1>1, <1>2 DEF vars, Tick
<1> SUFFICES ASSUME NEW r \in Runs, Start(r) \/ StartRefused(r) \/ Step(r) \/ Kill(r)
             PROVE  Goal
  BY <1>2 DEF Next
<1>3. CASE Start(r) \/ StartRefused(r)
  <2>1. disk' = disk
    BY <1>3 DEF Start, StartRefused
  <2>2. \E x \in {"index", "discover", "done"} : pc' = [pc EXCEPT ![r] = x]
    BY <1>3 DEF Start, StartRefused, End, Go
  <2>3. q # r
    BY <1>0, <2>2 DEF EntrySteps
  <2> QED
    BY <1>0, <1>1, <2>1, <2>2, <2>3
<1> SUFFICES ASSUME Step(r) \/ Kill(r) PROVE Goal
  BY <1>3
<1>4. Local(r)
  BY StepIs
<1>5. CASE q # r
  <2>1. pc'[q] = pc[q] /\ r \in Active
    BY <1>0, <1>4, <1>5 DEF Local
  <2>2. q \in Active /\ stamp[q] \in Stamps
    BY <2>1, WritersAre
  <2>3. CASE disk' = disk
    BY <1>1, <2>1, <2>3
  <2>4. CASE OpenFile(r) \/ CloseFile(r)
    <3>1. \E w \in Writes, content \in {r, Torn} : Puts(r, w, content)
      BY <2>4, OpenIs, CloseIs
    <3> QED
      BY <1>0, <1>1, <1>5, <2>1, <2>2, <3>1, EntryOfAnother
  <2> QED
    BY <2>3, <2>4, DiskStays
<1>6. CASE q = r
  <2>1. CASE SearchStep(r) \/ EndStep(r) \/ ReadsMembers(r) \/ ReadsRecord(r)
    BY <1>6, <2>1 DEF SearchStep, EndStep, ReadsMembers, ReadsRecord, EntrySteps, Searching, Unstamped
  <2>2. CASE Appends(r)
    <3>1. disk' = disk /\ scope' = scope /\ stamp' = stamp /\ pc'[r] = "members"
      BY <2>2 DEF Appends, AppendEntry
    <3>2. \A k \in {"members", "record"} : disk[<<scope[r], k, stamp[r]>>] = NoFile
      <4>1. CASE \E k \in {"members", "record"} : disk[<<scope[r], k, stamp[r]>>] # NoFile
        <5>1. End(r, "raised")
          BY <2>2, <4>1 DEF Appends, AppendEntry
        <5> QED
          BY <1>0, <3>1, <5>1 DEF End, Go
      <4> QED
        BY <4>1
    <3> QED
      BY <1>6, <3>1, <3>2 DEF Entry
  <2>3. CASE OpenFile(r)
    <3>1. PICK w \in Writes : pc[r] = w /\ pc' = [pc EXCEPT ![r] = Opened(w)] /\ Puts(r, w, Torn)
      BY <2>3, OpenIs
    <3>2. scope' = scope /\ stamp' = stamp /\ scope[r] \in Scopes /\ stamp[r] \in Stamps
      BY <2>3, OpenIs
    <3>3. pc'[r] = Opened(w)
      BY <1>0, <3>1
    <3>4. w \in {"members", "record"}
      BY <1>6, <3>3, StepsAre DEF Writes, EntrySteps
    <3>5. \A k \in {"members", "record"} :
              Entry(r, k)' = IF k = w THEN Torn ELSE Entry(r, k)
      BY <3>1, <3>2, PutIs DEF Entry
    <3>6. /\ w = "members" => Entry(r, "members") = NoFile /\ Entry(r, "record") = NoFile
          /\ w = "record" => Entry(r, "members") = r /\ Entry(r, "record") = NoFile
      BY <1>0, <1>6, <3>1 DEF EntryInv
    <3> QED
      BY <1>6, <3>3, <3>4, <3>5, <3>6, StepsAre
  <2>4. CASE CloseFile(r)
    <3>1. PICK w \in Writes, content \in {r, Torn} :
              /\ pc[r] = Opened(w) /\ pc' = [pc EXCEPT ![r] = After(w)] /\ Puts(r, w, content)
              /\ w \in {"members", "record"} /\ ~ Contested(r) => content = r
      BY <2>4, ClosesWhole
    <3>2. scope' = scope /\ stamp' = stamp /\ scope[r] \in Scopes /\ stamp[r] \in Stamps
      BY <2>4, CloseIs
    <3>3. pc'[r] = After(w)
      BY <1>0, <3>1
    <3>4. w = "members" /\ pc'[r] = "record" /\ pc[r] = "members_open" /\ content = r
      BY <1>0, <1>6, <3>1, <3>3, StepsAre DEF Writes, EntrySteps
    <3>5. \A k \in {"members", "record"} :
              Entry(r, k)' = IF k = w THEN content ELSE Entry(r, k)
      BY <3>1, <3>2, PutIs DEF Entry
    <3> QED
      BY <1>0, <1>6, <3>4, <3>5 DEF EntryInv
  <2> QED
    BY <2>1, <2>2, <2>3, <2>4, StepIs
<1> QED
  BY <1>5, <1>6

\* Every step leaves the listed entries whole.
LEMMA WholeKeeps ==
    IInv /\ [Next]_vars => HistoryEntriesWhole'
<1> SUFFICES ASSUME IInv, [Next]_vars, NEW s \in Scopes, NEW t \in Stamps,
                    disk'[<<s, "record", t>>] # NoFile, ~ Rivals(s, t)'
             PROVE  /\ disk'[<<s, "members", t>>] \in Runs
                    /\ disk'[<<s, "record", t>>] \in {Torn, disk'[<<s, "members", t>>]}
  BY DEF HistoryEntriesWhole, Listed
<1> USE DEF IInv
<1> DEFINE Goal == /\ disk'[<<s, "members", t>>] \in Runs
                   /\ disk'[<<s, "record", t>>] \in {Torn, disk'[<<s, "members", t>>]}
<1>0. ~ Rivals(s, t)
  BY RivalsStay
<1>1. ASSUME \A k \in {"members", "record"} : disk'[<<s, k, t>>] = disk[<<s, k, t>>]
      PROVE  Goal
  BY <1>0, <1>1 DEF HistoryEntriesWhole, Listed
<1>2. ASSUME NEW r \in Runs, NEW w \in Writes, NEW content, Puts(r, w, content),
             ~ (s = scope[r] /\ t = stamp[r] /\ w \in {"members", "record"})
      PROVE  Goal
  BY <1>1, <1>2, PutIs
<1>3. ASSUME NEW r \in Runs, s = scope[r], t = stamp[r]
      PROVE  ~ Contested(r)
  BY <1>0, <1>3, ContestedAreRivals
<1>4. ASSUME NEW r \in Runs, OpenFile(r) PROVE Goal
  <2>1. PICK w \in Writes : pc[r] = w /\ Puts(r, w, Torn)
    BY <1>4, OpenIs
  <2>2. CASE s = scope[r] /\ t = stamp[r] /\ w \in {"members", "record"}
    <3>1. \A k \in {"members", "record"} :
              disk'[<<s, k, t>>] = IF k = w THEN Torn ELSE disk[<<s, k, t>>]
      BY <2>1, <2>2, PutIs
    <3>2. /\ w = "members" => disk[<<s, "record", t>>] = NoFile
          /\ w = "record" => disk[<<s, "members", t>>] = r
      BY <1>3, <2>1, <2>2 DEF EntryInv, Entry
    <3> QED
      BY <2>2, <3>1, <3>2
  <2> QED
    BY <1>2, <2>1, <2>2
<1>5. ASSUME NEW r \in Runs, CloseFile(r) PROVE Goal
  <2>1. PICK w \in Writes, content \in {r, Torn} :
            /\ pc[r] = Opened(w) /\ Puts(r, w, content)
            /\ w \in {"members", "record"} /\ ~ Contested(r) => content = r
    BY <1>5, ClosesWhole
  <2>2. CASE s = scope[r] /\ t = stamp[r] /\ w \in {"members", "record"}
    <3>1. content = r /\ pc[r] \in {"members_open", "record_open"}
          /\ (w = "members" <=> pc[r] = "members_open")
      BY <1>3, <2>1, <2>2, StepsAre
    <3>2. \A k \in {"members", "record"} :
              disk'[<<s, k, t>>] = IF k = w THEN r ELSE disk[<<s, k, t>>]
      BY <2>1, <2>2, <3>1, PutIs
    <3>3. /\ w = "members" => disk[<<s, "record", t>>] = NoFile
          /\ w = "record" => disk[<<s, "members", t>>] = r
      BY <1>3, <2>2, <3>1 DEF EntryInv, Entry
    <3> QED
      BY <2>2, <3>2, <3>3
  <2> QED
    BY <1>2, <2>1, <2>2
<1>6. CASE disk' = disk
  BY <1>1, <1>6
<1> QED
  BY <1>4, <1>5, <1>6, DiskChanges

\* No step changes an entry that is whole and has no rivals.
LEMMA EntryStays ==
    ASSUME IInv, [Next]_vars, NEW s \in Scopes, NEW t \in Stamps,
           disk[<<s, "members", t>>] \in Runs, disk[<<s, "record", t>>] \in Runs, ~ Rivals(s, t)
    PROVE  \A k \in {"members", "record"} : disk'[<<s, k, t>>] = disk[<<s, k, t>>]
<1> USE DEF IInv
<1>1. NoFile \notin Runs /\ Torn \notin Runs
  BY RunsAreNoContents
<1>2. ASSUME NEW r \in Runs, s = scope[r], t = stamp[r]
      PROVE  pc[r] \notin EntrySteps
  <2>1. ~ Contested(r)
    BY <1>2, ContestedAreRivals
  <2> QED
    BY <1>1, <1>2, <2>1 DEF EntryInv, Entry, EntrySteps
<1>3. ASSUME NEW r \in Runs, OpenFile(r) \/ CloseFile(r)
      PROVE  \A k \in {"members", "record"} : disk'[<<s, k, t>>] = disk[<<s, k, t>>]
  <2>1. \E w \in Writes, content \in {r, Torn} :
            Puts(r, w, content) /\ (pc[r] = w \/ pc[r] = Opened(w))
    BY <1>3, OpenIs, CloseIs
  <2>2. PICK w \in Writes, content \in {r, Torn} :
            Puts(r, w, content) /\ (pc[r] = w \/ pc[r] = Opened(w))
    BY <2>1
  <2>3. w \in {"members", "record"} => pc[r] \in EntrySteps
    BY <2>2, StepsAre DEF EntrySteps
  <2>4. ~ (s = scope[r] /\ t = stamp[r] /\ w \in {"members", "record"})
    BY <1>2, <2>3
  <2> QED
    BY <2>2, <2>4, PutIs
<1> QED
  BY <1>3, DiskChanges

-------------------------------------------------------------------------------
(* The newest run *)

\* Only a run that starts takes the place of the newest, and if nothing
\* overlapped it no other works.
LEMMA NewestIs ==
    ASSUME TypeInv, StageInv, OverlapInv, NEW r \in Runs, StartRefused(r) \/ Step(r) \/ Kill(r),
           newest \in alone
    PROVE  newest' = newest /\ alone' = alone /\ (r = newest \/ (StartRefused(r) /\ r # newest))
<1>1. CASE StartRefused(r)
  BY <1>1 DEF StartRefused, history, OverlapInv
<1>2. CASE Step(r) \/ Kill(r)
  <2>1. newest' = newest /\ alone' = alone /\ r \in Active
    BY <1>2, StepIs DEF Local
  <2>2. Active \subseteq {newest}
    BY DEF OverlapInv
  <2> QED
    BY <2>1, <2>2
<1> QED
  BY <1>1, <1>2

\* Every step leaves the newest run, if alone, with its shared files.
LEMMA NewestKeeps == IInv /\ [Next]_vars => NewestInv'
<1> SUFFICES ASSUME IInv, [Next]_vars, newest' \in alone' PROVE NewestInv'
  BY DEF NewestInv
<1> USE DEF IInv
<1>0. /\ pc \in [Runs -> Steps] /\ code \in [Runs -> Codes] /\ newest \in Runs /\ alone \subseteq Runs
      /\ scope \in [Runs -> Scopes] /\ stamp \in [Runs -> 0 .. LastStamp] /\ now \in Stamps
  BY DEF TypeInv
<1>1. CASE UNCHANGED vars \/ Tick
  <2>1. /\ disk' = disk /\ scope' = scope /\ stamp' = stamp /\ pc' = pc /\ code' = code
        /\ newest' = newest /\ alone' = alone
    BY <1>1 DEF vars, Tick, result, history
  <2> QED
    BY <2>1 DEF NewestInv, Entry, Listed
<1> SUFFICES ASSUME NEW r \in Runs, Start(r) \/ StartRefused(r) \/ Step(r) \/ Kill(r)
             PROVE  NewestInv'
  BY <1>1 DEF Next
<1>2. CASE Start(r)
  <2>1. /\ pc[r] = "idle" /\ stamp[r] = 0 /\ code[r] = "none" /\ newest' = r
        /\ \E x \in {"index", "discover"} : pc' = [pc EXCEPT ![r] = x]
        /\ stamp' = stamp \/ stamp' = [stamp EXCEPT ![r] = now]
        /\ disk' = disk /\ code' = code /\ now' = now
    BY <1>2, StartIs
  <2>2. pc'[r] \in {"index", "discover"} /\ code'[r] = "none"
    BY <1>0, <2>1
  <2>3. stamp'[r] # 0 => \A t \in Listed(scope[r])' : t <= stamp'[r]
    <3>1. stamp'[r] # 0 => stamp'[r] = now
      BY <1>0, <2>1
    <3>2. scope'[r] \in Scopes
      BY TypeKeeps DEF TypeInv
    <3>3. \A t \in Listed(scope[r])' : t <= now
      BY <2>1, <3>2 DEF DiskInv, Listed
    <3> QED
      BY <3>1, <3>3
  <2> QED
    BY <2>1, <2>2, <2>3 DEF NewestInv, EntrySteps, Listed
<1> SUFFICES ASSUME StartRefused(r) \/ Step(r) \/ Kill(r) PROVE NewestInv'
  BY <1>2
<1>3. newest' = newest /\ alone' = alone /\ newest \in alone
  <2>1. newest' = newest /\ alone' = alone
    BY StepIs DEF StartRefused, history, Local
  <2> QED
    BY <2>1
<1>4. CASE StartRefused(r)
  <2>1. /\ disk' = disk /\ scope' = scope /\ stamp' = stamp /\ r # newest
        /\ pc' = [pc EXCEPT ![r] = "done"] /\ code' = [code EXCEPT ![r] = "1"]
    BY <1>3, <1>4, NewestIs DEF StartRefused, End, Go, OverlapInv
  <2>2. pc'[newest] = pc[newest] /\ code'[newest] = code[newest]
    BY <1>0, <2>1
  <2> QED
    BY <1>3, <2>1, <2>2 DEF NewestInv, Entry, Listed
<1>5. CASE Step(r) \/ Kill(r)
  <2>1. r = newest /\ Local(r)
    BY <1>3, <1>5, NewestIs, StepIs DEF StartRefused, Local, Active
  <2> DEFINE Own == <<scope[r], stamp[r]>>
  <2>2. CASE SearchStep(r) \/ EndStep(r)
    <3>1. pc'[r] \in Searching \cup {"compare", "done"} /\ code'[r] # "0" /\ disk' = disk /\ scope' = scope
      BY <2>1, <2>2 DEF SearchStep, EndStep, Local
    <3>2. stamp'[r] = stamp[r] \/ stamp'[r] = now
      BY <1>0, <2>1 DEF Local
    <3>3. \A t \in Listed(scope[r]) : t <= now
      BY <1>0 DEF DiskInv
    <3>4. stamp'[r] # 0 => \A t \in Listed(scope[r]) : t <= stamp'[r]
      BY <1>3, <2>1, <3>2, <3>3 DEF NewestInv
    <3> QED
      BY <1>3, <2>1, <3>1, <3>4 DEF NewestInv, Listed, Searching, Unstamped, EntrySteps
  <2>3. CASE ReadsMembers(r) \/ ReadsRecord(r) \/ Appends(r)
    <3>1. /\ disk' = disk /\ scope' = scope /\ stamp' = stamp /\ code'[r] # "0"
          /\ \/ pc'[r] \in {"compare_record", "latest_record"}
             \/ pc[r] = "append" /\ pc'[r] = "members"
      <4>1. TypeInv' /\ StageInv'
        BY TypeKeeps, StageKeeps
      <4>2. code'[r] = "none" <=> pc'[r] # "done"
        BY <4>1 DEF StageInv, Stage
      <4> QED
        BY <2>3, <4>2 DEF ReadsMembers, ReadMembers, ReadsRecord, ReadRecord, Appends, AppendEntry
    <3> QED
      BY <1>3, <2>1, <3>1 DEF NewestInv, Listed, EntrySteps
  <2>4. CASE OpenFile(r)
    <3>1. PICK w \in Writes : pc[r] = w /\ pc' = [pc EXCEPT ![r] = Opened(w)] /\ Puts(r, w, Torn)
      BY <2>4, OpenIs
    <3>2. scope' = scope /\ stamp' = stamp /\ code' = code /\ scope[r] \in Scopes /\ stamp[r] \in Stamps
      BY <2>4, OpenIs
    <3>3. pc'[r] = Opened(w) /\ code[r] # "0"
      BY <1>0, <3>1 DEF StageInv, Stage, Writes
    <3>4. \A t \in Listed(scope[r])' : t <= stamp[r]
      <4>1. \A t \in Listed(scope[r])' : t = stamp[r] \/ t \in Listed(scope[r])
        BY <3>1, <3>2, PutIs DEF Listed
      <4> QED
        BY <1>3, <2>1, <3>2, <4>1 DEF NewestInv, Stamps
    <3>5. /\ disk'[<<Shared, "record", 0>>] = IF w = "latest_record" THEN Torn ELSE disk[<<Shared, "record", 0>>]
          /\ disk'[<<Shared, "members", 0>>] = IF w = "latest_members" THEN Torn ELSE disk[<<Shared, "members", 0>>]
      BY <3>1, PutIs
    <3> QED
      BY <1>3, <2>1, <3>1, <3>2, <3>3, <3>4, <3>5, StepsAre DEF NewestInv, Writes, EntrySteps, Listed
  <2>5. CASE CloseFile(r)
    <3>1. PICK w \in Writes, content \in {r, Torn} :
              /\ pc[r] = Opened(w) /\ pc' = [pc EXCEPT ![r] = After(w)] /\ Puts(r, w, content)
              /\ r \in alone => content = r
              /\ code' = IF w = "record" THEN [code EXCEPT ![r] = "0"] ELSE code
      BY <2>5, ClosesWhole
    <3>2. scope' = scope /\ stamp' = stamp /\ scope[r] \in Scopes /\ stamp[r] \in Stamps /\ content = r
      BY <1>3, <2>1, <2>5, <3>1, CloseIs
    <3>3. /\ pc'[r] = After(w) /\ code[r] # "0"
          /\ code'[r] = IF w = "record" THEN "0" ELSE code[r]
      BY <1>0, <3>1, StepsAre DEF StageInv, Stage, Writes
    <3>4. \A t \in Listed(scope[r])' : t <= stamp[r]
      <4>1. \A t \in Listed(scope[r])' : t = stamp[r] \/ t \in Listed(scope[r])
        BY <3>1, <3>2, PutIs DEF Listed
      <4> QED
        BY <1>3, <2>1, <3>2, <4>1 DEF NewestInv, Stamps
    <3>5. /\ disk'[<<Shared, "record", 0>>] = IF w = "latest_record" THEN r ELSE disk[<<Shared, "record", 0>>]
          /\ disk'[<<Shared, "members", 0>>] = IF w = "latest_members" THEN r ELSE disk[<<Shared, "members", 0>>]
          /\ \A k \in {"members", "record"} : Entry(r, k)' = IF k = w THEN r ELSE Entry(r, k)
      BY <3>1, <3>2, PutIs DEF Entry
    <3>6. w = "record" => Entry(r, "members") = r
      <4>1. ~ Contested(r)
        BY <1>3, <2>1 DEF Contested
      <4> QED
        BY <3>1, <4>1, StepsAre DEF EntryInv
    <3> QED
      BY <1>3, <2>1, <3>1, <3>2, <3>3, <3>4, <3>5, <3>6, StepsAre DEF NewestInv, Writes, EntrySteps, Listed
  <2> QED
    BY <1>5, <2>2, <2>3, <2>4, <2>5, StepIs
<1> QED
  BY <1>4, <1>5

-------------------------------------------------------------------------------
(* Comparisons *)

\* Every step leaves runs at work with stamps after those that ended before them.
LEMMA OrderKeeps == IInv /\ [Next]_vars => OrderInv'
<1> SUFFICES ASSUME IInv, [Next]_vars, NEW r \in alone', NEW q \in Active', pc'[r] = "done"
             PROVE  stamp'[q] = 0 \/ stamp'[q] >= stamp'[r]
  BY DEF OrderInv
<1> USE DEF IInv
<1>0. /\ pc \in [Runs -> Steps] /\ stamp \in [Runs -> 0 .. LastStamp] /\ now \in Stamps
      /\ alone' \subseteq Runs /\ LastStamp \in Nat
  BY TypeKeeps, UniverseAssumption DEF TypeInv
<1>1. /\ r \in Runs /\ r \in alone /\ q \in Runs /\ pc'[q] \notin {"idle", "done"} /\ r # q
      /\ stamp[r] \in Nat /\ stamp[q] \in Nat /\ stamp[r] <= now /\ now \in Nat
  BY <1>0, StampsStay DEF Active, StageInv, Stage, Stamps
<1>2. ASSUME pc[r] = "done", stamp'[r] = stamp[r],
             (q \in Active /\ stamp'[q] = stamp[q]) \/ stamp'[q] \in {0, now}
      PROVE  stamp'[q] = 0 \/ stamp'[q] >= stamp'[r]
  BY <1>1, <1>2 DEF OrderInv
<1>3. CASE UNCHANGED vars \/ Tick
  BY <1>1, <1>2, <1>3 DEF vars, Tick, Active
<1> SUFFICES ASSUME NEW p \in Runs, Start(p) \/ StartRefused(p) \/ Step(p) \/ Kill(p)
             PROVE  stamp'[q] = 0 \/ stamp'[q] >= stamp'[r]
  BY <1>3 DEF Next
<1>4. CASE Start(p)
  <2>1. /\ stamp[p] = 0 /\ (stamp' = stamp \/ stamp' = [stamp EXCEPT ![p] = now])
        /\ \E x \in {"index", "discover"} : pc' = [pc EXCEPT ![p] = x]
    BY <1>4, StartIs
  <2>2. p # r /\ pc[r] = "done" /\ stamp'[r] = stamp[r]
    BY <1>0, <1>1, <1>4, <2>1, StartIs
  <2>3. q # p => q \in Active /\ stamp'[q] = stamp[q]
    BY <1>0, <1>1, <1>4, StartIs DEF Active
  <2>4. q = p => stamp'[q] \in {0, now}
    BY <1>0, <1>4, StartIs
  <2> QED
    BY <1>2, <2>2, <2>3, <2>4
<1>5. CASE StartRefused(p)
  <2>1. pc[p] = "idle" /\ pc' = [pc EXCEPT ![p] = "done"] /\ stamp' = stamp
    BY <1>5 DEF StartRefused, End, Go
  <2>2. CASE r = p
    <3>1. stamp[r] = 0
      BY <2>1, <2>2 DEF StageInv, Stage, Unstamped
    <3> QED
      BY <1>1, <2>1, <3>1
  <2>3. CASE r # p
    BY <1>0, <1>1, <1>2, <2>1, <2>3 DEF Active
  <2> QED
    BY <2>2, <2>3
<1>6. CASE Step(p) \/ Kill(p)
  <2>1. p \in Active /\ (\E x \in Steps \ {"idle"} : pc' = [pc EXCEPT ![p] = x])
        /\ (stamp' = stamp \/ stamp' = [stamp EXCEPT ![p] = now])
    BY <1>6, StepIs DEF Local
  <2>2. q \in Active
    BY <1>0, <1>1, <2>1 DEF Active
  <2>3. r # p
    BY <1>1, <2>1, <2>2 DEF OverlapInv
  <2> QED
    BY <1>0, <1>1, <1>2, <2>1, <2>2, <2>3
<1> QED
  BY <1>4, <1>5, <1>6

\* The greatest of some numbers.
LEMMA MaxOf ==
    ASSUME NEW last \in Nat, NEW T \in SUBSET (0 .. last), T # {}
    PROVE  Max(T) \in T /\ \A t \in T : t <= Max(T)
<1> DEFINE U == {last - t : t \in T}
<1>1. U \in SUBSET Nat /\ U # {}
  <2>1. \A t \in T : last - t \in Nat
    OBVIOUS
  <2> QED
    BY <2>1
<1>2. PICK n \in U : \A m \in U : n <= m
  <2> HIDE DEF U
  <2> QED
    BY <1>1, LeastNumber
<1>3. PICK x \in T : n = last - x
  BY <1>2
<1>4. ASSUME NEW t \in T PROVE x >= t
  <2>1. last - t \in U
    OBVIOUS
  <2>2. n <= last - t
    BY <1>2, <2>1
  <2> QED
    BY <1>3, <2>2
<1>5. Max(T) \in T /\ \A t \in T : Max(T) >= t
  <2> DEFINE Greatest(y) == \A t \in T : y >= t
  <2>1. \E y \in T : Greatest(y)
    BY <1>4
  <2>2. Max(T) = CHOOSE y \in T : Greatest(y)
    BY DEF Max
  <2> HIDE DEF Greatest
  <2>3. Max(T) \in T /\ Greatest(Max(T))
    BY <2>1, <2>2, Zenon
  <2> QED
    BY <2>3, Zenon DEF Greatest
<1>6. \A t \in T : t \in Nat
  OBVIOUS
<1> QED
  BY <1>5, <1>6

\* The last of some seconds.
LEMMA LastSecondIs ==
    ASSUME NEW T \in SUBSET Stamps, T # {}
    PROVE  Max(T) \in T /\ \A t \in T : t <= Max(T)
<1>1. LastStamp \in Nat
  BY UniverseAssumption
<1>2. T \in SUBSET (0 .. LastStamp)
  BY <1>1 DEF Stamps
<1> QED
  BY <1>1, <1>2, MaxOf

\* The entry a run is compared with stays while what is before its stamp does.
LEMMA HistoryStays ==
    ASSUME NEW r \in Runs, scope'[r] = scope[r], stamp'[r] = stamp[r],
           \A k \in {"members", "record"}, t \in Stamps :
              t < stamp[r] => disk'[<<scope[r], k, t>>] = disk[<<scope[r], k, t>>]
    PROVE  PairAt(r, Earlier(r))' = PairAt(r, Earlier(r))
<1>1. Earlier(r)' = Earlier(r)
  BY DEF Earlier, Listed
<1> DEFINE E == Earlier(r)
<1>2. E \in SUBSET Stamps /\ \A t \in E : t < stamp[r]
  BY DEF Earlier, Listed
<1>3. E # {} => \A k \in {"members", "record"} :
          disk'[<<scope[r], k, Max(E)>>] = disk[<<scope[r], k, Max(E)>>]
  <2> HIDE DEF E
  <2>1. E # {} => Max(E) \in E
    BY <1>2, LastSecondIs
  <2> QED
    BY <1>2, <2>1
<1> QED
  BY <1>1, <1>3 DEF PairAt, At

\* The last entry a run finds was written by a run whose members are settled.
LEMMA LatestIs ==
    ASSUME TypeInv, DiskInv, NEW s \in Scopes, NEW k \in {"members", "record"},
           Listed(s) # {}, LatestFile(s, k) \in Runs
    PROVE  pc[LatestFile(s, k)] \notin Searching
<1> DEFINE T == Listed(s)
<1>1. T \in SUBSET Stamps
  BY DEF Listed
<1>2. Max(T) \in Stamps
  <2>1. T # {}
    OBVIOUS
  <2> HIDE DEF T
  <2> QED
    BY <1>1, <2>1, LastSecondIs
<1>3. <<s, k, Max(T)>> \in Paths
  BY <1>2, PathsAre
<1> QED
  BY <1>3 DEF LatestFile, DiskInv

\* What a run read goes on to be of a run with settled members.
LEMMA ReadKeeps == TypeInv /\ StageInv /\ DiskInv /\ ReadInv /\ [Next]_vars => ReadInv'
<1> SUFFICES ASSUME TypeInv, StageInv, DiskInv, ReadInv, [Next]_vars, NEW q \in Runs,
                    previous'[q].members \in Runs
             PROVE  pc'[previous'[q].members] \notin Searching
  BY DEF ReadInv
<1> DEFINE Goal == pc'[previous'[q].members] \notin Searching
<1>0. NoRun \notin Runs /\ previous \in [Runs -> Pair]
  BY RunsAreNoContents DEF TypeInv
<1>1. ASSUME previous'[q].members = previous[q].members
      PROVE  Goal
  BY <1>1, SettledStays DEF ReadInv
<1>2. CASE UNCHANGED vars \/ Tick
  BY <1>1, <1>2 DEF vars, Tick, result
<1> SUFFICES ASSUME NEW r \in Runs, Start(r) \/ StartRefused(r) \/ Step(r) \/ Kill(r) PROVE Goal
  BY <1>2 DEF Next
<1>3. CASE Start(r) \/ StartRefused(r)
  BY <1>1, <1>3 DEF Start, StartRefused, result
<1>4. CASE Step(r) \/ Kill(r)
  <2>1. Local(r)
    BY <1>4, StepIs
  <2>2. CASE q # r
    BY <1>1, <2>1, <2>2 DEF Local
  <2>3. CASE q = r
    <3>1. CASE SearchStep(r)
      BY <1>1, <3>1 DEF SearchStep
    <3>2. CASE EndStep(r)
      BY <1>0, <1>1, <2>3, <3>2 DEF EndStep, NoPair
    <3>3. CASE ReadsMembers(r)
      <4>1. CASE previous' = previous
        BY <1>1, <4>1
      <4>2. CASE previous' # previous
        <5>1. /\ Listed(scope[r]) # {} /\ LatestFile(scope[r], "members") \in Runs
              /\ previous' = [previous EXCEPT ![r].members = LatestFile(scope[r], "members")]
          BY <3>3, <4>2 DEF ReadsMembers, ReadMembers
        <5>2. previous'[q].members = LatestFile(scope[r], "members")
          BY <1>0, <2>3, <5>1 DEF Pair
        <5>3. pc[LatestFile(scope[r], "members")] \notin Searching
          BY <5>1, LatestIs DEF TypeInv
        <5> QED
          BY <5>1, <5>2, <5>3, SettledStays
      <4> QED
        BY <4>1, <4>2
    <3>4. CASE ReadsRecord(r)
      <4>1. \/ previous' = previous
            \/ \E v : previous' = [previous EXCEPT ![r].record = v]
        BY <3>4 DEF ReadsRecord, ReadRecord, result
      <4>2. previous'[q].members = previous[q].members
        BY <1>0, <4>1 DEF Pair
      <4> QED
        BY <1>1, <4>2
    <3>5. CASE Appends(r) \/ OpenFile(r) \/ CloseFile(r)
      BY <1>1, <3>5 DEF Appends, AppendEntry, OpenFile, CloseFile, result
    <3> QED
      BY <1>4, <3>1, <3>2, <3>3, <3>4, <3>5, StepIs
  <2> QED
    BY <2>2, <2>3
<1> QED
  BY <1>3, <1>4

\* A report stays true while its run and the one it names stay.
LEMMA ReportStays ==
    ASSUME TypeInv, StageInv, ReadInv, [Next]_vars, NEW q \in Runs, pc[q] \notin Searching,
           previous'[q] = previous[q], drift'[q] = drift[q], drift[q] = DriftSince(previous[q], q)
    PROVE  drift'[q] = DriftSince(previous[q], q)'
<1>1. members'[q] = members[q]
  BY SettledStays
<1>2. previous[q].members \in Runs \cup {NoRun}
  BY DEF TypeInv, Pair
<1>3. CASE previous[q].members = NoRun
  BY <1>3 DEF DriftSince
<1>4. CASE previous[q].members \in Runs
  <2>1. members'[previous[q].members] = members[previous[q].members]
    BY <1>4, SettledStays DEF ReadInv
  <2> QED
    BY <1>1, <2>1 DEF DriftSince
<1> QED
  BY <1>2, <1>3, <1>4

\* Every step leaves the reports true.
LEMMA ReportKeeps == TypeInv /\ StageInv /\ ReadInv /\ ReportInv /\ [Next]_vars => ReportInv'
<1> SUFFICES ASSUME TypeInv, StageInv, ReadInv, ReportInv, [Next]_vars, NEW q \in Runs,
                    pc'[q] \in ReportSteps \/ code'[q] = "0"
             PROVE  drift'[q] = DriftSince(previous[q], q)'
  BY DEF ReportInv
<1> DEFINE Goal == drift'[q] = DriftSince(previous[q], q)'
<1>0. /\ NoRun \notin Runs /\ previous \in [Runs -> Pair] /\ pc \in [Runs -> Steps]
      /\ code \in [Runs -> Codes] /\ drift = [p \in Runs |-> drift[p]]
      /\ ReportSteps \cap Searching = {} /\ "done" \notin Searching
  BY RunsAreNoContents DEF TypeInv, ReportSteps, LatestSteps, EntrySteps, Searching, Unstamped
<1>1. ASSUME pc[q] \in ReportSteps \/ code[q] = "0",
             previous'[q] = previous[q], drift'[q] = drift[q]
      PROVE  Goal
  <2>1. pc[q] \notin Searching
    BY <1>0, <1>1 DEF StageInv, Stage
  <2>2. drift[q] = DriftSince(previous[q], q)
    BY <1>1 DEF ReportInv
  <2> QED
    BY <1>1, <2>1, <2>2, ReportStays
<1>2. CASE UNCHANGED vars \/ Tick
  BY <1>1, <1>2 DEF vars, Tick, result
<1> SUFFICES ASSUME NEW r \in Runs, Start(r) \/ StartRefused(r) \/ Step(r) \/ Kill(r) PROVE Goal
  BY <1>2 DEF Next
<1>3. CASE Start(r)
  <2>1. /\ previous' = previous /\ drift' = drift /\ code' = code
        /\ \E x \in {"index", "discover"} : pc' = [pc EXCEPT ![r] = x]
    BY <1>3, StartIs
  <2>2. pc'[q] \in ReportSteps => pc[q] \in ReportSteps
    BY <1>0, <2>1 DEF Searching, Unstamped
  <2> QED
    BY <1>1, <2>1, <2>2
<1>4. CASE StartRefused(r)
  <2>1. /\ previous' = previous /\ drift' = drift /\ code' = [code EXCEPT ![r] = "1"]
        /\ pc' = [pc EXCEPT ![r] = "done"]
    BY <1>4 DEF StartRefused, End, Go, result
  <2>2. "done" \notin ReportSteps
    BY DEF ReportSteps, LatestSteps, EntrySteps
  <2>3. pc[q] \in ReportSteps \/ code[q] = "0"
    BY <1>0, <2>1, <2>2
  <2> QED
    BY <1>1, <2>1, <2>3
<1>5. CASE Step(r) \/ Kill(r)
  <2>1. Local(r)
    BY <1>5, StepIs
  <2>2. CASE q # r
    <3>1. pc'[q] = pc[q] /\ code'[q] = code[q] /\ previous'[q] = previous[q] /\ drift'[q] = drift[q]
      BY <1>0, <2>1, <2>2 DEF Local
    <3> QED
      BY <1>1, <3>1
  <2>3. CASE q = r
    <3>1. "done" \notin ReportSteps /\ "compare" \notin ReportSteps /\ "compare_record" \notin ReportSteps
      BY DEF ReportSteps, LatestSteps, EntrySteps
    <3>2. ~ SearchStep(r) /\ ~ EndStep(r)
      BY <1>0, <2>3, <3>1 DEF SearchStep, EndStep
    <3>3. ~ ReadsMembers(r)
      <4>1. ASSUME ReadsMembers(r) PROVE code'[r] = code[r] /\ code[r] = "none"
        <5>1. code'[r] = code[r]
          BY <1>0, <4>1 DEF ReadsMembers, ReadMembers, End, Go
        <5>2. code[r] = "none"
          BY <4>1 DEF ReadsMembers, ReadMembers, StageInv, Stage
        <5> QED
          BY <5>1, <5>2
      <4> QED
        BY <2>3, <3>1, <4>1 DEF ReadsMembers
    <3>4. CASE ReadsRecord(r)
      <4> DEFINE prev == previous[r].members
      <4>1. /\ \E v : previous' = [previous EXCEPT ![r].record = v]
            /\ drift' = [drift EXCEPT ![r] = IF prev = NoRun THEN NoReport(NoPrevious)
                                             ELSE Drift(members[prev], members[r])]
            /\ members' = members
        BY <1>0, <3>4 DEF ReadsRecord, ReadRecord, End, Go
      <4>2. previous'[r].members = prev
        BY <1>0, <4>1 DEF Pair
      <4>3. drift'[r] = IF prev = NoRun THEN NoReport(NoPrevious) ELSE Drift(members[prev], members[r])
        BY <1>0, <4>1
      <4> QED
        BY <2>3, <4>1, <4>2, <4>3 DEF DriftSince
    <3>5. CASE Appends(r) \/ OpenFile(r) \/ CloseFile(r)
      <4>1. previous' = previous /\ drift' = drift
        BY <3>5 DEF Appends, AppendEntry, OpenFile, CloseFile, result
      <4>2. pc[r] \in ReportSteps
        BY <3>5, StepsAre DEF Appends, AppendEntry, OpenFile, CloseFile, Writes,
                              ReportSteps, LatestSteps, EntrySteps
      <4> QED
        BY <1>1, <2>3, <4>1, <4>2
    <3> QED
      BY <1>5, <3>2, <3>3, <3>4, <3>5, StepIs
  <2> QED
    BY <2>2, <2>3
<1> QED
  BY <1>3, <1>4, <1>5

\* Every step leaves a run that nothing overlapped with its predecessor.
LEMMA PredecessorKeeps == IInv /\ [Next]_vars => PredecessorInv'
<1> SUFFICES ASSUME IInv, [Next]_vars, NEW q \in alone'
             PROVE  /\ pc'[q] = "compare_record" =>
                          previous'[q] = [members |-> At(q, "members", Listed(scope[q])), record |-> NoRun]'
                    /\ pc'[q] \in LatestSteps => previous'[q] = PairAt(q, Listed(scope[q]))'
                    /\ pc'[q] \in EntrySteps \/ code'[q] = "0" => previous'[q] = PairAt(q, Earlier(q))'
  BY DEF PredecessorInv
<1> USE DEF IInv
<1> DEFINE Goal == /\ pc'[q] = "compare_record" =>
                         previous'[q] = [members |-> At(q, "members", Listed(scope[q])), record |-> NoRun]'
                   /\ pc'[q] \in LatestSteps => previous'[q] = PairAt(q, Listed(scope[q]))'
                   /\ pc'[q] \in EntrySteps \/ code'[q] = "0" => previous'[q] = PairAt(q, Earlier(q))'
<1>0. /\ pc \in [Runs -> Steps] /\ stamp \in [Runs -> 0 .. LastStamp] /\ scope \in [Runs -> Scopes]
      /\ code \in [Runs -> Codes] /\ previous \in [Runs -> Pair] /\ q \in Runs /\ q \in alone
  BY TypeKeeps, StampsStay DEF TypeInv
<1>1. ASSUME pc'[q] = pc[q], code'[q] = code[q], previous'[q] = previous[q], stamp'[q] = stamp[q],
             scope'[q] = scope[q], disk' = disk
      PROVE  Goal
  BY <1>0, <1>1 DEF PredecessorInv, PairAt, At, Earlier, Listed
<1>2. ASSUME pc'[q] \notin {"compare_record"} \cup LatestSteps \cup EntrySteps, code'[q] # "0"
      PROVE  Goal
  BY <1>2
<1>3. CASE UNCHANGED vars \/ Tick
  BY <1>1, <1>3 DEF vars, Tick, result
<1> SUFFICES ASSUME NEW r \in Runs, Start(r) \/ StartRefused(r) \/ Step(r) \/ Kill(r) PROVE Goal
  BY <1>3 DEF Next
<1>4. CASE Start(r) /\ q = r
  <2>1. code'[r] = "none" /\ pc'[r] \in {"index", "discover"}
    BY <1>0, <1>4, StartIs
  <2> QED
    BY <1>2, <1>4, <2>1 DEF LatestSteps, EntrySteps
<1>5. CASE Start(r) /\ q # r
  <2>1. /\ pc'[q] = pc[q] /\ code'[q] = code[q] /\ previous'[q] = previous[q] /\ stamp'[q] = stamp[q]
        /\ scope'[q] = scope[q] /\ disk' = disk
    BY <1>0, <1>5, StartIs
  <2> QED
    BY <1>1, <2>1
<1>6. CASE StartRefused(r) /\ q = r
  <2>1. code'[r] = "1" /\ pc'[r] = "done"
    BY <1>0, <1>6 DEF StartRefused, End, Go
  <2> QED
    BY <1>2, <1>6, <2>1 DEF LatestSteps, EntrySteps
<1>7. CASE StartRefused(r) /\ q # r
  <2>1. /\ pc'[q] = pc[q] /\ code'[q] = code[q] /\ previous'[q] = previous[q] /\ stamp'[q] = stamp[q]
        /\ scope'[q] = scope[q] /\ disk' = disk
    BY <1>0, <1>7 DEF StartRefused, End, Go, result
  <2> QED
    BY <1>1, <2>1
<1> SUFFICES ASSUME Step(r) \/ Kill(r) PROVE Goal
  BY <1>4, <1>5, <1>6, <1>7
<1>8. Local(r) /\ r \in Active /\ scope' = scope /\ alone' = alone
  BY StepIs DEF Local
<1>9. ASSUME stamp'[q] = stamp[q], previous'[q] = previous[q],
             pc[q] \in EntrySteps \/ code[q] = "0",
             pc'[q] \notin {"compare_record"} \cup LatestSteps,
             \A k \in {"members", "record"}, t \in Stamps :
                t < stamp[q] => disk'[<<scope[q], k, t>>] = disk[<<scope[q], k, t>>]
      PROVE  Goal
  BY <1>0, <1>8, <1>9, HistoryStays DEF PredecessorInv
<1>10. ASSUME NEW w \in Writes, NEW content, Puts(r, w, content), stamp[r] # 0,
              stamp[r] >= stamp[q], scope[q] \in Scopes
       PROVE  \A k \in {"members", "record"}, t \in Stamps :
                t < stamp[q] => disk'[<<scope[q], k, t>>] = disk[<<scope[q], k, t>>]
  <2> TAKE k \in {"members", "record"}, t \in Stamps
  <2> HAVE t < stamp[q]
  <2>1. t # stamp[r]
    BY <1>0, <1>10 DEF Stamps
  <2> QED
    BY <1>10, <2>1, PutIs
<1>11. CASE q # r
  <2>1. q \notin Active
    BY <1>0, <1>8, <1>11 DEF OverlapInv
  <2>2. pc[q] \in {"idle", "done"} /\ pc'[q] = pc[q] /\ code'[q] = code[q] /\ previous'[q] = previous[q]
        /\ stamp'[q] = stamp[q]
    BY <1>0, <1>8, <1>11, <2>1 DEF Active, Local
  <2>3. CASE disk' = disk
    BY <1>1, <1>8, <2>2, <2>3
  <2>4. CASE code[q] # "0"
    <3>1. pc'[q] \notin {"compare_record"} \cup LatestSteps \cup EntrySteps
      BY <2>2 DEF LatestSteps, EntrySteps
    <3>2. code'[q] # "0"
      BY <2>2, <2>4
    <3> QED
      BY <1>2, <3>1, <3>2, Zenon
  <2>5. CASE code[q] = "0" /\ (OpenFile(r) \/ CloseFile(r))
    <3>1. pc[q] = "done"
      BY <1>0, <2>5 DEF StageInv, Stage
    <3>2. \E w \in Writes, content \in {r, Torn} : Puts(r, w, content)
      BY <2>5, OpenIs, CloseIs
    <3>3. stamp[r] # 0
      BY <2>5, OpenIs, CloseIs DEF Stamps
    <3>4. stamp[r] >= stamp[q]
      BY <1>0, <1>8, <3>1, <3>3 DEF OrderInv
    <3>5. pc'[q] \notin {"compare_record"} \cup LatestSteps
      BY <2>2 DEF LatestSteps
    <3> QED
      BY <1>0, <1>9, <1>10, <2>2, <2>5, <3>2, <3>3, <3>4, <3>5
  <2> QED
    BY <2>3, <2>4, <2>5, DiskStays
<1>12. CASE q = r
  <2>1. CASE SearchStep(r) \/ EndStep(r)
    BY <1>2, <1>12, <2>1 DEF SearchStep, EndStep, Searching, Unstamped, LatestSteps, EntrySteps
  <2>2. CASE ReadsMembers(r)
    <3>1. pc'[r] = "compare_record" /\ pc[r] = "compare" /\ disk' = disk /\ code'[r] # "0"
      BY <1>0, <2>2 DEF ReadsMembers, ReadMembers, StageInv, Stage, End, Go
    <3>2. previous[r] = NoPair
      BY <3>1 DEF StageInv, Stage
    <3>3. previous'[r] = [members |-> At(r, "members", Listed(scope[r])), record |-> NoRun]
      <4>1. CASE Listed(scope[r]) = {}
        BY <2>2, <3>2, <4>1 DEF ReadsMembers, ReadMembers, At, NoPair
      <4>2. CASE Listed(scope[r]) # {}
        <5>1. previous' = [previous EXCEPT ![r].members = LatestFile(scope[r], "members")]
          BY <1>0, <2>2, <4>2 DEF ReadsMembers, ReadMembers, End, Go
        <5>2. previous'[r] = [members |-> LatestFile(scope[r], "members"), record |-> NoRun]
          BY <1>0, <3>2, <5>1 DEF NoPair
        <5> QED
          BY <4>2, <5>2 DEF At, LatestFile
      <4> QED
        BY <4>1, <4>2
    <3>4. At(r, "members", Listed(scope[r]))' = At(r, "members", Listed(scope[r]))
      BY <1>8, <3>1 DEF At, Listed
    <3> QED
      BY <1>12, <3>1, <3>3, <3>4 DEF LatestSteps, EntrySteps
  <2>3. CASE ReadsRecord(r)
    <3>1. pc'[r] = "latest_record" /\ pc[r] = "compare_record" /\ disk' = disk /\ code'[r] # "0"
      BY <1>0, <2>3 DEF ReadsRecord, ReadRecord, StageInv, Stage, End, Go
    <3>2. previous[r] = [members |-> At(r, "members", Listed(scope[r])), record |-> NoRun]
      BY <1>0, <1>12, <3>1 DEF PredecessorInv
    <3>3. previous' = [previous EXCEPT ![r].record =
                 IF Listed(scope[r]) = {} THEN NoRun ELSE LatestFile(scope[r], "record")]
      BY <1>0, <2>3 DEF ReadsRecord, ReadRecord, End, Go
    <3>4. previous'[r] = PairAt(r, Listed(scope[r]))
      BY <1>0, <3>2, <3>3 DEF PairAt, At, LatestFile
    <3>5. PairAt(r, Listed(scope[r]))' = PairAt(r, Listed(scope[r]))
      BY <1>8, <3>1 DEF PairAt, At, Listed
    <3> QED
      BY <1>12, <3>1, <3>4, <3>5 DEF LatestSteps, EntrySteps
  <2>4. CASE Appends(r)
    <3>1. /\ pc'[r] = "members" /\ pc[r] = "append" /\ code'[r] # "0"
          /\ previous' = previous /\ stamp' = stamp /\ disk' = disk
      BY <1>0, <2>4 DEF Appends, AppendEntry, StageInv, Stage, End, Go, result
    <3>2. disk[<<scope[r], "record", stamp[r]>>] = NoFile
      <4>1. CASE \E k \in {"members", "record"} : disk[<<scope[r], k, stamp[r]>>] # NoFile
        <5>1. End(r, "raised")
          BY <2>4, <4>1 DEF Appends, AppendEntry
        <5> QED
          BY <1>0, <3>1, <5>1 DEF End, Go
      <4> QED
        BY <4>1
    <3>3. Listed(scope[r]) = Earlier(r)
      <4>1. r = newest /\ stamp[r] # 0
        BY <1>0, <1>8, <1>12, <3>1 DEF OverlapInv, StageInv, Stage, Unstamped
      <4>2. \A t \in Listed(scope[r]) : t <= stamp[r]
        BY <1>0, <1>12, <4>1 DEF NewestInv
      <4>3. stamp[r] \notin Listed(scope[r])
        BY <3>2 DEF Listed
      <4>4. \A t \in Listed(scope[r]) : t < stamp[r]
        BY <1>0, <4>2, <4>3 DEF Listed, Stamps
      <4> QED
        BY <4>4 DEF Earlier
    <3>4. previous[r] = PairAt(r, Earlier(r))
      BY <1>0, <1>12, <3>1, <3>3 DEF PredecessorInv, LatestSteps
    <3>5. PairAt(r, Earlier(r))' = PairAt(r, Earlier(r))
      BY <1>8, <3>1 DEF PairAt, At, Earlier, Listed
    <3> QED
      BY <1>12, <3>1, <3>4, <3>5 DEF LatestSteps
  <2>5. CASE OpenFile(r) \/ CloseFile(r)
    <3>1. PICK w \in Writes, content \in {r, Torn} :
              /\ Puts(r, w, content)
              /\ \/ pc[r] = w /\ pc' = [pc EXCEPT ![r] = Opened(w)] /\ code' = code
                 \/ /\ pc[r] = Opened(w) /\ pc' = [pc EXCEPT ![r] = After(w)]
                    /\ code' = IF w = "record" THEN [code EXCEPT ![r] = "0"] ELSE code
      <4>1. CASE OpenFile(r)
        BY <4>1, OpenIs
      <4>2. CASE CloseFile(r)
        BY <4>2, CloseIs
      <4> QED
        BY <2>5, <4>1, <4>2
    <3>2. previous' = previous /\ stamp' = stamp /\ stamp[r] \in Stamps
      BY <2>5, OpenIs, CloseIs
    <3>3. code[r] # "0"
      BY <3>1, StepsAre DEF StageInv, Stage, Writes
    <3>4. CASE w \in {"latest_record", "latest_members"}
      <4>1. pc[r] \in LatestSteps /\ pc'[r] \in LatestSteps /\ code'[r] # "0"
        BY <1>0, <3>1, <3>3, <3>4, StepsAre DEF LatestSteps
      <4>2. \A k \in {"members", "record"}, t \in Stamps :
                disk'[<<scope[r], k, t>>] = disk[<<scope[r], k, t>>]
        BY <1>0, <3>1, <3>4, PutIs
      <4>3. previous[r] = PairAt(r, Listed(scope[r]))
        BY <1>0, <1>12, <4>1 DEF PredecessorInv
      <4>4. PairAt(r, Listed(scope[r]))' = PairAt(r, Listed(scope[r]))
        <5>1. Listed(scope[r])' = Listed(scope[r])
          BY <1>8, <4>2 DEF Listed
        <5> DEFINE T == Listed(scope[r])
        <5>2. T # {} => Max(T) \in Stamps
          <6>1. T \in SUBSET Stamps
            BY DEF Listed
          <6> HIDE DEF T
          <6> QED
            BY <6>1, LastSecondIs
        <5> QED
          BY <1>8, <4>2, <5>1, <5>2 DEF PairAt, At
      <4>5. pc'[r] # "compare_record" /\ pc'[r] \notin EntrySteps
        BY <4>1 DEF LatestSteps, EntrySteps
      <4> QED
        BY <1>12, <3>2, <4>1, <4>3, <4>4, <4>5
    <3>5. CASE w \in {"members", "record"}
      <4>1. pc[r] \in EntrySteps /\ pc'[r] \notin {"compare_record"} \cup LatestSteps
        BY <1>0, <3>1, <3>5, StepsAre DEF LatestSteps, EntrySteps
      <4>2. stamp[r] # 0 /\ stamp[r] >= stamp[r] /\ scope[r] \in Scopes
        BY <1>0, <3>2 DEF Stamps
      <4> QED
        BY <1>9, <1>10, <1>12, <3>1, <3>2, <4>1, <4>2
    <3> QED
      BY <3>4, <3>5 DEF Writes
  <2> QED
    BY <2>1, <2>2, <2>3, <2>4, <2>5, StepIs
<1> QED
  BY <1>11, <1>12

-------------------------------------------------------------------------------
(* The theorems *)

\* The invariant is inductive.
LEMMA IInvKeeps == IInv /\ [Next]_vars => IInv'
<1> SUFFICES ASSUME IInv, [Next]_vars PROVE IInv'
  OBVIOUS
<1>1. TypeInv' /\ StageInv' /\ OverlapInv' /\ MixInv' /\ DiskInv' /\ EntryInv'
  BY TypeKeeps, StageKeeps, OverlapKeeps, MixKeeps, DiskKeeps, EntryKeeps DEF IInv
<1>2. HistoryEntriesWhole' /\ NewestInv' /\ OrderInv' /\ PredecessorInv'
  BY WholeKeeps, NewestKeeps, OrderKeeps, PredecessorKeeps
<1>3. ReadInv' /\ ReportInv'
  BY ReadKeeps, ReportKeeps DEF IInv
<1> QED
  BY <1>1, <1>2, <1>3 DEF IInv

\* The inductive invariant holds of every behaviour of the updates.
THEOREM UniverseInductive == Spec => []IInv
  BY InitIInv, IInvKeeps, PTL DEF Spec

\* An entry of the history that is listed is whole, the members and the record
\* of one run, unless two runs that overlap wrote it within one second, whichever
\* runs were killed or refused (snapshot_store.py write_universe_snapshot).
THEOREM EntriesWhole == Spec => []HistoryEntriesWhole
<1>1. IInv => HistoryEntriesWhole
  BY DEF IInv
<1> QED
  BY <1>1, UniverseInductive, PTL

\* No step changes an entry that is whole and has no rivals
\* (write_universe_snapshot refuses an existing stamp).
THEOREM EntriesStay == Spec => EntriesNeverChange
<1> DEFINE Stays ==
       \A s \in Scopes, t \in Stamps :
          LET entry == <<disk[<<s, "members", t>>], disk[<<s, "record", t>>]>>
          IN  \/ ~(entry[1] \in Runs /\ entry[2] \in Runs)
              \/ entry = <<disk[<<s, "members", t>>]', disk[<<s, "record", t>>]'>>
              \/ Rivals(s, t)
<1>1. IInv /\ [Next]_vars => [Stays]_vars
  <2> SUFFICES ASSUME IInv, [Next]_vars PROVE Stays
    OBVIOUS
  <2> SUFFICES ASSUME NEW s \in Scopes, NEW t \in Stamps,
                      disk[<<s, "members", t>>] \in Runs, disk[<<s, "record", t>>] \in Runs, ~ Rivals(s, t)
               PROVE  /\ disk[<<s, "members", t>>] = disk[<<s, "members", t>>]'
                      /\ disk[<<s, "record", t>>] = disk[<<s, "record", t>>]'
    OBVIOUS
  <2>1. \A k \in {"members", "record"} : disk'[<<s, k, t>>] = disk[<<s, k, t>>]
    BY EntryStays
  <2> QED
    BY <2>1
<1> QED
  BY <1>1, UniverseInductive, PTL DEF Spec, EntriesNeverChange

\* What FunnelSound says of one file and what the funnel made of it.
Sound(file, failed, age, outcome) ==
    LET fetched == UNION {{row \in ToSet(Lists[c].rows) : Lists[c].notes => row.sym # 0} :
                             c \in DOMAIN Lists \ failed}
        named  == {i \in DOMAIN file : \E row \in fetched :
                      \/ file[i].sym = row.sym
                      \/ file[i].isin = row.isin /\ row.isin # 0}
        equity == {i \in DOMAIN file : file[i].series # "SM"} \ named
        kept   == outcome.kept
        shown  == outcome.diagnostics
        record == Snapshot(file, kept, age)
        total(counts) == FoldFunction(+, 0, counts)
    IN  /\ kept \subseteq equity
        /\ {file[i].sym : i \in equity} = {file[i].sym : i \in kept}
        /\ \A i \in kept, j \in equity :
              file[i].sym = file[j].sym =>
                  /\ Rank(file[i].series) <= Rank(file[j].series)
                  /\ j \in kept => i = j
        /\ total(shown.series) = shown.raw
        /\ shown.mainboard = shown.excluded + shown.final + shown.dropped
        /\ total(shown.byCategory) = shown.excluded
        /\ total(shown.reasons) = shown.dropped
        /\ record.count = record.symbols /\ record.duplicates = 0
        /\ record.count = shown.final /\ record.raw = shown.raw
        /\ record.age <= Lookback

\* The funnel is sound of every file, whichever lists fail.
LEMMA FunnelIsSound ==
    ASSUME NEW file \in Seq(Listing), NEW failed \in SUBSET DOMAIN Lists, NEW age \in Ages
    PROVE  Sound(file, failed, age, Funnel(file, failed))
<1> DEFINE fetched == UNION {{row \in ToSet(Lists[c].rows) : Lists[c].notes => row.sym # 0} :
                                 c \in DOMAIN Lists \ failed}
           named == {i \in DOMAIN file : \E row \in fetched :
                          \/ file[i].sym = row.sym
                          \/ file[i].isin = row.isin /\ row.isin # 0}
           equity == {i \in DOMAIN file : file[i].series # "SM"} \ named
           kept == Funnel(file, failed).kept
           shown == Funnel(file, failed).diagnostics
           record == Snapshot(file, kept, age)
<1>1. age = {} \/ \E n \in 0 .. Lookback : age = {n}
  BY DEF Ages
<1>2. /\ kept \in SUBSET equity
      /\ \A j \in equity : \E i \in kept : file[i].sym = file[j].sym
      /\ \A i \in kept, j \in equity :
            file[i].sym = file[j].sym =>
                /\ Rank(file[i].series) <= Rank(file[j].series)
                /\ j \in kept => i = j
      /\ FoldFunction(+, 0, shown.series) = shown.raw
      /\ shown.raw = Len(file) /\ shown.final = Cardinality(kept)
      /\ shown.mainboard = shown.excluded + shown.final + shown.dropped
      /\ FoldFunction(+, 0, shown.byCategory) = shown.excluded
      /\ FoldFunction(+, 0, shown.reasons) = shown.dropped
  <2>1. Accounts(file, failed)
    BY FunnelIs, Zenon
  <2> QED
    BY <2>1, Zenon DEF Accounts
<1> HIDE DEF shown, kept, fetched, named
<1>3. kept \in SUBSET DOMAIN file /\ \A i, j \in kept : file[i].sym = file[j].sym => i = j
  BY <1>2
<1>4. {file[i].sym : i \in equity} = {file[i].sym : i \in kept}
  BY <1>2
<1>5. Lookback \in Nat
  BY UniverseAssumption
<1>6. /\ record.count = Cardinality(kept) /\ record.count = record.symbols /\ record.duplicates = 0
      /\ record.raw = Len(file) /\ record.age <= Lookback
  <2>1. Records(file, kept, age, Lookback)
    <3> HIDE DEF record
    <3> QED
      BY <1>1, <1>3, <1>5, SnapshotIs
  <2> QED
    BY <2>1, Zenon DEF Records
<1> HIDE DEF record, equity
<1>7. kept \subseteq equity /\ record.count = shown.final /\ record.raw = shown.raw
  BY <1>2, <1>6
<1> QED
  BY <1>2, <1>4, <1>6, <1>7, Zenon DEF Sound, kept, shown, fetched, named, equity, record

\* So it is of each file at the count gate.
LEMMA GateSound == TypeInv /\ StageInv => FunnelSound
<1> SUFFICES ASSUME TypeInv, StageInv, NEW r \in Runs, pc[r] = "gate"
             PROVE  Sound(funnel[r].file, funnel[r].failed, funnel[r].age, funnel[r].outcome)
  BY Zenon DEF FunnelSound, Sound
<1>1. funnel[r] \in Found
  BY DEF TypeInv
<1>2. /\ funnel[r].file \in Files
      /\ funnel[r].outcome = Funnel(funnel[r].file, funnel[r].failed)
  BY DEF StageInv, Stage
<1>3. /\ funnel[r].file \in Seq(Listing) /\ funnel[r].failed \in SUBSET DOMAIN Lists
      /\ funnel[r].age \in Ages
  BY <1>1, <1>2, UniverseAssumption DEF Found
<1>4. Sound(funnel[r].file, funnel[r].failed, funnel[r].age, Funnel(funnel[r].file, funnel[r].failed))
  <2> DEFINE file == funnel[r].file
             failed == funnel[r].failed
             age == funnel[r].age
  <2>1. file \in Seq(Listing) /\ failed \in SUBSET DOMAIN Lists /\ age \in Ages
    BY <1>3
  <2> HIDE DEF file, failed, age
  <2>2. Sound(file, failed, age, Funnel(file, failed))
    BY <2>1, FunnelIsSound, Zenon
  <2> QED
    BY <2>2, Zenon DEF file, failed, age
<1> QED
  BY <1>2, <1>4, Zenon

\* A kept row stands for each symbol no fetched list names, and the counts of
\* the snapshot add up, for every security file and whichever lists fail.
THEOREM UniverseFunnel == Spec => []FunnelSound
<1>1. IInv => FunnelSound
  BY GateSound DEF IInv
<1> QED
  BY <1>1, UniverseInductive, PTL

\* A run that nothing overlapped and that is the last to have started leaves its
\* own universe in the shared files and as the newest entry (update_universe.py).
THEOREM LatestIsNewest == Spec => []LatestIsNewestEntry
<1>1. IInv => LatestIsNewestEntry
  <2> SUFFICES ASSUME IInv, newest \in alone, code[newest] = "0"
               PROVE  /\ Listed(scope[newest]) # {} /\ Max(Listed(scope[newest])) = stamp[newest]
                      /\ \A what \in {"members", "record"} :
                            /\ disk[<<Shared, what, 0>>] = newest
                            /\ LatestFile(scope[newest], what) = newest
    BY DEF LatestIsNewestEntry
  <2> USE DEF IInv
  <2>1. newest \in Runs /\ stamp[newest] \in 0 .. LastStamp /\ stamp[newest] # 0
    BY DEF TypeInv, StageInv, Stage
  <2>2. /\ \A t \in Listed(scope[newest]) : t <= stamp[newest]
        /\ Entry(newest, "members") = newest /\ Entry(newest, "record") = newest
        /\ disk[<<Shared, "record", 0>>] = newest /\ disk[<<Shared, "members", 0>>] = newest
    BY <2>1 DEF NewestInv
  <2>3. stamp[newest] \in Listed(scope[newest])
    <3>1. stamp[newest] \in Stamps
      BY <2>1 DEF Stamps
    <3>2. NoFile \notin Runs
      BY RunsAreNoContents
    <3> QED
      BY <2>1, <2>2, <3>1, <3>2 DEF Listed, Entry
  <2> DEFINE T == Listed(scope[newest])
  <2>4. Max(T) = stamp[newest]
    <3>1. T \in SUBSET Stamps
      BY DEF Listed
    <3>2. LastStamp \in Nat
      BY UniverseAssumption
    <3> HIDE DEF T
    <3>3. Max(T) \in T /\ \A t \in T : t <= Max(T)
      BY <2>3, <3>1, LastSecondIs DEF T
    <3>4. Max(T) <= stamp[newest] /\ stamp[newest] <= Max(T)
      BY <2>2, <2>3, <3>3 DEF T
    <3>5. Max(T) \in 1 .. LastStamp /\ stamp[newest] \in 0 .. LastStamp
      BY <2>1, <3>1, <3>3 DEF Stamps
    <3> QED
      BY <3>2, <3>4, <3>5
  <2> QED
    BY <2>2, <2>3, <2>4 DEF LatestFile, Entry
<1> QED
  BY <1>1, UniverseInductive, PTL

\* What a report says of two universes, the later without a symbol twice.
LEMMA DriftIs ==
    ASSUME NEW prev \in Seq(Member), NEW current \in Seq(Member), Distinct(current)
    PROVE  LET report == Drift(prev, current)
               old == SymbolsOf(prev)
               new == SymbolsOf(current)
           IN  /\ report.status # NoPrevious
               /\ new = (old \ report.removed) \cup report.added
               /\ Len(current) = Cardinality(old) + Cardinality(report.added) - Cardinality(report.removed)
               /\ \A change \in report.renames :
                     /\ change.previous \in old \ new
                     /\ change.current \in new \ old
                     /\ \E row \in ToSet(current) : row.sym = change.current /\ row.isin = change.isin
<1> DEFINE old == SymbolsOf(prev)
           new == SymbolsOf(current)
           added == new \ old
           removed == old \ new
           gone(isin) == {j \in DOMAIN prev : prev[j].sym \in removed /\ prev[j].isin = isin}
           came == {x \in ToSet(current) : x.sym \in added /\ x.isin # 0 /\ gone(x.isin) # {}}
           named(row) == [previous |-> prev[Max(gone(row.isin))].sym, current |-> row.sym, isin |-> row.isin]
           report == Drift(prev, current)
<1>1. /\ DOMAIN prev = 1 .. Len(prev) /\ Len(prev) \in Nat
      /\ DOMAIN current = 1 .. Len(current) /\ Len(current) \in Nat
  OBVIOUS
<1>2. /\ report.status = ChurnStatus(added, removed, prev)
      /\ report.added = added /\ report.removed = removed
      /\ report.renames = {named(row) : row \in came}
  BY Zenon DEF Drift, Report, ProbableRenames
<1>3. report.status # NoPrevious
  <2>1. report.status \in {"STRUCTURAL_ALERT", "ELEVATED_CHURN", "NORMAL_CHURN"}
    BY <1>2 DEF ChurnStatus
  <2> QED
    BY <2>1 DEF NoPrevious
<1>4. new = (old \ report.removed) \cup report.added
  BY <1>2
<1>5. IsFiniteSet(old) /\ IsFiniteSet(new) /\ Cardinality(new) = Len(current)
  <2> DEFINE f == [i \in DOMAIN prev |-> prev[i].sym]
             g == [i \in DOMAIN current |-> current[i].sym]
  <2>1. f \in Surjection(DOMAIN prev, old) /\ g \in Surjection(DOMAIN current, new)
    BY DEF Surjection, SymbolsOf
  <2>2. g \in Injection(DOMAIN current, new)
    BY DEF Injection, IsInjective, Distinct, SymbolsOf
  <2>3. IsFiniteSet(DOMAIN prev) /\ IsFiniteSet(DOMAIN current) /\ Cardinality(DOMAIN current) = Len(current)
    <3>1. 1 \in Int /\ Len(prev) \in Int /\ Len(current) \in Int
      BY <1>1
    <3>2. /\ IsFiniteSet(1 .. Len(prev)) /\ IsFiniteSet(1 .. Len(current))
          /\ Cardinality(1 .. Len(current)) = IF 1 > Len(current) THEN 0 ELSE Len(current) - 1 + 1
      BY <3>1, FS_Interval
    <3> QED
      BY <1>1, <3>2
  <2> HIDE DEF f, g, old, new
  <2> QED
    BY <2>1, <2>2, <2>3, FS_Surjection
<1>6. Len(current) = Cardinality(old) + Cardinality(report.added) - Cardinality(report.removed)
  <2> HIDE DEF old, new, report
  <2>1. /\ Cardinality(added) = Cardinality(new) - Cardinality(new \cap old)
        /\ Cardinality(removed) = Cardinality(old) - Cardinality(old \cap new)
    BY <1>5, FS_Difference
  <2>2. Cardinality(new \cap old) = Cardinality(old \cap new)
    <3>1. new \cap old = old \cap new
      OBVIOUS
    <3> QED
      BY <3>1, Zenon
  <2>3. Cardinality(old) \in Nat /\ Cardinality(new) \in Nat /\ Cardinality(old \cap new) \in Nat
    BY <1>5, FS_CardinalityType, FS_Intersection
  <2>4. Cardinality(new) = Cardinality(old) + Cardinality(added) - Cardinality(removed)
    <3> DEFINE both == Cardinality(old \cap new)
    <3>1. Cardinality(added) = Cardinality(new) - both /\ Cardinality(removed) = Cardinality(old) - both
      BY <2>1, <2>2, Zenon
    <3> HIDE DEF both, added, removed
    <3> QED
      BY <2>3, <3>1 DEF both
  <2> HIDE DEF added, removed
  <2> QED
    BY <1>2, <1>5, <2>4
<1>7. ASSUME NEW change \in report.renames
      PROVE  /\ change.previous \in old \ new
             /\ change.current \in new \ old
             /\ \E row \in ToSet(current) : row.sym = change.current /\ row.isin = change.isin
  <2>1. PICK row \in came : change = named(row)
    BY <1>2, Zenon
  <2>2. row \in ToSet(current) /\ row.sym \in added /\ gone(row.isin) # {}
    OBVIOUS
  <2>3. Max(gone(row.isin)) \in gone(row.isin)
    <3> DEFINE G == gone(row.isin)
    <3>1. G \in SUBSET (0 .. Len(prev)) /\ G # {}
      BY <1>1, <2>2
    <3> HIDE DEF G
    <3>2. Max(G) \in G
      BY <1>1, <3>1, MaxOf
    <3> QED
      BY <3>2 DEF G
  <2>4. prev[Max(gone(row.isin))].sym \in removed
    BY <2>3
  <2>5. change.previous = prev[Max(gone(row.isin))].sym /\ change.current = row.sym /\ change.isin = row.isin
    BY <2>1
  <2> QED
    BY <2>2, <2>4, <2>5
<1> HIDE DEF report, old, new
<1> QED
  BY <1>3, <1>4, <1>6, <1>7, Zenon DEF report, old, new

\* A run that nothing overlapped and that wrote its entry compared itself with
\* the newest entry before it, and its report says what turns that universe into
\* its own (drift.py compute_universe_drift).
THEOREM DriftFromPredecessor == Spec => []DriftIsFromPredecessor
<1>1. IInv => DriftIsFromPredecessor
  <2> SUFFICES ASSUME IInv, NEW r \in alone, code[r] = "0"
               PROVE
        LET earlier == {t \in Listed(scope[r]) : t < stamp[r]}
            before(what) == IF earlier = {} THEN NoRun ELSE disk[<<scope[r], what, Max(earlier)>>]
        IN  /\ previous[r] = [members |-> before("members"), record |-> before("record")]
            /\ drift[r].status = NoPrevious <=> earlier = {}
            /\ earlier # {} =>
                  LET old    == SymbolsOf(members[previous[r].members])
                      report == drift[r]
                  IN  /\ SymbolsOf(members[r]) = (old \ report.removed) \cup report.added
                      /\ Len(members[r])
                             = Cardinality(old) + Cardinality(report.added) - Cardinality(report.removed)
                      /\ \A change \in report.renames :
                            /\ change.previous \in old \ SymbolsOf(members[r])
                            /\ change.current \in SymbolsOf(members[r]) \ old
                            /\ \E row \in ToSet(members[r]) :
                                  row.sym = change.current /\ row.isin = change.isin
    BY Zenon DEF DriftIsFromPredecessor
  <2> USE DEF IInv
  <2> DEFINE E == Earlier(r)
             p == previous[r].members
  <2>1. r \in Runs /\ scope[r] \in Scopes /\ stamp[r] # 0 /\ LastStamp \in Nat
    BY UniverseAssumption DEF TypeInv, StageInv, Stage
  <2>2. previous[r] = [members |-> At(r, "members", E), record |-> At(r, "record", E)]
    BY DEF PredecessorInv, PairAt
  <2>3. drift[r] = DriftSince(previous[r], r)
    BY <2>1 DEF ReportInv
  <2>4. CASE E = {}
    <3>1. p = NoRun
      BY <2>2, <2>4 DEF At
    <3>2. drift[r] = NoReport(NoPrevious)
      BY <2>3, <3>1 DEF DriftSince
    <3>3. drift[r].status = NoPrevious
      BY <3>2 DEF NoReport, Report
    <3> QED
      BY <2>2, <2>4, <3>3, Zenon DEF Earlier, At
  <2>5. CASE E # {}
    <3>1. p = disk[<<scope[r], "members", Max(E)>>]
      BY <2>2, <2>5 DEF At
    <3>2. Max(E) \in Stamps
      <4>1. E \in SUBSET Stamps
        BY DEF Earlier, Listed
      <4> HIDE DEF E
      <4> QED
        BY <2>5, <4>1, LastSecondIs
    <3>3. p \in Runs
      <4>1. p \in Runs \cup {NoRun}
        BY <2>1 DEF TypeInv, Pair
      <4>2. p \in Contents
        <5>1. <<scope[r], "members", Max(E)>> \in Paths
          BY <2>1, <3>2, PathsAre
        <5> QED
          BY <3>1, <5>1 DEF TypeInv
      <4>3. NoRun \notin Contents
        BY RunsAreNoContents DEF Contents, NoRun, NoFile, Torn
      <4> QED
        BY <4>1, <4>2, <4>3
    <3>4. drift[r] = Drift(members[p], members[r])
      <4>1. NoRun \notin Runs
        BY RunsAreNoContents
      <4> QED
        BY <2>3, <3>3, <4>1 DEF DriftSince
    <3>5. r # First
      <4>1. ASSUME r = First PROVE E = {}
        <5>1. stamp[r] = 1
          BY <4>1 DEF StageInv
        <5> QED
          BY <2>1, <5>1 DEF Earlier, Listed, Stamps
      <4> QED
        BY <2>5, <4>1
    <3>6. members[p] \in Seq(Member) /\ members[r] \in Seq(Member) /\ Distinct(members[r])
      BY <2>1, <3>3, <3>5 DEF TypeInv, StageInv, Stage
    <3> DEFINE prev == members[p]
               current == members[r]
    <3>7. LET report == Drift(prev, current)
              old == SymbolsOf(prev)
              new == SymbolsOf(current)
          IN  /\ report.status # NoPrevious
              /\ new = (old \ report.removed) \cup report.added
              /\ Len(current) = Cardinality(old) + Cardinality(report.added) - Cardinality(report.removed)
              /\ \A change \in report.renames :
                    /\ change.previous \in old \ new
                    /\ change.current \in new \ old
                    /\ \E row \in ToSet(current) : row.sym = change.current /\ row.isin = change.isin
      <4> HIDE DEF prev, current
      <4>1. prev \in Seq(Member) /\ current \in Seq(Member) /\ Distinct(current)
        BY <3>6 DEF prev, current
      <4> QED
        BY <4>1, DriftIs, Zenon
    <3> QED
      BY <2>2, <2>5, <3>4, <3>7, Zenon DEF Earlier, At
  <2> QED
    BY <2>4, <2>5
<1> QED
  BY <1>1, UniverseInductive, PTL

=============================================================================
