---------------------------- MODULE HistoryProofs ----------------------------
(***************************************************************************)
(* Proofs about a security's history: that what a bootstrap stores and     *)
(* reports is what Yahoo Finance sent (YahooHistory), and that scan and    *)
(* study see the same in it (SymbolScan), for every universe, override     *)
(* table, batch size and answer, and for every window, threshold and       *)
(* candle.                                                                 *)
(***************************************************************************)
EXTENDS YahooHistory, SymbolScan, SumProofs, SequenceTheorems

-------------------------------------------------------------------------------
(* Frames. *)

\* Of the rows of a date, one is the last.
LEMMA LastRowOfDate ==
    ASSUME NEW rows, DOMAIN rows \subseteq Nat
    PROVE  \A r, q \in LastOfDate(rows) : q.date = r.date => q = r
<1> SUFFICES ASSUME NEW r \in LastOfDate(rows), NEW q \in LastOfDate(rows), q.date = r.date
             PROVE  q = r
  OBVIOUS
<1>1. PICK i \in DOMAIN rows : /\ rows[i] = r
                               /\ \A j \in DOMAIN rows : j > i => rows[j].date # rows[i].date
  BY DEF LastOfDate
<1>2. PICK k \in DOMAIN rows : /\ rows[k] = q
                               /\ \A j \in DOMAIN rows : j > k => rows[j].date # rows[k].date
  BY DEF LastOfDate
<1>3. i \in Nat /\ k \in Nat
  OBVIOUS
<1>4. ~ (i < k) /\ ~ (k < i)
  BY <1>1, <1>2, <1>3
<1>5. i = k
  BY <1>3, <1>4
<1> QED
  BY <1>1, <1>2, <1>5

\* Yahoo's rows are at positions.
LEMMA SentAtPositions ==
    ASSUME NEW rows \in Sent
    PROVE  DOMAIN rows = 1 .. Len(rows) /\ Len(rows) \in Nat /\ DOMAIN rows \subseteq Nat
<1>1. rows \in Seq(ToSet(rows))
  BY YahooAssumption
<1>2. DOMAIN rows = 1 .. Len(rows) /\ Len(rows) \in Nat
  BY <1>1
<1> QED
  BY <1>2

-------------------------------------------------------------------------------
(* The benchmark. *)

\* No benchmark bar is of a day after the scan's, and no day has two, whatever
\* Yahoo sends for the range it is asked and however its table is named.
THEOREM BenchmarkIsWithinCutoff == Spec => []BenchmarkWithinCutoff
<1>1. Init => BenchmarkWithinCutoff
  BY DEF Init, BenchmarkWithinCutoff
<1>2. ASSUME BenchmarkWithinCutoff, [Next]_vars PROVE BenchmarkWithinCutoff'
  <2>1. CASE UNCHANGED <<benchmark, cutoff>>
    BY <1>2, <2>1 DEF BenchmarkWithinCutoff
  <2>2. CASE FetchBenchmark
    <3>1. PICK answer \in Answers(Shapes, Names) :
             benchmark' = IF \/ NormalizeTickerFrame(answer, Index) = NoFrame
                             \/ WithinCutoff(NormalizeTickerFrame(answer, Index)) = {}
                          THEN NoFrame ELSE WithinCutoff(NormalizeTickerFrame(answer, Index))
      BY <2>2 DEF FetchBenchmark
    <3> DEFINE rows == NormalizeTickerFrame(answer, Index)
    <3>2. cutoff' = cutoff
      BY <2>2 DEF FetchBenchmark
    <3>3. CASE benchmark' = NoFrame
      BY <3>3 DEF BenchmarkWithinCutoff
    <3>4. CASE benchmark' # NoFrame
      <4>1. rows # NoFrame /\ benchmark' = WithinCutoff(rows) /\ benchmark' # {}
        BY <3>1, <3>4
      <4> DEFINE match == IF Index \in DOMAIN answer.columns THEN Index
                          ELSE TheOne(answer.columns)
      <4>2. /\ rows = {r \in LastOfDate(answer.columns[match]) : r.bar # "empty"}
            /\ DOMAIN answer.columns # {}
        BY <4>1 DEF NormalizeTickerFrame
      <4>3. match \in DOMAIN answer.columns
        BY <4>2, Zenon DEF TheOne
      <4>4. answer.columns[match] \in Sent
        BY <4>3 DEF Answers
      <4>5. \A r, q \in rows : q.date = r.date => q = r
        <5>1. \A r, q \in LastOfDate(answer.columns[match]) : q.date = r.date => q = r
          <6>1. DOMAIN answer.columns[match] \subseteq Nat
            BY <4>4, SentAtPositions
          <6> HIDE DEF match
          <6> QED
            BY <6>1, LastRowOfDate
        <5> QED
          BY <4>2, <5>1
      <4>6. \A r \in WithinCutoff(rows) : r \in rows /\ (cutoff # NoCutoff => r.date <= cutoff)
        <5> HIDE DEF rows
        <5> QED
          BY DEF WithinCutoff
      <4> HIDE DEF rows
      <4> QED
        BY <3>2, <4>1, <4>5, <4>6 DEF BenchmarkWithinCutoff
    <3> QED
      BY <3>3, <3>4
  <2>3. CASE ~ FetchBenchmark
    <3>1. UNCHANGED <<benchmark, cutoff>>
      BY <1>2, <2>3 DEF Next, UniverseFails, GetConstituents, Download, Retry, BatchFails,
         ExtractSymbols, Store, StoreFails, BenchmarkFails, vars
    <3> QED
      BY <2>1, <3>1
  <2> QED
    BY <2>2, <2>3
<1> QED
  BY <1>1, <1>2, PTL DEF Spec

-------------------------------------------------------------------------------
(* The bootstrap. *)

\* What a frame keeps of the rows a ticker came with.
Kept(rows) == {i \in DOMAIN rows : rows[i].bar # "empty"}

\* The tickers of the first n members.
First(n) == {Tickers[i] : i \in {i \in DOMAIN universe : i <= n}}

\* Only one member has this ticker.
Own(t) == \A i, j \in DOMAIN universe : Tickers[i] = t /\ Tickers[j] = t => i = j

\* A ticker in a table Yahoo sent for a batch of this size.
IsSent(x) ==
    /\ x.ticker \in DOMAIN x.answer.columns
    /\ x.answer.columns[x.ticker] \in Sent
    /\ x.answer.shape \in {"tickerFirst", "fieldFirst", "plain"}

\* Before the batches, between two of them, and after the last.
Progress ==
    /\ universe \in Universes \cup {<< >>}
    /\ batch \in Nat
    /\ phase \in {"universe", "benchmark"} =>
          universe = << >> /\ batch = 0 /\ results = << >> /\ errors = {} /\ sent = {}
    /\ phase \in {"download", "extract"} => batch < Len(universe)
    /\ phase = "store" => batch >= Len(universe)

\* The tickers of the batches done have a history or an error; both only when two
\* members have the ticker.
TickersAccountedFor ==
    /\ DOMAIN results \cup errors = First(batch)
    /\ \A t \in DOMAIN results \cap errors : ~ Own(t)

\* A result is what Yahoo sent under the ticker.
ResultsAsSent ==
    \A t \in DOMAIN results : \E x \in sent :
        /\ x.ticker = t
        /\ Kept(x.answer.columns[t]) # {}
        /\ results[t] = Restrict(x.answer.columns[t], Kept(x.answer.columns[t]))

\* What Yahoo sent is of a batch done, or of the one being extracted; of a batch
\* done, the rows of a ticker no other member has are its result.
SentAsResult ==
    \A x \in sent :
        /\ IsSent(x)
        /\ \/ x.ticker \in First(batch)
           \/ /\ phase = "extract" /\ x.answer = data /\ x.size = Len(Chunk)
              /\ x.ticker \in ToSet(Chunk)
        /\ /\ x.ticker \in First(batch) /\ Own(x.ticker)
           /\ x.size > 1 /\ x.answer.shape # "plain" /\ x.answer.fields = "all"
           /\ Kept(x.answer.columns[x.ticker]) # {}
           => /\ x.ticker \in DOMAIN results
              /\ results[x.ticker] = Restrict(x.answer.columns[x.ticker],
                                              Kept(x.answer.columns[x.ticker]))

\* The answer being extracted is in the record of what was sent.
DataIsSent ==
    phase = "extract" =>
        /\ DOMAIN data.columns \subseteq ToSet(Chunk)
        /\ \A t \in DOMAIN data.columns :
              [ticker |-> t, answer |-> data, size |-> Len(Chunk)] \in sent

\* While the bootstrap runs its books are those of the batches done; at its end the
\* report and the store have what the properties say.
BootstrapInv ==
    /\ phase # "done" =>
          Progress /\ TickersAccountedFor /\ ResultsAsSent /\ SentAsResult /\ DataIsSent
          /\ appended = << >> /\ report = NoReport
    /\ phase = "done" => CoverageAddsUp /\ HistoryAsSent


\* The universe is a sequence, without duplicates, and so are its tickers.
LEMMA UniverseIs ==
    ASSUME universe \in Universes \cup {<< >>}
    PROVE  /\ Len(universe) \in Nat
           /\ DOMAIN universe = 1 .. Len(universe)
           /\ \A i, j \in DOMAIN universe : universe[i] = universe[j] => i = j
           /\ Tickers \in Seq(ToSet(Tickers))
           /\ Len(Tickers) = Len(universe)
           /\ DOMAIN Tickers = DOMAIN universe
           /\ \A i \in DOMAIN universe : Tickers[i] = Yahoo(universe[i])
<1>1. universe \in Seq(ToSet(universe))
  <2>1. CASE universe \in Universes
    BY <2>1, YahooAssumption
  <2>2. CASE universe = << >>
    BY <2>2
  <2> QED
    BY <2>1, <2>2
<1>2. \A i, j \in DOMAIN universe : universe[i] = universe[j] => i = j
  <2>1. CASE universe \in Universes
    BY <2>1, YahooAssumption DEF IsInjective
  <2>2. CASE universe = << >>
    BY <2>2
  <2> QED
    BY <2>1, <2>2
<1>3. DOMAIN universe = 1 .. Len(universe) /\ Len(universe) \in Nat
  BY <1>1
<1>4. /\ DOMAIN Tickers = DOMAIN universe
      /\ \A i \in DOMAIN universe : Tickers[i] = Yahoo(universe[i])
  BY DEF Tickers
<1>5. Tickers \in [1 .. Len(universe) -> ToSet(Tickers)]
  BY <1>3, <1>4 DEF Tickers, ToSet
<1>6. Tickers \in Seq(ToSet(Tickers)) /\ Len(Tickers) = Len(universe)
  BY <1>3, <1>5
<1> QED
  BY <1>2, <1>3, <1>4, <1>6

\* A batch is the tickers between two counts of those done.
LEMMA ChunkIs ==
    ASSUME universe \in Universes \cup {<< >>}, batch \in Nat, batch < Len(universe)
    PROVE  /\ ToSet(Chunk) = {Tickers[i] : i \in {i \in DOMAIN universe :
                                                    batch < i /\ i <= batch + BatchSize}}
           /\ Len(Chunk) \in Nat \ {0}
           /\ Len(Chunk) = 1 => \A t, u \in ToSet(Chunk) : t = u
<1> DEFINE n == Len(universe)
           hi == IF batch + BatchSize < n THEN batch + BatchSize ELSE n
<1>1. /\ n \in Nat /\ DOMAIN universe = 1 .. n /\ Len(Tickers) = n
      /\ Tickers \in Seq(ToSet(Tickers)) /\ DOMAIN Tickers = 1 .. n
  BY UniverseIs
<1>2. BatchSize \in Nat \ {0}
  BY YahooAssumption
<1>3. hi \in Nat /\ hi > batch /\ hi <= n /\ batch + 1 \in 1 .. n
  BY <1>1, <1>2
<1>4. Chunk = SubSeq(Tickers, batch + 1, hi)
  BY <1>1 DEF Chunk
<1> HIDE DEF hi
<1>5. /\ Len(Chunk) = hi - batch
      /\ DOMAIN Chunk = 1 .. (hi - batch)
      /\ \A k \in 1 .. (hi - batch) : Chunk[k] = Tickers[batch + k]
  BY <1>1, <1>3, <1>4
<1>6. ToSet(Chunk) = {Tickers[i] : i \in (batch + 1) .. hi}
  <2>1. ASSUME NEW k \in 1 .. (hi - batch) PROVE batch + k \in (batch + 1) .. hi
    BY <1>3
  <2>2. ASSUME NEW i \in (batch + 1) .. hi
        PROVE  i - batch \in 1 .. (hi - batch) /\ Chunk[i - batch] = Tickers[i]
    BY <1>3, <1>5
  <2> QED
    BY <1>5, <2>1, <2>2 DEF ToSet
<1>7. (batch + 1) .. hi = {i \in DOMAIN universe : batch < i /\ i <= batch + BatchSize}
  BY <1>1, <1>2 DEF hi
<1>8. Len(Chunk) = 1 => \A t, u \in ToSet(Chunk) : t = u
  <2> SUFFICES ASSUME Len(Chunk) = 1 PROVE \A t, u \in ToSet(Chunk) : t = u
    OBVIOUS
  <2>1. DOMAIN Chunk = {1}
    BY <1>3, <1>5
  <2> QED
    BY <2>1 DEF ToSet
<1> QED
  BY <1>3, <1>5, <1>6, <1>7, <1>8

\* After a batch, its tickers are done too.
LEMMA FirstAfterBatch ==
    ASSUME universe \in Universes \cup {<< >>}, batch \in Nat, batch < Len(universe)
    PROVE  /\ First(batch + BatchSize) = First(batch) \cup ToSet(Chunk)
           /\ \A t \in First(batch) \cap ToSet(Chunk) : ~ Own(t)
<1>1. BatchSize \in Nat \ {0}
  BY YahooAssumption
<1>2. DOMAIN universe \subseteq Nat
  BY UniverseIs
<1> DEFINE I == {i \in DOMAIN universe : i <= batch}
           J == {i \in DOMAIN universe : batch < i /\ i <= batch + BatchSize}
           K == {i \in DOMAIN universe : i <= batch + BatchSize}
<1>3. ToSet(Chunk) = {Tickers[i] : i \in J}
  BY ChunkIs
<1>4. K = I \cup J
  BY <1>1, <1>2
<1>5. First(batch) = {Tickers[i] : i \in I}
  BY DEF First
<1>6. First(batch + BatchSize) = {Tickers[i] : i \in K}
  BY DEF First
<1>7. ASSUME NEW t \in First(batch) \cap ToSet(Chunk) PROVE ~ Own(t)
  <2>1. PICK i \in I : Tickers[i] = t
    BY <1>5, <1>7
  <2>2. PICK j \in J : Tickers[j] = t
    BY <1>3, <1>7
  <2>3. i \in Nat /\ j \in Nat /\ i <= batch /\ batch < j
    BY <1>2, <2>1, <2>2
  <2>4. i # j /\ i \in DOMAIN universe /\ j \in DOMAIN universe
    BY <2>3
  <2> QED
    BY <2>1, <2>2, <2>4 DEF Own
<1> HIDE DEF I, J, K
<1> QED
  BY <1>3, <1>4, <1>5, <1>6, <1>7

\* After the last batch, all are.
LEMMA FirstIsAll ==
    ASSUME universe \in Universes \cup {<< >>}, batch \in Nat, batch >= Len(universe)
    PROVE  First(batch) = ToSet(Tickers)
<1>1. DOMAIN universe = 1 .. Len(universe) /\ Len(universe) \in Nat /\ DOMAIN Tickers = DOMAIN universe
  BY UniverseIs
<1>2. {i \in DOMAIN universe : i <= batch} = DOMAIN universe
  BY <1>1
<1> QED
  BY <1>1, <1>2 DEF First, ToSet

\* A ticker is taken for a member that has it, and for the only one there is.
LEMMA SymbolIs ==
    ASSUME universe \in Universes \cup {<< >>}, NEW t \in ToSet(Tickers)
    PROVE  /\ \E i \in DOMAIN universe : Symbol(t) = universe[i] /\ Tickers[i] = t
           /\ Yahoo(Symbol(t)) = t
<1> DEFINE I == {i \in DOMAIN universe : Tickers[i] = t}
           P(i) == Tickers[i] = t /\ \A j \in DOMAIN universe : Tickers[j] = t => j <= i
<1>1. /\ DOMAIN universe = 1 .. Len(universe) /\ Len(universe) \in Nat
      /\ DOMAIN Tickers = DOMAIN universe
      /\ \A i \in DOMAIN universe : Tickers[i] = Yahoo(universe[i])
  BY UniverseIs
<1>2. I # {}
  BY <1>1 DEF ToSet
<1>3. IsFiniteSet(I)
  <2>1. IsFiniteSet(1 .. Len(universe))
    BY <1>1, FS_Interval
  <2>2. I \in SUBSET (1 .. Len(universe))
    BY <1>1
  <2> QED
    BY <2>1, <2>2, FS_Subset
<1>4. \A x \in I : x \in Int
  BY <1>1
<1>5. PICK n \in I : \A m \in I : m <= n
  <2> HIDE DEF I
  <2> QED
    BY <1>2, <1>3, <1>4, GreatestNumber
<1>6. \E i \in DOMAIN universe : P(i)
  BY <1>5
<1>7. (CHOOSE i \in DOMAIN universe : P(i)) \in DOMAIN universe
      /\ P(CHOOSE i \in DOMAIN universe : P(i))
  <2> HIDE DEF P
  <2> QED
    BY <1>6, Zenon
<1>8. Symbol(t) = universe[CHOOSE i \in DOMAIN universe : P(i)]
  BY DEF Symbol
<1> QED
  BY <1>1, <1>7, <1>8

\* A member whose ticker no other has stands for it.
LEMMA SymbolOfOwn ==
    ASSUME universe \in Universes \cup {<< >>}, NEW s \in ToSet(universe), ~ Shared(s)
    PROVE  /\ Yahoo(s) \in ToSet(Tickers)
           /\ Own(Yahoo(s))
           /\ Symbol(Yahoo(s)) = s
           /\ \A t \in ToSet(Tickers) : Symbol(t) = s => t = Yahoo(s)
<1>1. /\ DOMAIN Tickers = DOMAIN universe
      /\ \A i \in DOMAIN universe : Tickers[i] = Yahoo(universe[i])
      /\ \A i, j \in DOMAIN universe : universe[i] = universe[j] => i = j
  BY UniverseIs
<1>2. PICK k \in DOMAIN universe : universe[k] = s
  BY DEF ToSet
<1>3. \A i \in DOMAIN universe : Tickers[i] = Yahoo(s) => universe[i] = s
  BY DEF Shared
<1>4. Yahoo(s) \in ToSet(Tickers)
  BY <1>1, <1>2 DEF ToSet
<1>5. Own(Yahoo(s))
  BY <1>1, <1>3 DEF Own
<1>6. Symbol(Yahoo(s)) = s
  BY <1>3, <1>4, SymbolIs
<1>7. \A t \in ToSet(Tickers) : Yahoo(Symbol(t)) = t
  BY SymbolIs
<1> QED
  BY <1>4, <1>5, <1>6, <1>7


\* The frame extracted for a ticker is what Yahoo sent under it, if anything.
LEMMA ExtractedFrame ==
    ASSUME NEW answer, NEW T, NEW t \in T, NEW n \in Nat, n = 1 => \A u, v \in T : u = v,
           DOMAIN answer.columns \subseteq T,
           ExtractSymbolFrame(answer, t, n) # NoFrame
    PROVE  /\ t \in DOMAIN answer.columns
           /\ Kept(answer.columns[t]) # {}
           /\ ExtractSymbolFrame(answer, t, n)
                = Restrict(answer.columns[t], Kept(answer.columns[t]))
<1> DEFINE c == answer.columns
           one == n = 1 /\ answer.shape \in {"fieldFirst", "plain"}
           many == n > 1 /\ answer.shape \in {"tickerFirst", "fieldFirst"} /\ t \in DOMAIN c
<1>1. /\ DOMAIN c # {}
      /\ \/ one /\ ExtractSymbolFrame(answer, t, n) = NoneIfEmpty(c[TheOne(c)], answer.fields)
         \/ many /\ ExtractSymbolFrame(answer, t, n) = NoneIfEmpty(c[t], answer.fields)
  BY DEF ExtractSymbolFrame
<1>2. t \in DOMAIN c /\ ExtractSymbolFrame(answer, t, n) = NoneIfEmpty(c[t], answer.fields)
  <2>1. CASE one /\ ExtractSymbolFrame(answer, t, n) = NoneIfEmpty(c[TheOne(c)], answer.fields)
    <3>1. TheOne(c) \in DOMAIN c
      BY <1>1, Zenon DEF TheOne
    <3>2. TheOne(c) = t
      BY <2>1, <3>1
    <3> QED
      BY <2>1, <3>1, <3>2
  <2>2. CASE many /\ ExtractSymbolFrame(answer, t, n) = NoneIfEmpty(c[t], answer.fields)
    BY <2>2
  <2> QED
    BY <1>1, <2>1, <2>2
<1>3. NoneIfEmpty(c[t], answer.fields) = Restrict(c[t], Kept(c[t])) /\ Kept(c[t]) # {}
  BY <1>2 DEF NoneIfEmpty, Kept
<1> QED
  BY <1>2, <1>3

\* Of several tickers, one that came with all its columns is extracted.
LEMMA ExtractedWhole ==
    ASSUME NEW answer, NEW t \in DOMAIN answer.columns, NEW n \in Nat, n > 1,
           answer.shape \in {"tickerFirst", "fieldFirst"}, answer.fields = "all",
           answer.columns[t] \in Sent, Kept(answer.columns[t]) # {}
    PROVE  /\ ExtractSymbolFrame(answer, t, n)
                = Restrict(answer.columns[t], Kept(answer.columns[t]))
           /\ ExtractSymbolFrame(answer, t, n) # NoFrame
<1>1. ExtractSymbolFrame(answer, t, n) = NoneIfEmpty(answer.columns[t], answer.fields)
  BY DEF ExtractSymbolFrame
<1>2. NoneIfEmpty(answer.columns[t], answer.fields)
        = Restrict(answer.columns[t], Kept(answer.columns[t]))
  BY DEF NoneIfEmpty, Kept
<1>3. Kept(answer.columns[t]) \in SUBSET DOMAIN answer.columns[t]
  BY DEF Kept
<1>4. Restrict(answer.columns[t], Kept(answer.columns[t])) # NoFrame
  BY <1>3, NoFrameAssumption
<1> QED
  BY <1>1, <1>2, <1>4

\* What is said of the universe stays while it does.
LEMMA SameUniverse ==
    ASSUME universe' = universe
    PROVE  /\ Tickers' = Tickers
           /\ \A n : First(n)' = First(n)
           /\ \A t : Own(t)' = Own(t)
           /\ \A s : Shared(s)' = Shared(s)
<1>1. Tickers' = Tickers
  BY DEF Tickers
<1> QED
  BY <1>1 DEF First, Own, Shared

Unfinished ==
    /\ Progress /\ TickersAccountedFor /\ ResultsAsSent /\ SentAsResult /\ DataIsSent
    /\ appended = << >> /\ report = NoReport

\* Before the batches nothing is accounted for.
LEMMA InvHoldsAtFirst == Init => BootstrapInv
<1> SUFFICES ASSUME Init PROVE Unfinished /\ phase # "done"
  BY DEF BootstrapInv, Unfinished
<1>1. DOMAIN universe = {} /\ DOMAIN results = {}
  BY DEF Init
<1>2. First(batch) = {}
  BY <1>1 DEF First
<1> QED
  BY <1>1, <1>2 DEF Init, Unfinished, Progress, TickersAccountedFor, ResultsAsSent, SentAsResult,
     DataIsSent

\* A run that gives up before the batches, and one that is a benchmark's.
LEMMA InvAfterNothing ==
    ASSUME BootstrapInv, UniverseFails \/ FetchBenchmark \/ BenchmarkFails
    PROVE  BootstrapInv'
<1>1. /\ phase \in {"universe", "benchmark"} /\ phase' = "done"
      /\ UNCHANGED <<universe, sent, appended, report>>
  BY DEF UniverseFails, FetchBenchmark, BenchmarkFails
<1>2. universe' = << >> /\ appended' = << >> /\ report' = NoReport
  BY <1>1 DEF BootstrapInv, Progress
<1>3. ToSet(universe') = {} /\ DOMAIN appended' = {}
  BY <1>2 DEF ToSet
<1>4. CoverageAddsUp'
  <2>1. /\ report'.populated = {} /\ report'.failed = {} /\ report'.invalid = {}
        /\ report'.insufficient = {}
    BY <1>2 DEF NoReport
  <2>2. \A n \in 1 .. 3 : <<report'.populated, report'.failed, report'.invalid>>[n] = {}
    BY <2>1
  <2> QED
    BY <1>3, <2>1, <2>2 DEF CoverageAddsUp
<1>5. HistoryAsSent'
  BY <1>3 DEF HistoryAsSent
<1> QED
  BY <1>1, <1>4, <1>5 DEF BootstrapInv

\* The invariant across each action of the bootstrap.
LEMMA InvAfterGetConstituents == ASSUME BootstrapInv, GetConstituents PROVE BootstrapInv'
<1>1. PICK u \in Universes : universe' = u /\ phase' = IF u = << >> THEN "store" ELSE "download"
  BY DEF GetConstituents
<1>2. /\ Unfinished /\ phase = "universe"
      /\ UNCHANGED <<batch, data, sent, results, errors, appended, report>>
  BY DEF GetConstituents, BootstrapInv, Unfinished
<1>3. /\ batch' = 0 /\ results' = << >> /\ errors' = {} /\ sent' = {}
      /\ appended' = << >> /\ report' = NoReport
  BY <1>2 DEF Unfinished, Progress
<1>4. u \in Seq(ToSet(u))
  BY YahooAssumption
<1>5. DOMAIN u \subseteq Nat \ {0} /\ Len(u) \in Nat /\ (u # << >> => Len(u) > 0)
      /\ (u = << >> => Len(u) = 0)
  BY <1>4
<1>6. First(batch)' = {}
  <2>1. First(batch)' = {Tickers'[i] : i \in {i \in DOMAIN universe' : i <= batch'}}
    BY DEF First
  <2>2. {i \in DOMAIN universe' : i <= batch'} = {}
    BY <1>1, <1>3, <1>5
  <2> QED
    BY <2>1, <2>2
<1>7. Progress'
  BY <1>1, <1>3, <1>5 DEF Progress
<1>8. DOMAIN results' = {}
  BY <1>3
<1> QED
  BY <1>1, <1>3, <1>6, <1>7, <1>8 DEF BootstrapInv, TickersAccountedFor, ResultsAsSent,
     SentAsResult, DataIsSent

LEMMA InvAfterRetry == ASSUME BootstrapInv, Retry PROVE BootstrapInv'
<1>1. /\ Unfinished /\ phase = "download"
      /\ UNCHANGED <<phase, universe, batch, data, sent, results, errors, appended, report>>
  BY DEF Retry, BootstrapInv, Unfinished
<1>2. First(batch)' = First(batch)
  BY <1>1 DEF First, Tickers
<1> QED
  BY <1>1, <1>2, SameUniverse DEF BootstrapInv, Unfinished, Progress, TickersAccountedFor,
     ResultsAsSent, SentAsResult, DataIsSent, IsSent


LEMMA InvAfterDownload == ASSUME BootstrapInv, Download PROVE BootstrapInv'
<1>1. PICK answer \in Answers(Shapes \ {"other"}, ToSet(Chunk)) :
         /\ data' = answer
         /\ sent' = sent \cup {[ticker |-> t, answer |-> answer, size |-> Len(Chunk)] :
                               t \in DOMAIN answer.columns}
  BY DEF Download
<1>2. /\ Unfinished /\ phase = "download" /\ phase' = "extract"
      /\ UNCHANGED <<universe, batch, results, errors, appended, report>>
  BY DEF Download, BootstrapInv, Unfinished
<1>3. /\ First(batch)' = First(batch) /\ Chunk' = Chunk
      /\ \A t : Own(t)' = Own(t)
  BY <1>2 DEF First, Tickers, Chunk, Own
<1>4. /\ DOMAIN answer.columns \subseteq ToSet(Chunk)
      /\ \A t \in DOMAIN answer.columns : answer.columns[t] \in Sent
      /\ answer.shape \in {"tickerFirst", "fieldFirst", "plain"}
  BY DEF Answers, Shapes
<1>5. Progress'
  BY <1>2 DEF Unfinished, Progress
<1>6. TickersAccountedFor'
  BY <1>2, <1>3 DEF Unfinished, TickersAccountedFor
<1>7. ResultsAsSent'
  <2>1. sent \subseteq sent' /\ results' = results
    BY <1>1, <1>2
  <2> QED
    BY <1>2, <2>1 DEF Unfinished, ResultsAsSent
<1>8. SentAsResult'
  <2> SUFFICES ASSUME NEW x \in sent'
               PROVE  /\ IsSent(x)
                      /\ \/ x.ticker \in First(batch)
                         \/ x.answer = data' /\ x.size = Len(Chunk) /\ x.ticker \in ToSet(Chunk)
                      /\ /\ x.ticker \in First(batch) /\ Own(x.ticker)
                         /\ x.size > 1 /\ x.answer.shape # "plain" /\ x.answer.fields = "all"
                         /\ Kept(x.answer.columns[x.ticker]) # {}
                         => /\ x.ticker \in DOMAIN results
                            /\ results[x.ticker] = Restrict(x.answer.columns[x.ticker],
                                                            Kept(x.answer.columns[x.ticker]))
    BY <1>2, <1>3 DEF SentAsResult, IsSent
  <2>1. CASE x \in sent
    BY <1>2, <2>1 DEF Unfinished, SentAsResult
  <2>2. CASE x \notin sent
    <3>1. PICK t \in DOMAIN answer.columns :
             x = [ticker |-> t, answer |-> answer, size |-> Len(Chunk)]
      BY <1>1, <2>2
    <3>2. x.ticker = t /\ x.answer = answer /\ x.size = Len(Chunk) /\ t \in ToSet(Chunk)
      BY <1>4, <3>1
    <3>3. IsSent(x)
      BY <1>4, <3>2 DEF IsSent
    <3>4. ~ (t \in First(batch) /\ Own(t))
      <4>1. universe \in Universes \cup {<< >>} /\ batch \in Nat /\ batch < Len(universe)
        BY <1>2 DEF Unfinished, Progress
      <4> QED
        BY <3>2, <4>1, FirstAfterBatch
    <3> QED
      BY <1>1, <3>2, <3>3, <3>4
  <2> QED
    BY <2>1, <2>2
<1>9. DataIsSent'
  BY <1>1, <1>3, <1>4 DEF DataIsSent
<1> QED
  BY <1>2, <1>5, <1>6, <1>7, <1>8, <1>9 DEF BootstrapInv, Unfinished

\* The count of the tickers done after a batch, and the phase that comes.
LEMMA BatchDone ==
    ASSUME Progress, phase \in {"download", "extract"},
           batch' = batch + BatchStep, phase' = NextPhase(batch'), universe' = universe
    PROVE  /\ Progress'
           /\ First(batch)' = First(batch) \cup ToSet(Chunk)
           /\ \A t \in First(batch) \cap ToSet(Chunk) : ~ Own(t)
           /\ phase' \in {"download", "store"}
<1>1. universe \in Universes \cup {<< >>} /\ batch \in Nat /\ batch < Len(universe)
  BY DEF Progress
<1>2. Len(Tickers) = Len(universe) /\ Len(universe) \in Nat
  BY <1>1, UniverseIs
<1>3. batch' \in Nat /\ batch' = batch + BatchSize
  BY <1>1, YahooAssumption DEF BatchStep
<1>4. Progress'
  BY <1>1, <1>2, <1>3 DEF Progress, NextPhase
<1>5. First(batch)' = First(batch + BatchSize)
  BY <1>3 DEF First, Tickers
<1> QED
  BY <1>1, <1>4, <1>5, FirstAfterBatch DEF NextPhase

LEMMA InvAfterBatchFails == ASSUME BootstrapInv, BatchFails PROVE BootstrapInv'
<1>1. /\ Unfinished /\ phase = "download"
      /\ errors' = errors \cup ToSet(Chunk) /\ batch' = batch + BatchStep
      /\ phase' = NextPhase(batch')
      /\ UNCHANGED <<universe, data, sent, results, appended, report>>
  BY DEF BatchFails, BootstrapInv, Unfinished
<1>2. /\ Progress'
      /\ First(batch)' = First(batch) \cup ToSet(Chunk)
      /\ \A t \in First(batch) \cap ToSet(Chunk) : ~ Own(t)
      /\ phase' \in {"download", "store"}
  BY <1>1, BatchDone DEF Unfinished
<1>3. \A t : Own(t)' = Own(t)
  BY <1>1, SameUniverse
<1>4. TickersAccountedFor'
  BY <1>1, <1>2, <1>3 DEF Unfinished, TickersAccountedFor
<1>5. ResultsAsSent'
  BY <1>1 DEF Unfinished, ResultsAsSent
<1>6. SentAsResult'
  <2> SUFFICES ASSUME NEW x \in sent
               PROVE  /\ IsSent(x)
                      /\ x.ticker \in First(batch)'
                      /\ /\ x.ticker \in First(batch)' /\ Own(x.ticker)
                         /\ x.size > 1 /\ x.answer.shape # "plain" /\ x.answer.fields = "all"
                         /\ Kept(x.answer.columns[x.ticker]) # {}
                         => /\ x.ticker \in DOMAIN results
                            /\ results[x.ticker] = Restrict(x.answer.columns[x.ticker],
                                                            Kept(x.answer.columns[x.ticker]))
    BY <1>1, <1>3 DEF SentAsResult, IsSent
  <2> QED
    BY <1>1, <1>2 DEF Unfinished, SentAsResult
<1>7. DataIsSent'
  BY <1>2 DEF DataIsSent
<1> QED
  BY <1>1, <1>2, <1>4, <1>5, <1>6, <1>7 DEF BootstrapInv, Unfinished

LEMMA InvAfterExtract == ASSUME BootstrapInv, ExtractSymbols PROVE BootstrapInv'
<1> DEFINE F == [t \in ToSet(Chunk) |-> ExtractSymbolFrame(data, t, Len(Chunk))]
           found == {t \in ToSet(Chunk) : F[t] # NoFrame}
<1>1. /\ Unfinished /\ phase = "extract"
      /\ results' = [t \in DOMAIN results \cup found |->
                        IF t \in found THEN F[t] ELSE results[t]]
      /\ errors' = errors \cup (ToSet(Chunk) \ found)
      /\ batch' = batch + BatchStep
      /\ phase' = NextPhase(batch')
      /\ UNCHANGED <<universe, sent, appended, report>>
  BY DEF ExtractSymbols, BootstrapInv, Unfinished
<1>2. /\ Progress'
      /\ First(batch)' = First(batch) \cup ToSet(Chunk)
      /\ \A t \in First(batch) \cap ToSet(Chunk) : ~ Own(t)
      /\ phase' \in {"download", "store"}
  BY <1>1, BatchDone DEF Unfinished
<1>3. \A t : Own(t)' = Own(t)
  BY <1>1, SameUniverse
<1>4. /\ Len(Chunk) \in Nat \ {0}
      /\ Len(Chunk) = 1 => \A t, u \in ToSet(Chunk) : t = u
  BY <1>1, ChunkIs DEF Unfinished, Progress
<1>5. /\ DOMAIN results' = found \cup DOMAIN results
      /\ \A t \in found : results'[t] = ExtractSymbolFrame(data, t, Len(Chunk))
      /\ \A t \in DOMAIN results \ found : results'[t] = results[t]
  BY <1>1
<1>6. /\ DOMAIN data.columns \subseteq ToSet(Chunk)
      /\ \A t \in DOMAIN data.columns :
            [ticker |-> t, answer |-> data, size |-> Len(Chunk)] \in sent
  BY <1>1 DEF Unfinished, DataIsSent
<1>7. \A t \in found : ExtractSymbolFrame(data, t, Len(Chunk)) # NoFrame /\ t \in ToSet(Chunk)
  OBVIOUS
<1>8. \A t \in ToSet(Chunk) : t \notin found => ExtractSymbolFrame(data, t, Len(Chunk)) = NoFrame
  OBVIOUS
<1>9. found \subseteq ToSet(Chunk)
  OBVIOUS
<1> HIDE DEF F, found
<1>10. TickersAccountedFor'
  <2>1. DOMAIN results' \cup errors' = First(batch)'
    BY <1>1, <1>2, <1>5, <1>9 DEF Unfinished, TickersAccountedFor
  <2>2. ASSUME NEW t \in DOMAIN results' \cap errors' PROVE ~ Own(t)
    <3>1. t \in DOMAIN results \cup errors => t \in First(batch)
      BY <1>1 DEF Unfinished, TickersAccountedFor
    <3>2. t \in DOMAIN results \cap errors \/ t \in First(batch) \cap ToSet(Chunk)
      BY <1>1, <1>5, <1>9, <2>2, <3>1
    <3> QED
      BY <1>1, <1>2, <3>2 DEF Unfinished, TickersAccountedFor
  <2> QED
    BY <1>3, <2>1, <2>2 DEF TickersAccountedFor
<1>11. ResultsAsSent'
  <2> SUFFICES ASSUME NEW t \in DOMAIN results'
               PROVE  \E x \in sent :
                         /\ x.ticker = t
                         /\ Kept(x.answer.columns[t]) # {}
                         /\ results'[t] = Restrict(x.answer.columns[t], Kept(x.answer.columns[t]))
    BY <1>1 DEF ResultsAsSent
  <2>1. CASE t \in found
    <3> DEFINE x == [ticker |-> t, answer |-> data, size |-> Len(Chunk)]
    <3>1. /\ t \in DOMAIN data.columns
          /\ Kept(data.columns[t]) # {}
          /\ results'[t] = Restrict(data.columns[t], Kept(data.columns[t]))
      <4>1. /\ t \in ToSet(Chunk) /\ Len(Chunk) \in Nat
            /\ Len(Chunk) = 1 => \A u, v \in ToSet(Chunk) : u = v
            /\ DOMAIN data.columns \subseteq ToSet(Chunk)
            /\ ExtractSymbolFrame(data, t, Len(Chunk)) # NoFrame
        BY <1>4, <1>6, <1>7, <2>1
      <4>2. /\ t \in DOMAIN data.columns
            /\ Kept(data.columns[t]) # {}
            /\ ExtractSymbolFrame(data, t, Len(Chunk))
                 = Restrict(data.columns[t], Kept(data.columns[t]))
        BY <4>1, ExtractedFrame
      <4> QED
        BY <1>5, <2>1, <4>2
    <3>2. x \in sent /\ x.ticker = t /\ x.answer = data
      BY <1>6, <3>1
    <3> HIDE DEF x
    <3> QED
      BY <3>1, <3>2
  <2>2. CASE t \notin found
    BY <1>1, <1>5, <2>2 DEF Unfinished, ResultsAsSent
  <2> QED
    BY <2>1, <2>2
<1>12. SentAsResult'
  <2> SUFFICES ASSUME NEW x \in sent
               PROVE  /\ IsSent(x)
                      /\ x.ticker \in First(batch)'
                      /\ /\ x.ticker \in First(batch)' /\ Own(x.ticker)
                         /\ x.size > 1 /\ x.answer.shape # "plain" /\ x.answer.fields = "all"
                         /\ Kept(x.answer.columns[x.ticker]) # {}
                         => /\ x.ticker \in DOMAIN results'
                            /\ results'[x.ticker] = Restrict(x.answer.columns[x.ticker],
                                                             Kept(x.answer.columns[x.ticker]))
    BY <1>1, <1>3 DEF SentAsResult, IsSent
  <2>1. /\ IsSent(x)
        /\ \/ x.ticker \in First(batch)
           \/ x.answer = data /\ x.size = Len(Chunk) /\ x.ticker \in ToSet(Chunk)
        /\ /\ x.ticker \in First(batch) /\ Own(x.ticker)
           /\ x.size > 1 /\ x.answer.shape # "plain" /\ x.answer.fields = "all"
           /\ Kept(x.answer.columns[x.ticker]) # {}
           => /\ x.ticker \in DOMAIN results
              /\ results[x.ticker] = Restrict(x.answer.columns[x.ticker],
                                              Kept(x.answer.columns[x.ticker]))
    BY <1>1 DEF Unfinished, SentAsResult
  <2>2. x.ticker \in First(batch)'
    BY <1>2, <2>1
  <2> SUFFICES ASSUME Own(x.ticker), x.size > 1, x.answer.shape # "plain",
                      x.answer.fields = "all", Kept(x.answer.columns[x.ticker]) # {}
               PROVE  /\ x.ticker \in DOMAIN results'
                      /\ results'[x.ticker] = Restrict(x.answer.columns[x.ticker],
                                                       Kept(x.answer.columns[x.ticker]))
    BY <2>1, <2>2
  <2>3. CASE x.ticker \in First(batch)
    <3>1. x.ticker \notin found
      BY <1>2, <1>9, <2>3
    <3> QED
      BY <1>5, <2>1, <2>3, <3>1
  <2>4. CASE x.ticker \notin First(batch)
    <3>1. x.answer = data /\ x.size = Len(Chunk) /\ x.ticker \in ToSet(Chunk)
      BY <2>1, <2>4
    <3>2. /\ ExtractSymbolFrame(data, x.ticker, Len(Chunk))
               = Restrict(data.columns[x.ticker], Kept(data.columns[x.ticker]))
          /\ ExtractSymbolFrame(data, x.ticker, Len(Chunk)) # NoFrame
      <4>1. /\ x.ticker \in DOMAIN data.columns /\ Len(Chunk) > 1 /\ Len(Chunk) \in Nat
            /\ data.shape \in {"tickerFirst", "fieldFirst"} /\ data.fields = "all"
            /\ data.columns[x.ticker] \in Sent /\ Kept(data.columns[x.ticker]) # {}
        BY <1>4, <2>1, <3>1 DEF IsSent
      <4> QED
        BY <4>1, ExtractedWhole
    <3>3. x.ticker \in found
      BY <1>8, <3>1, <3>2
    <3> QED
      BY <1>5, <3>1, <3>2, <3>3
  <2> QED
    BY <2>3, <2>4
<1>13. DataIsSent'
  BY <1>2 DEF DataIsSent
<1> QED
  BY <1>1, <1>2, <1>10, <1>11, <1>12, <1>13 DEF BootstrapInv, Unfinished


\* A cleaned bar is the last the ticker came with on its date, but for rows of
\* nothing.
LEMMA CleanedBar ==
    ASSUME NEW rows, ValidateAndClean(Restrict(rows, Kept(rows)), 1) # NoFrame,
           NEW r \in ValidateAndClean(Restrict(rows, Kept(rows)), 1)
    PROVE  \E i \in DOMAIN rows :
              /\ rows[i] = r
              /\ r.bar \in {"good", "amended"}
              /\ \A j \in DOMAIN rows :
                    j > i => rows[j].date # r.date \/ rows[j].bar = "empty"
<1> DEFINE frame == Restrict(rows, Kept(rows))
<1>1. DOMAIN frame = Kept(rows) /\ \A i \in Kept(rows) : frame[i] = rows[i]
  BY DEF Restrict
<1>2. r \in LastOfDate(frame) /\ r.bar \in {"good", "amended"}
  BY DEF ValidateAndClean
<1> HIDE DEF frame
<1>3. PICK i \in DOMAIN frame :
         /\ frame[i] = r
         /\ \A j \in DOMAIN frame : j > i => frame[j].date # frame[i].date
  BY <1>2 DEF LastOfDate
<1>4. i \in DOMAIN rows /\ rows[i] = r
  BY <1>1, <1>3 DEF Kept
<1>5. ASSUME NEW j \in DOMAIN rows, j > i PROVE rows[j].date # r.date \/ rows[j].bar = "empty"
  BY <1>1, <1>3, <1>5 DEF Kept
<1> QED
  BY <1>2, <1>4, <1>5

\* A valid bar no later row of its date follows is among the cleaned.
LEMMA ValidBarKept ==
    ASSUME NEW rows \in Sent, NEW i \in DOMAIN rows, rows[i].bar \in {"good", "amended"},
           \A j \in DOMAIN rows : j > i => rows[j].date # rows[i].date
    PROVE  /\ Kept(rows) # {}
           /\ ValidateAndClean(Restrict(rows, Kept(rows)), 1) # NoFrame
           /\ rows[i] \in ValidateAndClean(Restrict(rows, Kept(rows)), 1)
<1> DEFINE frame == Restrict(rows, Kept(rows))
           clean == {r \in LastOfDate(frame) : r.bar \in {"good", "amended"}}
<1>1. DOMAIN frame = Kept(rows) /\ \A k \in Kept(rows) : frame[k] = rows[k]
  BY DEF Restrict
<1>2. i \in Kept(rows)
  BY DEF Kept
<1>3. Kept(rows) \subseteq DOMAIN rows
  BY DEF Kept
<1>4. ValidateAndClean(frame, 1) = IF Cardinality(clean) < 1 THEN NoFrame ELSE clean
  BY DEF ValidateAndClean
<1> HIDE DEF frame
<1>5. rows[i] \in clean
  BY <1>1, <1>2, <1>3 DEF LastOfDate
<1>6. clean \in SUBSET ToSet(rows)
  BY <1>1, <1>3 DEF LastOfDate, ToSet
<1>7. IsFiniteSet(ToSet(rows))
  <2> DEFINE F == [k \in DOMAIN rows |-> rows[k]]
  <2>1. IsFiniteSet(DOMAIN rows)
    <3>1. DOMAIN rows = 1 .. Len(rows) /\ Len(rows) \in Int /\ 1 \in Int
      BY SentAtPositions
    <3> QED
      BY <3>1, FS_Interval
  <2>2. F \in Surjection(DOMAIN rows, ToSet(rows))
    BY DEF Surjection, ToSet
  <2> HIDE DEF F
  <2> QED
    BY <2>1, <2>2, FS_Surjection
<1>8. IsFiniteSet(clean)
  <2> HIDE DEF clean
  <2> QED
    BY <1>6, <1>7, FS_Subset
<1>9. Cardinality(clean) \in Nat /\ Cardinality(clean) # 0
  <2> HIDE DEF clean
  <2> QED
    BY <1>5, <1>8, FS_CardinalityType, FS_EmptySet
<1>10. clean # NoFrame
  <2> HIDE DEF clean
  <2> QED
    BY <1>6, NoFrameAssumption
<1>11. ValidateAndClean(frame, 1) = clean
  <2> HIDE DEF clean
  <2> QED
    BY <1>4, <1>9
<1> QED
  BY <1>2, <1>5, <1>10, <1>11 DEF frame

\* What the store is given and the report says.
LEMMA InvAfterStore == ASSUME BootstrapInv, Store PROVE BootstrapInv'
<1> DEFINE clean == [t \in DOMAIN results |-> ValidateAndClean(results[t], 1)]
           valid == {t \in DOMAIN results : clean[t] # NoFrame}
           of(T) == {Symbol(t) : t \in T}
<1>1. /\ Unfinished /\ phase = "store" /\ phase' = "done"
      /\ UNCHANGED <<universe, sent>>
  BY DEF Store, BootstrapInv, Unfinished
<1>2. /\ appended' = [s \in of(valid) |-> clean[Yahoo(s)]]
      /\ report' = [populated |-> of(valid),
                    insufficient |-> of({t \in valid : Cardinality(clean[t]) < MinRowsPrimary}),
                    failed |-> of(errors),
                    invalid |-> of(DOMAIN results \ valid)]
  BY DEF Store
<1>3. /\ universe \in Universes \cup {<< >>}
      /\ DOMAIN results \cup errors = ToSet(Tickers)
      /\ \A t \in DOMAIN results \cap errors : ~ Own(t)
  BY <1>1, FirstIsAll DEF Unfinished, Progress, TickersAccountedFor
<1>4. valid \subseteq DOMAIN results
  OBVIOUS
<1>5. /\ report'.populated = of(valid)
      /\ report'.insufficient \subseteq of(valid)
      /\ report'.failed = of(errors)
      /\ report'.invalid = of(DOMAIN results \ valid)
  BY <1>2
<1>6. \A t \in DOMAIN results : clean[t] = ValidateAndClean(results[t], 1)
  OBVIOUS
<1>7. \A t \in DOMAIN results : t \in valid <=> clean[t] # NoFrame
  OBVIOUS
<1> HIDE DEF clean, valid
<1>8. \A T : \A s : s \in of(T) <=> \E t \in T : Symbol(t) = s
  OBVIOUS
<1> HIDE DEF of
<1>9. CoverageAddsUp'
  <2> DEFINE lists == <<report'.populated, report'.failed, report'.invalid>>
  <2>1. /\ 1 .. 3 = {1, 2, 3} /\ lists[1] = of(valid) /\ lists[2] = of(errors)
        /\ lists[3] = of(DOMAIN results \ valid)
    BY <1>5
  <2> HIDE DEF lists
  <2>2. ASSUME NEW s \in ToSet(universe), ~ Shared(s)
        PROVE  Cardinality({n \in 1 .. 3 : s \in lists[n]}) = 1
    <3> DEFINE t == Yahoo(s)
    <3>1. /\ t \in ToSet(Tickers) /\ Own(t) /\ Symbol(t) = s
          /\ \A u \in ToSet(Tickers) : Symbol(u) = s => u = t
      BY <1>3, <2>2, SymbolOfOwn
    <3> HIDE DEF t
    <3>2. \A T : T \subseteq ToSet(Tickers) => (s \in of(T) <=> t \in T)
      BY <1>8, <3>1
    <3>3. /\ s \in lists[1] <=> t \in valid
          /\ s \in lists[2] <=> t \in errors
          /\ s \in lists[3] <=> t \in DOMAIN results \ valid
      <4>1. /\ valid \subseteq ToSet(Tickers) /\ errors \subseteq ToSet(Tickers)
            /\ DOMAIN results \ valid \subseteq ToSet(Tickers)
        BY <1>3, <1>4
      <4> QED
        BY <2>1, <3>2, <4>1
    <3>4. \E n \in {1, 2, 3} : \A m \in {1, 2, 3} : s \in lists[m] <=> m = n
      <4>1. CASE t \in errors
        BY <1>3, <1>4, <3>1, <3>3, <4>1
      <4>2. CASE t \in valid
        BY <1>3, <1>4, <3>1, <3>3, <4>2
      <4>3. CASE t \in DOMAIN results \ valid
        BY <1>3, <1>4, <3>1, <3>3, <4>3
      <4> QED
        BY <1>3, <3>1, <4>1, <4>2, <4>3
    <3>5. PICK n \in {1, 2, 3} : {m \in 1 .. 3 : s \in lists[m]} = {n}
      BY <2>1, <3>4
    <3> QED
      BY <3>5, FS_Singleton
  <2>3. ASSUME NEW n \in 1 .. 3, NEW s \in lists[n] PROVE Member(s)
    <3>1. \E T \in SUBSET ToSet(Tickers) : s \in of(T)
      BY <1>3, <1>4, <2>1
    <3>2. PICK t \in ToSet(Tickers) : Symbol(t) = s
      BY <1>8, <3>1
    <3> QED
      BY <1>3, <3>2, SymbolIs DEF Member
  <2>4. report'.insufficient \subseteq report'.populated
    BY <1>5
  <2>5. \A s : Shared(s)' = Shared(s) /\ Member(s)' = Member(s)
    BY <1>1, SameUniverse DEF Member
  <2> QED
    BY <1>1, <2>2, <2>3, <2>4, <2>5 DEF CoverageAddsUp, lists
<1>10. \A t \in DOMAIN results : t \in ToSet(Tickers) /\ Yahoo(Symbol(t)) = t
  BY <1>3, SymbolIs
<1>11. DOMAIN appended' = of(valid) /\ \A s \in of(valid) : appended'[s] = clean[Yahoo(s)]
  BY <1>2
<1>12. ASSUME NEW s \in DOMAIN appended'
       PROVE  \E x \in sent : x.ticker = Yahoo(s) /\ HistoryIsOwn(s, x)'
  <2>1. PICK t \in valid : Symbol(t) = s
    BY <1>8, <1>11
  <2>2. Yahoo(s) = t /\ t \in DOMAIN results /\ appended'[s] = ValidateAndClean(results[t], 1)
        /\ ValidateAndClean(results[t], 1) # NoFrame
    BY <1>4, <1>6, <1>7, <1>10, <1>11, <2>1
  <2>3. PICK x \in sent :
           /\ x.ticker = t
           /\ results[t] = Restrict(x.answer.columns[t], Kept(x.answer.columns[t]))
    BY <1>1, <2>2 DEF Unfinished, ResultsAsSent
  <2>4. ASSUME NEW r \in appended'[s]
        PROVE  \E i \in DOMAIN x.answer.columns[x.ticker] :
                  /\ x.answer.columns[x.ticker][i] = r
                  /\ r.bar \in {"good", "amended"}
                  /\ \A j \in DOMAIN x.answer.columns[x.ticker] :
                        j > i => \/ x.answer.columns[x.ticker][j].date # r.date
                                 \/ x.answer.columns[x.ticker][j].bar = "empty"
    BY <2>2, <2>3, CleanedBar
  <2> QED
    BY <2>2, <2>3, <2>4 DEF HistoryIsOwn
<1>13. ASSUME NEW s \in ToSet(universe), ~ Shared(s), NEW x \in sent, x.ticker = Yahoo(s)
       PROVE  HistoryIsWhole(s, x)'
  <2> DEFINE t == Yahoo(s)
             rows == x.answer.columns[x.ticker]
  <2>1. t \in ToSet(Tickers) /\ Own(t) /\ Symbol(t) = s
    BY <1>3, <1>13, SymbolOfOwn
  <2>2. First(batch) = ToSet(Tickers)
    BY <1>1, FirstIsAll DEF Unfinished, Progress
  <2>3. /\ rows \in Sent
        /\ x.size > 1 /\ x.answer.shape # "plain" /\ x.answer.fields = "all" /\ Kept(rows) # {}
           => t \in DOMAIN results /\ results[t] = Restrict(rows, Kept(rows))
    BY <1>1, <1>13, <2>1, <2>2 DEF Unfinished, SentAsResult, IsSent
  <2> SUFFICES ASSUME x.size > 1, x.answer.shape # "plain", x.answer.fields = "all",
                      NEW i \in DOMAIN rows, rows[i].bar \in {"good", "amended"},
                      \A j \in DOMAIN rows : j > i => rows[j].date # rows[i].date
               PROVE  s \in DOMAIN appended' /\ rows[i] \in appended'[s]
    BY DEF HistoryIsWhole
  <2>4. /\ Kept(rows) # {}
        /\ ValidateAndClean(Restrict(rows, Kept(rows)), 1) # NoFrame
        /\ rows[i] \in ValidateAndClean(Restrict(rows, Kept(rows)), 1)
    <3>1. rows \in Sent
      BY <2>3
    <3> HIDE DEF rows
    <3> QED
      BY <3>1, ValidBarKept
  <2>5. t \in DOMAIN results /\ clean[t] = ValidateAndClean(Restrict(rows, Kept(rows)), 1)
    BY <1>6, <2>3, <2>4
  <2>6. t \in valid
    BY <1>7, <2>4, <2>5
  <2>7. s \in of(valid)
    BY <1>8, <2>1, <2>6
  <2> QED
    BY <1>11, <2>4, <2>5, <2>7
<1>14. HistoryAsSent'
  <2>1. \A s : Yahoo(s)' = Yahoo(s) /\ Shared(s)' = Shared(s)
    BY <1>1, SameUniverse DEF Yahoo
  <2> QED
    BY <1>1, <1>12, <1>13, <2>1 DEF HistoryAsSent
<1> QED
  BY <1>1, <1>9, <1>14 DEF BootstrapInv

\* A store that raises leaves the books as they were.
LEMMA InvAfterStoreFails == ASSUME BootstrapInv, StoreFails PROVE BootstrapInv'
<1>1. /\ Unfinished /\ phase' = "failed"
      /\ UNCHANGED <<universe, batch, data, sent, results, errors, appended, report>>
  BY DEF StoreFails, BootstrapInv, Unfinished
<1>2. Tickers' = Tickers /\ First(batch)' = First(batch)
  BY <1>1 DEF Tickers, First
<1>3. \A t : Own(t)' = Own(t)
  BY <1>1, <1>2 DEF Own
<1>4. Progress' /\ TickersAccountedFor'
  BY <1>1, <1>2, <1>3 DEF Unfinished, Progress, TickersAccountedFor
<1>5. ResultsAsSent' /\ DataIsSent'
  BY <1>1 DEF Unfinished, ResultsAsSent, DataIsSent
<1>6. SentAsResult'
  <2>1. phase # "extract"
    BY DEF StoreFails
  <2>2. \A x \in sent : IsSent(x)' = IsSent(x)
    BY DEF IsSent
  <2> QED
    BY <1>1, <1>2, <1>3, <2>1, <2>2 DEF Unfinished, SentAsResult
<1> QED
  BY <1>1, <1>4, <1>5, <1>6 DEF BootstrapInv, Unfinished

\* The bootstrap keeps its books.
LEMMA BootstrapInvHolds == Spec => []BootstrapInv
<1>1. Init => BootstrapInv
  BY InvHoldsAtFirst
<1>2. ASSUME BootstrapInv, [Next]_vars PROVE BootstrapInv'
  <2>1. CASE UNCHANGED vars
    <3>1. UNCHANGED <<phase, universe, batch, data, sent, results, errors, appended, report>>
      BY <2>1 DEF vars
    <3>2. /\ Progress' = Progress /\ TickersAccountedFor' = TickersAccountedFor
          /\ ResultsAsSent' = ResultsAsSent /\ SentAsResult' = SentAsResult
          /\ DataIsSent' = DataIsSent
      BY <3>1 DEF Progress, TickersAccountedFor, ResultsAsSent, SentAsResult, DataIsSent,
         First, Tickers, Own, Chunk, IsSent
    <3>3. CoverageAddsUp' = CoverageAddsUp /\ HistoryAsSent' = HistoryAsSent
      BY <3>1 DEF CoverageAddsUp, HistoryAsSent, Shared, Member, Tickers, Yahoo,
         HistoryIsOwn, HistoryIsWhole
    <3> QED
      BY <1>2, <3>1, <3>2, <3>3 DEF BootstrapInv
  <2> QED
    BY <1>2, <2>1, InvAfterNothing, InvAfterGetConstituents, InvAfterDownload, InvAfterRetry,
       InvAfterBatchFails, InvAfterExtract, InvAfterStore, InvAfterStoreFails DEF Next
<1> QED
  BY <1>1, <1>2, PTL DEF Spec

\* For every universe, table of other names, batch size and answer, the coverage
\* report has each member whose Yahoo symbol is its own in exactly one list.
THEOREM CoverageIsComplete == Spec => []CoverageAddsUp
<1>1. BootstrapInv => CoverageAddsUp
  BY DEF BootstrapInv, CoverageAddsUp
<1> QED
  BY <1>1, BootstrapInvHolds, PTL

\* For every answer of any shape, a stored history is what came for its symbol
\* and no other's, and a valid bar that came in a batch is stored.
THEOREM HistoriesAsSent == Spec => []HistoryAsSent
<1>1. BootstrapInv => HistoryAsSent
  BY DEF BootstrapInv, HistoryAsSent
<1> QED
  BY <1>1, BootstrapInvHolds, PTL

-------------------------------------------------------------------------------
(* No look-ahead: what a row's columns depend on. *)

\* Two series that are the same up to a row.
SameUpTo(a, b, t) ==
    /\ 1 .. t \subseteq DOMAIN a /\ 1 .. t \subseteq DOMAIN b
    /\ \A u \in 1 .. t : a[u] = b[u]

\* A window ends at its row.
LEMMA RollingRowsUpTo ==
    ASSUME NEW t \in Nat, NEW k \in Nat \ {0}
    PROVE  RollingRows(t, k) \subseteq 1 .. t /\ IsFiniteSet(RollingRows(t, k))
<1>1. CASE t < k
  BY <1>1, FS_EmptySet DEF RollingRows
<1>2. CASE t >= k
  <2>1. RollingRows(t, k) = t - k + 1 .. t /\ t - k + 1 \in Int /\ t \in Int /\ t - k + 1 >= 1
    BY <1>2 DEF RollingRows
  <2>2. IsFiniteSet(t - k + 1 .. t)
    BY <2>1, FS_Interval
  <2> QED
    BY <2>1, <2>2
<1> QED
  BY <1>1, <1>2

\* Series that are the same up to a row have the same sums over its window.
LEMMA SumOfShared ==
    ASSUME NEW t \in Nat, NEW k \in Nat \ {0}, NEW a, NEW b, \A u \in 1 .. t : a[u] = b[u]
    PROVE  SumOver(a, RollingRows(t, k)) = SumOver(b, RollingRows(t, k))
<1> DEFINE S == RollingRows(t, k)
<1>1. IsFiniteSet(S)
  BY RollingRowsUpTo, Zenon
<1>2. \A x \in S : a[x] = b[x]
  BY RollingRowsUpTo
<1>3. SumFunctionOnSet(a, S) = SumFunctionOnSet(b, S)
  <2> HIDE DEF S
  <2> QED
    BY <1>1, <1>2, SumAgrees
<1> QED
  BY <1>3, Zenon DEF SumOver

\* Of such histories the closes agree.
LEMMA ClosesShared ==
    ASSUME NEW a, NEW b, NEW t \in Nat, SameUpTo(a, b, t)
    PROVE  SameUpTo(Closes(a), Closes(b), t)
<1>1. \A u \in 1 .. t : Closes(a)[u] = a[u].close /\ Closes(b)[u] = b[u].close /\ a[u] = b[u]
  BY DEF SameUpTo, Closes
<1>2. DOMAIN Closes(a) = DOMAIN a /\ DOMAIN Closes(b) = DOMAIN b
  BY DEF Closes
<1>3. \A u \in 1 .. t : Closes(a)[u] = Closes(b)[u]
  BY <1>1
<1> QED
  BY <1>2, <1>3 DEF SameUpTo

\* Series that are the same up to a row are so up to an earlier one.
LEMMA SharedBefore ==
    ASSUME NEW a, NEW b, NEW t \in Nat, NEW u \in Nat, u <= t, SameUpTo(a, b, t)
    PROVE  SameUpTo(a, b, u)
<1>1. 1 .. u \subseteq 1 .. t
  OBVIOUS
<1> QED
  BY <1>1 DEF SameUpTo

\* The band of a row.
LEMMA SpreadShared ==
    ASSUME NEW c, NEW d, NEW t \in Nat, SameUpTo(c, d, t)
    PROVE  /\ Spread(c, t) = Spread(d, t)
           /\ SumOver(c, RollingRows(t, BbPeriod)) = SumOver(d, RollingRows(t, BbPeriod))
<1> DEFINE sq(x) == [u \in DOMAIN x |-> x[u] * x[u]]
<1>0. BbPeriod \in Nat \ {0}
  BY IndicatorAssumption
<1>1. \A u \in 1 .. t : sq(c)[u] = sq(d)[u]
  <2> SUFFICES ASSUME NEW u \in 1 .. t PROVE sq(c)[u] = sq(d)[u]
    OBVIOUS
  <2>1. u \in DOMAIN c /\ u \in DOMAIN d /\ c[u] = d[u]
    BY DEF SameUpTo
  <2> QED
    BY <2>1
<1>2. \A u \in 1 .. t : c[u] = d[u]
  BY DEF SameUpTo
<1>3. SumOver(sq(c), RollingRows(t, BbPeriod)) = SumOver(sq(d), RollingRows(t, BbPeriod))
  <2> HIDE DEF sq
  <2> QED
    BY <1>0, <1>1, SumOfShared
<1>4. SumOver(c, RollingRows(t, BbPeriod)) = SumOver(d, RollingRows(t, BbPeriod))
  BY <1>0, <1>2, SumOfShared
<1> QED
  BY <1>3, <1>4, Zenon DEF Spread

\* The band's comparison reads no later row.
LEMMA BandShared ==
    ASSUME NEW c, NEW d, NEW t \in Nat, SameUpTo(c, d, t), NEW a, NEW b
    PROVE  /\ UpperAtLeast(c, t, a, b) <=> UpperAtLeast(d, t, a, b)
           /\ UpperAbove(c, t, a, b) <=> UpperAbove(d, t, a, b)
<1>1. /\ Spread(c, t) = Spread(d, t)
      /\ SumOver(c, RollingRows(t, BbPeriod)) = SumOver(d, RollingRows(t, BbPeriod))
  BY SpreadShared
<1>2. UpperAtLeast(c, t, a, b) <=> UpperAtLeast(d, t, a, b)
  BY <1>1, Zenon DEF UpperAtLeast
<1>3. UpperAbove(c, t, a, b) <=> UpperAbove(d, t, a, b)
  BY <1>1, Zenon DEF UpperAbove
<1> QED
  BY <1>2, <1>3

\* Where a close is to its band.
LEMMA AboveShared ==
    ASSUME NEW c, NEW d, NEW t \in Nat, SameUpTo(c, d, t)
    PROVE  /\ IsAbove(c, t) <=> IsAbove(d, t)
           /\ \A k : /\ OvershootAtMost(c, t, k) <=> OvershootAtMost(d, t, k)
                     /\ OvershootBelow(c, t, k) <=> OvershootBelow(d, t, k)
<1>0. BbPeriod \in Nat \ {0}
  BY IndicatorAssumption
<1>1. CASE t = 0
  <2>1. ~ (t >= BbPeriod)
    BY <1>0, <1>1
  <2> QED
    BY <2>1 DEF IsAbove, OvershootAtMost, OvershootBelow, UpperAtLeast, UpperAbove
<1>2. CASE t # 0
  <2>1. c[t] = d[t]
    BY <1>2 DEF SameUpTo
  <2>2. IsAbove(c, t) <=> IsAbove(d, t)
    <3>1. UpperAtLeast(c, t, c[t], 1) <=> UpperAtLeast(d, t, c[t], 1)
      BY BandShared
    <3> QED
      BY <2>1, <3>1 DEF IsAbove
  <2>3. ASSUME NEW k
        PROVE  /\ OvershootAtMost(c, t, k) <=> OvershootAtMost(d, t, k)
               /\ OvershootBelow(c, t, k) <=> OvershootBelow(d, t, k)
    <3>1. /\ UpperAtLeast(c, t, 100 * c[t], 100 + k) <=> UpperAtLeast(d, t, 100 * c[t], 100 + k)
          /\ UpperAbove(c, t, 100 * c[t], 100 + k) <=> UpperAbove(d, t, 100 * c[t], 100 + k)
      BY BandShared
    <3> QED
      BY <2>1, <3>1 DEF OvershootAtMost, OvershootBelow
  <2> QED
    BY <2>2, <2>3
<1> QED
  BY <1>1, <1>2

\* Nor does its width.
LEMMA WidthShared ==
    ASSUME NEW c, NEW d, NEW t \in Nat, SameUpTo(c, d, t)
    PROVE  WidthExpands(c, t) <=> WidthExpands(d, t)
<1>0. BbPeriod \in Nat \ {0}
  BY IndicatorAssumption
<1>1. CASE t > BbPeriod
  <2>1. t - 1 \in Nat /\ t - 1 <= t
    BY <1>0, <1>1
  <2>2. SameUpTo(c, d, t - 1)
    BY <2>1, SharedBefore, Zenon
  <2>3. /\ Spread(c, t) = Spread(d, t)
        /\ SumOver(c, RollingRows(t, BbPeriod)) = SumOver(d, RollingRows(t, BbPeriod))
    BY SpreadShared
  <2>4. /\ Spread(c, t - 1) = Spread(d, t - 1)
        /\ SumOver(c, RollingRows(t - 1, BbPeriod)) = SumOver(d, RollingRows(t - 1, BbPeriod))
    BY <2>1, <2>2, SpreadShared
  <2> QED
    BY <2>3, <2>4, Zenon DEF WidthExpands
<1>2. CASE ~ (t > BbPeriod)
  BY <1>2, Zenon DEF WidthExpands
<1> QED
  BY <1>1, <1>2

\* The state of the breakout, and the days it has lasted.
LEMMA BreakoutShared ==
    ASSUME NEW c, NEW d, NEW t \in Nat, SameUpTo(c, d, t)
    PROVE  /\ BreakoutType(c, t) = BreakoutType(d, t)
           /\ DaysAbove(c, t) = DaysAbove(d, t)
           /\ ExtensionClass(c, t) = ExtensionClass(d, t)
<1>1. \A u \in 1 .. t : IsAbove(c, u) <=> IsAbove(d, u)
  <2> SUFFICES ASSUME NEW u \in 1 .. t PROVE IsAbove(c, u) <=> IsAbove(d, u)
    OBVIOUS
  <2>1. u \in Nat /\ u <= t
    OBVIOUS
  <2>2. SameUpTo(c, d, u)
    BY <2>1, SharedBefore, Zenon
  <2> QED
    BY <2>1, <2>2, AboveShared, Zenon
<1>2. IsAbove(c, t) <=> IsAbove(d, t)
  BY AboveShared, Zenon
<1>3. BreakoutType(c, t) = BreakoutType(d, t)
  <2>1. (t > 1 /\ IsAbove(c, t - 1)) <=> (t > 1 /\ IsAbove(d, t - 1))
    <3>1. CASE t > 1
      <4>1. t - 1 \in 1 .. t
        BY <3>1
      <4> QED
        BY <1>1, <4>1, Zenon
    <3> QED
      BY <3>1, Zenon
  <2> DEFINE p == t > 1 /\ IsAbove(c, t - 1)
             q == t > 1 /\ IsAbove(d, t - 1)
             x == IsAbove(c, t)
             y == IsAbove(d, t)
  <2>2. /\ BreakoutType(c, t)
             = CASE ~ p /\ x -> "FRESH_BREAKOUT" [] p /\ x -> "CONTINUATION"
                 [] p /\ ~ x -> "FAILED_BREAKOUT" [] OTHER -> "NO_BREAKOUT"
        /\ BreakoutType(d, t)
             = CASE ~ q /\ y -> "FRESH_BREAKOUT" [] q /\ y -> "CONTINUATION"
                 [] q /\ ~ y -> "FAILED_BREAKOUT" [] OTHER -> "NO_BREAKOUT"
    BY Zenon DEF BreakoutType
  <2>3. (p <=> q) /\ (x <=> y)
    BY <1>2, <2>1, Zenon
  <2> HIDE DEF p, q, x, y
  <2> QED
    BY <2>2, <2>3
<1>4. DaysAbove(c, t) = DaysAbove(d, t)
  <2> DEFINE off(x, u) == {v \in 1 .. u : ~ IsAbove(x, v)}
             streak(x, u) == Cardinality(off(x, u))
             run(x) == {u \in 1 .. t : IsAbove(x, u) /\ streak(x, u) = streak(x, t)}
  <2>1. \A u \in 1 .. t : off(c, u) = off(d, u)
    <3> SUFFICES ASSUME NEW u \in 1 .. t PROVE off(c, u) = off(d, u)
      BY Zenon
    <3>1. 1 .. u \subseteq 1 .. t
      OBVIOUS
    <3> QED
      BY <1>1, <3>1
  <2>2. off(c, t) = off(d, t)
    BY <1>1, Zenon
  <2>3. run(c) = run(d)
    <3> HIDE DEF off
    <3>1. \A u \in 1 .. t : streak(c, u) = streak(d, u)
      BY <2>1
    <3>2. streak(c, t) = streak(d, t)
      BY <2>2
    <3> HIDE DEF streak
    <3> QED
      BY <1>1, <3>1, <3>2
  <2>4. \A x : DaysAbove(x, t) = IF IsAbove(x, t) THEN Cardinality(run(x)) ELSE 0
    BY Zenon DEF DaysAbove
  <2> HIDE DEF run
  <2> QED
    BY <1>2, <2>3, <2>4
<1>5. ExtensionClass(c, t) = ExtensionClass(d, t)
  <2>1. /\ OvershootBelow(c, t, 1) <=> OvershootBelow(d, t, 1)
        /\ OvershootBelow(c, t, 2) <=> OvershootBelow(d, t, 2)
        /\ OvershootAtMost(c, t, MaxOvershoot) <=> OvershootAtMost(d, t, MaxOvershoot)
    BY AboveShared, Zenon
  <2> QED
    BY <1>2, <2>1 DEF ExtensionClass
<1> QED
  BY <1>3, <1>4, <1>5

\* The trend and the volume the optional filters read.
LEMMA TrendShared ==
    ASSUME NEW c, NEW d, NEW t \in Nat, SameUpTo(c, d, t)
    PROVE  /\ AboveTrend(c, t) <=> AboveTrend(d, t)
           /\ SumOver(c, RollingRows(t, TrendPeriod)) = SumOver(d, RollingRows(t, TrendPeriod))
<1>0. TrendPeriod \in Nat \ {0}
  BY IndicatorAssumption
<1>1. \A u \in 1 .. t : c[u] = d[u]
  BY DEF SameUpTo
<1>2. SumOver(c, RollingRows(t, TrendPeriod)) = SumOver(d, RollingRows(t, TrendPeriod))
  BY <1>0, <1>1, SumOfShared
<1>3. t >= TrendPeriod => c[t] = d[t]
  BY <1>0, <1>1
<1> QED
  BY <1>2, <1>3, Zenon DEF AboveTrend

\* Nor does the ratio of volumes.
LEMMA VolumeShared ==
    ASSUME NEW a, NEW b, NEW t \in Nat \ {0}, SameUpTo(a, b, t)
    PROVE  /\ HasVolumeRatio(a, t) <=> HasVolumeRatio(b, t)
           /\ VolumeConfirms(a, t) <=> VolumeConfirms(b, t)
<1> DEFINE vol(x) == [u \in DOMAIN x |-> x[u].volume]
<1>0. VolumePeriod \in Nat \ {0} /\ t \in Nat
  BY IndicatorAssumption
<1>1. \A u \in 1 .. t : u \in DOMAIN a /\ u \in DOMAIN b /\ a[u] = b[u]
  BY DEF SameUpTo
<1>2. \A u \in RollingRows(t, VolumePeriod) : a[u] = b[u]
  BY <1>0, <1>1, RollingRowsUpTo
<1>3. HasVolumeRatio(a, t) <=> HasVolumeRatio(b, t)
  BY <1>2 DEF HasVolumeRatio
<1>4. \A u \in 1 .. t : vol(a)[u] = vol(b)[u]
  BY <1>1
<1>5. SumOver(vol(a), RollingRows(t, VolumePeriod)) = SumOver(vol(b), RollingRows(t, VolumePeriod))
  <2> HIDE DEF vol
  <2> QED
    BY <1>0, <1>4, SumOfShared
<1>6. a[t] = b[t]
  BY <1>0, <1>1
<1> QED
  BY <1>3, <1>5, <1>6, Zenon DEF VolumeConfirms

\* The strength against the index, and its regime on the day.
LEMMA IndexShared ==
    ASSUME NEW a, NEW b, NEW t \in Nat \ {0}, SameUpTo(a, b, t), NEW rows
    PROVE  /\ HasRs(a, rows, t) <=> HasRs(b, rows, t)
           /\ Outperforms(a, rows, t) <=> Outperforms(b, rows, t)
           /\ Bullish(a, rows, t) <=> Bullish(b, rows, t)
<1>0. ReturnPeriod \in Nat \ {0}
  BY IndicatorAssumption
<1>1. a[t] = b[t]
  BY DEF SameUpTo
<1>2. HasRs(a, rows, t) <=> HasRs(b, rows, t)
  BY <1>1, Zenon DEF HasRs
<1>3. t > ReturnPeriod => a[t - ReturnPeriod] = b[t - ReturnPeriod]
  BY <1>0 DEF SameUpTo
<1>4. Outperforms(a, rows, t) <=> Outperforms(b, rows, t)
  <2>1. CASE t > ReturnPeriod
    <3>1. a[t - ReturnPeriod] = b[t - ReturnPeriod]
      BY <1>3, <2>1
    <3> QED
      BY <1>1, <1>2, <3>1, Zenon DEF Outperforms
  <2>2. CASE ~ (t > ReturnPeriod)
    BY <2>2, Zenon DEF Outperforms, HasRs
  <2> QED
    BY <2>1, <2>2
<1>5. Bullish(a, rows, t) <=> Bullish(b, rows, t)
  BY <1>1, Zenon DEF Bullish
<1> QED
  BY <1>2, <1>4, <1>5

\* The Heikin-Ashi opens follow one from the other.
LEMMA HaOpenIs ==
    ASSUME NEW bars, NEW n \in Nat, DOMAIN bars = 1 .. n
    PROVE  /\ DOMAIN HaOpen(bars) = 1 .. n
           /\ \A t \in 1 .. n : HaOpen(bars)[t] =
             IF t = 1 THEN 2 * (bars[1].open + bars[1].close)
             ELSE HaOpen(bars)[t - 1] + HaCloseOf(bars[t - 1]) * 2 ^ (t - 2)
<1> DEFINE Val(f, t) == IF t = 1 THEN 2 * (bars[1].open + bars[1].close)
                        ELSE f[t - 1] + HaCloseOf(bars[t - 1]) * 2 ^ (t - 2)
           Upto(f, k) == DOMAIN f = 1 .. k /\ \A t \in 1 .. k : f[t] = Val(f, t)
           T == {k \in Nat : k <= n /\ ~ \E f : Upto(f, k)}
           H(f) == f = [t \in DOMAIN bars |-> Val(f, t)]
           R == CHOOSE f : H(f)
<1>1. ASSUME NEW k \in T, \A m \in T : k <= m PROVE FALSE
  <2>1. k \in Nat /\ k <= n /\ ~ \E f : Upto(f, k)
    BY Zenon
  <2>2. CASE k = 0
    <3> DEFINE e == [t \in 1 .. 0 |-> 0]
    <3>1. Upto(e, 0)
      <4>1. DOMAIN e = 1 .. 0 /\ \A t \in 1 .. 0 : FALSE
        OBVIOUS
      <4> HIDE DEF e, Val
      <4> QED
        BY <4>1
    <3> QED
      BY <2>1, <2>2, <3>1
  <2>3. CASE k # 0
    <3>1. k - 1 \in Nat /\ k - 1 <= n /\ k - 1 \notin T
      <4> HIDE DEF T
      <4> QED
        BY <1>1, <2>1, <2>3
    <3>2. PICK p : Upto(p, k - 1)
      <4> HIDE DEF Upto
      <4> QED
        BY <3>1
    <3> DEFINE q == [t \in 1 .. k |-> IF t = k THEN Val(p, k) ELSE p[t]]
    <3>3. ASSUME NEW t \in 1 .. k PROVE q[t] = Val(q, t)
      <4>1. t > 1 => q[t - 1] = p[t - 1]
        BY <2>1
      <4>2. Val(q, t) = Val(p, t)
        <5>1. CASE t > 1
          <6>1. q[t - 1] = p[t - 1]
            BY <4>1, <5>1
          <6> HIDE DEF q
          <6> QED
            BY <6>1
        <5>2. CASE ~ (t > 1)
          <6>1. t = 1
            BY <5>2
          <6> HIDE DEF q
          <6> QED
            BY <6>1
        <5> QED
          BY <5>1, <5>2
      <4>3. CASE t = k
        <5>1. q[t] = Val(p, t)
          <6> HIDE DEF Val
          <6> QED
            BY <4>3
        <5> QED
          BY <4>2, <5>1, Zenon
      <4>4. CASE t # k
        <5>1. t \in 1 .. k - 1
          BY <2>1, <4>4
        <5>2. q[t] = p[t] /\ p[t] = Val(p, t)
          <6> HIDE DEF Val
          <6> QED
            BY <3>2, <4>4, <5>1
        <5> HIDE DEF q, Val
        <5> QED
          BY <4>2, <5>2
      <4> QED
        BY <4>3, <4>4
    <3>4. Upto(q, k)
      <4>1. DOMAIN q = 1 .. k
        OBVIOUS
      <4> HIDE DEF q, Val
      <4> QED
        BY <3>3, <4>1
    <3> HIDE DEF q, Upto
    <3> QED
      BY <2>1, <3>4
  <2> QED
    BY <2>2, <2>3
<1>2. T = {}
  <2>1. T \in SUBSET Nat
    <3> HIDE DEF Upto
    <3> QED
      OBVIOUS
  <2> HIDE DEF T
  <2> QED
    BY <1>1, <2>1, LeastNumber
<1>3. PICK e : Upto(e, n)
  <2>1. n \notin T /\ n <= n
    BY <1>2
  <2> HIDE DEF Upto
  <2> QED
    BY <2>1
<1>4. \E x : H(x)
  <2> DEFINE E == [t \in 1 .. n |-> e[t]]
  <2>1. ASSUME NEW t \in 1 .. n PROVE E[t] = Val(E, t)
    <3>1. E[t] = e[t] /\ e[t] = Val(e, t)
      <4> HIDE DEF Val
      <4> QED
        BY <1>3
    <3>2. Val(E, t) = Val(e, t)
      <4>1. CASE t > 1
        <5>1. E[t - 1] = e[t - 1]
          BY <4>1
        <5> HIDE DEF E
        <5> QED
          BY <5>1
      <4>2. CASE ~ (t > 1)
        <5>1. t = 1
          BY <4>2
        <5> HIDE DEF E
        <5> QED
          BY <5>1
      <4> QED
        BY <4>1, <4>2
    <3> HIDE DEF E, Val
    <3> QED
      BY <3>1, <3>2
  <2>2. E = [t \in 1 .. n |-> E[t]]
    OBVIOUS
  <2>3. E = [t \in 1 .. n |-> Val(E, t)]
    <3> HIDE DEF E, Val
    <3> QED
      BY <2>1, <2>2
  <2>4. H(E)
    <3> HIDE DEF E, Val
    <3> QED
      BY <2>3
  <2> HIDE DEF E, H
  <2> QED
    BY <2>4
<1>5. H(R)
  <2> HIDE DEF H
  <2> QED
    BY <1>4
<1>6. HaOpen(bars) = R
  BY Zenon DEF HaOpen
<1> HIDE DEF R
<1>7. DOMAIN R = 1 .. n /\ \A t \in 1 .. n : R[t] = Val(R, t)
  <2>1. R = [t \in 1 .. n |-> Val(R, t)]
    BY <1>5
  <2> HIDE DEF Val
  <2> QED
    BY <2>1
<1>8. \A t \in 1 .. n : R[t] =
             IF t = 1 THEN 2 * (bars[1].open + bars[1].close)
             ELSE R[t - 1] + HaCloseOf(bars[t - 1]) * 2 ^ (t - 2)
  BY <1>7
<1> QED
  BY <1>6, <1>7, <1>8, Zenon

\* The Heikin-Ashi candles of a row are those of the rows up to it.
LEMMA HaShared ==
    ASSUME NEW a, NEW b, NEW n \in Nat, DOMAIN a = 1 .. n, NEW m \in Nat, DOMAIN b = 1 .. m,
           NEW t \in Nat \ {0}, SameUpTo(a, b, t)
    PROVE  HaOpen(a)[t] = HaOpen(b)[t] /\ (HaStrong(a, t) <=> HaStrong(b, t))
<1>1. \A u \in 1 .. t : u \in 1 .. n /\ u \in 1 .. m /\ a[u] = b[u]
  BY DEF SameUpTo
<1> DEFINE T == {u \in 1 .. t : HaOpen(a)[u] # HaOpen(b)[u]}
<1>2. ASSUME NEW u \in T, \A v \in T : u <= v PROVE FALSE
  <2>1. u \in 1 .. t /\ HaOpen(a)[u] # HaOpen(b)[u] /\ u \in 1 .. n /\ u \in 1 .. m
    BY <1>1
  <2>2. HaOpen(a)[u] = IF u = 1 THEN 2 * (a[1].open + a[1].close)
                       ELSE HaOpen(a)[u - 1] + HaCloseOf(a[u - 1]) * 2 ^ (u - 2)
    BY <2>1, HaOpenIs
  <2>3. HaOpen(b)[u] = IF u = 1 THEN 2 * (b[1].open + b[1].close)
                       ELSE HaOpen(b)[u - 1] + HaCloseOf(b[u - 1]) * 2 ^ (u - 2)
    BY <2>1, HaOpenIs
  <2>4. CASE u = 1
    <3>1. a[1] = b[1]
      BY <1>1, <2>1, <2>4
    <3> QED
      BY <2>1, <2>2, <2>3, <2>4, <3>1, Zenon
  <2>5. CASE u # 1
    <3>1. u - 1 \in 1 .. t /\ ~ (u <= u - 1)
      BY <2>1, <2>5
    <3>2. HaOpen(a)[u - 1] = HaOpen(b)[u - 1] /\ a[u - 1] = b[u - 1]
      BY <1>1, <1>2, <3>1
    <3> QED
      BY <2>1, <2>2, <2>3, <2>5, <3>2, Zenon
  <2> QED
    BY <2>4, <2>5
<1>3. T = {}
  <2>1. T \in SUBSET Nat
    OBVIOUS
  <2> HIDE DEF T
  <2> QED
    BY <1>2, <2>1, LeastNumber
<1>4. HaOpen(a)[t] = HaOpen(b)[t] /\ a[t] = b[t]
  BY <1>1, <1>3
<1>5. HaStrong(a, t) <=> HaStrong(b, t)
  BY <1>4, Zenon DEF HaStrong
<1> QED
  BY <1>4, <1>5

\* From its seed on, an ATR follows from the one before.
LEMMA WilderIs ==
    ASSUME NEW bars, NEW n \in Nat, DOMAIN bars = 1 .. n
    PROVE  /\ DOMAIN Wilder(bars) = 1 .. n
           /\ \A t \in 1 .. n : Wilder(bars)[t] =
             IF t <= AtrPeriod THEN NaN
             ELSE IF t = AtrPeriod + 1
                  THEN [num |-> SumOver([u \in DOMAIN bars |-> TrueRange(bars, u)],
                                        2 .. AtrPeriod + 1),
                        den |-> AtrPeriod]
             ELSE NextAtr(Wilder(bars)[t - 1], TrueRange(bars, t))
<1>0. AtrPeriod \in Nat \ {0}
  BY IndicatorAssumption
<1> DEFINE range == [u \in DOMAIN bars |-> TrueRange(bars, u)]
           Val(f, t) == IF t <= AtrPeriod THEN NaN
                        ELSE IF t = AtrPeriod + 1
                             THEN [num |-> SumOver(range, 2 .. AtrPeriod + 1), den |-> AtrPeriod]
                        ELSE NextAtr(f[t - 1], range[t])
           Upto(f, k) == DOMAIN f = 1 .. k /\ \A t \in 1 .. k : f[t] = Val(f, t)
           T == {k \in Nat : k <= n /\ ~ \E f : Upto(f, k)}
           H(f) == f = [t \in DOMAIN bars |-> Val(f, t)]
           R == CHOOSE f : H(f)
<1>1. ASSUME NEW k \in T, \A m \in T : k <= m PROVE FALSE
  <2>1. k \in Nat /\ k <= n /\ ~ \E f : Upto(f, k)
    BY Zenon
  <2>2. CASE k = 0
    <3> DEFINE e == [t \in 1 .. 0 |-> 0]
    <3>1. Upto(e, 0)
      <4>1. DOMAIN e = 1 .. 0 /\ \A t \in 1 .. 0 : FALSE
        OBVIOUS
      <4> HIDE DEF e, Val
      <4> QED
        BY <4>1
    <3> QED
      BY <2>1, <2>2, <3>1
  <2>3. CASE k # 0
    <3>1. k - 1 \in Nat /\ k - 1 <= n /\ k - 1 \notin T
      <4> HIDE DEF T
      <4> QED
        BY <1>1, <2>1, <2>3
    <3>2. PICK p : Upto(p, k - 1)
      <4> HIDE DEF Upto
      <4> QED
        BY <3>1
    <3> DEFINE q == [t \in 1 .. k |-> IF t = k THEN Val(p, k) ELSE p[t]]
    <3>3. ASSUME NEW t \in 1 .. k PROVE q[t] = Val(q, t)
      <4>1. t > 1 => q[t - 1] = p[t - 1]
        BY <2>1
      <4>2. Val(q, t) = Val(p, t)
        <5>1. CASE t > 1
          <6>1. q[t - 1] = p[t - 1]
            BY <4>1, <5>1
          <6> HIDE DEF q
          <6> QED
            BY <6>1
        <5>2. CASE ~ (t > 1)
          <6>1. t <= AtrPeriod
            BY <1>0, <5>2
          <6> HIDE DEF q
          <6> QED
            BY <6>1
        <5> QED
          BY <5>1, <5>2
      <4>3. CASE t = k
        <5>1. q[t] = Val(p, t)
          <6> HIDE DEF Val
          <6> QED
            BY <4>3
        <5> QED
          BY <4>2, <5>1, Zenon
      <4>4. CASE t # k
        <5>1. t \in 1 .. k - 1
          BY <2>1, <4>4
        <5>2. q[t] = p[t] /\ p[t] = Val(p, t)
          <6> HIDE DEF Val
          <6> QED
            BY <3>2, <4>4, <5>1
        <5> HIDE DEF q, Val
        <5> QED
          BY <4>2, <5>2
      <4> QED
        BY <4>3, <4>4
    <3>4. Upto(q, k)
      <4>1. DOMAIN q = 1 .. k
        OBVIOUS
      <4> HIDE DEF q, Val
      <4> QED
        BY <3>3, <4>1
    <3> HIDE DEF q, Upto
    <3> QED
      BY <2>1, <3>4
  <2> QED
    BY <2>2, <2>3
<1>2. T = {}
  <2>1. T \in SUBSET Nat
    <3> HIDE DEF Upto
    <3> QED
      OBVIOUS
  <2> HIDE DEF T
  <2> QED
    BY <1>1, <2>1, LeastNumber
<1>3. PICK e : Upto(e, n)
  <2> HIDE DEF Upto
  <2>1. ASSUME ~ \E e : Upto(e, n) PROVE n \in T
    BY <2>1
  <2> QED
    BY <1>2, <2>1
<1>4. \E x : H(x)
  <2> DEFINE E == [t \in 1 .. n |-> e[t]]
  <2>1. ASSUME NEW t \in 1 .. n PROVE E[t] = Val(E, t)
    <3>1. E[t] = e[t] /\ e[t] = Val(e, t)
      <4> HIDE DEF Val
      <4> QED
        BY <1>3
    <3>2. Val(E, t) = Val(e, t)
      <4>1. CASE t > 1
        <5>1. E[t - 1] = e[t - 1]
          BY <4>1
        <5> HIDE DEF E
        <5> QED
          BY <5>1
      <4>2. CASE ~ (t > 1)
        <5>1. t <= AtrPeriod
          BY <1>0, <4>2
        <5> HIDE DEF E
        <5> QED
          BY <5>1
      <4> QED
        BY <4>1, <4>2
    <3> HIDE DEF E, Val
    <3> QED
      BY <3>1, <3>2
  <2>2. E = [t \in 1 .. n |-> E[t]]
    OBVIOUS
  <2>3. E = [t \in 1 .. n |-> Val(E, t)]
    <3> HIDE DEF E, Val
    <3> QED
      BY <2>1, <2>2
  <2>4. H(E)
    <3> HIDE DEF E, Val
    <3> QED
      BY <2>3
  <2> HIDE DEF E, H
  <2> QED
    BY <2>4
<1>5. H(R)
  <2> HIDE DEF H
  <2> QED
    BY <1>4
<1>6. Wilder(bars) = R
  BY Zenon DEF Wilder
<1> HIDE DEF R
<1>7. DOMAIN R = 1 .. n /\ \A t \in 1 .. n : R[t] = Val(R, t)
  <2>1. R = [t \in 1 .. n |-> Val(R, t)]
    BY <1>5
  <2> HIDE DEF Val
  <2> QED
    BY <2>1
<1>8. \A t \in 1 .. n : R[t] =
             IF t <= AtrPeriod THEN NaN
             ELSE IF t = AtrPeriod + 1
                  THEN [num |-> SumOver([u \in DOMAIN bars |-> TrueRange(bars, u)],
                                        2 .. AtrPeriod + 1),
                        den |-> AtrPeriod]
             ELSE NextAtr(R[t - 1], TrueRange(bars, t))
  <2>1. \A t \in 1 .. n : range[t] = TrueRange(bars, t)
    OBVIOUS
  <2> QED
    BY <1>7, <2>1
<1> QED
  BY <1>6, <1>7, <1>8, Zenon

\* A true range is of a row and the one before.
LEMMA TrueRangeShared ==
    ASSUME NEW a, NEW b, NEW t \in Nat, SameUpTo(a, b, t), NEW u \in 1 .. t
    PROVE  TrueRange(a, u) = TrueRange(b, u)
<1>1. a[u] = b[u] /\ (u # 1 => a[u - 1] = b[u - 1])
  BY DEF SameUpTo
<1>2. CASE u = 1
  BY <1>1, <1>2, Zenon DEF TrueRange
<1>3. CASE u # 1
  BY <1>1, <1>3, Zenon DEF TrueRange
<1> QED
  BY <1>2, <1>3

\* The ATR of a row, and a close's distance to its band in them, are those of the
\* rows up to it.
LEMMA AtrShared ==
    ASSUME NEW a, NEW b, NEW n \in Nat, DOMAIN a = 1 .. n, NEW m \in Nat, DOMAIN b = 1 .. m,
           NEW t \in Nat \ {0}, SameUpTo(a, b, t)
    PROVE  /\ Wilder(a)[t] = Wilder(b)[t]
           /\ HasOvershootAtr(a, t) <=> HasOvershootAtr(b, t)
           /\ \A k : OvershootAtrAtMost(a, t, k) <=> OvershootAtrAtMost(b, t, k)
<1>0. AtrPeriod \in Nat \ {0} /\ t \in Nat
  BY IndicatorAssumption
<1>1. \A u \in 1 .. t : u \in 1 .. n /\ u \in 1 .. m /\ a[u] = b[u]
  BY DEF SameUpTo
<1> DEFINE range(x) == [u \in DOMAIN x |-> TrueRange(x, u)]
           T == {u \in 1 .. t : Wilder(a)[u] # Wilder(b)[u]}
<1>2. \A u \in 1 .. t : TrueRange(a, u) = TrueRange(b, u)
  BY <1>0, TrueRangeShared, Zenon
<1>3. \A u \in 1 .. t : range(a)[u] = range(b)[u]
  BY <1>1, <1>2
<1>4. ASSUME NEW u \in T, \A v \in T : u <= v PROVE FALSE
  <2>1. u \in 1 .. t /\ Wilder(a)[u] # Wilder(b)[u] /\ u \in 1 .. n /\ u \in 1 .. m
    BY <1>1
  <2>2. Wilder(a)[u] = IF u <= AtrPeriod THEN NaN
                       ELSE IF u = AtrPeriod + 1
                            THEN [num |-> SumOver(range(a), 2 .. AtrPeriod + 1), den |-> AtrPeriod]
                       ELSE NextAtr(Wilder(a)[u - 1], TrueRange(a, u))
    BY <2>1, WilderIs
  <2>3. Wilder(b)[u] = IF u <= AtrPeriod THEN NaN
                       ELSE IF u = AtrPeriod + 1
                            THEN [num |-> SumOver(range(b), 2 .. AtrPeriod + 1), den |-> AtrPeriod]
                       ELSE NextAtr(Wilder(b)[u - 1], TrueRange(b, u))
    BY <2>1, WilderIs
  <2> HIDE DEF range
  <2>4. CASE u <= AtrPeriod
    BY <2>1, <2>2, <2>3, <2>4, Zenon
  <2>5. CASE u = AtrPeriod + 1
    <3> DEFINE S == 2 .. AtrPeriod + 1
    <3>1. S \subseteq 1 .. t
      BY <1>0, <2>1, <2>5
    <3>2. IsFiniteSet(S)
      <4>1. 2 \in Int /\ AtrPeriod + 1 \in Int
        BY <1>0
      <4> QED
        BY <4>1, FS_Interval
    <3>3. SumFunctionOnSet(range(a), S) = SumFunctionOnSet(range(b), S)
      <4>1. \A x \in S : range(a)[x] = range(b)[x]
        BY <1>3, <3>1
      <4> HIDE DEF S
      <4> QED
        BY <3>2, <4>1, SumAgrees
    <3> QED
      BY <2>1, <2>2, <2>3, <2>5, <3>3, Zenon DEF SumOver
  <2>6. CASE u > AtrPeriod + 1
    <3>1. u - 1 \in 1 .. t /\ ~ (u <= u - 1) /\ ~ (u <= AtrPeriod) /\ u # AtrPeriod + 1
      BY <1>0, <2>1, <2>6
    <3>2. Wilder(a)[u - 1] = Wilder(b)[u - 1]
      BY <1>4, <3>1
    <3> QED
      BY <1>2, <2>1, <2>2, <2>3, <3>1, <3>2, Zenon
  <2> QED
    BY <1>0, <2>1, <2>4, <2>5, <2>6
<1>5. T = {}
  <2>1. T \in SUBSET Nat
    OBVIOUS
  <2> HIDE DEF T
  <2> QED
    BY <1>4, <2>1, LeastNumber
<1>6. Wilder(a)[t] = Wilder(b)[t] /\ a[t] = b[t]
  BY <1>1, <1>5
<1>7. HasOvershootAtr(a, t) <=> HasOvershootAtr(b, t)
  BY <1>6, Zenon DEF HasOvershootAtr
<1>8. ASSUME NEW k
      PROVE  OvershootAtrAtMost(a, t, k) <=> OvershootAtrAtMost(b, t, k)
  <2> DEFINE x == 10 * Wilder(a)[t].den * a[t].close - k * Wilder(a)[t].num
             y == 10 * Wilder(a)[t].den
  <2>1. SameUpTo(Closes(a), Closes(b), t)
    BY <1>0, ClosesShared
  <2>2. UpperAtLeast(Closes(a), t, x, y) <=> UpperAtLeast(Closes(b), t, x, y)
    <3> HIDE DEF x, y
    <3> QED
      BY <1>0, <2>1, BandShared, Zenon
  <2> QED
    BY <1>6, <1>7, <2>2, Zenon DEF OvershootAtrAtMost
<1> QED
  BY <1>6, <1>7, <1>8

\* The mandatory condition of a row.
LEMMA PassesShared ==
    ASSUME NEW a, NEW b, NEW n \in Nat, DOMAIN a = 1 .. n, NEW m \in Nat, DOMAIN b = 1 .. m,
           NEW t \in Nat \ {0}, SameUpTo(a, b, t)
    PROVE  Passes(a, t) <=> Passes(b, t)
<1>1. t \in Nat
  OBVIOUS
<1>2. SameUpTo(Closes(a), Closes(b), t)
  BY <1>1, ClosesShared
<1>3. /\ IsAbove(Closes(a), t) <=> IsAbove(Closes(b), t)
      /\ OvershootAtMost(Closes(a), t, MaxOvershoot) <=> OvershootAtMost(Closes(b), t, MaxOvershoot)
  BY <1>1, <1>2, AboveShared, Zenon
<1>4. HaStrong(a, t) <=> HaStrong(b, t)
  BY HaShared
<1> QED
  BY <1>3, <1>4, Zenon DEF Passes

\* What build_feature_frame says of a row, against any index, but for its labels.
LEMMA FeaturesShared ==
    ASSUME NEW a, NEW b, NEW n \in Nat, DOMAIN a = 1 .. n, NEW m \in Nat, DOMAIN b = 1 .. m,
           NEW t \in Nat \ {0}, SameUpTo(a, b, t), NEW rows
    PROVE  /\ Columns(a, t) = Columns(b, t)
           /\ AgainstIndex(a, rows, t) = AgainstIndex(b, rows, t)
           /\ Checks(a, rows, t) = Checks(b, rows, t)
           /\ ExtensionClass(Closes(a), t) = ExtensionClass(Closes(b), t)
<1>1. t \in Nat /\ a[t] = b[t]
  BY DEF SameUpTo
<1>2. SameUpTo(Closes(a), Closes(b), t)
  BY <1>1, ClosesShared
<1>3. Closes(a)[t] = Closes(b)[t]
  BY <1>1, <1>2 DEF SameUpTo
<1>4. /\ Spread(Closes(a), t) = Spread(Closes(b), t)
      /\ SumOver(Closes(a), RollingRows(t, BbPeriod)) = SumOver(Closes(b), RollingRows(t, BbPeriod))
  BY <1>1, <1>2, SpreadShared
<1>5. HaOpen(a)[t] = HaOpen(b)[t]
  BY HaShared
<1>6. /\ Wilder(a)[t] = Wilder(b)[t]
      /\ OvershootAtrAtMost(a, t, MaxAtr) <=> OvershootAtrAtMost(b, t, MaxAtr)
  BY AtrShared
<1>7. /\ HasVolumeRatio(a, t) <=> HasVolumeRatio(b, t)
      /\ VolumeConfirms(a, t) <=> VolumeConfirms(b, t)
  BY VolumeShared
<1>8. /\ AboveTrend(Closes(a), t) <=> AboveTrend(Closes(b), t)
      /\ SumOver(Closes(a), RollingRows(t, TrendPeriod))
           = SumOver(Closes(b), RollingRows(t, TrendPeriod))
  BY <1>1, <1>2, TrendShared
<1>9. /\ HasRs(a, rows, t) <=> HasRs(b, rows, t)
      /\ Outperforms(a, rows, t) <=> Outperforms(b, rows, t)
      /\ Bullish(a, rows, t) <=> Bullish(b, rows, t)
  BY IndexShared
<1>10. /\ BreakoutType(Closes(a), t) = BreakoutType(Closes(b), t)
       /\ DaysAbove(Closes(a), t) = DaysAbove(Closes(b), t)
       /\ ExtensionClass(Closes(a), t) = ExtensionClass(Closes(b), t)
  BY <1>1, <1>2, BreakoutShared
<1>11. WidthExpands(Closes(a), t) <=> WidthExpands(Closes(b), t)
  BY <1>1, <1>2, WidthShared
<1>12. /\ HasVolumeRatio(a, t) = HasVolumeRatio(b, t)
       /\ VolumeConfirms(a, t) = VolumeConfirms(b, t)
  BY <1>7 DEF HasVolumeRatio, VolumeConfirms
<1>13. /\ HasRs(a, rows, t) = HasRs(b, rows, t)
       /\ Outperforms(a, rows, t) = Outperforms(b, rows, t)
       /\ Bullish(a, rows, t) = Bullish(b, rows, t)
  BY <1>9 DEF HasRs, Outperforms, Bullish
<1>14. /\ AboveTrend(Closes(a), t) = AboveTrend(Closes(b), t)
       /\ WidthExpands(Closes(a), t) = WidthExpands(Closes(b), t)
       /\ OvershootAtrAtMost(a, t, MaxAtr) = OvershootAtrAtMost(b, t, MaxAtr)
  BY <1>6, <1>8, <1>11 DEF AboveTrend, WidthExpands, OvershootAtrAtMost
<1>15. /\ Columns(a, t) = Columns(b, t)
       /\ AgainstIndex(a, rows, t) = AgainstIndex(b, rows, t)
  <2>1. Columns(a, t) = Columns(b, t)
    BY <1>1, <1>3, <1>4, <1>5, <1>6, <1>8, <1>10, <1>12, Zenon DEF Columns
  <2>2. AgainstIndex(a, rows, t) = AgainstIndex(b, rows, t)
    BY <1>1, <1>13, Zenon DEF AgainstIndex
  <2> QED
    BY <2>1, <2>2
<1>16. Checks(a, rows, t) = Checks(b, rows, t)
  BY <1>1, <1>10, <1>12, <1>13, <1>14, Zenon DEF Checks
<1> QED
  BY <1>10, <1>15, <1>16

\* The labels of a longer history say no less.
LEMMA LabelsNoWorse ==
    ASSUME NEW a, NEW b, Len(a) \in Nat, Len(b) \in Nat, Len(a) <= Len(b)
    PROVE  NoWorse(Labels(b), Labels(a))
<1>1. MinRowsSma20 \in Nat /\ MinRowsSma50 \in Nat /\ MinRowsSma200 \in Nat
  BY IndicatorAssumption
<1>2. ASSUME NEW least \in Nat, SmaStatus(a, least) = "OK" PROVE SmaStatus(b, least) = "OK"
  BY <1>2 DEF SmaStatus
<1>3. \A f \in {"sma20", "sma50", "sma200"} : Labels(a)[f] = "OK" => Labels(b)[f] = "OK"
  BY <1>1, <1>2 DEF Labels
<1>4. /\ HistoryQuality(b) = "VERY_LIMITED" => HistoryQuality(a) = "VERY_LIMITED"
      /\ HistoryQuality(a) = "FULL" => HistoryQuality(b) = "FULL"
  BY <1>1 DEF HistoryQuality
<1>5. Labels(a).quality = HistoryQuality(a) /\ Labels(b).quality = HistoryQuality(b)
  BY DEF Labels
<1> QED
  BY <1>3, <1>4, <1>5 DEF NoWorse

\* A bar of the store.
DatedBar ==
    [open : Int, high : Int, low : Int, close : Int, volume : Int, day : Nat]

\* The days of a week, when the bar that comes is of a later one.
LEMMA WeekShared ==
    ASSUME NEW a \in Seq(DatedBar), NEW bar \in DatedBar,
           NEW w, DaysOfWeek(a, w) # {}, Week(bar.day) # w
    PROVE  WeeklyBar(Append(a, bar), w) = WeeklyBar(a, w)
<1> DEFINE b == Append(a, bar)
           n == Len(a)
           S == DaysOfWeek(a, w)
<1>1. n \in Nat /\ DOMAIN a = 1 .. n
  OBVIOUS
<1>2. /\ DOMAIN b = 1 .. n + 1
      /\ b[n + 1] = bar
      /\ \A t \in 1 .. n : b[t] = a[t]
  BY <1>1
<1> HIDE DEF n, b
<1>3. DaysOfWeek(b, w) = S
  <2>1. \A t \in 1 .. n + 1 : t = n + 1 \/ t \in 1 .. n
    BY <1>1
  <2>2. \A t \in 1 .. n : t \in 1 .. n + 1
    BY <1>1
  <2> QED
    BY <1>1, <1>2, <2>1, <2>2, Zenon DEF DaysOfWeek
<1>4. /\ S \in SUBSET Nat /\ S # {} /\ IsFiniteSet(S)
      /\ \A t \in S : t \in 1 .. n /\ t \in Int /\ b[t] = a[t]
  <2>1. S \subseteq 1 .. n
    BY <1>1 DEF DaysOfWeek
  <2>2. IsFiniteSet(1 .. n)
    <3>1. 1 \in Int /\ n \in Int
      BY <1>1
    <3> QED
      BY <3>1, FS_Interval
  <2>3. IsFiniteSet(S)
    <3> HIDE DEF S
    <3> QED
      BY <2>1, <2>2, FS_Subset
  <2> QED
    BY <1>1, <1>2, <2>1, <2>3
<1>5. Min(S) \in S /\ Max(S) \in S
  <2> HIDE DEF S
  <2>1. Min(S) \in S
    BY <1>4, MinIs
  <2>2. Max(S) \in S
    BY <1>4, MaxIs
  <2> QED
    BY <2>1, <2>2
<1>6. b[Min(S)] = a[Min(S)] /\ b[Max(S)] = a[Max(S)]
  BY <1>4, <1>5
<1>7. /\ {b[t].high : t \in S} = {a[t].high : t \in S}
      /\ {b[t].low : t \in S} = {a[t].low : t \in S}
  <2> HIDE DEF S
  <2> QED
    BY <1>4
<1> DEFINE vol(x) == [t \in DOMAIN x |-> x[t].volume]
<1>8. SumOver(vol(b), S) = SumOver(vol(a), S)
  <2>1. \A t \in S : vol(b)[t] = vol(a)[t]
    <3>1. \A t \in 1 .. n : t \in DOMAIN a /\ t \in DOMAIN b /\ a[t] = b[t]
      BY <1>1, <1>2
    <3> HIDE DEF S
    <3> QED
      BY <1>4, <3>1
  <2>2. SumFunctionOnSet(vol(b), S) = SumFunctionOnSet(vol(a), S)
    <3> HIDE DEF S, vol
    <3> QED
      BY <1>4, <2>1, SumAgrees
  <2> QED
    BY <2>2, Zenon DEF SumOver
<1>9. WeeklyBar(b, w) = WeeklyBar(a, w)
  BY <1>3, <1>6, <1>7, <1>8, Zenon DEF WeeklyBar
<1> QED
  BY <1>9 DEF b

\* The day of the last bar.
LEMMA LastDayIsDay == ASSUME history \in Seq(DatedBar) PROVE LastDay \in Nat
<1>1. CASE history = << >>
  BY <1>1 DEF LastDay
<1>2. CASE history # << >>
  <2>1. Len(history) \in 1 .. Len(history) /\ LastDay = history[Len(history)].day
    BY <1>2 DEF LastDay
  <2>2. history[Len(history)] \in DatedBar
    BY <2>1, ElementOfSeq
  <2> QED
    BY <2>1, <2>2 DEF DatedBar
<1> QED
  BY <1>1, <1>2

\* What a session adds to a history.
LEMMA SessionAppends ==
    ASSUME history \in Seq(DatedBar), Session
    PROVE  \E bar \in DatedBar :
               /\ bar.day > LastDay
               /\ history' = Append(history, bar)
               /\ verdicts' = Append(verdicts, Judge(Append(history, bar)))
<1>1. LastDay \in Nat
  BY LastDayIsDay
<1> DEFINE Dated(candle, gap) ==
               [open |-> candle.open, high |-> candle.high, low |-> candle.low,
                close |-> candle.close, volume |-> candle.volume, day |-> LastDay + gap]
<1>2. PICK candle \in Candles, gap \in Gaps :
          /\ history' = Append(history, Dated(candle, gap))
          /\ verdicts' = Append(verdicts, Judge(Append(history, Dated(candle, gap))))
  BY Zenon DEF Session
<1>3. Dated(candle, gap) \in DatedBar /\ Dated(candle, gap).day > LastDay
  <2>1. gap \in Nat \ {0}
    BY ScanAssumption
  <2>2. candle \in [open : Int, high : Int, low : Int, close : Int, volume : Int]
    BY ScanAssumption
  <2> QED
    BY <1>1, <2>1, <2>2 DEF DatedBar
<1> HIDE DEF Dated
<1> QED
  BY <1>2, <1>3

\* A later bar changes no column of an earlier row that is computed row by row, with
\* the scan's index or with none, nor a weekly bar that was complete, and the labels
\* it does change it changes only to those of more history: for every history, where
\* tests/unit/test_lookahead.py tries a few.
THEOREM NeverLooksAhead == SymbolSpec => NoLookAhead
<1> DEFINE HistoryOK == history \in Seq(DatedBar)
           Later == /\ \A bench \in {NoBenchmark, index} : \A t \in DOMAIN history :
                          FrameRow(bench, t)' = FrameRow(bench, t)
                    /\ \A w \in DOMAIN WeeklyBars :
                          LastDay' <= Friday(w) \/ Week(LastDay') > w
                             => WeeklyBars'[w] = WeeklyBars[w]
                    /\ NoWorse(Labels(history'), Labels(history))
<1>1. SymbolInit => HistoryOK
  BY EmptySeq DEF SymbolInit
<1>2. HistoryOK /\ [Session]_symbolVars => HistoryOK'
  <2> SUFFICES ASSUME HistoryOK, [Session]_symbolVars PROVE HistoryOK'
    OBVIOUS
  <2>1. CASE Session
    BY <2>1, SessionAppends
  <2>2. CASE UNCHANGED symbolVars
    BY <2>2 DEF symbolVars
  <2> QED
    BY <2>1, <2>2
<1>3. HistoryOK /\ Session => Later
  <2> SUFFICES ASSUME HistoryOK, Session PROVE Later
    OBVIOUS
  <2>1. PICK bar \in DatedBar : bar.day > LastDay /\ history' = Append(history, bar)
    BY SessionAppends, Zenon
  <2> DEFINE b == Append(history, bar)
             n == Len(history)
  <2>2. /\ n \in Nat /\ DOMAIN history = 1 .. n /\ DOMAIN b = 1 .. n + 1
        /\ b[n + 1] = bar /\ Len(b) = n + 1 /\ b # << >>
        /\ \A t \in 1 .. n : b[t] = history[t] /\ history[t] \in DatedBar
    <3>1. history \in Seq(DatedBar) /\ bar \in DatedBar
      OBVIOUS
    <3>2. n \in Nat /\ DOMAIN history = 1 .. n
      BY <3>1
    <3>3. \A t \in 1 .. n : history[t] \in DatedBar
      BY <3>1, ElementOfSeq
    <3>4. /\ Len(b) = n + 1 /\ DOMAIN b = 1 .. n + 1
          /\ b[n + 1] = bar
          /\ \A t \in 1 .. n : b[t] = history[t]
      BY <3>1
    <3>5. b # << >>
      BY <3>2, <3>4, EmptySeq
    <3> QED
      BY <3>2, <3>3, <3>4, <3>5
  <2>3. history' = b /\ index' = index /\ enabled' = enabled
    BY <2>1 DEF Session
  <2> HIDE DEF b, n
  <2>4. ASSUME NEW bench, NEW t \in DOMAIN history
        PROVE  FrameRow(bench, t)' = FrameRow(bench, t)
    <3>1. t \in 1 .. n /\ t \in Nat \ {0} /\ n + 1 \in Nat
      BY <2>2
    <3>2. SameUpTo(b, history, t)
      BY <2>2, <3>1 DEF SameUpTo
    <3>3. /\ Columns(b, t) = Columns(history, t)
          /\ AgainstIndex(b, bench, t) = AgainstIndex(history, bench, t)
          /\ Checks(b, bench, t) = Checks(history, bench, t)
          /\ ExtensionClass(Closes(b), t) = ExtensionClass(Closes(history), t)
      BY <2>2, <3>1, <3>2, FeaturesShared
    <3>4. FrameRow(bench, t)' = [columns |-> Columns(b, t),
                                 benchmark |-> AgainstIndex(b, bench, t),
                                 extension |-> ExtensionClass(Closes(b), t),
                                 checks |-> Checks(b, bench, t)]
      BY <2>3, Zenon DEF FrameRow
    <3> QED
      BY <3>3, <3>4, Zenon DEF FrameRow
  <2>5. ASSUME NEW w \in DOMAIN WeeklyBars,
               LastDay' <= Friday(w) \/ Week(LastDay') > w
        PROVE  WeeklyBars'[w] = WeeklyBars[w]
    <3>1. LastDay' = bar.day
      BY <2>2, <2>3 DEF LastDay
    <3>2. w \in CompletedWeeks(history, LastDay) /\ WeeklyBars[w] = WeeklyBar(history, w)
      BY DEF WeeklyBars
    <3>3. PICK t \in DOMAIN history : w = Week(history[t].day)
      BY <3>2 DEF CompletedWeeks
    <3>4. history[t] \in DatedBar /\ history[t].day \in Nat
      BY <2>2, <3>3 DEF DatedBar
    <3>5. w \in Int /\ bar.day \in Nat /\ Friday(w) \in Int
      <4>1. w \in Int
        BY <3>3, <3>4 DEF Week
      <4> QED
        BY <4>1 DEF Friday, DatedBar
    <3>6. LastDay \in Nat
      BY LastDayIsDay
    <3>7. Friday(w) < bar.day /\ Friday(w) <= bar.day
      BY <2>1, <3>2, <3>5, <3>6 DEF CompletedWeeks
    <3>8. Week(bar.day) # w
      BY <2>5, <3>1, <3>5, <3>7 DEF Week
    <3>9. DaysOfWeek(history, w) # {}
      BY <3>3 DEF DaysOfWeek
    <3>10. WeeklyBar(b, w) = WeeklyBar(history, w)
      <4>1. b = Append(history, bar)
        BY DEF b
      <4>2. history \in Seq(DatedBar)
        OBVIOUS
      <4>3. bar \in DatedBar
        OBVIOUS
      <4>4. \A a \in Seq(DatedBar) : DaysOfWeek(a, w) # {} =>
                WeeklyBar(Append(a, bar), w) = WeeklyBar(a, w)
        BY <3>8, <4>3, WeekShared
      <4> QED
        BY <3>9, <4>1, <4>2, <4>4
    <3>11. w \in CompletedWeeks(b, bar.day)
      <4>1. t \in DOMAIN b /\ b[t] = history[t]
        BY <2>2
      <4> QED
        BY <3>3, <3>7, <4>1 DEF CompletedWeeks
    <3>12. WeeklyBars'[w] = WeeklyBar(b, w)
      BY <2>3, <3>1, <3>11 DEF WeeklyBars
    <3> QED
      BY <3>2, <3>10, <3>12
  <2>6. NoWorse(Labels(history'), Labels(history))
    BY <2>2, <2>3, LabelsNoWorse
  <2> QED
    BY <2>4, <2>5, <2>6
<1>4. HistoryOK /\ [Session]_symbolVars => [Later]_symbolVars
  <2> HIDE DEF HistoryOK, Later
  <2> QED
    BY <1>3
<1> QED
  BY <1>1, <1>2, <1>4, PTL DEF SymbolSpec, NoLookAhead

-------------------------------------------------------------------------------
(* What validation keeps. *)

\* Validation goes through the bars in order.
LEMMA CleanIs ==
    ASSUME NEW bars \in Seq(DatedBar)
    PROVE  \E kept \in [0 .. Len(bars) -> Seq(DatedBar)] :
               /\ Clean(bars) = kept[Len(bars)]
               /\ kept[0] = << >>
               /\ \A k \in 1 .. Len(bars) :
                     kept[k] = IF Valid(bars[k]) THEN Append(kept[k - 1], bars[k])
                               ELSE kept[k - 1]
<1> DEFINE N == Len(bars)
           V == Seq(DatedBar)
           g == [x \in (1 .. N) \X V |->
                   IF Valid(bars[x[1]]) THEN Append(x[2], bars[x[1]]) ELSE x[2]]
           Val(f, k) == IF k = 0 THEN << >>
                        ELSE IF Valid(bars[k]) THEN Append(f[k - 1], bars[k]) ELSE f[k - 1]
           H(f) == f = [k \in 0 .. N |-> Val(f, k)]
           R == CHOOSE f : H(f)
<1>0. N \in Nat /\ << >> \in V
  BY EmptySeq
<1>1. g \in [(1 .. N) \X V -> V]
  <2>1. \A k \in 1 .. N : bars[k] \in DatedBar
    BY ElementOfSeq
  <2>2. \A k \in 1 .. N : \A s \in V : Append(s, bars[k]) \in V
    BY <2>1
  <2> HIDE DEF V, N
  <2> QED
    BY <2>2
<1>2. PICK e \in [0 .. N -> V] : Recursion(e, N, << >>, g)
  <2> HIDE DEF g, N, V
  <2> QED
    BY <1>0, <1>1, RecursionExists
<1>3. H(e)
  <2>1. e[0] = Val(e, 0)
    BY <1>2 DEF Recursion
  <2>2. ASSUME NEW k \in 1 .. N PROVE e[k] = Val(e, k)
    <3>1. e[k] = g[<<k, e[k - 1]>>]
      BY <1>2 DEF Recursion
    <3>2. k - 1 \in 0 .. N /\ k # 0
      BY <1>0
    <3>3. e[k - 1] \in V
      <4> HIDE DEF V, N
      <4> QED
        BY <1>2, <3>2
    <3>4. g[<<k, e[k - 1]>>]
            = IF Valid(bars[k]) THEN Append(e[k - 1], bars[k]) ELSE e[k - 1]
      <4> HIDE DEF V, N
      <4> QED
        BY <3>3
    <3> HIDE DEF g, V, N
    <3> QED
      BY <3>1, <3>2, <3>4
  <2>3. \A k \in 0 .. N : e[k] = Val(e, k)
    <3>1. \A k \in 0 .. N : k = 0 \/ k \in 1 .. N
      BY <1>0
    <3> HIDE DEF Val, N
    <3> QED
      BY <2>1, <2>2, <3>1
  <2>4. e = [k \in 0 .. N |-> Val(e, k)]
    <3> HIDE DEF Val, N, V
    <3> QED
      BY <1>2, <2>3
  <2> QED
    BY <2>4
<1>4. H(R)
  <2> HIDE DEF H
  <2> QED
    BY <1>3
<1>5. Clean(bars) = R[N]
  BY Zenon DEF Clean
<1> HIDE DEF R
<1>6. /\ R = [k \in 0 .. N |-> R[k]]
      /\ \A k \in 0 .. N : R[k] = Val(R, k)
  <2>1. R = [k \in 0 .. N |-> Val(R, k)]
    BY <1>4
  <2> HIDE DEF Val, N
  <2> QED
    BY <2>1
<1>7. /\ R[0] = << >>
      /\ \A k \in 1 .. N : R[k] = IF Valid(bars[k]) THEN Append(R[k - 1], bars[k]) ELSE R[k - 1]
  <2>1. 0 \in 0 .. N /\ \A k \in 1 .. N : k \in 0 .. N /\ k # 0
    BY <1>0
  <2> HIDE DEF N
  <2> QED
    BY <1>6, <2>1
<1>8. \A k \in 0 .. N : R[k] \in V
  <2> DEFINE T == {k \in 0 .. N : R[k] \notin V}
  <2>1. ASSUME NEW k \in T, \A m \in T : k <= m PROVE FALSE
    <3>1. k \in 0 .. N /\ R[k] \notin V
      BY <2>1
    <3>2. k # 0
      BY <1>0, <1>7, <3>1
    <3>3. k \in 1 .. N /\ k - 1 \in 0 .. N /\ ~ (k <= k - 1)
      BY <1>0, <3>1, <3>2
    <3>4. R[k - 1] \in V
      BY <2>1, <3>3
    <3>5. bars[k] \in DatedBar
      BY <3>3, ElementOfSeq
    <3>6. Append(R[k - 1], bars[k]) \in V
      BY <3>4, <3>5
    <3> HIDE DEF V, N
    <3> QED
      BY <1>7, <3>1, <3>3, <3>4, <3>6
  <2>2. T \in SUBSET Nat
    BY <1>0
  <2>3. T = {}
    <3> HIDE DEF T
    <3> QED
      BY <2>1, <2>2, LeastNumber
  <2> QED
    BY <2>3
<1>9. R \in [0 .. N -> V]
  <2> HIDE DEF V, N
  <2> QED
    BY <1>6, <1>8
<1> QED
  BY <1>5, <1>7, <1>9

\* It keeps valid bars, and all of them.
LEMMA CleanBars ==
    ASSUME NEW bars \in Seq(DatedBar)
    PROVE  /\ Clean(bars) \in Seq(DatedBar)
           /\ \A u \in 1 .. Len(Clean(bars)) : Valid(Clean(bars)[u])
           /\ (\A u \in 1 .. Len(bars) : Valid(bars[u])) => Clean(bars) = bars
<1> DEFINE N == Len(bars)
<1>0. N \in Nat /\ bars \in Seq(DatedBar)
  OBVIOUS
<1>1. PICK kept \in [0 .. N -> Seq(DatedBar)] :
          /\ Clean(bars) = kept[N]
          /\ kept[0] = << >>
          /\ \A k \in 1 .. N :
                kept[k] = IF Valid(bars[k]) THEN Append(kept[k - 1], bars[k]) ELSE kept[k - 1]
  BY CleanIs, Zenon
<1>2. \A k \in 0 .. N : kept[k] \in Seq(DatedBar) /\ Len(kept[k]) \in Nat
  BY <1>1
<1>4. \A u \in 1 .. Len(kept[N]) : Valid(kept[N][u])
  <2> DEFINE P == {k \in 0 .. N : \A u \in 1 .. Len(kept[k]) : Valid(kept[k][u])}
  <2>1. 0 \in P
    <3>1. Len(kept[0]) = 0
      BY <1>1, EmptySeq
    <3> QED
      BY <1>0, <3>1
  <2>2. ASSUME NEW k \in 1 .. N, k - 1 \in P PROVE k \in P
    <3>1. /\ k - 1 \in 0 .. N /\ k \in 0 .. N
          /\ \A u \in 1 .. Len(kept[k - 1]) : Valid(kept[k - 1][u])
      BY <1>0, <2>2
    <3>2. CASE Valid(bars[k])
      <4>1. kept[k] = Append(kept[k - 1], bars[k])
        BY <1>1, <3>2
      <4>2. kept[k - 1] \in Seq(DatedBar) /\ bars[k] \in DatedBar
        BY <1>2, <3>1, ElementOfSeq
      <4> DEFINE s == kept[k - 1]
                 n == Len(s)
      <4>3. /\ n \in Nat /\ Len(kept[k]) = n + 1
            /\ kept[k][n + 1] = bars[k]
            /\ \A u \in 1 .. n : kept[k][u] = s[u]
        <5> HIDE DEF s
        <5>1. s \in Seq(DatedBar) /\ kept[k] = Append(s, bars[k])
          BY <4>1, <4>2 DEF s
        <5> QED
          BY <5>1, <4>2
      <4> HIDE DEF n
      <4>4. \A u \in 1 .. n + 1 : u = n + 1 \/ u \in 1 .. n
        BY <4>3
      <4>5. \A u \in 1 .. n : Valid(s[u])
        BY <3>1 DEF n
      <4> HIDE DEF s
      <4>6. \A u \in 1 .. Len(kept[k]) : Valid(kept[k][u])
        BY <3>2, <4>3, <4>4, <4>5, Zenon
      <4> QED
        BY <3>1, <4>6
    <3>3. CASE ~ Valid(bars[k])
      <4>1. kept[k] = kept[k - 1]
        BY <1>1, <3>3
      <4> QED
        BY <3>1, <4>1
    <3> QED
      BY <3>2, <3>3
  <2>3. P = 0 .. N /\ N \in 0 .. N
    <3>1. P \in SUBSET (0 .. N)
      BY Zenon
    <3> HIDE DEF P, N
    <3>2. \A k \in 1 .. N : k - 1 \in P => k \in P
      BY <2>2
    <3>3. P = 0 .. N
      BY <1>0, <2>1, <3>1, <3>2, UpToAll, Zenon
    <3> QED
      BY <1>0, <3>3
  <2> QED
    BY <2>3
<1>5. ASSUME \A u \in 1 .. N : Valid(bars[u]) PROVE kept[N] = bars
  <2> DEFINE P == {k \in 0 .. N : Len(kept[k]) = k /\ \A u \in 1 .. k : kept[k][u] = bars[u]}
  <2>1. 0 \in P
    <3>1. Len(kept[0]) = 0
      BY <1>1, EmptySeq
    <3> QED
      BY <1>0, <3>1
  <2>2. ASSUME NEW k \in 1 .. N, k - 1 \in P PROVE k \in P
    <3> DEFINE s == kept[k - 1]
    <3>1. /\ k - 1 \in 0 .. N /\ k \in 0 .. N
          /\ Len(s) = k - 1 /\ \A u \in 1 .. k - 1 : s[u] = bars[u]
      <4>1. k - 1 \in 0 .. N /\ k \in 0 .. N
        BY <1>0
      <4>2. Len(s) = k - 1 /\ \A u \in 1 .. k - 1 : s[u] = bars[u]
        BY <2>2, Zenon
      <4> QED
        BY <4>1, <4>2
    <3>2. kept[k] = Append(s, bars[k]) /\ s \in Seq(DatedBar) /\ bars[k] \in DatedBar
      BY <1>1, <1>2, <1>5, <3>1, ElementOfSeq
    <3> HIDE DEF s
    <3>3. /\ Len(kept[k]) = k /\ kept[k][k] = bars[k]
          /\ \A u \in 1 .. k - 1 : kept[k][u] = bars[u]
      BY <3>1, <3>2
    <3>4. \A u \in 1 .. k : u = k \/ u \in 1 .. k - 1
      OBVIOUS
    <3>5. \A u \in 1 .. k : kept[k][u] = bars[u]
      BY <3>3, <3>4, Zenon
    <3> QED
      BY <3>1, <3>3, <3>5
  <2>3. P = 0 .. N /\ N \in 0 .. N
    <3>1. P \in SUBSET (0 .. N)
      BY Zenon
    <3> HIDE DEF P, N
    <3>2. \A k \in 1 .. N : k - 1 \in P => k \in P
      BY <2>2
    <3>3. P = 0 .. N
      BY <1>0, <2>1, <3>1, <3>2, UpToAll, Zenon
    <3> QED
      BY <1>0, <3>3
  <2>4. Len(kept[N]) = N /\ \A u \in 1 .. N : kept[N][u] = bars[u]
    BY <2>3
  <2>5. kept[N] \in Seq(DatedBar)
    BY <1>2, <2>3
  <2> QED
    BY <1>0, <2>4, <2>5, SeqEqual
<1> QED
  BY <1>0, <1>1, <1>2, <1>4, <1>5

-------------------------------------------------------------------------------
(* When a close above its band has no ATR. *)

\* Where closes are equal over the window, none is above the band.
LEMMA FlatNotAbove ==
    ASSUME NEW c, NEW t \in Nat, NEW v \in Int, \A u \in 1 .. t : c[u] = v
    PROVE  ~ IsAbove(c, t)
<1>0. BbPeriod \in Nat \ {0}
  BY IndicatorAssumption
<1>1. CASE t >= BbPeriod
  <2> DEFINE S == RollingRows(t, BbPeriod)
  <2>1. S = t - BbPeriod + 1 .. t /\ t - BbPeriod + 1 \in Int /\ t \in Int
    BY <1>0, <1>1 DEF RollingRows
  <2>2. IsFiniteSet(S) /\ S \subseteq 1 .. t
    BY <1>0, RollingRowsUpTo
  <2>3. Cardinality(S) = BbPeriod
    <3>1. Cardinality(t - BbPeriod + 1 .. t) = t - (t - BbPeriod + 1) + 1
      BY <1>0, <1>1, <2>1, FS_Interval
    <3> QED
      BY <1>0, <2>1, <3>1
  <2>4. SumOver(c, S) = BbPeriod * v
    <3>1. \A x \in S : c[x] = v
      BY <2>2
    <3> HIDE DEF S
    <3> QED
      BY <2>2, <2>3, <3>1, SumOfEqual DEF SumOver
  <2>5. c[t] = v
    BY <1>0, <1>1
  <2>6. BbPeriod * c[t] - 1 * SumOver(c, S) <= 0
    BY <1>0, <2>4, <2>5
  <2>7. UpperAtLeast(c, t, c[t], 1)
    BY <1>1, <2>6, Zenon DEF UpperAtLeast
  <2> QED
    BY <2>7 DEF IsAbove
<1>2. CASE ~ (t >= BbPeriod)
  BY <1>2 DEF IsAbove
<1> QED
  BY <1>1, <1>2

\* A valid bar's close is between its low and its high.
LEMMA ValidBar ==
    ASSUME NEW bar \in DatedBar, Valid(bar)
    PROVE  bar.low <= bar.close /\ bar.close <= bar.high
<1>1. /\ {bar.low, bar.open, bar.close} \in SUBSET Nat
      /\ {bar.open, bar.close} \in SUBSET Nat
      /\ bar.high \in Int /\ bar.low \in Nat /\ bar.close \in Nat
  BY DEF DatedBar, Valid
<1>2. bar.close <= Max({bar.low, bar.open, bar.close})
      /\ Max({bar.low, bar.open, bar.close}) \in Nat
  <2> DEFINE S == {bar.low, bar.open, bar.close}
  <2>1. IsFiniteSet(S)
    BY ThreeAreFinite, Zenon
  <2>2. S # {} /\ bar.close \in S /\ S \in SUBSET Nat /\ \A x \in S : x \in Int
    BY <1>1
  <2> HIDE DEF S
  <2>3. Max(S) \in S /\ \A m \in S : m <= Max(S)
    BY <2>1, <2>2, MaxIs
  <2>4. bar.close <= Max(S) /\ Max(S) \in Nat
    BY <2>2, <2>3
  <2> QED
    BY <2>4 DEF S
<1>3. Min({bar.open, bar.close}) <= bar.close /\ Min({bar.open, bar.close}) \in Nat
  <2> DEFINE S == {bar.open, bar.close}
  <2>1. S # {} /\ bar.close \in S /\ S \in SUBSET Nat
    BY <1>1
  <2> HIDE DEF S
  <2>2. Min(S) <= bar.close /\ Min(S) \in Nat
    BY <2>1, MinIs
  <2> QED
    BY <2>2 DEF S
<1>4. bar.high >= Max({bar.low, bar.open, bar.close}) /\ bar.low <= Min({bar.open, bar.close})
  BY DEF Valid
<1> DEFINE p == Max({bar.low, bar.open, bar.close})
           q == Min({bar.open, bar.close})
<1> HIDE DEF p, q
<1>5. /\ bar.close <= p /\ p \in Nat /\ q <= bar.close /\ q \in Nat
      /\ bar.high >= p /\ bar.low <= q
  BY <1>2, <1>3, <1>4, Zenon DEF p, q
<1> QED
  BY <1>1, <1>5

\* The true range of a valid bar is zero only if its close is that of the row before.
LEMMA RangeOfValid ==
    ASSUME NEW bars \in Seq(DatedBar), \A u \in 1 .. Len(bars) : Valid(bars[u]),
           NEW t \in 1 .. Len(bars)
    PROVE  /\ TrueRange(bars, t) \in Nat
           /\ t > 1 /\ TrueRange(bars, t) = 0 => bars[t].close = bars[t - 1].close
<1>1. bars[t] \in DatedBar /\ Valid(bars[t])
  BY ElementOfSeq
<1>2. bars[t].low <= bars[t].close /\ bars[t].close <= bars[t].high
  BY <1>1, ValidBar
<1>3. bars[t].low \in Int /\ bars[t].close \in Int /\ bars[t].high \in Int
  BY <1>1 DEF DatedBar
<1> DEFINE h == bars[t].high
           l == bars[t].low
           c == bars[t].close
<1>4. CASE t = 1
  <2> DEFINE S == {h - l}
  <2>1. IsFiniteSet(S)
    BY FS_Singleton, Zenon
  <2>2. S # {} /\ \A x \in S : x \in Nat /\ x \in Int
    BY <1>2, <1>3
  <2>3. TrueRange(bars, t) = Max(S)
    BY <1>4 DEF TrueRange
  <2>4. Max(S) \in S
    <3> HIDE DEF S
    <3> QED
      BY <2>1, <2>2, MaxIs
  <2> QED
    BY <1>4, <2>2, <2>3, <2>4
<1>5. CASE t # 1
  <2> DEFINE p == bars[t - 1].close
             S == {h - l} \cup {Abs(h - p), Abs(l - p)}
  <2>1. p \in Int
    <3>1. t - 1 \in 1 .. Len(bars)
      BY <1>5
    <3>2. bars[t - 1] \in DatedBar
      BY <3>1, ElementOfSeq
    <3> QED
      BY <3>2 DEF DatedBar
  <2>2. IsFiniteSet(S)
    <3>1. S = {h - l, Abs(h - p), Abs(l - p)}
      OBVIOUS
    <3>2. IsFiniteSet({h - l, Abs(h - p), Abs(l - p)})
      BY ThreeAreFinite, Zenon
    <3> QED
      BY <3>1, <3>2
  <2>3. S # {} /\ \A x \in S : x \in Nat /\ x \in Int
    <3>1. \A x \in Int : Abs(x) \in Nat
      BY DEF Abs
    <3>2. h \in Int /\ l \in Int /\ p \in Int /\ l <= h
      BY <1>2, <1>3, <2>1
    <3> HIDE DEF h, l, p
    <3>3. h - l \in Nat /\ Abs(h - p) \in Nat /\ Abs(l - p) \in Nat
      BY <3>1, <3>2
    <3> QED
      BY <3>3
  <2>4. TrueRange(bars, t) = Max(S)
    BY <1>5, Zenon DEF TrueRange
  <2>5. Max(S) \in S /\ \A m \in S : m <= Max(S)
    <3> HIDE DEF S
    <3> QED
      BY <2>2, <2>3, MaxIs
  <2>6. Abs(h - p) <= Max(S) /\ Abs(l - p) <= Max(S) /\ Max(S) \in Nat
    BY <2>3, <2>5
  <2>7. Max(S) = 0 => c = p
    <3> SUFFICES ASSUME Max(S) = 0 PROVE c = p
      OBVIOUS
    <3>1. Abs(h - p) <= 0 /\ Abs(l - p) <= 0
      BY <2>6
    <3>2. h = p /\ l = p
      BY <1>3, <2>1, <3>1 DEF Abs
    <3> QED
      BY <1>2, <1>3, <2>1, <3>2
  <2> QED
    BY <2>4, <2>6, <2>7
<1> QED
  BY <1>4, <1>5

\* The ATR of valid bars is a fraction that is zero only if their ranges are, when
\* its period is more than one row.
LEMMA AtrOfValid ==
    ASSUME NEW bars \in Seq(DatedBar), \A u \in 1 .. Len(bars) : Valid(bars[u]),
           1 < AtrPeriod, NEW t \in 1 .. Len(bars), t > AtrPeriod
    PROVE  /\ Wilder(bars)[t].num \in Nat
           /\ Wilder(bars)[t].num = 0 => \A u \in 2 .. t : TrueRange(bars, u) = 0
<1> DEFINE N == Len(bars)
           W == Wilder(bars)
           range == [u \in DOMAIN bars |-> TrueRange(bars, u)]
           P(k) == /\ W[k].num \in Nat
                   /\ W[k].den \in Nat \ {0}
                   /\ W[k].num = 0 => \A u \in 2 .. k : TrueRange(bars, u) = 0
           T == {k \in AtrPeriod + 1 .. N : ~ P(k)}
<1>0. N \in Nat /\ DOMAIN bars = 1 .. N /\ AtrPeriod \in Nat \ {0} /\ t \in 1 .. N
  BY IndicatorAssumption
<1>1. \A u \in 1 .. N : TrueRange(bars, u) \in Nat
  BY RangeOfValid
<1>2. \A k \in 1 .. N :
         W[k] = IF k <= AtrPeriod THEN NaN
                ELSE IF k = AtrPeriod + 1
                     THEN [num |-> SumOver(range, 2 .. AtrPeriod + 1), den |-> AtrPeriod]
                ELSE NextAtr(W[k - 1], TrueRange(bars, k))
  BY <1>0, WilderIs
<1>3. \A u \in 1 .. N : range[u] = TrueRange(bars, u)
  BY <1>0
<1> HIDE DEF range, W, N
<1>4. ASSUME NEW k \in T, \A m \in T : k <= m PROVE FALSE
  <2>1. k \in AtrPeriod + 1 .. N /\ ~ P(k) /\ k \in 1 .. N /\ ~ (k <= AtrPeriod) /\ k > 1
    <3>1. k \in AtrPeriod + 1 .. N /\ ~ P(k)
      BY Zenon
    <3> QED
      BY <1>0, <3>1
  <2>2. CASE k = AtrPeriod + 1
    <3> DEFINE S == 2 .. k
    <3>1. W[k] = [num |-> SumOver(range, S), den |-> AtrPeriod]
      BY <1>2, <2>1, <2>2, Zenon
    <3>2. IsFiniteSet(S) /\ \A x \in S : range[x] \in Nat /\ range[x] = TrueRange(bars, x)
      <4>1. 2 \in Int /\ k \in Int
        BY <2>1
      <4>2. IsFiniteSet(S)
        BY <4>1, FS_Interval
      <4>3. \A x \in S : x \in 1 .. N
        BY <1>0, <2>1
      <4> QED
        BY <1>1, <1>3, <4>2, <4>3
    <3> HIDE DEF S
    <3>3. SumOver(range, S) \in Nat
      BY <3>2, SumIsNat DEF SumOver
    <3>4. SumOver(range, S) = 0 => \A u \in S : TrueRange(bars, u) = 0
      BY <3>2, ZeroSum DEF SumOver
    <3>5. W[k].num = SumOver(range, S) /\ W[k].den = AtrPeriod
      BY <3>1
    <3>6. P(k)
      BY <1>0, <3>3, <3>4, <3>5, Zenon DEF S
    <3> QED
      BY <2>1, <3>6
  <2>3. CASE k # AtrPeriod + 1
    <3>1. k - 1 \in AtrPeriod + 1 .. N /\ ~ (k <= k - 1) /\ k - 1 \in Nat
      BY <1>0, <2>1, <2>3
    <3>2. P(k - 1)
      <4> HIDE DEF P
      <4> QED
        BY <1>4, <3>1
    <3> DEFINE r == TrueRange(bars, k)
               x == W[k - 1].num
               y == W[k - 1].den
    <3>3. r \in Nat /\ x \in Nat /\ y \in Nat \ {0} /\ AtrPeriod - 1 \in Nat \ {0}
      BY <1>0, <1>1, <2>1, <3>2
    <3>4. W[k] = NextAtr(W[k - 1], TrueRange(bars, k))
      BY <1>2, <2>1, <2>3, Zenon
    <3>5. W[k].num = x * (AtrPeriod - 1) + r * y /\ W[k].den = y * AtrPeriod
      BY <3>4 DEF NextAtr
    <3> HIDE DEF r, x, y
    <3>6. \A i, j \in Nat : i * j \in Nat /\ (i * j = 0 => i = 0 \/ j = 0)
      OBVIOUS
    <3>7. /\ x * (AtrPeriod - 1) \in Nat /\ r * y \in Nat
          /\ x * (AtrPeriod - 1) = 0 => x = 0
          /\ r * y = 0 => r = 0
          /\ y * AtrPeriod \in Nat /\ y * AtrPeriod # 0
      BY <1>0, <3>3, <3>6
    <3> DEFINE p == x * (AtrPeriod - 1)
               q == r * y
    <3>8. W[k].num \in Nat /\ W[k].den \in Nat \ {0}
      <4> HIDE DEF p, q
      <4>1. p \in Nat /\ q \in Nat /\ W[k].num = p + q
        BY <3>5, <3>7 DEF p, q
      <4> QED
        BY <3>5, <3>7, <4>1
    <3>9. W[k].num = 0 => x = 0 /\ r = 0
      <4> HIDE DEF p, q
      <4>1. p \in Nat /\ q \in Nat /\ W[k].num = p + q /\ (p = 0 => x = 0) /\ (q = 0 => r = 0)
        BY <3>5, <3>7 DEF p, q
      <4> QED
        BY <4>1
    <3>10. W[k].num = 0 => \A u \in 2 .. k : TrueRange(bars, u) = 0
      <4>1. x = 0 => \A u \in 2 .. k - 1 : TrueRange(bars, u) = 0
        BY <3>2 DEF x
      <4>2. \A u \in 2 .. k : u = k \/ u \in 2 .. k - 1
        BY <3>1
      <4> QED
        BY <3>9, <4>1, <4>2, Zenon DEF r
    <3>11. P(k)
      BY <3>8, <3>10, Zenon
    <3> QED
      BY <2>1, <3>11
  <2> QED
    BY <2>2, <2>3
<1>5. T = {}
  <2>1. T \in SUBSET Nat
    <3> HIDE DEF P
    <3> QED
      BY <1>0
  <2> HIDE DEF T
  <2> QED
    BY <1>4, <2>1, LeastNumber
<1>6. P(t)
  <2>1. t \in AtrPeriod + 1 .. N
    BY <1>0
  <2> HIDE DEF P
  <2> QED
    BY <1>5, <2>1
<1> QED
  BY <1>6 DEF W

\* Without an ATR, the closes of as many rows as it needs have not moved.
LEMMA FlatWithoutAtr ==
    ASSUME NEW bars \in Seq(DatedBar), \A u \in 1 .. Len(bars) : Valid(bars[u]),
           1 < AtrPeriod, NEW t \in 1 .. Len(bars), t > AtrPeriod, ~ (Wilder(bars)[t].num > 0)
    PROVE  \A u \in 1 .. t : bars[u].close = bars[1].close
<1>0. t \in Nat /\ Len(bars) \in Nat
  OBVIOUS
<1>1. \A u \in 2 .. t : TrueRange(bars, u) = 0
  BY AtrOfValid
<1>2. \A u \in 2 .. t : bars[u].close = bars[u - 1].close
  <2> SUFFICES ASSUME NEW u \in 2 .. t PROVE bars[u].close = bars[u - 1].close
    OBVIOUS
  <2>1. u \in 1 .. Len(bars) /\ u > 1 /\ TrueRange(bars, u) = 0
    BY <1>1
  <2> QED
    BY <2>1, RangeOfValid
<1> DEFINE P == {k \in 0 .. t : k = 0 \/ bars[k].close = bars[1].close}
<1>3. 0 \in P /\ P \in SUBSET (0 .. t)
  BY <1>0
<1>4. ASSUME NEW k \in 1 .. t, k - 1 \in P PROVE k \in P
  <2>1. k = 1 \/ k \in 2 .. t
    OBVIOUS
  <2>2. CASE k = 1
    BY <2>2
  <2>3. CASE k \in 2 .. t
    BY <1>2, <1>4, <2>3
  <2> QED
    BY <2>1, <2>2, <2>3
<1>5. P = 0 .. t
  <2> HIDE DEF P
  <2>1. \A k \in 1 .. t : k - 1 \in P => k \in P
    BY <1>4
  <2> QED
    BY <1>0, <1>3, <2>1, UpToAll, Zenon
<1> QED
  BY <1>5

-------------------------------------------------------------------------------
(* Scan and study. *)

\* The rows a scan asks for cover the band's window and the ATR's, as the comment on
\* min_rows_primary in config.py says, and the ATR's is of more than one row.
RowsCover == BbPeriod <= MinRows /\ AtrPeriod < MinRows /\ 1 < AtrPeriod

\* Each verdict is on the bars there were.
VerdictsInv ==
    /\ history \in Seq(DatedBar)
    /\ verdicts = [k \in 1 .. Len(history) |-> verdicts[k]]
    /\ \A k \in 1 .. Len(history), prefix \in Seq(DatedBar) :
          prefix = SubSeq(history, 1, k) => verdicts[k] = Judge(prefix)

\* A prefix of a history.
LEMMA PrefixIs ==
    ASSUME NEW a \in Seq(DatedBar), NEW k \in 0 .. Len(a)
    PROVE  /\ SubSeq(a, 1, k) \in Seq(DatedBar)
           /\ Len(SubSeq(a, 1, k)) = k
           /\ DOMAIN SubSeq(a, 1, k) = 1 .. k
           /\ \A u \in 1 .. k : SubSeq(a, 1, k)[u] = a[u]
<1>1. 1 \in Int /\ k \in Int /\ \A u \in 1 .. k : a[u] \in DatedBar
  BY ElementOfSeq
<1> DEFINE s == SubSeq(a, 1, k)
<1>2. /\ s \in Seq(DatedBar)
      /\ Len(s) = IF 1 <= k THEN k - 1 + 1 ELSE 0
      /\ \A u \in 1 .. k - 1 + 1 : s[u] = a[1 + u - 1]
  BY <1>1, SubSeqProperties
<1> HIDE DEF s
<1>3. Len(s) = k
  BY <1>1, <1>2
<1>4. \A u \in 1 .. k : s[u] = a[u]
  <2> SUFFICES ASSUME NEW u \in 1 .. k PROVE s[u] = a[u]
    OBVIOUS
  <2>1. u \in 1 .. k - 1 + 1 /\ 1 + u - 1 = u
    OBVIOUS
  <2> QED
    BY <1>2, <2>1
<1>5. DOMAIN s = 1 .. k
  BY <1>2, <1>3
<1> QED
  BY <1>2, <1>3, <1>4, <1>5 DEF s

\* What a bar adds is not in the prefixes.
LEMMA PrefixOfAppend ==
    ASSUME NEW a \in Seq(DatedBar), NEW bar \in DatedBar
    PROVE  /\ \A k \in 0 .. Len(a) : SubSeq(Append(a, bar), 1, k) = SubSeq(a, 1, k)
           /\ SubSeq(Append(a, bar), 1, Len(a) + 1) = Append(a, bar)
<1> DEFINE b == Append(a, bar)
           n == Len(a)
<1>1. /\ b \in Seq(DatedBar) /\ n \in Nat /\ Len(b) = n + 1
      /\ \A u \in 1 .. n : b[u] = a[u]
  OBVIOUS
<1>2. ASSUME NEW k \in 0 .. n PROVE SubSeq(b, 1, k) = SubSeq(a, 1, k)
  <2> HIDE DEF b
  <2>1. k \in 0 .. Len(b) /\ k \in 0 .. Len(a)
    BY <1>1
  <2>2. /\ SubSeq(b, 1, k) \in Seq(DatedBar) /\ Len(SubSeq(b, 1, k)) = k
        /\ \A u \in 1 .. k : SubSeq(b, 1, k)[u] = b[u]
    BY <1>1, <2>1, PrefixIs
  <2>3. /\ SubSeq(a, 1, k) \in Seq(DatedBar) /\ Len(SubSeq(a, 1, k)) = k
        /\ \A u \in 1 .. k : SubSeq(a, 1, k)[u] = a[u]
    BY <2>1, PrefixIs
  <2>4. \A u \in 1 .. k : u \in 1 .. n
    BY <1>1
  <2> QED
    BY <1>1, <2>2, <2>3, <2>4, SeqEqual
<1>3. SubSeq(b, 1, n + 1) = b
  <2> HIDE DEF b
  <2> QED
    BY <1>1, SubSeqFull
<1> QED
  BY <1>2, <1>3

\* A verdict depends on the bars and on what a session does not change.
LEMMA JudgeKept ==
    ASSUME NEW bars, index' = index, enabled' = enabled
    PROVE  Judge(bars)' = Judge(bars)
BY Zenon DEF Judge, OptionalPass, Checks, ScoreStatus, FeatureFields,
            AgainstIndex, GateFailure, Row

\* Every session adds its verdict.
LEMMA VerdictsInvHolds == SymbolSpec => []VerdictsInv
<1>1. SymbolInit => VerdictsInv
  <2> SUFFICES ASSUME SymbolInit PROVE VerdictsInv
    OBVIOUS
  <2>1. history = << >> /\ verdicts = << >> /\ Len(history) = 0
    BY EmptySeq DEF SymbolInit
  <2>2. [k \in 1 .. 0 |-> verdicts[k]] = << >> /\ 1 .. 0 = {}
    OBVIOUS
  <2> QED
    BY <2>1, <2>2, EmptySeq DEF VerdictsInv
<1>2. ASSUME VerdictsInv, [Session]_symbolVars PROVE VerdictsInv'
  <2>0. \A bars : index' = index /\ enabled' = enabled => Judge(bars)' = Judge(bars)
    BY JudgeKept
  <2>1. CASE Session
    <3>1. PICK bar \in DatedBar :
              /\ history' = Append(history, bar)
              /\ verdicts' = Append(verdicts, Judge(Append(history, bar)))
      BY <1>2, <2>1, SessionAppends DEF VerdictsInv
    <3> DEFINE b == Append(history, bar)
               n == Len(history)
    <3>2. index' = index /\ enabled' = enabled
      BY <2>1 DEF Session
    <3>3. history \in Seq(DatedBar) /\ n \in Nat /\ bar \in DatedBar
          /\ b \in Seq(DatedBar) /\ Len(b) = n + 1
      BY <1>2, <3>1 DEF VerdictsInv
    <3>4. /\ \A k \in 1 .. n : SubSeq(b, 1, k) = SubSeq(history, 1, k)
          /\ SubSeq(b, 1, n + 1) = b
      BY <3>3, PrefixOfAppend
    <3> DEFINE V == {verdicts[k] : k \in 1 .. n} \cup {Judge(b)}
    <3>5. verdicts = [k \in 1 .. n |-> verdicts[k]]
      BY <1>2, Zenon DEF VerdictsInv
    <3> HIDE DEF b, n
    <3>6. verdicts \in Seq(V) /\ Len(verdicts) = n /\ Judge(b) \in V
      <4>1. verdicts \in [1 .. n -> V]
        BY <3>5
      <4> HIDE DEF V
      <4>2. verdicts \in Seq(V) /\ Len(verdicts) = n
        BY <3>3, <4>1, SeqDef
      <4>3. Judge(b) \in V
        BY DEF V
      <4> QED
        BY <4>2, <4>3
    <3>7. history' = b /\ verdicts' = Append(verdicts, Judge(b))
      BY <3>1 DEF b
    <3> HIDE DEF V
    <3>8. /\ Len(verdicts') = n + 1 /\ verdicts' \in Seq(V)
          /\ \A k \in 1 .. n : verdicts'[k] = verdicts[k]
          /\ verdicts'[n + 1] = Judge(b)
      BY <3>3, <3>6, <3>7
    <3>9. history' \in Seq(DatedBar) /\ Len(history') = n + 1
      BY <3>3, <3>7
    <3>10. verdicts' = [k \in 1 .. Len(history') |-> verdicts'[k]]
      BY <3>8, <3>9
    <3>11. ASSUME NEW k \in 1 .. n + 1, NEW prefix \in Seq(DatedBar), prefix = SubSeq(b, 1, k)
           PROVE  verdicts'[k] = Judge(prefix)
      <4>1. CASE k = n + 1
        BY <3>4, <3>8, <3>11, <4>1, Zenon
      <4>2. CASE k # n + 1
        <5>1. k \in 1 .. n
          BY <3>3, <4>2
        <5>2. prefix = SubSeq(history, 1, k)
          BY <3>4, <3>11, <5>1, Zenon
        <5>3. verdicts[k] = Judge(prefix)
          BY <1>2, <5>1, <5>2, Zenon DEF VerdictsInv, n
        <5> QED
          BY <3>8, <5>1, <5>3, Zenon
      <4> QED
        BY <4>1, <4>2
    <3>12. ASSUME NEW k \in 1 .. Len(history'), NEW prefix \in Seq(DatedBar),
                  prefix = SubSeq(history', 1, k)
           PROVE  verdicts'[k] = Judge(prefix)'
      <4>1. verdicts'[k] = Judge(prefix)
        BY <3>7, <3>9, <3>11, <3>12, Zenon
      <4>2. Judge(prefix)' = Judge(prefix)
        BY <2>0, <3>2, Zenon
      <4> QED
        BY <4>1, <4>2, Zenon
    <3> QED
      BY <3>9, <3>10, <3>12, Zenon DEF VerdictsInv
  <2>2. CASE UNCHANGED symbolVars
    <3>1. /\ history' = history /\ index' = index /\ enabled' = enabled
          /\ verdicts' = verdicts
      BY <2>2 DEF symbolVars
    <3>2. \A prefix : Judge(prefix)' = Judge(prefix)
      BY <2>0, <3>1, Zenon
    <3> QED
      BY <1>2, <3>1, <3>2, Zenon DEF VerdictsInv
  <2> QED
    BY <1>2, <2>1, <2>2
<1> QED
  BY <1>1, <1>2, PTL DEF SymbolSpec

\* Enough valid bars have an ATR, or closes that have not moved.
LEMMA AtrOrFlat ==
    ASSUME RowsCover, NEW bars \in Seq(DatedBar), \A u \in 1 .. Len(bars) : Valid(bars[u]),
           Len(bars) >= MinRows, ~ HasOvershootAtr(bars, Len(bars))
    PROVE  /\ \A u, v \in DOMAIN bars : bars[u].close = bars[v].close
           /\ ~ IsAbove(Closes(bars), Len(bars))
<1> DEFINE t == Len(bars)
<1>1. /\ t \in Nat /\ t \in 1 .. Len(bars) /\ t > AtrPeriod /\ t >= BbPeriod /\ 1 < AtrPeriod
      /\ DOMAIN bars = 1 .. t
  BY IndicatorAssumption, ScanAssumption DEF RowsCover
<1>2. ~ (Wilder(bars)[t].num > 0)
  BY <1>1, Zenon DEF HasOvershootAtr
<1>3. \A u \in 1 .. t : bars[u].close = bars[1].close
  BY <1>1, <1>2, FlatWithoutAtr
<1>4. \A u \in 1 .. t : Closes(bars)[u] = bars[1].close
  BY <1>1, <1>3 DEF Closes
<1>5. bars[1].close \in Int
  <2>1. 1 \in 1 .. Len(bars)
    BY <1>1
  <2>2. bars[1] \in DatedBar
    BY <2>1, ElementOfSeq
  <2> QED
    BY <2>2 DEF DatedBar
<1>6. ~ IsAbove(Closes(bars), t)
  <2> HIDE DEF t
  <2> QED
    BY <1>1, <1>4, <1>5, FlatNotAbove
<1> QED
  BY <1>1, <1>3, <1>6

\* What a scan says of enough bars.
LEMMA JudgeIs ==
    ASSUME RowsCover, NEW bars \in Seq(DatedBar), Len(Clean(bars)) >= MinRows
    PROVE  LET clean == Clean(bars)
               t == Len(clean)
           IN /\ Judge(bars).signal = IF HasOvershootAtr(clean, t) THEN Passes(clean, t) ELSE FALSE
              /\ Judge(bars).why = IF HasOvershootAtr(clean, t) THEN GateFailure(clean, t)
                                   ELSE "SECURITY_SCAN_FAILURE"
              /\ Judge(bars).features = {FeatureFields(clean, t)}
<1> DEFINE clean == Clean(bars)
           t == Len(clean)
           score == ScoreStatus(clean, t)
           judged(signal, why, x) ==
               Row(signal, why, OptionalPass(clean, t), x, {FeatureFields(clean, t)})
<1>1. t \in Nat /\ t >= MinRows /\ ~ (t < MinRows) /\ t # AtrPeriod
  BY CleanBars, IndicatorAssumption, ScanAssumption DEF RowsCover
<1>2. Judge(bars) =
        CASE t < MinRows -> Row(FALSE, "INSUFFICIENT_HISTORY", FALSE, "none", {})
          [] t >= MinRows /\ t = AtrPeriod -> Row(FALSE, "SECURITY_SCAN_FAILURE", FALSE, "none", {})
          [] t >= MinRows /\ t # AtrPeriod /\ ~ HasOvershootAtr(clean, t) ->
                judged(FALSE, "SECURITY_SCAN_FAILURE", "none")
          [] OTHER -> judged(Passes(clean, t), GateFailure(clean, t), score)
  BY Zenon DEF Judge
<1> HIDE DEF clean, t, score, judged
<1>3. CASE HasOvershootAtr(clean, t)
  <2>1. Judge(bars) = judged(Passes(clean, t), GateFailure(clean, t), score)
    BY <1>1, <1>2, <1>3
  <2>2. /\ Judge(bars).signal = Passes(clean, t)
        /\ Judge(bars).why = GateFailure(clean, t)
        /\ Judge(bars).features = {FeatureFields(clean, t)}
    BY <2>1 DEF judged, Row
  <2> QED
    BY <1>3, <2>2, Zenon DEF t, clean
<1>4. CASE ~ HasOvershootAtr(clean, t)
  <2>1. Judge(bars) = judged(FALSE, "SECURITY_SCAN_FAILURE", "none")
    BY <1>1, <1>2, <1>4
  <2>2. /\ Judge(bars).signal = FALSE
        /\ Judge(bars).why = "SECURITY_SCAN_FAILURE"
        /\ Judge(bars).features = {FeatureFields(clean, t)}
    BY <2>1 DEF judged, Row
  <2> QED
    BY <1>4, <2>2, Zenon DEF t, clean
<1> QED
  BY <1>3, <1>4

\* The condition over a whole column finds the rows it holds of.
LEMMA MandatoryRowsAre ==
    ASSUME NEW bars, NEW t \in DOMAIN bars
    PROVE  t \in MandatoryRows(bars) <=> Passes(bars, t)
<1>1. IsAbove(Closes(bars), t) => ~ UpperAtLeast(Closes(bars), t, Closes(bars)[t], 1)
  BY DEF IsAbove
<1> QED
  BY <1>1, Zenon DEF MandatoryRows, Passes

\* Where validation leaves a history alone, the study finds the signals the scans
\* found, if the rows a scan asks for cover the windows; it has the columns the scans
\* reported, the benchmark's left out, with labels of no less history.  With fewer
\* rows, or an ATR of one row, a scan can miss its ATR and end in an exception where
\* the study has a signal.
THEOREM StudyAgreesWithScans == ASSUME RowsCover PROVE SymbolSpec => []StudyFindsScannedSignals
<1>1. VerdictsInv => StudyFindsScannedSignals
  <2> SUFFICES ASSUME VerdictsInv, Clean(history) = history, NEW t \in MinRows .. Len(history)
               PROVE  /\ verdicts[t].signal <=> t \in MandatoryRows(history)
                      /\ \A f \in verdicts[t].features :
                            /\ f.columns = Columns(history, t)
                            /\ NoWorse(Labels(history), f.labels)
    BY DEF StudyFindsScannedSignals
  <2> DEFINE p == SubSeq(history, 1, t)
  <2>1. history \in Seq(DatedBar)
    BY DEF VerdictsInv
  <2>2. /\ t \in Nat \ {0} /\ t \in 1 .. Len(history) /\ t \in 0 .. Len(history)
        /\ Len(history) \in Nat /\ DOMAIN history = 1 .. Len(history) /\ t >= MinRows
    BY <2>1, ScanAssumption
  <2>3. \A u \in 1 .. Len(history) : Valid(history[u])
    <3>1. \A u \in 1 .. Len(Clean(history)) : Valid(Clean(history)[u])
      BY <2>1, CleanBars
    <3> QED
      BY <3>1
  <2>4. /\ p \in Seq(DatedBar) /\ Len(p) = t /\ DOMAIN p = 1 .. t
        /\ \A u \in 1 .. t : p[u] = history[u]
    BY <2>1, <2>2, PrefixIs
  <2>5. verdicts[t] = Judge(p)
    BY <2>2, <2>4, Zenon DEF VerdictsInv
  <2> HIDE DEF p
  <2>6. \A u \in 1 .. Len(p) : Valid(p[u])
    BY <2>2, <2>3, <2>4
  <2>7. Clean(p) = p
    BY <2>4, <2>6, CleanBars
  <2>8. Len(Clean(p)) >= MinRows
    BY <2>2, <2>4, <2>7
  <2>9. /\ Judge(p).signal = IF HasOvershootAtr(p, t) THEN Passes(p, t) ELSE FALSE
        /\ Judge(p).features = {FeatureFields(p, t)}
    <3>1. LET clean == Clean(p)
              n == Len(clean)
          IN /\ Judge(p).signal = IF HasOvershootAtr(clean, n) THEN Passes(clean, n) ELSE FALSE
             /\ Judge(p).features = {FeatureFields(clean, n)}
      BY <2>4, <2>8, JudgeIs, Zenon
    <3> QED
      BY <2>4, <2>7, <3>1, Zenon
  <2>10. SameUpTo(p, history, t)
    BY <2>2, <2>4 DEF SameUpTo
  <2>11. /\ FeatureFields(p, t).columns = Columns(history, t)
         /\ NoWorse(Labels(history), FeatureFields(p, t).labels)
    <3>1. Columns(p, t) = Columns(history, t)
      BY <2>2, <2>4, <2>10, FeaturesShared
    <3>2. NoWorse(Labels(history), Labels(p))
      BY <2>2, <2>4, LabelsNoWorse
    <3> QED
      BY <3>1, <3>2 DEF FeatureFields
  <2>12. Passes(p, t) <=> Passes(history, t)
    BY <2>2, <2>4, <2>10, PassesShared
  <2>13. t \in MandatoryRows(history) <=> Passes(history, t)
    BY <2>2, MandatoryRowsAre
  <2>14. ~ HasOvershootAtr(p, t) => ~ Passes(p, t)
    <3>1. ~ HasOvershootAtr(p, t) => ~ IsAbove(Closes(p), t)
      BY <2>2, <2>4, <2>6, AtrOrFlat
    <3> QED
      BY <3>1, Zenon DEF Passes
  <2> QED
    BY <2>5, <2>9, <2>11, <2>12, <2>13, <2>14
<1> QED
  BY <1>1, VerdictsInvHolds, PTL

\* No signal is lost in scoring: a scan of enough rows ends in an exception only for
\* closes that have not moved.
THEOREM SignalsAreScored == ASSUME RowsCover PROVE SymbolSpec => []SignalsScored
<1>1. VerdictsInv => SignalsScored
  <2> SUFFICES ASSUME VerdictsInv, NEW k \in DOMAIN verdicts,
                      Len(Clean(SubSeq(history, 1, k))) >= MinRows
               PROVE  LET clean == Clean(SubSeq(history, 1, k))
                          t == Len(clean)
                      IN /\ IsAbove(Closes(clean), t) => verdicts[k].why # "SECURITY_SCAN_FAILURE"
                         /\ verdicts[k].why = "SECURITY_SCAN_FAILURE" =>
                               \A u, v \in DOMAIN clean : clean[u].close = clean[v].close
    BY Zenon DEF SignalsScored
  <2> DEFINE p == SubSeq(history, 1, k)
             clean == Clean(p)
             t == Len(clean)
  <2>1. history \in Seq(DatedBar)
    BY DEF VerdictsInv
  <2>2. k \in 1 .. Len(history)
    <3>1. verdicts = [x \in 1 .. Len(history) |-> verdicts[x]]
      BY Zenon DEF VerdictsInv
    <3> QED
      BY <3>1
  <2>3. p \in Seq(DatedBar)
    <3>1. k \in 0 .. Len(history)
      BY <2>2
    <3> QED
      BY <2>1, <3>1, PrefixIs
  <2>4. verdicts[k] = Judge(p)
    BY <2>2, <2>3, Zenon DEF VerdictsInv
  <2> HIDE DEF p
  <2>5. Len(Clean(p)) >= MinRows
    BY DEF p
  <2>6. Judge(p).why = IF HasOvershootAtr(clean, t) THEN GateFailure(clean, t)
                       ELSE "SECURITY_SCAN_FAILURE"
    BY <2>3, <2>5, JudgeIs, Zenon
  <2>7. clean \in Seq(DatedBar) /\ \A u \in 1 .. Len(clean) : Valid(clean[u])
    BY <2>3, CleanBars
  <2>8. GateFailure(clean, t) # "SECURITY_SCAN_FAILURE"
    BY DEF GateFailure, Passes
  <2>9. ~ HasOvershootAtr(clean, t) =>
           /\ \A u, v \in DOMAIN clean : clean[u].close = clean[v].close
           /\ ~ IsAbove(Closes(clean), t)
    <3> HIDE DEF clean
    <3> QED
      BY <2>5, <2>7, AtrOrFlat DEF clean
  <2> HIDE DEF clean, t
  <2>10. /\ IsAbove(Closes(clean), t) => verdicts[k].why # "SECURITY_SCAN_FAILURE"
         /\ verdicts[k].why = "SECURITY_SCAN_FAILURE" =>
               \A u, v \in DOMAIN clean : clean[u].close = clean[v].close
    BY <2>4, <2>6, <2>8, <2>9
  <2> QED
    BY <2>10, Zenon DEF t, clean, p
<1> QED
  BY <1>1, VerdictsInvHolds, PTL

=============================================================================
