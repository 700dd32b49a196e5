---------------------------- MODULE EodStoreProofs ----------------------------
(***************************************************************************)
(* Proofs about EodStore, for any number of writers and readers, any       *)
(* symbols, dates and calendar; and that with one writer it implements     *)
(* EodLedger.                                                              *)
(***************************************************************************)
EXTENDS EodStore, WellFoundedInduction, TLAPS

-------------------------------------------------------------------------------
(* The operators. *)

\* The programs append frames of rows.
LEMMA BatchesAreFrames ==
    ASSUME NEW t \in Dates PROVE Batches(t) \subseteq Seq(Row)
<1>1. NseBatches(t) \subseteq Seq(Row)
  <2>1. ASSUME NEW d \in NseDates, NEW n \in 0 .. MaxFrame,
               NEW f \in [1 .. n -> Symbols \X Bars]
        PROVE  [i \in 1 .. n |-> [sym |-> f[i][1], date |-> d, src |-> "NSE",
                                  basis |-> "RAW", bar |-> f[i][2], ingested |-> t]] \in Seq(Row)
    <3>1. d \in Dates
      BY DatesAssumption
    <3>2. \A i \in 1 .. n : f[i][1] \in Symbols /\ f[i][2] \in Bars
      OBVIOUS
    <3>3. \A i \in 1 .. n : [sym |-> f[i][1], date |-> d, src |-> "NSE",
                             basis |-> "RAW", bar |-> f[i][2], ingested |-> t] \in Row
      BY <3>1, <3>2 DEF Row, Sources, Bases
    <3>4. n \in Nat
      BY DatesAssumption
    <3> QED
      BY <3>3, <3>4
  <2>2. ASSUME NEW b \in NseBatches(t) PROVE b \in Seq(Row)
    <3>1. PICK d \in {x \in NseDates : x <= t} :
             b \in UNION { { [i \in 1 .. n |-> [sym |-> f[i][1], date |-> d, src |-> "NSE",
                                  basis |-> "RAW", bar |-> f[i][2], ingested |-> t]]
                             : f \in [1 .. n -> Symbols \X Bars] } : n \in 0 .. MaxFrame }
      BY <2>2 DEF NseBatches
    <3>2. PICK n \in 0 .. MaxFrame :
             b \in { [i \in 1 .. n |-> [sym |-> f[i][1], date |-> d, src |-> "NSE",
                                  basis |-> "RAW", bar |-> f[i][2], ingested |-> t]]
                     : f \in [1 .. n -> Symbols \X Bars] }
      BY <3>1
    <3> QED
      BY <2>1, <3>2
  <2> QED
    BY <2>2
<1>2. BootstrapBatches(t) \subseteq Seq(Row)
  <2>1. ASSUME NEW n \in 1 .. MaxFrame,
               NEW f \in [1 .. n -> Symbols \X {d \in YahooDates : d <= t} \X Bars]
        PROVE  [i \in 1 .. n |-> [sym |-> f[i][1], date |-> f[i][2], src |-> "YFINANCE",
                                  basis |-> YfBasis, bar |-> f[i][3], ingested |-> t]] \in Seq(Row)
    <3>1. {d \in YahooDates : d <= t} \subseteq Dates
      BY DatesAssumption
    <3>2. \A i \in 1 .. n : /\ f[i][1] \in Symbols
                          /\ f[i][2] \in {d \in YahooDates : d <= t}
                          /\ f[i][3] \in Bars
      OBVIOUS
    <3>3. \A i \in 1 .. n : [sym |-> f[i][1], date |-> f[i][2], src |-> "YFINANCE",
                             basis |-> YfBasis, bar |-> f[i][3], ingested |-> t] \in Row
      BY <3>1, <3>2, BasisAssumption DEF Row, Sources
    <3>4. n \in Nat
      BY DatesAssumption
    <3> QED
      BY <3>3, <3>4
  <2>2. ASSUME NEW b \in BootstrapBatches(t) PROVE b \in Seq(Row)
    <3>1. PICK n \in 1 .. MaxFrame :
             b \in { [i \in 1 .. n |-> [sym |-> f[i][1], date |-> f[i][2], src |-> "YFINANCE",
                                   basis |-> YfBasis, bar |-> f[i][3], ingested |-> t]]
                     : f \in {g \in [1 .. n -> Symbols \X {d \in YahooDates : d <= t} \X Bars] :
                               DatesAscend(g)} }
      BY <2>2 DEF BootstrapBatches
    <3>2. PICK f \in [1 .. n -> Symbols \X {d \in YahooDates : d <= t} \X Bars] :
             b = [i \in 1 .. n |-> [sym |-> f[i][1], date |-> f[i][2], src |-> "YFINANCE",
                                   basis |-> YfBasis, bar |-> f[i][3], ingested |-> t]]
      BY <3>1
    <3>3. [i \in 1 .. n |-> [sym |-> f[i][1], date |-> f[i][2], src |-> "YFINANCE",
                              basis |-> YfBasis, bar |-> f[i][3], ingested |-> t]] \in Seq(Row)
      BY <2>1
    <3> QED
      BY <3>2, <3>3
  <2> QED
    BY <2>2
<1> QED
  BY <1>1, <1>2 DEF Batches

\* A merge adds rows of the frame to the rows read, and nothing else.
LEMMA UpsertTyped ==
    ASSUME NEW R \in SUBSET Row, NEW b \in Seq(Row), NEW y
    PROVE  Upsert(R, b, y) \in SUBSET Row
  BY DEF Upsert, InYear

\* A merge leaves one row per key, of the year it is for.
LEMMA UpsertWellFormed ==
    ASSUME NEW R \in SUBSET Row, NEW b \in Seq(Row), NEW y,
           UniqueKeys(R), \A r \in R : YearOf[r.date] = y
    PROVE  /\ UniqueKeys(Upsert(R, b, y))
           /\ \A r \in Upsert(R, b, y) : YearOf[r.date] = y
<1>1. ASSUME NEW i \in InYear(b, y), NEW j \in InYear(b, y), Key(b[i]) = Key(b[j]),
             \A k \in InYear(b, y) : Key(b[k]) = Key(b[i]) => k <= i,
             \A k \in InYear(b, y) : Key(b[k]) = Key(b[j]) => k <= j
      PROVE  i = j
  <2>1. i \in Int /\ j \in Int
    BY DEF InYear
  <2> QED
    BY <1>1, <2>1
<1>2. UniqueKeys(Upsert(R, b, y))
  BY <1>1 DEF Upsert, UniqueKeys
<1>3. \A r \in Upsert(R, b, y) : YearOf[r.date] = y
  BY DEF Upsert, InYear
<1> QED
  BY <1>2, <1>3

\* Among the rows of a frame with one key there is a last one.
LEMMA LastOfKey ==
    ASSUME NEW b \in Seq(Row), NEW y, NEW i \in InYear(b, y)
    PROVE  \E k \in InYear(b, y) :
              /\ Key(b[k]) = Key(b[i])
              /\ \A j \in InYear(b, y) : Key(b[j]) = Key(b[k]) => j <= k
<1> DEFINE n == Len(b)
           T == {n - j : j \in {k \in InYear(b, y) : Key(b[k]) = Key(b[i])}}
<1>1. n \in Nat /\ \A j \in InYear(b, y) : j \in 1 .. n
  BY DEF InYear
<1>2. T \subseteq Nat
  BY <1>1
<1>3. T # {}
  OBVIOUS
<1>4. PICK x \in T : \A z \in T : ~ (z < x)
  <2>1. IsWellFoundedOn(OpToRel(<, Nat), Nat)
    BY NatLessThanWellFounded
  <2>2. PICK x \in T : \A z \in T : <<z, x>> \notin OpToRel(<, Nat)
    BY <1>2, <1>3, <2>1, WFMin
  <2> QED
    BY <1>2, <2>2 DEF OpToRel
<1>5. PICK k \in InYear(b, y) : Key(b[k]) = Key(b[i]) /\ x = n - k
  OBVIOUS
<1>6. ASSUME NEW j \in InYear(b, y), Key(b[j]) = Key(b[k]) PROVE j <= k
  <2>1. n - j \in T
    BY <1>5, <1>6
  <2>2. ~ (n - j < n - k)
    BY <1>4, <1>5, <2>1
  <2> QED
    BY <1>1, <2>2
<1> QED
  BY <1>5, <1>6

\* A merge drops no key, and stores every key of the year's part of the frame.
LEMMA UpsertKeepsKeys ==
    ASSUME NEW R, NEW b \in Seq(Row), NEW y
    PROVE  /\ Keys(R) \subseteq Keys(Upsert(R, b, y))
           /\ \A i \in InYear(b, y) : Key(b[i]) \in Keys(Upsert(R, b, y))
<1>1. ASSUME NEW i \in InYear(b, y) PROVE Key(b[i]) \in Keys(Upsert(R, b, y))
  <2>1. PICK k \in InYear(b, y) : /\ Key(b[k]) = Key(b[i])
                                  /\ \A j \in InYear(b, y) : Key(b[j]) = Key(b[k]) => j <= k
    BY LastOfKey
  <2>2. b[k] \in Upsert(R, b, y)
    BY <2>1 DEF Upsert
  <2> QED
    BY <2>1, <2>2 DEF Keys
<1>2. ASSUME NEW r \in R PROVE Key(r) \in Keys(Upsert(R, b, y))
  <2>1. CASE \E i \in InYear(b, y) : Key(b[i]) = Key(r)
    BY <1>1, <2>1
  <2>2. CASE \A i \in InYear(b, y) : Key(b[i]) # Key(r)
    BY <2>2 DEF Upsert, Keys
  <2> QED
    BY <2>1, <2>2
<1> QED
  BY <1>1, <1>2 DEF Keys

-------------------------------------------------------------------------------
(* Types. *)

LEMMA YearsTyped == /\ YearOf[1] \in Years
                    /\ \A d \in Dates : YearOf[d] \in Years
                    /\ Years \subseteq Nat
  BY DatesAssumption DEF Dates, Years

LEMMA AllRowsTyped == TypeOK => AllRows \in SUBSET Row
  BY DEF TypeOK, AllRows

LEMMA BasisTyped == ASSUME NEW R PROVE Basis(R) \in {"RAW", "ADJUSTED", "BLENDED"}
  BY DEF Basis

\* The keys of a frame of rows are keys.
LEMMA FrameKeysTyped ==
    ASSUME NEW b \in Seq(Row)
    PROVE  /\ \A i \in DOMAIN b : Key(b[i]) \in Symbols \X Dates \X Sources
           /\ YearsOf(b) \in SUBSET Years
<1>1. \A i \in DOMAIN b : b[i] \in Row
  OBVIOUS
<1>2. \A r \in Row : Key(r) \in Symbols \X Dates \X Sources /\ YearOf[r.date] \in Years
  BY YearsTyped DEF Key, Row
<1> QED
  BY <1>1, <1>2 DEF YearsOf

\* An append or a fetch never leaves the types, whatever the other does.
THEOREM TypeCorrect == Spec => []TypeOK
<1>1. Init => TypeOK
  BY DatesAssumption, YearsTyped DEF Init, TypeOK, Cutoffs
<1>2. ASSUME TypeOK, [Next]_vars PROVE TypeOK'
  <2>1. ASSUME NEW w \in Writers, Begin(w) PROVE TypeOK'
    <3>1. PICK b \in Batches(today) : /\ batch' = [batch EXCEPT ![w] = b]
                                      /\ todo' = [todo EXCEPT ![w] = YearsOf(b)]
      BY <2>1 DEF Begin
    <3>2. b \in Seq(Row)
      BY <1>2, BatchesAreFrames DEF TypeOK
    <3>3. YearsOf(b) \in SUBSET Years
      BY <3>2, FrameKeysTyped
    <3> QED
      BY <1>2, <2>1, <3>1, <3>2, <3>3 DEF TypeOK, Begin, fileVars, readerVars, historyVars
  <2>2. ASSUME NEW w \in Writers, ReadPartition(w) PROVE TypeOK'
    BY <1>2, <2>2 DEF TypeOK, ReadPartition, fileVars, readerVars, historyVars
  <2>3. ASSUME NEW w \in Writers, ReadPartitionFails(w) PROVE TypeOK'
    BY <1>2, <2>3, YearsTyped DEF TypeOK, ReadPartitionFails, Leave, fileVars, readerVars, historyVars
  <2>4. ASSUME NEW w \in Writers, OpenPartition(w) PROVE TypeOK'
    BY <1>2, <2>4 DEF TypeOK, OpenPartition, fileVars, readerVars, historyVars
  <2>5. ASSUME NEW w \in Writers, ClosePartition(w) PROVE TypeOK'
    <3>1. /\ Upsert(base[w], batch[w], cur[w]) \in SUBSET Row
          /\ Upsert(ledger[cur[w]], batch[w], cur[w]) \in SUBSET Row
      BY <1>2, UpsertTyped DEF TypeOK
    <3>2. /\ health' \in [Years -> {"absent", "ok", "torn"}]
          /\ rows' \in [Years -> SUBSET Row]
      BY <1>2, <2>5, <3>1 DEF TypeOK, ClosePartition
    <3>3. /\ ledger' \in [Years -> SUBSET Row]
          /\ raced' \in SUBSET Years
          /\ todo' \in [Writers -> SUBSET Years]
          /\ moved' \in SUBSET Readers
      BY <1>2, <2>5, <3>1 DEF TypeOK, ClosePartition
    <3>4. /\ pc' \in [Writers -> {"idle", "next", "merge", "open", "count"}]
          /\ base' \in [Writers -> SUBSET Row]
      BY <1>2, <2>5 DEF TypeOK, ClosePartition
    <3> QED
      BY <1>2, <2>5, <3>2, <3>3, <3>4 DEF TypeOK, ClosePartition, readerVars
  <2>6. ASSUME NEW w \in Writers, ReturnZero(w) PROVE TypeOK'
    <3>1. acked' \in SUBSET (Symbols \X Dates \X Sources)
      BY <1>2, <2>6, FrameKeysTyped DEF TypeOK, ReturnZero
    <3> QED
      BY <1>2, <2>6, <3>1, YearsTyped DEF TypeOK, ReturnZero, Leave, fileVars, readerVars
  <2>7. ASSUME NEW w \in Writers, ConnectToCount(w) PROVE TypeOK'
    BY <1>2, <2>7 DEF TypeOK, ConnectToCount, fileVars, readerVars, historyVars
  <2>8. ASSUME NEW w \in Writers, ConnectToCountFails(w) PROVE TypeOK'
    BY <1>2, <2>8, YearsTyped DEF TypeOK, ConnectToCountFails, Leave, fileVars, readerVars, historyVars
  <2>9. ASSUME NEW w \in Writers, CountRows(w) PROVE TypeOK'
    <3>1. acked' \in SUBSET (Symbols \X Dates \X Sources)
      BY <1>2, <2>9, FrameKeysTyped DEF TypeOK, CountRows
    <3> QED
      BY <1>2, <2>9, <3>1, YearsTyped DEF TypeOK, CountRows, Leave, fileVars, readerVars
  <2>10. ASSUME NEW w \in Writers, CountRowsFails(w) PROVE TypeOK'
    BY <1>2, <2>10, YearsTyped DEF TypeOK, CountRowsFails, Leave, fileVars, readerVars, historyVars
  <2>11. ASSUME NEW w \in Writers, Interrupt(w) PROVE TypeOK'
    <3>1. /\ health' \in [Years -> {"absent", "ok", "torn"}]
          /\ rows' \in [Years -> SUBSET Row]
      BY <1>2, <2>11 DEF TypeOK, Interrupt, fileVars
    <3>2. /\ lock' \in Writers \cup Readers \cup {NoProcess}
          /\ pc' \in [Writers -> {"idle", "next", "merge", "open", "count"}]
          /\ batch' \in [Writers -> Seq(Row)]
          /\ todo' \in [Writers -> SUBSET Years]
          /\ cur' \in [Writers -> Years]
          /\ base' \in [Writers -> SUBSET Row]
      BY <1>2, <2>11, YearsTyped DEF TypeOK, Interrupt, Leave
    <3> QED
      BY <1>2, <2>11, <3>1, <3>2 DEF TypeOK, Interrupt, readerVars, historyVars
  <2>12. ASSUME NEW r \in Readers, FetchFromEmptyStore(r) PROVE TypeOK'
    BY <1>2, <2>12 DEF TypeOK, FetchFromEmptyStore, fileVars, writerVars, historyVars
  <2>13. ASSUME NEW r \in Readers, ConnectForHistory(r) PROVE TypeOK'
    <3>1. /\ want' \in [Readers -> [sym : Symbols, cutoff : Cutoffs]]
          /\ series' \in [Readers -> SUBSET Row]
          /\ basis' \in [Readers -> {"none", "RAW", "ADJUSTED", "BLENDED"}]
          /\ moved' \in SUBSET Readers
      BY <1>2, <2>13 DEF TypeOK, ConnectForHistory
    <3>2. /\ lock' \in Writers \cup Readers \cup {NoProcess}
          /\ rpc' \in [Readers -> {"idle", "history", "between", "basis"}]
          /\ outcome' \in [Readers -> {"none", "fetched", "no_data", "error"}]
      BY <1>2, <2>13 DEF TypeOK, ConnectForHistory
    <3> QED
      BY <1>2, <2>13, <3>1, <3>2 DEF TypeOK, ConnectForHistory, fileVars, writerVars
  <2>14. ASSUME NEW r \in Readers, QueryHistory(r) PROVE TypeOK'
    <3>1. EffectiveRows(AllRows, want[r].sym, want[r].cutoff) \in SUBSET Row
      BY <1>2, AllRowsTyped DEF EffectiveRows
    <3> QED
      BY <1>2, <2>14, <3>1 DEF TypeOK, QueryHistory, fileVars, writerVars, historyVars
  <2>15. ASSUME NEW r \in Readers, ConnectForBasis(r) PROVE TypeOK'
    BY <1>2, <2>15 DEF TypeOK, ConnectForBasis, fileVars, writerVars, historyVars
  <2>16. ASSUME NEW r \in Readers, ConnectForBasisFails(r) PROVE TypeOK'
    BY <1>2, <2>16 DEF TypeOK, ConnectForBasisFails, fileVars, writerVars, historyVars
  <2>17. ASSUME NEW r \in Readers, QueryBasis(r) PROVE TypeOK'
    BY <1>2, <2>17, BasisTyped DEF TypeOK, QueryBasis, fileVars, writerVars, historyVars
  <2>18. ASSUME NEW r \in Readers, QueryFails(r) PROVE TypeOK'
    BY <1>2, <2>18 DEF TypeOK, QueryFails, fileVars, writerVars, historyVars
  <2>19. ASSUME NEW r \in Readers, InterruptReader(r) PROVE TypeOK'
    BY <1>2, <2>19 DEF TypeOK, InterruptReader, fileVars, writerVars, historyVars
  <2>20. ASSUME NextDay PROVE TypeOK'
    BY <1>2, <2>20, DatesAssumption
    DEF TypeOK, NextDay, Dates, fileVars, writerVars, readerVars, historyVars
  <2>21. ASSUME UNCHANGED vars PROVE TypeOK'
    BY <1>2, <2>21 DEF TypeOK, vars, fileVars, writerVars, readerVars, historyVars
  <2> QED
    BY <1>2, <2>1, <2>2, <2>3, <2>4, <2>5, <2>6, <2>7, <2>8, <2>9, <2>10, <2>11, <2>12, <2>13, <2>14, <2>15, <2>16, <2>17, <2>18, <2>19, <2>20, <2>21 DEF Next, WriterStep, ReaderStep
<1> QED
  BY <1>1, <1>2, PTL DEF Spec

-------------------------------------------------------------------------------
(* The read-modify-write. *)

\* A copy a writer holds is current, unless its rewrite was overlapped.
CopiesFresh ==
    \A w \in Writers :
        pc[w] \in {"merge", "open"} /\ cur[w] \notin raced => base[w] = ledger[cur[w]]

TornIsEmpty == \A y \in Years : health[y] # "ok" => rows[y] = {}

StoreInv == PartitionsWellFormed /\ NoLostUpdate /\ CopiesFresh /\ TornIsEmpty

storeVars == <<health, rows, ledger, raced, pc, cur, base>>

\* A step that leaves the files alone, and in which a writer at most gives up
\* or has nothing in hand, keeps StoreInv.
LEMMA QuietStep ==
    ASSUME TypeOK, StoreInv, NEW w \in Writers,
           UNCHANGED <<health, rows, ledger, raced>>,
           \A v \in Writers \ {w} : pc'[v] = pc[v] /\ cur'[v] = cur[v] /\ base'[v] = base[v],
           pc'[w] \notin {"merge", "open"},
           base'[w] = {} \/ base'[w] = base[w]
    PROVE  StoreInv'
<1>1. PartitionsWellFormed'
  <2>1. \A y \in Years : UniqueKeys(rows'[y]) /\ \A r \in rows'[y] : YearOf[r.date] = y
    BY DEF StoreInv, PartitionsWellFormed
  <2>2. ASSUME NEW v \in Writers
        PROVE  /\ UniqueKeys(base'[v])
               /\ pc'[v] \in {"merge", "open"} => \A r \in base'[v] : YearOf[r.date] = cur'[v]
    BY DEF StoreInv, PartitionsWellFormed, UniqueKeys
  <2> QED
    BY <2>1, <2>2 DEF PartitionsWellFormed
<1>2. NoLostUpdate'
  BY DEF StoreInv, NoLostUpdate
<1>3. CopiesFresh'
  BY DEF StoreInv, CopiesFresh
<1>4. TornIsEmpty'
  BY DEF StoreInv, TornIsEmpty
<1> QED
  BY <1>1, <1>2, <1>3, <1>4 DEF StoreInv

\* The copy is what the partition holds, and the partition is what it should be.
LEMMA ReadPartitionKeeps ==
    ASSUME TypeOK, StoreInv, NEW w \in Writers, ReadPartition(w)
    PROVE  StoreInv'
<1>1. PICK y \in todo[w] : /\ health[y] # "torn"
                           /\ cur' = [cur EXCEPT ![w] = y]
                           /\ base' = [base EXCEPT ![w] = rows[y]]
  BY DEF ReadPartition
<1>2. y \in Years
  BY <1>1 DEF TypeOK
<1>3. /\ UNCHANGED <<health, rows, ledger, raced>>
      /\ \A v \in Writers \ {w} : pc'[v] = pc[v] /\ cur'[v] = cur[v] /\ base'[v] = base[v]
      /\ cur'[w] = y /\ base'[w] = rows[y]
  BY <1>1 DEF ReadPartition, TypeOK, fileVars, historyVars
<1>4. PartitionsWellFormed'
  <2>1. ASSUME NEW v \in Writers
        PROVE  /\ UniqueKeys(base'[v])
               /\ pc'[v] \in {"merge", "open"} => \A r \in base'[v] : YearOf[r.date] = cur'[v]
    BY <1>2, <1>3 DEF StoreInv, PartitionsWellFormed
  <2>2. \A z \in Years : UniqueKeys(rows'[z]) /\ \A r \in rows'[z] : YearOf[r.date] = z
    BY <1>3 DEF StoreInv, PartitionsWellFormed
  <2> QED
    BY <2>1, <2>2 DEF PartitionsWellFormed
<1>5. NoLostUpdate'
  BY <1>3 DEF StoreInv, NoLostUpdate
<1>6. CopiesFresh'
  <2>1. y \notin raced => rows[y] = ledger[y]
    <3>1. health[y] \in {"absent", "ok"}
      BY <1>1, <1>2 DEF TypeOK
    <3> QED
      BY <1>2, <3>1 DEF StoreInv, NoLostUpdate, TornIsEmpty
  <2> QED
    BY <1>3, <2>1 DEF StoreInv, CopiesFresh
<1>7. TornIsEmpty'
  BY <1>3 DEF StoreInv, TornIsEmpty
<1> QED
  BY <1>4, <1>5, <1>6, <1>7 DEF StoreInv

\* Truncating the file changes no copy.
LEMMA OpenPartitionKeeps ==
    ASSUME TypeOK, StoreInv, NEW w \in Writers, OpenPartition(w)
    PROVE  StoreInv'
<1>1. /\ UNCHANGED <<ledger, raced, cur, base>>
      /\ pc[w] = "merge" /\ pc'[w] = "open"
      /\ \A v \in Writers \ {w} : pc'[v] = pc[v]
  BY DEF OpenPartition, TypeOK
<1>2. /\ cur[w] \in Years
      /\ health'[cur[w]] = "torn" /\ rows'[cur[w]] = {}
      /\ \A z \in Years \ {cur[w]} : health'[z] = health[z] /\ rows'[z] = rows[z]
  BY DEF OpenPartition, TypeOK
<1>3. PartitionsWellFormed'
  <2>1. \A z \in Years : UniqueKeys(rows'[z]) /\ \A r \in rows'[z] : YearOf[r.date] = z
    BY <1>2 DEF StoreInv, PartitionsWellFormed, UniqueKeys
  <2>2. \A v \in Writers : /\ UniqueKeys(base'[v])
                           /\ pc'[v] \in {"merge", "open"} =>
                                 \A r \in base'[v] : YearOf[r.date] = cur'[v]
    BY <1>1 DEF StoreInv, PartitionsWellFormed
  <2> QED
    BY <2>1, <2>2 DEF PartitionsWellFormed
<1>4. NoLostUpdate'
  BY <1>1, <1>2 DEF StoreInv, NoLostUpdate
<1>5. CopiesFresh'
  BY <1>1 DEF StoreInv, CopiesFresh
<1>6. TornIsEmpty'
  BY <1>2 DEF StoreInv, TornIsEmpty
<1> QED
  BY <1>3, <1>4, <1>5, <1>6 DEF StoreInv

\* The rewrite lands on the rows the ledger has, or some other writer's copy
\* goes stale and the year is raced from here on.
LEMMA ClosePartitionKeeps ==
    ASSUME TypeOK, StoreInv, NEW w \in Writers, ClosePartition(w)
    PROVE  StoreInv'
<1> DEFINE y == cur[w]
           new == Upsert(base[w], batch[w], y)
<1>1. y \in Years /\ base[w] \in SUBSET Row /\ batch[w] \in Seq(Row) /\ pc[w] = "open"
  BY DEF TypeOK, ClosePartition
<1>2. /\ pc'[w] = "next" /\ base'[w] = {} /\ cur' = cur
      /\ \A v \in Writers \ {w} : pc'[v] = pc[v] /\ base'[v] = base[v]
  BY DEF TypeOK, ClosePartition
<1>3. /\ ledger'[y] = Upsert(ledger[y], batch[w], y)
      /\ \A z \in Years \ {y} : ledger'[z] = ledger[z]
  BY <1>1 DEF TypeOK, ClosePartition
<1>4. /\ \/ health'[y] = "ok" /\ rows'[y] = new
         \/ health'[y] = "torn" /\ rows'[y] = {}
      /\ \A z \in Years \ {y} : health'[z] = health[z] /\ rows'[z] = rows[z]
  BY <1>1 DEF TypeOK, ClosePartition
<1>5. /\ raced \subseteq raced'
      /\ \A v \in Writers \ {w} : Holds(v, y) => y \in raced'
  BY DEF ClosePartition
<1>6. UniqueKeys(new) /\ \A r \in new : YearOf[r.date] = y
  <2>1. UniqueKeys(base[w]) /\ \A r \in base[w] : YearOf[r.date] = y
    BY <1>1 DEF StoreInv, PartitionsWellFormed
  <2> QED
    BY <1>1, <2>1, UpsertWellFormed
<1>7. PartitionsWellFormed'
  <2>1. \A z \in Years : UniqueKeys(rows'[z]) /\ \A r \in rows'[z] : YearOf[r.date] = z
    BY <1>4, <1>6 DEF StoreInv, PartitionsWellFormed, UniqueKeys
  <2>2. \A v \in Writers : /\ UniqueKeys(base'[v])
                           /\ pc'[v] \in {"merge", "open"} =>
                                 \A r \in base'[v] : YearOf[r.date] = cur'[v]
    BY <1>2 DEF StoreInv, PartitionsWellFormed, UniqueKeys
  <2> QED
    BY <2>1, <2>2 DEF PartitionsWellFormed
<1>8. NoLostUpdate'
  <2>1. y \notin raced' /\ health'[y] = "ok" => rows'[y] = ledger'[y]
    <3>1. y \notin raced' => base[w] = ledger[y]
      BY <1>1, <1>5 DEF StoreInv, CopiesFresh
    <3> QED
      BY <1>3, <1>4, <3>1
  <2>2. health'[y] # "absent"
    BY <1>4
  <2> QED
    BY <1>3, <1>4, <1>5, <2>1, <2>2 DEF StoreInv, NoLostUpdate
<1>9. CopiesFresh'
  <2>1. ASSUME NEW v \in Writers, pc'[v] \in {"merge", "open"}, cur'[v] \notin raced'
        PROVE  base'[v] = ledger'[cur'[v]]
    <3>1. v # w /\ pc[v] \in {"merge", "open"} /\ cur[v] \notin raced /\ cur'[v] = cur[v]
      BY <1>2, <1>5, <2>1
    <3>2. cur[v] # y
      BY <1>5, <2>1, <3>1 DEF Holds
    <3>3. cur[v] \in Years
      BY DEF TypeOK
    <3> QED
      BY <1>2, <1>3, <3>1, <3>2, <3>3 DEF StoreInv, CopiesFresh
  <2> QED
    BY <2>1 DEF CopiesFresh
<1>10. TornIsEmpty'
  BY <1>4 DEF StoreInv, TornIsEmpty
<1> QED
  BY <1>7, <1>8, <1>9, <1>10 DEF StoreInv

\* A process that dies leaves its partition as it was, or torn.
LEMMA InterruptKeeps ==
    ASSUME TypeOK, StoreInv, NEW w \in Writers, Interrupt(w)
    PROVE  StoreInv'
<1>1. /\ UNCHANGED <<ledger, raced>>
      /\ pc'[w] = "idle" /\ base'[w] = {}
      /\ \A v \in Writers \ {w} : pc'[v] = pc[v] /\ cur'[v] = cur[v] /\ base'[v] = base[v]
  BY DEF TypeOK, Interrupt, Leave, historyVars
<1>2. \A z \in Years : \/ health'[z] = health[z] /\ rows'[z] = rows[z]
                       \/ health'[z] = "torn" /\ rows'[z] = {}
  <2>1. CASE UNCHANGED fileVars
    BY <2>1 DEF fileVars
  <2>2. CASE /\ health' = [health EXCEPT ![cur[w]] = "torn"]
             /\ rows' = [rows EXCEPT ![cur[w]] = {}]
    BY <2>2 DEF TypeOK
  <2> QED
    BY <2>1, <2>2 DEF Interrupt
<1>3. PartitionsWellFormed'
  <2>1. \A z \in Years : UniqueKeys(rows'[z]) /\ \A r \in rows'[z] : YearOf[r.date] = z
    BY <1>2 DEF StoreInv, PartitionsWellFormed, UniqueKeys
  <2>2. \A v \in Writers : /\ UniqueKeys(base'[v])
                           /\ pc'[v] \in {"merge", "open"} =>
                                 \A r \in base'[v] : YearOf[r.date] = cur'[v]
    BY <1>1 DEF StoreInv, PartitionsWellFormed, UniqueKeys
  <2> QED
    BY <2>1, <2>2 DEF PartitionsWellFormed
<1>4. NoLostUpdate'
  BY <1>1, <1>2 DEF StoreInv, NoLostUpdate
<1>5. CopiesFresh'
  BY <1>1 DEF StoreInv, CopiesFresh
<1>6. TornIsEmpty'
  BY <1>2 DEF StoreInv, TornIsEmpty
<1> QED
  BY <1>3, <1>4, <1>5, <1>6 DEF StoreInv

\* A step of a reader, the calendar or nobody touches none of it.
LEMMA StoreUntouched ==
    ASSUME StoreInv, UNCHANGED storeVars PROVE StoreInv'
  BY DEF StoreInv, storeVars, PartitionsWellFormed, NoLostUpdate, CopiesFresh, TornIsEmpty

LEMMA StoreInvHolds == Spec => []StoreInv
<1>1. Init => StoreInv
  BY DEF Init, StoreInv, PartitionsWellFormed, UniqueKeys, NoLostUpdate, CopiesFresh, TornIsEmpty
<1>2. ASSUME TypeOK, StoreInv, [Next]_vars PROVE StoreInv'
  <2>1. ASSUME NEW w \in Writers, Begin(w) PROVE StoreInv'
    <3>1. /\ UNCHANGED <<health, rows, ledger, raced>>
          /\ \A v \in Writers \ {w} : pc'[v] = pc[v] /\ cur'[v] = cur[v] /\ base'[v] = base[v]
          /\ pc'[w] \notin {"merge", "open"}
          /\ base'[w] = {} \/ base'[w] = base[w]
      BY <1>2, <2>1 DEF TypeOK, Begin, fileVars, historyVars
    <3> QED
      BY <1>2, <3>1, QuietStep
  <2>2. ASSUME NEW w \in Writers, ReadPartitionFails(w) PROVE StoreInv'
    <3>1. /\ UNCHANGED <<health, rows, ledger, raced>>
          /\ \A v \in Writers \ {w} : pc'[v] = pc[v] /\ cur'[v] = cur[v] /\ base'[v] = base[v]
          /\ pc'[w] \notin {"merge", "open"}
          /\ base'[w] = {} \/ base'[w] = base[w]
      BY <1>2, <2>2 DEF TypeOK, ReadPartitionFails, Leave, fileVars, historyVars
    <3> QED
      BY <1>2, <3>1, QuietStep
  <2>3. ASSUME NEW w \in Writers, ReturnZero(w) PROVE StoreInv'
    <3>1. /\ UNCHANGED <<health, rows, ledger, raced>>
          /\ \A v \in Writers \ {w} : pc'[v] = pc[v] /\ cur'[v] = cur[v] /\ base'[v] = base[v]
          /\ pc'[w] \notin {"merge", "open"}
          /\ base'[w] = {} \/ base'[w] = base[w]
      BY <1>2, <2>3 DEF TypeOK, ReturnZero, Leave, fileVars, historyVars
    <3> QED
      BY <1>2, <3>1, QuietStep
  <2>4. ASSUME NEW w \in Writers, ConnectToCount(w) PROVE StoreInv'
    <3>1. /\ UNCHANGED <<health, rows, ledger, raced>>
          /\ \A v \in Writers \ {w} : pc'[v] = pc[v] /\ cur'[v] = cur[v] /\ base'[v] = base[v]
          /\ pc'[w] \notin {"merge", "open"}
          /\ base'[w] = {} \/ base'[w] = base[w]
      BY <1>2, <2>4 DEF TypeOK, ConnectToCount, fileVars, historyVars
    <3> QED
      BY <1>2, <3>1, QuietStep
  <2>5. ASSUME NEW w \in Writers, ConnectToCountFails(w) PROVE StoreInv'
    <3>1. /\ UNCHANGED <<health, rows, ledger, raced>>
          /\ \A v \in Writers \ {w} : pc'[v] = pc[v] /\ cur'[v] = cur[v] /\ base'[v] = base[v]
          /\ pc'[w] \notin {"merge", "open"}
          /\ base'[w] = {} \/ base'[w] = base[w]
      BY <1>2, <2>5 DEF TypeOK, ConnectToCountFails, Leave, fileVars, historyVars
    <3> QED
      BY <1>2, <3>1, QuietStep
  <2>6. ASSUME NEW w \in Writers, CountRows(w) PROVE StoreInv'
    <3>1. /\ UNCHANGED <<health, rows, ledger, raced>>
          /\ \A v \in Writers \ {w} : pc'[v] = pc[v] /\ cur'[v] = cur[v] /\ base'[v] = base[v]
          /\ pc'[w] \notin {"merge", "open"}
          /\ base'[w] = {} \/ base'[w] = base[w]
      BY <1>2, <2>6 DEF TypeOK, CountRows, Leave, fileVars, historyVars
    <3> QED
      BY <1>2, <3>1, QuietStep
  <2>7. ASSUME NEW w \in Writers, CountRowsFails(w) PROVE StoreInv'
    <3>1. /\ UNCHANGED <<health, rows, ledger, raced>>
          /\ \A v \in Writers \ {w} : pc'[v] = pc[v] /\ cur'[v] = cur[v] /\ base'[v] = base[v]
          /\ pc'[w] \notin {"merge", "open"}
          /\ base'[w] = {} \/ base'[w] = base[w]
      BY <1>2, <2>7 DEF TypeOK, CountRowsFails, Leave, fileVars, historyVars
    <3> QED
      BY <1>2, <3>1, QuietStep
  <2>8. ASSUME NEW w \in Writers, ReadPartition(w) PROVE StoreInv'
    BY <1>2, <2>8, ReadPartitionKeeps
  <2>9. ASSUME NEW w \in Writers, OpenPartition(w) PROVE StoreInv'
    BY <1>2, <2>9, OpenPartitionKeeps
  <2>10. ASSUME NEW w \in Writers, ClosePartition(w) PROVE StoreInv'
    BY <1>2, <2>10, ClosePartitionKeeps
  <2>11. ASSUME NEW w \in Writers, Interrupt(w) PROVE StoreInv'
    BY <1>2, <2>11, InterruptKeeps
  <2>12. ASSUME NEW r \in Readers,
                FetchFromEmptyStore(r) \/ ConnectForHistory(r) \/ ReaderStep(r) \/ InterruptReader(r)
         PROVE  StoreInv'
    <3>1. UNCHANGED storeVars
      BY <2>12 DEF ReaderStep, FetchFromEmptyStore, ConnectForHistory,
         QueryHistory, ConnectForBasis, ConnectForBasisFails,
         QueryBasis, QueryFails, InterruptReader,
         storeVars, fileVars, writerVars, historyVars
    <3> QED
      BY <1>2, <3>1, StoreUntouched
  <2>13. ASSUME NextDay \/ UNCHANGED vars PROVE StoreInv'
    <3>1. UNCHANGED storeVars
      BY <2>13 DEF NextDay, vars, storeVars, fileVars, writerVars, historyVars
    <3> QED
      BY <1>2, <3>1, StoreUntouched
  <2> QED
    BY <1>2, <2>1, <2>2, <2>3, <2>4, <2>5, <2>6, <2>7, <2>8, <2>9, <2>10, <2>11, <2>12, <2>13 DEF Next, WriterStep
<1> QED
  BY <1>1, <1>2, TypeCorrect, PTL DEF Spec

\* The key of the store: for any number of programs appending at once and
\* dying anywhere, a partition no rewrite of which was overlapped holds exactly
\* what the same appends, one after the other, would have left.
THEOREM NothingLost == Spec => []NoLostUpdate
  BY StoreInvHolds, PTL DEF StoreInv

\* One row per symbol, date and source, in the partition of its year.
THEOREM WellFormedPartitions == Spec => []PartitionsWellFormed
  BY StoreInvHolds, PTL DEF StoreInv

-------------------------------------------------------------------------------
(* Acknowledged rows. *)

AckedInLedger == \A k \in acked : k \in Keys(ledger[YearOf[k[2]]])

\* The rows of a frame whose year is done are in the ledger.
FramesInLedger ==
    \A w \in Writers : \A i \in DOMAIN batch[w] :
        LET y == YearOf[batch[w][i].date]
        IN  y \in todo[w] \/ Key(batch[w][i]) \in Keys(ledger[y])

CountedWhenDone == \A w \in Writers : pc[w] = "count" => todo[w] = {}

AckInv == AckedInLedger /\ FramesInLedger /\ CountedWhenDone

ackVars == <<ledger, acked, batch, todo, pc>>

LEMMA AckUntouched ==
    ASSUME AckInv, UNCHANGED ackVars PROVE AckInv'
  BY DEF AckInv, ackVars, AckedInLedger, FramesInLedger, CountedWhenDone

\* A call that ends, with or without reporting its rows: what it reports has
\* reached the ledger.
LEMMA EndKeepsAcks ==
    ASSUME TypeOK, AckInv, NEW w \in Writers, Leave(w), ledger' = ledger,
           \/ acked' = acked
           \/ /\ todo[w] = {}
              /\ acked' = acked \cup {Key(batch[w][i]) : i \in DOMAIN batch[w]}
    PROVE  AckInv'
<1>1. /\ batch'[w] = <<>> /\ pc'[w] = "idle"
      /\ \A v \in Writers \ {w} : pc'[v] = pc[v] /\ batch'[v] = batch[v] /\ todo'[v] = todo[v]
  BY DEF TypeOK, Leave
<1>2. AckedInLedger'
  <2>1. CASE acked' = acked
    BY <2>1 DEF AckInv, AckedInLedger
  <2>2. CASE /\ todo[w] = {}
             /\ acked' = acked \cup {Key(batch[w][i]) : i \in DOMAIN batch[w]}
    <3>1. ASSUME NEW i \in DOMAIN batch[w]
          PROVE  Key(batch[w][i]) \in Keys(ledger[YearOf[Key(batch[w][i])[2]]])
      <4>1. Key(batch[w][i]) \in Keys(ledger[YearOf[batch[w][i].date]])
        BY <2>2 DEF AckInv, FramesInLedger
      <4>2. Key(batch[w][i])[2] = batch[w][i].date
        BY DEF Key
      <4> QED
        BY <4>1, <4>2
    <3> QED
      BY <2>2, <3>1 DEF AckInv, AckedInLedger
  <2> QED
    BY <2>1, <2>2
<1>3. FramesInLedger'
  BY <1>1 DEF AckInv, FramesInLedger
<1>4. CountedWhenDone'
  BY <1>1 DEF AckInv, CountedWhenDone
<1> QED
  BY <1>2, <1>3, <1>4 DEF AckInv

\* A rewrite puts its year's rows in the ledger and drops no key from it.
LEMMA ClosePartitionKeepsAcks ==
    ASSUME TypeOK, AckInv, NEW w \in Writers, ClosePartition(w)
    PROVE  AckInv'
<1> DEFINE y == cur[w]
<1>1. y \in Years /\ batch[w] \in Seq(Row)
  BY DEF TypeOK
<1>2. /\ UNCHANGED <<acked, batch>>
      /\ pc'[w] = "next" /\ todo'[w] = todo[w] \ {y}
      /\ \A v \in Writers \ {w} : pc'[v] = pc[v] /\ todo'[v] = todo[v]
  BY DEF TypeOK, ClosePartition
<1>3. /\ ledger'[y] = Upsert(ledger[y], batch[w], y)
      /\ \A z \in Years \ {y} : ledger'[z] = ledger[z]
  BY <1>1 DEF TypeOK, ClosePartition
<1>4. /\ \A z \in Years : Keys(ledger[z]) \subseteq Keys(ledger'[z])
      /\ \A i \in InYear(batch[w], y) : Key(batch[w][i]) \in Keys(ledger'[y])
  BY <1>1, <1>3, UpsertKeepsKeys
<1>5. AckedInLedger'
  <2>1. \A k \in acked : YearOf[k[2]] \in Years
    BY YearsTyped DEF TypeOK
  <2> QED
    BY <1>2, <1>4, <2>1 DEF AckInv, AckedInLedger
<1>6. FramesInLedger'
  <2>1. ASSUME NEW v \in Writers, NEW i \in DOMAIN batch[v]
        PROVE  \/ YearOf[batch[v][i].date] \in todo'[v]
               \/ Key(batch[v][i]) \in Keys(ledger'[YearOf[batch[v][i].date]])
    <3>1. YearOf[batch[v][i].date] \in Years
      <4>1. batch[v] \in Seq(Row)
        BY DEF TypeOK
      <4>2. batch[v][i] \in Row
        BY <4>1
      <4> QED
        BY <4>2, YearsTyped DEF Row
    <3>2. CASE Key(batch[v][i]) \in Keys(ledger[YearOf[batch[v][i].date]])
      BY <1>4, <3>1, <3>2
    <3>3. CASE YearOf[batch[v][i].date] \in todo[v]
      <4>1. CASE v = w /\ YearOf[batch[v][i].date] = y
        BY <1>4, <4>1 DEF InYear
      <4>2. CASE ~ (v = w /\ YearOf[batch[v][i].date] = y)
        BY <1>2, <3>3, <4>2
      <4> QED
        BY <4>1, <4>2
    <3> QED
      BY <3>2, <3>3 DEF AckInv, FramesInLedger
  <2> QED
    BY <1>2, <2>1 DEF FramesInLedger
<1>7. CountedWhenDone'
  BY <1>2 DEF AckInv, CountedWhenDone
<1> QED
  BY <1>5, <1>6, <1>7 DEF AckInv

LEMMA AckInvHolds == Spec => []AckInv
<1>1. Init => AckInv
  BY DEF Init, AckInv, AckedInLedger, FramesInLedger, CountedWhenDone
<1>2. ASSUME TypeOK, AckInv, [Next]_vars PROVE AckInv'
  <2>1. ASSUME NEW w \in Writers, Begin(w) PROVE AckInv'
    <3>1. PICK b \in Batches(today) : /\ batch' = [batch EXCEPT ![w] = b]
                                      /\ todo' = [todo EXCEPT ![w] = YearsOf(b)]
      BY <2>1 DEF Begin
    <3>2. /\ UNCHANGED <<ledger, acked>>
          /\ batch'[w] = b /\ todo'[w] = YearsOf(b) /\ pc'[w] = "next"
          /\ \A v \in Writers \ {w} : pc'[v] = pc[v] /\ batch'[v] = batch[v] /\ todo'[v] = todo[v]
      BY <1>2, <2>1, <3>1 DEF Begin, TypeOK, historyVars
    <3>3. AckedInLedger'
      BY <1>2, <3>2 DEF AckInv, AckedInLedger
    <3>4. FramesInLedger'
      BY <1>2, <3>2 DEF AckInv, FramesInLedger, YearsOf
    <3>5. CountedWhenDone'
      BY <1>2, <3>2 DEF AckInv, CountedWhenDone
    <3> QED
      BY <3>3, <3>4, <3>5 DEF AckInv
  <2>2. ASSUME NEW w \in Writers, ReadPartition(w) \/ OpenPartition(w) \/ ConnectToCount(w)
        PROVE  AckInv'
    <3>1. /\ UNCHANGED <<ledger, acked, batch, todo>>
          /\ pc'[w] = "count" => todo[w] = {}
          /\ \A v \in Writers \ {w} : pc'[v] = pc[v]
      BY <1>2, <2>2 DEF ReadPartition, OpenPartition, ConnectToCount, TypeOK, historyVars
    <3>2. CountedWhenDone'
      BY <1>2, <3>1 DEF AckInv, CountedWhenDone
    <3>3. AckedInLedger' /\ FramesInLedger'
      BY <1>2, <3>1 DEF AckInv, AckedInLedger, FramesInLedger
    <3> QED
      BY <3>2, <3>3 DEF AckInv
  <2>3. ASSUME NEW w \in Writers, ClosePartition(w) PROVE AckInv'
    BY <1>2, <2>3, ClosePartitionKeepsAcks
  <2>4. ASSUME NEW w \in Writers,
               \/ ReadPartitionFails(w) \/ ConnectToCountFails(w)
               \/ CountRowsFails(w) \/ Interrupt(w)
        PROVE  AckInv'
    <3>1. Leave(w) /\ UNCHANGED <<ledger, acked>>
      BY <2>4 DEF ReadPartitionFails, ConnectToCountFails, CountRowsFails, Interrupt, historyVars
    <3> QED
      BY <1>2, <3>1, EndKeepsAcks
  <2>5. ASSUME NEW w \in Writers, ReturnZero(w) \/ CountRows(w) PROVE AckInv'
    <3>1. /\ Leave(w) /\ ledger' = ledger
          /\ todo[w] = {}
          /\ acked' = acked \cup {Key(batch[w][i]) : i \in DOMAIN batch[w]}
      BY <1>2, <2>5 DEF ReturnZero, CountRows, AckInv, CountedWhenDone
    <3> QED
      BY <1>2, <3>1, EndKeepsAcks
  <2>6. ASSUME NEW r \in Readers,
               FetchFromEmptyStore(r) \/ ConnectForHistory(r) \/ ReaderStep(r) \/ InterruptReader(r)
        PROVE  AckInv'
    <3>1. UNCHANGED ackVars
      BY <2>6 DEF ReaderStep, FetchFromEmptyStore, ConnectForHistory,
         QueryHistory, ConnectForBasis, ConnectForBasisFails,
         QueryBasis, QueryFails, InterruptReader,
         ackVars, writerVars, historyVars
    <3> QED
      BY <1>2, <3>1, AckUntouched
  <2>7. ASSUME NextDay \/ UNCHANGED vars PROVE AckInv'
    <3>1. UNCHANGED ackVars
      BY <2>7 DEF NextDay, vars, ackVars, writerVars, historyVars
    <3> QED
      BY <1>2, <3>1, AckUntouched
  <2> QED
    BY <1>2, <2>1, <2>2, <2>3, <2>4, <2>5, <2>6, <2>7 DEF Next, WriterStep
<1> QED
  BY <1>1, <1>2, TypeCorrect, PTL DEF Spec

\* Whatever an append reported as stored is on disk, unless its partition is
\* torn or its rewrite was overlapped.
THEOREM AcknowledgedRowsStay == Spec => []AckedRowsStored
<1>1. TypeOK /\ StoreInv /\ AckInv => AckedRowsStored
  <2> SUFFICES ASSUME TypeOK, StoreInv, AckInv, NEW k \in acked,
                      YearOf[k[2]] \notin raced, health[YearOf[k[2]]] # "torn"
               PROVE  health[YearOf[k[2]]] = "ok" /\ k \in Keys(rows[YearOf[k[2]]])
    BY DEF AckedRowsStored
  <2>1. YearOf[k[2]] \in Years
    BY YearsTyped DEF TypeOK
  <2>2. k \in Keys(ledger[YearOf[k[2]]])
    BY DEF AckInv, AckedInLedger
  <2>3. health[YearOf[k[2]]] # "absent"
    BY <2>1, <2>2 DEF StoreInv, NoLostUpdate, Keys
  <2>4. health[YearOf[k[2]]] = "ok"
    BY <2>1, <2>3 DEF TypeOK
  <2> QED
    BY <2>1, <2>2, <2>4 DEF StoreInv, NoLostUpdate
<1> QED
  BY <1>1, TypeCorrect, StoreInvHolds, AckInvHolds, PTL

\* A history shows NSE's row for every session acknowledged before it was read,
\* whatever bootstrap rows came before or after.
THEOREM NseStays == Spec => AckedSessionsShown
<1> DEFINE Shown == \A r \in Readers : QueryHistory(r) =>
                      \A k \in acked :
                          /\ k[1] = want[r].sym
                          /\ Within(k[2], want[r].cutoff)
                          /\ k[3] = "NSE"
                          /\ YearOf[k[2]] \notin raced
                          => \E a \in series'[r] : a.date = k[2] /\ a.src = "NSE"
<1>1. ASSUME TypeOK, AckedRowsStored PROVE Shown
  <2> SUFFICES ASSUME NEW r \in Readers, QueryHistory(r), NEW k \in acked,
                      k[1] = want[r].sym, Within(k[2], want[r].cutoff), k[3] = "NSE",
                      YearOf[k[2]] \notin raced
               PROVE  \E a \in series'[r] : a.date = k[2] /\ a.src = "NSE"
    OBVIOUS
  <2>1. YearOf[k[2]] \in Years
    BY <1>1, YearsTyped DEF TypeOK
  <2>2. k \in Keys(rows[YearOf[k[2]]])
    BY <1>1, <2>1 DEF AckedRowsStored, QueryHistory
  <2>3. PICK a \in rows[YearOf[k[2]]] : Key(a) = k
    BY <2>2 DEF Keys
  <2>4. a.sym = k[1] /\ a.date = k[2] /\ a.src = k[3]
    BY <2>3 DEF Key
  <2>5. a \in EffectiveRows(AllRows, want[r].sym, want[r].cutoff)
    BY <2>1, <2>3, <2>4 DEF EffectiveRows, AllRows
  <2>6. series'[r] = EffectiveRows(AllRows, want[r].sym, want[r].cutoff)
    BY <1>1 DEF TypeOK, QueryHistory
  <2> QED
    BY <2>4, <2>5, <2>6
<1>2. ASSUME TypeOK, AckedRowsStored PROVE [Shown]_vars
  BY <1>1, <1>2
<1> QED
  BY <1>2, TypeCorrect, AcknowledgedRowsStay, PTL DEF Spec, AckedSessionsShown

\* A batch whose rows are all after a date neither adds nor drops a row up to it.
LEMMA UpsertLeavesEarlier ==
    ASSUME NEW R \in SUBSET Row, NEW b \in Seq(Row), NEW y, NEW c \in Dates,
           \A i \in DOMAIN b : b[i].date > c,
           NEW r, r \in R \/ r \in Upsert(R, b, y), r.date <= c
    PROVE  r \in R /\ r \in Upsert(R, b, y)
<1>1. \A i \in InYear(b, y) : b[i].date # r.date
  <2> SUFFICES ASSUME NEW i \in InYear(b, y) PROVE b[i].date # r.date
    OBVIOUS
  <2>1. b[i].date > c /\ b[i] \in Row
    BY DEF InYear
  <2>2. b[i].date \in Int /\ c \in Int
    BY <2>1, DatesAssumption DEF Row, Dates
  <2> QED
    BY <2>1, <2>2
<1>2. \A i \in InYear(b, y) : Key(b[i]) # Key(r) /\ b[i] # r
  BY <1>1 DEF Key
<1>3. r \in R
  BY <1>2 DEF Upsert
<1> QED
  BY <1>2, <1>3 DEF Upsert

\* Ingesting later sessions never changes a replay: a rewrite that lands rows
\* after a cutoff leaves what every symbol shows as of it.
THEOREM ReplaysKeepTheirHistory == Spec => ReplayIgnoresLaterSessions
<1> DEFINE Kept == \A w \in Writers, s \in Symbols, c \in Dates :
                      /\ ClosePartition(w)
                      /\ \A i \in DOMAIN batch[w] : batch[w][i].date > c
                      /\ health'[cur[w]] = "ok"
                      => EffectiveRows(rows'[cur[w]], s, c) = EffectiveRows(base[w], s, c)
<1>1. ASSUME TypeOK PROVE Kept
  <2> SUFFICES ASSUME NEW w \in Writers, NEW s \in Symbols, NEW c \in Dates,
                      ClosePartition(w),
                      \A i \in DOMAIN batch[w] : batch[w][i].date > c,
                      health'[cur[w]] = "ok"
               PROVE  EffectiveRows(rows'[cur[w]], s, c) = EffectiveRows(base[w], s, c)
    OBVIOUS
  <2> DEFINE new == Upsert(base[w], batch[w], cur[w])
  <2>1. cur[w] \in Years /\ base[w] \in SUBSET Row /\ batch[w] \in Seq(Row)
    BY <1>1 DEF TypeOK
  <2>2. rows'[cur[w]] = new
    BY <1>1, <2>1 DEF TypeOK, ClosePartition
  <2>3. \A d : Within(d, c) <=> d <= c
    BY DatesAssumption DEF Within, None, Dates
  <2>4. \A r : r.date <= c => (r \in base[w] <=> r \in new)
    BY <2>1, UpsertLeavesEarlier
  <2>5. \A r : r \in EffectiveRows(new, s, c) <=> r \in EffectiveRows(base[w], s, c)
    <3> SUFFICES ASSUME NEW r, r.date <= c
                 PROVE  r \in EffectiveRows(new, s, c) <=> r \in EffectiveRows(base[w], s, c)
      BY <2>3 DEF EffectiveRows
    <3> HIDE DEF new
    <3>1. \A q : q.date = r.date => (q \in base[w] <=> q \in new)
      BY <2>4
    <3> QED
      BY <2>4, <3>1 DEF EffectiveRows
  <2> QED
    BY <2>2, <2>5 DEF EffectiveRows
<1>2. ASSUME TypeOK PROVE [Kept]_vars
  BY <1>1, <1>2
<1> QED
  BY <1>2, TypeCorrect, PTL DEF Spec, ReplayIgnoresLaterSessions

-------------------------------------------------------------------------------
(* Fetches. *)

\* NSE preferred, one row per key and partition: one row per trade date.
LEMMA EffectiveOnePerDate ==
    ASSUME TypeOK, PartitionsWellFormed, NEW s, NEW c,
           NEW a \in EffectiveRows(AllRows, s, c), NEW b \in EffectiveRows(AllRows, s, c),
           a.date = b.date
    PROVE  a = b
<1>1. /\ a \in AllRows /\ b \in AllRows /\ a.sym = s /\ b.sym = s
      /\ a.src = "NSE" \/ ~ \E q \in AllRows : q.sym = s /\ q.date = a.date /\ q.src = "NSE"
      /\ b.src = "NSE" \/ ~ \E q \in AllRows : q.sym = s /\ q.date = b.date /\ q.src = "NSE"
  BY DEF EffectiveRows
<1>2. a.src \in Sources /\ b.src \in Sources
  BY <1>1, AllRowsTyped DEF Row
<1>3. a.src = b.src
  BY <1>1, <1>2 DEF Sources
<1>4. Key(a) = Key(b)
  BY <1>1, <1>3 DEF Key
<1>5. PICK y \in Years : a \in rows[y]
  BY <1>1 DEF AllRows
<1>6. PICK z \in Years : b \in rows[z]
  BY <1>1 DEF AllRows
<1>7. y = YearOf[a.date] /\ z = YearOf[b.date]
  BY <1>5, <1>6 DEF PartitionsWellFormed
<1> QED
  BY <1>4, <1>5, <1>6, <1>7 DEF PartitionsWellFormed, UniqueKeys

\* Until a partition is rewritten, what the second query can see is what the
\* first one returned.
SeriesCurrent ==
    \A r \in Readers :
        /\ r \notin moved
        /\ rpc[r] \in {"between", "basis"}
        /\ \A y \in Years : health[y] # "torn"
        => series[r] = EffectiveRows(AllRows, want[r].sym, want[r].cutoff)

FetchInv == FetchedSeriesSound /\ SeriesCurrent /\ BasisDescribesSeries

fetchVars == <<rows, health, rpc, want, series, basis, outcome, moved>>

LEMMA FetchUntouched ==
    ASSUME FetchInv, UNCHANGED fetchVars PROVE FetchInv'
  BY DEF FetchInv, fetchVars, FetchedSeriesSound, SeriesCurrent, BasisDescribesSeries, AllRows

\* A step that leaves the files alone, and the readers other than r; r starts
\* over or gives up.
LEMMA ReaderQuiet ==
    ASSUME TypeOK, FetchInv, NEW r \in Readers,
           UNCHANGED <<rows, health>>,
           \A q \in Readers \ {r} : /\ rpc'[q] = rpc[q] /\ want'[q] = want[q]
                                    /\ series'[q] = series[q] /\ basis'[q] = basis[q]
                                    /\ outcome'[q] = outcome[q]
                                    /\ q \in moved' <=> q \in moved,
           series'[r] = {} \/ (series'[r] = series[r] /\ want'[r] = want[r]),
           rpc'[r] \in {"idle", "history"},
           outcome'[r] # "fetched"
    PROVE  FetchInv'
<1>1. FetchedSeriesSound'
  BY DEF FetchInv, FetchedSeriesSound
<1>2. SeriesCurrent'
  <2>1. AllRows' = AllRows
    BY DEF AllRows
  <2> QED
    BY <2>1 DEF FetchInv, SeriesCurrent
<1>3. BasisDescribesSeries'
  BY DEF FetchInv, BasisDescribesSeries
<1> QED
  BY <1>1, <1>2, <1>3 DEF FetchInv

LEMMA QueryHistoryKeeps ==
    ASSUME TypeOK, PartitionsWellFormed, FetchInv, NEW r \in Readers, QueryHistory(r)
    PROVE  FetchInv'
<1> DEFINE found == EffectiveRows(AllRows, want[r].sym, want[r].cutoff)
<1>1. /\ UNCHANGED <<rows, health, want, basis, moved>>
      /\ series'[r] = found /\ outcome'[r] # "fetched"
      /\ \A q \in Readers \ {r} : /\ rpc'[q] = rpc[q] /\ series'[q] = series[q]
                                  /\ outcome'[q] = outcome[q]
  BY DEF QueryHistory, TypeOK, fileVars, historyVars
<1>2. AllRows' = AllRows
  BY <1>1 DEF AllRows
<1>3. FetchedSeriesSound'
  <2>1. \A a, b \in found : a.date = b.date => a = b
    BY EffectiveOnePerDate
  <2>2. \A a \in found : a.sym = want[r].sym /\ Within(a.date, want[r].cutoff)
    BY DEF EffectiveRows
  <2> QED
    BY <1>1, <2>1, <2>2 DEF FetchInv, FetchedSeriesSound
<1>4. SeriesCurrent'
  BY <1>1, <1>2 DEF FetchInv, SeriesCurrent
<1>5. BasisDescribesSeries'
  BY <1>1 DEF FetchInv, BasisDescribesSeries
<1> QED
  BY <1>3, <1>4, <1>5 DEF FetchInv

LEMMA QueryBasisKeeps ==
    ASSUME TypeOK, FetchInv, NEW r \in Readers, QueryBasis(r)
    PROVE  FetchInv'
<1>1. /\ UNCHANGED <<rows, health, want, series, moved>>
      /\ rpc[r] = "basis" /\ rpc'[r] = "idle"
      /\ \A y \in Years : health[y] # "torn"
      /\ basis'[r] = Basis(EffectiveRows(AllRows, want[r].sym, want[r].cutoff))
      /\ \A q \in Readers \ {r} : /\ rpc'[q] = rpc[q] /\ basis'[q] = basis[q]
                                  /\ outcome'[q] = outcome[q]
  BY DEF QueryBasis, TypeOK, fileVars, historyVars
<1>2. FetchedSeriesSound'
  BY <1>1 DEF FetchInv, FetchedSeriesSound
<1>3. SeriesCurrent'
  <2>1. AllRows' = AllRows
    BY <1>1 DEF AllRows
  <2> QED
    BY <1>1, <2>1 DEF FetchInv, SeriesCurrent
<1>4. BasisDescribesSeries'
  BY <1>1 DEF FetchInv, BasisDescribesSeries, SeriesCurrent
<1> QED
  BY <1>2, <1>3, <1>4 DEF FetchInv

\* A writer's step: the files as they were, torn, or rewritten under the reader.
LEMMA FilesChangeKeeps ==
    ASSUME FetchInv, UNCHANGED readerVars,
           \/ UNCHANGED <<rows, health, moved>>
           \/ UNCHANGED moved /\ \E y \in Years : health'[y] = "torn"
           \/ moved' = moved \cup {r \in Readers : rpc[r] \in {"between", "basis"}}
    PROVE  FetchInv'
<1>1. FetchedSeriesSound'
  BY DEF FetchInv, FetchedSeriesSound, readerVars
<1>2. SeriesCurrent'
  <2>1. CASE UNCHANGED <<rows, health, moved>>
    BY <2>1 DEF FetchInv, SeriesCurrent, AllRows, readerVars
  <2>2. CASE UNCHANGED moved /\ \E y \in Years : health'[y] = "torn"
    BY <2>2 DEF SeriesCurrent
  <2>3. CASE moved' = moved \cup {r \in Readers : rpc[r] \in {"between", "basis"}}
    BY <2>3 DEF SeriesCurrent, readerVars
  <2> QED
    BY <2>1, <2>2, <2>3
<1>3. BasisDescribesSeries'
  BY DEF FetchInv, BasisDescribesSeries, readerVars
<1> QED
  BY <1>1, <1>2, <1>3 DEF FetchInv

LEMMA FetchInvHolds == Spec => []FetchInv
<1>1. Init => FetchInv
  BY DEF Init, FetchInv, FetchedSeriesSound, SeriesCurrent, BasisDescribesSeries
<1>2. ASSUME TypeOK, PartitionsWellFormed, FetchInv, [Next]_vars PROVE FetchInv'
  <2>1. ASSUME NEW w \in Writers, Begin(w) \/ WriterStep(w) \/ Interrupt(w) PROVE FetchInv'
    <3>1. CASE Begin(w)
      BY <1>2, <3>1, FilesChangeKeeps DEF Begin, fileVars, historyVars
    <3>2. CASE ReadPartition(w)
      BY <1>2, <3>2, FilesChangeKeeps DEF ReadPartition, fileVars, historyVars
    <3>3. CASE ReadPartitionFails(w)
      BY <1>2, <3>3, FilesChangeKeeps DEF ReadPartitionFails, fileVars, historyVars
    <3>4. CASE OpenPartition(w)
      <4>1. cur[w] \in Years /\ health'[cur[w]] = "torn"
        BY <1>2, <3>4 DEF OpenPartition, TypeOK
      <4> QED
        BY <1>2, <3>4, <4>1, FilesChangeKeeps DEF OpenPartition
    <3>5. CASE ClosePartition(w)
      BY <1>2, <3>5, FilesChangeKeeps DEF ClosePartition
    <3>6. CASE ReturnZero(w)
      BY <1>2, <3>6, FilesChangeKeeps DEF ReturnZero, fileVars
    <3>7. CASE ConnectToCount(w)
      BY <1>2, <3>7, FilesChangeKeeps DEF ConnectToCount, fileVars, historyVars
    <3>8. CASE ConnectToCountFails(w)
      BY <1>2, <3>8, FilesChangeKeeps DEF ConnectToCountFails, fileVars, historyVars
    <3>9. CASE CountRows(w)
      BY <1>2, <3>9, FilesChangeKeeps DEF CountRows, fileVars
    <3>10. CASE CountRowsFails(w)
      BY <1>2, <3>10, FilesChangeKeeps DEF CountRowsFails, fileVars, historyVars
    <3>11. CASE Interrupt(w)
      <4>1. UNCHANGED moved /\ UNCHANGED readerVars
        BY <3>11 DEF Interrupt, historyVars
      <4>2. UNCHANGED fileVars \/ \E y \in Years : health'[y] = "torn"
        <5>1. CASE health' = [health EXCEPT ![cur[w]] = "torn"]
          <6>1. cur[w] \in Years /\ health'[cur[w]] = "torn"
            BY <1>2, <5>1 DEF TypeOK
          <6> QED
            BY <6>1
        <5> QED
          BY <3>11, <5>1 DEF Interrupt
      <4> QED
        BY <1>2, <4>1, <4>2, FilesChangeKeeps DEF fileVars
    <3> QED
      BY <2>1, <3>1, <3>2, <3>3, <3>4, <3>5, <3>6, <3>7, <3>8, <3>9, <3>10, <3>11 DEF WriterStep
  <2>2. ASSUME NEW r \in Readers,
               \/ FetchFromEmptyStore(r) \/ ConnectForHistory(r) \/ QueryFails(r)
               \/ ConnectForBasisFails(r)
        PROVE  FetchInv'
    <3>1. /\ UNCHANGED <<rows, health>>
          /\ \A q \in Readers \ {r} : /\ rpc'[q] = rpc[q] /\ want'[q] = want[q]
                                      /\ series'[q] = series[q] /\ basis'[q] = basis[q]
                                      /\ outcome'[q] = outcome[q]
                                      /\ q \in moved' <=> q \in moved
          /\ series'[r] = {} \/ (series'[r] = series[r] /\ want'[r] = want[r])
          /\ rpc'[r] \in {"idle", "history"}
          /\ outcome'[r] # "fetched"
      <4>1. CASE FetchFromEmptyStore(r)
        <5>1. /\ UNCHANGED <<rows, health>>
              /\ rpc[r] = "idle"
              /\ \E v : want' = [want EXCEPT ![r] = v]
              /\ series' = [series EXCEPT ![r] = {}]
              /\ basis' = [basis EXCEPT ![r] = "none"]
              /\ outcome' = [outcome EXCEPT ![r] = "no_data"]
              /\ moved' = moved
              /\ rpc' = rpc
          BY <4>1 DEF FetchFromEmptyStore, fileVars, historyVars
        <5>2. PICK v : want' = [want EXCEPT ![r] = v]
          BY <5>1
        <5>3. \A q \in Readers \ {r} : rpc'[q] = rpc[q] /\ want'[q] = want[q] /\ series'[q] = series[q]
          BY <1>2, <5>1, <5>2 DEF TypeOK
        <5>4. \A q \in Readers \ {r} : basis'[q] = basis[q] /\ outcome'[q] = outcome[q]
          BY <1>2, <5>1 DEF TypeOK
        <5>5. \A q \in Readers \ {r} : q \in moved' <=> q \in moved
          BY <5>1
        <5>6. series'[r] = {} /\ rpc'[r] \in {"idle", "history"} /\ outcome'[r] # "fetched"
          BY <1>2, <5>1 DEF TypeOK
        <5> QED
          BY <5>1, <5>3, <5>4, <5>5, <5>6
      <4>2. CASE ConnectForHistory(r)
        <5>1. /\ UNCHANGED <<rows, health>>
              /\ rpc[r] = "idle"
              /\ \E v : want' = [want EXCEPT ![r] = v]
              /\ series' = [series EXCEPT ![r] = {}]
              /\ basis' = [basis EXCEPT ![r] = "none"]
              /\ \E o \in {"none", "error"} : outcome' = [outcome EXCEPT ![r] = o]
              /\ moved' = moved \ {r}
              /\ rpc' = rpc \/ rpc' = [rpc EXCEPT ![r] = "history"]
          BY <4>2 DEF ConnectForHistory, fileVars
        <5>2. PICK v : want' = [want EXCEPT ![r] = v]
          BY <5>1
        <5>3. \A q \in Readers \ {r} : rpc'[q] = rpc[q] /\ want'[q] = want[q] /\ series'[q] = series[q]
          BY <1>2, <5>1, <5>2 DEF TypeOK
        <5>4. \A q \in Readers \ {r} : basis'[q] = basis[q] /\ outcome'[q] = outcome[q]
          BY <1>2, <5>1 DEF TypeOK
        <5>5. \A q \in Readers \ {r} : q \in moved' <=> q \in moved
          BY <5>1
        <5>6. series'[r] = {} /\ rpc'[r] \in {"idle", "history"} /\ outcome'[r] # "fetched"
          BY <1>2, <5>1 DEF TypeOK
        <5> QED
          BY <5>1, <5>3, <5>4, <5>5, <5>6
      <4>3. CASE QueryFails(r)
        BY <1>2, <4>3 DEF TypeOK, QueryFails, fileVars, historyVars
      <4>4. CASE ConnectForBasisFails(r)
        BY <1>2, <4>4 DEF TypeOK, ConnectForBasisFails, fileVars, historyVars
      <4> QED
        BY <2>2, <4>1, <4>2, <4>3, <4>4
    <3> QED
      BY <1>2, <3>1, ReaderQuiet
  <2>3. ASSUME NEW r \in Readers, QueryHistory(r) PROVE FetchInv'
    BY <1>2, <2>3, QueryHistoryKeeps
  <2>4. ASSUME NEW r \in Readers, QueryBasis(r) PROVE FetchInv'
    BY <1>2, <2>4, QueryBasisKeeps
  <2>5. ASSUME NEW r \in Readers, ConnectForBasis(r) \/ InterruptReader(r) PROVE FetchInv'
    <3>1. /\ UNCHANGED <<rows, health, want, series, basis, outcome, moved>>
          /\ \A q \in Readers : rpc'[q] \in {"between", "basis"} => rpc[q] \in {"between", "basis"}
      BY <1>2, <2>5 DEF TypeOK, ConnectForBasis, InterruptReader, fileVars, historyVars
    <3>2. FetchedSeriesSound' /\ BasisDescribesSeries'
      BY <1>2, <3>1 DEF FetchInv, FetchedSeriesSound, BasisDescribesSeries
    <3>3. SeriesCurrent'
      BY <1>2, <3>1 DEF FetchInv, SeriesCurrent, AllRows
    <3> QED
      BY <3>2, <3>3 DEF FetchInv
  <2>6. ASSUME NextDay \/ UNCHANGED vars PROVE FetchInv'
    <3>1. UNCHANGED fetchVars
      BY <2>6 DEF NextDay, vars, fetchVars, fileVars, readerVars, historyVars
    <3> QED
      BY <1>2, <3>1, FetchUntouched
  <2> QED
    BY <1>2, <2>1, <2>2, <2>3, <2>4, <2>5, <2>6 DEF Next, ReaderStep
<1> QED
  BY <1>1, <1>2, TypeCorrect, WellFormedPartitions, PTL DEF Spec

\* A returned history never looks past its cutoff, is the symbol's alone, and
\* has one row per trade date.
THEOREM FetchesSound == Spec => []FetchedSeriesSound
  BY FetchInvHolds, PTL DEF FetchInv

\* The reported basis is that of the returned series unless a partition was
\* rewritten between the two queries.
THEOREM BasisAccurate == Spec => []BasisDescribesSeries
  BY FetchInvHolds, PTL DEF FetchInv

-------------------------------------------------------------------------------
(* One program at a time: a store with a single writer implements EodLedger. *)

OneWriter == \A v, w \in Writers : v = w

\* What one writer can rely on: the copy it merges into is the file as it
\* stands, the file it opened is its own, and a readable file has rows.
SerialInv ==
    /\ \A w \in Writers :
          /\ pc[w] \in {"next", "merge", "open"} => todo[w] \subseteq YearsOf(batch[w])
          /\ pc[w] \in {"merge", "open"} => cur[w] \in todo[w]
          /\ pc[w] = "merge" => health[cur[w]] # "torn" /\ base[w] = rows[cur[w]]
          /\ pc[w] = "open" => health[cur[w]] = "torn"
    /\ \A y \in Years : health[y] = "ok" => rows[y] # {}
    /\ clash = {}

\* A merge of a frame into a year it touches leaves rows.
LEMMA UpsertNotEmpty ==
    ASSUME NEW R, NEW b \in Seq(Row), NEW y \in YearsOf(b)
    PROVE  Upsert(R, b, y) # {}
<1>1. PICK i \in DOMAIN b : YearOf[b[i].date] = y
  BY DEF YearsOf
<1>2. Key(b[i]) \in Keys(Upsert(R, b, y))
  BY <1>1, UpsertKeepsKeys DEF InYear
<1> QED
  BY <1>2 DEF Keys

\* A step that leaves the files alone and after which the writer has none.
LEMMA SerialQuiet ==
    ASSUME OneWriter, SerialInv, NEW w \in Writers,
           UNCHANGED <<health, rows, clash>>, pc'[w] \in {"idle", "count"}
    PROVE  SerialInv'
  BY DEF OneWriter, SerialInv

LEMMA SerialInvHolds == ASSUME OneWriter PROVE Spec => []SerialInv
<1>1. Init => SerialInv
  BY DEF Init, SerialInv
<1>2. ASSUME TypeOK, StoreInv, SerialInv, [Next]_vars PROVE SerialInv'
  <2>1. ASSUME NEW w \in Writers, Begin(w) PROVE SerialInv'
    <3>1. PICK b \in Batches(today) : /\ batch' = [batch EXCEPT ![w] = b]
                                      /\ todo' = [todo EXCEPT ![w] = YearsOf(b)]
      BY <2>1 DEF Begin
    <3>2. /\ batch'[w] = b /\ todo'[w] = YearsOf(b) /\ pc'[w] = "next"
          /\ UNCHANGED <<health, rows, clash>>
      BY <1>2, <2>1, <3>1 DEF TypeOK, Begin, fileVars, historyVars
    <3> QED
      BY <1>2, <3>2 DEF OneWriter, SerialInv
  <2>2. ASSUME NEW w \in Writers, ReadPartition(w) PROVE SerialInv'
    <3>1. PICK y \in todo[w] : /\ health[y] # "torn"
                               /\ cur' = [cur EXCEPT ![w] = y]
                               /\ base' = [base EXCEPT ![w] = rows[y]]
      BY <2>2 DEF ReadPartition
    <3>2. /\ pc[w] = "next" /\ pc'[w] = "merge" /\ cur'[w] = y /\ base'[w] = rows[y]
          /\ UNCHANGED <<health, rows, clash, batch, todo>>
      BY <1>2, <2>2, <3>1 DEF TypeOK, ReadPartition, fileVars, historyVars
    <3> QED
      BY <1>2, <3>1, <3>2 DEF OneWriter, SerialInv
  <2>3. ASSUME NEW w \in Writers,
               ReadPartitionFails(w) \/ ReturnZero(w) \/ ConnectToCountFails(w)
                  \/ CountRows(w) \/ CountRowsFails(w)
        PROVE  SerialInv'
    <3>1. UNCHANGED <<health, rows, clash>> /\ pc'[w] = "idle"
      BY <1>2, <2>3 DEF TypeOK, ReadPartitionFails, ReturnZero, ConnectToCountFails, CountRows,
         CountRowsFails, Leave, fileVars, historyVars
    <3> QED
      BY <1>2, <3>1, SerialQuiet
  <2>4. ASSUME NEW w \in Writers, ConnectToCount(w) PROVE SerialInv'
    <3>1. UNCHANGED <<health, rows, clash>> /\ pc'[w] = "count"
      BY <1>2, <2>4 DEF TypeOK, ConnectToCount, fileVars, historyVars
    <3> QED
      BY <1>2, <3>1, SerialQuiet
  <2>5. ASSUME NEW w \in Writers, OpenPartition(w) PROVE SerialInv'
    <3>1. ~ \E v \in Writers : pc[v] = "open" /\ cur[v] = cur[w]
      BY <2>5 DEF OneWriter, OpenPartition
    <3>2. clash' = {}
      BY <1>2, <2>5, <3>1 DEF SerialInv, OpenPartition
    <3>3. /\ pc[w] = "merge" /\ pc'[w] = "open" /\ UNCHANGED <<batch, todo, cur>>
          /\ health'[cur[w]] = "torn"
          /\ \A y \in Years \ {cur[w]} : health'[y] = health[y] /\ rows'[y] = rows[y]
      BY <1>2, <2>5 DEF TypeOK, OpenPartition
    <3> QED
      BY <1>2, <3>2, <3>3 DEF OneWriter, SerialInv
  <2>6. ASSUME NEW w \in Writers, ClosePartition(w) PROVE SerialInv'
    <3>1. /\ health' = [health EXCEPT ![cur[w]] = "ok"]
          /\ rows' = [rows EXCEPT ![cur[w]] = Upsert(base[w], batch[w], cur[w])]
      BY <1>2, <2>6 DEF SerialInv, ClosePartition
    <3>2. pc[w] = "open" /\ cur[w] \in YearsOf(batch[w]) /\ batch[w] \in Seq(Row)
      BY <1>2, <2>6 DEF TypeOK, SerialInv, ClosePartition
    <3>3. Upsert(base[w], batch[w], cur[w]) # {}
      BY <3>2, UpsertNotEmpty
    <3>4. /\ pc'[w] = "next" /\ batch' = batch /\ clash' = clash
          /\ todo'[w] \subseteq todo[w]
      BY <1>2, <2>6 DEF TypeOK, ClosePartition
    <3>5. \A y \in Years : health'[y] = "ok" => rows'[y] # {}
      BY <1>2, <3>1, <3>3 DEF TypeOK, SerialInv
    <3> QED
      BY <1>2, <3>2, <3>4, <3>5 DEF OneWriter, SerialInv
  <2>7. ASSUME NEW w \in Writers, Interrupt(w) PROVE SerialInv'
    <3>1. pc'[w] = "idle" /\ clash' = clash
      BY <1>2, <2>7 DEF TypeOK, Interrupt, Leave, historyVars
    <3>2. \A y \in Years : health'[y] = "ok" => health[y] = "ok" /\ rows'[y] = rows[y]
      BY <1>2, <2>7 DEF TypeOK, Interrupt, fileVars
    <3> QED
      BY <1>2, <3>1, <3>2 DEF OneWriter, SerialInv
  <2>8. ASSUME NEW r \in Readers,
               FetchFromEmptyStore(r) \/ ConnectForHistory(r) \/ ReaderStep(r) \/ InterruptReader(r)
        PROVE  SerialInv'
    <3>1. UNCHANGED <<health, rows, clash, pc, batch, todo, cur, base>>
      BY <2>8 DEF ReaderStep, FetchFromEmptyStore, ConnectForHistory, QueryHistory,
         ConnectForBasis, ConnectForBasisFails, QueryBasis, QueryFails, InterruptReader,
         fileVars, writerVars, historyVars
    <3> QED
      BY <1>2, <3>1 DEF SerialInv
  <2>9. ASSUME NextDay \/ UNCHANGED vars PROVE SerialInv'
    <3>1. UNCHANGED <<health, rows, clash, pc, batch, todo, cur, base>>
      BY <2>9 DEF NextDay, vars, fileVars, writerVars, historyVars
    <3> QED
      BY <1>2, <3>1 DEF SerialInv
  <2> QED
    BY <1>2, <2>1, <2>2, <2>3, <2>4, <2>5, <2>6, <2>7, <2>8, <2>9 DEF Next, WriterStep
<1> QED
  BY <1>1, <1>2, TypeCorrect, StoreInvHolds, PTL DEF Spec

-------------------------------------------------------------------------------
(* The mapping, year by year, before and after a step. *)

LEMMA MappingTyped ==
    ASSUME TypeOK
    PROVE  Book \in [Years -> SUBSET Row] /\ Standing \in [Years -> {"empty", "published", "lost"}]
<1>1. ASSUME NEW y \in Years, OpenAt(y) # {}
      PROVE  base[CHOOSE w \in OpenAt(y) : TRUE] \in SUBSET Row
  <2>1. (CHOOSE w \in OpenAt(y) : TRUE) \in Writers
    BY <1>1 DEF OpenAt
  <2> QED
    BY <2>1 DEF TypeOK
<1>2. \A y \in Years : rows[y] \in SUBSET Row /\ health[y] \in {"absent", "ok", "torn"}
  BY DEF TypeOK
<1> QED
  BY <1>1, <1>2 DEF Book, Standing

LEMMA MappingTypedNext ==
    ASSUME TypeOK'
    PROVE  Book' \in [Years -> SUBSET Row] /\ Standing' \in [Years -> {"empty", "published", "lost"}]
<1>1. ASSUME NEW y \in Years, OpenAt(y)' # {}
      PROVE  base'[CHOOSE w \in OpenAt(y)' : TRUE] \in SUBSET Row
  <2>1. (CHOOSE w \in OpenAt(y)' : TRUE) \in Writers
    BY <1>1 DEF OpenAt
  <2> QED
    BY <2>1 DEF TypeOK
<1>2. \A y \in Years : rows'[y] \in SUBSET Row /\ health'[y] \in {"absent", "ok", "torn"}
  BY DEF TypeOK
<1> QED
  BY <1>1, <1>2 DEF Book, Standing

LEMMA MappingOpen ==
    ASSUME OneWriter, NEW w \in Writers, NEW y \in Years, pc[w] = "open", cur[w] = y
    PROVE  /\ Book[y] = base[w]
           /\ Standing[y] = IF base[w] = {} THEN "empty" ELSE "published"
<1>1. OpenAt(y) = {w}
  BY DEF OpenAt, OneWriter
<1>2. Book[y] = base[w]
  BY <1>1 DEF Book
<1> QED
  BY <1>1, <1>2 DEF Standing

LEMMA MappingOpenNext ==
    ASSUME OneWriter, NEW w \in Writers, NEW y \in Years, pc'[w] = "open", cur'[w] = y
    PROVE  /\ Book'[y] = base'[w]
           /\ Standing'[y] = IF base'[w] = {} THEN "empty" ELSE "published"
<1>1. OpenAt(y)' = {w}
  BY DEF OpenAt, OneWriter
<1>2. Book'[y] = base'[w]
  BY <1>1 DEF Book
<1> QED
  BY <1>1, <1>2 DEF Standing

StandingOf(h) == CASE h = "absent" -> "empty" [] h = "ok" -> "published" [] h = "torn" -> "lost"

LEMMA MappingClosed ==
    ASSUME NEW y \in Years, \A w \in Writers : ~ (pc[w] = "open" /\ cur[w] = y)
    PROVE  Book[y] = rows[y] /\ Standing[y] = StandingOf(health[y])
<1>1. OpenAt(y) = {}
  BY DEF OpenAt
<1> QED
  BY <1>1 DEF Book, Standing, StandingOf

LEMMA MappingClosedNext ==
    ASSUME NEW y \in Years, \A w \in Writers : ~ (pc'[w] = "open" /\ cur'[w] = y)
    PROVE  Book'[y] = rows'[y] /\ Standing'[y] = StandingOf(health'[y])
<1>1. OpenAt(y)' = {}
  BY DEF OpenAt
<1> QED
  BY <1>1 DEF Book, Standing, StandingOf

\* The mapping is a matter of the files, and of the writer's copy while it has
\* one of them open.
LEMMA MappingUnchanged ==
    ASSUME TypeOK, TypeOK', UNCHANGED <<health, rows>>,
           \/ UNCHANGED <<pc, cur, base>>
           \/ \A w \in Writers : pc[w] # "open" /\ pc'[w] # "open"
    PROVE  Book' = Book /\ Standing' = Standing
<1>1. ASSUME NEW y \in Years PROVE Book'[y] = Book[y] /\ Standing'[y] = Standing[y]
  <2>1. CASE UNCHANGED <<pc, cur, base>>
    BY <2>1 DEF Book, Standing, OpenAt
  <2>2. CASE \A w \in Writers : pc[w] # "open" /\ pc'[w] # "open"
    BY <2>2, MappingClosed, MappingClosedNext
  <2> QED
    BY <2>1, <2>2
<1> QED
  BY <1>1, MappingTyped, MappingTypedNext

-------------------------------------------------------------------------------
(* The steps that map to something. *)

\* Truncating the file is not visible yet: its book is the copy.
LEMMA OpenIsStutter ==
    ASSUME OneWriter, TypeOK, TypeOK', StoreInv, SerialInv, NEW w \in Writers, OpenPartition(w)
    PROVE  Book' = Book /\ Standing' = Standing
<1> DEFINE y == cur[w]
<1>1. /\ pc[w] = "merge" /\ pc'[w] = "open" /\ cur' = cur /\ base' = base
      /\ y \in Years
      /\ \A z \in Years \ {y} : health'[z] = health[z] /\ rows'[z] = rows[z]
  BY DEF TypeOK, OpenPartition
<1>2. ASSUME NEW z \in Years, z # y PROVE Book'[z] = Book[z] /\ Standing'[z] = Standing[z]
  <2>1. \A v \in Writers : ~ (pc[v] = "open" /\ cur[v] = z) /\ ~ (pc'[v] = "open" /\ cur'[v] = z)
    BY <1>1, <1>2 DEF OneWriter
  <2> QED
    BY <1>1, <1>2, <2>1, MappingClosed, MappingClosedNext
<1>3. Book'[y] = Book[y] /\ Standing'[y] = Standing[y]
  <2>1. \A v \in Writers : ~ (pc[v] = "open" /\ cur[v] = y)
    BY <1>1 DEF OneWriter
  <2>2. Book[y] = rows[y] /\ Standing[y] = StandingOf(health[y])
    BY <1>1, <2>1, MappingClosed
  <2>3. Book'[y] = base[w] /\ Standing'[y] = IF base[w] = {} THEN "empty" ELSE "published"
    BY <1>1, MappingOpenNext
  <2>4. base[w] = rows[y] /\ health[y] \in {"absent", "ok"}
    BY <1>1 DEF SerialInv, TypeOK
  <2>5. (health[y] = "absent" => rows[y] = {}) /\ (health[y] = "ok" => rows[y] # {})
    BY <1>1 DEF SerialInv, StoreInv, TornIsEmpty
  <2> QED
    BY <2>2, <2>3, <2>4, <2>5 DEF StandingOf
<1> QED
  BY <1>2, <1>3, MappingTyped, MappingTypedNext

\* Completing it publishes the year's book.
LEMMA CloseIsPublish ==
    ASSUME OneWriter, TypeOK, TypeOK', StoreInv', SerialInv, NEW w \in Writers, ClosePartition(w)
    PROVE  Ledger!Publish(cur[w])
<1> DEFINE y == cur[w]
<1>1. /\ pc[w] = "open" /\ pc'[w] = "next" /\ y \in Years /\ batch[w] \in Seq(Row)
      /\ rows' = [rows EXCEPT ![y] = Upsert(base[w], batch[w], y)]
      /\ health' = [health EXCEPT ![y] = "ok"]
      /\ y \in YearsOf(batch[w])
  BY DEF TypeOK, SerialInv, ClosePartition
<1>2. /\ \A z \in Years \ {y} : health'[z] = health[z] /\ rows'[z] = rows[z]
      /\ health'[y] = "ok" /\ rows'[y] = Upsert(base[w], batch[w], y)
  BY <1>1 DEF TypeOK
<1>3. ASSUME NEW z \in Years, z # y PROVE Book'[z] = Book[z] /\ Standing'[z] = Standing[z]
  <2>1. \A v \in Writers : ~ (pc[v] = "open" /\ cur[v] = z) /\ ~ (pc'[v] = "open" /\ cur'[v] = z)
    BY <1>1, <1>3 DEF OneWriter
  <2> QED
    BY <1>2, <1>3, <2>1, MappingClosed, MappingClosedNext
<1>4. Book[y] = base[w] /\ Standing[y] # "lost"
  BY <1>1, MappingOpen
<1>5. Book'[y] = rows'[y] /\ Standing'[y] = "published"
  <2>1. \A v \in Writers : ~ (pc'[v] = "open" /\ cur'[v] = y)
    BY <1>1 DEF OneWriter
  <2> QED
    BY <1>1, <1>2, <2>1, MappingClosedNext DEF StandingOf
<1>6. /\ rows'[y] # {}
      /\ Keys(base[w]) \subseteq Keys(rows'[y])
  BY <1>1, <1>2, UpsertNotEmpty, UpsertKeepsKeys
<1>7. /\ \A r \in rows'[y] : r \in Row
      /\ \A r, q \in rows'[y] : Key(r) = Key(q) => r = q
  BY <1>1 DEF TypeOK, StoreInv, PartitionsWellFormed, UniqueKeys
<1>8. /\ Book' = [Book EXCEPT ![y] = Book'[y]]
      /\ Standing' = [Standing EXCEPT ![y] = "published"]
  BY <1>1, <1>3, <1>5, MappingTyped, MappingTypedNext
<1> QED
  BY <1>4, <1>5, <1>6, <1>7, <1>8 DEF Ledger!Publish, Ledger!KeysOf, Ledger!OneRowPerKey, Keys

\* A death while the file is open loses the year, any other death nothing.
LEMMA InterruptIsLoss ==
    ASSUME OneWriter, TypeOK, TypeOK', StoreInv, SerialInv, NEW w \in Writers, Interrupt(w)
    PROVE  \/ Ledger!Lose(cur[w])
           \/ Book' = Book /\ Standing' = Standing
<1>1. pc'[w] = "idle"
  BY DEF TypeOK, Interrupt, Leave
<1>2. CASE pc[w] # "open"
  <2>1. UNCHANGED <<health, rows>>
    BY <1>2 DEF Interrupt, fileVars
  <2>2. \A v \in Writers : pc[v] # "open" /\ pc'[v] # "open"
    BY <1>1, <1>2 DEF OneWriter
  <2> QED
    BY <2>1, <2>2, MappingUnchanged
<1>3. CASE pc[w] = "open"
  <2> DEFINE y == cur[w]
  <2>1. y \in Years /\ health[y] = "torn" /\ rows[y] = {}
    BY <1>3 DEF TypeOK, SerialInv, StoreInv, TornIsEmpty
  <2>2. /\ \A z \in Years \ {y} : health'[z] = health[z] /\ rows'[z] = rows[z]
        /\ health'[y] = "torn" /\ rows'[y] = {}
    BY <2>1 DEF TypeOK, Interrupt, fileVars
  <2>3. ASSUME NEW z \in Years, z # y PROVE Book'[z] = Book[z] /\ Standing'[z] = Standing[z]
    <3>1. \A v \in Writers : ~ (pc[v] = "open" /\ cur[v] = z) /\ ~ (pc'[v] = "open" /\ cur'[v] = z)
      BY <1>1, <2>3 DEF OneWriter
    <3> QED
      BY <2>2, <2>3, <3>1, MappingClosed, MappingClosedNext
  <2>4. Standing[y] # "lost"
    BY <1>3, <2>1, MappingOpen
  <2>5. Book'[y] = {} /\ Standing'[y] = "lost"
    <3>1. \A v \in Writers : ~ (pc'[v] = "open" /\ cur'[v] = y)
      BY <1>1 DEF OneWriter
    <3> QED
      BY <2>1, <2>2, <3>1, MappingClosedNext DEF StandingOf
  <2>6. /\ Book' = [Book EXCEPT ![y] = {}]
        /\ Standing' = [Standing EXCEPT ![y] = "lost"]
    BY <2>1, <2>3, <2>5, MappingTyped, MappingTypedNext
  <2> QED
    BY <2>4, <2>6 DEF Ledger!Lose
<1> QED
  BY <1>2, <1>3

-------------------------------------------------------------------------------
\* Run one after the other, the programs keep the ledger's promises, whatever
\* dies: a year is published whole and keeps its keys, or is lost for good.
THEOREM OneWriterImplementsLedger == ASSUME OneWriter PROVE Spec => ImplementsLedger
<1>1. Init => Ledger!Init
  <2> SUFFICES ASSUME Init PROVE Ledger!Init
    OBVIOUS
  <2>1. \A y \in Years : OpenAt(y) = {} /\ health[y] = "absent" /\ rows[y] = {}
    BY DEF Init, OpenAt
  <2> QED
    BY <2>1 DEF Ledger!Init, Book, Standing
<1>2. ASSUME TypeOK, TypeOK', StoreInv, StoreInv', SerialInv, [Next]_vars
      PROVE  [Ledger!Next]_(Ledger!vars)
  <2>1. ASSUME Book' = Book, Standing' = Standing PROVE [Ledger!Next]_(Ledger!vars)
    BY <2>1 DEF Ledger!vars
  <2>2. ASSUME NEW w \in Writers, OpenPartition(w) PROVE [Ledger!Next]_(Ledger!vars)
    BY <1>2, <2>1, <2>2, OpenIsStutter
  <2>3. ASSUME NEW w \in Writers, ClosePartition(w) PROVE [Ledger!Next]_(Ledger!vars)
    <3>1. Ledger!Publish(cur[w]) /\ cur[w] \in Years
      BY <1>2, <2>3, CloseIsPublish DEF TypeOK
    <3> QED
      BY <3>1 DEF Ledger!Next
  <2>4. ASSUME NEW w \in Writers, Interrupt(w) PROVE [Ledger!Next]_(Ledger!vars)
    <3>1. cur[w] \in Years
      BY <1>2 DEF TypeOK
    <3> QED
      BY <1>2, <2>1, <2>4, <3>1, InterruptIsLoss DEF Ledger!Next
  <2>5. ASSUME NEW w \in Writers,
               Begin(w) \/ ReadPartition(w) \/ ReadPartitionFails(w) \/ ReturnZero(w)
                  \/ ConnectToCount(w) \/ ConnectToCountFails(w) \/ CountRows(w)
                  \/ CountRowsFails(w)
        PROVE  [Ledger!Next]_(Ledger!vars)
    <3>1. UNCHANGED <<health, rows>> /\ pc[w] # "open" /\ pc'[w] # "open"
      BY <1>2, <2>5 DEF TypeOK, Begin, ReadPartition, ReadPartitionFails, ReturnZero,
         ConnectToCount, ConnectToCountFails, CountRows, CountRowsFails, Leave, fileVars
    <3>2. \A v \in Writers : pc[v] # "open" /\ pc'[v] # "open"
      BY <3>1 DEF OneWriter
    <3> QED
      BY <1>2, <2>1, <3>1, <3>2, MappingUnchanged
  <2>6. ASSUME NEW r \in Readers,
               FetchFromEmptyStore(r) \/ ConnectForHistory(r) \/ ReaderStep(r) \/ InterruptReader(r)
        PROVE  [Ledger!Next]_(Ledger!vars)
    <3>1. UNCHANGED <<health, rows, pc, cur, base>>
      BY <2>6 DEF ReaderStep, FetchFromEmptyStore, ConnectForHistory, QueryHistory,
         ConnectForBasis, ConnectForBasisFails, QueryBasis, QueryFails, InterruptReader,
         fileVars, writerVars
    <3> QED
      BY <1>2, <2>1, <3>1, MappingUnchanged
  <2>7. ASSUME NextDay \/ UNCHANGED vars PROVE [Ledger!Next]_(Ledger!vars)
    <3>1. UNCHANGED <<health, rows, pc, cur, base>>
      BY <2>7 DEF NextDay, vars, fileVars, writerVars
    <3> QED
      BY <1>2, <2>1, <3>1, MappingUnchanged
  <2> QED
    BY <1>2, <2>2, <2>3, <2>4, <2>5, <2>6, <2>7 DEF Next, WriterStep
<1> QED
  BY <1>1, <1>2, TypeCorrect, StoreInvHolds, SerialInvHolds, PTL
  DEF Spec, ImplementsLedger, Ledger!Spec

===============================================================================
