---------------------------- MODULE ScanRunProofs ----------------------------
(***************************************************************************)
(* Proofs about ScanRun, for every universe, date, holiday file, set of    *)
(* price bases and threshold, and about SessionCalendar, whose session and *)
(* statuses a scan reads, for every holiday file, window, bound and length *)
(* of a year.  Each way out of the scan's loop body is a LoopStep: one     *)
(* row, and what the counters, Scan_Log and the signals make of it; the    *)
(* invariant is shown to survive a LoopStep, and the derivations of        *)
(* Finish.  The calendar comes last.                                       *)
(***************************************************************************)
EXTENDS ScanRun, SessionCalendar, FiniteSetTheorems, SequenceTheorems, TLAPS

-------------------------------------------------------------------------------
(* Counting rows. *)

Count(s, reasons) == Cardinality({i \in DOMAIN s : s[i].reason \in reasons})

LEMMA CountType ==
    ASSUME NEW S, NEW s \in Seq(S), NEW reasons
    PROVE  Count(s, reasons) \in Nat /\ Count(s, reasons) <= Len(s)
<1> DEFINE I == {i \in DOMAIN s : s[i].reason \in reasons}
<1>1. Len(s) \in Nat /\ DOMAIN s = 1 .. Len(s)
  OBVIOUS
<1>2. IsFiniteSet(1 .. Len(s)) /\ Cardinality(1 .. Len(s)) = Len(s)
  BY <1>1, FS_Interval
<1>3. I \in SUBSET (1 .. Len(s))
  BY <1>1
<1>4. IsFiniteSet(I) /\ Cardinality(I) <= Len(s)
  BY <1>2, <1>3, FS_Subset
<1>5. Cardinality(I) \in Nat
  BY <1>4, FS_CardinalityType
<1> QED
  BY <1>4, <1>5 DEF Count

LEMMA CountOfAppend ==
    ASSUME NEW S, NEW s \in Seq(S), NEW x \in S, NEW reasons
    PROVE  Count(Append(s, x), reasons) =
              IF x.reason \in reasons THEN Count(s, reasons) + 1 ELSE Count(s, reasons)
<1> DEFINE t == Append(s, x)
           I == {i \in DOMAIN s : s[i].reason \in reasons}
           J == {i \in DOMAIN t : t[i].reason \in reasons}
           n == Len(s) + 1
<1>1. /\ Len(s) \in Nat
      /\ DOMAIN s = 1 .. Len(s)
      /\ DOMAIN t = 1 .. n
      /\ \A i \in 1 .. Len(s) : t[i] = s[i]
      /\ t[n] = x
  OBVIOUS
<1>2. IsFiniteSet(I)
  <2>1. IsFiniteSet(1 .. Len(s))
    BY <1>1, FS_Interval
  <2>2. I \in SUBSET (1 .. Len(s))
    BY <1>1
  <2> QED
    BY <2>1, <2>2, FS_Subset
<1>3. n \notin I
  BY <1>1
<1>4. CASE x.reason \in reasons
  <2>1. J = I \cup {n}
    <3> HIDE DEF t
    <3> QED
      BY <1>1, <1>4
  <2>2. Cardinality(J) = Cardinality(I) + 1
    BY <1>2, <1>3, <2>1, FS_AddElement
  <2> QED
    BY <1>4, <2>2 DEF Count
<1>5. CASE x.reason \notin reasons
  <2>1. J = I
    <3> HIDE DEF t
    <3> QED
      BY <1>1, <1>5
  <2> QED
    BY <1>5, <2>1 DEF Count
<1> QED
  BY <1>4, <1>5

LEMMA CountGrows ==
    ASSUME NEW S, NEW s \in Seq(S), NEW few, NEW many, few \subseteq many
    PROVE  Count(s, few) <= Count(s, many)
<1> DEFINE I == {i \in DOMAIN s : s[i].reason \in few}
           J == {i \in DOMAIN s : s[i].reason \in many}
<1>1. IsFiniteSet(1 .. Len(s)) /\ DOMAIN s = 1 .. Len(s)
  BY FS_Interval
<1>2. I \in SUBSET J /\ J \in SUBSET (1 .. Len(s))
  BY <1>1
<1>3. IsFiniteSet(J)
  BY <1>1, <1>2, FS_Subset
<1>4. Cardinality(I) <= Cardinality(J)
  BY <1>2, <1>3, FS_Subset
<1> QED
  BY <1>4 DEF Count

LEMMA CountOfUnion ==
    ASSUME NEW S, NEW s \in Seq(S), NEW these, NEW those, \A why \in these : why \notin those
    PROVE  Count(s, these \cup those) = Count(s, these) + Count(s, those)
<1> DEFINE I == {i \in DOMAIN s : s[i].reason \in these}
           J == {i \in DOMAIN s : s[i].reason \in those}
           K == {i \in DOMAIN s : s[i].reason \in these \cup those}
<1>1. IsFiniteSet(1 .. Len(s)) /\ DOMAIN s = 1 .. Len(s)
  BY FS_Interval
<1>2. I \in SUBSET (1 .. Len(s)) /\ J \in SUBSET (1 .. Len(s))
  BY <1>1
<1>3. IsFiniteSet(I) /\ IsFiniteSet(J)
  BY <1>1, <1>2, FS_Subset
<1>4. I \cap J = {} /\ K = I \cup J
  OBVIOUS
<1>5. Cardinality(I \cup J) = Cardinality(I) + Cardinality(J) - Cardinality(I \cap J)
  BY <1>3, FS_Union
<1>6. Cardinality(I) \in Nat /\ Cardinality(J) \in Nat
  BY <1>3, FS_CardinalityType
<1>7. Cardinality(I \cap J) = 0
  BY <1>4, FS_EmptySet, Zenon
<1>8. Cardinality(K) = Cardinality(I) + Cardinality(J)
  <2> HIDE DEF I, J, K
  <2> QED
    BY <1>4, <1>5, <1>6, <1>7
<1> QED
  BY <1>8 DEF Count

LEMMA RowsForIsCount == \A reasons : RowsFor(reasons) = Count(diagnostics, reasons)
  BY DEF RowsFor, Count

-------------------------------------------------------------------------------
(* The loop. *)

(* A bar that is CURRENT is of the expected session.                        *)
OfSession(row) ==
    /\ row.bar \in BarDates
    /\ row.status = ClassifyDataStatus(row.bar, Expected, Holidays)

Signal(row) == row.signal /\ row.optional /\ row.status = "CURRENT" /\ OfSession(row)

One(condition) == IF condition THEN 1 ELSE 0

LoopStep(row) ==
    /\ InLoop
    /\ row \in Row /\ row.sym = Symbol
    /\ diagnostics' = Append(diagnostics, row)
    /\ observed' = observed \/ \E b \in PriceBases : observed' = observed \cup {b}
    /\ observed \subseteq observed'
    /\ row.signal => row.basis \in observed'
    /\ row.reason \in Unvalidated => row.status = "UNAVAILABLE"
    /\ signals' = signals \/ (signals' = Append(signals, row) /\ Signal(row))
    /\ invalid' = invalid + One(row.reason \in Unvalidated)
    /\ failed' = failed + One(row.reason \in Broken)
    /\ short' = short + One(row.reason = "INSUFFICIENT_HISTORY")
    /\ scanLog' = scanLog \cup {s \in {Symbol} : row.reason \in Broken}
    /\ UNCHANGED <<size, benchmark, result>>

Reasons == {"none"} \cup Unvalidated \cup Broken \cup Unmet

LEMMA Statuses ==
    ASSUME NEW bar \in BarDates
    PROVE  ClassifyDataStatus(bar, Expected, Holidays)
              \in {"UNAVAILABLE", "CURRENT", "INVALID"} \cup Stale
<1>1. bar # NoDay
  BY ScanAssumption DEF NoDay
<1> QED
  BY <1>1, Zenon DEF ClassifyDataStatus, Stale

LEMMA RowsOfLoop ==
    ASSUME size \in 0 .. Len(Universe), diagnostics \in Seq(Row), InLoop,
           NEW why \in Reasons
    PROVE  /\ Symbol \in Members
           /\ Blank(why) \in Row
           /\ \A b \in PriceBases : [Blank(why) EXCEPT !.basis = b] \in Row
           /\ \A bar \in BarDates, b \in PriceBases : Classified(bar, b, why) \in Row
           /\ \A bar \in BarDates, b \in PriceBases, optional \in BOOLEAN :
                 Evaluated(bar, b, why, optional) \in Row
<1>1. Symbol \in Members
  <2>1. Universe \in Seq(Members)
    BY ScanAssumption DEF Members
  <2>2. Len(diagnostics) \in Nat /\ Len(diagnostics) < size
    BY DEF InLoop
  <2>3. Len(diagnostics) + 1 \in 1 .. Len(Universe)
    BY <2>1, <2>2
  <2> QED
    BY <2>1, <2>3 DEF Symbol
<1>2. Blank(why) \in Row
  BY <1>1, Zenon DEF Blank, Row, Reasons
<1>3. \A bar \in BarDates, b \in PriceBases : Classified(bar, b, why) \in Row
  BY <1>1, <1>2, Statuses DEF Blank, Row, Classified
<1>4. \A b \in PriceBases : [Blank(why) EXCEPT !.basis = b] \in Row
  BY <1>2 DEF Blank, Row
<1>5. \A bar \in BarDates, b \in PriceBases, optional \in BOOLEAN :
         Evaluated(bar, b, why, optional) \in Row
  <2> TAKE bar \in BarDates, b \in PriceBases, optional \in BOOLEAN
  <2>1. Classified(bar, b, why) \in Row
    BY <1>3
  <2> QED
    BY <2>1 DEF Row, Evaluated
<1> QED
  BY <1>1, <1>2, <1>3, <1>4, <1>5

Loop == NoData \/ Insufficient \/ StrategyFails \/ Passes \/ GateTrips \/ ScanRaises

(* The rows the loop makes.                                                 *)
IsRow(row, why) == row \in Row /\ row.sym = Symbol /\ row.reason = why

LEMMA UnfinishedRows ==
    ASSUME size \in 0 .. Len(Universe), diagnostics \in Seq(Row), InLoop,
           NEW why \in Reasons
    PROVE  /\ IsRow(Blank(why), why) /\ ~Blank(why).signal /\ Blank(why).status = "UNAVAILABLE"
           /\ \A b \in PriceBases :
                 LET row == [Blank(why) EXCEPT !.basis = b]
                 IN IsRow(row, why) /\ ~row.signal
           /\ \A bar \in BarDates, b \in PriceBases :
                 LET row == Classified(bar, b, why)
                 IN IsRow(row, why) /\ ~row.signal
<1>1. /\ Blank(why) \in Row
      /\ \A b \in PriceBases : [Blank(why) EXCEPT !.basis = b] \in Row
      /\ \A bar \in BarDates, b \in PriceBases : Classified(bar, b, why) \in Row
  BY RowsOfLoop
<1>2. IsRow(Blank(why), why) /\ ~Blank(why).signal /\ Blank(why).status = "UNAVAILABLE"
  BY <1>1 DEF IsRow, Blank
<1>3. ASSUME NEW b \in PriceBases
      PROVE  LET row == [Blank(why) EXCEPT !.basis = b]
             IN IsRow(row, why) /\ ~row.signal
  BY <1>1 DEF IsRow, Blank
<1>4. ASSUME NEW bar \in BarDates, NEW b \in PriceBases
      PROVE  LET row == Classified(bar, b, why)
             IN IsRow(row, why) /\ ~row.signal
  <2>1. Classified(bar, b, why) \in Row
    BY <1>1
  <2> QED
    BY <2>1 DEF IsRow, Blank, Classified
<1> QED
  BY <1>2, <1>3, <1>4

LEMMA EvaluatedRow ==
    ASSUME size \in 0 .. Len(Universe), diagnostics \in Seq(Row), InLoop,
           NEW why \in Reasons, NEW bar \in BarDates, NEW b \in PriceBases,
           NEW optional \in BOOLEAN
    PROVE  LET row == Evaluated(bar, b, why, optional)
           IN /\ IsRow(row, why)
              /\ row.signal <=> why = "none"
              /\ row.basis = b /\ row.optional = optional
              /\ OfSession(row)
<1>1. Evaluated(bar, b, why, optional) \in Row
  BY RowsOfLoop
<1> QED
  BY <1>1 DEF IsRow, Blank, Classified, Evaluated, OfSession

LEMMA ReasonsDiffer ==
    /\ Unvalidated \subseteq Reasons /\ Broken \subseteq Reasons /\ Unmet \subseteq Reasons
    /\ "none" \in Reasons
    /\ \A why \in Unvalidated : why \notin Broken
    /\ \A why \in Unmet : why \notin Unvalidated \cup Broken /\ why # "none"
    /\ \A why \in Broken : why \notin Unvalidated /\ why # "none"
    /\ "none" \notin Unvalidated \cup Broken
    /\ "NO_DATA" \in Unvalidated /\ "INSUFFICIENT_HISTORY" \in Unvalidated
    /\ "SANITY_GATE_FAILURE" \in Broken /\ "SECURITY_SCAN_FAILURE" \in Broken
  BY DEF Reasons, Unvalidated, Broken, Unmet

LEMMA EveryWayIsAStep ==
    ASSUME size \in 0 .. Len(Universe), diagnostics \in Seq(Row),
           invalid \in Nat, failed \in Nat, short \in Nat, Loop
    PROVE  \E row : LoopStep(row)
<1>1. InLoop
  BY DEF Loop, NoData, Insufficient, StrategyFails, Passes, GateTrips, ScanRaises
<1> USE DEF One, Diagnose, IsRow
<1>3. CASE NoData
  <2> DEFINE row == Blank("NO_DATA")
  <2>1. IsRow(row, "NO_DATA") /\ ~row.signal /\ row.status = "UNAVAILABLE"
    BY <1>1, UnfinishedRows, ReasonsDiffer
  <2> HIDE DEF row
  <2>2. /\ diagnostics' = Append(diagnostics, row)
        /\ invalid' = invalid + 1
        /\ UNCHANGED <<size, benchmark, signals, observed, failed, short, scanLog, result>>
    BY <1>3 DEF NoData, row
  <2>3. LoopStep(row)
    BY <1>1, <2>1, <2>2, ReasonsDiffer DEF LoopStep
  <2> QED
    BY <2>3
<1>4. CASE Insufficient
  <2>1. PICK b \in PriceBases : observed' = observed \cup {b}
    BY <1>4 DEF Insufficient
  <2>2. PICK why \in Unvalidated \ {"NO_DATA"} :
           /\ diagnostics' = Append(diagnostics, Blank(why))
           /\ short' = IF why = "INSUFFICIENT_HISTORY" THEN short + 1 ELSE short
    BY <1>4 DEF Insufficient
  <2>3. PICK row : row = Blank(why)
    OBVIOUS
  <2>4. IsRow(row, why) /\ ~row.signal /\ row.status = "UNAVAILABLE"
    BY <1>1, <2>2, <2>3, UnfinishedRows, ReasonsDiffer
  <2>5. /\ invalid' = invalid + 1
        /\ UNCHANGED <<size, benchmark, signals, failed, scanLog, result>>
    BY <1>4 DEF Insufficient
  <2>6. LoopStep(row)
    BY <1>1, <2>1, <2>2, <2>3, <2>4, <2>5, ReasonsDiffer DEF LoopStep
  <2> QED
    BY <2>6
<1>5. CASE StrategyFails
  <2>1. PICK bar \in BarDates, b \in PriceBases, why \in Unmet, optional \in BOOLEAN :
           /\ diagnostics' = Append(diagnostics, Evaluated(bar, b, why, optional))
           /\ observed' = observed \cup {b}
    BY <1>5 DEF StrategyFails
  <2>2. PICK row : row = Evaluated(bar, b, why, optional)
    OBVIOUS
  <2>3. IsRow(row, why) /\ ~row.signal
    BY <1>1, <2>1, <2>2, EvaluatedRow, ReasonsDiffer
  <2>4. UNCHANGED <<size, benchmark, signals, counters, scanLog, result>>
    BY <1>5 DEF StrategyFails
  <2>5. LoopStep(row)
    BY <1>1, <2>1, <2>2, <2>3, <2>4, ReasonsDiffer DEF LoopStep, counters
  <2> QED
    BY <2>5
<1>6. CASE Passes
  <2>1. PICK bar \in BarDates, b \in PriceBases, optional \in BOOLEAN :
           LET row == Evaluated(bar, b, "none", optional)
           IN /\ diagnostics' = Append(diagnostics, row)
              /\ observed' = observed \cup {b}
              /\ signals' = IF row.status = "CURRENT" /\ optional
                              THEN Append(signals, row) ELSE signals
    BY <1>6 DEF Passes
  <2>2. PICK row : row = Evaluated(bar, b, "none", optional)
    OBVIOUS
  <2>3. /\ IsRow(row, "none") /\ row.signal
        /\ row.basis = b /\ row.optional = optional /\ OfSession(row)
    BY <1>1, <2>2, EvaluatedRow, ReasonsDiffer
  <2>4. UNCHANGED <<size, benchmark, counters, scanLog, result>>
    BY <1>6 DEF Passes
  <2>5. signals' = signals \/ (signals' = Append(signals, row) /\ Signal(row))
    BY <2>1, <2>2, <2>3 DEF Signal
  <2>6. LoopStep(row)
    BY <1>1, <2>1, <2>2, <2>3, <2>4, <2>5, ReasonsDiffer DEF LoopStep, counters
  <2> QED
    BY <2>6
<1>7. CASE GateTrips
  <2>1. PICK bar \in BarDates, b \in PriceBases, optional \in BOOLEAN :
           /\ diagnostics' = Append(diagnostics, Evaluated(bar, b, "SANITY_GATE_FAILURE", optional))
           /\ observed' = observed \cup {b}
    BY <1>7 DEF GateTrips
  <2>2. PICK row : row = Evaluated(bar, b, "SANITY_GATE_FAILURE", optional)
    OBVIOUS
  <2>3. IsRow(row, "SANITY_GATE_FAILURE") /\ ~row.signal
    BY <1>1, <2>2, EvaluatedRow, ReasonsDiffer
  <2>4. /\ failed' = failed + 1
        /\ scanLog' = scanLog \cup {Symbol}
        /\ UNCHANGED <<size, benchmark, signals, invalid, short, result>>
    BY <1>7 DEF GateTrips
  <2>5. LoopStep(row)
    BY <1>1, <2>1, <2>2, <2>3, <2>4, ReasonsDiffer DEF LoopStep
  <2> QED
    BY <2>5
<1>8. CASE ScanRaises
  <2> DEFINE why == "SECURITY_SCAN_FAILURE"
             Made(row) == /\ IsRow(row, why) /\ ~row.signal
                          /\ diagnostics' = Append(diagnostics, row)
                          /\ observed' = observed \/ \E b \in PriceBases : observed' = observed \cup {b}
  <2>1. PICK row : Made(row)
    <3>1. CASE Diagnose(Blank(why)) /\ UNCHANGED observed
      <4>1. Made(Blank(why))
        BY <1>1, <3>1, UnfinishedRows, ReasonsDiffer
      <4> QED
        BY <4>1
    <3>2. ASSUME NEW bar \in BarDates, NEW b \in PriceBases, NEW optional \in BOOLEAN,
                 \/ Diagnose([Blank(why) EXCEPT !.basis = b])
                 \/ Diagnose(Classified(bar, b, why))
                 \/ Diagnose(Evaluated(bar, b, why, optional)),
                 observed' = observed \cup {b}
          PROVE  \E row : Made(row)
      <4>1. CASE Diagnose([Blank(why) EXCEPT !.basis = b])
        <5>1. Made([Blank(why) EXCEPT !.basis = b])
          BY <1>1, <3>2, <4>1, UnfinishedRows, ReasonsDiffer
        <5> QED
          BY <5>1
      <4>2. CASE Diagnose(Classified(bar, b, why))
        <5>1. Made(Classified(bar, b, why))
          BY <1>1, <3>2, <4>2, UnfinishedRows, ReasonsDiffer
        <5> QED
          BY <5>1
      <4>3. CASE Diagnose(Evaluated(bar, b, why, optional))
        <5>1. Made(Evaluated(bar, b, why, optional))
          BY <1>1, <3>2, <4>3, EvaluatedRow, ReasonsDiffer
        <5> QED
          BY <5>1
      <4> QED
        BY <3>2, <4>1, <4>2, <4>3
    <3> QED
      BY <1>8, <3>1, <3>2 DEF ScanRaises
  <2>2. /\ failed' = failed + 1
        /\ scanLog' = scanLog \cup {Symbol}
        /\ UNCHANGED <<size, benchmark, signals, invalid, short, result>>
    BY <1>8 DEF ScanRaises
  <2>3. LoopStep(row)
    BY <1>1, <2>1, <2>2, ReasonsDiffer DEF LoopStep
  <2> QED
    BY <2>3
<1> QED
  BY <1>3, <1>4, <1>5, <1>6, <1>7, <1>8 DEF Loop

-------------------------------------------------------------------------------
(* The inductive invariant.                                                 *)

Shape ==
    /\ size \in 0 .. Len(Universe)
    /\ benchmark \in {"OK", "UNAVAILABLE"}
    /\ diagnostics \in Seq(Row)
    /\ Len(diagnostics) <= size
    /\ signals \in Seq(Row)
    /\ observed \subseteq PriceBases
    /\ IsFiniteSet(observed)
    /\ scanLog \subseteq Members \cup {"benchmark"}

SignalsFromRows ==
    \A i \in DOMAIN signals :
        /\ Signal(signals[i])
        /\ \E k \in DOMAIN diagnostics : diagnostics[k] = signals[i]

BasesObserved ==
    \A k \in DOMAIN diagnostics : diagnostics[k].signal => diagnostics[k].basis \in observed

UnvalidatedUnclassified ==
    \A k \in DOMAIN diagnostics :
        diagnostics[k].reason \in Unvalidated => diagnostics[k].status = "UNAVAILABLE"

StaleRows ==
    {diagnostics[i] : i \in {k \in DOMAIN diagnostics :
                               IsStale(diagnostics[k]) /\ diagnostics[k].signal}}

(* Until the loop is through nothing is derived; then everything is.        *)
Derived ==
    /\ health = "running" =>
          stale = {} /\ nStale = 0 /\ basis = ProviderBasis /\ bootstrap = FALSE
    /\ health # "running" =>
          /\ Len(diagnostics) = size
          /\ stale = StaleRows
          /\ nStale \in 0 .. size
          /\ nStale = Cardinality({i \in DOMAIN diagnostics : IsStale(diagnostics[i])})
          /\ basis = RunBasis
          /\ health = RunHealth
          /\ bootstrap \in BOOLEAN

IInv ==
    /\ Shape
    /\ EveryMemberAccountedFor
    /\ SignalsFromRows
    /\ BasesObserved
    /\ UnvalidatedUnclassified
    /\ Derived

LEMMA InitIInv == Init => IInv
<1> SUFFICES ASSUME Init PROVE IInv
  OBVIOUS
<1>1. /\ diagnostics = << >> /\ signals = << >> /\ observed = {}
      /\ size \in 0 .. Len(Universe) /\ benchmark \in {"OK", "UNAVAILABLE"}
      /\ invalid = 0 /\ failed = 0 /\ short = 0 /\ health = "running"
      /\ scanLog \in {{}, {"benchmark"}}
      /\ stale = {} /\ nStale = 0 /\ basis = ProviderBasis /\ bootstrap = FALSE
  BY DEF Init
<1>2. DOMAIN diagnostics = {} /\ Len(diagnostics) = 0 /\ diagnostics \in Seq(Row)
      /\ DOMAIN signals = {} /\ signals \in Seq(Row)
  BY <1>1
<1>3. Shape
  BY <1>1, <1>2, FS_EmptySet DEF Shape
<1>4. \A reasons : RowsFor(reasons) = 0
  BY <1>2, FS_EmptySet DEF RowsFor
<1>5. EveryMemberAccountedFor
  BY <1>1, <1>2, <1>4 DEF EveryMemberAccountedFor
<1>6. SignalsFromRows /\ BasesObserved /\ UnvalidatedUnclassified
  BY <1>2 DEF SignalsFromRows, BasesObserved, UnvalidatedUnclassified
<1>7. Derived
  BY <1>1 DEF Derived
<1> QED
  BY <1>3, <1>5, <1>6, <1>7 DEF IInv

LEMMA LoopKeeps ==
    ASSUME IInv, NEW row, LoopStep(row)
    PROVE  IInv'
<1>1. /\ row \in Row /\ row.sym = Symbol
      /\ diagnostics' = Append(diagnostics, row)
      /\ UNCHANGED <<size, benchmark, stale, nStale, basis, health, bootstrap>>
  BY DEF LoopStep, result
<1>2. /\ diagnostics \in Seq(Row) /\ signals \in Seq(Row)
      /\ size \in Nat /\ Len(diagnostics) < size /\ health = "running"
      /\ Universe \in Seq(Members)
      /\ size <= Len(Universe)
  BY ScanAssumption DEF LoopStep, InLoop, IInv, Shape, Members
<1> DEFINE n == Len(diagnostics) + 1
<1>3. /\ diagnostics' \in Seq(Row)
      /\ Len(diagnostics') = n /\ n \in Nat
      /\ DOMAIN diagnostics = 1 .. Len(diagnostics)
      /\ DOMAIN diagnostics' = 1 .. n
      /\ \A i \in DOMAIN diagnostics : diagnostics'[i] = diagnostics[i]
      /\ diagnostics'[n] = row
  BY <1>1, <1>2
<1>4. Symbol = Universe[n] /\ Symbol \in Members
  BY <1>2 DEF Symbol
<1> HIDE DEF n
<1>5. DOMAIN diagnostics' = DOMAIN diagnostics \cup {n} /\ n \notin DOMAIN diagnostics
  BY <1>2, <1>3 DEF n
<1>6. Shape'
  <2>1. observed' \subseteq PriceBases /\ IsFiniteSet(observed')
    <3>1. observed \subseteq PriceBases /\ IsFiniteSet(observed)
      BY DEF IInv, Shape
    <3>2. CASE observed' = observed
      BY <3>1, <3>2
    <3>3. ASSUME NEW b \in PriceBases, observed' = observed \cup {b}
          PROVE  observed' \subseteq PriceBases /\ IsFiniteSet(observed')
      <4>1. IsFiniteSet(observed \cup {b})
        BY <3>1, FS_AddElement
      <4> QED
        BY <3>1, <3>3, <4>1
    <3> QED
      BY <3>2, <3>3 DEF LoopStep
  <2>2. signals' \in Seq(Row)
    <3>1. signals' = signals \/ signals' = Append(signals, row)
      BY DEF LoopStep
    <3>2. Append(signals, row) \in Seq(Row)
      BY <1>1, <1>2
    <3> QED
      BY <1>2, <3>1, <3>2
  <2>3. scanLog' \subseteq Members \cup {"benchmark"}
    BY <1>4 DEF LoopStep, IInv, Shape
  <2>4. Len(diagnostics') <= size'
    BY <1>1, <1>2, <1>3 DEF n
  <2> QED
    BY <1>1, <1>3, <2>1, <2>2, <2>3, <2>4 DEF IInv, Shape
<1>7. EveryMemberAccountedFor'
  <2>1. \A reasons : RowsFor(reasons)' =
           IF row.reason \in reasons THEN RowsFor(reasons) + 1 ELSE RowsFor(reasons)
    <3> TAKE reasons
    <3>1. RowsFor(reasons)' = Count(Append(diagnostics, row), reasons)
      BY <1>1 DEF RowsFor, Count
    <3> QED
      BY <1>1, <1>2, <3>1, CountOfAppend, RowsForIsCount
  <2>2. \A reasons : RowsFor(reasons) \in Nat
    BY <1>2, CountType, RowsForIsCount
  <2>3. \A i \in DOMAIN diagnostics' : diagnostics'[i].sym = Universe[i]
    BY <1>1, <1>3, <1>4, <1>5 DEF IInv, EveryMemberAccountedFor
  <2>4. invalid' = RowsFor(Unvalidated)'
    BY <2>1, <2>2 DEF LoopStep, One, IInv, EveryMemberAccountedFor
  <2>5. short' = RowsFor({"INSUFFICIENT_HISTORY"})'
    BY <2>1, <2>2 DEF LoopStep, One, IInv, EveryMemberAccountedFor
  <2>6. failed' = RowsFor(Broken)'
    BY <2>1, <2>2 DEF LoopStep, One, IInv, EveryMemberAccountedFor
  <2> DEFINE Named(d) == {d[i].sym : i \in {k \in DOMAIN d : d[k].reason \in Broken}}
  <2>7. Named(diagnostics') = Named(diagnostics) \cup {s \in {Symbol} : row.reason \in Broken}
    BY <1>1, <1>3, <1>5
  <2>8. scanLog \ {"benchmark"} = Named(diagnostics)
    BY DEF IInv, EveryMemberAccountedFor
  <2>9. Symbol # "benchmark"
    BY <1>4, ScanAssumption DEF Members
  <2>10. scanLog' \ {"benchmark"} = Named(diagnostics')
    BY <2>7, <2>8, <2>9 DEF LoopStep
  <2> QED
    BY <2>3, <2>4, <2>5, <2>6, <2>10 DEF EveryMemberAccountedFor
<1>8. SignalsFromRows'
  <2>1. CASE signals' = signals
    <3>1. \A i \in DOMAIN signals : Signal(signals[i])
                                    /\ \E k \in DOMAIN diagnostics : diagnostics[k] = signals[i]
      BY DEF IInv, SignalsFromRows
    <3>2. \A i \in DOMAIN signals : \E k \in DOMAIN diagnostics' : diagnostics'[k] = signals[i]
      BY <1>3, <1>5, <3>1
    <3> QED
      BY <2>1, <3>1, <3>2 DEF SignalsFromRows, Signal, OfSession
  <2>2. CASE signals' = Append(signals, row) /\ Signal(row)
    <3>1. /\ \A i \in DOMAIN signals' : i \in DOMAIN signals \/ signals'[i] = row
          /\ \A i \in DOMAIN signals : signals'[i] = signals[i]
      BY <1>1, <1>2, <2>2
    <3> SUFFICES ASSUME NEW i \in DOMAIN signals'
                 PROVE  /\ Signal(signals'[i])
                        /\ \E k \in DOMAIN diagnostics' : diagnostics'[k] = signals'[i]
      BY DEF SignalsFromRows, Signal, OfSession
    <3>2. CASE signals'[i] = row
      BY <1>3, <1>5, <2>2, <3>2
    <3>3. CASE i \in DOMAIN signals
      BY <1>3, <1>5, <3>1, <3>3 DEF IInv, SignalsFromRows
    <3> QED
      BY <3>1, <3>2, <3>3
  <2> QED
    BY <2>1, <2>2 DEF LoopStep
<1>9. BasesObserved'
  BY <1>3, <1>5 DEF LoopStep, IInv, BasesObserved
<1>10. UnvalidatedUnclassified'
  BY <1>3, <1>5 DEF LoopStep, IInv, UnvalidatedUnclassified
<1>11. Derived'
  BY <1>1, <1>2 DEF IInv, Derived
<1> QED
  BY <1>6, <1>7, <1>8, <1>9, <1>10, <1>11 DEF IInv

LEMMA FinishKeeps ==
    ASSUME IInv, Finish
    PROVE  IInv'
<1>1. /\ diagnostics \in Seq(Row) /\ Len(diagnostics) = size /\ size \in Nat
      /\ UNCHANGED <<size, benchmark, diagnostics, signals, observed, invalid, failed,
                     short, scanLog>>
      /\ stale' = StaleRows /\ basis' = RunBasis /\ health' = RunHealth
      /\ nStale' = Cardinality({i \in DOMAIN diagnostics : IsStale(diagnostics[i])})
      /\ bootstrap' \in BOOLEAN
  BY ScanAssumption DEF Finish, counters, IInv, Shape, StaleRows
<1>2. Shape'
  BY <1>1 DEF IInv, Shape
<1>3. EveryMemberAccountedFor'
  BY <1>1 DEF IInv, EveryMemberAccountedFor, RowsFor
<1>4. SignalsFromRows'
  BY <1>1 DEF IInv, SignalsFromRows, Signal, OfSession
<1>5. BasesObserved' /\ UnvalidatedUnclassified'
  BY <1>1 DEF IInv, BasesObserved, UnvalidatedUnclassified
<1>6. nStale' \in 0 .. size
  <2> DEFINE I == {i \in DOMAIN diagnostics : IsStale(diagnostics[i])}
  <2>1. IsFiniteSet(1 .. size) /\ Cardinality(1 .. size) = size
    BY <1>1, FS_Interval
  <2>2. I \in SUBSET (1 .. size)
    BY <1>1
  <2>3. IsFiniteSet(I) /\ Cardinality(I) <= size
    BY <2>1, <2>2, FS_Subset
  <2>4. Cardinality(I) \in Nat
    BY <2>3, FS_CardinalityType
  <2> QED
    BY <1>1, <2>3, <2>4
<1>7. RunHealth # "running"
  BY DEF RunHealth
<1>8. /\ StaleRows' = StaleRows /\ RunBasis' = RunBasis /\ RunHealth' = RunHealth
      /\ nStale' = Cardinality({i \in DOMAIN diagnostics' : IsStale(diagnostics'[i])})
  BY <1>1 DEF StaleRows, RunBasis, RunHealth, Above, Failures, AtLeastOne
<1>9. Derived'
  BY <1>1, <1>6, <1>7, <1>8 DEF Derived
<1> QED
  BY <1>2, <1>3, <1>4, <1>5, <1>9 DEF IInv

LEMMA StutterKeeps ==
    ASSUME IInv, UNCHANGED vars
    PROVE  IInv'
<1>1. UNCHANGED <<size, benchmark, diagnostics, signals, observed, invalid, failed, short,
                  scanLog, stale, nStale, basis, health, bootstrap>>
  BY DEF vars, counters, result
<1> QED
  BY <1>1 DEF IInv, Shape, EveryMemberAccountedFor, RowsFor, SignalsFromRows, Signal, OfSession,
              BasesObserved, UnvalidatedUnclassified, Derived, StaleRows, RunBasis, RunHealth, Above, Failures, AtLeastOne

LEMMA NextIInv == IInv /\ [Next]_vars => IInv'
<1> SUFFICES ASSUME IInv, [Next]_vars PROVE IInv'
  OBVIOUS
<1>1. CASE Loop
  <2>1. /\ size \in 0 .. Len(Universe) /\ diagnostics \in Seq(Row)
        /\ invalid = Count(diagnostics, Unvalidated)
        /\ failed = Count(diagnostics, Broken)
        /\ short = Count(diagnostics, {"INSUFFICIENT_HISTORY"})
    BY RowsForIsCount DEF IInv, Shape, EveryMemberAccountedFor
  <2>2. invalid \in Nat /\ failed \in Nat /\ short \in Nat
    BY <2>1, CountType
  <2>3. PICK row : LoopStep(row)
    BY <1>1, <2>1, <2>2, EveryWayIsAStep
  <2> QED
    BY <2>3, LoopKeeps
<1>2. CASE Finish
  BY <1>2, FinishKeeps
<1>3. CASE UNCHANGED vars
  BY <1>3, StutterKeeps
<1> QED
  BY <1>1, <1>2, <1>3 DEF Next, Loop

\* The inductive invariant of the scan's loop holds in every state.
THEOREM Invariance == Spec => []IInv
  BY InitIInv, NextIInv, PTL DEF Spec

-------------------------------------------------------------------------------
(* What the invariant says. *)

\* The rows, counters and results of a scan have their types, and no counter
\* exceeds the universe.
THEOREM TypeCorrect == Spec => []TypeOK
<1>1. IInv => TypeOK
  <2> SUFFICES ASSUME IInv PROVE TypeOK
    OBVIOUS
  <2>1. diagnostics \in Seq(Row) /\ Len(diagnostics) <= size /\ size \in Nat
    BY ScanAssumption DEF IInv, Shape
  <2>2. /\ invalid = Count(diagnostics, Unvalidated)
        /\ failed = Count(diagnostics, Broken)
        /\ short = Count(diagnostics, {"INSUFFICIENT_HISTORY"})
    BY RowsForIsCount DEF IInv, EveryMemberAccountedFor
  <2>3. invalid \in 0 .. size /\ failed \in 0 .. size /\ short \in Nat
    BY <2>1, <2>2, CountType
  <2>4. short <= invalid
    BY <2>1, <2>2, CountGrows DEF Unvalidated
  <2>5. StaleRows \subseteq Row
    BY <2>1 DEF StaleRows
  <2>6. RunBasis \in PriceBases \cup {ProviderBasis, Mixed}
    <3>1. observed \subseteq PriceBases
      BY DEF IInv, Shape
    <3>2. observed # {} => (CHOOSE b \in observed : TRUE) \in observed
      OBVIOUS
    <3> QED
      BY <3>1, <3>2 DEF RunBasis
  <2>7. RunHealth \in {"RED", "YELLOW", "GREEN"}
    BY DEF RunHealth
  <2>8. /\ stale \subseteq Row /\ nStale \in 0 .. size
        /\ basis \in PriceBases \cup {ProviderBasis, Mixed}
        /\ health \in {"running", "RED", "YELLOW", "GREEN"}
        /\ bootstrap \in BOOLEAN
    <3>1. CASE health = "running"
      <4>1. stale = {} /\ nStale = 0 /\ basis = ProviderBasis /\ bootstrap = FALSE
        BY <3>1 DEF IInv, Derived
      <4>2. nStale \in 0 .. size
        BY <2>1, <4>1
      <4>3. stale \subseteq Row
        BY <4>1, Zenon
      <4> QED
        BY <3>1, <4>1, <4>2, <4>3, Zenon
    <3>2. CASE health # "running"
      <4>1. /\ stale = StaleRows /\ nStale \in 0 .. size /\ basis = RunBasis
            /\ health = RunHealth /\ bootstrap \in BOOLEAN
        BY <3>2 DEF IInv, Derived
      <4>2. stale \subseteq Row
        BY <2>5, <4>1
      <4>3. basis \in PriceBases \cup {ProviderBasis, Mixed}
        BY <2>6, <4>1
      <4>4. health \in {"running", "RED", "YELLOW", "GREEN"}
        BY <2>7, <4>1
      <4> QED
        BY <4>1, <4>2, <4>3, <4>4, Zenon
    <3> QED
      BY <3>1, <3>2
  <2> QED
    BY <2>3, <2>4, <2>8 DEF IInv, Shape, TypeOK
<1> QED
  BY <1>1, Invariance, PTL

\* No exception of one symbol loses or doubles another's row, counter or
\* Scan_Log line.
THEOREM MembersAccountedFor == Spec => []EveryMemberAccountedFor
<1>1. IInv => EveryMemberAccountedFor
  BY DEF IInv
<1> QED
  BY <1>1, Invariance, PTL

LEMMA CurrentIsOfExpected ==
    ASSUME NEW bar \in BarDates, ClassifyDataStatus(bar, Expected, Holidays) = "CURRENT"
    PROVE  bar <= Expected /\ SessionsBetween(bar, Expected, Holidays) = 0
<1>1. bar # NoDay /\ bar \in Nat /\ Expected \in Nat
  BY ScanAssumption DEF NoDay
<1> QED
  BY <1>1 DEF ClassifyDataStatus, SessionsBetween

\* No signal is of another session than the expected one, however the symbols'
\* last bars differ, and none is in Stale_Signals too.
THEOREM SignalsCurrent == Spec => []SignalsAreCurrent
<1>1. IInv => SignalsAreCurrent
  <2> SUFFICES ASSUME IInv, NEW i \in DOMAIN signals
               PROVE  /\ signals[i].signal /\ signals[i].optional
                      /\ signals[i].bar <= Expected
                      /\ SessionsBetween(signals[i].bar, Expected, Holidays) = 0
                      /\ \A other \in stale : other.sym # signals[i].sym
    BY DEF SignalsAreCurrent
  <2>1. /\ Signal(signals[i])
        /\ \E k \in DOMAIN diagnostics : diagnostics[k] = signals[i]
    BY DEF IInv, SignalsFromRows
  <2>2. PICK k \in DOMAIN diagnostics : diagnostics[k] = signals[i]
    BY <2>1
  <2>3. /\ signals[i].bar <= Expected
        /\ SessionsBetween(signals[i].bar, Expected, Holidays) = 0
    BY <2>1, CurrentIsOfExpected DEF Signal, OfSession
  <2>4. ASSUME NEW other \in stale PROVE other.sym # signals[i].sym
    <3>1. other \in StaleRows
      BY DEF IInv, Derived
    <3>2. PICK j \in DOMAIN diagnostics : diagnostics[j] = other /\ IsStale(diagnostics[j])
      BY <3>1 DEF StaleRows
    <3>3. j # k
      BY <2>1, <2>2, <3>2 DEF Signal, IsStale, Stale
    <3>4. DOMAIN diagnostics \subseteq DOMAIN Universe
      <4>1. /\ diagnostics \in Seq(Row) /\ Universe \in Seq(Members)
            /\ Len(diagnostics) <= Len(Universe)
        BY ScanAssumption DEF IInv, Shape, Members
      <4> QED
        BY <4>1
    <3>5. diagnostics[j].sym = Universe[j] /\ diagnostics[k].sym = Universe[k]
      BY DEF IInv, EveryMemberAccountedFor
    <3> QED
      BY <2>2, <3>2, <3>3, <3>4, <3>5, ScanAssumption
  <2> QED
    BY <2>1, <2>3, <2>4 DEF Signal
<1> QED
  BY <1>1, Invariance, PTL

LEMMA CountedOnce ==
    ASSUME IInv, health # "running"
    PROVE  Summary.current + Summary.stale + Summary.invalid <= Summary.count
<1> DEFINE A == {i \in DOMAIN diagnostics : diagnostics[i].status = "CURRENT"}
           B == {i \in DOMAIN diagnostics : IsStale(diagnostics[i])}
           C == {i \in DOMAIN diagnostics : diagnostics[i].reason \in Unvalidated}
<1>1. /\ diagnostics \in Seq(Row) /\ size \in Nat /\ Len(diagnostics) = size
      /\ DOMAIN diagnostics = 1 .. size
  BY ScanAssumption DEF IInv, Shape, Derived
<1>2. IsFiniteSet(1 .. size) /\ Cardinality(1 .. size) = size
  BY <1>1, FS_Interval
<1>3. A \in SUBSET (1 .. size) /\ B \in SUBSET (1 .. size) /\ C \in SUBSET (1 .. size)
  BY <1>1
<1>4. A \cap B = {} /\ (A \cup B) \cap C = {}
  BY DEF IInv, UnvalidatedUnclassified, IsStale, Stale
<1>5. /\ Summary.current = Cardinality(A) /\ Summary.stale = Cardinality(B)
      /\ Summary.invalid = Cardinality(C) /\ Summary.count = size
  BY RowsForIsCount DEF Summary, IInv, Derived, EveryMemberAccountedFor, Count
<1> HIDE DEF A, B, C
<1>6. IsFiniteSet(A) /\ IsFiniteSet(B) /\ IsFiniteSet(C)
  BY <1>2, <1>3, FS_Subset
<1>7. Cardinality(A) \in Nat /\ Cardinality(B) \in Nat /\ Cardinality(C) \in Nat
  BY <1>6, FS_CardinalityType
<1>8. /\ IsFiniteSet(A \cup B)
      /\ Cardinality(A \cup B) = Cardinality(A) + Cardinality(B) - Cardinality(A \cap B)
  BY <1>6, FS_Union
<1>9. /\ IsFiniteSet((A \cup B) \cup C)
      /\ Cardinality((A \cup B) \cup C)
            = Cardinality(A \cup B) + Cardinality(C) - Cardinality((A \cup B) \cap C)
  BY <1>6, <1>8, FS_Union
<1>10. Cardinality(A \cap B) = 0 /\ Cardinality((A \cup B) \cap C) = 0
  BY <1>4, FS_EmptySet, Zenon
<1>11. (A \cup B) \cup C \in SUBSET (1 .. size)
  BY <1>3
<1>12. Cardinality((A \cup B) \cup C) <= size
  BY <1>2, <1>11, FS_Subset
<1> QED
  BY <1>1, <1>5, <1>7, <1>8, <1>9, <1>10, <1>12

\* RUN_HEALTH is RED exactly when too many members got no verdict, and GREEN
\* exactly when few enough did, no symbol broke the scan and the benchmark was
\* there; the summary counts no member twice.
THEOREM HealthSound == Spec => []HealthReflectsRows
<1>1. IInv => HealthReflectsRows
  <2> SUFFICES ASSUME IInv, health # "running"
               PROVE  LET noVerdict == RowsFor(Unvalidated \cup Broken)
                          tooMany(oneIn) == size = 0 \/ oneIn * noVerdict > size
                      IN
                      /\ health = "RED" <=> tooMany(RedOneIn)
                      /\ health = "GREEN" <=>
                            /\ ~tooMany(RedOneIn) /\ ~tooMany(YellowOneIn)
                            /\ benchmark = "OK" /\ RowsFor(Broken) = 0
                      /\ Summary.current + Summary.stale + Summary.invalid <= Summary.count
    BY DEF HealthReflectsRows, Manifest
  <2>1. diagnostics \in Seq(Row) /\ size \in Nat /\ health = RunHealth
    BY ScanAssumption DEF IInv, Shape, Derived
  <2>2. /\ invalid = Count(diagnostics, Unvalidated)
        /\ failed = Count(diagnostics, Broken) /\ failed = RowsFor(Broken)
    BY RowsForIsCount DEF IInv, EveryMemberAccountedFor
  <2>3. invalid \in Nat /\ failed \in Nat
    BY <2>1, <2>2, CountType
  <2>4. RowsFor(Unvalidated \cup Broken) = invalid + failed
    BY <2>1, <2>2, ReasonsDiffer, CountOfUnion, RowsForIsCount
  <2>5. PICK f : f = invalid + failed
    OBVIOUS
  <2>6. PICK limit : limit = [red |-> RedOneIn * f, yellow |-> YellowOneIn * f]
    OBVIOUS
  <2>7. f \in Nat /\ limit.red \in Nat /\ limit.yellow \in Nat
    BY <2>3, <2>5, <2>6, ScanAssumption
  <2>8. /\ Above(RedOneIn) <=> limit.red > AtLeastOne(size)
        /\ Above(YellowOneIn) <=> limit.yellow > AtLeastOne(size)
    BY <2>5, <2>6 DEF Above, Failures
  <2>9. size # 0 => AtLeastOne(size) = size
    BY DEF AtLeastOne
  <2>10. health = "RED" <=> (size = 0 \/ Above(RedOneIn))
    BY <2>1 DEF RunHealth
  <2>11. health = "GREEN" <=>
           /\ ~(size = 0 \/ Above(RedOneIn)) /\ ~Above(YellowOneIn)
           /\ benchmark = "OK" /\ failed = 0
    BY <2>1, <2>3 DEF RunHealth
  <2>12. Summary.current + Summary.stale + Summary.invalid <= Summary.count
    BY CountedOnce
  <2> QED
    BY <2>1, <2>2, <2>4, <2>5, <2>6, <2>7, <2>8, <2>9, <2>10, <2>11, <2>12
<1> QED
  BY <1>1, Invariance, PTL

\* A run that says one price basis has no signal of another.
THEOREM BasisCovers == Spec => []BasisCoversSignals
<1>1. IInv => BasisCoversSignals
  <2> SUFFICES ASSUME IInv, health # "running", basis # Mixed
               PROVE  /\ \A i \in DOMAIN signals : signals[i].basis = basis
                      /\ \A row \in stale : row.basis = basis
    BY DEF BasisCoversSignals
  <2>1. basis = RunBasis /\ stale = StaleRows /\ IsFiniteSet(observed)
    BY DEF IInv, Shape, Derived
  <2>2. ASSUME NEW k \in DOMAIN diagnostics, diagnostics[k].signal
        PROVE  diagnostics[k].basis = basis
    <3>1. diagnostics[k].basis \in observed
      BY <2>2 DEF IInv, BasesObserved
    <3>2. Cardinality(observed) = 1
      BY <2>1, <3>1 DEF RunBasis
    <3>3. \E b : observed = {b}
      BY <2>1, <3>2, FS_Singleton
    <3> QED
      BY <2>1, <3>1, <3>2, <3>3 DEF RunBasis
  <2>3. ASSUME NEW i \in DOMAIN signals PROVE signals[i].basis = basis
    <3>1. PICK k \in DOMAIN diagnostics : diagnostics[k] = signals[i]
      BY DEF IInv, SignalsFromRows
    <3>2. signals[i].signal
      BY DEF IInv, SignalsFromRows, Signal
    <3> QED
      BY <2>2, <3>1, <3>2
  <2>4. ASSUME NEW row \in stale PROVE row.basis = basis
    <3>1. PICK k \in DOMAIN diagnostics : diagnostics[k] = row /\ diagnostics[k].signal
      BY <2>1 DEF StaleRows
    <3> QED
      BY <2>2, <3>1
  <2> QED
    BY <2>3, <2>4
<1> QED
  BY <1>1, Invariance, PTL

-------------------------------------------------------------------------------
(* The definitions of TradingDays. *)

LEMMA LatestIs ==
    ASSUME NEW S \in SUBSET Int, NEW d \in S, \A e \in S : e <= d
    PROVE  Latest(S) = d
<1>1. Latest(S) \in S /\ \A e \in S : e <= Latest(S)
  BY Zenon DEF Latest
<1>2. Latest(S) \in Int /\ d \in Int /\ d <= Latest(S) /\ Latest(S) <= d
  BY <1>1
<1> QED
  BY <1>2

LEMMA EarliestIs ==
    ASSUME NEW S \in SUBSET Int, NEW d \in S, \A e \in S : d <= e
    PROVE  Earliest(S) = d
<1>1. Earliest(S) \in S /\ \A e \in S : Earliest(S) <= e
  BY Zenon DEF Earliest
<1>2. Earliest(S) \in Int /\ d \in Int /\ d <= Earliest(S) /\ Earliest(S) <= d
  BY <1>1
<1> QED
  BY <1>2

\* What the walks have to find for the definitions to give their answer.
LEMMA PreviousIs ==
    ASSUME NEW H, NEW d \in Int, NEW e \in (d - MaxLook) .. (d - 1),
           IsTradingDay(e, H), \A k \in (e + 1) .. (d - 1) : ~ IsTradingDay(k, H)
    PROVE  PreviousTradingDay(d, H) = e
<1> DEFINE open == {k \in (d - MaxLook) .. (d - 1) : IsTradingDay(k, H)}
<1>1. e \in open /\ open \subseteq Int
  BY MaxLookAssumption
<1>2. \A k \in open : k <= e
  BY MaxLookAssumption
<1>3. Latest(open) = e
  BY <1>1, <1>2, LatestIs
<1> QED
  BY <1>1, <1>3 DEF PreviousTradingDay

LEMMA NextIs ==
    ASSUME NEW H, NEW d \in Int, NEW e \in (d + 1) .. (d + MaxLook),
           IsTradingDay(e, H), \A k \in (d + 1) .. (e - 1) : ~ IsTradingDay(k, H)
    PROVE  NextTradingDay(d, H) = e
<1> DEFINE open == {k \in (d + 1) .. (d + MaxLook) : IsTradingDay(k, H)}
<1>1. e \in open /\ open \subseteq Int
  BY MaxLookAssumption
<1>2. \A k \in open : e <= k
  BY MaxLookAssumption
<1>3. Earliest(open) = e
  BY <1>1, <1>2, EarliestIs
<1> QED
  BY <1>1, <1>3 DEF NextTradingDay

\* One more day of a count.
LEMMA CountedDay ==
    ASSUME NEW H, NEW start \in Int, NEW d \in Int, start <= d
    PROVE  /\ SessionsBetween(start, d, H) \in Nat
           /\ SessionsBetween(start, d + 1, H) =
                 IF IsTradingDay(d + 1, H) THEN SessionsBetween(start, d, H) + 1
                 ELSE SessionsBetween(start, d, H)
<1> DEFINE S(n) == {k \in (start + 1) .. n : IsTradingDay(k, H)}
<1>1. IsFiniteSet(S(d))
  <2>1. IsFiniteSet((start + 1) .. d)
    BY FS_Interval
  <2>2. S(d) \in SUBSET ((start + 1) .. d)
    OBVIOUS
  <2> QED
    BY <2>1, <2>2, FS_Subset
<1>2. Cardinality(S(d)) \in Nat
  BY <1>1, FS_CardinalityType
<1>3. CASE IsTradingDay(d + 1, H)
  <2>1. S(d + 1) = S(d) \cup {d + 1} /\ d + 1 \notin S(d)
    BY <1>3
  <2>2. Cardinality(S(d + 1)) = Cardinality(S(d)) + 1
    BY <1>1, <2>1, FS_AddElement
  <2> QED
    BY <1>2, <1>3, <2>2 DEF SessionsBetween
<1>4. CASE ~ IsTradingDay(d + 1, H)
  <2>1. S(d + 1) = S(d)
    BY <1>4
  <2> QED
    BY <1>2, <1>4, <2>1 DEF SessionsBetween
<1> QED
  BY <1>3, <1>4

LEMMA CountOfNothing ==
    ASSUME NEW H, NEW d \in Int PROVE SessionsBetween(d, d, H) = 0
<1>1. {k \in (d + 1) .. d : IsTradingDay(k, H)} = {}
  OBVIOUS
<1> QED
  BY <1>1, FS_EmptySet DEF SessionsBetween

\* A longer stretch has no fewer sessions.
LEMMA CountMonotone ==
    ASSUME NEW H, NEW a \in Int, NEW b \in Int, NEW d \in Int, a <= b
    PROVE  /\ SessionsBetween(a, d, H) \in Nat
           /\ SessionsBetween(b, d, H) \in Nat
           /\ SessionsBetween(b, d, H) <= SessionsBetween(a, d, H)
<1> DEFINE S(n) == {k \in (n + 1) .. d : IsTradingDay(k, H)}
<1>1. IsFiniteSet(S(a)) /\ IsFiniteSet(S(b))
  <2>1. IsFiniteSet((a + 1) .. d) /\ IsFiniteSet((b + 1) .. d)
    BY FS_Interval
  <2>2. S(a) \in SUBSET ((a + 1) .. d) /\ S(b) \in SUBSET ((b + 1) .. d)
    OBVIOUS
  <2> QED
    BY <2>1, <2>2, FS_Subset
<1>2. S(b) \in SUBSET S(a)
  OBVIOUS
<1>3. Cardinality(S(b)) <= Cardinality(S(a))
  BY <1>1, <1>2, FS_Subset
<1> QED
  BY <1>1, <1>3, FS_CardinalityType DEF SessionsBetween

\* Two holiday sets that agree on the days between give the same answers.
Agree(G, H, from, to) == \A d \in from .. to : d \in G <=> d \in H

LEMMA PreviousAgrees ==
    ASSUME NEW G, NEW H, NEW d \in Int, Agree(G, H, d - MaxLook, d - 1)
    PROVE  PreviousTradingDay(d, G) = PreviousTradingDay(d, H)
<1>1. {e \in (d - MaxLook) .. (d - 1) : IsTradingDay(e, G)}
        = {e \in (d - MaxLook) .. (d - 1) : IsTradingDay(e, H)}
  BY DEF Agree, IsTradingDay
<1> QED
  BY <1>1 DEF PreviousTradingDay

LEMMA NextAgrees ==
    ASSUME NEW G, NEW H, NEW d \in Int, Agree(G, H, d + 1, d + MaxLook)
    PROVE  NextTradingDay(d, G) = NextTradingDay(d, H)
<1>1. {e \in (d + 1) .. (d + MaxLook) : IsTradingDay(e, G)}
        = {e \in (d + 1) .. (d + MaxLook) : IsTradingDay(e, H)}
  BY DEF Agree, IsTradingDay
<1> QED
  BY <1>1 DEF NextTradingDay

LEMMA CountAgrees ==
    ASSUME NEW G, NEW H, NEW a \in Int, NEW b \in Int, Agree(G, H, a + 1, b)
    PROVE  SessionsBetween(a, b, G) = SessionsBetween(a, b, H)
<1>1. {e \in (a + 1) .. b : IsTradingDay(e, G)} = {e \in (a + 1) .. b : IsTradingDay(e, H)}
  BY DEF Agree, IsTradingDay
<1> QED
  BY <1>1 DEF SessionsBetween

-------------------------------------------------------------------------------
(* Types. *)

\* A run never leaves its types: the walks stay inside their bound.
THEOREM CalendarTypeCorrect == CalendarSpec => []CalendarTypeOK
<1> USE CalendarAssumption, MaxLookAssumption
<1>1. CalendarInit => CalendarTypeOK
  BY DEF CalendarInit, CalendarTypeOK, CalendarStatuses, NoDay
<1>2. ASSUME CalendarTypeOK, [CalendarNext]_calendarVars PROVE CalendarTypeOK'
  <2>1. ASSUME Block PROVE CalendarTypeOK'
    BY <1>2, <2>1 DEF CalendarTypeOK, Block, clock, file, loop, classified
  <2>2. ASSUME LoadHolidays PROVE CalendarTypeOK'
    BY <1>2, <2>2 DEF CalendarTypeOK, LoadHolidays, clock, file, loop, classified
  <2>3. ASSUME ExpectToday PROVE CalendarTypeOK'
    BY <1>2, <2>3 DEF CalendarTypeOK, ExpectToday, EnterForward, clock, file, classified
  <2>4. ASSUME LookBack PROVE CalendarTypeOK'
    BY <1>2, <2>4 DEF CalendarTypeOK, LookBack, clock, file, classified
  <2>5. ASSUME BackStep PROVE CalendarTypeOK'
    BY <1>2, <2>5 DEF CalendarTypeOK, BackStep, clock, file, classified
  <2>6. ASSUME BackFound PROVE CalendarTypeOK'
    BY <1>2, <2>6 DEF CalendarTypeOK, BackFound, EnterForward, clock, file, classified
  <2>7. ASSUME ForwardStep PROVE CalendarTypeOK'
    BY <1>2, <2>7 DEF CalendarTypeOK, ForwardStep, clock, file, classified
  <2>8. ASSUME ForwardFound PROVE CalendarTypeOK'
    BY <1>2, <2>8 DEF CalendarTypeOK, ForwardFound, clock, file, loop, classified
  <2>9. ASSUME LookFails PROVE CalendarTypeOK'
    BY <1>2, <2>9 DEF CalendarTypeOK, LookFails, clock, file, loop, classified
  <2>10. ASSUME ClassifyAtOnce PROVE CalendarTypeOK'
    BY <1>2, <2>10 DEF CalendarTypeOK, ClassifyAtOnce, CalendarStatuses, clock, file, loop
  <2>11. ASSUME StartCount PROVE CalendarTypeOK'
    BY <1>2, <2>11 DEF CalendarTypeOK, StartCount, CalendarStatuses, clock, file
  <2>12. ASSUME CountDay PROVE CalendarTypeOK'
    BY <1>2, <2>12 DEF CalendarTypeOK, CountDay, clock, file
  <2>13. ASSUME EndCount PROVE CalendarTypeOK'
    BY <1>2, <2>13 DEF CalendarTypeOK, EndCount, CalendarStatuses, clock, file, loop
  <2>14. ASSUME UNCHANGED calendarVars PROVE CalendarTypeOK'
    BY <1>2, <2>14 DEF CalendarTypeOK, calendarVars, clock, file, loop, classified
  <2> QED
    BY <1>2, <2>1, <2>2, <2>3, <2>4, <2>5, <2>6, <2>7, <2>8, <2>9, <2>10, <2>11, <2>12,
       <2>13, <2>14 DEF CalendarNext
<1> QED
  BY <1>1, <1>2, PTL DEF CalendarSpec

-------------------------------------------------------------------------------
(* The walks. *)

\* What the days a walk has passed say while it is under way.
BackInv ==
    pc = "back" =>
        /\ ~ (closed /\ IsTradingDay(asOf, holidays))
        /\ cur = asOf - 1 - (MaxLook - left)
        /\ \A d \in (cur + 1) .. (asOf - 1) : ~ IsTradingDay(d, holidays)

ForwardInv ==
    pc = "forward" =>
        /\ cur = expected + 1 + (MaxLook - left)
        /\ \A d \in (expected + 1) .. (cur - 1) : ~ IsTradingDay(d, holidays)

ExpectedInv ==
    pc \in {"forward", "ready", "count"} =>
        /\ expected = ExpectedSession(asOf, closed, holidays)
        /\ expected \in (asOf - MaxLook) .. asOf

WalkInv == BackInv /\ ForwardInv /\ ExpectedInv /\ SessionResolved

walkVars == <<asOf, closed, holidays, expected, planned>>

LEMMA WalkInvHolds == CalendarSpec => []WalkInv
<1> USE CalendarAssumption, MaxLookAssumption
<1> USE DEF WalkInv, BackInv, ForwardInv, ExpectedInv, SessionResolved, Resolved
<1>1. CalendarInit => WalkInv
  BY DEF CalendarInit
<1>2. ASSUME CalendarTypeOK, CalendarTypeOK', WalkInv, [CalendarNext]_calendarVars PROVE WalkInv'
  <2>0. /\ asOf \in Int /\ cur \in Int /\ expected \in Int
        /\ left \in 0 .. MaxLook /\ MaxLook \in Nat \ {0} /\ closed \in BOOLEAN
    BY <1>2 DEF CalendarTypeOK
  <2>1. ASSUME Block PROVE WalkInv'
    BY <2>1 DEF Block
  <2>2. ASSUME LoadHolidays PROVE WalkInv'
    BY <2>2 DEF LoadHolidays
  <2>3. ASSUME ExpectToday PROVE WalkInv'
    <3>1. ExpectedSession(asOf, closed, holidays) = asOf
      BY <2>3 DEF ExpectToday, ExpectedSession
    <3>2. pc' = "forward" /\ expected' = asOf /\ cur' = asOf + 1 /\ left' = MaxLook
          /\ UNCHANGED <<asOf, closed, holidays>>
      BY <2>3 DEF ExpectToday, EnterForward, clock
    <3> QED
      BY <2>0, <3>1, <3>2
  <2>4. ASSUME LookBack PROVE WalkInv'
    BY <2>0, <2>4 DEF LookBack, clock
  <2>5. ASSUME BackStep PROVE WalkInv'
    <3>1. /\ pc = "back" /\ pc' = "back" /\ cur' = cur - 1 /\ left' = left - 1
          /\ ~ IsTradingDay(cur, holidays) /\ UNCHANGED walkVars
      BY <2>5 DEF BackStep, clock, walkVars
    <3>2. \A d \in cur .. (asOf - 1) : ~ IsTradingDay(d, holidays)
      BY <1>2, <2>0, <3>1
    <3> QED
      BY <1>2, <2>0, <3>1, <3>2 DEF walkVars
  <2>6. ASSUME BackFound PROVE WalkInv'
    <3>1. /\ pc = "back" /\ left > 0 /\ IsTradingDay(cur, holidays)
          /\ pc' = "forward" /\ expected' = cur /\ cur' = cur + 1 /\ left' = MaxLook
          /\ UNCHANGED <<asOf, closed, holidays>>
      BY <2>6 DEF BackFound, EnterForward, clock
    <3>2. cur \in (asOf - MaxLook) .. (asOf - 1)
      BY <1>2, <2>0, <3>1
    <3>3. PreviousTradingDay(asOf, holidays) = cur
      BY <1>2, <2>0, <3>1, <3>2, PreviousIs
    <3>4. ExpectedSession(asOf, closed, holidays) = cur
      BY <1>2, <3>1, <3>3 DEF ExpectedSession
    <3> QED
      BY <2>0, <3>1, <3>2, <3>4
  <2>7. ASSUME ForwardStep PROVE WalkInv'
    <3>1. /\ pc = "forward" /\ pc' = "forward" /\ cur' = cur + 1 /\ left' = left - 1
          /\ ~ IsTradingDay(cur, holidays) /\ UNCHANGED walkVars
      BY <2>7 DEF ForwardStep, clock, walkVars
    <3>2. \A d \in (expected + 1) .. cur : ~ IsTradingDay(d, holidays)
      BY <1>2, <2>0, <3>1
    <3> QED
      BY <1>2, <2>0, <3>1, <3>2 DEF walkVars
  <2>8. ASSUME ForwardFound PROVE WalkInv'
    <3>1. /\ pc = "forward" /\ left > 0 /\ IsTradingDay(cur, holidays)
          /\ pc' = "ready" /\ planned' = cur
          /\ UNCHANGED <<asOf, closed, holidays, expected>>
      BY <2>8 DEF ForwardFound, clock
    <3>2. cur \in (expected + 1) .. (expected + MaxLook)
      BY <1>2, <2>0, <3>1
    <3>3. NextTradingDay(expected, holidays) = cur
      BY <1>2, <2>0, <3>1, <3>2, NextIs
    <3> QED
      BY <1>2, <3>1, <3>3
  <2>9. ASSUME LookFails PROVE WalkInv'
    <3>1. left = 0 /\ pc' = "error" /\ UNCHANGED <<walkVars, cur>>
      BY <2>9 DEF LookFails, clock, loop, walkVars
    <3>2. CASE pc = "back"
      <4>1. \A d \in (asOf - MaxLook) .. (asOf - 1) : ~ IsTradingDay(d, holidays)
        BY <1>2, <2>0, <3>1, <3>2
      <4>2. ExpectedSession(asOf, closed, holidays) = NoDay
        BY <1>2, <3>2, <4>1 DEF ExpectedSession, PreviousTradingDay
      <4> QED
        BY <3>1, <4>2 DEF walkVars
    <3>3. CASE pc = "forward"
      <4>1. \A d \in (expected + 1) .. (expected + MaxLook) : ~ IsTradingDay(d, holidays)
        BY <1>2, <2>0, <3>1, <3>3
      <4>2. NextTradingDay(expected, holidays) = NoDay
        BY <4>1 DEF NextTradingDay
      <4>3. expected = ExpectedSession(asOf, closed, holidays)
        BY <1>2, <3>3
      <4> QED
        BY <3>1, <4>2, <4>3 DEF walkVars
    <3> QED
      BY <2>9, <3>2, <3>3 DEF LookFails
  <2>10. ASSUME ClassifyAtOnce PROVE WalkInv'
    BY <1>2, <2>10 DEF ClassifyAtOnce, clock
  <2>11. ASSUME StartCount PROVE WalkInv'
    BY <1>2, <2>11 DEF StartCount, clock
  <2>12. ASSUME CountDay PROVE WalkInv'
    BY <1>2, <2>12 DEF CountDay, clock
  <2>13. ASSUME EndCount PROVE WalkInv'
    BY <1>2, <2>13 DEF EndCount, clock
  <2>14. ASSUME UNCHANGED calendarVars PROVE WalkInv'
    BY <1>2, <2>14 DEF calendarVars, clock, loop
  <2> QED
    BY <1>2, <2>1, <2>2, <2>3, <2>4, <2>5, <2>6, <2>7, <2>8, <2>9, <2>10, <2>11, <2>12,
       <2>13, <2>14 DEF CalendarNext
<1> QED
  BY <1>1, <1>2, CalendarTypeCorrect, PTL DEF CalendarSpec

\* The walks resolve the sessions their docstrings define, and fail only when
\* there is none within their bound (previous_trading_day, next_trading_day).
THEOREM SessionsResolved == CalendarSpec => []SessionResolved
<1>1. WalkInv => SessionResolved
  BY DEF WalkInv
<1> QED
  BY <1>1, WalkInvHolds, PTL

-------------------------------------------------------------------------------
(* The count. *)

CountInv ==
    /\ pc = "count" =>
          /\ last \in BarDays
          /\ last < cur /\ cur <= expected + 1
          /\ count = SessionsBetween(last, cur - 1, holidays)
    /\ pc # "ready" => status = "none"
    /\ StatusCountsSessions

LEMMA CountInvHolds == CalendarSpec => []CountInv
<1> USE CalendarAssumption
<1> USE DEF CountInv, StatusCountsSessions
<1>1. CalendarInit => CountInv
  BY DEF CalendarInit
<1>2. ASSUME CalendarTypeOK, CountInv, [CalendarNext]_calendarVars PROVE CountInv'
  <2>0. /\ cur \in Int /\ expected \in Int /\ count \in Nat
        /\ BarDays \subseteq Nat
    BY <1>2 DEF CalendarTypeOK
  <2>1. ASSUME Block PROVE CountInv'
    BY <1>2, <2>1 DEF Block, classified
  <2>2. ASSUME LoadHolidays PROVE CountInv'
    BY <1>2, <2>2 DEF LoadHolidays, classified
  <2>3. ASSUME ExpectToday PROVE CountInv'
    BY <1>2, <2>3 DEF ExpectToday, EnterForward, classified
  <2>4. ASSUME LookBack PROVE CountInv'
    BY <1>2, <2>4 DEF LookBack, classified
  <2>5. ASSUME BackStep PROVE CountInv'
    BY <1>2, <2>5 DEF BackStep, classified
  <2>6. ASSUME BackFound PROVE CountInv'
    BY <1>2, <2>6 DEF BackFound, EnterForward, classified
  <2>7. ASSUME ForwardStep PROVE CountInv'
    BY <1>2, <2>7 DEF ForwardStep, classified
  <2>8. ASSUME ForwardFound PROVE CountInv'
    BY <1>2, <2>8 DEF ForwardFound, classified
  <2>9. ASSUME LookFails PROVE CountInv'
    BY <1>2, <2>9 DEF LookFails, classified
  <2>10. ASSUME ClassifyAtOnce PROVE CountInv'
    <3>1. pc = "ready" /\ pc' = "ready" /\ UNCHANGED <<expected, holidays>>
      BY <2>10 DEF ClassifyAtOnce
    <3>2. \/ last' = NoDay /\ status' = "MISSING"
          \/ last' # NoDay /\ last' > expected /\ status' = "INVALID"
      BY <2>0, <2>10 DEF ClassifyAtOnce, NoDay
    <3> QED
      BY <3>1, <3>2 DEF ClassifyDataStatus
  <2>11. ASSUME StartCount PROVE CountInv'
    <3>1. PICK b \in BarDays : b <= expected /\ last' = b /\ cur' = b + 1
      BY <2>11 DEF StartCount
    <3>2. /\ count' = 0 /\ status' = "none" /\ pc' = "count"
          /\ UNCHANGED <<expected, holidays>>
      BY <2>11 DEF StartCount
    <3>3. b \in Int /\ (b + 1) - 1 = b /\ b < b + 1 /\ b + 1 <= expected + 1
      BY <2>0, <3>1
    <3>4. SessionsBetween(b, (b + 1) - 1, holidays) = 0
      BY <3>3, CountOfNothing
    <3> QED
      BY <3>1, <3>2, <3>3, <3>4
  <2>12. ASSUME CountDay PROVE CountInv'
    <3>1. /\ pc = "count" /\ pc' = "count" /\ cur <= expected /\ cur' = cur + 1
          /\ count' = IF IsTradingDay(cur, holidays) THEN count + 1 ELSE count
          /\ UNCHANGED <<expected, holidays, last, status>>
      BY <2>12 DEF CountDay
    <3>2. last \in Int /\ last <= cur - 1 /\ (cur - 1) + 1 = cur
      <4>1. last \in BarDays /\ last < cur
        BY <1>2, <3>1
      <4> QED
        BY <2>0, <4>1
    <3>3. SessionsBetween(last, cur, holidays) =
             IF IsTradingDay(cur, holidays) THEN SessionsBetween(last, cur - 1, holidays) + 1
             ELSE SessionsBetween(last, cur - 1, holidays)
      <4> DEFINE d == cur - 1
      <4>1. d \in Int /\ last <= d /\ d + 1 = cur
        BY <2>0, <3>2
      <4> HIDE DEF d
      <4>2. SessionsBetween(last, d + 1, holidays) =
               IF IsTradingDay(d + 1, holidays) THEN SessionsBetween(last, d, holidays) + 1
               ELSE SessionsBetween(last, d, holidays)
        BY <3>2, <4>1, CountedDay
      <4> QED
        BY <4>1, <4>2 DEF d
    <3>4. cur' - 1 = cur
      BY <2>0, <3>1
    <3> QED
      BY <1>2, <2>0, <3>1, <3>2, <3>3, <3>4
  <2>13. ASSUME EndCount PROVE CountInv'
    <3>1. /\ pc = "count" /\ pc' = "ready" /\ cur > expected
          /\ UNCHANGED <<expected, holidays, last>>
      BY <2>13 DEF EndCount
    <3>2. /\ last \in BarDays /\ last < cur /\ cur <= expected + 1
          /\ count = SessionsBetween(last, cur - 1, holidays)
      BY <1>2, <3>1
    <3>3. /\ last \in Int /\ last # NoDay /\ last <= expected /\ cur - 1 = expected
          /\ ~ (last > expected)
      BY <2>0, <3>1, <3>2 DEF NoDay
    <3>4. status' = CASE count = 0 -> "CURRENT"
                      [] count = 1 -> "STALE_1_SESSION"
                      [] OTHER     -> "STALE_2_PLUS"
      BY <2>13 DEF EndCount
    <3> QED
      BY <3>1, <3>2, <3>3, <3>4 DEF ClassifyDataStatus
  <2>14. ASSUME UNCHANGED calendarVars PROVE CountInv'
    BY <1>2, <2>14 DEF calendarVars, loop, classified
  <2> QED
    BY <1>2, <2>1, <2>2, <2>3, <2>4, <2>5, <2>6, <2>7, <2>8, <2>9, <2>10, <2>11, <2>12,
       <2>13, <2>14 DEF CalendarNext
<1> QED
  BY <1>1, <1>2, CalendarTypeCorrect, PTL DEF CalendarSpec

\* Every bar gets the status of the sessions between it and the expected one,
\* whatever weekends and holidays lie between (classify_data_status).
THEOREM StatusesCountSessions == CalendarSpec => []StatusCountsSessions
<1>1. CountInv => StatusCountsSessions
  BY DEF CountInv
<1> QED
  BY <1>1, CountInvHolds, PTL

(* Both: the session, the plan and every status a run shows are those the      *)
(* docstrings of data/calendar.py define.                                      *)
THEOREM AnswersDefined == CalendarSpec => []AnswersAsDefined
<1>1. SessionResolved /\ StatusCountsSessions => AnswersAsDefined
  BY DEF AnswersAsDefined
<1> QED
  BY <1>1, SessionsResolved, StatusesCountSessions, PTL

-------------------------------------------------------------------------------
(* Strict runs. *)

LEMMA YearsMonotone ==
    ASSUME NEW a \in Int, NEW b \in Int, a <= b
    PROVE  YearOf(a) \in Int /\ YearOf(b) \in Int /\ YearOf(a) <= YearOf(b)
<1> DEFINE n == YearLength
           p == a \div n
           q == b \div n
<1>1. n \in Nat /\ n > 0
  BY CalendarAssumption
<1>2. p \in Int /\ q \in Int
  BY <1>1
<1>3. a >= n * p /\ b < n * q + n
  BY <1>1
<1>4. ~ (q + 1 <= p)
  <2> SUFFICES ASSUME q + 1 <= p PROVE FALSE
    OBVIOUS
  <2> HIDE DEF n, p, q
  <2>1. n * (q + 1) <= n * p
    BY <1>1, <1>2
  <2>2. n * (q + 1) = n * q + n
    BY <1>1, <1>2
  <2> QED
    BY <1>1, <1>2, <1>3, <2>1, <2>2
<1>5. p <= q
  BY <1>2, <1>4
<1> QED
  BY <1>2, <1>5 DEF YearOf

\* A strict run past its gate knows every holiday of the years it needs.
StrictInv ==
    (strict /\ pc \notin {"load", "blocked"}) =>
        holidays = {d \in official : YearOf(d) \in RequiredYears(asOf)}

LEMMA StrictInvHolds == CalendarSpec => []StrictInv
<1> USE DEF StrictInv
<1>1. CalendarInit => StrictInv
  BY DEF CalendarInit
<1>2. ASSUME StrictInv, [CalendarNext]_calendarVars PROVE StrictInv'
  <2>1. CASE LoadHolidays
    BY <2>1 DEF LoadHolidays, clock, file
  <2>2. CASE Block
    BY <2>2 DEF Block
  <2>3. CASE ~ LoadHolidays /\ ~ Block
    <3>1. UNCHANGED <<asOf, strict, official, holidays>>
      BY <1>2, <2>3 DEF CalendarNext, ExpectToday, LookBack, BackStep, BackFound, EnterForward,
         ForwardStep, ForwardFound, LookFails, ClassifyAtOnce, StartCount, CountDay, EndCount,
         calendarVars, clock, file
    <3>2. pc' \notin {"load", "blocked"} => pc \notin {"load", "blocked"}
      BY <1>2, <2>3 DEF CalendarNext, ExpectToday, LookBack, BackStep, BackFound,
         ForwardStep, ForwardFound, LookFails, ClassifyAtOnce, StartCount, CountDay, EndCount,
         calendarVars
    <3> QED
      BY <1>2, <3>1, <3>2
  <2> QED
    BY <2>1, <2>2, <2>3
<1> QED
  BY <1>1, <1>2, PTL DEF CalendarSpec

\* ... and so every holiday in its window.
LEMMA WindowIsOfficial ==
    ASSUME CalendarTypeOK, StrictInv, strict, Resolved
    PROVE  Agree(holidays, official, asOf - Window, asOf + Window)
<1>1. asOf \in Int /\ Window \in Nat
  BY CalendarAssumption DEF CalendarTypeOK
<1>2. ASSUME NEW d \in (asOf - Window) .. (asOf + Window)
      PROVE  YearOf(d) \in RequiredYears(asOf)
  <2>1. /\ YearOf(asOf - Window) \in Int /\ YearOf(d) \in Int /\ YearOf(asOf + Window) \in Int
        /\ YearOf(asOf - Window) <= YearOf(d)
        /\ YearOf(d) <= YearOf(asOf + Window)
    BY <1>1, YearsMonotone
  <2> QED
    BY <2>1 DEF RequiredYears
<1>3. holidays = {d \in official : YearOf(d) \in RequiredYears(asOf)}
  BY DEF StrictInv, Resolved
<1> QED
  BY <1>2, <1>3 DEF Agree

\* What a strict run resolves is what NSE's full calendar says.
LEMMA StrictResolvesOfficial ==
    ASSUME CalendarTypeOK, WalkInv, StrictInv, Resolved, strict
    PROVE  /\ expected \in (asOf - MaxLook) .. asOf
           /\ expected = ExpectedSession(asOf, closed, official)
           /\ planned = NextTradingDay(expected, official)
<1> USE CalendarAssumption, MaxLookAssumption
<1>1. /\ asOf \in Int /\ expected \in Int /\ Window \in Nat /\ MaxLook \in Nat
      /\ MaxLook <= Window
  BY DEF CalendarTypeOK
<1>2. /\ expected \in (asOf - MaxLook) .. asOf
      /\ expected = ExpectedSession(asOf, closed, holidays)
      /\ planned = NextTradingDay(expected, holidays)
  BY DEF WalkInv, ExpectedInv, SessionResolved, Resolved
<1>3. Agree(holidays, official, asOf - Window, asOf + Window)
  BY WindowIsOfficial
<1>4. IsTradingDay(asOf, holidays) <=> IsTradingDay(asOf, official)
  BY <1>1, <1>3 DEF Agree, IsTradingDay
<1>5. PreviousTradingDay(asOf, holidays) = PreviousTradingDay(asOf, official)
  <2>1. Agree(holidays, official, asOf - MaxLook, asOf - 1)
    BY <1>1, <1>3 DEF Agree
  <2> QED
    BY <1>1, <2>1, PreviousAgrees
<1>6. NextTradingDay(expected, holidays) = NextTradingDay(expected, official)
  <2>1. Agree(holidays, official, expected + 1, expected + MaxLook)
    BY <1>1, <1>2, <1>3 DEF Agree
  <2> QED
    BY <1>1, <2>1, NextAgrees
<1> QED
  BY <1>2, <1>4, <1>5, <1>6 DEF ExpectedSession

\* A strict run never guesses: required_holiday_years covers all the two walks
\* can reach, across any year boundary.
THEOREM StrictRunsNeverGuess == CalendarSpec => []StrictNeverGuesses
<1>1. CalendarTypeOK /\ WalkInv /\ StrictInv => StrictNeverGuesses
  BY StrictResolvesOfficial DEF StrictNeverGuesses
<1> QED
  BY <1>1, CalendarTypeCorrect, WalkInvHolds, StrictInvHolds, PTL

\* Nor does its staleness, however old the bar: a holiday outside the window can
\* only matter to a bar already two sessions behind.
THEOREM StrictStatusesOfficial == CalendarSpec => []StrictStatusIsOfficial
<1> USE CalendarAssumption, MaxLookAssumption
<1>1. ASSUME CalendarTypeOK, WalkInv, StrictInv, CountInv PROVE StrictStatusIsOfficial
  <2> SUFFICES ASSUME status # "none", strict,
                      SessionsBetween(asOf - Window, expected, official) > 1
               PROVE  status = ClassifyDataStatus(last, expected, official)
    BY DEF StrictStatusIsOfficial
  <2>1. Resolved /\ status = ClassifyDataStatus(last, expected, holidays)
    BY <1>1 DEF CountInv, StatusCountsSessions, Resolved
  <2>2. /\ asOf \in Int /\ expected \in Int /\ last \in Int /\ Window \in Nat
        /\ asOf - Window \in Int
    BY <1>1 DEF CalendarTypeOK, NoDay
  <2>3. expected <= asOf
    BY <1>1, <2>1, <2>2, StrictResolvesOfficial
  <2>4. Agree(holidays, official, asOf - Window, asOf + Window)
    BY <1>1, <2>1, WindowIsOfficial
  <2>5. CASE last = NoDay \/ last > expected
    BY <2>1, <2>5 DEF ClassifyDataStatus
  <2>6. CASE last # NoDay /\ ~ (last > expected) /\ last >= asOf - Window
    <3>1. Agree(holidays, official, last + 1, expected)
      BY <2>2, <2>3, <2>4, <2>6 DEF Agree
    <3>2. SessionsBetween(last, expected, holidays) = SessionsBetween(last, expected, official)
      BY <2>2, <3>1, CountAgrees
    <3> QED
      BY <2>1, <2>6, <3>2 DEF ClassifyDataStatus
  <2>7. CASE last # NoDay /\ ~ (last > expected) /\ last < asOf - Window
    <3>1. SessionsBetween(asOf - Window, expected, holidays)
             = SessionsBetween(asOf - Window, expected, official)
      <4>1. Agree(holidays, official, (asOf - Window) + 1, expected)
        BY <2>2, <2>3, <2>4 DEF Agree
      <4> QED
        BY <2>2, <4>1, CountAgrees
    <3>2. /\ SessionsBetween(last, expected, holidays) \in Nat
          /\ SessionsBetween(last, expected, official) \in Nat
          /\ SessionsBetween(asOf - Window, expected, official) \in Nat
          /\ SessionsBetween(last, expected, holidays) >=
                SessionsBetween(asOf - Window, expected, holidays)
          /\ SessionsBetween(last, expected, official) >=
                SessionsBetween(asOf - Window, expected, official)
      BY <2>2, <2>7, CountMonotone
    <3>3. /\ SessionsBetween(last, expected, holidays) > 1
          /\ SessionsBetween(last, expected, official) > 1
      BY <3>1, <3>2
    <3>4. /\ SessionsBetween(last, expected, holidays) \notin {0, 1}
          /\ SessionsBetween(last, expected, official) \notin {0, 1}
      BY <3>2, <3>3
    <3> QED
      BY <2>1, <2>7, <3>4 DEF ClassifyDataStatus
  <2> QED
    BY <2>5, <2>6, <2>7, <2>2
<1> QED
  BY <1>1, CalendarTypeCorrect, WalkInvHolds, StrictInvHolds, CountInvHolds, PTL

\* Both: what a strict run shows is what NSE's own calendar gives, across years
\* and for bars of any age.
THEOREM StrictRunsOfficial == CalendarSpec => []StrictRunsAreOfficial
<1>1. StrictNeverGuesses /\ StrictStatusIsOfficial => StrictRunsAreOfficial
  BY DEF StrictRunsAreOfficial
<1> QED
  BY <1>1, StrictRunsNeverGuess, StrictStatusesOfficial, PTL

=============================================================================
