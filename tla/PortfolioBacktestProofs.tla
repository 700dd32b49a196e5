---------------------- MODULE PortfolioBacktestProofs ----------------------
(***************************************************************************)
(* Proofs about PortfolioBacktest, for every list of candidates, whatever  *)
(* their number, dates and prices, and every limit.                        *)
(***************************************************************************)
EXTENDS PortfolioBacktest, PositionSizing, SumProofs, SequenceTheorems

-------------------------------------------------------------------------------
(* A set of dates has a first one. *)

LEMMA FirstIs ==
    ASSUME NEW S \in SUBSET Nat, S # {}
    PROVE  First(S) \in S /\ \A y \in S : First(S) <= y
<1>1. PICK x \in S : \A y \in S : ~ (<<y, x>> \in OpToRel(<, Nat))
  BY WFMin, NatLessThanWellFounded, Zenon
<1>2. \A y \in S : ~ (y < x)
  BY <1>1 DEF OpToRel
<1>3. \A y \in S : x <= y
  BY <1>2
<1> QED
  BY <1>3, Zenon DEF First

-------------------------------------------------------------------------------
(* The inductive invariant behind CandidatesAccountedFor.                   *)

Types ==
    /\ cands \in Inputs
    /\ phase \in {"close", "fill", "mark", "measure", "done"}
    /\ today \in Nat
    /\ open \subseteq Ids
    /\ pending \subseteq Ids
    /\ taken \subseteq Ids
    /\ skipped \subseteq Ids
    /\ closed \in Seq(Ids)

(* The loop stands on a date of the run; only while it fills are there      *)
(* candidates of the date still to be considered.                           *)
Standing ==
    /\ phase \in {"close", "fill", "mark"} => today \in AllDates
    /\ phase # "fill" => pending = {}
    /\ \A i \in pending : cands[i].entry = today

Partition ==
    /\ taken \cap skipped = {}
    /\ Closed \cap open = {}
    /\ Closed \cup open = taken
    /\ \A m, n \in DOMAIN closed : closed[m] = closed[n] => m = n

Entered(i) == i \in taken \cup skipped <=> cands[i].entry \in AllDates /\ FillsDone(i)

Leaves(i) == cands[i].exit \in AllDates /\ cands[i].exit > cands[i].entry

Left(i) ==
    i \in taken => /\ i \in Closed => Leaves(i)
                   /\ Leaves(i) /\ ExitsDone(i) => i \in Closed

IInv ==
    /\ Types
    /\ Standing
    /\ Partition
    /\ \A i \in Ids : Entered(i) /\ Left(i)

(* Candidates are numbered, and their dates and those of their bars are     *)
(* numbers.                                                                 *)
LEMMA Dated ==
    ASSUME cands \in Inputs
    PROVE  /\ Ids \in SUBSET Nat
           /\ AllDates \in SUBSET Nat
           /\ \A i \in Ids : cands[i].entry \in Nat /\ cands[i].exit \in Nat
<1>1. /\ cands \in Seq({cands[i] : i \in DOMAIN cands})
      /\ \A i \in DOMAIN cands : CandidateOK(cands[i])
  BY BacktestAssumption
<1>2. Ids = 1 .. Len(cands)
  BY <1>1 DEF Ids
<1>3. \A i \in Ids : CandidateOK(cands[i])
  BY <1>1 DEF Ids
<1>4. AllDates \in SUBSET Nat
  BY <1>3 DEF AllDates, CandidateOK
<1>5. Ids \in SUBSET Nat
  BY <1>1, <1>2
<1> QED
  BY <1>3, <1>4, <1>5 DEF CandidateOK

LEMMA RangeOfAppend ==
    ASSUME NEW S, NEW s \in Seq(S), NEW x \in S
    PROVE  /\ Append(s, x) \in Seq(S)
           /\ Range(Append(s, x)) = Range(s) \cup {x}
           /\ x \notin Range(s)
              /\ (\A m, n \in DOMAIN s : s[m] = s[n] => m = n)
              => \A m, n \in DOMAIN Append(s, x) :
                    Append(s, x)[m] = Append(s, x)[n] => m = n
<1> DEFINE t == Append(s, x)
<1>1. /\ t \in Seq(S)
      /\ DOMAIN s = 1 .. Len(s)
      /\ DOMAIN t = 1 .. Len(s) + 1
      /\ Len(s) \in Nat
      /\ \A n \in 1 .. Len(s) : t[n] = s[n]
      /\ t[Len(s) + 1] = x
  OBVIOUS
<1>2. Range(t) = Range(s) \cup {x}
  BY <1>1 DEF Range
<1>3. ASSUME x \notin Range(s),
             \A m, n \in DOMAIN s : s[m] = s[n] => m = n,
             NEW m \in DOMAIN t, NEW n \in DOMAIN t, t[m] = t[n]
      PROVE  m = n
  <2> HIDE DEF t
  <2>1. \A k \in 1 .. Len(s) : t[k] \in Range(s)
    BY <1>1 DEF Range
  <2> QED
    BY <1>1, <1>3, <2>1
<1> QED
  BY <1>1, <1>2, <1>3

LEMMA InitIInv == Init => IInv
<1> SUFFICES ASSUME Init PROVE IInv
  OBVIOUS
<1>1. /\ Ids \in SUBSET Nat /\ AllDates \in SUBSET Nat
      /\ \A i \in Ids : cands[i].entry \in Nat /\ cands[i].exit \in Nat
  BY Dated DEF Init
<1>2. AllDates # {} => /\ today \in AllDates
                       /\ \A d \in AllDates : today <= d
  BY <1>1, FirstIs DEF Init
<1>8. /\ cands \in Inputs /\ phase \in {"close", "measure"}
      /\ AllDates = {} => today = 0 /\ phase = "measure"
      /\ AllDates # {} => phase = "close"
      /\ open = {} /\ pending = {} /\ taken = {} /\ skipped = {} /\ closed = << >>
  BY Zenon DEF Init
<1>3. Types
  <2>1. today \in Nat
    <3>1. CASE AllDates = {}
      <4>1. today = 0
        BY <1>8, <3>1
      <4> QED
        BY <4>1
    <3>2. CASE AllDates # {}
      BY <1>1, <1>2, <3>2
    <3> QED
      BY <3>1, <3>2
  <2>2. closed \in Seq(Ids)
    BY <1>8
  <2> QED
    BY <1>8, <2>1, <2>2 DEF Types
<1>4. Standing
  BY <1>2 DEF Standing, Init
<1>5. Closed = {}
  BY DEF Closed, Range, Init
<1>6. Partition
  BY <1>5 DEF Partition, Init
<1>7. ASSUME NEW i \in Ids
      PROVE  Entered(i) /\ Left(i)
  <2>1. cands[i].entry \in AllDates => ~FillsDone(i)
    <3>1. SUFFICES ASSUME cands[i].entry \in AllDates PROVE ~FillsDone(i)
      OBVIOUS
    <3>2. today <= cands[i].entry /\ phase = "close" /\ today \in Nat
      BY <1>8, <1>2, <1>3, <3>1 DEF Types
    <3> QED
      BY <1>1, <3>2 DEF FillsDone
  <2> QED
    BY <2>1 DEF Entered, Left, Init
<1> QED
  BY <1>3, <1>4, <1>6, <1>7 DEF IInv

(* The exits of a date: a position whose exit is today entered on an earlier *)
(* date, for the fills of today are still to come.                           *)
LEMMA ClosePositionKeeps == IInv /\ ClosePosition => IInv'
<1> SUFFICES ASSUME IInv, ClosePosition PROVE IInv'
  OBVIOUS
<1>1. /\ Ids \in SUBSET Nat /\ AllDates \in SUBSET Nat
      /\ \A i \in Ids : cands[i].entry \in Nat /\ cands[i].exit \in Nat
  BY Dated DEF IInv, Types
<1> DEFINE j == First(Due)
<1>2. Due \in SUBSET Nat /\ Due # {}
  BY <1>1 DEF Due, ClosePosition, IInv, Types
<1>3. j \in Due
  BY <1>2, FirstIs
<1>4. j \in open /\ j \in Ids /\ cands[j].exit = today
  BY <1>3 DEF Due, IInv, Types
<1> HIDE DEF j
<1>5. /\ open' = open \ {j}
      /\ closed' = Append(closed, j)
      /\ UNCHANGED <<cands, phase, today, pending, taken, skipped>>
  BY DEF ClosePosition, j
<1>6. Ids' = Ids /\ AllDates' = AllDates
  BY <1>5 DEF Ids, AllDates
<1>7. /\ closed \in Seq(Ids) /\ j \notin Closed
      /\ \A m, n \in DOMAIN closed : closed[m] = closed[n] => m = n
  BY <1>4 DEF IInv, Types, Partition
<1>8. /\ closed' \in Seq(Ids)
      /\ Closed' = Closed \cup {j}
      /\ \A m, n \in DOMAIN closed' : closed'[m] = closed'[n] => m = n
  BY <1>4, <1>5, <1>7, RangeOfAppend DEF Closed
<1>9. Types'
  BY <1>5, <1>6, <1>8 DEF IInv, Types
<1>10. Standing'
  BY <1>5, <1>6 DEF IInv, Standing
<1>11. Partition'
  BY <1>4, <1>5, <1>8 DEF IInv, Partition
<1>12. phase = "close" /\ today \in AllDates /\ j \in taken
  BY <1>4 DEF ClosePosition, IInv, Standing, Partition
<1>13. Leaves(j)
  <2>1. FillsDone(j)
    BY <1>4, <1>12 DEF IInv, Entered
  <2>2. cands[j].entry < today
    BY <1>12, <2>1 DEF FillsDone
  <2> QED
    BY <1>1, <1>4, <1>12, <2>2 DEF Leaves
<1>14. ASSUME NEW i \in Ids
       PROVE  Entered(i)' /\ Left(i)'
  <2>1. Entered(i)'
    BY <1>5, <1>6 DEF IInv, Entered, FillsDone
  <2>2. Leaves(i)' = Leaves(i) /\ ExitsDone(i)' = ExitsDone(i)
    BY <1>5, <1>6 DEF Leaves, ExitsDone
  <2>3. Left(i)'
    BY <1>5, <1>8, <1>13, <2>2 DEF IInv, Left
  <2> QED
    BY <2>1, <2>3
<1> QED
  BY <1>6, <1>9, <1>10, <1>11, <1>14 DEF IInv

LEMMA StartFillingKeeps == IInv /\ StartFilling => IInv'
<1> SUFFICES ASSUME IInv, StartFilling PROVE IInv'
  OBVIOUS
<1>1. /\ phase = "close" /\ phase' = "fill" /\ Due = {}
      /\ pending' = {i \in Ids : cands[i].entry = today}
      /\ UNCHANGED <<cands, today, open, taken, skipped, closed>>
  BY DEF StartFilling
<1>2. Ids' = Ids /\ AllDates' = AllDates /\ Closed' = Closed
  BY <1>1 DEF Ids, AllDates, Closed
<1>3. Types' /\ Standing' /\ Partition'
  BY <1>1, <1>2 DEF IInv, Types, Standing, Partition
<1>4. ASSUME NEW i \in Ids
      PROVE  Entered(i)' /\ Left(i)'
  <2>1. FillsDone(i)' = FillsDone(i)
    BY <1>1, <1>2 DEF FillsDone
  <2>2. Entered(i)'
    BY <1>1, <1>2, <2>1 DEF IInv, Entered
  <2>3. i \in taken /\ i \notin Closed => cands[i].exit # today
    BY <1>1 DEF IInv, Partition, Due
  <2>4. Leaves(i)' = Leaves(i)
    BY <1>1, <1>2 DEF Leaves
  <2>5. ExitsDone(i)' => ExitsDone(i) \/ cands[i].exit = today
    BY <1>1 DEF ExitsDone
  <2>6. Left(i)'
    BY <1>1, <1>2, <2>3, <2>4, <2>5 DEF IInv, Left
  <2> QED
    BY <2>2, <2>6
<1> QED
  BY <1>2, <1>3, <1>4 DEF IInv

(* A candidate considered enters the taken or the skipped, and is pending   *)
(* no more.                                                                 *)
LEMMA FirstPending ==
    ASSUME IInv, pending # {}
    PROVE  LET i == First(pending)
           IN i \in pending /\ i \in Ids /\ i \notin taken \cup skipped
<1> DEFINE j == First(pending)
<1>1. /\ Ids \in SUBSET Nat
      /\ \A i \in Ids : cands[i].entry \in Nat
  BY Dated DEF IInv, Types
<1>2. j \in pending
  BY <1>1, FirstIs DEF IInv, Types
<1> HIDE DEF j
<1>3. j \in Ids /\ cands[j].entry = today /\ phase = "fill"
  BY <1>2 DEF IInv, Types, Standing
<1>4. ~FillsDone(j)
  BY <1>1, <1>2, <1>3 DEF FillsDone
<1> QED
  BY <1>2, <1>3, <1>4 DEF IInv, Entered, j

LEMMA FillKeeps == IInv /\ Fill => IInv'
<1> SUFFICES ASSUME IInv, Fill PROVE IInv'
  OBVIOUS
<1>0. PICK j : j = First(pending)
  OBVIOUS
<1>1. j \in pending /\ j \in Ids /\ j \notin taken \cup skipped
  BY <1>0, FirstPending DEF Fill
<1>2. /\ phase = "fill"
      /\ open' = open \cup {j}
      /\ taken' = taken \cup {j}
      /\ pending' = pending \ {j}
      /\ UNCHANGED <<cands, phase, today, skipped, closed>>
  BY <1>0 DEF Fill
<1>3. Ids' = Ids /\ AllDates' = AllDates /\ Closed' = Closed
  BY <1>2 DEF Ids, AllDates, Closed
<1>4. Types'
  BY <1>1, <1>2, <1>3 DEF IInv, Types
<1>5. Standing'
  BY <1>2, <1>3 DEF IInv, Standing
<1>6. j \notin Closed
  BY <1>1 DEF IInv, Partition
<1>7. Partition'
  BY <1>1, <1>2, <1>3, <1>6 DEF IInv, Partition
<1>8. /\ cands[j].entry = today /\ today \in AllDates /\ today \in Nat
      /\ cands[j].exit \in Nat
  BY <1>1, <1>2, Dated DEF IInv, Standing, Types
<1>9. ASSUME NEW i \in Ids
      PROVE  Entered(i)' /\ Left(i)'
  <2>1. /\ Leaves(i)' = Leaves(i)
        /\ ExitsDone(i)' = ExitsDone(i)
        /\ i # j => FillsDone(i)' = FillsDone(i)
    BY <1>2, <1>3 DEF Leaves, ExitsDone, FillsDone
  <2>2. CASE i = j
    <3>1. FillsDone(j)'
      BY <1>2, <1>8 DEF FillsDone
    <3>2. ~(Leaves(j) /\ ExitsDone(j))
      BY <1>2, <1>8 DEF Leaves, ExitsDone
    <3> QED
      BY <1>2, <1>3, <1>6, <1>8, <2>1, <2>2, <3>1, <3>2 DEF Entered, Left
  <2>3. CASE i # j
    BY <1>2, <1>3, <2>1, <2>3 DEF IInv, Entered, Left
  <2> QED
    BY <2>2, <2>3
<1> QED
  BY <1>3, <1>4, <1>5, <1>7, <1>9 DEF IInv

LEMMA SkipKeeps == IInv /\ Skip => IInv'
<1> SUFFICES ASSUME IInv, Skip PROVE IInv'
  OBVIOUS
<1>0. PICK j : j = First(pending)
  OBVIOUS
<1>1. j \in pending /\ j \in Ids /\ j \notin taken \cup skipped
  BY <1>0, FirstPending DEF Skip
<1>2. /\ phase = "fill"
      /\ skipped' = skipped \cup {j}
      /\ pending' = pending \ {j}
      /\ UNCHANGED <<cands, phase, today, open, taken, closed>>
  BY <1>0 DEF Skip
<1>3. Ids' = Ids /\ AllDates' = AllDates /\ Closed' = Closed
  BY <1>2 DEF Ids, AllDates, Closed
<1>4. Types'
  BY <1>1, <1>2, <1>3 DEF IInv, Types
<1>5. Standing'
  BY <1>2, <1>3 DEF IInv, Standing
<1>6. Partition'
  BY <1>1, <1>2, <1>3 DEF IInv, Partition
<1>7. cands[j].entry = today /\ today \in AllDates
  BY <1>1, <1>2 DEF IInv, Standing
<1>8. ASSUME NEW i \in Ids
      PROVE  Entered(i)' /\ Left(i)'
  <2>1. /\ Leaves(i)' = Leaves(i)
        /\ ExitsDone(i)' = ExitsDone(i)
        /\ i # j => FillsDone(i)' = FillsDone(i)
    BY <1>2, <1>3 DEF Leaves, ExitsDone, FillsDone
  <2>2. Left(i)'
    BY <1>2, <1>3, <2>1 DEF IInv, Left
  <2>3. CASE i = j
    <3>1. FillsDone(j)'
      BY <1>2, <1>7 DEF FillsDone
    <3> QED
      BY <1>2, <1>3, <1>7, <2>2, <2>3, <3>1 DEF Entered
  <2>4. CASE i # j
    BY <1>2, <1>3, <2>1, <2>2, <2>4 DEF IInv, Entered
  <2> QED
    BY <2>3, <2>4
<1> QED
  BY <1>3, <1>4, <1>5, <1>6, <1>8 DEF IInv

LEMMA StopFillingKeeps == IInv /\ StopFilling => IInv'
<1> SUFFICES ASSUME IInv, StopFilling PROVE IInv'
  OBVIOUS
<1>1. /\ phase = "fill" /\ phase' = "mark" /\ pending = {}
      /\ UNCHANGED <<cands, today, open, pending, taken, skipped, closed>>
  BY DEF StopFilling
<1>2. Ids' = Ids /\ AllDates' = AllDates /\ Closed' = Closed
  BY <1>1 DEF Ids, AllDates, Closed
<1>3. Types' /\ Standing' /\ Partition'
  BY <1>1, <1>2 DEF IInv, Types, Standing, Partition
<1>4. ASSUME NEW i \in Ids
      PROVE  Entered(i)' /\ Left(i)'
  <2>1. /\ Leaves(i)' = Leaves(i)
        /\ ExitsDone(i)' = ExitsDone(i)
        /\ FillsDone(i)' = FillsDone(i)
    BY <1>1, <1>2 DEF Leaves, ExitsDone, FillsDone
  <2> QED
    BY <1>1, <1>2, <2>1 DEF IInv, Entered, Left
<1> QED
  BY <1>2, <1>3, <1>4 DEF IInv

(* Marking the book moves to the next date of the run, if there is one: no   *)
(* entry or exit falls on a date in between, for all of them are dates of    *)
(* the run.                                                                  *)
LEMMA MarkKeeps == IInv /\ Mark => IInv'
<1> SUFFICES ASSUME IInv, Mark PROVE IInv'
  OBVIOUS
<1>1. /\ phase = "mark"
      /\ UNCHANGED <<cands, open, pending, taken, skipped, closed>>
  BY DEF Mark
<1>2. Ids' = Ids /\ AllDates' = AllDates /\ Closed' = Closed
  BY <1>1 DEF Ids, AllDates, Closed
<1>3. /\ Ids \in SUBSET Nat /\ AllDates \in SUBSET Nat
      /\ \A i \in Ids : cands[i].entry \in Nat /\ cands[i].exit \in Nat
      /\ today \in Nat
  BY Dated DEF IInv, Types
<1>4. pending = {}
  BY <1>1 DEF IInv, Standing
<1> DEFINE later == {d \in AllDates : d > today}
<1>5. CASE later = {}
  <2>1. phase' = "measure" /\ today' = today
    BY <1>5 DEF Mark
  <2>2. Types' /\ Standing' /\ Partition'
    BY <1>1, <1>2, <1>4, <2>1 DEF IInv, Types, Standing, Partition
  <2>3. ASSUME NEW i \in Ids
        PROVE  Entered(i)' /\ Left(i)'
    <3>1. /\ Leaves(i)' = Leaves(i)
          /\ ExitsDone(i)' = ExitsDone(i)
          /\ FillsDone(i)' = FillsDone(i)
      BY <1>1, <1>2, <2>1 DEF Leaves, ExitsDone, FillsDone
    <3> QED
      BY <1>1, <1>2, <3>1 DEF IInv, Entered, Left
  <2> QED
    BY <1>2, <2>2, <2>3 DEF IInv
<1>6. CASE later # {}
  <2>1. PICK next : next = First(later)
    OBVIOUS
  <2>2. phase' = "close" /\ today' = next
    BY <1>6, <2>1 DEF Mark
  <2>3. next \in later /\ \A d \in later : next <= d
    BY <1>3, <1>6, <2>1, FirstIs
  <2>4. /\ next \in Nat /\ next \in AllDates /\ today < next
        /\ \A d \in AllDates : d < next => d <= today
    BY <1>3, <2>3
  <2>5. Types' /\ Standing' /\ Partition'
    BY <1>1, <1>2, <1>4, <2>2, <2>4 DEF IInv, Types, Standing, Partition
  <2>6. ASSUME NEW i \in Ids
        PROVE  Entered(i)' /\ Left(i)'
    <3>1. Leaves(i)' = Leaves(i)
      BY <1>1, <1>2 DEF Leaves
    <3>2. FillsDone(i)' <=> cands[i].entry < next
      BY <1>1, <2>2 DEF FillsDone
    <3>3. ExitsDone(i)' <=> cands[i].exit < next
      BY <1>1, <2>2 DEF ExitsDone
    <3>4. cands[i].entry \in AllDates => (FillsDone(i)' <=> FillsDone(i))
      BY <1>1, <1>3, <2>4, <3>2 DEF FillsDone
    <3>5. Leaves(i) /\ ExitsDone(i)' => ExitsDone(i)
      BY <1>1, <1>3, <2>4, <3>3 DEF Leaves, ExitsDone
    <3>6. Entered(i)'
      BY <1>1, <1>2, <3>4 DEF IInv, Entered
    <3>7. Left(i)'
      BY <1>1, <1>2, <3>1, <3>5 DEF IInv, Left
    <3> QED
      BY <3>6, <3>7
  <2> QED
    BY <1>2, <2>5, <2>6 DEF IInv
<1> QED
  BY <1>5, <1>6

LEMMA ComputeMetricsKeeps == IInv /\ ComputeMetrics => IInv'
<1> SUFFICES ASSUME IInv, ComputeMetrics PROVE IInv'
  OBVIOUS
<1>1. /\ phase = "measure" /\ phase' = "done"
      /\ UNCHANGED <<cands, today, open, pending, taken, skipped, closed>>
  BY DEF ComputeMetrics
<1>2. Ids' = Ids /\ AllDates' = AllDates /\ Closed' = Closed
  BY <1>1 DEF Ids, AllDates, Closed
<1>3. Types' /\ Standing' /\ Partition'
  BY <1>1, <1>2 DEF IInv, Types, Standing, Partition
<1>4. ASSUME NEW i \in Ids
      PROVE  Entered(i)' /\ Left(i)'
  <2>1. /\ Leaves(i)' = Leaves(i)
        /\ ExitsDone(i)' = ExitsDone(i)
        /\ FillsDone(i)' = FillsDone(i)
    BY <1>1, <1>2 DEF Leaves, ExitsDone, FillsDone
  <2> QED
    BY <1>1, <1>2, <2>1 DEF IInv, Entered, Left
<1> QED
  BY <1>2, <1>3, <1>4 DEF IInv

LEMMA StutterKeeps == IInv /\ UNCHANGED vars => IInv'
<1> SUFFICES ASSUME IInv, UNCHANGED vars PROVE IInv'
  OBVIOUS
<1>1. UNCHANGED <<cands, phase, today, open, pending, taken, skipped, closed>>
  BY DEF vars
<1>2. Ids' = Ids /\ AllDates' = AllDates /\ Closed' = Closed
  BY <1>1 DEF Ids, AllDates, Closed
<1>3. Types' /\ Standing' /\ Partition'
  BY <1>1, <1>2 DEF IInv, Types, Standing, Partition
<1>4. ASSUME NEW i \in Ids
      PROVE  Entered(i)' /\ Left(i)'
  <2>1. /\ Leaves(i)' = Leaves(i)
        /\ ExitsDone(i)' = ExitsDone(i)
        /\ FillsDone(i)' = FillsDone(i)
    BY <1>1, <1>2 DEF Leaves, ExitsDone, FillsDone
  <2> QED
    BY <1>1, <1>2, <2>1 DEF IInv, Entered, Left
<1> QED
  BY <1>2, <1>3, <1>4 DEF IInv

LEMMA IInvGives == IInv => CandidatesAccountedFor
<1> SUFFICES ASSUME IInv PROVE CandidatesAccountedFor
  OBVIOUS
<1>1. Partition
  BY DEF IInv
<1>2. \A i \in Ids : Entered(i) /\ Left(i)
  BY DEF IInv
<1> QED
  BY <1>1, <1>2, Zenon DEF CandidatesAccountedFor, Partition, Entered, Left, Leaves

-------------------------------------------------------------------------------
(* Every candidate of a backtest is accounted for: taken or skipped once,    *)
(* and closed exactly when a later date of the run is its exit; for any      *)
(* number of candidates with any dates (run_portfolio_backtest's day loop).  *)
THEOREM BacktestAccounts == Spec => []CandidatesAccountedFor
<1>1. Init => IInv
  BY InitIInv
<1>2. IInv /\ [Next]_vars => IInv'
  BY ClosePositionKeeps, StartFillingKeeps, FillKeeps, SkipKeeps, StopFillingKeeps,
     MarkKeeps, ComputeMetricsKeeps, StutterKeeps, Zenon DEF Next
<1>3. IInv => CandidatesAccountedFor
  BY IInvGives
<1> QED
  BY <1>1, <1>2, <1>3, PTL DEF Spec

-------------------------------------------------------------------------------
(* The size of a position (PositionSizing). *)

LEMMA DivTimes ==
    ASSUME NEW a \in Nat, NEW b \in Nat \ {0}
    PROVE  a \div b \in Nat /\ (a \div b) * b <= a
  OBVIOUS

LEMMA CappedIs ==
    ASSUME NEW n \in Nat, NEW cap, cap # None => cap \in Nat
    PROVE  /\ Capped(n, cap) \in Nat
           /\ Capped(n, cap) <= n
           /\ cap # None => Capped(n, cap) <= cap
  BY DEF Capped

LEMMA TimesMonotone ==
    ASSUME NEW m \in Nat, NEW n \in Nat, m <= n, NEW k \in Nat
    PROVE  m * k <= n * k
  OBVIOUS

(* The loss of a sized position at its stop is within the capital put at    *)
(* risk, whatever the prices and caps: every cap only shrinks it, and the   *)
(* smallest size never rounds it up; a position that is taken has at least  *)
(* that size and is within each cap (calculate_position_size).              *)
THEOREM SizeWithinRisk ==
    ASSUME NEW capital \in Nat, NEW riskBp \in Nat,
           NEW entry \in Nat, NEW stop \in Nat, stop < entry,
           NEW maxSize, maxSize # None => maxSize \in Nat,
           NEW liquidity, liquidity # None => liquidity \in Nat,
           NEW minSize \in Nat
    PROVE  LET n == PositionSize(RiskShares(capital, riskBp, entry, stop),
                                 maxSize, liquidity, minSize)
           IN /\ n \in Nat
              /\ n * (10000 * (entry - stop)) <= capital * riskBp
              /\ n = 0 \/ n >= minSize
              /\ maxSize # None => n <= maxSize
              /\ liquidity # None => n <= liquidity
<1> DEFINE loss == 10000 * (entry - stop)
           budget == capital * riskBp
           risked == RiskShares(capital, riskBp, entry, stop)
           capped == Capped(risked, maxSize)
           last == Capped(capped, liquidity)
           n == PositionSize(risked, maxSize, liquidity, minSize)
<1>1. loss \in Nat \ {0} /\ budget \in Nat
  OBVIOUS
<1>2. risked = budget \div loss
  BY DEF RiskShares
<1> HIDE DEF loss, budget
<1>3. risked \in Nat /\ risked * loss <= budget
  BY <1>1, <1>2, DivTimes
<1> HIDE DEF risked
<1>4. /\ capped \in Nat /\ capped <= risked
      /\ maxSize # None => capped <= maxSize
  BY <1>3, CappedIs
<1>5. n = IF last < minSize THEN 0 ELSE last
  BY DEF PositionSize
<1> HIDE DEF capped, n
<1>6. /\ last \in Nat /\ last <= capped
      /\ liquidity # None => last <= liquidity
  BY <1>4, CappedIs
<1> HIDE DEF last
<1>7. n \in Nat /\ n <= last /\ (n = 0 \/ n >= minSize)
  BY <1>5, <1>6
<1>8. n * loss <= risked * loss
  BY <1>1, <1>3, <1>4, <1>6, <1>7, TimesMonotone
<1>9. n * loss <= budget
  BY <1>1, <1>3, <1>7, <1>8
<1>10. /\ maxSize # None => n <= maxSize
       /\ liquidity # None => n <= liquidity
  BY <1>4, <1>6, <1>7
<1> QED
  BY <1>7, <1>9, <1>10 DEF n, risked, loss, budget

-------------------------------------------------------------------------------
(* The sums of the book, as sums of functions (SumProofs) *)

Values == [i \in Ids |-> Value(i)]

Gains == [i \in Ids |-> Gain(i)]

\* What the positions of a set cost is the sum of what each cost.
LEMMA ExposureIsSum ==
    ASSUME IsFiniteSet(Ids), NEW S \in SUBSET Ids
    PROVE  Exposure(S) = SumFunctionOnSet(Values, S)
<1> DEFINE H(g) == g = [s \in SUBSET S |->
                          IF s = {} THEN 0 ELSE Value(Choice(s)) + g[s \ {Choice(s)}]]
           G == CHOOSE g : H(g)
<1>1. IsFiniteSet(S)
  BY FS_Subset
<1>2. ASSUME NEW g PROVE H(g) <=> Sums(g, Values, S)
  <2>1. \A s \in SUBSET S : s # {} => Values[Choice(s)] = Value(Choice(s))
    <3>1. \A s \in SUBSET S : s # {} => Choice(s) \in Ids
      BY ChoiceIn
    <3> QED
      BY <3>1 DEF Values
  <2> QED
    BY <2>1 DEF Sums
<1>3. \E g : H(g)
  BY <1>1, <1>2, SumsExist, Zenon
<1>4. H(G)
  BY <1>3, Zenon
<1>5. Exposure(S) = G[S]
  BY Zenon DEF Exposure, MapThenSumSet, MapThenFoldSet, Choice
<1>6. Sums(G, Values, S)
  BY <1>2, <1>4, Zenon
<1>7. PICK g : Sums(g, Values, S) /\ SumFunctionOnSet(Values, S) = g[S]
  BY <1>1, SumIs, Zenon
<1> HIDE DEF G
<1>8. G[S] = g[S]
  BY <1>1, <1>6, <1>7, SumsAgree
<1> QED
  BY <1>5, <1>7, <1>8

\* What the trades of a set made is the sum of what each made.
LEMMA GainIsSum ==
    ASSUME IsFiniteSet(Ids), NEW S \in SUBSET Ids
    PROVE  MapThenSumSet(Gain, S) = SumFunctionOnSet(Gains, S)
<1> DEFINE H(g) == g = [s \in SUBSET S |->
                          IF s = {} THEN 0 ELSE Gain(Choice(s)) + g[s \ {Choice(s)}]]
           G == CHOOSE g : H(g)
<1>1. IsFiniteSet(S)
  BY FS_Subset
<1>2. ASSUME NEW g PROVE H(g) <=> Sums(g, Gains, S)
  <2>1. \A s \in SUBSET S : s # {} => Gains[Choice(s)] = Gain(Choice(s))
    <3>1. \A s \in SUBSET S : s # {} => Choice(s) \in Ids
      BY ChoiceIn
    <3> QED
      BY <3>1 DEF Gains
  <2> QED
    BY <2>1 DEF Sums
<1>3. \E g : H(g)
  BY <1>1, <1>2, SumsExist, Zenon
<1>4. H(G)
  BY <1>3, Zenon
<1>5. MapThenSumSet(Gain, S) = G[S]
  BY Zenon DEF MapThenSumSet, MapThenFoldSet, Choice
<1>6. Sums(G, Gains, S)
  BY <1>2, <1>4, Zenon
<1>7. PICK g : Sums(g, Gains, S) /\ SumFunctionOnSet(Gains, S) = g[S]
  BY <1>1, SumIs, Zenon
<1> HIDE DEF G
<1>8. G[S] = g[S]
  BY <1>1, <1>6, <1>7, SumsAgree
<1> QED
  BY <1>5, <1>7, <1>8

\* The candidates are finitely many, and their prices are numbers.
LEMMA Priced ==
    ASSUME cands \in Inputs
    PROVE  /\ IsFiniteSet(Ids)
           /\ \A i \in Ids : cands[i].entryPrice \in Nat /\ cands[i].exitPrice \in Nat
<1>1. /\ cands \in Seq({cands[i] : i \in DOMAIN cands})
      /\ \A i \in DOMAIN cands : CandidateOK(cands[i])
  BY BacktestAssumption
<1>2. Ids = 1 .. Len(cands) /\ Len(cands) \in Int /\ 1 \in Int
  BY <1>1 DEF Ids
<1>3. IsFiniteSet(Ids)
  BY <1>2, FS_Interval
<1> QED
  BY <1>1, <1>3 DEF Ids, CandidateOK

-------------------------------------------------------------------------------
(* The inductive invariant behind BooksBalance and FillsWithinLimits        *)

Sum(S) == SumFunctionOnSet(Values, S)

(* Positions are whole numbers of shares, paid from cash; the book at cost  *)
(* is the capital and the gains.                                            *)
Money ==
    /\ shares \in [Ids -> Nat]
    /\ cash \in Nat
    /\ cash + Sum(open) = InitialCapital + SumFunctionOnSet(Gains, Closed)

BInv == IInv /\ Money

\* Part of the open positions: those of a sector.
Of(s) == {p \in open : cands[p].sector = s}

\* What the money of a state is, without the library's fold over operators.
Accounts ==
    /\ Exposure(open) = Sum(open)
    /\ \A s \in Sectors : SectorExposure(s) = Sum(Of(s))
    /\ MapThenSumSet(Gain, Closed) = SumFunctionOnSet(Gains, Closed)
    /\ \A i \in Ids : /\ Values[i] = shares[i] * cands[i].entryPrice
                      /\ Gains[i] = shares[i] * (cands[i].exitPrice - cands[i].entryPrice)
                      /\ Values[i] \in Nat /\ Gains[i] \in Int
    /\ \A S \in SUBSET Ids : /\ IsFiniteSet(S)
                             /\ Sum(S) \in Int
                             /\ SumFunctionOnSet(Gains, S) \in Int

\* A product of natural numbers is one, and so on.
LEMMA Products ==
    ASSUME NEW n \in Nat, NEW p \in Nat, NEW q \in Nat
    PROVE  /\ n * p \in Nat
           /\ n * (q - p) \in Int
           /\ n * (q - p) = n * q - n * p
  OBVIOUS

\* The accounts of every state of the inductive invariant are these.
LEMMA AccountsAre == BInv => Accounts
<1> SUFFICES ASSUME BInv PROVE Accounts
  OBVIOUS
<1>1. /\ IsFiniteSet(Ids) /\ open \in SUBSET Ids /\ Closed \in SUBSET Ids
      /\ \A i \in Ids : cands[i].entryPrice \in Nat /\ cands[i].exitPrice \in Nat
  BY Priced DEF BInv, IInv, Types, Partition
<1>2. ASSUME NEW i \in Ids
      PROVE  /\ Values[i] = shares[i] * cands[i].entryPrice
             /\ Gains[i] = shares[i] * (cands[i].exitPrice - cands[i].entryPrice)
             /\ Values[i] \in Nat /\ Gains[i] \in Int
  <2>1. shares[i] \in Nat /\ cands[i].entryPrice \in Nat /\ cands[i].exitPrice \in Nat
    BY <1>1 DEF BInv, Money
  <2>2. /\ Values[i] = shares[i] * cands[i].entryPrice
        /\ Gains[i] = shares[i] * (cands[i].exitPrice - cands[i].entryPrice)
    BY Zenon DEF Values, Gains, Value, Gain
  <2> QED
    BY <2>1, <2>2, Products
<1>3. ASSUME NEW S \in SUBSET Ids
      PROVE  /\ IsFiniteSet(S) /\ Sum(S) \in Int
             /\ SumFunctionOnSet(Gains, S) \in Int
  <2>1. IsFiniteSet(S) /\ \A i \in S : Values[i] \in Int /\ Gains[i] \in Int
    BY <1>1, <1>2, FS_Subset
  <2> QED
    BY <2>1, SumIsInt DEF Sum
<1>4. Exposure(open) = Sum(open)
  BY <1>1, ExposureIsSum DEF Sum
<1>5. MapThenSumSet(Gain, Closed) = SumFunctionOnSet(Gains, Closed)
  BY <1>1, GainIsSum
<1>6. ASSUME NEW s \in Sectors PROVE SectorExposure(s) = Sum(Of(s))
  <2>1. Of(s) \in SUBSET Ids
    BY <1>1 DEF Of
  <2>2. SectorExposure(s) = Exposure(Of(s))
    BY DEF SectorExposure, Of
  <2> QED
    BY <1>1, <2>1, <2>2, ExposureIsSum DEF Sum
<1> QED
  BY <1>2, <1>3, <1>4, <1>5, <1>6 DEF Accounts

LEMMA InitMoney == Init => Money
<1> SUFFICES ASSUME Init PROVE Money
  OBVIOUS
<1>1. /\ cash = InitialCapital /\ open = {} /\ closed = << >>
      /\ shares = [i \in Ids |-> 0]
  BY Zenon DEF Init
<1>2. Closed = {}
  BY <1>1 DEF Closed, Range
<1>3. InitialCapital \in Nat
  BY BacktestAssumption
<1> QED
  BY <1>1, <1>2, <1>3, SumOfNone DEF Money, Sum

\* The book does not change, and no more shares are bought.
LEMMA MoneyKept ==
    BInv /\ UNCHANGED <<cands, cash, open, shares, closed>> => Money'
<1> SUFFICES ASSUME BInv, UNCHANGED <<cands, cash, open, shares, closed>> PROVE Money'
  OBVIOUS
<1>1. Ids' = Ids /\ Closed' = Closed
  BY DEF Ids, Closed
<1>2. Values' = Values /\ Gains' = Gains
  BY <1>1 DEF Values, Gains, Value, Gain
<1> QED
  BY <1>1, <1>2 DEF BInv, Money, Sum

(* A sale turns what a position cost into its price: cash gains what the    *)
(* trades have gained with it.                                              *)
LEMMA ClosePositionBalances == BInv /\ ClosePosition => Money'
<1> SUFFICES ASSUME BInv, ClosePosition PROVE Money'
  OBVIOUS
<1>0. IInv /\ Money /\ Accounts
  BY AccountsAre DEF BInv
<1> DEFINE j == First(Due)
<1>1. /\ cash' = cash + shares[j] * cands[j].exitPrice
      /\ open' = open \ {j}
      /\ closed' = Append(closed, j)
      /\ UNCHANGED <<cands, shares>>
      /\ Due # {}
  BY DEF ClosePosition
<1>2. j \in open /\ j \in Ids /\ j \notin Closed /\ closed \in Seq(Ids)
  <2>1. Due \in SUBSET Nat /\ open \in SUBSET Ids
    BY <1>0, Dated DEF Due, IInv, Types
  <2>2. j \in Due
    BY <1>1, <2>1, FirstIs
  <2> HIDE DEF j
  <2> QED
    BY <1>0, <2>1, <2>2 DEF Due, IInv, Partition, Types
<1> HIDE DEF j
<1>3. Ids' = Ids /\ Closed' = Closed \cup {j}
  BY <1>1, <1>2, RangeOfAppend DEF Ids, Closed
<1>4. Values' = Values /\ Gains' = Gains
  BY <1>1, <1>3 DEF Values, Gains, Value, Gain
<1>5. open \in SUBSET Ids /\ Closed \in SUBSET Ids
  BY <1>0 DEF IInv, Types, Partition
<1>6. /\ IsFiniteSet(open) /\ IsFiniteSet(Closed)
      /\ \A i \in Ids : Values[i] \in Int /\ Gains[i] \in Int
  BY <1>0, <1>5 DEF Accounts
<1>7. Sum(open) = Values[j] + Sum(open \ {j})
  <2>1. \A i \in open : Values[i] \in Int
    BY <1>5, <1>6
  <2> QED
    BY <1>2, <1>6, <2>1, SumOfMember, Zenon DEF Sum
<1>8. SumFunctionOnSet(Gains, Closed \cup {j}) = Gains[j] + SumFunctionOnSet(Gains, Closed)
  <2>1. \A i \in Closed \cup {j} : Gains[i] \in Int
    BY <1>2, <1>5, <1>6
  <2> QED
    BY <1>2, <1>6, <2>1, SumWithMember, Zenon
<1>9. /\ shares[j] \in Nat /\ cands[j].entryPrice \in Nat /\ cands[j].exitPrice \in Nat
      /\ Values[j] = shares[j] * cands[j].entryPrice
      /\ Gains[j] = shares[j] * (cands[j].exitPrice - cands[j].entryPrice)
  BY <1>0, <1>2, Priced DEF Accounts, Money, IInv, Types
<1>10. /\ shares[j] * cands[j].exitPrice \in Nat
       /\ Gains[j] = shares[j] * cands[j].exitPrice - Values[j]
       /\ Values[j] \in Int
  BY <1>9, Products
<1>11. /\ cash \in Nat /\ InitialCapital \in Nat
       /\ cash + Sum(open) = InitialCapital + SumFunctionOnSet(Gains, Closed)
  BY <1>0, BacktestAssumption DEF Money
<1>12. Sum(open \ {j}) \in Int /\ SumFunctionOnSet(Gains, Closed) \in Int
  BY <1>0, <1>5 DEF Accounts
<1>13. (cash + shares[j] * cands[j].exitPrice) + Sum(open \ {j})
         = InitialCapital + SumFunctionOnSet(Gains, Closed \cup {j})
  BY <1>7, <1>8, <1>10, <1>11, <1>12
<1>14. Sum(open)' = Sum(open \ {j})
  BY <1>1, <1>4 DEF Sum
<1>15. SumFunctionOnSet(Gains, Closed)' = SumFunctionOnSet(Gains, Closed \cup {j})
  BY <1>3, <1>4
<1>16. cash' \in Nat /\ shares' \in [Ids' -> Nat]
  BY <1>0, <1>1, <1>3, <1>10, <1>11 DEF Money
<1> QED
  BY <1>1, <1>13, <1>14, <1>15, <1>16 DEF Money

\* What a fraction rounded down leaves.
LEMMA Fraction ==
    ASSUME NEW a \in Int, NEW b \in Nat \ {0}
    PROVE  a \div b \in Int /\ (a \div b) * b <= a
  OBVIOUS

LEMMA TimesAssociates ==
    ASSUME NEW n \in Nat, NEW m \in Nat, NEW p \in Nat
    PROVE  m * p \in Nat /\ n * (m * p) = m * (n * p)
  OBVIOUS

(* What a fill finds: the candidate it takes, the size it gives it, and     *)
(* that the size is worth no more than an equal share of the book.          *)
LEMMA FillFinds ==
    ASSUME BInv, Fill
    PROVE  \E j \in Ids, n \in Nat :
              /\ j \notin open /\ j \notin Closed /\ j \notin taken
              /\ Fits(cands[j], n)
              /\ MaxPositions * (n * cands[j].entryPrice) <= Book
              /\ cash' = cash - n * cands[j].entryPrice
              /\ open' = open \cup {j}
              /\ shares' = [shares EXCEPT ![j] = n]
              /\ taken' = taken \cup {j}
              /\ UNCHANGED <<cands, closed>>
<1> DEFINE j == First(pending)
           n == Affordable(cands[j])
           p == cands[j].entryPrice
<1>0. IInv /\ Money /\ Accounts
  BY AccountsAre DEF BInv
<1>1. /\ Fits(cands[j], n)
      /\ cash' = cash - n * cands[j].entryPrice
      /\ open' = open \cup {j}
      /\ shares' = [shares EXCEPT ![j] = n]
      /\ taken' = taken \cup {j}
      /\ UNCHANGED <<cands, closed>>
      /\ pending # {}
  BY DEF Fill
<1>2. j \in Ids /\ j \notin taken
  BY <1>0, <1>1, FirstPending
<1>3. j \notin open /\ j \notin Closed
  BY <1>0, <1>2 DEF IInv, Partition
<1>4. Book \in Int
  <2>1. open \in SUBSET Ids
    BY <1>0 DEF IInv, Types
  <2>2. Exposure(open) \in Int /\ cash \in Nat
    BY <1>0, <2>1 DEF Accounts, Money
  <2> QED
    BY <2>2 DEF Book
<1>5. p \in Nat /\ MaxPositions \in Nat
  BY <1>0, <1>2, Priced, BacktestAssumption DEF IInv, Types
<1>6. n > 0
  BY <1>1 DEF Fits
<1>7. n = IF p > 0 /\ MaxPositions > 0 THEN Book \div (MaxPositions * p) ELSE 0
  BY DEF Affordable
<1> HIDE DEF n, p
<1>8. p > 0 /\ MaxPositions > 0 /\ n = Book \div (MaxPositions * p)
  BY <1>6, <1>7
<1>9. MaxPositions * p \in Nat \ {0}
  BY <1>5, <1>8
<1>10. n \in Int /\ n * (MaxPositions * p) <= Book
  BY <1>4, <1>8, <1>9, Fraction
<1>11. n \in Nat
  BY <1>6, <1>10
<1>12. MaxPositions * (n * p) <= Book
  BY <1>5, <1>10, <1>11, TimesAssociates
<1> HIDE DEF j
<1> QED
  BY <1>1, <1>2, <1>3, <1>11, <1>12 DEF p

(* A fill moves money from cash into the book at cost: after it the         *)
(* exposure, and that of the candidate's sector, have grown by its worth.   *)
LEMMA FillMoves ==
    ASSUME BInv,
           NEW j \in Ids, NEW n \in Nat, j \notin open, j \notin Closed,
           Fits(cands[j], n),
           cash' = cash - n * cands[j].entryPrice,
           open' = open \cup {j},
           shares' = [shares EXCEPT ![j] = n],
           UNCHANGED <<cands, closed>>
    PROVE  /\ Money'
           /\ Values'[j] = n * cands[j].entryPrice
           /\ Sum(open)' = Sum(open) + n * cands[j].entryPrice
           /\ Sum(Of(cands[j].sector))'
                = Sum(Of(cands[j].sector)) + n * cands[j].entryPrice
<1> DEFINE c == n * cands[j].entryPrice
<1>0. IInv /\ Money /\ Accounts
  BY AccountsAre DEF BInv
<1>1. cands[j].entryPrice \in Nat /\ cands[j].exitPrice \in Nat
  BY <1>0, Priced DEF IInv, Types
<1>2. c \in Nat
  BY <1>1, Products
<1>3. shares \in [Ids -> Nat] /\ cash \in Nat
  BY <1>0 DEF Money
<1>4. Ids' = Ids /\ Closed' = Closed
  BY DEF Ids, Closed
<1>5. /\ Values'[j] = c
      /\ \A i \in Ids : i # j => Values'[i] = Values[i] /\ Gains'[i] = Gains[i]
  BY <1>3, <1>4 DEF Values, Gains, Value, Gain
<1>6. \A i \in Ids : Values[i] \in Int /\ Gains[i] \in Int
  BY <1>0 DEF Accounts
<1>7. open \in SUBSET Ids /\ Closed \in SUBSET Ids
  BY <1>0 DEF IInv, Types, Partition
<1>8. ASSUME NEW S \in SUBSET Ids, j \notin S
      PROVE  SumFunctionOnSet(Values', S \cup {j}) = Sum(S) + c
  <2>1. IsFiniteSet(S) /\ Sum(S) \in Int
    BY <1>0 DEF Accounts
  <2>2. \A i \in S \cup {j} : Values'[i] \in Int
    BY <1>2, <1>5, <1>6, <1>8
  <2>3. SumFunctionOnSet(Values', S \cup {j}) = Values'[j] + SumFunctionOnSet(Values', S)
    BY <1>8, <2>1, <2>2, SumWithMember, Zenon
  <2>4. \A i \in S : Values'[i] = Values[i]
    BY <1>5, <1>8
  <2>5. SumFunctionOnSet(Values', S) = Sum(S)
    BY <2>1, <2>4, SumAgrees, Zenon DEF Sum
  <2> HIDE DEF c
  <2> QED
    BY <1>2, <1>5, <2>1, <2>3, <2>5
<1>9. Sum(open)' = Sum(open) + c
  BY <1>7, <1>8 DEF Sum
<1>10. Sum(Of(cands[j].sector))' = Sum(Of(cands[j].sector)) + c
  <2>1. Of(cands[j].sector)' = Of(cands[j].sector) \cup {j}
    BY DEF Of
  <2>2. Of(cands[j].sector) \in SUBSET Ids /\ j \notin Of(cands[j].sector)
    BY <1>7 DEF Of
  <2> QED
    BY <1>8, <2>1, <2>2 DEF Sum
<1>11. SumFunctionOnSet(Gains', Closed) = SumFunctionOnSet(Gains, Closed)
  <2>1. \A i \in Closed : Gains'[i] = Gains[i]
    BY <1>5, <1>7
  <2>2. IsFiniteSet(Closed)
    BY <1>0, <1>7 DEF Accounts
  <2> QED
    BY <2>1, <2>2, SumAgrees, Zenon
<1>12. cash' \in Nat /\ shares' \in [Ids' -> Nat]
  <2>1. c <= cash
    BY DEF Fits
  <2>2. cash' = cash - c
    OBVIOUS
  <2> HIDE DEF c
  <2> QED
    BY <1>2, <1>3, <1>4, <2>1, <2>2
<1>13. cash' + Sum(open)' = InitialCapital + SumFunctionOnSet(Gains', Closed')
  <2>1. cash + Sum(open) = InitialCapital + SumFunctionOnSet(Gains, Closed)
    BY <1>0 DEF Money
  <2>2. Sum(open) \in Int
    BY <1>0, <1>7 DEF Accounts
  <2>3. cash' = cash - c
    OBVIOUS
  <2> HIDE DEF c
  <2>4. cash' + Sum(open)' = cash + Sum(open)
    BY <1>2, <1>3, <1>9, <2>2, <2>3
  <2> QED
    BY <1>4, <1>11, <2>1, <2>4
<1>14. Money'
  BY <1>12, <1>13 DEF Money
<1> QED
  BY <1>5, <1>9, <1>10, <1>14

LEMMA FillBalances == BInv /\ Fill => Money'
<1> SUFFICES ASSUME BInv, Fill PROVE Money'
  OBVIOUS
<1>1. PICK j \in Ids, n \in Nat :
          /\ j \notin open /\ j \notin Closed
          /\ Fits(cands[j], n)
          /\ cash' = cash - n * cands[j].entryPrice
          /\ open' = open \cup {j}
          /\ shares' = [shares EXCEPT ![j] = n]
          /\ UNCHANGED <<cands, closed>>
  BY FillFinds, Zenon
<1> QED
  BY <1>1, FillMoves, Zenon

LEMMA BInvKept == BInv /\ [Next]_vars => BInv'
<1> SUFFICES ASSUME BInv, [Next]_vars PROVE BInv'
  OBVIOUS
<1>1. IInv'
  BY ClosePositionKeeps, StartFillingKeeps, FillKeeps, SkipKeeps, StopFillingKeeps,
     MarkKeeps, ComputeMetricsKeeps, StutterKeeps, Zenon DEF Next, BInv
<1>2. Money'
  <2>1. CASE ClosePosition
    BY <2>1, ClosePositionBalances
  <2>2. CASE Fill
    BY <2>2, FillBalances
  <2>3. CASE StartFilling
    BY <2>3, MoneyKept DEF StartFilling
  <2>4. CASE Skip
    BY <2>4, MoneyKept DEF Skip
  <2>5. CASE StopFilling
    BY <2>5, MoneyKept DEF StopFilling
  <2>6. CASE Mark
    BY <2>6, MoneyKept DEF Mark
  <2>7. CASE ComputeMetrics
    BY <2>7, MoneyKept DEF ComputeMetrics
  <2>8. CASE UNCHANGED vars
    BY <2>8, MoneyKept DEF vars
  <2> QED
    BY <2>1, <2>2, <2>3, <2>4, <2>5, <2>6, <2>7, <2>8 DEF Next
<1> QED
  BY <1>1, <1>2 DEF BInv

\* The invariant holds of every state of a backtest.
LEMMA BacktestInductive == Spec => []BInv
<1>1. Init => BInv
  BY InitIInv, InitMoney DEF BInv
<1> QED
  BY <1>1, BInvKept, PTL DEF Spec

(* Over any number of overlapping trades, at any prices, no money appears   *)
(* or disappears: the book at cost is always the starting capital and the   *)
(* gains of the trades closed (the cash arithmetic of                       *)
(* run_portfolio_backtest).                                                 *)
THEOREM MoneyIsKept == Spec => []BooksBalance
<1>1. BInv => BooksBalance
  <2> SUFFICES ASSUME BInv PROVE BooksBalance
    OBVIOUS
  <2>1. Accounts /\ Money
    BY AccountsAre DEF BInv
  <2>2. /\ Exposure(open) = Sum(open)
        /\ MapThenSumSet(Gain, Closed) = SumFunctionOnSet(Gains, Closed)
    BY <2>1 DEF Accounts
  <2> QED
    BY <2>1, <2>2, Zenon DEF BooksBalance, Book, Money
<1> QED
  BY <1>1, BacktestInductive, PTL

(* What a step that takes a candidate leaves of the limits, in the accounts *)
(* of the state it leads to.                                                *)
Limits(i) ==
    /\ 100 * Sum(open)' <= MaxExposurePct * (cash' + Sum(open)')
    /\ 100 * Sum(Of(cands[i].sector))' <= MaxSectorPct * (cash' + Sum(open)')
    /\ MaxPositions * Values'[i] <= cash' + Sum(open)'
    /\ cash' >= 0

LEMMA FillWithin ==
    ASSUME BInv, Fill
    PROVE  \A i \in taken' \ taken : i \in Ids /\ Limits(i)
<1>0. IInv /\ Money /\ Accounts
  BY AccountsAre DEF BInv
<1>1. PICK j \in Ids, n \in Nat :
          /\ j \notin open /\ j \notin Closed
          /\ Fits(cands[j], n)
          /\ MaxPositions * (n * cands[j].entryPrice) <= Book
          /\ cash' = cash - n * cands[j].entryPrice
          /\ open' = open \cup {j}
          /\ shares' = [shares EXCEPT ![j] = n]
          /\ taken' = taken \cup {j}
          /\ UNCHANGED <<cands, closed>>
  BY FillFinds, Zenon
<1> DEFINE c == n * cands[j].entryPrice
           s == cands[j].sector
<1>2. /\ Money'
      /\ Values'[j] = c
      /\ Sum(open)' = Sum(open) + c
      /\ Sum(Of(s))' = Sum(Of(s)) + c
  BY <1>1, FillMoves, Zenon
<1>3. /\ 100 * (Exposure(open) + c) <= MaxExposurePct * Book
      /\ 100 * (SectorExposure(s) + c) <= MaxSectorPct * Book
      /\ c <= cash
  BY <1>1 DEF Fits
<1>4. s \in Sectors
  BY DEF Sectors
<1>5. Exposure(open) = Sum(open) /\ SectorExposure(s) = Sum(Of(s))
  BY <1>0, <1>4 DEF Accounts
<1>6. c \in Nat /\ cash \in Nat /\ Sum(open) \in Int
  BY <1>0, Priced, Products DEF Accounts, Money, IInv, Types
<1>7. cash' = cash - c /\ MaxPositions * c <= Book
  BY <1>1
<1> HIDE DEF c
<1>8. cash' + Sum(open)' = Book /\ cash' >= 0
  BY <1>2, <1>3, <1>5, <1>6, <1>7 DEF Book
<1>9. Limits(j)
  <2>1. /\ 100 * Sum(open)' <= MaxExposurePct * Book
        /\ 100 * Sum(Of(s))' <= MaxSectorPct * Book
    BY <1>2, <1>3, <1>5
  <2>2. MaxPositions * Values'[j] <= Book
    BY <1>2, <1>7
  <2> QED
    BY <1>8, <2>1, <2>2 DEF Limits
<1> QED
  BY <1>1, <1>9

\* The property, one candidate at a time.
WithinLimits(i) ==
    LET bookAfter == cash' + Exposure(open)' IN
    /\ 100 * Exposure(open)' <= MaxExposurePct * bookAfter
    /\ \A s \in Sectors :
          cands[i].sector = s =>
              100 * SectorExposure(s)' <= MaxSectorPct * bookAfter
    /\ MaxPositions * Value(i)' <= bookAfter
    /\ cash' >= 0

(* Only a fill takes a candidate.                                           *)
LEMMA TakenByFill ==
    ASSUME [Next]_vars, ~Fill
    PROVE  taken' = taken
  BY DEF Next, ClosePosition, StartFilling, Skip, StopFilling, Mark, ComputeMetrics, vars

(* A fill leaves the book within the exposure and sector limits, takes no   *)
(* more than an equal share of it and never more than the cash there is,    *)
(* whatever the limits and prices (the checks of run_portfolio_backtest).   *)
THEOREM FillsStayWithinLimits == Spec => FillsWithinLimits
<1>1. BInv /\ BInv' /\ [Next]_vars => \A i \in taken' \ taken : WithinLimits(i)
  <2> SUFFICES ASSUME BInv, BInv', [Next]_vars, NEW i \in taken' \ taken
               PROVE  WithinLimits(i)
    OBVIOUS
  <2>1. Fill
    BY TakenByFill
  <2>2. i \in Ids /\ Limits(i)
    BY <2>1, FillWithin
  <2>3. UNCHANGED cands
    BY <2>1 DEF Fill
  <2>4. Ids' = Ids /\ Sectors' = Sectors
    BY <2>3 DEF Ids, Sectors
  <2>5. Accounts'
    BY AccountsAre, PTL
  <2>6. Exposure(open)' = Sum(open)'
    BY <2>5 DEF Accounts
  <2>7. \A s \in Sectors : SectorExposure(s)' = Sum(Of(s))'
    BY <2>4, <2>5 DEF Accounts
  <2>8. Value(i)' = Values'[i]
    BY <2>2, <2>4 DEF Values
  <2>9. /\ 100 * Exposure(open)' <= MaxExposurePct * (cash' + Exposure(open)')
        /\ MaxPositions * Value(i)' <= cash' + Exposure(open)'
        /\ cash' >= 0
    <3>1. 100 * Sum(open)' <= MaxExposurePct * (cash' + Sum(open)')
      BY <2>2, Zenon DEF Limits
    <3>2. MaxPositions * Values'[i] <= cash' + Sum(open)' /\ cash' >= 0
      BY <2>2, Zenon DEF Limits
    <3>3. MaxPositions * Value(i)' <= cash' + Sum(open)'
      BY <2>8, <3>2, Zenon
    <3> QED
      BY <2>6, <3>1, <3>2, <3>3, Zenon
  <2>10. ASSUME NEW s \in Sectors, cands[i].sector = s
         PROVE  100 * SectorExposure(s)' <= MaxSectorPct * (cash' + Exposure(open)')
    <3>1. 100 * Sum(Of(cands[i].sector))' <= MaxSectorPct * (cash' + Sum(open)')
      BY <2>2, Zenon DEF Limits
    <3>2. 100 * Sum(Of(s))' <= MaxSectorPct * (cash' + Sum(open)')
      BY <2>3, <2>10, <3>1
    <3>3. SectorExposure(s)' = Sum(Of(s))'
      BY <2>7
    <3> QED
      BY <2>6, <3>2, <3>3, Zenon
  <2> QED
    BY <2>9, <2>10, Zenon DEF WithinLimits
<1>2. (\A i \in taken' \ taken : WithinLimits(i)) =>
        \A i \in taken' \ taken :
          LET bookAfter == cash' + Exposure(open)' IN
          /\ 100 * Exposure(open)' <= MaxExposurePct * bookAfter
          /\ \A s \in Sectors :
                cands[i].sector = s =>
                    100 * SectorExposure(s)' <= MaxSectorPct * bookAfter
          /\ MaxPositions * Value(i)' <= bookAfter
          /\ cash' >= 0
  BY Zenon DEF WithinLimits
<1> QED
  BY <1>1, <1>2, BacktestInductive, PTL DEF Spec, FillsWithinLimits

-------------------------------------------------------------------------------
(* The inductive invariant behind MetricsDescribeRun                        *)

\* The equity curve is of finitely many dates and never below nothing.
Curve ==
    /\ IsFiniteSet(DOMAIN equity)
    /\ \A d \in DOMAIN equity : d \in Nat /\ equity[d] \in Nat
    /\ equity = << >> \/ DOMAIN equity # {}

\* A trade taken is of at least one share.
Bought == \A i \in taken : shares[i] > 0

\* What _compute_metrics finds.
Measures ==
    [trades |-> Len(closed),
     wins |-> Cardinality({n \in DOMAIN closed : NetReturn(closed[n]) > 0}),
     losses |-> Cardinality({n \in DOMAIN closed : Lost(closed[n])}),
     streak |-> Max(Range(LosingRun)),
     peak |-> RunningMax(Deepest),
     trough |-> equity[Deepest]]

\* The metrics of a run that is over are those of its last state.
Measured == phase = "done" /\ equity # << >> => metrics = Measures

MInv == BInv /\ Curve /\ Bought /\ Measured

Marks == [i \in Ids |-> MarkedValue(i)]

\* The book is marked at a natural number.
LEMMA MarksAreNat == BInv => MapThenSumSet(MarkedValue, open) \in Nat
<1> SUFFICES ASSUME BInv PROVE MapThenSumSet(MarkedValue, open) \in Nat
  OBVIOUS
<1> DEFINE H(g) == g = [s \in SUBSET open |->
                          IF s = {} THEN 0
                          ELSE MarkedValue(Choice(s)) + g[s \ {Choice(s)}]]
           G == CHOOSE g : H(g)
<1>0. IInv /\ Money
  BY DEF BInv
<1>1. IsFiniteSet(open) /\ open \in SUBSET Ids
  BY <1>0, Priced, FS_Subset DEF IInv, Types
<1>2. ASSUME NEW g PROVE H(g) <=> Sums(g, Marks, open)
  <2>1. \A s \in SUBSET open : s # {} => Marks[Choice(s)] = MarkedValue(Choice(s))
    <3>1. \A s \in SUBSET open : s # {} => Choice(s) \in Ids
      BY <1>1, ChoiceIn
    <3> QED
      BY <3>1 DEF Marks
  <2> QED
    BY <2>1 DEF Sums
<1>3. \E g : H(g)
  BY <1>1, <1>2, SumsExist, Zenon
<1>4. H(G)
  BY <1>3, Zenon
<1>5. MapThenSumSet(MarkedValue, open) = G[open]
  BY Zenon DEF MapThenSumSet, MapThenFoldSet, Choice
<1>6. Sums(G, Marks, open)
  BY <1>2, <1>4, Zenon
<1>7. PICK g : Sums(g, Marks, open) /\ SumFunctionOnSet(Marks, open) = g[open]
  BY <1>1, SumIs, Zenon
<1> HIDE DEF G
<1>8. G[open] = g[open]
  BY <1>1, <1>6, <1>7, SumsAgree
<1>9. \A i \in open : Marks[i] \in Nat
  <2> SUFFICES ASSUME NEW i \in open PROVE Marks[i] \in Nat
    OBVIOUS
  <2>1. i \in Ids /\ shares[i] \in Nat
    BY <1>0, <1>1 DEF Money
  <2>2. cands[i].entryPrice \in Nat
    BY <1>0, <2>1, Priced DEF IInv, Types
  <2>3. \A d \in DOMAIN cands[i].prices : cands[i].prices[d] \in Nat \cup {NoPrice}
    BY <1>0, <2>1, BacktestAssumption DEF CandidateOK, Ids, IInv, Types
  <2>4. \A p \in Nat : shares[i] * p \in Nat
    BY <2>1
  <2>5. MarkedValue(i) \in Nat
    BY <2>2, <2>3, <2>4 DEF MarkedValue, Value
  <2> QED
    BY <2>1, <2>5 DEF Marks
<1>10. SumFunctionOnSet(Marks, open) \in Nat
  BY <1>1, <1>9, SumIsNat, Zenon
<1> QED
  BY <1>5, <1>7, <1>8, <1>10

LEMMA InitMInv == Init => MInv
<1> SUFFICES ASSUME Init PROVE MInv
  OBVIOUS
<1>1. BInv
  BY InitIInv, InitMoney DEF BInv
<1>2. equity = << >> /\ taken = {} /\ phase # "done"
  BY DEF Init
<1>3. Curve
  BY <1>2, FS_EmptySet DEF Curve
<1> QED
  BY <1>1, <1>2, <1>3 DEF MInv, Bought, Measured

LEMMA CurveKept == MInv /\ [Next]_vars => Curve'
<1> SUFFICES ASSUME MInv, [Next]_vars PROVE Curve'
  OBVIOUS
<1>1. CASE Mark
  <2> DEFINE v == cash + MapThenSumSet(MarkedValue, open)
             D == DOMAIN equity
  <2>1. equity' = [d \in D \cup {today} |-> IF d = today THEN v ELSE equity[d]]
    BY <1>1 DEF Mark
  <2>2. v \in Nat
    <3>1. cash \in Nat /\ MapThenSumSet(MarkedValue, open) \in Nat
      BY MarksAreNat DEF MInv, BInv, Money
    <3> QED
      BY <3>1
  <2>3. today \in Nat /\ IsFiniteSet(D) /\ \A d \in D : d \in Nat /\ equity[d] \in Nat
    BY DEF MInv, BInv, IInv, Types, Curve
  <2>4. IsFiniteSet(D \cup {today})
    BY <2>3, FS_AddElement
  <2> HIDE DEF v, D
  <2> QED
    BY <2>1, <2>2, <2>3, <2>4 DEF Curve
<1>2. CASE ~ Mark
  <2>1. equity' = equity
    BY <1>2 DEF Next, ClosePosition, StartFilling, Fill, Skip, StopFilling,
                ComputeMetrics, vars
  <2> QED
    BY <2>1 DEF MInv, Curve
<1> QED
  BY <1>1, <1>2

LEMMA BoughtKept == MInv /\ [Next]_vars => Bought'
<1> SUFFICES ASSUME MInv, [Next]_vars PROVE Bought'
  OBVIOUS
<1>1. CASE Fill
  <2>1. PICK j \in Ids, n \in Nat :
            /\ j \notin taken
            /\ Fits(cands[j], n)
            /\ shares' = [shares EXCEPT ![j] = n]
            /\ taken' = taken \cup {j}
    BY <1>1, FillFinds DEF MInv
  <2>2. n > 0
    BY <2>1 DEF Fits
  <2>3. shares \in [Ids -> Nat] /\ taken \in SUBSET Ids
    BY DEF MInv, BInv, Money, IInv, Types
  <2> QED
    BY <2>1, <2>2, <2>3 DEF MInv, Bought
<1>2. CASE ~ Fill
  <2>1. shares' = shares /\ taken' = taken
    BY <1>2 DEF Next, ClosePosition, StartFilling, Mark, Skip, StopFilling,
                ComputeMetrics, vars
  <2> QED
    BY <2>1 DEF MInv, Bought
<1> QED
  BY <1>1, <1>2

\* What the metrics are taken from does not change with them.
LEMMA MeasuresSame ==
    ASSUME UNCHANGED <<cands, closed, equity>>
    PROVE  Measures' = Measures
<1>1. /\ \A i : Lost(i)' = Lost(i)
      /\ \A i : NetReturn(i)' = NetReturn(i)
  BY DEF Lost, NetReturn
<1>2. LosingRun' = LosingRun
  BY DEF LosingRun, Lost, NetReturn
<1>3. RunningMax(Deepest)' = RunningMax(Deepest) /\ equity'[Deepest'] = equity[Deepest]
  BY DEF RunningMax, Deepest
<1> QED
  BY <1>1, <1>2, <1>3 DEF Measures

LEMMA MeasuredKept == MInv /\ [Next]_vars => Measured'
<1> SUFFICES ASSUME MInv, [Next]_vars, phase' = "done", equity' # << >>
             PROVE  metrics' = Measures'
  BY DEF Measured
<1>1. CASE ComputeMetrics
  <2>1. UNCHANGED <<cands, closed, equity>>
    BY <1>1 DEF ComputeMetrics
  <2>2. metrics' = Measures
    BY <1>1, <2>1 DEF ComputeMetrics, Measures
  <2> QED
    BY <2>1, <2>2, MeasuresSame
<1>2. CASE ~ ComputeMetrics
  <2>1. UNCHANGED <<cands, phase, closed, equity, metrics>>
    BY <1>2 DEF Next, ClosePosition, StartFilling, Fill, Skip, StopFilling, Mark, vars,
                MInv, BInv, IInv, Types
  <2> QED
    BY <2>1, MeasuresSame DEF MInv, Measured
<1> QED
  BY <1>1, <1>2

\* The invariant holds of every state of a backtest.
LEMMA MetricsInductive == Spec => []MInv
<1>1. MInv /\ [Next]_vars => MInv'
  BY BInvKept, CurveKept, BoughtKept, MeasuredKept DEF MInv
<1> QED
  BY InitMInv, <1>1, PTL DEF Spec

-------------------------------------------------------------------------------
(* Trades and losses                                                        *)

\* Each trade closed has one place in the order they closed in.
LEMMA ClosedCount ==
    ASSUME IInv
    PROVE  /\ Len(closed) \in Nat /\ DOMAIN closed = 1 .. Len(closed)
           /\ Len(closed) = Cardinality(taken) - Cardinality(open)
<1>1. /\ closed \in Seq(Ids) /\ taken \in SUBSET Ids /\ open \in SUBSET Ids
      /\ IsFiniteSet(Ids)
  BY Priced DEF IInv, Types
<1>2. Len(closed) \in Nat /\ DOMAIN closed = 1 .. Len(closed)
  BY <1>1
<1>3. /\ Closed \cap open = {} /\ Closed \cup open = taken
      /\ \A m, n \in DOMAIN closed : closed[m] = closed[n] => m = n
      /\ Closed = {closed[n] : n \in DOMAIN closed}
  BY DEF IInv, Partition, Closed, Range
<1>4. IsFiniteSet(Closed) /\ IsFiniteSet(open)
  BY <1>1, <1>3, FS_Subset
<1>5. Cardinality(Closed) = Len(closed)
  <2>1. 1 \in Int /\ Len(closed) \in Int
    BY <1>2
  <2>2. /\ IsFiniteSet(1 .. Len(closed))
        /\ Cardinality(1 .. Len(closed)) = Len(closed)
    <3>1. /\ IsFiniteSet(1 .. Len(closed))
          /\ Cardinality(1 .. Len(closed)) = IF 1 > Len(closed) THEN 0 ELSE Len(closed) - 1 + 1
      BY <2>1, FS_Interval, Zenon
    <3> QED
      BY <1>2, <3>1
  <2>3. closed \in Bijection(1 .. Len(closed), Closed)
    <3>1. closed \in [1 .. Len(closed) -> Closed]
      <4>1. closed \in [1 .. Len(closed) -> Ids]
        BY <1>1, <1>2
      <4>2. \A n \in 1 .. Len(closed) : closed[n] \in Closed
        BY <1>2, <1>3
      <4> QED
        BY <4>1, <4>2
    <3>2. closed \in Injection(1 .. Len(closed), Closed)
      BY <1>2, <1>3, <3>1 DEF Injection, IsInjective
    <3>3. closed \in Surjection(1 .. Len(closed), Closed)
      BY <1>2, <1>3, <3>1 DEF Surjection
    <3> QED
      BY <3>2, <3>3 DEF Bijection
  <2>4. ExistsBijection(1 .. Len(closed), Closed)
    BY <2>3 DEF ExistsBijection
  <2> QED
    BY <1>4, <2>2, <2>4, FS_Bijection, Zenon
<1>6. Cardinality(taken) = Cardinality(Closed) + Cardinality(open)
  <2>1. Cardinality(Closed \cup open)
          = Cardinality(Closed) + Cardinality(open) - Cardinality(Closed \cap open)
    BY <1>4, FS_Union
  <2>2. /\ Cardinality(Closed) \in Nat /\ Cardinality(open) \in Nat
        /\ Cardinality({}) = 0
    BY <1>4, FS_CardinalityType, FS_EmptySet
  <2>3. Cardinality(Closed \cup open) = Cardinality(taken) /\ Cardinality(Closed \cap open) = 0
    BY <1>3, <2>2, Zenon
  <2> QED
    BY <2>1, <2>2, <2>3
<1>7. Cardinality(open) \in Nat
  BY <1>4, FS_CardinalityType
<1> QED
  BY <1>2, <1>5, <1>6, <1>7

\* The two formulas of the code for what a round trip costs agree.
LEMMA RoundTripIsBrokerCost == BrokerCost(1) = RoundTripCost /\ RoundTripCost \in Int
<1>1. /\ Profile \in [brokerageBuy : Int, brokerageSell : Int, sttBuy : Int, sttSell : Int,
                      exchangeBuy : Int, exchangeSell : Int, stampBuy : Int,
                      stampSell : Int, slippageBuy : Int, slippageSell : Int]
      /\ GstPct \in Int
  BY BacktestAssumption
<1>2. \A g, b, x \in Int : g * x \in Int /\ (100 + g) * b + g * x = 100 * b + g * (b + x)
  OBVIOUS
<1> DEFINE b == Profile.brokerageBuy + Profile.brokerageSell
           x == Profile.exchangeBuy + Profile.exchangeSell
           f == Profile.brokerageBuy + Profile.exchangeBuy + Profile.brokerageSell
                  + Profile.exchangeSell
           s == Profile.slippageBuy + Profile.slippageSell
<1>3. b \in Int /\ x \in Int /\ f \in Int /\ s \in Int /\ f = b + x
  BY <1>1
<1>4. /\ GstPct * x \in Int /\ GstPct * f \in Int /\ (100 + GstPct) * b \in Int
      /\ (100 + GstPct) * b + GstPct * x = 100 * b + GstPct * f
  <2>1. \A g, z \in Int : g * z \in Int /\ (100 + g) * z \in Int
    OBVIOUS
  <2> HIDE DEF b, x, f
  <2> QED
    BY <1>1, <1>2, <1>3, <2>1
<1>5. StatutoryCost = 100 * (Profile.sttBuy + Profile.sttSell + x
                               + Profile.stampBuy + Profile.stampSell) + GstPct * x
  BY DEF StatutoryCost
<1>6. BrokerCost(1) = StatutoryCost + (100 + GstPct) * b + 100 * 1 * s
  BY DEF BrokerCost
<1>7. RoundTripCost = 100 * (f + Profile.slippageBuy + Profile.slippageSell
                               + Profile.stampBuy + Profile.stampSell
                               + Profile.sttBuy + Profile.sttSell) + GstPct * f
  BY DEF RoundTripCost
<1>8. \A u, v, w \in Int :
         /\ u = GstPct * x /\ v = GstPct * f /\ w = (100 + GstPct) * b
         => BrokerCost(1) = RoundTripCost /\ RoundTripCost \in Int
  <2> SUFFICES ASSUME NEW u \in Int, NEW v \in Int, NEW w \in Int,
                      u = GstPct * x, v = GstPct * f, w = (100 + GstPct) * b
               PROVE  BrokerCost(1) = RoundTripCost /\ RoundTripCost \in Int
    OBVIOUS
  <2>1. w + u = 100 * b + v
    BY <1>4
  <2>2. BrokerCost(1) = 100 * (Profile.sttBuy + Profile.sttSell + x
                                 + Profile.stampBuy + Profile.stampSell) + u
                          + w + 100 * 1 * s
    BY <1>5, <1>6
  <2>3. RoundTripCost = 100 * (f + Profile.slippageBuy + Profile.slippageSell
                                 + Profile.stampBuy + Profile.stampSell
                                 + Profile.sttBuy + Profile.sttSell) + v
    BY <1>7
  <2> QED
    BY <1>1, <2>1, <2>2, <2>3
<1> QED
  BY <1>4, <1>8

\* A trade lost when it made less than its costs.
LostOut(n) == 1000000 * Gain(closed[n]) < RoundTripCost * Value(closed[n])

LEMMA ScaledSign ==
    ASSUME NEW s \in Nat, s > 0, NEW d \in Int, NEW r \in Int, NEW p \in Nat
    PROVE  (1000000 * (s * d) < r * (s * p)) <=> (1000000 * d - r * p < 0)
<1> DEFINE e == 1000000 * d - r * p
<1>1. 1000000 * (s * d) - r * (s * p) = s * e
  OBVIOUS
<1>2. e \in Int /\ 1000000 * (s * d) \in Int /\ r * (s * p) \in Int /\ s * e \in Int
  OBVIOUS
<1> HIDE DEF e
<1>3. s * e < 0 <=> e < 0
  BY <1>2
<1> QED
  BY <1>1, <1>2, <1>3 DEF e

LEMMA LostIs ==
    ASSUME MInv, NEW n \in DOMAIN closed
    PROVE  LostOut(n) <=> Lost(closed[n])
<1> DEFINE i == closed[n]
<1>1. i \in taken /\ i \in Ids
  BY DEF MInv, BInv, IInv, Types, Partition, Closed, Range
<1>2. shares[i] \in Nat /\ shares[i] > 0
  BY <1>1 DEF MInv, BInv, Money, Bought
<1>3. cands[i].entryPrice \in Nat /\ cands[i].exitPrice \in Nat
  BY <1>1, Priced DEF MInv, BInv, IInv, Types
<1>4. cands[i].exitPrice - cands[i].entryPrice \in Int
  BY <1>3
<1>5. (1000000 * (shares[i] * (cands[i].exitPrice - cands[i].entryPrice))
         < RoundTripCost * (shares[i] * cands[i].entryPrice))
        <=> (1000000 * (cands[i].exitPrice - cands[i].entryPrice)
               - RoundTripCost * cands[i].entryPrice < 0)
  BY <1>2, <1>3, <1>4, RoundTripIsBrokerCost, ScaledSign
<1>6. LostOut(n) <=> 1000000 * (shares[i] * (cands[i].exitPrice - cands[i].entryPrice))
                        < RoundTripCost * (shares[i] * cands[i].entryPrice)
  BY DEF LostOut, Gain, Value
<1>7. Lost(i) <=> 1000000 * (cands[i].exitPrice - cands[i].entryPrice)
                    - RoundTripCost * cands[i].entryPrice < 0
  BY RoundTripIsBrokerCost DEF Lost, NetReturn
<1> HIDE DEF i
<1> QED
  BY <1>5, <1>6, <1>7 DEF i

-------------------------------------------------------------------------------
(* The longest losing streak                                                *)

\* A block of losses, from one trade closed to another.
Block(m, n) == \A k \in m .. n : LostOut(k)

\* current after the trades so far is how many losses they end in.
LEMMA LosingRunIs ==
    ASSUME Len(closed) \in Nat
    PROVE  /\ LosingRun \in [0 .. Len(closed) -> Nat]
           /\ LosingRun[0] = 0
           /\ \A n \in 1 .. Len(closed) :
                 LosingRun[n] = IF Lost(closed[n]) THEN LosingRun[n - 1] + 1 ELSE 0
<1> DEFINE N == Len(closed)
           g == [x \in (1 .. N) \X Nat |-> IF Lost(closed[x[1]]) THEN x[2] + 1 ELSE 0]
           H(f) == f = [n \in 0 .. N |->
                          IF n > 0 /\ Lost(closed[n]) THEN f[n - 1] + 1 ELSE 0]
           R == CHOOSE f : H(f)
<1>1. g \in [(1 .. N) \X Nat -> Nat]
  OBVIOUS
<1>2. PICK e \in [0 .. N -> Nat] : Recursion(e, N, 0, g)
  <2>1. 0 \in Nat /\ N \in Nat
    OBVIOUS
  <2> HIDE DEF g, N
  <2> QED
    BY <1>1, <2>1, RecursionExists
<1>3. H(e)
  <2> DEFINE V(n) == IF n > 0 /\ Lost(closed[n]) THEN e[n - 1] + 1 ELSE 0
  <2>1. e[0] = V(0)
    BY <1>2 DEF Recursion
  <2>2. ASSUME NEW n \in 1 .. N PROVE e[n] = V(n)
    <3>1. e[n] = g[<<n, e[n - 1]>>]
      BY <1>2 DEF Recursion
    <3>2. e[n - 1] \in Nat /\ <<n, e[n - 1]>> \in (1 .. N) \X Nat
      BY <1>2
    <3> QED
      BY <3>1, <3>2
  <2>3. \A n \in 0 .. N : e[n] = V(n)
    <3>1. \A n \in 0 .. N : n = 0 \/ n \in 1 .. N
      OBVIOUS
    <3> HIDE DEF V, N
    <3> QED
      BY <2>1, <2>2, <3>1
  <2>4. e = [n \in 0 .. N |-> V(n)]
    <3> HIDE DEF V, N
    <3> QED
      BY <1>2, <2>3
  <2> QED
    BY <2>4
<1>4. H(R)
  <2> HIDE DEF H
  <2> QED
    BY <1>3
<1>5. LosingRun = R
  BY Zenon DEF LosingRun
<1> HIDE DEF R
<1>6. /\ R = [n \in 0 .. N |-> R[n]]
      /\ \A n \in 0 .. N : R[n] = IF n > 0 /\ Lost(closed[n]) THEN R[n - 1] + 1 ELSE 0
  <2> DEFINE V(n) == IF n > 0 /\ Lost(closed[n]) THEN R[n - 1] + 1 ELSE 0
  <2>1. R = [n \in 0 .. N |-> V(n)]
    BY <1>4
  <2> HIDE DEF V, N
  <2>2. R = [n \in 0 .. N |-> R[n]] /\ \A n \in 0 .. N : R[n] = V(n)
    BY <2>1
  <2> QED
    BY <2>2 DEF V
<1>7. /\ R[0] = 0
      /\ \A n \in 1 .. N : R[n] = IF Lost(closed[n]) THEN R[n - 1] + 1 ELSE 0
  BY <1>6
<1>8. \A n \in 0 .. N : R[n] \in Nat
  <2> DEFINE T == {n \in 0 .. N : R[n] \notin Nat}
  <2> SUFFICES ASSUME T # {} PROVE FALSE
    OBVIOUS
  <2>1. T \in SUBSET Nat
    OBVIOUS
  <2>2. PICK n \in T : \A m \in T : n <= m
    <3> HIDE DEF T
    <3> QED
      BY <2>1, LeastNumber
  <2>3. n # 0 /\ n - 1 \in 0 .. N /\ n - 1 \notin T
    <3>1. n \in 0 .. N /\ n # 0
      BY <1>7
    <3>2. n - 1 \in 0 .. N /\ ~ (n <= n - 1)
      BY <3>1
    <3> QED
      BY <2>2, <3>1, <3>2
  <2> QED
    BY <1>7, <2>3
<1> QED
  BY <1>5, <1>6, <1>7, <1>8

\* It is the length of a block of losses that no loss comes before.
Streak(n) ==
    /\ LosingRun[n] <= n
    /\ \A k \in n - LosingRun[n] + 1 .. n : Lost(closed[k])
    /\ LosingRun[n] < n => ~ Lost(closed[n - LosingRun[n]])

LEMMA StreakIs ==
    ASSUME Len(closed) \in Nat, NEW n \in 0 .. Len(closed)
    PROVE  Streak(n)
<1> DEFINE N == Len(closed)
           T == {m \in 0 .. N : ~ Streak(m)}
<1> SUFFICES ASSUME T # {} PROVE FALSE
  OBVIOUS
<1>1. T \in SUBSET Nat
  OBVIOUS
<1>2. PICK m \in T : \A k \in T : m <= k
  <2> HIDE DEF T
  <2> QED
    BY <1>1, LeastNumber
<1>3. /\ LosingRun \in [0 .. N -> Nat] /\ LosingRun[0] = 0
      /\ \A k \in 1 .. N :
            LosingRun[k] = IF Lost(closed[k]) THEN LosingRun[k - 1] + 1 ELSE 0
  BY LosingRunIs
<1>4. Streak(0)
  BY <1>3 DEF Streak
<1>5. m \in 1 .. N /\ m - 1 \in 0 .. N
  BY <1>4
<1>6. Streak(m - 1)
  <2>1. ~ (m <= m - 1)
    BY <1>5
  <2> QED
    BY <1>2, <1>5, <2>1
<1> DEFINE r == LosingRun[m - 1]
<1>7. r \in Nat
  BY <1>3, <1>5
<1>8. CASE Lost(closed[m])
  <2>1. LosingRun[m] = r + 1 /\ m - (r + 1) = m - 1 - r
    BY <1>3, <1>5, <1>7, <1>8
  <2>2. /\ r <= m - 1
        /\ \A k \in m - 1 - r + 1 .. m - 1 : Lost(closed[k])
        /\ r < m - 1 => ~ Lost(closed[m - 1 - r])
    BY <1>6 DEF Streak
  <2> HIDE DEF r, T
  <2>3. \A k \in m - 1 - r + 1 .. m : k = m \/ k \in m - 1 - r + 1 .. m - 1
    BY <1>5, <1>7
  <2>4. r + 1 <= m /\ (r + 1 < m => r < m - 1)
    BY <1>5, <1>7, <2>2
  <2>5. Streak(m)
    BY <1>8, <2>1, <2>2, <2>3, <2>4 DEF Streak
  <2> QED
    BY <2>5 DEF T
<1>9. CASE ~ Lost(closed[m])
  <2>1. LosingRun[m] = 0
    BY <1>3, <1>5, <1>9
  <2>2. Streak(m)
    BY <1>5, <1>9, <2>1 DEF Streak
  <2> QED
    BY <2>2
<1> QED
  BY <1>8, <1>9

\* The streak the metrics report is the length of the longest block of losses.
LEMMA LongestStreak ==
    ASSUME MInv
    PROVE  Max(Range(LosingRun))
             = Max({0} \cup {b[2] - b[1] + 1 : b \in
                      {b \in (DOMAIN closed) \X (DOMAIN closed) :
                          b[1] <= b[2] /\ Block(b[1], b[2])}})
<1> DEFINE N == Len(closed)
           B == {b \in (DOMAIN closed) \X (DOMAIN closed) :
                    b[1] <= b[2] /\ Block(b[1], b[2])}
           S == {0} \cup {b[2] - b[1] + 1 : b \in B}
           Q == Range(LosingRun)
<1>1. N \in Nat /\ DOMAIN closed = 1 .. N
  BY ClosedCount DEF MInv, BInv
<1>2. \A n \in 1 .. N : LostOut(n) <=> Lost(closed[n])
  BY <1>1, LostIs
<1>3. LosingRun \in [0 .. N -> Nat] /\ LosingRun[0] = 0
  BY <1>1, LosingRunIs
<1>4. \A n \in 0 .. N : Streak(n)
  BY <1>1, StreakIs
<1>5. Q = {LosingRun[n] : n \in 0 .. N}
  BY <1>3 DEF Range
<1>6. \A q \in Q : q \in 0 .. N
  <2>1. ASSUME NEW n \in 0 .. N PROVE LosingRun[n] \in 0 .. N
    BY <1>1, <1>3, <1>4 DEF Streak
  <2> HIDE DEF Q
  <2> QED
    BY <1>5, <2>1
<1>7. \A s \in S : s \in 0 .. N
  <2>1. ASSUME NEW b \in B PROVE b[2] - b[1] + 1 \in 0 .. N
    BY <1>1
  <2> HIDE DEF B
  <2> QED
    BY <1>1, <2>1
<1>8. IsFiniteSet(0 .. N)
  <2>1. 0 \in Int /\ N \in Int
    BY <1>1
  <2> QED
    BY <2>1, FS_Interval, Zenon
<1>9. 0 \in Q /\ 0 \in S
  BY <1>1, <1>3, <1>5
<1>10. /\ Max(Q) \in Q /\ \A q \in Q : q <= Max(Q)
       /\ Max(S) \in S /\ \A s \in S : s <= Max(S)
  <2> HIDE DEF Q, S
  <2>1. IsFiniteSet(Q) /\ IsFiniteSet(S)
    BY <1>6, <1>7, <1>8, FS_Subset
  <2>2. (\A q \in Q : q \in Int) /\ (\A s \in S : s \in Int) /\ Q # {} /\ S # {}
    BY <1>6, <1>7, <1>9
  <2> QED
    BY <2>1, <2>2, MaxIs
<1>11. \A q \in Q : q \in S
  <2> SUFFICES ASSUME NEW n \in 0 .. N PROVE LosingRun[n] \in S
    BY <1>5
  <2> DEFINE r == LosingRun[n]
             a == n - r + 1
  <2>1. r \in Nat /\ Streak(n)
    BY <1>3, <1>4
  <2>2. CASE r = 0
    BY <2>2
  <2>3. CASE r # 0
    <3>1. a \in 1 .. N /\ n \in 1 .. N /\ a <= n /\ n - a + 1 = r
      BY <1>1, <2>1, <2>3 DEF Streak
    <3>2. Block(a, n)
      <4> SUFFICES ASSUME NEW k \in a .. n PROVE LostOut(k)
        BY DEF Block
      <4>1. k \in 1 .. N
        BY <3>1
      <4>2. Lost(closed[k])
        BY <2>1 DEF Streak
      <4> QED
        BY <1>2, <4>1, <4>2
    <3> DEFINE b == <<a, n>>
    <3>3. b \in (DOMAIN closed) \X (DOMAIN closed) /\ b[1] = a /\ b[2] = n
      BY <1>1, <3>1
    <3> HIDE DEF a, b, r
    <3>4. b \in B /\ b[2] - b[1] + 1 = r
      BY <3>1, <3>2, <3>3
    <3> QED
      BY <3>4 DEF r
  <2> QED
    BY <2>2, <2>3
<1>12. \A s \in S : \E q \in Q : s <= q
  <2> SUFFICES ASSUME NEW b \in B PROVE \E q \in Q : b[2] - b[1] + 1 <= q
    <3>1. \E q \in Q : 0 <= q
      BY <1>9
    <3> HIDE DEF B, Q
    <3> QED
      BY <3>1
  <2> DEFINE r == LosingRun[b[2]]
  <2>1. b[1] \in 1 .. N /\ b[2] \in 1 .. N /\ b[1] <= b[2] /\ Block(b[1], b[2])
    BY <1>1
  <2>2. r \in Nat /\ Streak(b[2]) /\ r \in Q
    BY <1>3, <1>4, <1>5, <2>1
  <2>3. ASSUME r < b[2] - b[1] + 1 PROVE FALSE
    <3>1. b[2] - r \in b[1] .. b[2] /\ b[2] - r \in 1 .. N /\ r < b[2]
      BY <2>1, <2>2, <2>3
    <3>2. LostOut(b[2] - r)
      BY <2>1, <3>1 DEF Block
    <3>3. ~ Lost(closed[b[2] - r])
      BY <2>2, <3>1 DEF Streak
    <3> QED
      BY <1>2, <3>1, <3>2, <3>3
  <2>4. b[2] - b[1] + 1 <= r
    BY <2>1, <2>2, <2>3
  <2> QED
    BY <2>2, <2>4
<1>13. Max(Q) \in Int /\ Max(S) \in Int /\ \A q \in Q : q \in Int
  BY <1>6, <1>7, <1>10
<1> HIDE DEF Q, S
<1>14. Max(Q) <= Max(S)
  BY <1>10, <1>11
<1>15. Max(S) <= Max(Q)
  <2>1. PICK q \in Q : Max(S) <= q
    BY <1>10, <1>12
  <2>2. q <= Max(Q)
    BY <1>10
  <2> QED
    BY <1>13, <2>1, <2>2
<1>16. Max(Q) = Max(S)
  BY <1>13, <1>14, <1>15
<1> QED
  BY <1>16 DEF Q, S

-------------------------------------------------------------------------------
(* The deepest drawdown                                                     *)

\* Products are compared by their other factors.
LEMMA Cancel ==
    ASSUME NEW x \in Int, NEW y \in Int, NEW k \in Nat, k > 0, x * k <= y * k
    PROVE  x <= y
<1>1. x > y => x * k > y * k
  OBVIOUS
<1> QED
  BY <1>1

\* Of fractions of natural numbers the order is transitive.
LEMMA FractionsOrdered ==
    ASSUME NEW a \in Nat, NEW b \in Nat, NEW c \in Nat,
           NEW k \in Nat, NEW m \in Nat, NEW n \in Nat, m > 0,
           a * m <= b * k, b * n <= c * m
    PROVE  a * n <= c * k
<1>1. (a * m) * n <= (b * k) * n
  <2>1. \A x, y, z \in Nat : x <= y => x * z <= y * z
    OBVIOUS
  <2>2. a * m \in Nat /\ b * k \in Nat
    OBVIOUS
  <2> QED
    BY <2>1, <2>2
<1>2. (b * n) * k <= (c * m) * k
  <2>1. \A x, y, z \in Nat : x <= y => x * z <= y * z
    OBVIOUS
  <2>2. b * n \in Nat /\ c * m \in Nat
    OBVIOUS
  <2> QED
    BY <2>1, <2>2
<1>3. /\ (a * m) * n = (a * n) * m
      /\ (b * k) * n = (b * n) * k
      /\ (c * m) * k = (c * k) * m
  OBVIOUS
<1>4. a * n \in Int /\ c * k \in Int
  OBVIOUS
<1>5. (a * n) * m <= (c * k) * m
  <2>1. (a * n) * m \in Int /\ (b * n) * k \in Int /\ (c * k) * m \in Int
    OBVIOUS
  <2> QED
    BY <1>1, <1>2, <1>3, <2>1
<1> QED
  BY <1>4, <1>5, Cancel

\* Of finitely many fractions one is least.
LEMMA LeastFraction ==
    ASSUME NEW D, IsFiniteSet(D), D # {}, NEW a, NEW m,
           \A d \in D : a[d] \in Nat /\ m[d] \in Nat /\ m[d] > 0
    PROVE  \E d \in D : \A e \in D : a[d] * m[e] <= a[e] * m[d]
<1> DEFINE Least(d, s) == \A e \in s : a[d] * m[e] <= a[e] * m[d]
           B == {s \in SUBSET D : s # {} /\ ~ \E d \in s : Least(d, s)}
<1> SUFFICES ASSUME D \in B PROVE FALSE
  OBVIOUS
<1>1. PICK s \in B : \A t \in SUBSET s : t \in B => t = s
  <2>1. B \in SUBSET SUBSET D /\ B # {}
    OBVIOUS
  <2> HIDE DEF B
  <2> QED
    BY <2>1, SmallestSet
<1>2. PICK x \in s : TRUE
  OBVIOUS
<1>3. CASE s \ {x} = {}
  <2>1. Least(x, s)
    BY <1>2, <1>3
  <2> QED
    BY <2>1
<1>4. CASE s \ {x} # {}
  <2>1. s \ {x} \notin B
    <3>1. s \ {x} \in SUBSET s /\ s \ {x} # s
      BY <1>2
    <3> HIDE DEF B
    <3> QED
      BY <1>1, <3>1
  <2>2. PICK y \in s \ {x} : Least(y, s \ {x})
    BY <1>4, <2>1
  <2>3. x \in D /\ y \in D
    OBVIOUS
  <2>4. CASE a[y] * m[x] <= a[x] * m[y]
    <3>1. Least(y, s)
      BY <2>2, <2>4
    <3> QED
      BY <2>2, <3>1
  <2>5. CASE ~ (a[y] * m[x] <= a[x] * m[y])
    <3>1. a[x] * m[y] <= a[y] * m[x]
      <4>1. a[x] * m[y] \in Int /\ a[y] * m[x] \in Int
        BY <2>3
      <4> QED
        BY <2>5, <4>1
    <3>2. ASSUME NEW e \in s PROVE a[x] * m[e] <= a[e] * m[x]
      <4>1. CASE e = x
        <5>1. a[x] * m[x] \in Int
          BY <2>3
        <5> QED
          BY <4>1, <5>1
      <4>2. CASE e # x
        <5>1. a[y] * m[e] <= a[e] * m[y]
          BY <2>2, <4>2
        <5>2. e \in D /\ m[y] > 0
          BY <2>3
        <5>3. /\ a[x] \in Nat /\ a[y] \in Nat /\ a[e] \in Nat
              /\ m[x] \in Nat /\ m[y] \in Nat /\ m[e] \in Nat
          BY <2>3, <5>2
        <5> HIDE DEF B, Least
        <5> QED
          BY <3>1, <5>1, <5>2, <5>3, FractionsOrdered
      <4> QED
        BY <4>1, <4>2
    <3>3. Least(x, s)
      BY <3>2
    <3> QED
      BY <3>3
  <2> QED
    BY <2>4, <2>5
<1> QED
  BY <1>3, <1>4

\* The peak so far is the equity of some date, and no equity so far is above it.
LEMMA PeakIs ==
    ASSUME Curve, NEW d \in DOMAIN equity
    PROVE  /\ RunningMax(d) \in Nat
           /\ \A e \in DOMAIN equity : e <= d => equity[e] <= RunningMax(d)
<1> DEFINE E == {x \in DOMAIN equity : x <= d}
           T == {equity[e] : e \in E}
<1>1. IsFiniteSet(E)
  BY FS_Subset DEF Curve
<1>2. IsFiniteSet(T)
  <2> DEFINE f == [e \in E |-> equity[e]]
  <2>1. f \in Surjection(E, T)
    BY DEF Surjection
  <2> HIDE DEF E, T, f
  <2> QED
    BY <1>1, <2>1, FS_Surjection
<1>3. d \in E /\ \A t \in T : t \in Nat
  BY DEF Curve
<1>4. T # {} /\ \A t \in T : t \in Int
  BY <1>3
<1>5. RunningMax(d) = Max(T)
  BY DEF RunningMax
<1>6. Max(T) \in T /\ \A t \in T : t <= Max(T)
  <2> HIDE DEF T
  <2> QED
    BY <1>2, <1>4, MaxIs
<1> QED
  BY <1>3, <1>5, <1>6

\* The date of the drawdown exists, and no ratio to the peak is below its own.
Deep(d) ==
    /\ RunningMax(d) > 0 \/ \A e \in DOMAIN equity : RunningMax(e) = 0
    /\ \A e \in DOMAIN equity : equity[d] * RunningMax(e) <= equity[e] * RunningMax(d)

LEMMA DeepestIs ==
    ASSUME Curve, equity # << >>
    PROVE  Deepest \in DOMAIN equity /\ Deep(Deepest)
<1> DEFINE D == DOMAIN equity
           P == {d \in D : RunningMax(d) > 0}
           m == [d \in D |-> RunningMax(d)]
<1>1. /\ IsFiniteSet(D) /\ D # {}
      /\ \A d \in D : equity[d] \in Nat /\ RunningMax(d) \in Nat
      /\ \A d \in D : equity[d] <= RunningMax(d)
  <2>1. \A d \in D : d \in Nat /\ d <= d
    BY DEF Curve
  <2> QED
    BY <2>1, PeakIs DEF Curve
<1>2. \A d \in D : RunningMax(d) = 0 => equity[d] = 0
  BY <1>1
<1>3. \A n \in Nat : 0 * n = 0 /\ n * 0 = 0
  OBVIOUS
<1>4. CASE P = {}
  <2>1. PICK d \in D : TRUE
    BY <1>1
  <2>2. \A e \in D : RunningMax(e) = 0 /\ equity[e] = 0
    <3>1. \A e \in D : ~ (RunningMax(e) > 0)
      BY <1>4
    <3> QED
      BY <1>1, <1>2, <3>1
  <2>3. Deep(d)
    BY <2>1, <2>2 DEF Deep
  <2> QED
    BY <2>1, <2>3, Zenon DEF Deepest, Deep
<1>5. CASE P # {}
  <2>1. IsFiniteSet(P)
    BY <1>1, FS_Subset
  <2>2. \A d \in P : equity[d] \in Nat /\ m[d] \in Nat /\ m[d] > 0
    BY <1>1
  <2>3. PICK d \in P : \A e \in P : equity[d] * m[e] <= equity[e] * m[d]
    <3> HIDE DEF P, m
    <3> QED
      BY <1>5, <2>1, <2>2, LeastFraction
  <2>4. d \in D /\ RunningMax(d) > 0
    OBVIOUS
  <2>5. ASSUME NEW e \in D
        PROVE  equity[d] * RunningMax(e) <= equity[e] * RunningMax(d)
    <3>1. CASE e \in P
      BY <2>3, <2>4, <3>1
    <3>2. CASE e \notin P
      <4>1. RunningMax(e) = 0 /\ equity[e] = 0
        BY <1>1, <1>2, <3>2
      <4> QED
        BY <1>1, <1>3, <2>4, <4>1
    <3> QED
      BY <3>1, <3>2
  <2>6. Deep(d)
    BY <2>4, <2>5 DEF Deep
  <2> QED
    BY <2>4, <2>6, Zenon DEF Deepest, Deep
<1> QED
  BY <1>4, <1>5

\* No fall of the equity is deeper than the drawdown.
LEMMA DrawdownIsDeepest ==
    ASSUME Curve, equity # << >>,
           NEW d \in DOMAIN equity, NEW e \in DOMAIN equity, d <= e
    PROVE  equity[Deepest] * equity[d] <= equity[e] * RunningMax(Deepest)
<1> DEFINE w == Deepest
<1>1. w \in DOMAIN equity /\ Deep(w)
  BY DeepestIs
<1>2. equity[w] * RunningMax(e) <= equity[e] * RunningMax(w)
  BY <1>1 DEF Deep
<1>3. equity[d] <= RunningMax(e)
  BY PeakIs
<1>4. /\ equity[w] \in Nat /\ equity[d] \in Nat /\ equity[e] \in Nat
      /\ RunningMax(e) \in Nat /\ RunningMax(w) \in Nat
  BY <1>1, PeakIs DEF Curve
<1> HIDE DEF w
<1>5. equity[w] * equity[d] <= equity[w] * RunningMax(e)
  <2>1. \A x, y, z \in Nat : x <= y => z * x <= z * y
    OBVIOUS
  <2> QED
    BY <1>3, <1>4, <2>1
<1>6. /\ equity[w] * equity[d] \in Int /\ equity[w] * RunningMax(e) \in Int
      /\ equity[e] * RunningMax(w) \in Int
  <2>1. \A x, y \in Nat : x * y \in Int
    OBVIOUS
  <2> QED
    BY <1>4, <2>1
<1>7. equity[w] * equity[d] <= equity[e] * RunningMax(w)
  BY <1>2, <1>5, <1>6
<1> QED
  BY <1>7 DEF w

(* The metrics describe the trades that closed, net of the configuration's  *)
(* round trip; the streak is the longest run of losses among them and no    *)
(* fall of the equity is deeper than the drawdown, for any number of        *)
(* trades, prices and dates (_compute_metrics).                             *)
THEOREM MetricsAreTheRuns == Spec => []MetricsDescribeRun
<1>1. MInv => MetricsDescribeRun
  <2> SUFFICES ASSUME MInv, phase = "done", equity # << >>
               PROVE  /\ metrics.trades = Cardinality(taken) - Cardinality(open)
                      /\ metrics.losses = Cardinality({n \in DOMAIN closed : LostOut(n)})
                      /\ metrics.streak =
                             Max({0} \cup {b[2] - b[1] + 1 : b \in
                                    {b \in (DOMAIN closed) \X (DOMAIN closed) :
                                        b[1] <= b[2] /\ Block(b[1], b[2])}})
                      /\ \A d, e \in DOMAIN equity :
                             d <= e => metrics.trough * equity[d] <= equity[e] * metrics.peak
    BY SMT DEF MetricsDescribeRun, LostOut, Block
  <2>1. /\ metrics.trades = Len(closed)
        /\ metrics.losses = Cardinality({n \in DOMAIN closed : Lost(closed[n])})
        /\ metrics.streak = Max(Range(LosingRun))
        /\ metrics.peak = RunningMax(Deepest)
        /\ metrics.trough = equity[Deepest]
    BY DEF MInv, Measured, Measures
  <2>2. metrics.trades = Cardinality(taken) - Cardinality(open)
    BY <2>1, ClosedCount DEF MInv, BInv
  <2>3. {n \in DOMAIN closed : Lost(closed[n])} = {n \in DOMAIN closed : LostOut(n)}
    BY LostIs
  <2>4. \A d, e \in DOMAIN equity :
            d <= e => metrics.trough * equity[d] <= equity[e] * metrics.peak
    BY <2>1, DrawdownIsDeepest DEF MInv
  <2> QED
    BY <2>1, <2>2, <2>3, <2>4, LongestStreak, Zenon
<1> QED
  BY <1>1, MetricsInductive, PTL

=============================================================================
