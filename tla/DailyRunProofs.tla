--------------------------- MODULE DailyRunProofs ---------------------------
(***************************************************************************)
(* Proofs about DailyRun, for any number of invocations, days, holidays    *)
(* and editions of a file: type correctness, and the safety invariants of  *)
(* the files the programs leave behind.                                    *)
(***************************************************************************)
EXTENDS DailyRun, FiniteSetTheorems, WellFoundedInduction, TLAPS

-------------------------------------------------------------------------------
(* Days *)

\* A set of days has a last one.
LEMMA LatestIs ==
    ASSUME NEW S \in SUBSET CalendarDays, S # {}
    PROVE  Latest(S) \in S /\ \A d \in S : d <= Latest(S)
<1> DEFINE T == {MaxDay - d : d \in S}
<1>1. \A d \in S : d \in Int /\ MaxDay - d \in Nat
  BY DailyAssumption DEF CalendarDays
<1>2. T \in SUBSET Nat /\ T # {}
  BY <1>1
<1>3. PICK d \in S : \A y \in T : ~ (<<y, MaxDay - d>> \in OpToRel(<, Nat))
  <2>1. PICK x \in T : \A y \in T : ~ (<<y, x>> \in OpToRel(<, Nat))
    <3> HIDE DEF T
    <3> QED
      BY <1>2, WFMin, NatLessThanWellFounded, Zenon
  <2> QED
    BY <2>1
<1>4. \A e \in S : ~ (MaxDay - e < MaxDay - d)
  BY <1>1, <1>3 DEF OpToRel
<1>5. \A e \in S : e <= d
  BY <1>1, <1>4, DailyAssumption
<1> QED
  BY <1>5, Zenon DEF Latest

\* A bar that is current for a session is of that session.
LEMMA CurrentIsOfSession ==
    ASSUME NEW last \in CalendarDays \cup {NoDay}, NEW s \in Sessions,
           ClassifyDataStatus(last, s, Holidays) = "CURRENT"
    PROVE  last = s
<1> DEFINE between == {d \in (last + 1) .. s : IsTradingDay(d, Holidays)}
<1>2. last \in Int /\ s \in Int /\ IsTradingDay(s, Holidays)
  BY DEF CalendarDays, Sessions, NoDay
<1>1. last # NoDay /\ last <= s /\ SessionsBetween(last, s, Holidays) = 0
  <2>1. last # NoDay /\ ~ (last > s)
    BY DEF ClassifyDataStatus
  <2> HIDE DEF between
  <2>2. SessionsBetween(last, s, Holidays) = 0
    BY <2>1 DEF ClassifyDataStatus
  <2> QED
    BY <1>2, <2>1, <2>2
<1>3. IsFiniteSet(between)
  <2>1. IsFiniteSet((last + 1) .. s)
    BY <1>2, FS_Interval
  <2> QED
    BY <2>1, FS_Subset
<1>4. between = {}
  <2>1. Cardinality(between) = 0
    BY <1>1 DEF SessionsBetween
  <2> HIDE DEF between
  <2> QED
    BY <1>3, <2>1, FS_EmptySet
<1>5. ~ (last < s)
  BY <1>2, <1>4
<1> QED
  BY <1>1, <1>2, <1>5

-------------------------------------------------------------------------------
(* Types *)

\* A raw copy is of what was fetched, and only rows are merged into the partition.
CopyUsable ==
    \A r \in Runs :
        /\ pc[r] \in {"raw", "raw_open"} => copy[r] \in Editions \cup {HeaderOnly}
        /\ pc[r] \in {"rewrite", "rewrite_open"} => copy[r] # HeaderOnly

\* Only a program that ingests or bootstraps appends.
Routed ==
    \A r \in Runs :
        /\ pc[r] \in {"check", "fetch", "raw", "raw_open"} => kind[r] \in Ingesting
        /\ pc[r] \in {"append", "rewrite", "rewrite_open", "count"} =>
              kind[r] \in Ingesting \cup {"bootstrap"}

\* An invocation under way has resolved a trading day.
SessionResolved == \A r \in Active : session[r] \in Sessions

TypeInv == TypeOK /\ CopyUsable /\ Routed /\ SessionResolved

LEMMA InitTypes == Init => TypeInv
<1> SUFFICES ASSUME Init PROVE TypeInv
  OBVIOUS
<1>1. 1 \in CalendarDays
  BY DailyAssumption DEF CalendarDays
<1>2. NoRows \in Held /\ "scan" \in Kinds /\ "idle" \in Steps
  BY DEF Held, Kinds, Steps
<1>3. TypeOK
  BY <1>1, <1>2 DEF Init, TypeOK
<1>4. Active = {} /\ CopyUsable /\ Routed
  BY DEF Init, Active, CopyUsable, Routed
<1> QED
  BY <1>3, <1>4 DEF TypeInv, SessionResolved

LEMMA MergedType ==
    ASSUME TypeInv, NEW r \in Runs, pc[r] = "rewrite_open", NEW s \in Merged(r)
    PROVE  s \in [Sessions -> Held]
<1>1. base[r] \in [Sessions -> Held] /\ copy[r] \in Held
  BY DEF TypeInv, TypeOK, CopyUsable, Held
<1>2. CASE kind[r] = "bootstrap"
  <2>1. PICK last \in {day - 1, day} :
            s = [d \in Sessions |-> IF base[r][d] = NoRows /\ d <= last THEN Yahoo
                                    ELSE base[r][d]]
    BY <1>2 DEF Merged
  <2> QED
    BY <1>1, <2>1 DEF Held
<1>3. CASE kind[r] # "bootstrap"
  <2>1. s = [base[r] EXCEPT ![session[r]] = copy[r]]
    BY <1>3 DEF Merged
  <2> QED
    BY <1>1, <2>1
<1> QED
  BY <1>2, <1>3

LEMMA NextTypes == TypeInv /\ [Next]_vars => TypeInv'
<1> SUFFICES ASSUME TypeInv, [Next]_vars PROVE TypeInv'
  OBVIOUS
<1> USE DEF TypeInv, CopyUsable, Routed, Ingesting, SessionResolved, Active, clock, disk, found, history
<1>1. CASE Tick
  <2>1. day \in 1 .. MaxDay /\ closed \in BOOLEAN
    BY DEF TypeOK, CalendarDays
  <2>2. \/ closed' = TRUE /\ day' = day
        \/ closed' = FALSE /\ day < MaxDay /\ day' = day + 1
    BY <1>1 DEF Tick
  <2>3. day' \in CalendarDays
    BY <2>1, <2>2, DailyAssumption DEF CalendarDays
  <2>4. closed' \in BOOLEAN
    BY <2>2, Zenon
  <2> QED
    BY <1>1, <2>3, <2>4 DEF Tick, TypeOK
<1>2. CASE Publish
  BY <1>2 DEF Publish, TypeOK
<1>3. ASSUME NEW r \in Runs, Start(r) PROVE TypeInv'
  <2>1. PICK k \in Kinds :
            /\ kind' = [kind EXCEPT ![r] = k]
            /\ \E s \in SessionsOf(k) : session' = [session EXCEPT ![r] = s]
            /\ \E step \in FirstSteps(k) : Go(r, step)
    BY <1>3 DEF Start
  <2>2. SessionsOf(k) \subseteq Sessions /\ Sessions \subseteq CalendarDays
    BY DEF SessionsOf, Sessions
  <2>3. /\ FirstSteps(k) \subseteq {"check", "fetch", "universe"}
        /\ k \notin Ingesting => FirstSteps(k) = {"universe"}
    BY DEF FirstSteps
  <2>4. PICK step \in FirstSteps(k) : pc' = [pc EXCEPT ![r] = step]
    BY <2>1 DEF Go
  <2>5. pc' \in [Runs -> Steps] /\ kind' \in [Runs -> Kinds]
    BY <2>1, <2>3, <2>4 DEF TypeOK, Steps
  <2>6. /\ kind'[r] = k /\ pc'[r] = step
        /\ \A q \in Runs \ {r} : kind'[q] = kind[q] /\ pc'[q] = pc[q]
    BY <2>1, <2>4 DEF TypeOK
  <2>7. Routed'
    BY <2>3, <2>6
  <2>8. PICK d \in Sessions : session' = [session EXCEPT ![r] = d]
    BY <2>1, <2>2
  <2>9. TypeOK'
    BY <1>3, <2>2, <2>5, <2>8 DEF Start, TypeOK
  <2>10. CopyUsable' /\ SessionResolved'
    <3>1. UNCHANGED copy
      BY <1>3 DEF Start
    <3>2. step \in {"check", "fetch", "universe"}
      BY <2>3, <2>4
    <3> QED
      BY <2>6, <2>8, <3>1, <3>2 DEF TypeOK
  <2> QED
    BY <2>7, <2>9, <2>10
<1>4. ASSUME NEW r \in Runs, StartBlocked(r) PROVE TypeInv'
  BY <1>4 DEF StartBlocked, End, Go, TypeOK, Steps, Scanning, Live, Kinds
<1>5. ASSUME NEW r \in Runs, Available(r) PROVE TypeInv'
  BY <1>5 DEF Available, Go, TypeOK, Steps
<1>6. ASSUME NEW r \in Runs, NotAvailable(r) PROVE TypeInv'
  BY <1>6 DEF NotAvailable, End, Go, TypeOK, Steps
<1>7. ASSUME NEW r \in Runs, Fetch(r) PROVE TypeInv'
  BY <1>7 DEF Fetch, Go, TypeOK, Steps
<1>8. ASSUME NEW r \in Runs, FetchFails(r) PROVE TypeInv'
  BY <1>8 DEF FetchFails, End, Go, TypeOK, Steps
<1>9. ASSUME NEW r \in Runs, ReadPartition(r) PROVE TypeInv'
  BY <1>9 DEF ReadPartition, Go, TypeOK, Steps
<1>10. ASSUME NEW r \in Runs, ReadPartitionFails(r) PROVE TypeInv'
  BY <1>10 DEF ReadPartitionFails, End, Go, TypeOK, Steps
<1>11. ASSUME NEW r \in Runs, Count(r) PROVE TypeInv'
  BY <1>11 DEF Count, End, Go, TypeOK, Steps
<1>12. ASSUME NEW r \in Runs, CountFails(r) PROVE TypeInv'
  BY <1>12 DEF CountFails, End, Go, TypeOK, Steps
<1>13. ASSUME NEW r \in Runs, Universe(r) PROVE TypeInv'
  BY <1>13 DEF Universe, Go, TypeOK, Steps
<1>14. ASSUME NEW r \in Runs, UniverseFails(r) PROVE TypeInv'
  BY <1>14 DEF UniverseFails, End, Go, TypeOK, Steps
<1>15. ASSUME NEW r \in Runs, Scan(r) PROVE TypeInv'
  <2>1. LastBar(Visible(r)) \in CalendarDays \cup {NoDay}
    <3>1. Visible(r) \in SUBSET CalendarDays
      BY DEF Visible, Sessions
    <3> QED
      BY <3>1, LatestIs DEF LastBar
  <2>2. (IF torn THEN NoRows ELSE store[session[r]]) \in Held
    BY <1>15 DEF Scan, TypeOK, Held
  <2> QED
    BY <1>15, <2>1, <2>2 DEF Scan, Go, TypeOK, Steps
<1>16. ASSUME NEW r \in Runs, OpenFile(r) PROVE TypeInv'
  <2>1. PICK step \in InPlace : pc[r] = step /\ Go(r, Opened(step))
    BY <1>16 DEF OpenFile
  <2>2. pc' \in [Runs -> Steps] /\ CopyUsable' /\ Routed' /\ SessionResolved'
    BY <1>16, <2>1 DEF OpenFile, Opened, InPlace, Go, TypeOK, Steps
  <2>3. mixed' \subseteq Runs
    BY <1>16 DEF OpenFile, TypeOK
  <2>4. /\ file' \in [Files \X CalendarDays -> {NoFile, Torn, HeaderOnly} \cup Editions \cup Runs]
        /\ torn' \in BOOLEAN
    BY <1>16 DEF OpenFile, TypeOK
  <2> QED
    BY <1>16, <2>2, <2>3, <2>4 DEF OpenFile, TypeOK
<1>17. ASSUME NEW r \in Runs, CloseFile(r) PROVE TypeInv'
  <2>1. PICK step \in InPlace : pc[r] = Opened(step) /\ Go(r, After(step))
    BY <1>17 DEF CloseFile
  <2>2. pc' \in [Runs -> Steps] /\ CopyUsable' /\ Routed' /\ SessionResolved'
    BY <1>17, <2>1 DEF CloseFile, Opened, After, InPlace, Go, TypeOK, Steps
  <2>3. /\ store' \in [Sessions -> Held]
        /\ torn' \in BOOLEAN
    BY <1>17, MergedType DEF CloseFile, Opened, InPlace, TypeOK
  <2>4. file' \in [Files \X CalendarDays -> {NoFile, Torn, HeaderOnly} \cup Editions \cup Runs]
    <3>1. PICK content : /\ \/ content \in {r, Torn}
                            \/ content = copy[r] /\ pc[r] = "raw_open"
                         /\ \/ UNCHANGED file
                            \/ \E f : file' = [file EXCEPT ![f] = content]
      BY <1>17 DEF CloseFile, Opened, InPlace
    <3>2. content \in {NoFile, Torn, HeaderOnly} \cup Editions \cup Runs
      BY <3>1 DEF TypeOK
    <3> QED
      BY <3>1, <3>2 DEF TypeOK
  <2> QED
    BY <1>17, <2>2, <2>3, <2>4 DEF CloseFile, TypeOK
<1>18. ASSUME NEW r \in Runs, Exit(r) PROVE TypeInv'
  <2>1. /\ pc' = [pc EXCEPT ![r] = "done"]
        /\ code' = [code EXCEPT ![r] = "4"] \/ code' = [code EXCEPT ![r] = "0"]
        /\ UNCHANGED <<day, closed, published, store, torn, file, kind, session, copy, base,
                        latest, scanned, mixed, alone, newest>>
    BY <1>18 DEF Exit, End, Go
  <2> QED
    BY <2>1 DEF TypeOK, Steps
<1>19. ASSUME NEW r \in Runs, Kill(r) PROVE TypeInv'
  BY <1>19 DEF Kill, End, Go, TypeOK, Steps
<1>20. CASE UNCHANGED vars
  BY <1>20 DEF vars, TypeOK
<1> QED
  BY <1>1, <1>2, <1>3, <1>4, <1>5, <1>6, <1>7, <1>8, <1>9, <1>10, <1>11, <1>12, <1>13,
     <1>14, <1>15, <1>16, <1>17, <1>18, <1>19, <1>20 DEF Next, Step

\* Every reachable state is well typed, and what a program merges into the
\* partition is an edition of NSE's file or bootstrap rows.
THEOREM TypeCorrect == Spec => []TypeOK
<1>1. TypeInv => TypeOK
  BY DEF TypeInv
<1> QED
  BY <1>1, InitTypes, NextTypes, PTL DEF Spec

-------------------------------------------------------------------------------
(* The inductive invariant: who wrote a report, and what an invocation that *)
(* nothing overlapped has put where by each of its steps.                   *)

OpenSteps == {"raw_open", "rewrite_open", "report_open", "manifest_open"}
Fetched == {"raw", "raw_open", "append", "rewrite", "rewrite_open"}
Ingested == {"count", "universe", "scan"}
Scanned == {"report", "report_open", "manifest", "manifest_open", "exit"}

\* A report holds a run's rows only when it is of the run's session and the run
\* is past writing it.
ReportsOwned ==
    \A s \in Sessions, r \in Runs :
        file[<<"report", s>>] = r =>
            session[r] = s /\ pc[r] \in {"manifest", "manifest_open", "exit", "done"}

Undecided == \A r \in Runs : pc[r] # "done" => code[r] = "none"

\* While an invocation that nothing overlapped is under way, nothing else is,
\* and no other run's bytes are in a file it has open.
Lone ==
    /\ \A r \in alone \cap Active : Active \subseteq {r}
    /\ newest \in alone => Active \subseteq {newest}
    /\ \A r \in alone : pc[r] \in OpenSteps => r \notin mixed

\* The edition a run_daily fetched, on its way through the store into the scan.
Carried(r) ==
    kind[r] = "daily" /\ copy[r] # HeaderOnly =>
        /\ pc[r] \in Fetched => copy[r] \in Editions
        /\ pc[r] \in Ingested => /\ copy[r] \in Editions
                                 /\ store[session[r]] = copy[r]
                                 /\ ~ torn
        /\ pc[r] \in Scanned \/ Completed(r) => copy[r] \in Editions /\ scanned[r] = copy[r]

\* The files it leaves.
Placed(r) ==
    LET s == session[r]
        k == kind[r]
    IN  /\ pc[r] \in {"manifest", "manifest_open", "exit"} \/ Completed(r) =>
              file[<<Name("report", k), s>>] = r
        /\ pc[r] = "exit" \/ Completed(r) => file[<<Name("manifest", k), s>>] = r
        /\ k = "daily" =>
              /\ \/ pc[r] \in {"append", "rewrite", "rewrite_open"} \cup Ingested \cup Scanned
                 \/ Completed(r)
                 => file[<<"raw", s>>] = copy[r]
              /\ /\ copy[r] # HeaderOnly
                 /\ pc[r] \in Ingested \cup Scanned \/ Completed(r)
                 => store[s] = copy[r]

IInv ==
    /\ TypeInv
    /\ ReportsOwned
    /\ Undecided
    /\ Lone
    /\ \A r \in alone : Carried(r)
    /\ newest \in alone => Placed(newest)

LEMMA InitIInv == Init => IInv
<1> SUFFICES ASSUME Init PROVE IInv
  OBVIOUS
<1>1. /\ TypeInv
      /\ \A r \in Runs : pc[r] = "idle" /\ code[r] = "none"
      /\ alone = Runs /\ newest \in Runs
  BY InitTypes DEF Init
<1>2. Active = {}
  BY <1>1 DEF Active
<1>3. ReportsOwned
  <2> SUFFICES ASSUME NEW s \in Sessions, NEW r \in Runs PROVE file[<<"report", s>>] # r
    BY DEF ReportsOwned
  <2>1. <<"report", s>> \in Files \X CalendarDays
    BY DEF Files, Sessions
  <2> QED
    BY <2>1, RunsAreNoContents DEF Init
<1>4. Undecided /\ Lone
  BY <1>1, <1>2 DEF Undecided, Lone, OpenSteps
<1>5. \A r \in Runs : Carried(r) /\ Placed(r)
  BY <1>1 DEF Carried, Placed, Completed, Fetched, Ingested, Scanned
<1> QED
  BY <1>1, <1>3, <1>4, <1>5 DEF IInv

-------------------------------------------------------------------------------
(* What a step of an invocation leaves alone. *)

LEMMA StepIs ==
    ASSUME TypeOK, NEW r \in Runs, Step(r)
    PROVE  /\ r \in Active
           /\ pc[r] \notin {"idle", "done"}
           /\ UNCHANGED <<kind, session, alone, newest>>
           /\ \A q \in Runs \ {r} : /\ pc'[q] = pc[q] /\ code'[q] = code[q]
                                    /\ copy'[q] = copy[q] /\ scanned'[q] = scanned[q]
           /\ pc'[r] \notin {"idle"}
<1> USE DEF TypeOK, clock, disk, found, history, Go, End
<1>1. CASE Available(r)
  BY <1>1 DEF Available, Active
<1>2. CASE NotAvailable(r)
  BY <1>2 DEF NotAvailable, Active
<1>3. CASE Fetch(r)
  BY <1>3 DEF Fetch, Active
<1>4. CASE FetchFails(r)
  BY <1>4 DEF FetchFails, Active
<1>5. CASE ReadPartition(r)
  BY <1>5 DEF ReadPartition, Active
<1>6. CASE ReadPartitionFails(r)
  BY <1>6 DEF ReadPartitionFails, Active
<1>7. CASE Count(r)
  BY <1>7 DEF Count, Active
<1>8. CASE CountFails(r)
  BY <1>8 DEF CountFails, Active
<1>9. CASE Universe(r)
  BY <1>9 DEF Universe, Active
<1>10. CASE UniverseFails(r)
  BY <1>10 DEF UniverseFails, Active
<1>11. CASE Scan(r)
  BY <1>11 DEF Scan, Active
<1>12. CASE OpenFile(r)
  BY <1>12 DEF OpenFile, Opened, InPlace, Active
<1>13. CASE CloseFile(r)
  BY <1>13 DEF CloseFile, Opened, After, InPlace, Active
<1>14. CASE Exit(r)
  BY <1>14 DEF Exit, Active
<1> QED
  BY <1>1, <1>2, <1>3, <1>4, <1>5, <1>6, <1>7, <1>8, <1>9, <1>10, <1>11, <1>12, <1>13,
     <1>14 DEF Step

LEMMA OnlyOpenFileOpens ==
    ASSUME TypeOK, NEW r \in Runs, Step(r), ~ OpenFile(r)
    PROVE  pc'[r] \notin OpenSteps /\ (CloseFile(r) \/ UNCHANGED <<store, torn, file>>)
                                   /\ UNCHANGED mixed
<1> USE DEF TypeOK, clock, disk, found, history, Go, End, OpenSteps
<1>1. CASE Available(r)
  BY <1>1 DEF Available
<1>2. CASE NotAvailable(r)
  BY <1>2 DEF NotAvailable
<1>3. CASE Fetch(r)
  BY <1>3 DEF Fetch
<1>4. CASE FetchFails(r)
  BY <1>4 DEF FetchFails
<1>5. CASE ReadPartition(r)
  BY <1>5 DEF ReadPartition
<1>6. CASE ReadPartitionFails(r)
  BY <1>6 DEF ReadPartitionFails
<1>7. CASE Count(r)
  BY <1>7 DEF Count
<1>8. CASE CountFails(r)
  BY <1>8 DEF CountFails
<1>9. CASE Universe(r)
  BY <1>9 DEF Universe
<1>10. CASE UniverseFails(r)
  BY <1>10 DEF UniverseFails
<1>11. CASE Scan(r)
  BY <1>11 DEF Scan
<1>12. CASE CloseFile(r)
  BY <1>12 DEF CloseFile, Opened, After, InPlace
<1>13. CASE Exit(r)
  BY <1>13 DEF Exit
<1> QED
  BY <1>1, <1>2, <1>3, <1>4, <1>5, <1>6, <1>7, <1>8, <1>9, <1>10, <1>11, <1>12, <1>13
     DEF Step

\* A file that an invocation nothing overlapped opens, it has to itself.
LEMMA OpensAlone ==
    ASSUME TypeOK, Lone, NEW r \in alone, OpenFile(r)
    PROVE  mixed' = mixed \ {r}
<1>1. PICK step \in InPlace :
          /\ pc[r] = step
          /\ LET others == {q \in Runs : SameFile(q, r, step)}
             IN  mixed' = IF others = {} THEN mixed \ {r} ELSE mixed \cup others \cup {r}
  BY DEF OpenFile
<1>2. r \in Runs /\ r \in Active /\ Active \subseteq {r}
  BY <1>1 DEF TypeOK, Lone, Active, InPlace
<1>3. ASSUME NEW q \in Runs, SameFile(q, r, step) PROVE FALSE
  <2>1. pc[q] = Opened(step)
    BY <1>3 DEF SameFile
  <2>2. q \in Active
    BY <2>1 DEF Opened, InPlace, Active
  <2>3. q = r
    BY <1>2, <2>2
  <2> QED
    BY <1>1, <2>1, <2>3 DEF Opened, InPlace
<1> QED
  BY <1>1, <1>3

LEMMA LoneKeeps == ASSUME IInv, NEW r \in Runs, Step(r) PROVE Lone'
<1>1. TypeOK /\ Lone
  BY DEF IInv, TypeInv
<1>2. /\ r \in Active /\ UNCHANGED <<alone, newest>>
      /\ \A q \in Runs \ {r} : pc'[q] = pc[q]
  BY <1>1, StepIs
<1>3. Active' \subseteq Active
  BY <1>2 DEF Active
<1>4. ASSUME NEW q \in alone, pc'[q] \in OpenSteps PROVE q \notin mixed'
  <2>1. q \in Runs
    BY <1>1 DEF TypeOK
  <2>2. q = r
    <3>1. ASSUME q # r PROVE FALSE
      <4>1. q \in Active
        BY <1>2, <1>4, <2>1, <3>1 DEF Active, OpenSteps
      <4> QED
        BY <1>1, <1>2, <3>1, <4>1 DEF Lone
    <3> QED
      BY <3>1
  <2>3. OpenFile(r)
    BY <1>1, <1>4, <2>2, OnlyOpenFileOpens
  <2> QED
    BY <1>1, <2>2, <2>3, OpensAlone
<1> QED
  BY <1>1, <1>2, <1>3, <1>4 DEF Lone

LEMMA UndecidedKeeps == ASSUME IInv, NEW r \in Runs, Step(r) PROVE Undecided'
<1>1. TypeOK /\ Undecided
  BY DEF IInv, TypeInv
<1>2. /\ pc[r] \notin {"idle", "done"}
      /\ \A q \in Runs \ {r} : pc'[q] = pc[q] /\ code'[q] = code[q]
  BY <1>1, StepIs
<1>3. pc'[r] # "done" => code'[r] = code[r]
  <2> USE DEF Go, End, TypeOK
  <2> SUFFICES ASSUME pc'[r] # "done" PROVE UNCHANGED code
    OBVIOUS
  <2>1. ~ NotAvailable(r) /\ ~ FetchFails(r) /\ ~ ReadPartitionFails(r) /\ ~ CountFails(r)
        /\ ~ UniverseFails(r) /\ ~ Exit(r)
    BY <1>1 DEF NotAvailable, FetchFails, ReadPartitionFails, CountFails, UniverseFails, Exit
  <2> QED
    BY <1>1, <2>1 DEF Step, Available, Fetch, ReadPartition, Count, Universe, Scan, OpenFile,
       CloseFile
<1> QED
  BY <1>1, <1>2, <1>3 DEF Undecided

\* A run that opens or closes its report has no other run's rows in it.
LEMMA ReportsOwnedKeeps == ASSUME IInv, NEW r \in Runs, Step(r) PROVE ReportsOwned'
<1>1. TypeOK /\ CopyUsable /\ ReportsOwned
  BY DEF IInv, TypeInv
<1>2. /\ UNCHANGED session
      /\ \A q \in Runs \ {r} : pc'[q] = pc[q]
  BY <1>1, StepIs
<1> DEFINE Past == {"manifest", "manifest_open", "exit", "done"}
<1> SUFFICES ASSUME NEW s \in Sessions, NEW q \in Runs, file'[<<"report", s>>] = q
             PROVE  session[q] = s /\ pc'[q] \in Past
  BY <1>2 DEF ReportsOwned
<1>3. pc[r] \in Past => pc'[r] \in Past
  <2>1. pc[r] \in Past => OpenFile(r) \/ CloseFile(r) \/ Exit(r)
    BY DEF Step, Available, NotAvailable, Fetch, FetchFails, ReadPartition,
       ReadPartitionFails, Count, CountFails, Universe, UniverseFails, Scan
  <2>2. OpenFile(r) /\ pc[r] \in Past => pc'[r] \in Past
    BY <1>1 DEF OpenFile, Opened, InPlace, Go, TypeOK
  <2>3. CloseFile(r) /\ pc[r] \in Past => pc'[r] \in Past
    BY <1>1 DEF CloseFile, Opened, After, InPlace, Go, TypeOK
  <2>4. Exit(r) => pc'[r] \in Past
    BY <1>1 DEF Exit, End, Go, TypeOK
  <2> QED
    BY <2>1, <2>2, <2>3, <2>4
<1>4. CASE file'[<<"report", s>>] = file[<<"report", s>>]
  <2>1. session[q] = s /\ pc[q] \in Past
    BY <1>1, <1>4 DEF ReportsOwned
  <2> QED
    BY <1>2, <1>3, <2>1
<1>5. CASE file'[<<"report", s>>] # file[<<"report", s>>]
  <2>1. OpenFile(r) \/ CloseFile(r)
    BY <1>1, <1>5, OnlyOpenFileOpens
  <2>2. ~ OpenFile(r)
    <3>1. ASSUME OpenFile(r) PROVE file'[<<"report", s>>] \in {file[<<"report", s>>], Torn}
      <4>1. <<"report", s>> \in Files \X CalendarDays
        BY DEF Files, Sessions
      <4>2. \/ UNCHANGED file
            \/ \E f : file' = [file EXCEPT ![f] = Torn]
        BY <3>1 DEF OpenFile
      <4> QED
        BY <1>1, <4>1, <4>2 DEF TypeOK
    <3> QED
      BY <1>5, <3>1, RunsAreNoContents
  <2>3. PICK step \in InPlace, content \in {r, copy[r], Torn} :
            /\ pc[r] = Opened(step) /\ Go(r, After(step))
            /\ content \in {IF step = "raw" THEN copy[r] ELSE r} \cup {Torn}
            /\ file' = [file EXCEPT ![<<Name(step, kind[r]), session[r]>>] = content]
    BY <1>5, <2>1, <2>2 DEF CloseFile
  <2>4. <<Name(step, kind[r]), session[r]>> = <<"report", s>> /\ content = q
    BY <1>1, <1>5, <2>3 DEF TypeOK
  <2>5. step = "report" /\ session[r] = s
    BY <2>3, <2>4 DEF Name, InPlace
  <2>6. content = r
    BY <2>3, <2>4, <2>5, RunsAreNoContents
  <2> QED
    BY <1>1, <2>3, <2>4, <2>5, <2>6 DEF Go, After, TypeOK
<1> QED
  BY <1>4, <1>5

-------------------------------------------------------------------------------
(* The steps of an invocation that nothing overlaps. *)

\* Without a code there is no verdict yet.
LEMMA Verdict ==
    ASSUME IInv, NEW r \in Runs, Step(r)
    PROVE  /\ UNCHANGED <<kind, session>>
           /\ r \in Active
           /\ session[r] \in Sessions
           /\ pc'[r] # "done" => code'[r] = "none"
           /\ ~ Completed(r)
           /\ pc'[r] # "done" => ~ Completed(r)'
<1>1. TypeOK /\ SessionResolved /\ Undecided /\ Undecided'
  BY UndecidedKeeps DEF IInv, TypeInv
<1>2. UNCHANGED <<kind, session>> /\ r \in Active /\ pc[r] # "done"
  BY <1>1, StepIs
<1> QED
  BY <1>1, <1>2 DEF SessionResolved, Undecided, Completed

LEMMA OwnCarried ==
    ASSUME IInv, NEW r \in Runs, r \in alone, Step(r)
    PROVE  Carried(r)'
<1> SUFFICES ASSUME kind[r] = "daily", copy'[r] # HeaderOnly
             PROVE  /\ pc'[r] \in Fetched => copy'[r] \in Editions
                    /\ pc'[r] \in Ingested => /\ copy'[r] \in Editions
                                              /\ store'[session[r]] = copy'[r]
                                              /\ ~ torn'
                    /\ pc'[r] \in Scanned \/ Completed(r)'
                          => copy'[r] \in Editions /\ scanned'[r] = copy'[r]
  BY Verdict DEF Carried
<1>1. /\ TypeOK /\ Carried(r) /\ session[r] \in Sessions
      /\ pc'[r] # "done" => ~ Completed(r)'
      /\ pc[r] \in OpenSteps => r \notin mixed
  BY Verdict DEF IInv, TypeInv, Lone
<1> USE DEF Go, End, TypeOK, disk, found, Fetched, Ingested, Scanned
<1>2. CASE Available(r)
  BY <1>1, <1>2 DEF Available
<1>3. CASE NotAvailable(r)
  BY <1>1, <1>3 DEF NotAvailable, Completed
<1>4. CASE Fetch(r)
  BY <1>1, <1>4 DEF Fetch
<1>5. CASE FetchFails(r)
  BY <1>1, <1>5 DEF FetchFails, Completed
<1>6. CASE ReadPartition(r)
  BY <1>1, <1>6 DEF ReadPartition, Carried
<1>7. CASE ReadPartitionFails(r)
  BY <1>1, <1>7 DEF ReadPartitionFails, Completed
<1>8. CASE Count(r)
  BY <1>1, <1>8 DEF Count, Carried
<1>9. CASE CountFails(r)
  BY <1>1, <1>9 DEF CountFails, Completed
<1>10. CASE Universe(r)
  BY <1>1, <1>10 DEF Universe, Carried
<1>11. CASE UniverseFails(r)
  BY <1>1, <1>11 DEF UniverseFails, Completed
<1>12. CASE Scan(r)
  BY <1>1, <1>12 DEF Scan, Carried
<1>13. CASE OpenFile(r)
  BY <1>1, <1>13 DEF OpenFile, Opened, InPlace, Carried
<1>14. CASE CloseFile(r)
  <2>1. CASE pc[r] = "rewrite_open"
    <3>1. pc'[r] = "count" /\ torn' = FALSE /\ store' \in Merged(r) /\ UNCHANGED copy
      BY <1>1, <1>14, <2>1 DEF CloseFile, Opened, After, InPlace, OpenSteps
    <3>2. store' = [base[r] EXCEPT ![session[r]] = copy[r]]
      BY <3>1 DEF Merged
    <3> QED
      BY <1>1, <2>1, <3>1, <3>2 DEF Carried
  <2>2. CASE pc[r] # "rewrite_open"
    BY <1>1, <1>14, <2>2 DEF CloseFile, Opened, After, InPlace, Carried
  <2> QED
    BY <2>1, <2>2
<1>15. CASE Exit(r)
  BY <1>1, <1>15 DEF Exit, Carried
<1> QED
  BY <1>2, <1>3, <1>4, <1>5, <1>6, <1>7, <1>8, <1>9, <1>10, <1>11, <1>12, <1>13, <1>14,
     <1>15 DEF Step

\* Only these files of the directory change when an invocation opens or closes
\* the one of a step: the partition, or the one named after the step.
LEMMA OneFileChanges ==
    ASSUME TypeOK, NEW r \in Runs, OpenFile(r) \/ CloseFile(r),
           NEW step \in InPlace, pc[r] \in {step, Opened(step)},
           NEW f \in Files \X CalendarDays, f # <<Name(step, kind[r]), session[r]>>
    PROVE  file'[f] = file[f]
<1>1. CASE OpenFile(r)
  <2>1. PICK other \in InPlace :
            /\ pc[r] = other
            /\ \/ UNCHANGED file
               \/ file' = [file EXCEPT ![<<Name(other, kind[r]), session[r]>>] = Torn]
    BY <1>1 DEF OpenFile
  <2>2. other = step
    BY <2>1 DEF InPlace, Opened
  <2> QED
    BY <2>1, <2>2 DEF TypeOK
<1>2. CASE CloseFile(r)
  <2>1. PICK other \in InPlace, content \in {r, copy[r], Torn} :
            /\ pc[r] = Opened(other)
            /\ \/ UNCHANGED file
               \/ file' = [file EXCEPT ![<<Name(other, kind[r]), session[r]>>] = content]
    BY <1>2, Zenon DEF CloseFile
  <2>2. other = step
    BY <2>1 DEF InPlace, Opened
  <2> QED
    BY <2>1, <2>2 DEF TypeOK
<1> QED
  BY <1>1, <1>2

\* A file a lone invocation closes holds what it wrote.
LEMMA ClosesWhole ==
    ASSUME TypeOK, NEW r \in Runs, r \notin mixed, CloseFile(r), session[r] \in CalendarDays,
           NEW step \in InPlace \ {"rewrite"}, pc[r] = Opened(step)
    PROVE  /\ pc'[r] = After(step)
           /\ file'[<<Name(step, kind[r]), session[r]>>] = IF step = "raw" THEN copy[r] ELSE r
           /\ UNCHANGED <<store, copy, kind, session>>
<1>1. PICK other \in InPlace :
          /\ pc[r] = Opened(other)
          /\ Go(r, After(other))
          /\ other # "rewrite" =>
                /\ file' = [file EXCEPT ![<<Name(other, kind[r]), session[r]>>] =
                                            IF other = "raw" THEN copy[r] ELSE r]
                /\ UNCHANGED store
  BY DEF CloseFile
<1>2. other = step
  BY <1>1 DEF InPlace, Opened
<1>3. <<Name(step, kind[r]), session[r]>> \in Files \X CalendarDays
  BY DEF Name, Files, InPlace
<1> QED
  BY <1>1, <1>2, <1>3 DEF Go, TypeOK, CloseFile

LEMMA OwnPlaced ==
    ASSUME IInv, NEW r \in Runs, r \in alone, Placed(r), Step(r)
    PROVE  Placed(r)'
<1> DEFINE s == session[r]
           k == kind[r]
<1>1. /\ TypeOK /\ s \in Sessions /\ s \in CalendarDays
      /\ UNCHANGED <<kind, session>>
      /\ pc'[r] # "done" => ~ Completed(r)'
      /\ pc[r] \in OpenSteps => r \notin mixed
      /\ \A name \in Files : <<name, s>> \in Files \X CalendarDays
      /\ {"raw", Name("report", k), Name("manifest", k)} \subseteq Files
  BY Verdict DEF IInv, TypeInv, Lone, Sessions, Name, Files
<1>2. CASE UNCHANGED <<store, file>> /\ ~ OpenFile(r) /\ ~ CloseFile(r)
  <2> USE DEF Go, End, TypeOK, disk, found, Ingested, Scanned
  <2>1. CASE Available(r)
    BY <1>1, <2>1 DEF Available, Placed
  <2>2. CASE NotAvailable(r) \/ FetchFails(r) \/ ReadPartitionFails(r) \/ CountFails(r)
             \/ UniverseFails(r)
    <3>1. pc'[r] = "done" /\ ~ Completed(r)'
      BY <1>1, <2>2 DEF NotAvailable, FetchFails, ReadPartitionFails, CountFails,
         UniverseFails, Completed
    <3> QED
      BY <3>1 DEF Placed
  <2>3. CASE Fetch(r)
    BY <1>1, <2>3 DEF Fetch, Placed
  <2>4. CASE ReadPartition(r)
    BY <1>1, <2>4 DEF ReadPartition, Placed
  <2>5. CASE Count(r)
    <3>1. CASE k = "daily"
      BY <1>1, <2>5, <3>1 DEF Count, Placed
    <3>2. CASE k # "daily"
      <4>1. pc'[r] = "done" /\ k \notin Scanning
        BY <1>1, <2>5, <3>2 DEF Count, IInv, TypeInv, Routed, Ingesting, Scanning, Live
      <4> QED
        BY <1>1, <3>2, <4>1 DEF Placed, Completed
    <3> QED
      BY <3>1, <3>2
  <2>6. CASE Universe(r)
    BY <1>1, <2>6 DEF Universe, Placed
  <2>7. CASE Scan(r)
    BY <1>1, <2>7 DEF Scan, Placed
  <2>8. CASE Exit(r)
    BY <1>1, <2>8 DEF Exit, Placed
  <2> QED
    BY <1>2, <2>1, <2>2, <2>3, <2>4, <2>5, <2>6, <2>7, <2>8 DEF Step
<1>3. CASE OpenFile(r)
  <2>1. PICK step \in InPlace : pc[r] = step /\ pc'[r] = Opened(step)
    BY <1>1, <1>3 DEF OpenFile, Go, TypeOK
  <2>2. /\ UNCHANGED <<store, copy>>
        /\ \A f \in Files \X CalendarDays :
              f # <<Name(step, k), s>> => file'[f] = file[f]
    BY <1>1, <1>3, <2>1, OneFileChanges DEF OpenFile
  <2> QED
    BY <1>1, <2>1, <2>2 DEF Placed, InPlace, Opened, Name, Ingested, Scanned
<1>4. CASE CloseFile(r)
  <2>1. PICK step \in InPlace : pc[r] = Opened(step) /\ pc'[r] = After(step)
    BY <1>1, <1>4 DEF CloseFile, Go, TypeOK
  <2>2. /\ UNCHANGED copy
        /\ \A f \in Files \X CalendarDays :
              f # <<Name(step, k), s>> => file'[f] = file[f]
    BY <1>1, <1>4, <2>1, OneFileChanges DEF CloseFile
  <2>3. r \notin mixed
    BY <1>1, <2>1 DEF Opened, InPlace, OpenSteps
  <2>4. CASE step = "rewrite"
    <3>1. k = "daily" /\ copy[r] # HeaderOnly => store'[s] = copy[r]
      <4>1. Carried(r)' /\ (pc'[r] = "count")
        BY <2>1, <2>4, OwnCarried DEF After
      <4> QED
        BY <1>1, <2>2, <4>1 DEF Carried, Ingested
    <3>2. UNCHANGED file
      BY <1>4, <2>1, <2>4 DEF CloseFile, Opened, InPlace
    <3> QED
      BY <1>1, <2>1, <2>2, <2>4, <3>1, <3>2 DEF Placed, Opened, After, Name, Ingested, Scanned
  <2>5. CASE step # "rewrite"
    <3>1. /\ file'[<<Name(step, k), s>>] = IF step = "raw" THEN copy[r] ELSE r
          /\ UNCHANGED store
      BY <1>1, <1>4, <2>1, <2>3, <2>5, ClosesWhole
    <3>2. CASE step = "raw"
      BY <1>1, <2>1, <2>2, <3>1, <3>2 DEF Placed, Opened, After, Name, Ingested, Scanned
    <3>3. CASE step = "report"
      BY <1>1, <2>1, <2>2, <3>1, <3>3 DEF Placed, Opened, After, Name, Ingested, Scanned
    <3>4. CASE step = "manifest"
      BY <1>1, <2>1, <2>2, <3>1, <3>4 DEF Placed, Opened, After, Name, Ingested, Scanned
    <3> QED
      BY <2>5, <3>2, <3>3, <3>4 DEF InPlace
  <2> QED
    BY <2>4, <2>5
<1> QED
  BY <1>1, <1>2, <1>3, <1>4, OnlyOpenFileOpens

-------------------------------------------------------------------------------
(* Invariance *)

\* Of an invocation that is not under way, only its outcome counts.
LEMMA CarriedAtRest ==
    ASSUME NEW q \in Runs, q \notin Active, pc'[q] = pc[q], Carried(q),
           kind'[q] = kind[q], session'[q] = session[q], code'[q] = code[q],
           copy'[q] = copy[q], scanned'[q] = scanned[q]
    PROVE  Carried(q)'
  BY DEF Active, Carried, Completed, Fetched, Ingested, Scanned

LEMMA StepKeeps == ASSUME IInv, NEW r \in Runs, Step(r), TypeInv' PROVE IInv'
<1>1. TypeOK /\ Lone
  BY DEF IInv, TypeInv
<1>2. /\ r \in Active
      /\ UNCHANGED <<kind, session, alone, newest>>
      /\ \A q \in Runs \ {r} : /\ pc'[q] = pc[q] /\ code'[q] = code[q]
                               /\ copy'[q] = copy[q] /\ scanned'[q] = scanned[q]
  BY <1>1, StepIs
<1>3. ASSUME NEW q \in alone PROVE Carried(q)'
  <2>1. q \in Runs /\ Carried(q)
    BY <1>1 DEF IInv, TypeOK
  <2>2. CASE q = r
    BY <2>1, <2>2, OwnCarried
  <2>3. CASE q # r
    <3>1. q \notin Active
      BY <1>1, <1>2, <2>3 DEF Lone
    <3> QED
      BY <1>2, <2>1, <2>3, <3>1, CarriedAtRest
  <2> QED
    BY <2>2, <2>3
<1>4. ASSUME newest \in alone PROVE Placed(newest)'
  <2>1. newest = r
    BY <1>1, <1>2, <1>4 DEF Lone
  <2>2. Placed(r)
    BY <1>4, <2>1 DEF IInv
  <2>3. Placed(r)'
    BY <1>4, <2>1, <2>2, OwnPlaced
  <2> QED
    BY <1>2, <2>1, <2>3
<1> QED
  BY <1>2, <1>3, <1>4, LoneKeeps, UndecidedKeeps, ReportsOwnedKeeps DEF IInv

LEMMA StartKeeps == ASSUME IInv, NEW r \in Runs, Start(r), TypeInv' PROVE IInv'
<1>1. TypeOK /\ Lone /\ Undecided /\ ReportsOwned
  BY DEF IInv, TypeInv
<1>2. PICK k \in Kinds, step \in {"check", "fetch", "universe"} :
          /\ pc[r] = "idle"
          /\ kind' = [kind EXCEPT ![r] = k]
          /\ \E s \in SessionsOf(k) : session' = [session EXCEPT ![r] = s]
          /\ pc' = [pc EXCEPT ![r] = step]
          /\ k = "daily" => step = "check"
  BY DEF Start, FirstSteps, Go
<1>3. /\ alone' = IF Active = {} THEN alone ELSE alone \ (Active \cup {r})
      /\ newest' = r
      /\ UNCHANGED <<store, torn, file, copy, scanned, code, mixed>>
  BY DEF Start, disk, found
<1>4. Active' = Active \cup {r}
  BY <1>1, <1>2 DEF Active, TypeOK
<1>5. /\ kind'[r] = k /\ pc'[r] = step /\ code'[r] = "none"
      /\ \A q \in Runs \ {r} : /\ kind'[q] = kind[q] /\ pc'[q] = pc[q]
                               /\ session'[q] = session[q]
  BY <1>1, <1>2, <1>3 DEF TypeOK, Undecided
<1>6. Lone'
  <2>1. \A q \in alone' : pc'[q] \in OpenSteps => q \notin mixed'
    BY <1>1, <1>2, <1>3, <1>5 DEF Lone, OpenSteps, TypeOK
  <2>2. CASE Active = {}
    BY <1>3, <1>4, <2>1, <2>2 DEF Lone
  <2>3. CASE Active # {}
    BY <1>3, <1>4, <2>1, <2>3 DEF Lone
  <2> QED
    BY <2>2, <2>3
<1>7. Undecided'
  BY <1>1, <1>3, <1>5 DEF Undecided
<1>8. ReportsOwned'
  <2>1. \A s \in Sessions : file[<<"report", s>>] # r
    BY <1>1, <1>2 DEF ReportsOwned
  <2> QED
    BY <1>1, <1>3, <1>5, <2>1 DEF ReportsOwned
<1>9. ~ Completed(r)'
  BY <1>5 DEF Completed
<1>10. Carried(r)' /\ Placed(r)'
  BY <1>2, <1>5, <1>9 DEF Carried, Placed, Fetched, Ingested, Scanned
<1>11. ASSUME NEW q \in alone, q # r PROVE Carried(q)'
  <2>1. q \in Runs /\ Carried(q)
    BY <1>1 DEF IInv, TypeOK
  <2> QED
    BY <1>3, <1>5, <1>11, <2>1 DEF Carried, Completed
<1>12. alone' \subseteq alone
  BY <1>3
<1> QED
  BY <1>3, <1>6, <1>7, <1>8, <1>10, <1>11, <1>12 DEF IInv

\* An invocation that is blocked or killed has no outcome to answer for.
LEMMA EndKeeps ==
    ASSUME IInv, NEW r \in Runs, StartBlocked(r) \/ Kill(r), TypeInv'
    PROVE  IInv'
<1>1. TypeOK /\ Lone /\ Undecided /\ ReportsOwned
  BY DEF IInv, TypeInv
<1>2. /\ UNCHANGED <<store, torn, file, session, copy, scanned, mixed, alone, newest>>
      /\ pc' = [pc EXCEPT ![r] = "done"]
      /\ \E exit \in {"5", "killed"} : code' = [code EXCEPT ![r] = exit]
      /\ \A q \in Runs \ {r} : kind'[q] = kind[q]
      /\ pc[r] = "idle" \/ r \in Active
  BY <1>1 DEF StartBlocked, Kill, End, Go, TypeOK, clock, disk, found, history
<1>3. /\ pc'[r] = "done" /\ code'[r] \in {"5", "killed"}
      /\ \A q \in Runs \ {r} : pc'[q] = pc[q] /\ code'[q] = code[q] /\ kind'[q] = kind[q]
  BY <1>1, <1>2 DEF TypeOK
<1>4. Active' \subseteq Active
  BY <1>3 DEF Active
<1>5. Lone'
  BY <1>1, <1>2, <1>3, <1>4 DEF Lone, OpenSteps, TypeOK
<1>6. Undecided'
  BY <1>1, <1>3 DEF Undecided
<1>7. ReportsOwned'
  BY <1>1, <1>2, <1>3 DEF ReportsOwned
<1>8. ~ Completed(r)'
  BY <1>3 DEF Completed
<1>9. Carried(r)' /\ Placed(r)'
  BY <1>3, <1>8 DEF Carried, Placed, Fetched, Ingested, Scanned
<1>10. ASSUME NEW q \in Runs, q # r
       PROVE  (Carried(q) => Carried(q)') /\ (Placed(q) => Placed(q)')
  BY <1>2, <1>3, <1>10 DEF Carried, Placed, Completed
<1>11. alone \subseteq Runs /\ newest \in Runs
  BY <1>1 DEF TypeOK
<1> QED
  BY <1>2, <1>5, <1>6, <1>7, <1>9, <1>10, <1>11 DEF IInv

\* The world, and a stutter, touch none of it.
LEMMA RestKeeps ==
    ASSUME IInv, TypeInv',
           UNCHANGED <<store, torn, file, kind, pc, session, copy, scanned, code, history>>
    PROVE  IInv'
<1>1. ReportsOwned' /\ Undecided' /\ Lone'
  BY DEF IInv, ReportsOwned, Undecided, Lone, Active, history
<1>2. \A q : (Carried(q) => Carried(q)') /\ (Placed(q) => Placed(q)')
  BY DEF Carried, Placed, Completed
<1> QED
  BY <1>1, <1>2 DEF IInv, history

\* The inductive invariant holds in every state, whatever invocations overlap.
THEOREM Invariance == Spec => []IInv
<1>1. IInv /\ [Next]_vars => IInv'
  <2> SUFFICES ASSUME IInv, [Next]_vars PROVE IInv'
    OBVIOUS
  <2>1. TypeInv'
    BY NextTypes DEF IInv
  <2>2. CASE Tick \/ Publish \/ UNCHANGED vars
    BY <2>1, <2>2, RestKeeps DEF Tick, Publish, vars, disk, found
  <2>3. ASSUME NEW r \in Runs, Start(r) \/ StartBlocked(r) \/ Step(r) \/ Kill(r) PROVE IInv'
    BY <2>1, <2>3, StartKeeps, EndKeeps, StepKeeps
  <2> QED
    BY <2>2, <2>3 DEF Next
<1> QED
  BY <1>1, InitIInv, PTL DEF Spec

-------------------------------------------------------------------------------
(* The invariants of the runs *)

\* For any number of invocations, days and holidays, the rows of a report that
\* count as signals are of the session the report is named for.
THEOREM SignalsOfSession == Spec => []SignalsAreOfTheirSession
<1>1. IInv => SignalsAreOfTheirSession
  <2> SUFFICES ASSUME IInv, NEW s \in Sessions, NEW r \in Runs,
                      file[<<"report", s>>] = r, DataStatus(r) = "CURRENT"
               PROVE  session[r] = s /\ latest[r] = s
    BY DEF SignalsAreOfTheirSession
  <2>1. session[r] = s
    BY DEF IInv, ReportsOwned
  <2>2. latest[r] \in CalendarDays \cup {NoDay}
    BY DEF IInv, TypeInv, TypeOK
  <2> QED
    BY <2>1, <2>2, CurrentIsOfSession DEF DataStatus
<1> QED
  BY <1>1, Invariance, PTL

\* A run_daily that nothing overlapped reports on the edition it ingested.
THEOREM LoneScans == Spec => []LoneDailyScansItsSession
<1>1. IInv => LoneDailyScansItsSession
  BY DEF IInv, Carried, LoneDailyScansItsSession
<1> QED
  BY <1>1, Invariance, PTL

\* The last invocation, when it had the directory to itself and came to its
\* end, leaves a report, a manifest, a raw copy and a store that belong together.
THEOREM LoneMatches == Spec => []LoneRunLeavesMatchingSet
<1>1. IInv => LoneRunLeavesMatchingSet
  BY DEF IInv, Placed, LoneRunLeavesMatchingSet
<1> QED
  BY <1>1, Invariance, PTL

=============================================================================
