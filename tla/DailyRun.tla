------------------------------- MODULE DailyRun -------------------------------
(***************************************************************************)
(* The command line programs around one data directory: run_daily,         *)
(* run_scan, run_replay, ingest_eod and bootstrap_history (cli/), each     *)
(* process one invocation that may overlap any other or die anywhere.      *)
(* They share the store (EodStore models the inside of one append), the    *)
(* raw copies of NSE's files and, for one signal date, the report and the  *)
(* manifest, all rewritten in place and none locked.                       *)
(***************************************************************************)
EXTENDS TradingDays

CONSTANTS
    Runs,        \* invocations
    MaxDay,      \* the last day of the model; the first is day 1
    Holidays,    \* the exchange holidays, all of them listed
    Blocked,     \* the run dates whose required years the file does not list
    Editions,    \* contents NSE's file of one session may have
    HeaderOnly   \* a file none of whose rows is kept

ASSUME DailyAssumption ==
    /\ MaxDay \in Nat \ {0}
    /\ Holidays \subseteq Int
    /\ HeaderOnly \notin Editions

CalendarDays == 1 .. MaxDay
Sessions == {d \in CalendarDays : IsTradingDay(d, Holidays)}

\* What the store may hold of a session, as its effective rows show it:
\* nothing, bootstrap rows only, or an edition of NSE's file.
NoRows == "none"
Yahoo == "yahoo"
Held == {NoRows, Yahoo} \cup Editions

\* The programs, and run_daily without ingestion.
Kinds == {"daily", "skip_ingest", "scan", "replay", "ingest", "bootstrap"}
Ingesting == {"daily", "ingest"}
Live == {"daily", "skip_ingest", "scan"}
Scanning == Live \cup {"replay"}

\* The files written in place, by session: a raw copy holds an edition, a
\* report or a manifest is the run that wrote it.
Files == {"raw", "report", "manifest", "replay_report", "replay_manifest"}
NoFile == "absent"
Torn == "torn"

\* A report that holds a run's rows is nobody else's.
ASSUME RunsAreNoContents == Runs \cap ({NoFile, Torn, HeaderOnly} \cup Editions) = {}

VARIABLES
    day,         \* the IST date
    closed,      \* it is past 15:30
    published,   \* the sessions whose file NSE has published
    store,       \* what the store's partition holds of each session
    torn,        \* the partition is unreadable
    file,        \* each other file of each session
    kind,        \* the program of each invocation
    pc,          \* where it is
    session,     \* the expected_completed_session it resolved
    copy,        \* the edition it fetched, whose hash goes to its manifest
    base,        \* existing: the rows its append read
    latest,      \* the last session its scan found in the store
    scanned,     \* what the store held of its session when it scanned
    code         \* its exit code

\* History variables; mixed also decides what two unfinished writes leave.
VARIABLES
    mixed,       \* invocations that had a file open together with another
    alone,       \* invocations that overlapped no other so far
    newest       \* the last invocation to start

clock == <<day, closed>>
disk == <<published, store, torn, file>>
found == <<latest, scanned>>
history == <<mixed, alone, newest>>
vars == <<clock, disk, kind, pc, session, copy, base, found, code, history>>

Steps == {"idle", "check", "fetch", "raw", "raw_open", "append", "rewrite", "rewrite_open",
          "count", "universe", "scan", "report", "report_open", "manifest", "manifest_open",
          "exit", "done"}

TypeOK ==
    /\ day \in CalendarDays
    /\ closed \in BOOLEAN
    /\ published \subseteq Sessions
    /\ store \in [Sessions -> Held]
    /\ torn \in BOOLEAN
    /\ file \in [Files \X CalendarDays -> {NoFile, Torn, HeaderOnly} \cup Editions \cup Runs]
    /\ kind \in [Runs -> Kinds]
    /\ pc \in [Runs -> Steps]
    /\ session \in [Runs -> CalendarDays]
    /\ copy \in [Runs -> Editions \cup {HeaderOnly, NoRows}]
    /\ base \in [Runs -> [Sessions -> Held]]
    /\ latest \in [Runs -> CalendarDays \cup {NoDay}]
    /\ scanned \in [Runs -> Held]
    /\ code \in [Runs -> {"none", "killed", "raised", "0", "1", "2", "3", "4", "5"}]
    /\ mixed \subseteq Runs
    /\ alone \subseteq Runs
    /\ newest \in Runs

Init ==
    /\ day = 1
    /\ closed = FALSE
    /\ published = {}
    /\ store = [s \in Sessions |-> NoRows]
    /\ torn = FALSE
    /\ file = [f \in Files \X CalendarDays |-> NoFile]
    /\ kind = [r \in Runs |-> "scan"]
    /\ pc = [r \in Runs |-> "idle"]
    /\ session = [r \in Runs |-> 1]
    /\ copy = [r \in Runs |-> NoRows]
    /\ base = [r \in Runs |-> [s \in Sessions |-> NoRows]]
    /\ latest = [r \in Runs |-> NoDay]
    /\ scanned = [r \in Runs |-> NoRows]
    /\ code = [r \in Runs |-> "none"]
    /\ mixed = {}
    /\ alone = Runs
    /\ newest \in Runs

Active == {r \in Runs : pc[r] \notin {"idle", "done"}}

Go(r, step) == pc' = [pc EXCEPT ![r] = step]

End(r, exit) ==
    /\ Go(r, "done")
    /\ code' = [code EXCEPT ![r] = exit]

-------------------------------------------------------------------------------
(* The world: the clock, and NSE publishing a session's file after it closed. *)

Tick ==
    /\ \/ ~ closed /\ closed' = TRUE /\ UNCHANGED day
       \/ closed /\ day < MaxDay /\ day' = day + 1 /\ closed' = FALSE
    /\ UNCHANGED <<disk, kind, pc, session, copy, base, found, code, history>>

Publish ==
    /\ \E s \in Sessions \ published :
          /\ s < day \/ (s = day /\ closed)
          /\ published' = published \cup {s}
    /\ UNCHANGED <<clock, store, torn, file, kind, pc, session, copy, base, found, code, history>>

-------------------------------------------------------------------------------
(* An invocation starts: options, calendar, session. *)

\* Where each program goes once its session is resolved.  ingest_eod takes its
\* date as it is and may skip the availability check.
FirstSteps(k) ==
    CASE k = "daily"  -> {"check"}
      [] k = "ingest" -> {"check", "fetch"}
      [] OTHER        -> {"universe"}

\* The session of each program: of the clock, or of --date / --as-of, a day up
\* to today taken as closed.  Sessions before day 1 are outside the model, and
\* so are holidays a run with --allow-missing-holidays does not know of.
SessionsOf(k) ==
    LET forced == {ExpectedSession(d, TRUE, Holidays) : d \in 1 .. day}
        live   == {ExpectedSession(day, closed, Holidays)}
    IN  Sessions \cap (CASE k = "replay"    -> forced
                         [] k = "ingest"    -> 1 .. day
                         [] k = "bootstrap" -> {Latest(Sessions)}
                         [] OTHER           -> live \cup forced)

Start(r) ==
    /\ pc[r] = "idle"
    /\ \E k \in Kinds :
          /\ kind' = [kind EXCEPT ![r] = k]
          /\ \E s \in SessionsOf(k) : session' = [session EXCEPT ![r] = s]
          /\ \E step \in FirstSteps(k) : Go(r, step)
    /\ alone' = IF Active = {} THEN alone ELSE alone \ (Active \cup {r})
    /\ newest' = r
    /\ UNCHANGED <<clock, disk, copy, base, found, code, mixed>>

\* A strict run whose required years are not all listed.
StartBlocked(r) ==
    /\ pc[r] = "idle"
    /\ \E k \in Scanning : kind' = [kind EXCEPT ![r] = k]
    /\ (1 .. day) \cap Blocked # {}
    /\ End(r, "5")
    /\ UNCHANGED <<clock, disk, session, copy, base, found, history>>

-------------------------------------------------------------------------------
(* ingest_session *)

Available(r) ==
    /\ pc[r] = "check"
    /\ session[r] \in published
    /\ Go(r, "fetch")
    /\ UNCHANGED <<clock, disk, kind, session, copy, base, found, code, history>>

\* Mutation: a session that is not there yet is no reason to stop.
ScanAnyway(r) ==
    /\ pc[r] = "check"
    /\ Go(r, "universe")
    /\ UNCHANGED <<clock, disk, kind, session, copy, base, found, code, history>>

\* Mutation: the run polls until the report is there.
PollForReport(r) ==
    /\ pc[r] = "check"
    /\ UNCHANGED vars

\* WAITING_FOR_EOD_DATA: not published, or NSE is not reachable.
NotAvailable(r) ==
    /\ pc[r] = "check"
    /\ End(r, IF kind[r] = "daily" THEN "2" ELSE "1")
    /\ UNCHANGED <<clock, disk, kind, session, copy, base, found, history>>

\* The published edition of the moment; one with no row of a wanted series
\* ingests as zero rows.
Fetch(r) ==
    /\ pc[r] = "fetch"
    /\ session[r] \in published
    /\ \E e \in Editions \cup {HeaderOnly} : copy' = [copy EXCEPT ![r] = e]
    /\ Go(r, "raw")
    /\ UNCHANGED <<clock, disk, kind, session, base, found, code, history>>

\* STATUS_FAILED: neither URL gave a file.
FetchFails(r) ==
    /\ pc[r] = "fetch"
    /\ End(r, "1")
    /\ UNCHANGED <<clock, disk, kind, session, copy, base, found, history>>

\* append_eod_prices: the partition as it is now; no row, no partition to touch.
ReadPartition(r) ==
    /\ pc[r] = "append"
    /\ IF copy[r] = HeaderOnly
         THEN Go(r, "count") /\ UNCHANGED base
         ELSE /\ ~ torn
              /\ base' = [base EXCEPT ![r] = store]
              /\ Go(r, "rewrite")
    /\ UNCHANGED <<clock, disk, kind, session, copy, found, code, history>>

ReadPartitionFails(r) ==
    /\ pc[r] = "append"
    /\ copy[r] # HeaderOnly
    /\ torn
    /\ End(r, "raised")
    /\ UNCHANGED <<clock, disk, kind, session, copy, base, found, history>>

\* NSE rows replace a session's earlier ones; bootstrap rows, up to a possibly
\* unfinished today, show only where NSE has none.
Merged(r) ==
    IF kind[r] = "bootstrap"
      THEN {[s \in Sessions |-> IF base[r][s] = NoRows /\ s <= last THEN Yahoo ELSE base[r][s]]
              : last \in {day - 1, day}}
      ELSE {[base[r] EXCEPT ![session[r]] = copy[r]]}

\* The count at the end opens DuckDB, which raises when another process has it.
Count(r) ==
    /\ pc[r] = "count"
    /\ ~ torn
    /\ IF kind[r] = "daily"
         THEN Go(r, "universe") /\ UNCHANGED code
         ELSE End(r, "0")
    /\ UNCHANGED <<clock, disk, kind, session, copy, base, found, history>>

CountFails(r) ==
    /\ pc[r] = "count"
    /\ torn \/ Active # {r}
    /\ End(r, "raised")
    /\ UNCHANGED <<clock, disk, kind, session, copy, base, found, history>>

-------------------------------------------------------------------------------
(* Universe and scan *)

Universe(r) ==
    /\ pc[r] = "universe"
    /\ Go(r, IF kind[r] = "bootstrap" THEN "append" ELSE "scan")
    /\ UNCHANGED <<clock, disk, kind, session, copy, base, found, code, history>>

\* A configuration error, UniverseIntegrityError, or nothing downloaded.
UniverseFails(r) ==
    /\ pc[r] = "universe"
    /\ \E exit \in IF kind[r] \in {"scan", "bootstrap"} THEN {"1"} ELSE {"1", "3"} : End(r, exit)
    /\ UNCHANGED <<clock, disk, kind, session, copy, base, found, history>>

\* The sessions fetch_history can return: all, or up to the as-of date.
Visible(r) ==
    IF torn THEN {}
    ELSE {s \in Sessions : store[s] # NoRows /\ (kind[r] = "replay" => s <= session[r])}

LastBar(S) == IF S = {} THEN NoDay ELSE Latest(S)

\* run_scan; an unreadable partition fails every symbol, not the scan.
Scan(r) ==
    /\ pc[r] = "scan"
    /\ latest' = [latest EXCEPT ![r] = LastBar(Visible(r))]
    /\ scanned' = [scanned EXCEPT ![r] = IF torn THEN NoRows ELSE store[session[r]]]
    /\ Go(r, "report")
    /\ UNCHANGED <<clock, disk, kind, session, copy, base, code, history>>

\* Data_Status of the symbols that have the scan's last bar.
DataStatus(r) == ClassifyDataStatus(latest[r], session[r], Holidays)

-------------------------------------------------------------------------------
(* Files rewritten in place: the raw copy, the partition, the report and the *)
(* manifest.                                                                 *)

\* The name depends on the program and the session.
Name(step, k) ==
    IF k # "replay" THEN step
    ELSE IF step = "report" THEN "replay_report" ELSE "replay_manifest"

InPlace == {"raw", "rewrite", "report", "manifest"}
Opened(step) == CASE step = "raw"      -> "raw_open"
                  [] step = "rewrite"  -> "rewrite_open"
                  [] step = "report"   -> "report_open"
                  [] step = "manifest" -> "manifest_open"

SameFile(q, r, step) ==
    /\ pc[q] = Opened(step)
    /\ step = "rewrite" \/ /\ session[q] = session[r]
                           /\ Name(step, kind[q]) = Name(step, kind[r])

OpenFile(r) ==
    /\ \E step \in InPlace :
          /\ pc[r] = step
          /\ Go(r, Opened(step))
          /\ LET others == {q \in Runs : SameFile(q, r, step)}
             IN  mixed' = IF others = {} THEN mixed \ {r} ELSE mixed \cup others \cup {r}
          /\ IF step = "rewrite"
               THEN torn' = TRUE /\ UNCHANGED file
               ELSE /\ file' = [file EXCEPT ![<<Name(step, kind[r]), session[r]>>] = Torn]
                    /\ UNCHANGED torn
    /\ UNCHANGED <<clock, published, store, kind, session, copy, base, found, code, alone, newest>>

\* Mutation: a run ends with its report.
AfterReportOnly(step) ==
    CASE step = "raw" -> "append" [] step = "rewrite" -> "count"
      [] step \in {"report", "manifest"} -> "exit"

After(step) ==
    CASE step = "raw" -> "append" [] step = "rewrite" -> "count"
      [] step = "report" -> "manifest" [] step = "manifest" -> "exit"

\* The file is whole, unless another run's bytes got between.
CloseFile(r) ==
    /\ \E step \in InPlace :
          /\ pc[r] = Opened(step)
          /\ Go(r, After(step))
          /\ IF step = "rewrite"
               THEN /\ \/ torn' = FALSE
                       \/ torn' = TRUE /\ r \in mixed
                    /\ store' \in Merged(r)
                    /\ UNCHANGED file
               ELSE /\ \E content \in {IF step = "raw" THEN copy[r] ELSE r}
                                        \cup (IF r \in mixed THEN {Torn} ELSE {}) :
                          file' = [file EXCEPT ![<<Name(step, kind[r]), session[r]>>] = content]
                    /\ UNCHANGED <<store, torn>>
    /\ UNCHANGED <<clock, published, kind, session, copy, base, found, code, history>>

\* run_daily alone tells a RED run; a scan that found nothing is RED.
Exit(r) ==
    /\ pc[r] = "exit"
    /\ \/ End(r, "4") /\ kind[r] \in {"daily", "skip_ingest"}
       \/ End(r, "0") /\ (kind[r] \in {"daily", "skip_ingest"} => latest[r] # NoDay)
    /\ UNCHANGED <<clock, disk, kind, session, copy, base, found, history>>

\* The process dies; a file it had open stays torn.
Kill(r) ==
    /\ r \in Active
    /\ End(r, "killed")
    /\ UNCHANGED <<clock, disk, kind, session, copy, base, found, history>>

-------------------------------------------------------------------------------
Step(r) ==
    \/ Available(r) \/ NotAvailable(r) \/ Fetch(r) \/ FetchFails(r)
    \/ ReadPartition(r) \/ ReadPartitionFails(r) \/ Count(r) \/ CountFails(r)
    \/ Universe(r) \/ UniverseFails(r) \/ Scan(r)
    \/ OpenFile(r) \/ CloseFile(r) \/ Exit(r)

Next ==
    \/ Tick \/ Publish
    \/ \E r \in Runs : Start(r) \/ StartBlocked(r) \/ Step(r) \/ Kill(r)

Spec == Init /\ [][Next]_vars

\* Each process is scheduled; nothing obliges a user to start one, NSE to
\* publish, or the clock to advance.
FairSpec == Spec /\ \A r \in Runs : WF_vars(Step(r))

-------------------------------------------------------------------------------
(* Properties *)

Completed(r) == code[r] \in {"0", "4"} /\ kind[r] \in Scanning

\* EOD_Signals of a report holds only bars of the session the report is named
\* for, whatever was ingested while the run was under way and however the clock
\* moved (scan.py's CURRENT gate, the file name in run_daily and run_scan).
SignalsAreOfTheirSession ==
    \A s \in Sessions, r \in Runs :
        (file[<<"report", s>>] = r /\ DataStatus(r) = "CURRENT") =>
            session[r] = s /\ latest[r] = s

\* "Do NOT use D-1 data silently": a run_daily that nothing overlapped reports
\* on the rows it ingested itself, not on what an older or a Yahoo row shows.
LoneDailyScansItsSession ==
    \A r \in alone :
        (kind[r] = "daily" /\ Completed(r) /\ copy[r] # HeaderOnly) =>
            scanned[r] = copy[r] /\ scanned[r] \in Editions

\* When the last invocation to start had the directory to itself and came to
\* its end, its report and manifest are a pair and, after an ingestion, the raw
\* copy and the store hold the edition whose hash the manifest records; also
\* after earlier runs were killed with any of these half written.
LoneRunLeavesMatchingSet ==
    (newest \in alone /\ Active = {} /\ Completed(newest)) =>
        LET s == session[newest]
            k == kind[newest]
        IN  /\ file[<<Name("report", k), s>>] = newest
            /\ file[<<Name("manifest", k), s>>] = newest
            /\ k = "daily" => /\ file[<<"raw", s>>] = copy[newest]
                              /\ copy[newest] # HeaderOnly => store[s] = copy[newest]

\* Every invocation comes to an end: it waits for no lock, no publication and
\* no other process.
RunsFinish == \A r \in Runs : (pc[r] # "idle") ~> (pc[r] = "done")

=============================================================================
