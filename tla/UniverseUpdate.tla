--------------------------- MODULE UniverseUpdate ---------------------------
(***************************************************************************)
(* update_universe (cli/update_universe.py): an invocation finds and       *)
(* downloads NSE's list of a scope, derives the constituents, compares     *)
(* them with the newest entry of the scope's history, overwrites the two   *)
(* latest-only files that all scopes share, and adds an entry of two files *)
(* to the history.  Nothing is locked; invocations may overlap, run within *)
(* one second of each other, or die anywhere.                              *)
(***************************************************************************)
EXTENDS Mainboard, UniverseDrift

CONSTANTS
    Runs,        \* invocations
    First,       \* one that ended before the model begins
    FirstMembers, \* the mainboard universe it left, as a membership frame
    LastStamp,   \* the last second of the model
    Files,       \* security files NSE may serve
    IndexFiles,  \* constituent files of the index, as sequences of symbols
    Lookback,    \* max_lookback_days
    IndexUrls,   \* how many URLs NIFTY_200 tries
    MinCount,    \* the accepted sizes of a mainboard universe
    MaxCount

ASSUME UniverseAssumption ==
    /\ First \in Runs
    /\ FirstMembers \in Seq(Listing)
    /\ LastStamp \in Nat \ {0, 1}
    /\ Files \subseteq Seq(Listing)
    /\ IndexFiles \subseteq Seq(Nat \ {0})
    /\ Lookback \in Nat
    /\ IndexUrls \in Nat \ {0}
    /\ {MinCount, MaxCount} \subseteq Nat

Scopes == {"NSE_MAINBOARD_EQ", "NIFTY_200"}
Stamps == 1 .. LastStamp

\* The URLs discover_report may try: the undated file once, two dated ones for
\* each day of the window.  The date a URL has says how many days old its file is.
Probes == 1 + 2 * (Lookback + 1)
Dated(url) == IF url = 0 THEN {} ELSE {(url - 1) \div 2}

\* Files are named by directory, kind and stamp.  universe_snapshots and
\* security_master_latest are the kinds "record" and "members" of the
\* directory all scopes share; stamp 0 stands for no stamp.
Shared == "processed"
Paths == ({Shared} \X {"members", "record"} \X {0}) \cup (Scopes \X {"members", "record"} \X Stamps)
NoFile == "absent"
Torn == "torn"
NoRun == "none"
NoPair == [members |-> NoRun, record |-> NoRun]

\* A file that holds a run's rows is no other file.
ASSUME RunsAreNoContents == Runs \cap {NoFile, Torn, NoRun} = {}

\* What the funnel made of a security file.
NoOutcome == [kept |-> {}, constituents |-> <<>>, diagnostics |-> <<>>]
NoFunnel == [age |-> {}, file |-> <<>>, failed |-> {}, outcome |-> NoOutcome]
Funnels == {[file |-> file, failed |-> failed, outcome |-> Funnel(file, failed)] :
               file \in Files, failed \in SUBSET DOMAIN Lists}

VARIABLES
    now,       \* the second
    disk,      \* each file: the run that wrote it, torn or absent
    scope,     \* the universe_scope of each invocation
    pc,        \* where it is
    probe,     \* how many URLs it tried in vain
    funnel,    \* the age of the file found, the file and what was made of it
    members,   \* its constituents, a membership frame
    stamp,     \* retrieved_at, 0 before it is taken
    previous,  \* previous_members and previous_record: whose they are
    drift,     \* its drift report
    code       \* its exit code

\* History variables; mixed also decides what two unfinished writes leave.
VARIABLES
    mixed,     \* invocations that had a file open together with another
    alone,     \* invocations that overlapped no other so far
    newest     \* the last invocation to start

result == <<previous, drift>>
history == <<mixed, alone, newest>>
vars == <<now, disk, scope, pc, probe, funnel, members, stamp, result, code, history>>

\* The four files an invocation rewrites, in this order, and the check between.
Writes == {"latest_record", "latest_members", "members", "record"}
Opened(step) ==
    CASE step = "latest_record"  -> "latest_record_open"
      [] step = "latest_members" -> "latest_members_open"
      [] step = "members"        -> "members_open"
      [] step = "record"         -> "record_open"
Steps == {"idle", "discover", "download", "lists", "gate", "index", "compare", "compare_record",
          "append", "done"} \cup Writes \cup {Opened(w) : w \in Writes}

\* One invocation has come to its end in second 1.
Init ==
    /\ now = 2
    /\ disk = [p \in Paths |->
                 IF p[1] = Shared \/ (p[1] = "NSE_MAINBOARD_EQ" /\ p[3] = 1) THEN First ELSE NoFile]
    /\ scope = [r \in Runs |-> "NSE_MAINBOARD_EQ"]
    /\ pc = [r \in Runs |-> IF r = First THEN "done" ELSE "idle"]
    /\ probe = [r \in Runs |-> 0]
    /\ funnel = [r \in Runs |-> NoFunnel]
    /\ members = [r \in Runs |-> IF r = First THEN FirstMembers ELSE <<>>]
    /\ stamp = [r \in Runs |-> IF r = First THEN 1 ELSE 0]
    /\ previous = [r \in Runs |-> NoPair]
    /\ drift = [r \in Runs |-> NoReport(IF r = First THEN NoPrevious ELSE "none")]
    /\ code = [r \in Runs |-> IF r = First THEN "0" ELSE "none"]
    /\ mixed = {}
    /\ alone = Runs
    /\ newest = First

Active == {r \in Runs : pc[r] \notin {"idle", "done"}}

Go(r, step) == pc' = [pc EXCEPT ![r] = step]

End(r, exit) ==
    /\ Go(r, "done")
    /\ code' = [code EXCEPT ![r] = exit]

Tick ==
    /\ now < LastStamp
    /\ now' = now + 1
    /\ UNCHANGED <<disk, scope, pc, probe, funnel, members, stamp, result, code, history>>

\* NIFTY_200 takes its retrieval time before it asks for anything.  A scope
\* without a provider ends like StartRefused.
Start(r) ==
    /\ pc[r] = "idle"
    /\ \E s \in Scopes :
          /\ scope' = [scope EXCEPT ![r] = s]
          /\ Go(r, IF s = "NIFTY_200" THEN "index" ELSE "discover")
          /\ stamp' = IF s = "NIFTY_200" THEN [stamp EXCEPT ![r] = now] ELSE stamp
    /\ alone' = IF Active = {} THEN alone ELSE alone \ (Active \cup {r})
    /\ newest' = r
    /\ UNCHANGED <<now, disk, probe, funnel, members, result, code, mixed>>

StartRefused(r) ==
    /\ pc[r] = "idle"
    /\ End(r, "1")
    /\ UNCHANGED <<now, disk, scope, probe, funnel, members, stamp, result, history>>

-------------------------------------------------------------------------------
(* get_constituents *)

\* Mutation: after the last URL the search begins again.
ProbeAgain(r) ==
    /\ pc[r] = "discover"
    /\ probe' = [probe EXCEPT ![r] = (@ + 1) % Probes]
    /\ UNCHANGED <<now, disk, scope, pc, funnel, members, stamp, result, code, history>>

\* A URL is missing, unreachable or serves something else; after the last one
\* there is nothing to download.
ProbeFails(r) ==
    /\ pc[r] = "discover"
    /\ IF probe[r] + 1 < Probes
         THEN /\ probe' = [probe EXCEPT ![r] = @ + 1]
              /\ UNCHANGED <<pc, code>>
         ELSE /\ probe' = [probe EXCEPT ![r] = 0]
              /\ End(r, "1")
    /\ UNCHANGED <<now, disk, scope, funnel, members, stamp, result, history>>

ProbeFinds(r) ==
    /\ pc[r] = "discover"
    /\ Go(r, "download")
    /\ funnel' = [funnel EXCEPT ![r].age = Dated(probe[r])]
    /\ probe' = [probe EXCEPT ![r] = 0]
    /\ UNCHANGED <<now, disk, scope, members, stamp, result, code, history>>

\* The download of the URL discovered, tried once; the retrieval time is taken
\* when the file is parsed.
Download(r) ==
    /\ pc[r] = "download"
    /\ \E f \in Files : funnel' = [funnel EXCEPT ![r].file = f]
    /\ stamp' = [stamp EXCEPT ![r] = now]
    /\ Go(r, "lists")
    /\ UNCHANGED <<now, disk, scope, probe, members, result, code, history>>

\* A DataProviderError becomes exit code 1, an exception of gzip, of the decoder
\* or of read_csv is not caught.
DownloadFails(r) ==
    /\ pc[r] = "download"
    /\ \E exit \in {"1", "raised"} : End(r, exit)
    /\ funnel' = [funnel EXCEPT ![r] = NoFunnel]
    /\ UNCHANGED <<now, disk, scope, probe, members, stamp, result, history>>

\* The lists are fetched one by one, none of them required, and the funnel is
\* applied.
Classify(r) ==
    /\ pc[r] = "lists"
    /\ \E f \in {x \in Funnels : x.file = funnel[r].file} :
          funnel' = [funnel EXCEPT ![r].failed = f.failed, ![r].outcome = f.outcome]
    /\ Go(r, "gate")
    /\ UNCHANGED <<now, disk, scope, probe, members, stamp, result, code, history>>

\* A list that is not UTF-8: decoding it is outside the function's try.
ClassifyRaises(r) ==
    /\ pc[r] = "lists"
    /\ End(r, "raised")
    /\ funnel' = [funnel EXCEPT ![r] = NoFunnel]
    /\ UNCHANGED <<now, disk, scope, probe, members, stamp, result, history>>

\* The count gate; what passes becomes the constituents.
Gate(r) ==
    /\ pc[r] = "gate"
    /\ IF Len(funnel[r].outcome.constituents) \in MinCount .. MaxCount
         THEN /\ members' = [members EXCEPT ![r] = funnel[r].outcome.constituents]
              /\ Go(r, "compare")
              /\ UNCHANGED code
         ELSE /\ End(r, "1")
              /\ UNCHANGED members
    /\ funnel' = [funnel EXCEPT ![r] = NoFunnel]
    /\ UNCHANGED <<now, disk, scope, probe, stamp, result, history>>

\* parse_constituent_csv: the first row of each symbol; the index has neither
\* ISINs nor series.
IndexFrame(symbols) ==
    LET kept  == {i \in DOMAIN symbols : \A j \in 1 .. i - 1 : symbols[j] # symbols[i]}
        first == Ranked(kept, [i \in kept |-> i])
    IN  [k \in 1 .. Cardinality(kept) |->
            [sym |-> symbols[first[k]], isin |-> 0, series |-> "none"]]

\* NIFTY_200: the first URL whose file, without its duplicates, has an accepted
\* size.
IndexFound(r) ==
    /\ pc[r] = "index"
    /\ \E f \in IndexFiles : members' = [members EXCEPT ![r] = IndexFrame(f)]
    /\ Go(r, "compare")
    /\ probe' = [probe EXCEPT ![r] = 0]
    /\ UNCHANGED <<now, disk, scope, funnel, stamp, result, code, history>>

IndexFails(r) ==
    /\ pc[r] = "index"
    /\ IF probe[r] + 1 < IndexUrls
         THEN /\ probe' = [probe EXCEPT ![r] = @ + 1]
              /\ UNCHANGED <<pc, code>>
         ELSE /\ probe' = [probe EXCEPT ![r] = 0]
              /\ End(r, "1")
    /\ UNCHANGED <<now, disk, scope, funnel, members, stamp, result, history>>

-------------------------------------------------------------------------------
(* The comparison with the history *)

\* list_snapshot_stamps: the stamps of the record files, whole or not.
Listed(s) == {t \in Stamps : disk[<<s, "record", t>>] # NoFile}

\* Mutation: the stamps are taken in the wrong order.
OldestFile(s, what) == disk[<<s, what, Min(Listed(s))>>]

LatestFile(s, what) == disk[<<s, what, Max(Listed(s))>>]

\* Each of the two reads lists the directory anew.  An unreadable file raises.
ReadMembers(r) ==
    /\ pc[r] = "compare"
    /\ IF Listed(scope[r]) = {}
         THEN Go(r, "compare_record") /\ UNCHANGED <<previous, code>>
         ELSE LET found == LatestFile(scope[r], "members")
              IN  IF found \in Runs
                    THEN /\ previous' = [previous EXCEPT ![r].members = found]
                         /\ Go(r, "compare_record")
                         /\ UNCHANGED code
                    ELSE End(r, "raised") /\ UNCHANGED previous
    /\ UNCHANGED <<now, disk, scope, probe, funnel, members, stamp, drift, history>>

ReadRecord(r) ==
    /\ pc[r] = "compare_record"
    /\ LET prev == previous[r].members
       IN  \/ /\ Listed(scope[r]) # {}
              /\ LatestFile(scope[r], "record") \notin Runs
              /\ End(r, "raised")
              /\ UNCHANGED result
           \/ /\ Listed(scope[r]) # {} => LatestFile(scope[r], "record") \in Runs
              /\ previous' = [previous EXCEPT ![r].record =
                     IF Listed(scope[r]) = {} THEN NoRun ELSE LatestFile(scope[r], "record")]
              /\ drift' = [drift EXCEPT ![r] =
                     IF prev = NoRun THEN NoReport(NoPrevious)
                     ELSE Drift(members[prev], members[r])]
              /\ Go(r, "latest_record")
              /\ UNCHANGED code
    /\ UNCHANGED <<now, disk, scope, probe, funnel, members, stamp, history>>

-------------------------------------------------------------------------------
(* The writes *)

Path(r, step) ==
    CASE step = "latest_record"  -> <<Shared, "record", 0>>
      [] step = "latest_members" -> <<Shared, "members", 0>>
      [] step = "members"        -> <<scope[r], "members", stamp[r]>>
      [] step = "record"         -> <<scope[r], "record", stamp[r]>>

\* Mutation: the record is written before the members it vouches for.
RecordFirst(step) ==
    CASE step = "latest_record" -> "latest_members"
      [] step = "latest_members" -> "append"
      [] step = "append" -> "record"
      [] step = "record" -> "members"
      [] step = "members" -> "done"

After(step) ==
    CASE step = "latest_record" -> "latest_members"
      [] step = "latest_members" -> "append"
      [] step = "append" -> "members"
      [] step = "members" -> "record"
      [] step = "record" -> "done"

\* Mutation: no check for an existing entry.
AppendAnyway(r) ==
    /\ pc[r] = "append"
    /\ Go(r, After("append"))
    /\ UNCHANGED <<now, disk, scope, probe, funnel, members, stamp, result, code, history>>

\* Mutation: an existing entry is taken as this run's.
AppendOrAccept(r) ==
    /\ pc[r] = "append"
    /\ IF \E what \in {"members", "record"} : disk[<<scope[r], what, stamp[r]>>] # NoFile
         THEN End(r, "0")
         ELSE Go(r, After("append")) /\ UNCHANGED code
    /\ UNCHANGED <<now, disk, scope, probe, funnel, members, stamp, result, history>>

\* write_universe_snapshot refuses a stamp that has either file.
AppendEntry(r) ==
    /\ pc[r] = "append"
    /\ IF \E what \in {"members", "record"} : disk[<<scope[r], what, stamp[r]>>] # NoFile
         THEN End(r, "raised")
         ELSE Go(r, After("append")) /\ UNCHANGED code
    /\ UNCHANGED <<now, disk, scope, probe, funnel, members, stamp, result, history>>

\* to_parquet truncates the file, and then writes it.
OpenFile(r) ==
    /\ \E step \in Writes :
          /\ pc[r] = step
          /\ Go(r, Opened(step))
          /\ disk' = [disk EXCEPT ![Path(r, step)] = Torn]
          /\ LET others == {q \in Runs \ {r} : \E w \in Writes :
                               pc[q] = Opened(w) /\ Path(q, w) = Path(r, step)}
             IN  mixed' = IF others = {} THEN mixed \ {r} ELSE mixed \cup others \cup {r}
    /\ UNCHANGED <<now, scope, probe, funnel, members, stamp, result, code, alone, newest>>

\* The file is written; if two had it open at once it may hold parts of both.
CloseFile(r) ==
    /\ \E step \in Writes :
          /\ pc[r] = Opened(step)
          /\ IF After(step) = "done" THEN End(r, "0") ELSE Go(r, After(step)) /\ UNCHANGED code
          /\ \E content \in {r} \cup (IF r \in mixed THEN {Torn} ELSE {}) :
                disk' = [disk EXCEPT ![Path(r, step)] = content]
    /\ UNCHANGED <<now, scope, probe, funnel, members, stamp, result, history>>

\* The process is killed, or a write fails, wherever it is.
Kill(r) ==
    /\ r \in Active
    /\ End(r, "killed")
    /\ probe' = [probe EXCEPT ![r] = 0]
    /\ funnel' = [funnel EXCEPT ![r] = NoFunnel]
    /\ previous' = [previous EXCEPT ![r] = NoPair]
    /\ drift' = [drift EXCEPT ![r] = NoReport("none")]
    /\ UNCHANGED <<now, disk, scope, members, stamp, history>>

-------------------------------------------------------------------------------
Step(r) ==
    \/ ProbeFails(r) \/ ProbeFinds(r) \/ Download(r) \/ DownloadFails(r)
    \/ Classify(r) \/ ClassifyRaises(r) \/ Gate(r)
    \/ IndexFound(r) \/ IndexFails(r)
    \/ ReadMembers(r) \/ ReadRecord(r)
    \/ AppendEntry(r) \/ OpenFile(r) \/ CloseFile(r)

Next ==
    \/ Tick
    \/ \E r \in Runs : Start(r) \/ StartRefused(r) \/ Step(r) \/ Kill(r)

Spec == Init /\ [][Next]_vars

\* Each process is scheduled; nothing obliges a user to start one or the clock
\* to advance.
FairSpec == Spec /\ \A r \in Runs : WF_vars(Step(r))

-------------------------------------------------------------------------------
(* Properties *)

\* The funnel loses and doubles nothing: a kept row stands for each symbol with
\* a mainboard row that no row of a fetched list but a note names, by symbol or
\* ISIN, and for no other, and is of the symbol's least severe series; and the
\* diagnostics and the snapshot record add up: rows by series, excluded rows by
\* category, dropped ones by reason, and constituents without a duplicate
\* (mainboard.py get_constituents, nse_reports.py compute_mainboard_diagnostics
\* and snapshot).
FunnelSound ==
    \A r \in Runs : pc[r] = "gate" =>
        LET file   == funnel[r].file
            fetched == UNION {{row \in ToSet(Lists[c].rows) : Lists[c].notes => row.sym # 0} :
                                 c \in DOMAIN Lists \ funnel[r].failed}
            named  == {i \in DOMAIN file : \E row \in fetched :
                          \/ file[i].sym = row.sym
                          \/ file[i].isin = row.isin /\ row.isin # 0}
            equity == {i \in DOMAIN file : file[i].series # "SM"} \ named
            kept   == funnel[r].outcome.kept
            shown  == funnel[r].outcome.diagnostics
            record == Snapshot(file, kept, funnel[r].age)
            total(counts) == FoldFunction(+, 0, counts)
        IN  /\ kept \subseteq equity
            /\ {file[i].sym : i \in equity} = {file[i].sym : i \in kept}
            /\ \A i \in kept, j \in equity :
                  file[i].sym = file[j].sym =>
                      /\ Rank(file[i].series) <= Rank(file[j].series)
                      /\ j \in kept => i = j
            /\ total(shown.series) = shown.raw
            /\ shown.mainboard = shown.excluded + shown.final + shown.dropped
            /\ total(shown.byCategory) = shown.excluded
            /\ total(shown.reasons) = shown.dropped
            /\ record.count = record.symbols /\ record.duplicates = 0
            /\ record.count = shown.final /\ record.raw = shown.raw
            /\ record.age <= Lookback

\* Two overlapping runs of one scope that retrieved within the same second; the
\* check for an existing entry cannot tell them apart.
Rivals(s, t) ==
    \E q, r \in Runs \ alone :
        q # r /\ scope[q] = s /\ scope[r] = s /\ stamp[q] = t /\ stamp[r] = t

\* An entry that is listed has its members, whole and of the run whose record
\* it is, whichever runs died or were refused in between; a record vouches for
\* nothing else (snapshot_store.py).
HistoryEntriesWhole ==
    \A s \in Scopes : \A t \in Listed(s) :
        \/ /\ disk[<<s, "members", t>>] \in Runs
           /\ disk[<<s, "record", t>>] \in {Torn, disk[<<s, "members", t>>]}
        \/ Rivals(s, t)

\* "Writes refuse to overwrite an existing stamp": no step changes an entry
\* once it is whole.
EntriesNeverChange ==
    [][\A s \in Scopes, t \in Stamps :
          LET entry == <<disk[<<s, "members", t>>], disk[<<s, "record", t>>]>>
          IN  \/ ~(entry[1] \in Runs /\ entry[2] \in Runs)
              \/ entry = <<disk[<<s, "members", t>>]', disk[<<s, "record", t>>]'>>
              \/ Rivals(s, t)]_vars

\* A run that nothing overlapped and that came to its end compared itself with
\* the entry of its scope that comes just before its own, its members and its
\* record, says NO_PREVIOUS_SNAPSHOT only if there is none, and else reports what
\* turns that entry's universe into its own; a rename it suspects is of a symbol
\* that went and one that came (drift.py).  A list of more than SAMPLE_CAP entries
\* is stored cut short, and only its length then has to be right.
DriftIsFromPredecessor ==
    \A r \in alone : code[r] = "0" =>
        LET earlier == {t \in Listed(scope[r]) : t < stamp[r]}
            before(what) == IF earlier = {} THEN NoRun ELSE disk[<<scope[r], what, Max(earlier)>>]
        IN  /\ previous[r] = [members |-> before("members"), record |-> before("record")]
            /\ drift[r].status = NoPrevious <=> earlier = {}
            /\ earlier # {} =>
                  LET old    == SymbolsOf(members[previous[r].members])
                      report == drift[r]
                  IN  /\ SymbolsOf(members[r]) = (old \ report.removed) \cup report.added
                      /\ Len(members[r])
                             = Cardinality(old) + Cardinality(report.added) - Cardinality(report.removed)
                      /\ \A change \in report.renames :
                            /\ change.previous \in old \ SymbolsOf(members[r])
                            /\ change.current \in SymbolsOf(members[r]) \ old
                            /\ \E row \in ToSet(members[r]) :
                                  row.sym = change.current /\ row.isin = change.isin

\* After such a run, with none since, the files of latest-only readers are its
\* own and so is the newest entry of its scope's history.
LatestIsNewestEntry ==
    (newest \in alone /\ Active = {} /\ code[newest] = "0") =>
        LET s == scope[newest]
        IN  /\ Listed(s) # {} /\ Max(Listed(s)) = stamp[newest]
            /\ \A what \in {"members", "record"} :
                  /\ disk[<<Shared, what, 0>>] = newest
                  /\ LatestFile(s, what) = newest

\* Every invocation comes to an end: the searches for a file are bounded.
RunsFinish == \A r \in Runs : (pc[r] # "idle") ~> (pc[r] = "done")

=============================================================================
