------------------------------ MODULE Mainboard ------------------------------
(***************************************************************************)
(* How NSE_MAINBOARD_EQ is derived from NSE's security file                *)
(* (universe/mainboard.py, data/nse_reports.py): the mainboard series are  *)
(* kept, what the exclusion lists that could be fetched name is removed,   *)
(* and one row per symbol is left, with the diagnostics and the snapshot   *)
(* record that describe how.  A frame is a set of row numbers of the file. *)
(***************************************************************************)
EXTENDS Naturals, SequencesExt

CONSTANTS
    Lists   \* the files of INSTRUMENT_LIST_SOURCES, in their order: whether the
            \* source is known to end in notes, and its rows

\* Symbols and ISINs are numbers, 0 a cell that holds neither.
ASSUME ListsAssumption ==
    Lists \in Seq([notes : BOOLEAN, rows : Seq([sym : Nat, isin : Nat])])

\* parse_instrument_list_csv: rows of text that is no symbol are left out of the
\* files that have such notes.
Parsed(list) ==
    LET rows == {row \in ToSet(list.rows) : list.notes => row.sym # 0}
    IN  [symbols |-> {row.sym : row \in rows}, isins |-> {row.isin : row \in rows} \ {0}]

\* fetch_all_instrument_lists: what a category's failure leaves of the others.
FetchAll(failed) == [c \in DOMAIN Lists \ failed |-> Parsed(Lists[c])]

\* A row of the security file.  SM stands for every series that is not the
\* mainboard's.
Series == {"EQ", "BE", "BZ", "SM"}
Listing == [sym : Nat \ {0}, isin : Nat, series : Series]

Preference == <<"EQ", "BE", "BZ">>
Rank(series) == CHOOSE k \in DOMAIN Preference : Preference[k] = series

\* filter_mainboard_equity
MainboardRows(file) == {i \in DOMAIN file : file[i].series \in ToSet(Preference)}

Hits(file, frame, list) ==
    {i \in frame : file[i].sym \in list.symbols \/ file[i].isin \in list.isins}

\* Each row named by a fetched list goes to the first of them that names it; a
\* list that could not be fetched removes nothing.
ExcludedBy(file, frame, lists) ==
    [c \in DOMAIN lists |->
        Hits(file, frame, lists[c])
            \ UNION {Hits(file, frame, lists[b]) : b \in {d \in DOMAIN lists : d < c}}]

\* The order of the sort among the rows of one symbol: series, then place in the
\* file.
Before(file, i, j) ==
    \/ Rank(file[i].series) < Rank(file[j].series)
    \/ file[i].series = file[j].series /\ i < j

\* deduplicate_mainboard: sorted so, drop_duplicates keeps the first.
Deduplicated(file, frame) ==
    {i \in frame : \A j \in frame : file[j].sym = file[i].sym => ~ Before(file, j, i)}

\* Dedup_Reason, for row i dropped in favour of row j.  Whatever is not EQ over
\* BE is called a duplicate of one series, BZ rows of other series too.
DedupReason(file, i, j) ==
    IF {file[i].series, file[j].series} = {"EQ", "BE"}
      THEN "SERIES_PREFERENCE_EQ_OVER_BE"
      ELSE "DUPLICATE_ROW_SAME_SERIES_ROW_ORDER_TIEBREAK"

\* compute_mainboard_diagnostics, and the counts by category added to it.
Diagnostics(file, frame, out, kept) ==
    LET excluded == UNION {out[c] : c \in DOMAIN out}
        dropped  == (frame \ excluded) \ kept
        reason(i) == DedupReason(file, i, CHOOSE j \in kept : file[j].sym = file[i].sym)
    IN  [raw        |-> Len(file),
         series     |-> [x \in {file[i].series : i \in DOMAIN file} |->
                            Cardinality({i \in DOMAIN file : file[i].series = x})],
         mainboard  |-> Cardinality(frame),
         excluded   |-> Cardinality(excluded),
         byCategory |-> [c \in {d \in DOMAIN out : out[d] # {}} |-> Cardinality(out[c])],
         final      |-> Cardinality(kept),
         dropped    |-> Cardinality(dropped),
         reasons    |-> [w \in {reason(i) : i \in dropped} |->
                            Cardinality({i \in dropped : reason(i) = w})]]

\* Row numbers in the order of their keys.
Ranked(rows, key) ==
    [k \in 1 .. Cardinality(rows) |->
        CHOOSE i \in rows : Cardinality({j \in rows : key[j] < key[i]}) = k - 1]

\* The rows kept, in the order of the sort that went before.
Constituents(file, kept) ==
    LET rows == Ranked(kept, [i \in kept |-> file[i].sym])
    IN  [k \in 1 .. Cardinality(kept) |-> file[rows[k]]]

Outcome(file, out, kept) ==
    [kept         |-> kept,
     constituents |-> Constituents(file, kept),
     diagnostics  |-> Diagnostics(file, MainboardRows(file), out, kept)]

\* Mutation: duplicates are dropped before the exclusion.
DeduplicateFirst(file, failed) ==
    LET frame == Deduplicated(file, MainboardRows(file))
        out   == ExcludedBy(file, frame, FetchAll(failed))
        kept  == frame \ UNION {out[c] : c \in DOMAIN out}
    IN  [kept         |-> kept,
         constituents |-> Constituents(file, kept),
         diagnostics  |-> Diagnostics(file, frame, out, kept)]

\* get_constituents, from the file to the count gate.
Funnel(file, failed) ==
    LET frame == MainboardRows(file)
        out   == ExcludedBy(file, frame, FetchAll(failed))
    IN  Outcome(file, out, Deduplicated(file, frame \ UNION {out[c] : c \in DOMAIN out}))

\* snapshot: the record of the universe.  A file from a dated URL is as old as
\* that date, age is {its days}; any other has no age and is dated by its retrieval.
Snapshot(file, kept, age) ==
    [universe   |-> "NSE_MAINBOARD_EQ",
     basis      |-> IF age = {} THEN "RETRIEVAL_DATE_SOURCE_UNDATED" ELSE "SOURCE_DATE",
     age        |-> Max(age \cup {0}),
     count      |-> Cardinality(kept),
     symbols    |-> Cardinality({file[i].sym : i \in kept}),
     duplicates |-> Cardinality({i \in kept : \E j \in kept : j < i /\ file[j].sym = file[i].sym}),
     raw        |-> Len(file),
     status     |-> IF kept # {} THEN "VALID" ELSE "INVALID"]

=============================================================================
