---------------------------- MODULE UniverseDrift ----------------------------
(***************************************************************************)
(* compute_universe_drift (universe/drift.py): what changed from a         *)
(* universe to the next one.  A membership frame is a sequence of rows of  *)
(* symbol, ISIN and series; the ISIN 0 is missing or made up.  The delta   *)
(* of the exclusion counts is left out.  A report of the code has each     *)
(* list's exact length and its first SAMPLE_CAP (25) entries; the lists    *)
(* here are whole.                                                         *)
(***************************************************************************)
EXTENDS Naturals, SequencesExt

CONSTANTS
    ElevatedPct, \* the churn, in percent, above which drift is elevated
    AlertPct     \* and above which it is a structural alert

ASSUME DriftAssumption == {ElevatedPct, AlertPct} \subseteq Nat

NoPrevious == "NO_PREVIOUS_SNAPSHOT"
Churns == {"NORMAL_CHURN", "ELEVATED_CHURN", "STRUCTURAL_ALERT"}

SymbolsOf(frame) == {frame[i].sym : i \in DOMAIN frame}

\* The symbols that came and went against the size of the previous universe.
ChurnStatus(added, removed, prev) ==
    LET churn == 100 * (Cardinality(added) + Cardinality(removed))
        size  == Max({Cardinality(SymbolsOf(prev)), 1})
    IN  IF churn > AlertPct * size THEN "STRUCTURAL_ALERT"
        ELSE IF churn > ElevatedPct * size THEN "ELEVATED_CHURN"
        ELSE "NORMAL_CHURN"

\* drop_duplicates keeps the first row of a symbol.
RowOf(frame, s) == frame[Min({i \in DOMAIN frame : frame[i].sym = s})]

Changes(prev, current, field) ==
    {s \in SymbolsOf(prev) \cap SymbolsOf(current) :
        RowOf(prev, s)[field] # RowOf(current, s)[field]}

\* A symbol that went and one that came with its ISIN.  Of several that went
\* with it, the last row's is named.
ProbableRenames(prev, current, added, removed) ==
    LET gone(isin) == {j \in DOMAIN prev : prev[j].sym \in removed /\ prev[j].isin = isin}
    IN  {[previous |-> prev[Max(gone(row.isin))].sym, current |-> row.sym, isin |-> row.isin] :
            row \in {x \in ToSet(current) : x.sym \in added /\ x.isin # 0 /\ gone(x.isin) # {}}}

Report(status, added, removed, seriesChanges, isinChanges, renames) ==
    [status |-> status, added |-> added, removed |-> removed, seriesChanges |-> seriesChanges,
     isinChanges |-> isinChanges, renames |-> renames]

NoReport(status) == Report(status, {}, {}, {}, {}, {})

Drift(prev, current) ==
    LET added   == SymbolsOf(current) \ SymbolsOf(prev)
        removed == SymbolsOf(prev) \ SymbolsOf(current)
    IN  Report(ChurnStatus(added, removed, prev), added, removed,
               Changes(prev, current, "series"), Changes(prev, current, "isin"),
               ProbableRenames(prev, current, added, removed))

=============================================================================
