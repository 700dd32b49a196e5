----------------------------- MODULE MCEodStore -----------------------------
(* Small instances of EodStore for TLC.                                      *)
EXTENDS EodStore, TLC

\* The last date is the first session of a new year.
YearEnd == [d \in Dates |-> IF d < MaxDate THEN 2024 ELSE 2025]

\* Writers of an instance are interchangeable.
WriterSymmetry == Permutations(Writers)

=============================================================================
