----------------------------- MODULE MCDailyRun -----------------------------
(* Small instances of DailyRun for TLC.                                      *)
EXTENDS DailyRun

\* Day 1 is a Tuesday; a required year of day 2 is not listed.
NoHolidays == {}
UnlistedDays == {2}

=============================================================================
