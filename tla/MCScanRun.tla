------------------------------ MODULE MCScanRun ------------------------------
(* A small instance of ScanRun for TLC.  Day 3 is a Thursday, the expected    *)
(* session; day 2 is a holiday, so a bar of day 1 is one session behind and   *)
(* one of day 0 two, a bar of day 4 lies in the future.                       *)
EXTENDS ScanRun

ThreeSymbols == <<"A", "B", "C">>
LastBars == {0, 1, 3, 4}
MidweekHoliday == {2}

=============================================================================
