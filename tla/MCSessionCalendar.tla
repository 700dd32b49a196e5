------------------------- MODULE MCSessionCalendar -------------------------
(* A small instance of SessionCalendar for TLC: years of ten days.  Runs on  *)
(* days 12 to 14 ask for years 0 and 1, runs on days 15 to 17 for years 1    *)
(* and 2, so their oldest bars and closures lie in a year nobody loaded.     *)
(* Weekends are at 5, 6, 12, 13, 19 and 20.                                  *)
EXTENDS SessionCalendar

RunDays == 12 .. 17
LastBars == 4 .. 18
PossibleClosures == {8, 9, 10, 11, 14, 15, 18, 21}

=============================================================================
