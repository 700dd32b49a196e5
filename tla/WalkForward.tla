----------------------------- MODULE WalkForward -----------------------------
(***************************************************************************)
(* The windows of research/walk_forward.py and the month arithmetic they    *)
(* rest on.  A date is the number yyyymmdd, so that dates compare as the    *)
(* program's do; adding months keeps the day of the month or takes the      *)
(* last one there is (relativedelta).                                       *)
(***************************************************************************)
EXTENDS Integers

CONSTANTS
    TrainMonths,  \* the train window, walk_forward_train_years in months
    TestMonths    \* the test window and the step, walk_forward_test_months

\* The code rolls for ever when the step is empty.
ASSUME WindowAssumption ==
    /\ TrainMonths \in Nat
    /\ TestMonths \in Nat \ {0}

Year(date) == date \div 10000
Month(date) == (date \div 100) % 100
Day(date) == date % 100

Leap(y) == (y % 4 = 0 /\ y % 100 # 0) \/ y % 400 = 0

DaysIn(y, m) ==
    IF m = 2 THEN IF Leap(y) THEN 29 ELSE 28
    ELSE IF m \in {4, 6, 9, 11} THEN 30 ELSE 31

DateOf(y, m, d) == 10000 * y + 100 * m + d

\* The numbers that are dates; the first year is 1.
IsDate(d) ==
    /\ d \in Nat /\ Year(d) > 0
    /\ Month(d) \in 1 .. 12 /\ Day(d) \in 1 .. DaysIn(Year(d), Month(d))

\* date + relativedelta(months=k)
AddMonths(date, k) ==
    LET months == 12 * Year(date) + Month(date) - 1 + k
        y == months \div 12
        m == (months % 12) + 1
    IN DateOf(y, m, IF Day(date) <= DaysIn(y, m) THEN Day(date) ELSE DaysIn(y, m))

\* date + relativedelta(days=1)
Tomorrow(date) ==
    IF Day(date) < DaysIn(Year(date), Month(date)) THEN date + 1
    ELSE DateOf(Year(AddMonths(date, 1)), Month(AddMonths(date, 1)), 1)

\* date - relativedelta(days=1)
Yesterday(date) ==
    IF Day(date) > 1 THEN date - 1
    ELSE LET before == AddMonths(date, -1)
         IN DateOf(Year(before), Month(before), DaysIn(Year(before), Month(before)))

\* Mutation: a test period includes the first day of the next one.
WindowInclusive(start) ==
    LET testStart == AddMonths(start, TrainMonths)
    IN [trainStart |-> start, trainEnd |-> Yesterday(testStart),
        testStart |-> testStart, testEnd |-> AddMonths(testStart, TestMonths)]

\* The window whose train period starts on a date.
Window(start) ==
    LET trainEnd == Yesterday(AddMonths(start, TrainMonths))
        testStart == Tomorrow(trainEnd)
    IN [trainStart |-> start, trainEnd |-> trainEnd, testStart |-> testStart,
        testEnd |-> Yesterday(AddMonths(testStart, TestMonths))]

=============================================================================
