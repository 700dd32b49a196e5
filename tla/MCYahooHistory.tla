--------------------------- MODULE MCYahooHistory ---------------------------
(* A small instance of YahooHistory for TLC.                                *)
EXTENDS YahooHistory

\* "renamed" has the Yahoo symbol of "old".
OverrideTable == "renamed" :> "old"

\* A batch and a last one of one ticker; two members with one Yahoo symbol in
\* different batches and in the same one.
Members == {<< >>, <<"old", "other", "third">>, <<"old", "other", "renamed">>,
            <<"renamed", "old">>}

R(date, bar) == [date |-> date, bar |-> bar]

\* Nothing, good rows out of order, a date twice, a row that is no valid bar
\* before or after one that is, a row of nothing, and rows past the cutoff of 2.
RowsSent == {<< >>, <<R(2, "good"), R(1, "good")>>, <<R(1, "good"), R(1, "amended")>>,
             <<R(2, "good"), R(2, "bad")>>, <<R(1, "amended"), R(1, "empty")>>,
             <<R(3, "good")>>}

=============================================================================
