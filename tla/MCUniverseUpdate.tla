-------------------------- MODULE MCUniverseUpdate --------------------------
(* A small instance of UniverseUpdate for TLC.  The first list names a symbol *)
(* also by its ISIN; the second names a symbol of the first too, and the ISIN *)
(* of one of two listings of symbol 2.                                        *)
EXTENDS UniverseUpdate

Row(s, i, x) == [sym |-> s, isin |-> i, series |-> x]

\* The first file ends in a note.
TwoLists ==
    <<[notes |-> TRUE, rows |-> <<[sym |-> 4, isin |-> 14], [sym |-> 0, isin |-> 0]>>],
      [notes |-> FALSE, rows |-> <<[sym |-> 4, isin |-> 0], [sym |-> 9, isin |-> 12]>>]>>

\* Every symbol is listed twice or is on a list; without the lists the universe
\* is too large.
SecurityFiles == {
    <<Row(1, 11, "BE"), Row(2, 12, "EQ"), Row(1, 11, "EQ"), Row(2, 22, "BZ"),
      Row(2, 22, "BE"), Row(4, 14, "EQ"), Row(3, 0, "SM"), Row(3, 13, "BZ"), Row(3, 13, "BZ")>>}

\* The universe before: symbol 5 has the ISIN under which 3 is listed later, and
\* symbol 1 is listed in another series.
Before1 == <<Row(1, 11, "BE"), Row(2, 22, "BE"), Row(5, 13, "EQ")>>

IndexLists == {<<1, 2, 1>>, <<2, 3>>}

=============================================================================
