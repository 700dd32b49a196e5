------------------------ MODULE MCPortfolioBacktest ------------------------
(* A small instance of PortfolioBacktest for TLC.                           *)
EXTENDS PortfolioBacktest, TLC

CONSTANT NaN

\* A candidate with bars on all of its days, and its exit price as last close.
Trade(entry, exit, buy, sell, sector) ==
    [entry |-> entry, exit |-> exit, entryPrice |-> buy, exitPrice |-> sell,
     sector |-> sector,
     prices |-> [d \in entry .. exit |-> IF d = exit THEN sell ELSE buy + 1]]

\* Dear or cheap, gaining or losing, held for a day or two, in two sectors; one
\* exits on its entry day, one on a day without a bar, one has a gap and a bar
\* with no close in its series, one costs nothing.
Trades ==
    {Trade(1, exit, 3, sell, "s") : exit \in {2, 3}, sell \in {2, 7}}
    \cup {Trade(2, exit, buy, sell, sector) :
             exit \in {3, 4}, buy \in {2, 4}, sell \in {1, 4}, sector \in {"s", "t"}}
    \cup {Trade(2, 2, 3, 3, "t"), Trade(3, 4, 0, 1, "t"), Trade(3, 4, 5, 3, "t")}
    \cup {[Trade(1, 4, 3, 5, "t") EXCEPT !.prices = (1 :> NaN) @@ (4 :> 5)],
          [Trade(1, 3, 3, 5, "t") EXCEPT !.prices = (1 :> 4) @@ (4 :> 1)]}

\* Up to three candidates by entry date.
Lists ==
    LET ordered(n) == {cs \in [1 .. n -> Trades] :
                         \A i \in 1 .. n - 1 : cs[i].entry <= cs[i + 1].entry}
    IN ordered(0) \cup ordered(2) \cup ordered(3)

Costs == [brokerageBuy |-> 3, brokerageSell |-> 3, sttBuy |-> 0, sttSell |-> 10,
          exchangeBuy |-> 1, exchangeSell |-> 1, stampBuy |-> 2, stampSell |-> 0,
          slippageBuy |-> 5, slippageSell |-> 5]

=============================================================================
