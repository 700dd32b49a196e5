---------------------------- MODULE MCSymbolScan ----------------------------
(* A small instance of SymbolScan for TLC.                                  *)
EXTENDS SymbolScan, TLC

Candle(open, high, low, close, volume) ==
    [open |-> open, high |-> high, low |-> low, close |-> close, volume |-> volume]

\* Bars of one price, without trades or a gap away, rises within the band's bound
\* and beyond it, and a bar whose high is below its close.
Bars ==
    {Candle(20, 20, 20, 20, 0), Candle(24, 24, 24, 24, 3), Candle(6, 32, 6, 29, 2),
     Candle(22, 44, 22, 40, 1), Candle(20, 22, 18, 24, 1)}

\* No index, and one that rises on every day: it has rows the security has not.
Index(days) == [u \in DOMAIN days |-> [day |-> days[u], close |-> 100 + 10 * u * u]]

Indexes == {<< >>, Index([u \in 1 .. 12 |-> u])}

\* Every optional filter there is.
Switches == {{"trend", "volume", "bandwidth", "atr", "candle", "strength", "regime", "fresh"}}

=============================================================================
