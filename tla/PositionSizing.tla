---------------------------- MODULE PositionSizing ----------------------------
(***************************************************************************)
(* calculate_position_size (portfolio/risk.py): the shares of a long        *)
(* position from the capital put at risk.  Percentages are basis points.    *)
(***************************************************************************)
EXTENDS Integers

CONSTANT None  \* a cap that is not configured, or does not bind

(* int(raw_shares): the risk capital over the loss of one share at the      *)
(* stop.  The code raises unless entry > stop.                              *)
RiskShares(capital, riskBp, entry, stop) ==
    (capital * riskBp) \div (10000 * (entry - stop))

Capped(n, cap) == IF cap # None /\ n > cap THEN cap ELSE n

\* liquidity_cap_shares: a part of the average daily value, in shares.
LiquidityCap(adv, advBp, entry) == (adv * advBp) \div (10000 * entry)

\* What the caps leave, or nothing when that is below the smallest position.
PositionSize(risked, maxSize, liquidity, minSize) ==
    LET n == Capped(Capped(risked, maxSize), liquidity)
    IN IF n < minSize THEN 0 ELSE n

=============================================================================
