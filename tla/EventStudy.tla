------------------------------ MODULE EventStudy ------------------------------
(***************************************************************************)
(* research/events.py, forward_returns.py, mfe_mae.py and the counts of     *)
(* statistics.py as operators over one security's feature frame: the        *)
(* sequence of its rows by date, each with whether the close is above the   *)
(* upper band and whether the mandatory condition holds.  Prices are left   *)
(* out; what is kept of a return is which rows it reads.                    *)
(***************************************************************************)
EXTENDS Integers, Sequences, FiniteSets, FiniteSetsExt

CONSTANT Cooldown  \* independent_event_cooldown_days

ASSUME StudyAssumption == Cooldown \in Nat

\* Breakout_Type = FRESH_BREAKOUT (strategy/breakout.py, on every row).
Fresh(frame, t) == frame[t].above /\ (t > 1 => ~frame[t - 1].above)

\* extract_signal_days: the positions of the rows that pass.
SignalRows(frame) == {t \in DOMAIN frame : frame[t].pass}

\* i of the loop over a security's signal days: the position of t among them.
DayNumber(frame, t) == Cardinality({u \in SignalRows(frame) : u <= t})

\* Mutation: the cooldown also holds back a FRESH breakout.
LastEventCooled(frame) ==
    LET last[t \in 0 .. Len(frame)] ==
            IF t = 0 THEN 0
            ELSE LET p == last[t - 1]
                 IN IF /\ frame[t].pass
                       /\ p = 0 \/ DayNumber(frame, t) - DayNumber(frame, p) >= Cooldown
                    THEN t ELSE p
    IN last

\* last_selected_pos after each row of the frame; 0 before the first event.
LastEvent(frame) ==
    LET last[t \in 0 .. Len(frame)] ==
            IF t = 0 THEN 0
            ELSE LET p == last[t - 1]
                 IN IF /\ frame[t].pass
                       /\ \/ Fresh(frame, t)
                          \/ p = 0
                          \/ DayNumber(frame, t) - DayNumber(frame, p) >= Cooldown
                    THEN t ELSE p
    IN last

\* extract_independent_events for one security, by position in its frame.
Events(frame) ==
    LET last == LastEvent(frame) IN {t \in SignalRows(frame) : last[t] = t}

\* Mutation: entry at the bar of the signal.
EntryOnSignal(frame, t) == {t}

\* resolve_entry: the bar after the signal, when there is one.
EntryRow(frame, t) == {t + 1} \cap DOMAIN frame

\* forward_return: the row h sessions after entry, none when there is no such row.
ReturnRow(frame, entry, h) == {entry + h} \cap DOMAIN frame

\* calculate_mfe_mae: the rows whose high and low count.
ExcursionRows(frame, entry, h, method) ==
    LET from == IF method = "next_open" THEN entry ELSE entry + 1
    IN from .. Min({entry + h, Len(frame)})

=============================================================================
