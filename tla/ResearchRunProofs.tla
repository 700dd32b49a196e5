-------------------------- MODULE ResearchRunProofs --------------------------
(***************************************************************************)
(* Proofs about ResearchRun, for every universe, history, configuration,   *)
(* horizon, cooldown and window length.                                    *)
(***************************************************************************)
EXTENDS ResearchRun, SumProofs, SequenceTheorems

-------------------------------------------------------------------------------
(* The loop over a security's signal days (EventStudy)                      *)

\* What row t makes the last event, p being the last before it.
Picked(frame, t, p) ==
    IF /\ frame[t].pass
       /\ \/ Fresh(frame, t)
          \/ p = 0
          \/ DayNumber(frame, t) - DayNumber(frame, p) >= Cooldown
    THEN t ELSE p

\* A frame is a sequence, whatever its rows.
IsFrame(frame) == Len(frame) \in Nat /\ DOMAIN frame = 1 .. Len(frame)

\* The last events are those of the loop: one step for each row.
LEMMA LastEventIs ==
    ASSUME NEW frame, IsFrame(frame)
    PROVE  /\ LastEvent(frame)[0] = 0
           /\ \A t \in 1 .. Len(frame) :
                 LastEvent(frame)[t] = Picked(frame, t, LastEvent(frame)[t - 1])
           /\ \A t \in 0 .. Len(frame) : LastEvent(frame)[t] \in Nat
<1> DEFINE N == Len(frame)
           g == [x \in (1 .. N) \X Nat |-> Picked(frame, x[1], x[2])]
           H(f) == f = [t \in 0 .. N |->
                          IF t = 0 THEN 0
                          ELSE LET p == f[t - 1]
                               IN IF /\ frame[t].pass
                                     /\ \/ Fresh(frame, t)
                                        \/ p = 0
                                        \/ DayNumber(frame, t) - DayNumber(frame, p)
                                             >= Cooldown
                                  THEN t ELSE p]
<1>1. N \in Nat
  BY DEF IsFrame
<1>2. g \in [(1 .. N) \X Nat -> Nat]
  <2>1. ASSUME NEW x \in (1 .. N) \X Nat PROVE Picked(frame, x[1], x[2]) \in Nat
    <3>1. x[1] \in Nat /\ x[2] \in Nat
      BY <1>1
    <3> QED
      BY <3>1 DEF Picked
  <2> QED
    BY <2>1
<1>3. PICK e \in [0 .. N -> Nat] : Recursion(e, N, 0, g)
  <2>1. 0 \in Nat
    OBVIOUS
  <2> HIDE DEF g, N
  <2> QED
    BY <1>1, <1>2, <2>1, RecursionExists
<1>4. ASSUME NEW f
      PROVE  H(f) <=> /\ f = [t \in 0 .. N |-> f[t]]
                      /\ f[0] = 0
                      /\ \A t \in 1 .. N : f[t] = Picked(frame, t, f[t - 1])
  <2> DEFINE V(t) == IF t = 0 THEN 0 ELSE Picked(frame, t, f[t - 1])
  <2>1. H(f) <=> f = [t \in 0 .. N |-> V(t)]
    BY DEF Picked
  <2>2. (f = [t \in 0 .. N |-> V(t)])
          <=> f = [t \in 0 .. N |-> f[t]] /\ \A t \in 0 .. N : f[t] = V(t)
    <3> HIDE DEF V
    <3> QED
      OBVIOUS
  <2>3. (\A t \in 0 .. N : f[t] = V(t))
          <=> f[0] = 0 /\ \A t \in 1 .. N : f[t] = Picked(frame, t, f[t - 1])
    BY <1>1
  <2> HIDE DEF H, V
  <2> QED
    BY <2>1, <2>2, <2>3
<1>5. H(e)
  <2>1. e[0] = 0
    BY <1>3 DEF Recursion
  <2>2. ASSUME NEW t \in 1 .. N PROVE e[t] = Picked(frame, t, e[t - 1])
    <3>1. e[t] = g[<<t, e[t - 1]>>]
      BY <1>3 DEF Recursion
    <3>2. e[t - 1] \in Nat
      BY <1>1, <1>3
    <3> QED
      BY <3>1, <3>2
  <2>3. e = [t \in 0 .. N |-> e[t]]
    BY <1>3
  <2> HIDE DEF H
  <2> QED
    BY <1>4, <2>1, <2>2, <2>3
<1> DEFINE L == CHOOSE f : H(f)
<1>6. H(L)
  BY <1>5, Zenon
<1>7. LastEvent(frame) = L
  BY Zenon DEF LastEvent
<1> HIDE DEF H, L
<1>8. L[0] = 0 /\ \A t \in 1 .. N : L[t] = Picked(frame, t, L[t - 1])
  BY <1>4, <1>6
<1>9. \A t \in 0 .. N : L[t] \in Nat
  <2> DEFINE T == {t \in Nat : t <= N /\ L[t] \notin Nat}
  <2>1. ASSUME NEW t \in T, \A u \in T : t <= u PROVE FALSE
    <3>1. t # 0
      BY <1>8
    <3>2. t \in 1 .. N /\ t - 1 \in Nat /\ t - 1 <= N
      BY <1>1, <3>1
    <3>3. L[t - 1] \in Nat
      BY <2>1, <3>2
    <3>4. L[t] = t \/ L[t] = L[t - 1]
      BY <1>8, <3>2 DEF Picked
    <3> QED
      BY <3>3, <3>4
  <2>2. T = {}
    <3>1. T \in SUBSET Nat
      OBVIOUS
    <3> HIDE DEF T
    <3> QED
      BY <2>1, <3>1, LeastNumber
  <2> QED
    BY <1>1, <2>2
<1> QED
  BY <1>7, <1>8, <1>9

\* The last event is an event, and no event up to the row is later.
LEMMA LastEventIsLast ==
    ASSUME NEW frame, IsFrame(frame), NEW t \in 0 .. Len(frame)
    PROVE  /\ LastEvent(frame)[t] \in 0 .. t
           /\ LastEvent(frame)[t] # 0 => LastEvent(frame)[t] \in Events(frame)
           /\ \A u \in Events(frame) : u <= t => u <= LastEvent(frame)[t]
<1> DEFINE N == Len(frame)
           L == LastEvent(frame)
           Holds(n) == /\ L[n] \in 0 .. n
                       /\ L[n] # 0 => L[n] \in Events(frame)
                       /\ \A u \in Events(frame) : u <= n => u <= L[n]
           T == {n \in Nat : n <= N /\ ~ Holds(n)}
<1>1. N \in Nat /\ DOMAIN frame = 1 .. N
  BY DEF IsFrame
<1>2. /\ L[0] = 0
      /\ \A n \in 1 .. N : L[n] = Picked(frame, n, L[n - 1])
  BY LastEventIs
<1>3. \A n : n \in Events(frame) <=> n \in 1 .. N /\ frame[n].pass /\ L[n] = n
  BY <1>1 DEF Events, SignalRows
<1> HIDE DEF L
<1>4. ASSUME NEW n \in T, \A m \in T : n <= m PROVE FALSE
  <2>1. n # 0
    <3>1. Holds(0)
      BY <1>1, <1>2, <1>3
    <3> QED
      BY <3>1
  <2>2. n \in 1 .. N /\ n - 1 \in Nat /\ n - 1 <= N /\ n \in Nat
    BY <1>1, <2>1
  <2>3. Holds(n - 1)
    <3>1. n - 1 \notin T
      <4> HIDE DEF T
      <4> QED
        BY <1>4, <2>2
    <3> QED
      BY <2>2, <3>1
  <2>4. (L[n] = n /\ frame[n].pass) \/ L[n] = L[n - 1]
    BY <1>2, <2>2 DEF Picked
  <2>5. CASE L[n] = n /\ frame[n].pass
    <3>1. Holds(n)
      BY <1>3, <2>2, <2>5
    <3> QED
      BY <3>1
  <2>6. CASE L[n] = L[n - 1]
    <3>1. L[n] # n
      BY <2>2, <2>3, <2>6
    <3>2. \A u \in Events(frame) : u \in Nat /\ (u <= n => u <= n - 1)
      BY <1>3, <2>2, <3>1
    <3>3. Holds(n)
      BY <2>2, <2>3, <2>6, <3>2
    <3> QED
      BY <3>3
  <2> QED
    BY <2>4, <2>5, <2>6
<1>5. T = {}
  <2>1. T \in SUBSET Nat
    OBVIOUS
  <2> HIDE DEF T
  <2> QED
    BY <1>4, <2>1, LeastNumber
<1>6. Holds(t)
  <2>1. t \in Nat /\ t <= N
    BY <1>1
  <2> HIDE DEF Holds
  <2> QED
    BY <1>5, <2>1
<1> QED
  BY <1>6 DEF L

\* A signal day's number counts the signal days up to it, and so never falls.
LEMMA DayNumbers ==
    ASSUME NEW frame, IsFrame(frame),
           NEW t \in Nat, NEW u \in Nat, u <= t
    PROVE  /\ DayNumber(frame, t) \in Nat /\ DayNumber(frame, u) \in Nat
           /\ DayNumber(frame, u) <= DayNumber(frame, t)
<1> DEFINE A == {x \in SignalRows(frame) : x <= t}
           B == {x \in SignalRows(frame) : x <= u}
<1>1. A \in SUBSET (1 .. Len(frame)) /\ B \in SUBSET A
  BY DEF SignalRows, IsFrame
<1>2. IsFiniteSet(1 .. Len(frame))
  <2>1. 1 \in Int /\ Len(frame) \in Int
    BY DEF IsFrame
  <2> QED
    BY <2>1, FS_Interval
<1>3. IsFiniteSet(A)
  BY <1>1, <1>2, FS_Subset
<1>4. /\ DayNumber(frame, t) = Cardinality(A)
      /\ DayNumber(frame, u) = Cardinality(B)
  BY DEF DayNumber
<1> HIDE DEF A, B
<1> QED
  BY <1>1, <1>3, <1>4, FS_Subset, FS_CardinalityType

\* When a signal day is an event, the last event before it being p.
LEMMA EventWhen ==
    ASSUME NEW frame, IsFrame(frame), NEW t \in SignalRows(frame)
    PROVE  LET p == LastEvent(frame)[t - 1]
           IN /\ t \in 1 .. Len(frame) /\ p \in 0 .. t - 1
              /\ p # 0 => p \in Events(frame)
              /\ \A u \in Events(frame) : u < t => u <= p
              /\ t \in Events(frame) <=>
                    \/ Fresh(frame, t)
                    \/ p = 0
                    \/ DayNumber(frame, t) - DayNumber(frame, p) >= Cooldown
<1> DEFINE p == LastEvent(frame)[t - 1]
<1>1. t \in 1 .. Len(frame) /\ frame[t].pass /\ Len(frame) \in Nat
  BY DEF SignalRows, IsFrame
<1>2. t - 1 \in 0 .. Len(frame)
  BY <1>1
<1>3. /\ p \in 0 .. t - 1
      /\ p # 0 => p \in Events(frame)
      /\ \A u \in Events(frame) : u <= t - 1 => u <= p
  <2> HIDE DEF p
  <2> QED
    BY <1>2, LastEventIsLast DEF p
<1>4. LastEvent(frame)[t] = Picked(frame, t, p)
  BY <1>1, LastEventIs
<1>5. t \in Events(frame) <=> LastEvent(frame)[t] = t
  BY DEF Events
<1> HIDE DEF p
<1>6. p # t
  BY <1>1, <1>3
<1>7. t \in Events(frame) <=>
        \/ Fresh(frame, t)
        \/ p = 0
        \/ DayNumber(frame, t) - DayNumber(frame, p) >= Cooldown
  BY <1>1, <1>4, <1>5, <1>6 DEF Picked
<1>8. \A u \in Events(frame) : u < t => u <= p
  <2>1. \A u \in Events(frame) : u \in Nat
    BY DEF Events, SignalRows, IsFrame
  <2> QED
    BY <1>1, <1>3, <2>1
<1> QED
  BY <1>1, <1>3, <1>7, <1>8 DEF p

\* The events less than the cooldown before a signal day.
Near(frame, t) ==
    {u \in Events(frame) : /\ u < t
                           /\ DayNumber(frame, t) - DayNumber(frame, u) < Cooldown}

(* A signal day is no event only because of an event near it, and never a   *)
(* fresh breakout; an event with another near it is a fresh breakout.       *)
LEMMA EventsSpaced ==
    ASSUME NEW frame, IsFrame(frame), NEW t \in SignalRows(frame)
    PROVE  /\ t \notin Events(frame) => Near(frame, t) # {} /\ ~Fresh(frame, t)
           /\ t \in Events(frame) /\ Near(frame, t) # {} => Fresh(frame, t)
<1> DEFINE p == LastEvent(frame)[t - 1]
<1>1. /\ t \in 1 .. Len(frame) /\ p \in 0 .. t - 1
      /\ p # 0 => p \in Events(frame)
      /\ \A u \in Events(frame) : u < t => u <= p
      /\ t \in Events(frame) <=>
            \/ Fresh(frame, t)
            \/ p = 0
            \/ DayNumber(frame, t) - DayNumber(frame, p) >= Cooldown
  BY EventWhen
<1> HIDE DEF p
<1>2. \A u \in Nat : u <= t => /\ DayNumber(frame, t) \in Nat
                               /\ DayNumber(frame, u) \in Nat
                               /\ DayNumber(frame, u) <= DayNumber(frame, t)
  <2>1. t \in Nat
    BY <1>1
  <2> QED
    BY <2>1, DayNumbers
<1>3. Cooldown \in Nat /\ p \in Nat /\ t \in Nat /\ p < t
  BY <1>1, StudyAssumption
<1>4. ASSUME t \notin Events(frame)
      PROVE  Near(frame, t) # {} /\ ~Fresh(frame, t)
  <2>1. ~Fresh(frame, t) /\ p # 0 /\ ~(DayNumber(frame, t) - DayNumber(frame, p) >= Cooldown)
    BY <1>1, <1>4
  <2>2. DayNumber(frame, t) - DayNumber(frame, p) < Cooldown
    BY <1>2, <1>3, <2>1
  <2>3. p \in Near(frame, t)
    BY <1>1, <1>3, <2>1, <2>2 DEF Near
  <2> QED
    BY <2>1, <2>3
<1>5. ASSUME t \in Events(frame), NEW u \in Near(frame, t)
      PROVE  Fresh(frame, t)
  <2>1. u \in Events(frame) /\ u < t /\ DayNumber(frame, t) - DayNumber(frame, u) < Cooldown
    BY DEF Near
  <2>2. u \in Nat /\ u # 0
    BY <2>1 DEF Events, SignalRows, IsFrame
  <2>3. u <= p
    BY <1>1, <2>1
  <2>4. DayNumber(frame, u) <= DayNumber(frame, p)
    BY <1>3, <2>2, <2>3, DayNumbers
  <2>5. ~(DayNumber(frame, t) - DayNumber(frame, p) >= Cooldown)
    <3>1. /\ DayNumber(frame, t) \in Nat /\ DayNumber(frame, u) \in Nat
          /\ DayNumber(frame, p) \in Nat
      BY <1>2, <1>3, <2>1, <2>2
    <3> QED
      BY <1>3, <2>1, <2>4, <3>1
  <2>6. p # 0
    BY <1>3, <2>2, <2>3
  <2> QED
    BY <1>1, <1>5, <2>5, <2>6
<1> QED
  BY <1>4, <1>5

(* Whether a row is an event depends on no later row: what is cut off a     *)
(* frame's end takes away its own events and changes no other.              *)
LEMMA EventsOfPrefix ==
    ASSUME NEW frame, IsFrame(frame), NEW cut, IsFrame(cut),
           Len(cut) <= Len(frame), \A t \in 1 .. Len(cut) : cut[t] = frame[t]
    PROVE  Events(cut) = {t \in Events(frame) : t <= Len(cut)}
<1> DEFINE m == Len(cut)
           L == LastEvent(frame)
           K == LastEvent(cut)
           T == {n \in Nat : n <= m /\ K[n] # L[n]}
<1>1. m \in Nat /\ Len(frame) \in Nat /\ m <= Len(frame)
  BY DEF IsFrame
<1>2. /\ L[0] = 0 /\ K[0] = 0
      /\ \A n \in 1 .. Len(frame) : L[n] = Picked(frame, n, L[n - 1])
      /\ \A n \in 1 .. m : K[n] = Picked(cut, n, K[n - 1])
  BY LastEventIs
<1>3. \A n \in 0 .. Len(frame) : L[n] \in 0 .. n
  BY LastEventIsLast
<1>4. ASSUME NEW n \in 0 .. m PROVE DayNumber(cut, n) = DayNumber(frame, n)
  <2>1. {u \in SignalRows(cut) : u <= n} = {u \in SignalRows(frame) : u <= n}
    BY <1>1 DEF SignalRows, IsFrame
  <2> QED
    BY <2>1 DEF DayNumber
<1>5. ASSUME NEW n \in 1 .. m PROVE (Fresh(cut, n) <=> Fresh(frame, n)) /\ cut[n] = frame[n]
  <2>1. cut[n] = frame[n] /\ (n > 1 => cut[n - 1] = frame[n - 1])
    BY <1>1
  <2> QED
    BY <2>1 DEF Fresh
<1> HIDE DEF L, K, m
<1>6. ASSUME NEW n \in T, \A k \in T : n <= k PROVE FALSE
  <2>1. n # 0
    BY <1>2
  <2>2. n \in 1 .. m /\ n - 1 \in Nat /\ n - 1 <= m /\ n \in 1 .. Len(frame) /\ n \in 0 .. m
    BY <1>1, <2>1
  <2>3. K[n - 1] = L[n - 1]
    <3>1. n - 1 \notin T
      <4> HIDE DEF T
      <4> QED
        BY <1>6, <2>2
    <3> QED
      BY <2>2, <3>1
  <2>4. L[n - 1] \in 0 .. m
    BY <1>1, <1>3, <2>2
  <2>5. Picked(cut, n, L[n - 1]) = Picked(frame, n, L[n - 1])
    <3>1. /\ DayNumber(cut, n) = DayNumber(frame, n)
          /\ DayNumber(cut, L[n - 1]) = DayNumber(frame, L[n - 1])
      BY <1>4, <2>2, <2>4
    <3>2. (Fresh(cut, n) <=> Fresh(frame, n)) /\ cut[n] = frame[n]
      BY <1>5, <2>2
    <3> QED
      BY <3>1, <3>2 DEF Picked
  <2> QED
    BY <1>2, <2>2, <2>3, <2>5
<1>7. T = {}
  <2>1. T \in SUBSET Nat
    OBVIOUS
  <2> HIDE DEF T
  <2> QED
    BY <1>6, <2>1, LeastNumber
<1>8. \A n \in 1 .. m : K[n] = L[n]
  BY <1>1, <1>7
<1>9. \A t : t \in Events(frame) <=> t \in 1 .. Len(frame) /\ frame[t].pass /\ L[t] = t
  BY DEF Events, SignalRows, IsFrame, L
<1>10. \A t : t \in Events(cut) <=> t \in 1 .. m /\ cut[t].pass /\ K[t] = t
  BY DEF Events, SignalRows, IsFrame, K, m
<1> QED
  BY <1>1, <1>5, <1>8, <1>9, <1>10 DEF m

-------------------------------------------------------------------------------
(* Loading a configuration (Configuration)                                  *)

Names(layer, s, f) == s \in DOMAIN layer /\ f \in DOMAIN layer[s]

\* One layer over a configuration: the fields it names have its values.
LEMMA OverriddenIs ==
    ASSUME NEW cfg, NEW layer, NEW s \in DOMAIN cfg
    PROVE  /\ DOMAIN Overridden(cfg, layer) = DOMAIN cfg
           /\ \A f \in DOMAIN cfg[s] :
                 /\ f \in DOMAIN Overridden(cfg, layer)[s]
                 /\ Overridden(cfg, layer)[s][f]
                      = IF Names(layer, s, f) THEN layer[s][f] ELSE cfg[s][f]
<1>1. DOMAIN Overridden(cfg, layer) = DOMAIN cfg
  BY DEF Overridden
<1>2. Overridden(cfg, layer)[s]
        = IF s \in DOMAIN layer THEN Merged(cfg[s], layer[s]) ELSE cfg[s]
  BY DEF Overridden
<1>3. CASE s \in DOMAIN layer
  <2>1. Overridden(cfg, layer)[s]
          = [x \in DOMAIN cfg[s] |->
                IF x \in DOMAIN layer[s] THEN layer[s][x] ELSE cfg[s][x]]
    BY <1>2, <1>3 DEF Merged
  <2> QED
    BY <1>1, <1>3, <2>1 DEF Names
<1>4. CASE s \notin DOMAIN layer
  BY <1>1, <1>2, <1>4 DEF Names
<1> QED
  BY <1>3, <1>4

\* The layers that name a field.
Naming(layers, s, f) == {k \in DOMAIN layers : s \in DOMAIN layers[k] /\ f \in DOMAIN layers[k][s]}

(* A configuration that loads has every field from the last layer naming    *)
(* it, no layer names what is no field, and it is valid.                    *)
LEMMA ConfigurationLoads ==
    ASSUME NEW file, NEW environ, NEW cfg \in LoadConfig(file, environ, << >>)
    PROVE  LET layers == Layers(file, environ, << >>)
           IN /\ DOMAIN cfg = DOMAIN Defaults
              /\ \A s \in DOMAIN Defaults : \A f \in DOMAIN Defaults[s] :
                    cfg[s][f] = IF Naming(layers, s, f) = {} THEN Defaults[s][f]
                                ELSE layers[Max(Naming(layers, s, f))][s][f]
              /\ \A k \in DOMAIN layers : Known(layers[k])
              /\ Valid(cfg)
<1> DEFINE layers == Layers(file, environ, << >>)
           one == Overridden(Defaults, layers[1])
           two == Overridden(one, layers[2])
           three == Overridden(two, layers[3])
<1>1. DOMAIN layers = 1 .. 3
  BY DEF Layers
<1>2. /\ \A layer \in ToSet(layers) : Known(layer)
      /\ Valid(three) /\ cfg = three
  BY DEF LoadConfig
<1>3. \A k \in DOMAIN layers : Known(layers[k])
  BY <1>2 DEF ToSet
<1> HIDE DEF layers
<1>4. /\ DOMAIN one = DOMAIN Defaults
      /\ DOMAIN two = DOMAIN Defaults
      /\ DOMAIN three = DOMAIN Defaults
  BY DEF Overridden
<1>5. ASSUME NEW s \in DOMAIN Defaults, NEW f \in DOMAIN Defaults[s]
      PROVE  three[s][f] = IF Naming(layers, s, f) = {} THEN Defaults[s][f]
                           ELSE layers[Max(Naming(layers, s, f))][s][f]
  <2> DEFINE S == Naming(layers, s, f)
  <2>1. /\ f \in DOMAIN one[s]
        /\ one[s][f] = IF Names(layers[1], s, f) THEN layers[1][s][f] ELSE Defaults[s][f]
    BY OverriddenIs
  <2> HIDE DEF one
  <2>2. /\ f \in DOMAIN two[s]
        /\ two[s][f] = IF Names(layers[2], s, f) THEN layers[2][s][f] ELSE one[s][f]
    BY <1>4, <2>1, OverriddenIs
  <2> HIDE DEF two
  <2>3. three[s][f] = IF Names(layers[3], s, f) THEN layers[3][s][f] ELSE two[s][f]
    BY <1>4, <2>2, OverriddenIs
  <2> HIDE DEF three
  <2>4. \A k : k \in S <=> k \in 1 .. 3 /\ Names(layers[k], s, f)
    BY <1>1 DEF Naming, Names
  <2>5. S # {} => Max(S) \in S /\ \A k \in S : k <= Max(S)
    <3>1. IsFiniteSet(1 .. 3)
      <4>1. 1 \in Int /\ 3 \in Int
        OBVIOUS
      <4> QED
        BY <4>1, FS_Interval
    <3>2. S \in SUBSET (1 .. 3)
      BY <2>4
    <3> HIDE DEF S
    <3>3. IsFiniteSet(S)
      BY <3>1, <3>2, FS_Subset
    <3>4. \A k \in S : k \in Int
      BY <3>2
    <3> QED
      BY <3>3, <3>4, MaxIs
  <2> HIDE DEF S
  <2>6. CASE 3 \in S
    <3>1. Max(S) = 3
      BY <2>4, <2>5, <2>6
    <3> QED
      BY <2>3, <2>4, <2>6, <3>1 DEF S
  <2>7. CASE 3 \notin S /\ 2 \in S
    <3>1. Max(S) = 2
      BY <2>4, <2>5, <2>7
    <3> QED
      BY <2>2, <2>3, <2>4, <2>7, <3>1 DEF S
  <2>8. CASE 3 \notin S /\ 2 \notin S /\ 1 \in S
    <3>1. Max(S) = 1
      BY <2>4, <2>5, <2>8
    <3> QED
      BY <2>1, <2>2, <2>3, <2>4, <2>8, <3>1 DEF S
  <2>9. CASE 3 \notin S /\ 2 \notin S /\ 1 \notin S
    <3>1. S = {}
      BY <2>4, <2>9
    <3> QED
      BY <2>1, <2>2, <2>3, <2>4, <2>9, <3>1 DEF S
  <2> QED
    BY <2>6, <2>7, <2>8, <2>9
<1> HIDE DEF one, two, three
<1> QED
  BY <1>2, <1>3, <1>4, <1>5 DEF layers

-------------------------------------------------------------------------------
(* The histories, the events and what is measured of them                   *)

(* The frames of a history are sequences with a row for each of finitely    *)
(* many dates, in their order, of finitely many symbols.                    *)
LEMMA HistoryIs ==
    ASSUME history \in Histories
    PROVE  /\ IsFiniteSet(DOMAIN history)
           /\ \A s \in DOMAIN history :
                 /\ s \in DOMAIN Sectors
                 /\ IsFrame(history[s])
                 /\ history[s] \in Seq({history[s][t] : t \in DOMAIN history[s]})
                 /\ \A t \in DOMAIN history[s] : IsDate(history[s][t].date)
<1>1. /\ IsFiniteSet(DOMAIN history)
      /\ \A s \in DOMAIN history :
            /\ s \in DOMAIN Sectors
            /\ history[s] \in Seq({history[s][t] : t \in DOMAIN history[s]})
            /\ \A t \in DOMAIN history[s] : IsDate(history[s][t].date)
  BY ResearchAssumption, Zenon
<1>2. ASSUME NEW s \in DOMAIN history PROVE IsFrame(history[s])
  BY <1>1 DEF IsFrame
<1> QED
  BY <1>1, <1>2

\* The events of all loaded symbols, over their whole histories.
AllEvents == UNION {{s} \X Full(s) : s \in loaded}

\* One of them: a symbol and a row of its frame.
LEMMA EventIs ==
    ASSUME history \in Histories, loaded \in SUBSET DOMAIN history, NEW e \in AllEvents
    PROVE  /\ e[1] \in loaded /\ e[1] \in DOMAIN history
           /\ e[2] \in Full(e[1])
           /\ e[2] \in 1 .. Len(history[e[1]])
           /\ e = <<e[1], e[2]>>
           /\ IsFrame(history[e[1]])
<1>1. PICK s \in loaded : e \in {s} \X Full(s)
  BY DEF AllEvents
<1>2. e[1] = s /\ e[2] \in Full(s) /\ e = <<e[1], e[2]>>
  BY <1>1
<1>3. IsFrame(history[s])
  BY HistoryIs
<1>4. e[2] \in DOMAIN history[s]
  BY <1>2 DEF Full, Events, SignalRows
<1> QED
  BY <1>1, <1>2, <1>3, <1>4 DEF IsFrame

\* There are finitely many events.
LEMMA EventsFinite ==
    ASSUME history \in Histories, loaded \in SUBSET DOMAIN history
    PROVE  IsFiniteSet(AllEvents)
<1> DEFINE F == [s \in loaded |-> {s} \X Full(s)]
           V == {{s} \X Full(s) : s \in loaded}
<1>1. IsFiniteSet(loaded)
  BY HistoryIs, FS_Subset
<1>2. F \in Surjection(loaded, V)
  BY DEF Surjection
<1>3. IsFiniteSet(V)
  <2> HIDE DEF F, V
  <2> QED
    BY <1>1, <1>2, FS_Surjection
<1>4. ASSUME NEW s \in loaded PROVE IsFiniteSet({s} \X Full(s))
  <2>1. IsFrame(history[s])
    BY HistoryIs
  <2>2. 1 \in Int /\ Len(history[s]) \in Int
    BY <2>1 DEF IsFrame
  <2>3. IsFiniteSet(1 .. Len(history[s]))
    BY <2>2, FS_Interval
  <2>4. Full(s) \in SUBSET (1 .. Len(history[s]))
    BY <2>1 DEF Full, Events, SignalRows, IsFrame
  <2>5. IsFiniteSet(Full(s))
    BY <2>3, <2>4, FS_Subset
  <2>6. IsFiniteSet({s})
    BY FS_Singleton
  <2> QED
    BY <2>5, <2>6, FS_Product
<1>5. \A T \in V : IsFiniteSet(T)
  BY <1>4
<1>6. AllEvents = UNION V
  BY DEF AllEvents
<1> HIDE DEF V
<1> QED
  BY <1>3, <1>5, <1>6, FS_UNION

\* The least of two numbers.
LEMMA MinOfTwo ==
    ASSUME NEW a \in Int, NEW b \in Int
    PROVE  Min({a, b}) \in {a, b} /\ Min({a, b}) <= a /\ Min({a, b}) <= b
<1>1. \E x \in {a, b} : \A y \in {a, b} : x =< y
  OBVIOUS
<1>2. Min({a, b}) \in {a, b} /\ \A y \in {a, b} : Min({a, b}) =< y
  BY <1>1, Zenon DEF Min
<1> QED
  BY <1>2

\* An event can be measured when a bar follows its signal.
Measurable(e) == EntryRow(history[e[1]], e[2]) # {}

(* A measurement is that of its event, and reads the security's rows from   *)
(* the bar of entry on, the one after the signal.                           *)
MeasuresFromEntry(m) ==
    LET e == m.event
        frame == history[e[1]]
    IN /\ e \in AllEvents /\ Measurable(e) /\ m = Measured(e)
       /\ m.entry = e[2] + 1
       /\ \A h \in Horizons : m.returns[h] = {m.entry + h} \cap DOMAIN frame
       /\ \A t \in m.excursion : /\ t \in DOMAIN frame /\ t > e[2]
                                 /\ Method = "next_close" => t > e[2] + 1

LEMMA MeasuredIs ==
    ASSUME history \in Histories, loaded \in SUBSET DOMAIN history, Horizon \in Int,
           NEW e \in AllEvents, Measurable(e)
    PROVE  Measured(e).event = e /\ MeasuresFromEntry(Measured(e))
<1> DEFINE frame == history[e[1]]
           t == e[2]
           entry == CHOOSE x \in EntryRow(frame, t) : TRUE
           m == Measured(e)
<1>1. /\ t \in 1 .. Len(frame) /\ IsFrame(frame)
      /\ DOMAIN frame = 1 .. Len(frame) /\ Len(frame) \in Nat
  BY EventIs DEF IsFrame
<1>2. EntryRow(frame, t) = {t + 1} /\ t + 1 \in DOMAIN frame
  BY DEF EntryRow, Measurable
<1>3. entry = t + 1
  BY <1>2
<1>4. /\ m.event = e /\ m.entry = entry
      /\ m.returns = [h \in Horizons |-> ReturnRow(frame, entry, h)]
      /\ m.excursion = ExcursionRows(frame, entry, Horizon, Method)
  BY Zenon DEF Measured
<1> HIDE DEF m, entry
<1>5. \A h \in Horizons : m.returns[h] = {m.entry + h} \cap DOMAIN frame
  BY <1>4 DEF ReturnRow
<1>6. ASSUME NEW x \in m.excursion
      PROVE  /\ x \in DOMAIN frame /\ x > t
             /\ Method = "next_close" => x > t + 1
  <2> DEFINE top == Min({entry + Horizon, Len(frame)})
             from == IF Method = "next_open" THEN entry ELSE entry + 1
  <2>1. x \in from .. top
    BY <1>4 DEF ExcursionRows
  <2>2. top \in Int /\ top <= Len(frame)
    <3>1. entry + Horizon \in Int /\ Len(frame) \in Int
      BY <1>1, <1>3
    <3> QED
      BY <3>1, MinOfTwo
  <2> HIDE DEF top
  <2> QED
    BY <1>1, <1>3, <2>1, <2>2
<1> QED
  BY <1>3, <1>4, <1>5, <1>6 DEF MeasuresFromEntry, m

\* The measurements of events: one of each that can be measured.
LEMMA MeasurementsAre ==
    ASSUME history \in Histories, loaded \in SUBSET DOMAIN history, Horizon \in Int,
           NEW es \in SUBSET AllEvents
    PROVE  /\ \A m \in Measurements(es) : MeasuresFromEntry(m) /\ m.event \in es
           /\ {m.event : m \in Measurements(es)} = {e \in es : Measurable(e)}
           /\ IsFiniteSet(Measurements(es))
           /\ Cardinality(Measurements(es))
                = Cardinality({m.event : m \in Measurements(es)})
<1> DEFINE A == {e \in es : Measurable(e)}
           M == Measurements(es)
<1>1. M = {Measured(e) : e \in A}
  BY Zenon DEF Measurements, Measurable
<1>2. ASSUME NEW e \in A PROVE Measured(e).event = e /\ MeasuresFromEntry(Measured(e))
  <2>1. e \in AllEvents /\ Measurable(e)
    OBVIOUS
  <2> QED
    BY <2>1, MeasuredIs
<1>3. A \in SUBSET es
  OBVIOUS
<1> HIDE DEF A, M
<1>4. \A m \in M : m.event \in A /\ m = Measured(m.event) /\ MeasuresFromEntry(m)
  BY <1>1, <1>2
<1>5. {m.event : m \in M} = A
  <2>1. \A e \in A : Measured(e) \in M /\ Measured(e).event = e
    BY <1>1, <1>2
  <2> QED
    BY <1>4, <2>1
<1>6. IsFiniteSet(A)
  <2>1. IsFiniteSet(AllEvents) /\ A \in SUBSET AllEvents
    BY <1>3, EventsFinite
  <2> QED
    BY <2>1, FS_Subset
<1> DEFINE F == [e \in A |-> Measured(e)]
<1>7. F \in Bijection(A, M)
  <2>1. F \in [A -> M] /\ \A e \in A : F[e].event = e
    BY <1>1, <1>2
  <2>2. \A m \in M : F[m.event] = m /\ m.event \in A
    BY <1>4
  <2> HIDE DEF F
  <2>3. F \in Injection(A, M)
    BY <2>1 DEF Injection, IsInjective
  <2>4. F \in Surjection(A, M)
    BY <2>1, <2>2 DEF Surjection
  <2> QED
    BY <2>3, <2>4 DEF Bijection
<1>8. IsFiniteSet(M) /\ Cardinality(M) = Cardinality(A)
  <2>1. ExistsBijection(A, M)
    BY <1>7 DEF ExistsBijection
  <2> QED
    BY <1>6, <2>1, FS_Bijection
<1> QED
  BY <1>3, <1>4, <1>5, <1>8 DEF A, M

(* The events of a window's frames on its dates are those of the whole      *)
(* histories on its dates.                                                  *)
LEMMA WindowEvents ==
    ASSUME history \in Histories, loaded \in SUBSET DOMAIN history,
           NEW from, NEW to
    PROVE  Within(EventsOf(Windowed(from, to)), from, to) = Within(AllEvents, from, to)
<1> DEFINE W == Windowed(from, to)
           S == {x \in loaded : RowsBy(x, from, to) # {}}
           top(s) == Max(RowsBy(s, from, to))
<1>1. ASSUME NEW s \in S
      PROVE  /\ top(s) \in 1 .. Len(history[s])
             /\ \A t \in RowsBy(s, from, to) : t <= top(s)
             /\ Events(W[s]) = {t \in Full(s) : t <= top(s)}
  <2>1. /\ IsFrame(history[s])
        /\ history[s] \in Seq({history[s][t] : t \in DOMAIN history[s]})
    BY HistoryIs
  <2>2. /\ RowsBy(s, from, to) \in SUBSET (1 .. Len(history[s]))
        /\ RowsBy(s, from, to) # {}
    BY <2>1 DEF RowsBy, IsFrame
  <2>3. IsFiniteSet(1 .. Len(history[s]))
    <3>1. 1 \in Int /\ Len(history[s]) \in Int
      BY <2>1 DEF IsFrame
    <3> QED
      BY <3>1, FS_Interval
  <2>4. IsFiniteSet(RowsBy(s, from, to)) /\ \A t \in RowsBy(s, from, to) : t \in Int
    BY <2>2, <2>3, FS_Subset
  <2>5. top(s) \in RowsBy(s, from, to) /\ \A t \in RowsBy(s, from, to) : t <= top(s)
    BY <2>2, <2>4, MaxIs
  <2>6. top(s) \in 1 .. Len(history[s])
    BY <2>2, <2>5
  <2>7. W[s] = SubSeq(history[s], 1, top(s))
    BY DEF Windowed
  <2> HIDE DEF W, top
  <2>8. /\ IsFrame(W[s]) /\ Len(W[s]) = top(s)
        /\ \A t \in 1 .. top(s) : W[s][t] = history[s][t]
    <3>1. Len(history[s]) \in Nat
      BY <2>1 DEF IsFrame
    <3> QED
      BY <2>1, <2>6, <2>7, <3>1 DEF IsFrame
  <2>9. Events(W[s]) = {t \in Events(history[s]) : t <= top(s)}
    <3>1. Len(W[s]) <= Len(history[s])
      BY <2>1, <2>6, <2>8 DEF IsFrame
    <3> QED
      BY <2>1, <2>8, <3>1, EventsOfPrefix
  <2> QED
    BY <2>5, <2>6, <2>9 DEF Full
<1>2. DOMAIN W = S
  BY DEF Windowed
<1> HIDE DEF W, top
<1>3. \A e : e \in EventsOf(W) <=> \E s \in S : e \in {s} \X Events(W[s])
  BY <1>2 DEF EventsOf
<1>4. ASSUME NEW e \in Within(EventsOf(W), from, to) PROVE e \in Within(AllEvents, from, to)
  <2>1. PICK s \in S : e \in {s} \X Events(W[s])
    BY <1>3 DEF Within
  <2>2. e \in {s} \X Full(s)
    BY <1>1, <2>1
  <2> QED
    BY <2>2 DEF Within, AllEvents
<1>5. ASSUME NEW e \in Within(AllEvents, from, to) PROVE e \in Within(EventsOf(W), from, to)
  <2>1. e \in AllEvents /\ from <= DateOfRow(e) /\ DateOfRow(e) <= to
    BY DEF Within
  <2>2. /\ e[1] \in loaded /\ e[2] \in Full(e[1]) /\ e = <<e[1], e[2]>>
        /\ e[2] \in 1 .. Len(history[e[1]])
        /\ IsFrame(history[e[1]])
    BY <2>1, EventIs
  <2>3. e[2] \in RowsBy(e[1], from, to)
    BY <2>1, <2>2 DEF RowsBy, DateOfRow, IsFrame
  <2>4. e[1] \in S
    BY <2>2, <2>3
  <2>5. e[2] \in Events(W[e[1]])
    BY <1>1, <2>2, <2>3, <2>4
  <2>6. e \in {e[1]} \X Events(W[e[1]])
    BY <2>2, <2>5
  <2> QED
    BY <1>3, <2>1, <2>4, <2>6 DEF Within
<1> QED
  BY <1>4, <1>5 DEF W

\* The events measured in a window, and that they are measured from entry.
LEMMA InWindowIs ==
    ASSUME history \in Histories, loaded \in SUBSET DOMAIN history, Horizon \in Int,
           NEW from, NEW to
    PROVE  /\ {m.event : m \in InWindow(from, to)}
                = {e \in Within(AllEvents, from, to) : Measurable(e)}
           /\ \A m \in InWindow(from, to) : MeasuresFromEntry(m)
<1>1. InWindow(from, to) = Measurements(Within(AllEvents, from, to))
  BY WindowEvents DEF InWindow
<1>2. Within(AllEvents, from, to) \in SUBSET AllEvents
  BY DEF Within
<1> QED
  BY <1>1, <1>2, MeasurementsAre

(* The sectors' counts of the measured returns add up to the sample, and    *)
(* what is missing from it are the events whose horizon is past the data.   *)
LEMMA CountsAddUp ==
    ASSUME history \in Histories, loaded \in SUBSET DOMAIN history,
           Horizon \in Horizons, Horizon \in Nat, NEW es \in SUBSET AllEvents
    PROVE  LET ms == Measurements(es)
           IN /\ Describe(ms).n = FoldFunction(+, 0, SectorCounts(ms))
              /\ Clusters(ms).n - Describe(ms).n
                    = Cardinality({m \in ms : m.entry + Horizon > Len(history[m.event[1]])})
<1> DEFINE ms == Measurements(es)
           of(m) == Sectors[m.event[1]]
           X == {of(m) : m \in ms}
           with == {m \in ms : m.returns[Horizon] # {}}
           past == {m \in ms : m.entry + Horizon > Len(history[m.event[1]])}
           A == [x \in X |-> {m \in with : of(m) = x}]
           f == SectorCounts(ms)
<1>1. IsFiniteSet(ms) /\ \A m \in ms : MeasuresFromEntry(m)
  <2>1. Horizon \in Int
    OBVIOUS
  <2> QED
    BY <2>1, MeasurementsAre
<1> HIDE DEF ms
<1>2. ASSUME NEW s \in SUBSET ms
      PROVE  SampleSize(s) = Cardinality({m \in s : m.returns[Horizon] # {}})
  BY DEF SampleSize
<1>3. IsFiniteSet(with) /\ IsFiniteSet(past)
  BY <1>1, FS_Subset
<1>4. IsFiniteSet(X)
  <2> DEFINE F == [m \in ms |-> of(m)]
  <2>1. F \in Surjection(ms, X)
    BY DEF Surjection
  <2> HIDE DEF F, X
  <2> QED
    BY <1>1, <2>1, FS_Surjection
<1>5. ASSUME NEW x \in X PROVE IsFiniteSet(A[x]) /\ f[x] = Cardinality(A[x])
  <2>1. A[x] \in SUBSET with
    OBVIOUS
  <2>2. f[x] = SampleSize({m \in ms : of(m) = x})
    BY DEF SectorCounts
  <2>3. {m \in {k \in ms : of(k) = x} : m.returns[Horizon] # {}} = A[x]
    OBVIOUS
  <2>4. f[x] = Cardinality(A[x])
    <3> DEFINE B == {m \in ms : of(m) = x}
    <3>1. B \in SUBSET ms /\ f[x] = SampleSize(B)
      BY <2>2
    <3>2. {m \in B : m.returns[Horizon] # {}} = A[x]
      BY <2>3
    <3> HIDE DEF A, B, f
    <3> QED
      BY <1>2, <3>1, <3>2
  <2> QED
    BY <1>3, <2>1, <2>4, FS_Subset
<1>6. DOMAIN f = X
  BY DEF SectorCounts
<1>7. \A c, d \in X : c # d => A[c] \cap A[d] = {}
  OBVIOUS
<1>8. UNION {A[d] : d \in X} = with
  <2>1. \A m \in with : of(m) \in X /\ m \in A[of(m)]
    OBVIOUS
  <2>2. \A d \in X : A[d] \in SUBSET with
    OBVIOUS
  <2> HIDE DEF X, A, of, with
  <2> QED
    BY <2>1, <2>2
<1>9. FoldFunction(+, 0, f) = SumFunctionOnSet(f, X)
  BY <1>6, Zenon DEF FoldFunction, SumFunctionOnSet
<1> HIDE DEF A, f, X
<1>10. SumFunctionOnSet(f, X) = Cardinality(UNION {A[d] : d \in X})
  <2>1. \A d \in X : IsFiniteSet(A[d])
    BY <1>5
  <2>2. \A d \in X : f[d] = Cardinality(A[d])
    BY <1>5
  <2> QED
    BY <1>4, <1>7, <2>1, <2>2, SumOfSizes
<1>11. Describe(ms).n = Cardinality(with)
  BY <1>2 DEF Describe
<1>12. past = ms \ with
  <2>1. ASSUME NEW m \in ms
        PROVE  m.returns[Horizon] = {} <=> m.entry + Horizon > Len(history[m.event[1]])
    <3> DEFINE frame == history[m.event[1]]
    <3>1. /\ m.event \in AllEvents
          /\ m.entry = m.event[2] + 1
          /\ m.returns[Horizon] = {m.entry + Horizon} \cap DOMAIN frame
      BY <1>1 DEF MeasuresFromEntry
    <3>2. IsFrame(frame) /\ m.event[2] \in 1 .. Len(frame)
      BY <3>1, EventIs
    <3>3. DOMAIN frame = 1 .. Len(frame) /\ Len(frame) \in Nat
      BY <3>2 DEF IsFrame
    <3> HIDE DEF frame
    <3>4. m.entry + Horizon \in Int /\ m.entry + Horizon >= 1
      BY <3>1, <3>2, <3>3
    <3> QED
      BY <3>1, <3>3, <3>4 DEF frame
  <2> QED
    BY <2>1
<1>13. Cardinality(ms) = Cardinality(with) + Cardinality(past)
  <2>1. with \cup past = ms /\ with \cap past = {}
    BY <1>12
  <2>2. Cardinality(with \cup past)
          = Cardinality(with) + Cardinality(past) - Cardinality(with \cap past)
    <3> HIDE DEF with, past
    <3> QED
      BY <1>3, FS_Union
  <2>3. Cardinality({}) = 0 /\ Cardinality(with) \in Nat /\ Cardinality(past) \in Nat
    BY <1>3, FS_EmptySet, FS_CardinalityType
  <2> HIDE DEF with, past
  <2>4. Cardinality(with \cap past) = 0
    BY <2>1, <2>3
  <2>5. Cardinality(ms) = Cardinality(with \cup past)
    BY <2>1
  <2> QED
    BY <2>2, <2>3, <2>4, <2>5
<1>14. Clusters(ms).n = Cardinality(ms)
  BY DEF Clusters
<1>15. Cardinality(with) \in Nat /\ Cardinality(past) \in Nat
  BY <1>3, FS_CardinalityType
<1> HIDE DEF with, past
<1>16. Clusters(ms).n - Describe(ms).n = Cardinality(past)
  BY <1>11, <1>13, <1>14, <1>15
<1> QED
  BY <1>8, <1>9, <1>10, <1>11, <1>16 DEF ms, f, past

-------------------------------------------------------------------------------
(* The inductive invariant                                                  *)

IsList(s) == s \in Seq({s[k] : k \in DOMAIN s})

(* The run is one of a request over a history; past its first step it has   *)
(* a configuration that loads, and nothing is read without one.             *)
Where ==
    /\ request \in Requests
    /\ history \in Histories
    /\ loaded \in SUBSET DOMAIN history
    /\ step \in {"configure", "load", "extract", "restrict", "measure", "report", "roll",
                 "evaluate", "stopped"}
    /\ config # << >> => config \in LoadConfig(request.file, request.environ, << >>)
    /\ step \notin {"configure", "stopped"} => config # << >>
    /\ config = << >> => loaded = {} /\ signals = {} /\ rows = {} /\ results = << >>

(* The events are those of the loaded histories, all of them until a range  *)
(* of dates is taken; what is measured and reported is measured of them.    *)
Studied ==
    /\ events \in SUBSET AllEvents
    /\ step = "restrict" => events = AllEvents
    /\ step \in {"configure", "load"} => events = {}
    /\ step \in {"configure", "load", "extract", "restrict", "measure"} => rows = {}
    /\ step \in {"roll", "evaluate"} => request.program # "study"
    /\ step = "report" => rows = Measurements(events)
    /\ step = "stopped" /\ request.program = "study" /\ exit # "KeyError"
          => rows = Measurements(events)
    /\ rows # {} => rows = Measurements(events)
    /\ step # "stopped" => report = << >>
    /\ report # << >> =>
          /\ Horizon \in Horizons
          /\ rows = Measurements(events)
          /\ report = [stats |-> Describe(rows), clusters |-> Clusters(rows),
                       sectors |-> SectorCounts(rows)]

\* The results so far are those of the first windows.
Walked ==
    /\ IsList(windows)
    /\ IsList(results)
    /\ step \notin {"evaluate", "stopped"} => results = << >>
    /\ step = "evaluate" => Len(results) < Len(windows)
    /\ \A k \in DOMAIN results :
          /\ k \in DOMAIN windows
          /\ results[k].train = InWindow(windows[k].trainStart, windows[k].trainEnd)
          /\ results[k].test = InWindow(windows[k].testStart, windows[k].testEnd)

RInv == Where /\ Studied /\ Walked

\* A list is a sequence with members at the numbers up to its length.
LEMMA ListIs ==
    ASSUME NEW s, IsList(s)
    PROVE  Len(s) \in Nat /\ DOMAIN s = 1 .. Len(s)
  BY DEF IsList

LEMMA ListGrows ==
    ASSUME NEW s, IsList(s), NEW x
    PROVE  /\ IsList(Append(s, x))
           /\ Len(Append(s, x)) = Len(s) + 1
           /\ DOMAIN Append(s, x) = 1 .. Len(s) + 1
           /\ \A k \in 1 .. Len(s) : Append(s, x)[k] = s[k]
           /\ Append(s, x)[Len(s) + 1] = x
<1> DEFINE A == {s[k] : k \in DOMAIN s}
           t == Append(s, x)
           B == {t[k] : k \in DOMAIN t}
<1>1. s \in Seq(A)
  BY DEF IsList
<1>2. Len(s) \in Nat /\ DOMAIN s = 1 .. Len(s) /\ \A k \in 1 .. Len(s) : s[k] \in A
  BY <1>1
<1>3. s \in Seq(A \cup {x}) /\ x \in A \cup {x}
  <2>1. A \in SUBSET (A \cup {x})
    OBVIOUS
  <2> HIDE DEF A
  <2> QED
    BY <1>1, <2>1
<1> HIDE DEF A
<1>4. /\ Len(t) = Len(s) + 1
      /\ DOMAIN t = 1 .. Len(s) + 1
      /\ \A k \in 1 .. Len(s) : t[k] = s[k]
      /\ t[Len(s) + 1] = x
      /\ t \in Seq(A \cup {x})
  BY <1>3
<1> HIDE DEF t
<1>5. t = [k \in 1 .. Len(t) |-> t[k]]
  BY <1>4
<1>6. IsList(t)
  <2>1. \A k \in 1 .. Len(t) : t[k] \in B
    BY <1>4
  <2>2. Len(t) \in Nat
    BY <1>2, <1>4
  <2> HIDE DEF B
  <2>3. [k \in 1 .. Len(t) |-> t[k]] \in Seq(B)
    BY <2>1, <2>2
  <2> QED
    BY <1>5, <2>3 DEF IsList, B
<1> QED
  BY <1>4, <1>6 DEF t

\* The horizon of a run that has a configuration is an integer.
LEMMA HorizonIs ==
    ASSUME Where, config # << >>
    PROVE  Horizon \in Int
<1>1. request.horizon \in Int
  BY ResearchAssumption DEF Where
<1>2. config["research"]["primary_research_horizon"] \in Int
  BY HorizonAssumption DEF Where
<1> QED
  BY <1>1, <1>2 DEF Horizon

\* What is measured does not change with the rest of the state.
LEMMA SameMeasures ==
    ASSUME UNCHANGED <<request, config, history>>
    PROVE  /\ \A e : Measured(e)' = Measured(e)
           /\ \A es : Measurements(es)' = Measurements(es)
           /\ Horizon' = Horizon
<1>1. Horizon' = Horizon /\ Method' = Method
  BY DEF Horizon, Method
<1>2. ASSUME NEW e PROVE Measured(e)' = Measured(e)
  <2> DEFINE frame == history[e[1]]
             entry == CHOOSE t \in EntryRow(frame, e[2]) : TRUE
  <2>1. frame' = frame /\ entry' = entry
    BY Zenon
  <2>2. Measured(e) = [event |-> e, entry |-> entry,
                       returns |-> [h \in Horizons |-> ReturnRow(frame, entry, h)],
                       excursion |-> ExcursionRows(frame, entry, Horizon, Method)]
    BY Zenon DEF Measured
  <2>3. Measured(e)' = [event |-> e, entry |-> entry',
                        returns |-> [h \in Horizons |-> ReturnRow(frame', entry', h)],
                        excursion |-> ExcursionRows(frame', entry', Horizon', Method')]
    BY Zenon DEF Measured
  <2> HIDE DEF frame, entry
  <2> QED
    BY <1>1, <2>1, <2>2, <2>3, Zenon
<1>3. ASSUME NEW es PROVE Measurements(es)' = Measurements(es)
  BY <1>2, Zenon DEF Measurements
<1> QED
  BY <1>1, <1>2, <1>3

\* Nor what a window measures, with the symbols loaded.
LEMMA SameWindows ==
    ASSUME UNCHANGED <<request, config, history, loaded>>
    PROVE  /\ AllEvents' = AllEvents
           /\ \A from, to : InWindow(from, to)' = InWindow(from, to)
<1>1. AllEvents' = AllEvents
  BY Zenon DEF AllEvents, Full
<1>2. ASSUME NEW from, NEW to PROVE InWindow(from, to)' = InWindow(from, to)
  <2>1. Windowed(from, to)' = Windowed(from, to)
    BY Zenon DEF Windowed, RowsBy
  <2>2. \A es : Within(es, from, to)' = Within(es, from, to)
    BY Zenon DEF Within, DateOfRow
  <2>3. \A es : Measurements(es)' = Measurements(es)
    BY SameMeasures
  <2> QED
    BY <2>1, <2>2, <2>3, Zenon DEF InWindow
<1> QED
  BY <1>1, <1>2

\* Nor what is reported of measurements.
LEMMA SameReports ==
    ASSUME UNCHANGED <<request, config, history>>
    PROVE  \A ms : /\ Describe(ms)' = Describe(ms)
                   /\ Clusters(ms)' = Clusters(ms)
                   /\ SectorCounts(ms)' = SectorCounts(ms)
<1>1. Horizon' = Horizon
  BY DEF Horizon
<1>2. ASSUME NEW ms PROVE SampleSize(ms)' = SampleSize(ms)
  BY <1>1, Zenon DEF SampleSize
<1>3. ASSUME NEW ms PROVE Stocks(ms)' = Stocks(ms) /\ Days(ms)' = Days(ms)
  BY Zenon DEF Stocks, Days, DateOfRow
<1>4. ASSUME NEW ms PROVE Describe(ms)' = Describe(ms)
  BY <1>2, <1>3, Zenon DEF Describe
<1>5. ASSUME NEW ms PROVE Clusters(ms)' = Clusters(ms)
  BY <1>3, Zenon DEF Clusters
<1>6. ASSUME NEW ms PROVE SectorCounts(ms)' = SectorCounts(ms)
  BY <1>2, Zenon DEF SectorCounts
<1> QED
  BY <1>4, <1>5, <1>6

\* The events of the whole histories, as the study extracts them.
LEMMA ExtractedAre == EventsOf([s \in loaded |-> history[s]]) = AllEvents
  BY DEF EventsOf, AllEvents, Full

LEMMA InitRInv == Init => RInv
<1> SUFFICES ASSUME Init PROVE RInv
  OBVIOUS
<1>1. Where
  BY DEF Init, Where
<1>2. Studied
  BY DEF Init, Studied
<1>3. Walked
  <2>1. windows = << >> /\ results = << >> /\ step = "configure"
    BY DEF Init
  <2>2. IsList(<< >>) /\ DOMAIN << >> = {}
    BY DEF IsList
  <2> QED
    BY <2>1, <2>2 DEF Walked
<1> QED
  BY <1>1, <1>2, <1>3 DEF RInv

\* A configuration that loads has sections.
LEMMA LoadedIsSome ==
    ASSUME NEW file, NEW environ, NEW cfg \in LoadConfig(file, environ, << >>)
    PROVE  cfg # << >>
<1>1. DOMAIN cfg = DOMAIN Defaults
  BY ConfigurationLoads
<1>2. "baseline" \in DOMAIN cfg
  BY <1>1, ConfigurationAssumption
<1>3. DOMAIN << >> = {}
  OBVIOUS
<1> QED
  BY <1>2, <1>3

\* With nothing loaded there are no events.
LEMMA NoEvents == loaded = {} => AllEvents = {}
  BY DEF AllEvents

LEMMA ConfigureKeeps == RInv /\ Configure => RInv'
<1> SUFFICES ASSUME RInv, Configure PROVE RInv'
  OBVIOUS
<1>0. Where /\ Studied /\ Walked
  BY DEF RInv
<1>1. /\ step = "configure"
      /\ UNCHANGED <<request, history, loaded, signals, events, rows, report, start,
                     windows, results>>
      /\ \/ /\ step' = "stopped" /\ config' = config
         \/ /\ step' = "load"
            /\ config' \in LoadConfig(request.file, request.environ, << >>)
  BY DEF Configure, Stop, Goto
<1>2. rows = {} /\ events = {} /\ report = << >> /\ results = << >>
  BY <1>0, <1>1 DEF Studied, Walked
<1>3. Where'
  BY <1>0, <1>1, LoadedIsSome DEF Where
<1>4. Studied'
  <2>1. rows' = {} /\ events' = {} /\ report' = << >> /\ step' \in {"stopped", "load"}
    BY <1>1, <1>2
  <2>2. rows' = Measurements(events)'
    BY <2>1, Zenon DEF Measurements
  <2> QED
    BY <2>1, <2>2 DEF Studied
<1>5. Walked'
  <2>1. results' = << >> /\ windows' = windows /\ DOMAIN << >> = {}
    BY <1>1, <1>2
  <2> QED
    BY <1>0, <1>1, <2>1 DEF Walked
<1> QED
  BY <1>3, <1>4, <1>5 DEF RInv

LEMMA LoadKeeps == RInv /\ Load => RInv'
<1> SUFFICES ASSUME RInv, Load PROVE RInv'
  OBVIOUS
<1>0. Where /\ Studied /\ Walked
  BY DEF RInv
<1>1. /\ step = "load"
      /\ UNCHANGED <<request, config, history, signals, events, rows, report, windows,
                     results>>
      /\ loaded' \in SUBSET DOMAIN history
      /\ step' \in {"stopped", "extract", "roll"}
      /\ step' = "extract" => request.program = "study"
      /\ step' = "roll" => request.program # "study"
  BY DEF Load, Stop, Goto
<1>2. rows = {} /\ events = {} /\ report = << >> /\ results = << >> /\ config # << >>
  BY <1>0, <1>1 DEF Studied, Walked, Where
<1>3. Where'
  BY <1>0, <1>1, <1>2 DEF Where
<1>4. Studied'
  <2>1. rows' = {} /\ events' = {} /\ report' = << >>
    BY <1>1, <1>2
  <2>2. rows' = Measurements(events)'
    BY <2>1, Zenon DEF Measurements
  <2> QED
    BY <1>1, <2>1, <2>2 DEF Studied
<1>5. Walked'
  <2>1. results' = << >> /\ windows' = windows /\ DOMAIN << >> = {}
    BY <1>1, <1>2
  <2> QED
    BY <1>0, <1>1, <2>1 DEF Walked
<1> QED
  BY <1>3, <1>4, <1>5 DEF RInv

LEMMA ExtractKeeps == RInv /\ Extract => RInv'
<1> SUFFICES ASSUME RInv, Extract PROVE RInv'
  OBVIOUS
<1>0. Where /\ Studied /\ Walked
  BY DEF RInv
<1>1. /\ step = "extract" /\ step' = "restrict"
      /\ events' = EventsOf([s \in loaded |-> history[s]])
      /\ UNCHANGED <<request, config, history, loaded, rows, report, start, windows, results>>
  BY DEF Extract, Goto
<1>2. rows = {} /\ report = << >> /\ results = << >> /\ config # << >>
  BY <1>0, <1>1 DEF Studied, Walked, Where
<1>3. Where'
  BY <1>0, <1>1, <1>2 DEF Where
<1>4. Studied'
  <2>1. events' = AllEvents'
    BY <1>1, ExtractedAre, SameWindows
  <2>2. rows' = {} /\ report' = << >>
    BY <1>1, <1>2
  <2> QED
    BY <1>1, <2>1, <2>2 DEF Studied
<1>5. Walked'
  <2>1. results' = << >> /\ windows' = windows /\ DOMAIN << >> = {}
    BY <1>1, <1>2
  <2> QED
    BY <1>0, <1>1, <2>1 DEF Walked
<1> QED
  BY <1>3, <1>4, <1>5 DEF RInv

LEMMA RestrictDatesKeeps == RInv /\ RestrictDates => RInv'
<1> SUFFICES ASSUME RInv, RestrictDates PROVE RInv'
  OBVIOUS
<1>0. Where /\ Studied /\ Walked
  BY DEF RInv
<1>1. /\ step = "restrict"
      /\ events' \in SUBSET events
      /\ \/ step' = "stopped" /\ exit' = "KeyError"
         \/ step' = "measure"
      /\ UNCHANGED <<request, config, history, loaded, rows, report, start, windows, results>>
  BY DEF RestrictDates, Goto, Stop
<1>2. rows = {} /\ report = << >> /\ results = << >> /\ config # << >>
  BY <1>0, <1>1 DEF Studied, Walked, Where
<1>3. Where'
  BY <1>0, <1>1, <1>2 DEF Where
<1>4. Studied'
  <2>1. events' \in SUBSET AllEvents'
    <3>1. AllEvents' = AllEvents
      BY <1>1, SameWindows
    <3> QED
      BY <1>0, <1>1, <3>1 DEF Studied
  <2>2. rows' = {} /\ report' = << >>
    BY <1>1, <1>2
  <2> QED
    BY <1>1, <2>1, <2>2 DEF Studied
<1>5. Walked'
  <2>1. results' = << >> /\ windows' = windows /\ DOMAIN << >> = {}
    BY <1>1, <1>2
  <2> QED
    BY <1>0, <1>1, <2>1 DEF Walked
<1> QED
  BY <1>3, <1>4, <1>5 DEF RInv

LEMMA MeasureKeeps == RInv /\ Measure => RInv'
<1> SUFFICES ASSUME RInv, Measure PROVE RInv'
  OBVIOUS
<1>0. Where /\ Studied /\ Walked
  BY DEF RInv
<1>1. /\ step = "measure" /\ step' \in {"stopped", "report"}
      /\ rows' = Measurements(events)
      /\ UNCHANGED <<request, config, history, loaded, events, report, start, windows, results>>
  BY DEF Measure, Goto, Stop
<1>2. report = << >> /\ results = << >> /\ config # << >>
  BY <1>0, <1>1 DEF Studied, Walked, Where
<1>3. Where'
  BY <1>0, <1>1, <1>2 DEF Where
<1>4. Studied'
  <2>1. events' \in SUBSET AllEvents'
    <3>1. AllEvents' = AllEvents
      BY <1>1, SameWindows
    <3> QED
      BY <1>0, <1>1, <3>1 DEF Studied
  <2>2. rows' = Measurements(events)'
    <3>1. \A es : Measurements(es)' = Measurements(es)
      BY <1>1, SameMeasures
    <3>2. events' = events
      BY <1>1
    <3>3. Measurements(events)' = Measurements(events)
      BY <3>1, <3>2, Zenon DEF Measurements
    <3> QED
      BY <1>1, <3>3
  <2>3. report' = << >>
    BY <1>1, <1>2
  <2> QED
    BY <1>1, <2>1, <2>2, <2>3 DEF Studied
<1>5. Walked'
  <2>1. results' = << >> /\ windows' = windows /\ DOMAIN << >> = {}
    BY <1>1, <1>2
  <2> QED
    BY <1>0, <1>1, <2>1 DEF Walked
<1> QED
  BY <1>3, <1>4, <1>5 DEF RInv

\* The study's part of the invariant when nothing of it changes but the step,
\* and the report is that of what was measured.
LEMMA StudiedStays ==
    ASSUME Where, Studied,
           UNCHANGED <<request, config, history, loaded, events, rows>>,
           step' = "stopped",
           step = "report" \/ rows = Measurements(events) \/ request.program # "study"
              \/ exit' = "KeyError",
           \/ report' = << >>
           \/ /\ Horizon \in Horizons /\ step = "report"
              /\ report' = [stats |-> Describe(rows), clusters |-> Clusters(rows),
                            sectors |-> SectorCounts(rows)]
    PROVE  Studied'
<1>1. AllEvents' = AllEvents
  BY SameWindows
<1>2. Measurements(events)' = Measurements(events)
  <2>1. \A es : Measurements(es)' = Measurements(es)
    BY SameMeasures
  <2>2. events' = events
    OBVIOUS
  <2> QED
    BY <2>1, <2>2, Zenon DEF Measurements
<1>3. Horizon' = Horizon
  BY SameMeasures
<1>4. /\ Describe(rows)' = Describe(rows)
      /\ Clusters(rows)' = Clusters(rows)
      /\ SectorCounts(rows)' = SectorCounts(rows)
  <2>1. \A ms : /\ Describe(ms)' = Describe(ms)
                /\ Clusters(ms)' = Clusters(ms)
                /\ SectorCounts(ms)' = SectorCounts(ms)
    BY SameReports
  <2>2. rows' = rows
    OBVIOUS
  <2>3. Describe(rows)' = Describe(rows)
    BY <2>1, <2>2, Zenon DEF Describe
  <2>4. Clusters(rows)' = Clusters(rows)
    BY <2>1, <2>2, Zenon DEF Clusters
  <2>5. SectorCounts(rows)' = SectorCounts(rows)
    BY <2>1, <2>2, Zenon DEF SectorCounts
  <2> QED
    BY <2>3, <2>4, <2>5
<1>5. /\ events' \in SUBSET AllEvents'
      /\ rows' # {} => rows' = Measurements(events)'
  BY <1>1, <1>2 DEF Studied
<1>6. request'.program = "study" /\ exit' # "KeyError" => rows' = Measurements(events)'
  BY <1>2 DEF Studied
<1>7. report' # << >> =>
          /\ Horizon' \in Horizons
          /\ rows' = Measurements(events)'
          /\ report' = [stats |-> Describe(rows)', clusters |-> Clusters(rows)',
                        sectors |-> SectorCounts(rows)']
  BY <1>2, <1>3, <1>4 DEF Studied
<1> QED
  BY <1>5, <1>6, <1>7 DEF Studied

LEMMA ReportKeeps == RInv /\ Report => RInv'
<1> SUFFICES ASSUME RInv, Report PROVE RInv'
  OBVIOUS
<1>0. Where /\ Studied /\ Walked
  BY DEF RInv
<1>1. /\ step = "report" /\ step' = "stopped"
      /\ UNCHANGED <<request, config, history, loaded, events, rows, windows, results>>
      /\ \/ /\ Horizon \in Horizons
            /\ report' = [stats |-> Describe(rows), clusters |-> Clusters(rows),
                          sectors |-> SectorCounts(rows)]
         \/ report' = report
  BY DEF Report, Stop
<1>2. report = << >> /\ results = << >> /\ config # << >>
  BY <1>0, <1>1 DEF Studied, Walked, Where
<1>3. Where'
  BY <1>0, <1>1, <1>2 DEF Where
<1>4. Studied'
  BY <1>0, <1>1, <1>2, StudiedStays
<1>5. Walked'
  <2>1. results' = << >> /\ windows' = windows /\ DOMAIN << >> = {}
    BY <1>1, <1>2
  <2> QED
    BY <1>0, <1>1, <2>1 DEF Walked
<1> QED
  BY <1>3, <1>4, <1>5 DEF RInv

\* A program that walks has no events and measures none.
LEMMA WalkStudies ==
    ASSUME Where, Studied, step \in {"roll", "evaluate"},
           UNCHANGED <<request, config, history, loaded, events, rows, report>>,
           step' \in {"roll", "evaluate", "stopped"}
    PROVE  Studied'
<1>1. AllEvents' = AllEvents
  BY SameWindows
<1>2. request.program # "study" /\ report = << >>
  BY DEF Studied
<1>3. Measurements(events)' = Measurements(events)
  <2>1. \A es : Measurements(es)' = Measurements(es)
    BY SameMeasures
  <2>2. events' = events
    OBVIOUS
  <2> QED
    BY <2>1, <2>2, Zenon DEF Measurements
<1> QED
  BY <1>1, <1>2, <1>3 DEF Studied

LEMMA RollKeeps == RInv /\ Roll => RInv'
<1> SUFFICES ASSUME RInv, Roll PROVE RInv'
  OBVIOUS
<1>0. Where /\ Studied /\ Walked
  BY DEF RInv
<1>1. /\ step = "roll"
      /\ UNCHANGED <<request, config, history, loaded, signals, events, rows, report, results>>
      /\ \/ /\ step' = "stopped" /\ windows' = windows
         \/ /\ step' = "evaluate" /\ windows' = windows /\ windows # << >>
         \/ /\ step' = "roll" /\ windows' = Append(windows, Window(start))
  BY DEF Roll, Goto, Stop
<1>2. results = << >> /\ config # << >>
  BY <1>0, <1>1 DEF Walked, Where
<1>3. Where'
  BY <1>0, <1>1, <1>2 DEF Where
<1>4. Studied'
  <2>1. /\ UNCHANGED <<request, config, history, loaded, events, rows, report>>
        /\ step \in {"roll", "evaluate"} /\ step' \in {"roll", "evaluate", "stopped"}
    BY <1>1
  <2> QED
    BY <1>0, <2>1, WalkStudies
<1>5. Walked'
  <2>1. IsList(windows')
    <3>1. IsList(windows)
      BY <1>0 DEF Walked
    <3>2. IsList(Append(windows, Window(start)))
      BY <3>1, ListGrows
    <3> QED
      BY <1>1, <3>1, <3>2
  <2>2. results' = << >> /\ DOMAIN << >> = {} /\ Len(<< >>) = 0 /\ IsList(<< >>)
    BY <1>1, <1>2 DEF IsList
  <2>3. step' = "evaluate" => Len(results') < Len(windows')
    <3>1. windows \in Seq({windows[k] : k \in DOMAIN windows})
      BY <1>0 DEF Walked, IsList
    <3>2. windows # << >> => Len(windows) > 0
      BY <3>1
    <3> QED
      BY <1>1, <2>2, <3>2
  <2>4. IsList(windows)' /\ IsList(results)'
    BY <2>1, <2>2
  <2> QED
    BY <1>1, <2>2, <2>3, <2>4 DEF Walked
<1> QED
  BY <1>3, <1>4, <1>5 DEF RInv

\* What a listed window holds stays while it is listed.
LEMMA SameWindowOf ==
    ASSUME UNCHANGED <<request, config, history, loaded, windows>>
    PROVE  \A k : /\ InWindow(windows[k].trainStart, windows[k].trainEnd)'
                       = InWindow(windows[k].trainStart, windows[k].trainEnd)
                  /\ InWindow(windows[k].testStart, windows[k].testEnd)'
                       = InWindow(windows[k].testStart, windows[k].testEnd)
<1>1. ASSUME NEW k
      PROVE  InWindow(windows[k].trainStart, windows[k].trainEnd)'
               = InWindow(windows[k].trainStart, windows[k].trainEnd)
  <2> DEFINE a == windows[k].trainStart
             b == windows[k].trainEnd
  <2>1. a' = a /\ b' = b
    OBVIOUS
  <2>2. Windowed(a, b)' = Windowed(a, b)
    BY <2>1, Zenon DEF Windowed, RowsBy
  <2>3. \A es : Within(es, a, b)' = Within(es, a, b)
    BY <2>1, Zenon DEF Within, DateOfRow
  <2>4. \A es : Measurements(es)' = Measurements(es)
    BY SameMeasures
  <2> QED
    BY <2>2, <2>3, <2>4, Zenon DEF InWindow
<1>2. ASSUME NEW k
      PROVE  InWindow(windows[k].testStart, windows[k].testEnd)'
               = InWindow(windows[k].testStart, windows[k].testEnd)
  <2> DEFINE a == windows[k].testStart
             b == windows[k].testEnd
  <2>1. a' = a /\ b' = b
    OBVIOUS
  <2>2. Windowed(a, b)' = Windowed(a, b)
    BY <2>1, Zenon DEF Windowed, RowsBy
  <2>3. \A es : Within(es, a, b)' = Within(es, a, b)
    BY <2>1, Zenon DEF Within, DateOfRow
  <2>4. \A es : Measurements(es)' = Measurements(es)
    BY SameMeasures
  <2> QED
    BY <2>2, <2>3, <2>4, Zenon DEF InWindow
<1> QED
  BY <1>1, <1>2

LEMMA EvaluateKeeps == RInv /\ Evaluate => RInv'
<1> SUFFICES ASSUME RInv, Evaluate PROVE RInv'
  OBVIOUS
<1>0. Where /\ Studied /\ Walked
  BY DEF RInv
<1> DEFINE n == Len(results) + 1
           w == windows[n]
           train == InWindow(w.trainStart, w.trainEnd)
           test == InWindow(w.testStart, w.testEnd)
           r == [train |-> train, test |-> test,
                 trainN |-> SampleSize(train), testN |-> SampleSize(test)]
<1>1. /\ step = "evaluate"
      /\ UNCHANGED <<request, config, history, loaded, signals, events, rows, report, windows>>
      /\ results' = Append(results, r)
      /\ IF Len(results') = Len(windows) THEN step' = "stopped" ELSE step' = "evaluate"
  BY DEF Evaluate, Goto, Stop
<1>2. config # << >>
  BY <1>0, <1>1 DEF Where
<1>3. r.train = train /\ r.test = test
  OBVIOUS
<1> HIDE DEF r
<1>4. Where'
  BY <1>0, <1>1, <1>2 DEF Where
<1>5. Studied'
  <2>1. /\ UNCHANGED <<request, config, history, loaded, events, rows, report>>
        /\ step \in {"roll", "evaluate"} /\ step' \in {"roll", "evaluate", "stopped"}
    BY <1>1
  <2> QED
    BY <1>0, <2>1, WalkStudies
<1>6. /\ IsList(results) /\ IsList(windows) /\ Len(results) < Len(windows)
      /\ Len(results) \in Nat /\ Len(windows) \in Nat
      /\ DOMAIN results = 1 .. Len(results) /\ DOMAIN windows = 1 .. Len(windows)
  BY <1>0, <1>1, ListIs DEF Walked
<1> HIDE DEF n
<1>6a. n = Len(results) + 1
  BY DEF n
<1>6b. /\ IsList(Append(results, r))
       /\ Len(Append(results, r)) = n /\ DOMAIN Append(results, r) = 1 .. n
       /\ \A k \in 1 .. Len(results) : Append(results, r)[k] = results[k]
       /\ Append(results, r)[n] = r
  <2>1. IsList(results)
    BY <1>6
  <2>2. /\ IsList(Append(results, r))
        /\ Len(Append(results, r)) = Len(results) + 1
        /\ DOMAIN Append(results, r) = 1 .. Len(results) + 1
        /\ \A k \in 1 .. Len(results) : Append(results, r)[k] = results[k]
        /\ Append(results, r)[Len(results) + 1] = r
    BY <2>1, ListGrows, Zenon
  <2> QED
    BY <1>6a, <2>2, Zenon
<1>7. /\ IsList(results')
      /\ Len(results') = n /\ DOMAIN results' = 1 .. n
      /\ \A k \in 1 .. Len(results) : results'[k] = results[k]
      /\ results'[n] = r
  BY <1>1, <1>6b, Zenon
<1>8. \A from, to : InWindow(from, to)' = InWindow(from, to)
  BY <1>1, SameWindows
<1>9. ASSUME NEW k \in DOMAIN results'
      PROVE  /\ k \in DOMAIN windows'
             /\ results'[k].train = InWindow(windows'[k].trainStart, windows'[k].trainEnd)
             /\ results'[k].test = InWindow(windows'[k].testStart, windows'[k].testEnd)
  <2>1. windows' = windows
    BY <1>1
  <2>2. CASE k = n
    <3>1. n \in DOMAIN windows
      BY <1>6, <1>6a
    <3> QED
      BY <1>3, <1>7, <2>1, <2>2, <3>1
  <2>3. CASE k # n
    <3>1. k \in DOMAIN results /\ results'[k] = results[k]
      BY <1>6, <1>6a, <1>7, <2>3
    <3> QED
      BY <1>0, <2>1, <3>1 DEF Walked
  <2> QED
    BY <2>2, <2>3
<1>10. Walked'
  <2>1. IsList(windows)' /\ IsList(results)'
    <3>1. windows' = windows
      BY <1>1
    <3>2. IsList(windows') /\ IsList(results')
      BY <1>6, <1>7, <3>1
    <3> QED
      BY <3>2
  <2>2. step' = "evaluate" => Len(results') < Len(windows')
    <3>1. Len(results) + 1 # Len(windows) => Len(results) + 1 < Len(windows)
      <4>1. \A x, y \in Nat : x < y /\ x + 1 # y => x + 1 < y
        OBVIOUS
      <4>2. Len(results) \in Nat /\ Len(windows) \in Nat /\ Len(results) < Len(windows)
        BY <1>6
      <4> QED
        BY <4>1, <4>2, Zenon
    <3>2. step' = "evaluate" => Len(results') # Len(windows) /\ windows' = windows
      BY <1>1
    <3> QED
      BY <1>6, <1>6a, <1>7, <3>1, <3>2
  <2>3. ASSUME NEW k \in DOMAIN results'
        PROVE  /\ results'[k].train = InWindow(windows[k].trainStart, windows[k].trainEnd)'
               /\ results'[k].test = InWindow(windows[k].testStart, windows[k].testEnd)'
    <3>1. windows' = windows
      BY <1>1
    <3>2. /\ InWindow(windows[k].trainStart, windows[k].trainEnd)'
               = InWindow(windows[k].trainStart, windows[k].trainEnd)
          /\ InWindow(windows[k].testStart, windows[k].testEnd)'
               = InWindow(windows[k].testStart, windows[k].testEnd)
      BY <1>1, <3>1, SameWindowOf, Zenon
    <3> QED
      BY <1>9, <3>1, <3>2, Zenon
  <2> QED
    BY <1>1, <1>9, <2>1, <2>2, <2>3 DEF Walked
<1> QED
  BY <1>4, <1>5, <1>10 DEF RInv


LEMMA StutterKeeps == RInv /\ UNCHANGED vars => RInv'
<1> SUFFICES ASSUME RInv, UNCHANGED vars PROVE RInv'
  OBVIOUS
<1>0. Where /\ Studied /\ Walked
  BY DEF RInv
<1>1. UNCHANGED <<request, config, history, loaded, signals, events, rows, report, windows,
                  results, step, exit>>
  BY DEF vars
<1>2. Where'
  BY <1>0, <1>1 DEF Where
<1>3. Studied'
  <2>1. AllEvents' = AllEvents
    BY <1>1, SameWindows
  <2>2. Measurements(events)' = Measurements(events) /\ Horizon' = Horizon
    <3>1. (\A es : Measurements(es)' = Measurements(es)) /\ Horizon' = Horizon
      BY <1>1, SameMeasures
    <3>2. events' = events
      BY <1>1
    <3> QED
      BY <3>1, <3>2, Zenon DEF Measurements
  <2>3. /\ Describe(rows)' = Describe(rows)
        /\ Clusters(rows)' = Clusters(rows)
        /\ SectorCounts(rows)' = SectorCounts(rows)
    <3>1. \A ms : /\ Describe(ms)' = Describe(ms)
                  /\ Clusters(ms)' = Clusters(ms)
                  /\ SectorCounts(ms)' = SectorCounts(ms)
      BY <1>1, SameReports
    <3>2. rows' = rows
      BY <1>1
    <3>3. Describe(rows)' = Describe(rows)
      BY <3>1, <3>2, Zenon DEF Describe
    <3>4. Clusters(rows)' = Clusters(rows)
      BY <3>1, <3>2, Zenon DEF Clusters
    <3>5. SectorCounts(rows)' = SectorCounts(rows)
      BY <3>1, <3>2, Zenon DEF SectorCounts
    <3> QED
      BY <3>3, <3>4, <3>5
  <2> QED
    BY <1>0, <1>1, <2>1, <2>2, <2>3 DEF Studied
<1>4. Walked'
  <2>1. windows' = windows /\ results' = results /\ step' = step
    BY <1>1
  <2>2. \A k : /\ InWindow(windows[k].trainStart, windows[k].trainEnd)'
                    = InWindow(windows[k].trainStart, windows[k].trainEnd)
               /\ InWindow(windows[k].testStart, windows[k].testEnd)'
                    = InWindow(windows[k].testStart, windows[k].testEnd)
    BY <1>1, SameWindowOf
  <2>3. IsList(windows)' /\ IsList(results)'
    BY <1>0, <2>1 DEF Walked, IsList
  <2> QED
    BY <1>0, <2>1, <2>2, <2>3 DEF Walked
<1> QED
  BY <1>2, <1>3, <1>4 DEF RInv

(* Every reachable state is where the study and the walk have it: RInv is   *)
(* inductive.                                                               *)
THEOREM ResearchInductive == Spec => []RInv
<1>1. Init => RInv
  BY InitRInv
<1>2. RInv /\ [Next]_vars => RInv'
  BY ConfigureKeeps, LoadKeeps, ExtractKeeps, RestrictDatesKeeps, MeasureKeeps, ReportKeeps,
     RollKeeps, EvaluateKeeps, StutterKeeps DEF Next
<1> QED
  BY <1>1, <1>2, PTL DEF Spec


-------------------------------------------------------------------------------
(* The properties                                                          *)

\* The loaded configuration has each field's value from the last layer.
LEMMA RInvConfiguration == RInv => ConfigurationLayered
<1> SUFFICES ASSUME RInv PROVE ConfigurationLayered
  OBVIOUS
<1> DEFINE layers == Layers(request.file, request.environ, << >>)
           naming(s, f) == {k \in DOMAIN layers : s \in DOMAIN layers[k] /\ f \in DOMAIN layers[k][s]}
<1>1. Where
  BY DEF RInv
<1>2. config = << >> => loaded = {} /\ signals = {} /\ rows = {} /\ results = << >>
  BY <1>1 DEF Where
<1>3. ASSUME config # << >>
      PROVE  /\ \A s \in DOMAIN Defaults : \A f \in DOMAIN Defaults[s] :
                   config[s][f] = IF naming(s, f) = {} THEN Defaults[s][f]
                                  ELSE layers[Max(naming(s, f))][s][f]
             /\ \A k \in DOMAIN layers : \A s \in DOMAIN layers[k] :
                   DOMAIN layers[k][s] \subseteq DOMAIN Defaults[s]
             /\ Method \in {"next_open", "next_close"}
  <2>1. config \in LoadConfig(request.file, request.environ, << >>)
    BY <1>1, <1>3 DEF Where
  <2>2. /\ \A s \in DOMAIN Defaults : \A f \in DOMAIN Defaults[s] :
              config[s][f] = IF Naming(layers, s, f) = {} THEN Defaults[s][f]
                             ELSE layers[Max(Naming(layers, s, f))][s][f]
        /\ \A k \in DOMAIN layers : Known(layers[k])
        /\ Valid(config)
    BY <2>1, ConfigurationLoads
  <2>3. \A s, f : Naming(layers, s, f) = naming(s, f)
    BY Zenon DEF Naming
  <2>4. \A k \in DOMAIN layers : \A s \in DOMAIN layers[k] :
           DOMAIN layers[k][s] \subseteq DOMAIN Defaults[s]
    BY <2>2 DEF Known
  <2>5. Method \in {"next_open", "next_close"}
    BY <2>2, Zenon DEF Valid, Method
  <2> HIDE DEF layers, naming
  <2>6. \A s \in DOMAIN Defaults : \A f \in DOMAIN Defaults[s] :
           config[s][f] = IF naming(s, f) = {} THEN Defaults[s][f]
                          ELSE layers[Max(naming(s, f))][s][f]
    BY <2>2, <2>3
  <2> QED
    BY <2>4, <2>5, <2>6
<1> QED
  BY <1>2, <1>3, Zenon DEF ConfigurationLayered

(* Whatever the file and the environment name, each field has the value of  *)
(* the last layer that names it and the default when none does, and nothing *)
(* is read before the layers are known to name fields only and the entry    *)
(* method to be one of the two (load_config, config.py).                    *)
THEOREM ConfigurationIsLayered == Spec => []ConfigurationLayered
  BY ResearchInductive, RInvConfiguration, PTL

LEMMA RInvEvents == RInv => EventsIndependent
<1> SUFFICES ASSUME RInv, step = "restrict", NEW s \in loaded
    PROVE  LET near(t) == {u \in Full(s) : /\ u < t
                                            /\ DayNumber(history[s], t)
                                                 - DayNumber(history[s], u) < Cooldown}
            IN /\ \A t \in SignalRows(history[s]) \ Full(s) :
                     near(t) # {} /\ ~Fresh(history[s], t)
               /\ \A t \in Full(s) : near(t) # {} => Fresh(history[s], t)
               /\ {e \in events : e[1] = s} = {s} \X Full(s)
  BY DEF EventsIndependent
<1> DEFINE frame == history[s]
<1>1. IsFrame(frame)
  <2>1. history \in Histories /\ s \in DOMAIN history
    BY DEF RInv, Where
  <2> QED
    BY <2>1, HistoryIs
<1>2. \A t \in SignalRows(frame) :
         /\ t \notin Full(s) => Near(frame, t) # {} /\ ~Fresh(frame, t)
         /\ t \in Full(s) /\ Near(frame, t) # {} => Fresh(frame, t)
  BY <1>1, EventsSpaced DEF Full
<1>3. \A t \in Full(s) : t \in SignalRows(frame)
  BY DEF Full, Events
<1>4. {e \in events : e[1] = s} = {s} \X Full(s)
  <2>1. events = AllEvents
    BY DEF RInv, Studied
  <2>2. \A e : e \in AllEvents <=> \E x \in loaded : e \in {x} \X Full(x)
    BY DEF AllEvents
  <2>3. \A x : \A e \in {x} \X Full(x) : e[1] = x
    OBVIOUS
  <2> QED
    BY <2>1, <2>2, <2>3
<1> QED
  BY <1>2, <1>3, <1>4, Zenon DEF Near, Full

(* Of a security's signal days the study keeps every one that has no event  *)
(* within the cooldown before it and every fresh breakout, and no other:    *)
(* for every history and every cooldown (extract_independent_events).       *)
THEOREM StudyEventsIndependent == Spec => []EventsIndependent
  BY ResearchInductive, RInvEvents, PTL

LEMMA RInvWindows == RInv => WindowsKeepEvents
<1> SUFFICES ASSUME RInv, NEW k \in DOMAIN results
    PROVE  LET all == UNION {{s} \X Full(s) : s \in loaded}
               sample(es) == {e \in es : EntryRow(history[e[1]], e[2]) # {}}
           IN /\ {m.event : m \in results[k].test}
                   = sample(Within(all, windows[k].testStart, windows[k].testEnd))
              /\ {m.event : m \in results[k].train}
                   = sample(Within(all, windows[k].trainStart, windows[k].trainEnd))
  BY Zenon DEF WindowsKeepEvents
<1>1. /\ history \in Histories /\ loaded \in SUBSET DOMAIN history
      /\ config # << >>
      /\ Where
  <2>1. Where /\ Walked
    BY DEF RInv
  <2>2. results # << >>
    OBVIOUS
  <2> QED
    BY <2>1, <2>2 DEF Where
<1>2. Horizon \in Int
  BY <1>1, HorizonIs
<1>3. /\ results[k].train = InWindow(windows[k].trainStart, windows[k].trainEnd)
      /\ results[k].test = InWindow(windows[k].testStart, windows[k].testEnd)
  BY DEF RInv, Walked
<1>4. \A from, to : {m.event : m \in InWindow(from, to)}
                      = {e \in Within(AllEvents, from, to) : Measurable(e)}
  BY <1>1, <1>2, InWindowIs
<1> QED
  BY <1>3, <1>4, Zenon DEF Measurable, AllEvents

(* The events every train and test window measures are those the whole      *)
(* history has on its dates, for every history, every cooldown and all      *)
(* lengths of the windows (_events_and_forward_returns_in_window).          *)
THEOREM WalkKeepsEvents == Spec => []WindowsKeepEvents
  BY ResearchInductive, RInvWindows, PTL

LEMMA RInvMeasured == RInv => MeasuredFromEntry
<1> SUFFICES ASSUME RInv PROVE MeasuredFromEntry
  OBVIOUS
<1> DEFINE measured == rows \cup UNION {results[k].train \cup results[k].test :
                                          k \in DOMAIN results}
           reads(m) == m.excursion \cup UNION {m.returns[h] : h \in Horizons}
<1>0. Where /\ Studied /\ Walked /\ history \in Histories /\ loaded \in SUBSET DOMAIN history
  BY DEF RInv, Where
<1>1. config # << >> => Horizon \in Int
  BY <1>0, HorizonIs
<1>2. events \in SUBSET AllEvents
  BY <1>0 DEF Studied
<1>3. ASSUME NEW m \in measured PROVE MeasuresFromEntry(m)
  <2>1. CASE m \in rows
    <3>1. config # << >> /\ m \in Measurements(events)
      BY <1>0, <2>1 DEF Where, Studied
    <3> QED
      BY <1>0, <1>1, <1>2, <3>1, MeasurementsAre
  <2>2. CASE m \notin rows
    <3>1. PICK k \in DOMAIN results : m \in results[k].train \cup results[k].test
      BY <2>2
    <3>2. config # << >>
      <4>1. results # << >>
        BY <3>1
      <4> QED
        BY <1>0, <4>1 DEF Where
    <3>3. \E from, to : m \in InWindow(from, to)
      BY <1>0, <3>1 DEF Walked
    <3> QED
      BY <1>0, <1>1, <3>2, <3>3, InWindowIs
  <2> QED
    BY <2>1, <2>2
<1>4. ASSUME NEW m \in measured, NEW t \in reads(m)
      PROVE  /\ t > m.event[2] /\ t \in DOMAIN history[m.event[1]]
             /\ Method = "next_close" => t > m.event[2] + 1
  <2>1. MeasuresFromEntry(m)
    BY <1>3
  <2>2. /\ m.event \in AllEvents
        /\ m.entry = m.event[2] + 1
        /\ \A h \in Horizons : m.returns[h]
                                 = {m.entry + h} \cap DOMAIN history[m.event[1]]
        /\ \A x \in m.excursion : /\ x \in DOMAIN history[m.event[1]] /\ x > m.event[2]
                                  /\ Method = "next_close" => x > m.event[2] + 1
    BY <2>1 DEF MeasuresFromEntry
  <2>3. m.event[2] \in Nat
    <3>1. m.event[2] \in 1 .. Len(history[m.event[1]]) /\ IsFrame(history[m.event[1]])
      BY <1>0, <2>2, EventIs
    <3> QED
      BY <3>1 DEF IsFrame
  <2>4. CASE t \in m.excursion
    BY <2>2, <2>4
  <2>5. CASE t \notin m.excursion
    <3>1. PICK h \in Horizons : t \in m.returns[h]
      BY <2>5
    <3>2. h \in Nat \ {0}
      BY ResearchAssumption
    <3>3. t = m.event[2] + 1 + h /\ t \in DOMAIN history[m.event[1]]
      BY <2>2, <3>1
    <3> QED
      BY <2>3, <3>2, <3>3
  <2> QED
    BY <2>4, <2>5
<1>5. ASSUME step \in {"report", "stopped"}, request.program = "study", exit # "KeyError"
      PROVE  /\ Cardinality(rows) = Cardinality({m.event : m \in rows})
             /\ \A e \in events \ {m.event : m \in rows} : e[2] = Len(history[e[1]])
  <2>1. rows = Measurements(events)
    BY <1>0, <1>5 DEF Studied
  <2>2. CASE config # << >>
    <3>1. /\ {m.event : m \in rows} = {e \in events : Measurable(e)}
          /\ Cardinality(rows) = Cardinality({m.event : m \in rows})
      BY <1>0, <1>1, <1>2, <2>1, <2>2, MeasurementsAre
    <3>2. ASSUME NEW e \in events, ~Measurable(e) PROVE e[2] = Len(history[e[1]])
      <4>1. /\ e[2] \in 1 .. Len(history[e[1]]) /\ IsFrame(history[e[1]])
        BY <1>0, <1>2, EventIs
      <4>2. e[2] + 1 \notin DOMAIN history[e[1]]
        BY <3>2 DEF Measurable, EntryRow
      <4> QED
        BY <4>1, <4>2 DEF IsFrame
    <3> QED
      BY <3>1, <3>2
  <2>3. CASE config = << >>
    <3>1. loaded = {} /\ rows = {}
      BY <1>0, <2>3 DEF Where
    <3>2. events = {}
      BY <1>2, <3>1, NoEvents
    <3>3. {m.event : m \in rows} = {}
      BY <3>1
    <3> QED
      BY <3>1, <3>2, <3>3
  <2> QED
    BY <2>2, <2>3
<1>6. ASSUME report # << >>
      PROVE  /\ report.stats.n = FoldFunction(+, 0, report.sectors)
             /\ report.clusters.n - report.stats.n
                  = Cardinality({m \in rows : m.entry + Horizon
                                                > Len(history[m.event[1]])})
  <2>1. /\ Horizon \in Horizons /\ rows = Measurements(events)
        /\ report = [stats |-> Describe(rows), clusters |-> Clusters(rows),
                     sectors |-> SectorCounts(rows)]
    BY <1>0, <1>6 DEF Studied
  <2>2. Horizon \in Nat
    BY <2>1, ResearchAssumption
  <2>3. /\ Describe(rows).n = FoldFunction(+, 0, SectorCounts(rows))
        /\ Clusters(rows).n - Describe(rows).n
              = Cardinality({m \in rows : m.entry + Horizon > Len(history[m.event[1]])})
    BY <1>0, <1>2, <2>1, <2>2, CountsAddUp
  <2>4. report.stats = Describe(rows) /\ report.clusters = Clusters(rows)
        /\ report.sectors = SectorCounts(rows)
    BY <2>1
  <2> QED
    BY <2>3, <2>4, Zenon
<1> HIDE DEF measured, reads
<1>7. \A m \in measured : \A t \in reads(m) :
         /\ t > m.event[2] /\ t \in DOMAIN history[m.event[1]]
         /\ Method = "next_close" => t > m.event[2] + 1
  BY <1>4
<1> QED
  BY <1>5, <1>6, <1>7, Zenon DEF MeasuredFromEntry, measured, reads

(* No figure of the study or of a window reads a bar before the position    *)
(* was entered, for every horizon, history and entry method; every event    *)
(* with a next bar is measured once, and the printed counts add up to the   *)
(* sample (resolve_entry, calculate_mfe_mae, describe_returns,              *)
(* sector_summary).                                                         *)
THEOREM MeasuredFromEntryOn == Spec => []MeasuredFromEntry
  BY ResearchInductive, RInvMeasured, PTL


-------------------------------------------------------------------------------
(* Dates and the windows over them (WalkForward)                           *)

\* Months since the year zero.
MonthOf(date) == 12 * Year(date) + Month(date) - 1

\* The dates, and the days of the year before them.
IsDay(d) == d \in Nat /\ Month(d) \in 1 .. 12 /\ Day(d) \in 1 .. DaysIn(Year(d), Month(d))

LEMMA DaysInIs ==
    ASSUME NEW y, NEW m
    PROVE  DaysIn(y, m) \in 28 .. 31
  BY DEF DaysIn

LEMMA Quotient ==
    ASSUME NEW k \in Nat \ {0}, NEW x \in Nat
    PROVE  x \div k \in Nat /\ k * (x \div k) <= x /\ x < k * (x \div k) + k
  OBVIOUS

LEMMA QuotientIs ==
    ASSUME NEW k \in Nat \ {0}, NEW q \in Nat, NEW r \in 0 .. k - 1
    PROVE  (k * q + r) \div k = q /\ (k * q + r) % k = r
  OBVIOUS
LEMMA Remainder ==
    ASSUME NEW k \in Nat \ {0}, NEW x \in Nat
    PROVE  \E q \in Nat, r \in 0 .. k - 1 : x = k * q + r /\ x \div k = q /\ x % k = r
<1> DEFINE q == x \div k
           r == x - k * q
<1>1. q \in Nat /\ k * q <= x /\ x < k * q + k
  BY Quotient
<1> HIDE DEF q
<1>2. k * q \in Nat
  BY <1>1
<1>3. r \in 0 .. k - 1 /\ x = k * q + r
  BY <1>1, <1>2
<1> HIDE DEF r
<1>4. (k * q + r) % k = r
  BY <1>1, <1>3, QuotientIs, Zenon
<1>5. x % k = r
  <2>1. x = k * q + r
    BY <1>3
  <2> QED
    BY <1>4, <2>1
<1> QED
  BY <1>1, <1>3, <1>5 DEF q

LEMMA Quotients ==
    ASSUME NEW x \in Nat
    PROVE  x \div 10000 = (x \div 100) \div 100
<1> DEFINE a == x \div 100
           b == a \div 100
<1>1. a \in Nat /\ 100 * a <= x /\ x < 100 * a + 100
  OBVIOUS
<1>2. b \in Nat /\ 100 * b <= a /\ a < 100 * b + 100
  BY <1>1
<1> HIDE DEF a, b
<1>3. 10000 * b <= x /\ x < 10000 * b + 10000
  BY <1>1, <1>2
<1>4. PICK r \in 0 .. 9999 : x = 10000 * b + r
  BY <1>1, <1>2, <1>3
<1>5. x \div 10000 = b
  BY <1>2, <1>4
<1> QED
  BY <1>5 DEF a, b

LEMMA DateOfIs ==
    ASSUME NEW y \in Nat, NEW m \in 1 .. 12, NEW d \in 1 .. 31
    PROVE  /\ DateOf(y, m, d) \in Nat
           /\ Year(DateOf(y, m, d)) = y
           /\ Month(DateOf(y, m, d)) = m
           /\ Day(DateOf(y, m, d)) = d
<1> DEFINE x == DateOf(y, m, d)
           q == 100 * y + m
<1>1. q \in Nat /\ x = 100 * q + d /\ d \in 0 .. 99 /\ x \in Nat
  BY DEF DateOf
<1>2. x \div 100 = q /\ x % 100 = d
  <2> HIDE DEF x, q
  <2>1. (100 * q + d) \div 100 = q /\ (100 * q + d) % 100 = d
    BY <1>1, QuotientIs
  <2> QED
    BY <1>1, <2>1
<1>3. q \div 100 = y /\ q % 100 = m
  <2>1. m \in 0 .. 99
    OBVIOUS
  <2> QED
    BY <2>1, QuotientIs
<1> HIDE DEF x, q
<1>4. x \div 10000 = y
  BY <1>1, <1>2, <1>3, Quotients
<1> QED
  BY <1>1, <1>2, <1>3, <1>4 DEF Year, Month, Day, x

\* A day is its year, month and day of the month.
LEMMA DayIs ==
    ASSUME NEW x, IsDay(x)
    PROVE  /\ x \in Nat /\ Year(x) \in Nat /\ Month(x) \in 1 .. 12 /\ Day(x) \in 1 .. 31
           /\ x = 10000 * Year(x) + 100 * Month(x) + Day(x)
           /\ MonthOf(x) \in Nat
           /\ Year(x) = MonthOf(x) \div 12 /\ Month(x) = (MonthOf(x) % 12) + 1
<1>1. DaysIn(Year(x), Month(x)) \in 28 .. 31
  BY DaysInIs
<1>2. x \in Nat /\ Month(x) \in 1 .. 12 /\ Day(x) \in 1 .. 31
  BY <1>1 DEF IsDay
<1>3. PICK q \in Nat, d \in 0 .. 99 : x = 100 * q + d /\ x \div 100 = q /\ x % 100 = d
  BY <1>2, Remainder
<1>4. PICK y \in Nat, m \in 0 .. 99 : q = 100 * y + m /\ q \div 100 = y /\ q % 100 = m
  BY Remainder
<1>5. Day(x) = d /\ Month(x) = m /\ Year(x) = y
  BY <1>2, <1>3, <1>4, Quotients DEF Year, Month, Day
<1>6. x = 10000 * y + 100 * m + d
  BY <1>3, <1>4
<1> DEFINE n == MonthOf(x)
<1>7. m \in 1 .. 12 /\ n = 12 * y + (m - 1) /\ m - 1 \in 0 .. 11
  BY <1>2, <1>5 DEF MonthOf
<1>8. n \div 12 = y /\ n % 12 = m - 1
  BY <1>7, QuotientIs
<1>9. n \in Nat
  BY <1>7
<1> HIDE DEF n
<1>10. Year(x) = n \div 12 /\ Month(x) = (n % 12) + 1
  <2>1. m - 1 + 1 = m
    OBVIOUS
  <2> QED
    BY <1>5, <1>8, <2>1
<1> QED
  BY <1>2, <1>5, <1>6, <1>9, <1>10 DEF n

\* Days compare by month first.
LEMMA DaysCompare ==
    ASSUME NEW a, IsDay(a), NEW b, IsDay(b)
    PROVE  a < b <=> \/ MonthOf(a) < MonthOf(b)
                     \/ MonthOf(a) = MonthOf(b) /\ Day(a) < Day(b)
<1> DEFINE y == Year(a)
           m == Month(a)
           d == Day(a)
           z == Year(b)
           n == Month(b)
           e == Day(b)
<1>1. /\ y \in Nat /\ m \in 1 .. 12 /\ d \in 1 .. 31
      /\ z \in Nat /\ n \in 1 .. 12 /\ e \in 1 .. 31
  BY DayIs
<1>2. a = 10000 * y + 100 * m + d /\ b = 10000 * z + 100 * n + e
  BY DayIs
<1>3. MonthOf(a) = 12 * y + m - 1 /\ MonthOf(b) = 12 * z + n - 1
  BY DEF MonthOf
<1> HIDE DEF y, m, d, z, n, e
<1>4. a < b <=> \/ y < z
                \/ y = z /\ m < n
                \/ y = z /\ m = n /\ d < e
  BY <1>1, <1>2
<1>5. MonthOf(a) < MonthOf(b) <=> y < z \/ (y = z /\ m < n)
  BY <1>1, <1>3
<1>6. MonthOf(a) = MonthOf(b) <=> y = z /\ m = n
  BY <1>1, <1>3
<1>7. a < b <=> \/ MonthOf(a) < MonthOf(b)
                \/ MonthOf(a) = MonthOf(b) /\ d < e
  BY <1>4, <1>5, <1>6
<1> QED
  BY <1>7 DEF d, e

Least(a, b) == IF a <= b THEN a ELSE b

LEMMA AddMonthsIs ==
    ASSUME NEW x, IsDay(x), NEW k \in Int, MonthOf(x) + k >= 0
    PROVE  LET r == AddMonths(x, k)
           IN /\ IsDay(r)
              /\ MonthOf(r) = MonthOf(x) + k
              /\ Day(r) = Least(Day(x), DaysIn(Year(r), Month(r)))
<1> DEFINE r == AddMonths(x, k)
           months == 12 * Year(x) + Month(x) - 1 + k
           y == months \div 12
           m == (months % 12) + 1
           d == IF Day(x) <= DaysIn(y, m) THEN Day(x) ELSE DaysIn(y, m)
<1>1. r = DateOf(y, m, d)
  BY DEF AddMonths
<1>2. months = MonthOf(x) + k /\ months \in Nat
  BY DayIs DEF MonthOf
<1> HIDE DEF months
<1>3. y \in Nat /\ m \in 1 .. 12 /\ 12 * y + m - 1 = months
  <2>1. PICK q \in Nat, p \in 0 .. 11 :
           months = 12 * q + p /\ months \div 12 = q /\ months % 12 = p
    <3>1. 12 \in Nat \ {0} /\ months \in Nat
      BY <1>2
    <3>2. \E q \in Nat, p \in 0 .. 12 - 1 :
             months = 12 * q + p /\ months \div 12 = q /\ months % 12 = p
      BY <3>1, Remainder, Zenon
    <3>3. 0 .. 12 - 1 = 0 .. 11
      OBVIOUS
    <3> QED
      BY <3>2, <3>3, Zenon
  <2>2. y = q /\ m = p + 1
    BY <2>1
  <2> HIDE DEF y, m
  <2> QED
    BY <2>1, <2>2
<1>4. DaysIn(y, m) \in 28 .. 31
  BY DaysInIs
<1>5. d \in 1 .. 31 /\ d \in 1 .. DaysIn(y, m) /\ d = Least(Day(x), DaysIn(y, m))
  BY <1>4, DayIs DEF Least
<1> HIDE DEF y, m, d, r
<1>6. r \in Nat /\ Year(r) = y /\ Month(r) = m /\ Day(r) = d
  BY <1>1, <1>3, <1>5, DateOfIs
<1>7. IsDay(r)
  BY <1>3, <1>5, <1>6 DEF IsDay
<1>8. MonthOf(r) = MonthOf(x) + k
  BY <1>2, <1>3, <1>6 DEF MonthOf
<1> QED
  BY <1>5, <1>6, <1>7, <1>8 DEF r

LEMMA YesterdayIs ==
    ASSUME NEW x, IsDay(x), MonthOf(x) >= 1
    PROVE  /\ IsDay(Yesterday(x))
           /\ Tomorrow(Yesterday(x)) = x
           /\ \A d : IsDay(d) => (d <= Yesterday(x) <=> d < x)
<1>0. /\ x \in Nat /\ Year(x) \in Nat /\ Month(x) \in 1 .. 12 /\ Day(x) \in 1 .. 31
      /\ x = 10000 * Year(x) + 100 * Month(x) + Day(x)
  BY DayIs
<1>1. CASE Day(x) > 1
  <2> DEFINE e == Day(x) - 1
  <2>1. Yesterday(x) = x - 1
    BY <1>1 DEF Yesterday
  <2>2. e \in 1 .. 31 /\ x - 1 = DateOf(Year(x), Month(x), e)
    BY <1>0, <1>1 DEF DateOf
  <2> HIDE DEF e
  <2>3. x - 1 \in Nat /\ Year(x - 1) = Year(x) /\ Month(x - 1) = Month(x) /\ Day(x - 1) = e
    <3> DEFINE p == DateOf(Year(x), Month(x), e)
    <3>1. p \in Nat /\ Year(p) = Year(x) /\ Month(p) = Month(x) /\ Day(p) = e
      <4>1. Year(x) \in Nat /\ Month(x) \in 1 .. 12 /\ e \in 1 .. 31
        BY <1>0, <2>2
      <4> QED
        BY <4>1, DateOfIs, Zenon
    <3> QED
      BY <2>2, <3>1, Zenon
  <2>4. e + 1 = Day(x) /\ Day(x) \in 1 .. DaysIn(Year(x), Month(x))
    BY <1>0 DEF e, IsDay
  <2>5. DaysIn(Year(x), Month(x)) \in 28 .. 31
    BY DaysInIs
  <2>6. e \in 1 .. DaysIn(Year(x), Month(x)) /\ e < DaysIn(Year(x), Month(x))
    BY <2>2, <2>4, <2>5
  <2>7. IsDay(x - 1)
    BY <1>0, <2>3, <2>6 DEF IsDay
  <2>8. Tomorrow(x - 1) = x - 1 + 1
    BY <2>3, <2>6 DEF Tomorrow
  <2>9. \A d : IsDay(d) => (d <= x - 1 <=> d < x)
    BY <1>0 DEF IsDay
  <2> QED
    BY <1>0, <2>1, <2>7, <2>8, <2>9
<1>2. CASE Day(x) = 1
  <2> DEFINE b == AddMonths(x, -1)
             n == DaysIn(Year(b), Month(b))
             r == DateOf(Year(b), Month(b), n)
  <2>1. Yesterday(x) = r
    BY <1>2 DEF Yesterday
  <2>2. IsDay(b) /\ MonthOf(b) = MonthOf(x) - 1
    <3>1. -1 \in Int /\ MonthOf(x) + (-1) >= 0 /\ MonthOf(x) + (-1) = MonthOf(x) - 1
      BY DayIs
    <3> QED
      BY <3>1, AddMonthsIs
  <2>3. n \in 28 .. 31
    BY DaysInIs
  <2>4. Year(b) \in Nat /\ Month(b) \in 1 .. 12
    BY <2>2, DayIs
  <2> HIDE DEF n, b
  <2>5. r \in Nat /\ Year(r) = Year(b) /\ Month(r) = Month(b) /\ Day(r) = n
    <3>1. n \in 1 .. 31
      BY <2>3
    <3> QED
      BY <2>4, <3>1, DateOfIs, Zenon
  <2> HIDE DEF r
  <2>6. n = DaysIn(Year(r), Month(r)) /\ MonthOf(r) = MonthOf(x) - 1
    BY <2>2, <2>5 DEF n, MonthOf
  <2>7. IsDay(r)
    BY <2>3, <2>4, <2>5, <2>6 DEF IsDay
  <2>8. Tomorrow(r) = x
    <3> DEFINE t == AddMonths(r, 1)
    <3>1. Tomorrow(r) = DateOf(Year(t), Month(t), 1)
      BY <2>3, <2>5, <2>6 DEF Tomorrow
    <3>2. IsDay(t) /\ MonthOf(t) = MonthOf(x)
      <4>1. MonthOf(r) + 1 = MonthOf(x) /\ MonthOf(r) + 1 >= 0
        BY <2>6, DayIs
      <4> QED
        BY <2>7, <4>1, AddMonthsIs
    <3> HIDE DEF t
    <3>3. Year(t) = Year(x) /\ Month(t) = Month(x)
      BY <3>2, DayIs
    <3> QED
      BY <1>0, <1>2, <3>1, <3>3 DEF DateOf
  <2>9. ASSUME NEW d, IsDay(d) PROVE d <= r <=> d < x
    <3>1. d < x <=> MonthOf(d) < MonthOf(x)
      <4>1. Day(d) \in 1 .. 31 /\ ~(Day(d) < 1)
        BY <2>9, DayIs
      <4> QED
        BY <1>2, <2>9, <4>1, DaysCompare
    <3>2. r < d <=> \/ MonthOf(r) < MonthOf(d)
                    \/ MonthOf(r) = MonthOf(d) /\ n < Day(d)
      <4>1. r < d <=> \/ MonthOf(r) < MonthOf(d)
                      \/ MonthOf(r) = MonthOf(d) /\ Day(r) < Day(d)
        BY <2>7, <2>9, DaysCompare, Zenon
      <4> QED
        BY <2>5, <4>1, Zenon
    <3>3. MonthOf(r) = MonthOf(d) => Day(d) <= n
      <4>1. MonthOf(r) = MonthOf(d) => Year(r) = Year(d) /\ Month(r) = Month(d)
        BY <2>7, <2>9, DayIs
      <4>2. Day(d) \in 1 .. DaysIn(Year(d), Month(d))
        BY <2>9 DEF IsDay
      <4>3. DaysIn(Year(d), Month(d)) \in 28 .. 31
        BY DaysInIs
      <4> QED
        BY <2>6, <4>1, <4>2, <4>3
    <3>4. /\ MonthOf(d) \in Nat /\ MonthOf(r) \in Nat /\ MonthOf(x) \in Nat
          /\ d \in Nat /\ r \in Nat /\ x \in Nat /\ Day(d) \in Nat /\ n \in Nat
      BY <2>3, <2>7, <2>9, DayIs
    <3>5. r < d <=> MonthOf(r) < MonthOf(d)
      <4>1. MonthOf(r) = MonthOf(d) => ~(n < Day(d))
        BY <3>3, <3>4
      <4> QED
        BY <3>2, <4>1, Zenon
    <3>6. MonthOf(r) < MonthOf(d) <=> ~(MonthOf(d) < MonthOf(x))
      BY <2>6, <3>4
    <3>7. d <= r <=> ~(r < d)
      BY <3>4
    <3> QED
      BY <3>1, <3>5, <3>6, <3>7, Zenon
  <2> QED
    BY <2>1, <2>7, <2>8, <2>9
<1> QED
  BY <1>0, <1>1, <1>2

\* The dates are days, of the thirteenth month or a later one.
LEMMA DateIs ==
    ASSUME NEW x, IsDate(x)
    PROVE  IsDay(x) /\ MonthOf(x) \in Nat /\ MonthOf(x) >= 12
<1>1. IsDay(x) /\ Year(x) > 0
  BY DEF IsDate, IsDay
<1>2. Year(x) \in Nat /\ Month(x) \in 1 .. 12
  BY <1>1, DayIs
<1> QED
  BY <1>1, <1>2 DEF MonthOf

\* Adding months to a date gives a date.
LEMMA AddMonthsDate ==
    ASSUME NEW x, IsDate(x), NEW k \in Nat
    PROVE  LET r == AddMonths(x, k)
           IN /\ IsDate(r)
              /\ MonthOf(r) = MonthOf(x) + k
              /\ Day(r) = Least(Day(x), DaysIn(Year(r), Month(r)))
<1> DEFINE r == AddMonths(x, k)
<1>1. IsDay(x) /\ MonthOf(x) \in Nat /\ MonthOf(x) >= 12
  BY DateIs
<1>2. k \in Int /\ MonthOf(x) + k >= 0
  BY <1>1
<1>3. IsDay(r) /\ MonthOf(r) = MonthOf(x) + k
      /\ Day(r) = Least(Day(x), DaysIn(Year(r), Month(r)))
  BY <1>1, <1>2, AddMonthsIs
<1> HIDE DEF r
<1>4. Year(r) > 0
  <2>1. Year(r) \in Nat /\ Month(r) \in 1 .. 12
    BY <1>3, DayIs
  <2>2. 12 * Year(r) + Month(r) - 1 >= 12
    BY <1>1, <1>3 DEF MonthOf
  <2> QED
    BY <2>1, <2>2
<1>5. IsDate(r)
  BY <1>3, <1>4 DEF IsDay, IsDate
<1> QED
  BY <1>3, <1>5 DEF r

\* A window tests from the day its training ends to the day before the period
\* after it.
LEMMA WindowIs ==
    ASSUME NEW s, IsDate(s)
    PROVE  LET w == Window(s)
           IN /\ w.trainStart = s
              /\ w.testStart = AddMonths(s, TrainMonths)
              /\ IsDate(w.testStart)
              /\ \A d : IsDay(d) =>
                    (d <= w.testEnd <=> d < AddMonths(w.testStart, TestMonths))
<1> DEFINE x == AddMonths(s, TrainMonths)
           z == AddMonths(x, TestMonths)
<1>1. IsDate(x)
  BY WindowAssumption, AddMonthsDate
<1>2. IsDate(z)
  <2> HIDE DEF x
  <2> QED
    BY <1>1, WindowAssumption, AddMonthsDate
<1>3. /\ Tomorrow(Yesterday(x)) = x
      /\ \A d : IsDay(d) => (d <= Yesterday(z) <=> d < z)
  <2> HIDE DEF x, z
  <2>1. /\ IsDay(x) /\ MonthOf(x) >= 1
        /\ IsDay(z) /\ MonthOf(z) >= 1
    BY <1>1, <1>2, DateIs
  <2> QED
    BY <2>1, YesterdayIs
<1>4. Window(s) = [trainStart |-> s, trainEnd |-> Yesterday(x),
                   testStart |-> Tomorrow(Yesterday(x)),
                   testEnd |-> Yesterday(AddMonths(Tomorrow(Yesterday(x)), TestMonths))]
  BY Zenon DEF Window
<1> HIDE DEF x
<1>5. Window(s) = [trainStart |-> s, trainEnd |-> Yesterday(x), testStart |-> x,
                   testEnd |-> Yesterday(z)]
  BY <1>3, <1>4, Zenon
<1>6. /\ Window(s).trainStart = s /\ Window(s).testStart = x
      /\ Window(s).testEnd = Yesterday(z)
  BY <1>5
<1>7. \A d : IsDay(d) =>
         (d <= Window(s).testEnd <=> d < AddMonths(Window(s).testStart, TestMonths))
  BY <1>3, <1>6, Zenon
<1> QED
  BY <1>1, <1>6, <1>7, Zenon DEF x

(* The next window tests from where this one stops, but for the last days   *)
(* of a month.                                                              *)
LEMMA NextWindow ==
    ASSUME NEW s, IsDate(s)
    PROVE  LET next == AddMonths(s, TestMonths)
           IN /\ IsDate(next)
              /\ Window(s).testStart < Window(next).testStart
              /\ \A d : IsDay(d) /\ Day(d) < 28 =>
                    (d <= Window(s).testEnd <=> d < Window(next).testStart)
<1> DEFINE next == AddMonths(s, TestMonths)
           x == AddMonths(s, TrainMonths)
           z == AddMonths(x, TestMonths)
           y == AddMonths(next, TrainMonths)
<1>0. TrainMonths \in Nat /\ TestMonths \in Nat /\ TestMonths > 0
  BY WindowAssumption
<1>1. /\ IsDate(next) /\ MonthOf(next) = MonthOf(s) + TestMonths
      /\ Day(next) = Least(Day(s), DaysIn(Year(next), Month(next)))
  BY <1>0, AddMonthsDate
<1>2. /\ IsDate(x) /\ MonthOf(x) = MonthOf(s) + TrainMonths
      /\ Day(x) = Least(Day(s), DaysIn(Year(x), Month(x)))
  BY <1>0, AddMonthsDate
<1> HIDE DEF next, x
<1>3. /\ IsDate(z) /\ MonthOf(z) = MonthOf(x) + TestMonths
      /\ Day(z) = Least(Day(x), DaysIn(Year(z), Month(z)))
  BY <1>0, <1>2, AddMonthsDate
<1>4. /\ IsDate(y) /\ MonthOf(y) = MonthOf(next) + TrainMonths
      /\ Day(y) = Least(Day(next), DaysIn(Year(y), Month(y)))
  BY <1>0, <1>1, AddMonthsDate
<1> HIDE DEF y, z
<1>5. /\ IsDay(s) /\ IsDay(x) /\ IsDay(z) /\ IsDay(y)
      /\ MonthOf(s) \in Nat /\ MonthOf(x) \in Nat /\ MonthOf(z) \in Nat /\ MonthOf(y) \in Nat
  BY <1>2, <1>3, <1>4, DateIs
<1>6. MonthOf(y) = MonthOf(z) /\ MonthOf(x) < MonthOf(y)
  BY <1>0, <1>1, <1>2, <1>3, <1>4, <1>5
<1>7. Year(y) = Year(z) /\ Month(y) = Month(z)
  BY <1>5, <1>6, DayIs
<1>8. ASSUME NEW e \in Nat, e < 28 PROVE e < Day(y) <=> e < Day(z)
  <2>1. /\ DaysIn(Year(y), Month(y)) \in 28 .. 31
        /\ DaysIn(Year(x), Month(x)) \in 28 .. 31
        /\ DaysIn(Year(next), Month(next)) \in 28 .. 31
    BY DaysInIs
  <2>2. Day(s) \in 1 .. 31
    BY <1>5, DayIs
  <2> QED
    BY <1>1, <1>2, <1>3, <1>4, <1>7, <1>8, <2>1, <2>2 DEF Least
<1>9. Window(s).testStart = x /\ Window(next).testStart = y
  BY <1>1, WindowIs, Zenon DEF x, y
<1>10. x < y
  BY <1>5, <1>6, DaysCompare
<1>11. ASSUME NEW d, IsDay(d), Day(d) < 28 PROVE d <= Window(s).testEnd <=> d < y
  <2>1. d <= Window(s).testEnd <=> d < z
    BY <1>9, <1>11, WindowIs, Zenon DEF z
  <2>2. Day(d) \in Nat
    BY <1>11, DayIs
  <2>3. Day(d) < Day(y) <=> Day(d) < Day(z)
    BY <1>8, <1>11, <2>2
  <2>4. /\ d < z <=> \/ MonthOf(d) < MonthOf(z)
                     \/ MonthOf(d) = MonthOf(z) /\ Day(d) < Day(z)
        /\ d < y <=> \/ MonthOf(d) < MonthOf(y)
                     \/ MonthOf(d) = MonthOf(y) /\ Day(d) < Day(y)
    BY <1>5, <1>11, DaysCompare, Zenon
  <2> QED
    BY <1>6, <2>1, <2>3, <2>4, Zenon
<1> QED
  BY <1>1, <1>9, <1>10, <1>11, Zenon DEF next

-------------------------------------------------------------------------------
(* The windows follow one another                                          *)

(* Each window is that of its first day, and the next one's first day is    *)
(* the step of TestMonths after it; the one to come is at start.            *)
Rolling ==
    /\ step \in {"configure", "load"} => windows = << >>
    /\ step = "roll" => IsDate(start)
    /\ \A k \in DOMAIN windows :
          /\ IsDate(windows[k].trainStart)
          /\ windows[k] = Window(windows[k].trainStart)
    /\ \A k \in DOMAIN windows : k + 1 \in DOMAIN windows =>
          windows[k + 1].trainStart = AddMonths(windows[k].trainStart, TestMonths)
    /\ \A k \in DOMAIN windows : step = "roll" /\ k + 1 \notin DOMAIN windows =>
          start = AddMonths(windows[k].trainStart, TestMonths)
    /\ \A i, j \in DOMAIN windows : i < j => windows[i].testStart < windows[j].testStart

LEMMA InitRolling == Init => Rolling
<1> SUFFICES ASSUME Init PROVE Rolling
  OBVIOUS
<1>1. windows = << >> /\ DOMAIN << >> = {} /\ step = "configure"
  BY DEF Init
<1> QED
  BY <1>1 DEF Rolling

\* The windows stay as they are once they are rolled.
LEMMA RollingStays ==
    ASSUME Rolling, UNCHANGED <<windows, start>>,
           step' = "roll" => step = "roll",
           step' \in {"configure", "load"} => step \in {"configure", "load"}
    PROVE  Rolling'
  BY DEF Rolling

\* The first window starts on a date of the loaded histories.
LEMMA LoadRolls == RInv /\ Rolling /\ Load => Rolling'
<1> SUFFICES ASSUME RInv, Rolling, Load PROVE Rolling'
  OBVIOUS
<1> DEFINE D == UNION {Dates(s) : s \in loaded'}
<1>1. /\ step = "load" /\ windows' = windows /\ step' \in {"stopped", "extract", "roll"}
      /\ loaded' = {s \in DOMAIN history : Len(history[s]) >= MinRows}
      /\ loaded' = {} => step' = "stopped"
      /\ loaded' # {} => start' = Min(D)
  BY DEF Load, Goto, Stop
<1>2. windows' = << >> /\ DOMAIN << >> = {}
  BY <1>1 DEF Rolling
<1>3. ASSUME step' = "roll" PROVE IsDate(start')
  <2>1. PICK s \in loaded' : TRUE
    BY <1>1, <1>3
  <2>2. history \in Histories
    BY DEF RInv, Where
  <2>3. \A x \in DOMAIN history : IsFrame(history[x])
                                  /\ \A t \in DOMAIN history[x] : IsDate(history[x][t].date)
    BY <2>2, HistoryIs
  <2>4. \A x \in D : IsDate(x)
    BY <1>1, <2>3 DEF Dates
  <2>5. D # {}
    <3>1. Len(history[s]) >= 1 /\ Len(history[s]) \in Nat /\ DOMAIN history[s] = 1 .. Len(history[s])
      BY <1>1, <2>1, <2>3, ResearchAssumption DEF IsFrame
    <3>2. history[s][1].date \in Dates(s)
      BY <3>1 DEF Dates
    <3> QED
      BY <2>1, <3>2
  <2> HIDE DEF D
  <2>6. D \in SUBSET Nat
    BY <2>4 DEF IsDate
  <2>7. PICK n \in D : \A m \in D : n <= m
    BY <2>5, <2>6, LeastNumber
  <2>8. Min(D) \in D
    BY <2>7, Zenon DEF Min
  <2> QED
    BY <1>1, <1>3, <2>1, <2>4, <2>8
<1> QED
  BY <1>1, <1>2, <1>3 DEF Rolling

\* A window that is added follows the last one.
LEMMA RollRolls == RInv /\ Rolling /\ Roll => Rolling'
<1> SUFFICES ASSUME RInv, Rolling, Roll PROVE Rolling'
  OBVIOUS
<1> DEFINE N == Len(windows)
           w == Window(start)
<1>1. CASE UNCHANGED <<windows, start>> /\ step' # "roll"
  <2>1. step' \in {"stopped", "evaluate"}
    BY <1>1 DEF Roll, Goto, Stop
  <2> QED
    BY <1>1, <2>1, RollingStays
<1>2. CASE ~(UNCHANGED <<windows, start>> /\ step' # "roll")
  <2>1. /\ step = "roll" /\ step' = "roll"
        /\ windows' = Append(windows, w) /\ start' = AddMonths(start, TestMonths)
    BY <1>2 DEF Roll, Goto, Stop
  <2>2. IsDate(start)
    BY <2>1 DEF Rolling
  <2>3. /\ w.trainStart = start /\ IsDate(w.testStart)
    BY <2>2, WindowIs
  <2>4. IsDate(AddMonths(start, TestMonths))
    BY <2>2, NextWindow
  <2>5. IsList(windows) /\ N \in Nat /\ DOMAIN windows = 1 .. N
    BY ListIs DEF RInv, Walked
  <2> HIDE DEF w, N
  <2>6. /\ DOMAIN windows' = 1 .. N + 1
        /\ \A k \in 1 .. N : windows'[k] = windows[k]
        /\ windows'[N + 1] = w
    <3>1. /\ IsList(Append(windows, w))
          /\ Len(Append(windows, w)) = Len(windows) + 1
          /\ DOMAIN Append(windows, w) = 1 .. Len(windows) + 1
          /\ \A k \in 1 .. Len(windows) : Append(windows, w)[k] = windows[k]
          /\ Append(windows, w)[Len(windows) + 1] = w
      <4>1. IsList(windows)
        BY <2>5
      <4> QED
        BY <4>1, ListGrows, Zenon
    <3> QED
      BY <2>1, <3>1, Zenon DEF N
  <2>7. ASSUME NEW k \in DOMAIN windows'
        PROVE  /\ IsDate(windows'[k].trainStart)
               /\ windows'[k] = Window(windows'[k].trainStart)
    <3>1. CASE k = N + 1
      BY <2>2, <2>3, <2>6, <3>1 DEF w
    <3>2. CASE k # N + 1
      <4>1. k \in 1 .. N /\ k \in DOMAIN windows
        BY <2>5, <2>6, <3>2
      <4> QED
        BY <2>6, <4>1 DEF Rolling
    <3> QED
      BY <3>1, <3>2
  <2>8. ASSUME NEW k \in DOMAIN windows', k + 1 \in DOMAIN windows'
        PROVE  windows'[k + 1].trainStart = AddMonths(windows'[k].trainStart, TestMonths)
    <3>1. k \in 1 .. N /\ k \in DOMAIN windows
      BY <2>5, <2>6, <2>8
    <3>2. CASE k = N
      <4>1. k + 1 \notin DOMAIN windows
        BY <2>5, <3>2
      <4>2. start = AddMonths(windows[k].trainStart, TestMonths)
        BY <2>1, <3>1, <4>1 DEF Rolling
      <4> QED
        BY <2>3, <2>6, <3>1, <3>2, <4>2
    <3>3. CASE k # N
      <4>1. k + 1 \in 1 .. N /\ k + 1 \in DOMAIN windows
        BY <2>5, <3>1, <3>3
      <4> QED
        BY <2>6, <3>1, <4>1 DEF Rolling
    <3> QED
      BY <3>2, <3>3
  <2>9. ASSUME NEW k \in DOMAIN windows', k + 1 \notin DOMAIN windows'
        PROVE  start' = AddMonths(windows'[k].trainStart, TestMonths)
    <3>1. k = N + 1
      BY <2>5, <2>6, <2>9
    <3> QED
      BY <2>1, <2>3, <2>6, <3>1
  <2>10. ASSUME NEW i \in DOMAIN windows', NEW j \in DOMAIN windows', i < j
         PROVE  windows'[i].testStart < windows'[j].testStart
    <3>1. i \in 1 .. N /\ i \in DOMAIN windows
      BY <2>5, <2>6, <2>10
    <3>2. CASE j # N + 1
      <4>1. j \in 1 .. N /\ j \in DOMAIN windows
        BY <2>5, <2>6, <3>2
      <4> QED
        BY <2>6, <2>10, <3>1, <4>1 DEF Rolling
    <3>3. CASE j = N + 1
      <4>1. N \in 1 .. N /\ N \in DOMAIN windows /\ N + 1 \notin DOMAIN windows
        BY <2>5, <3>1
      <4>2. /\ IsDate(windows[N].trainStart) /\ windows[N] = Window(windows[N].trainStart)
            /\ start = AddMonths(windows[N].trainStart, TestMonths)
        BY <2>1, <4>1 DEF Rolling
      <4>3. windows[N].testStart < w.testStart
        BY <4>2, NextWindow, Zenon DEF w
      <4>4. i = N \/ windows[i].testStart < windows[N].testStart
        <5>1. i = N \/ i < N
          BY <2>5, <3>1
        <5> QED
          BY <3>1, <4>1, <5>1 DEF Rolling
      <4>5. \A k \in DOMAIN windows : windows[k].testStart \in Nat
        <5>1. ASSUME NEW k \in DOMAIN windows PROVE windows[k].testStart \in Nat
          <6>1. IsDate(windows[k].trainStart) /\ windows[k] = Window(windows[k].trainStart)
            BY DEF Rolling
          <6>2. IsDate(Window(windows[k].trainStart).testStart)
            BY <6>1, WindowIs, Zenon
          <6>3. IsDate(windows[k].testStart)
            BY <6>1, <6>2, Zenon
          <6> QED
            BY <6>3 DEF IsDate
        <5> QED
          BY <5>1
      <4>6. w.testStart \in Nat
        BY <2>3 DEF IsDate
      <4> QED
        BY <2>6, <3>1, <3>3, <4>1, <4>3, <4>4, <4>5, <4>6
    <3> QED
      BY <3>2, <3>3
  <2> QED
    BY <2>1, <2>4, <2>7, <2>8, <2>9, <2>10 DEF Rolling
<1> QED
  BY <1>1, <1>2

\* Every step keeps the windows one after another.
LEMMA RollingKept == RInv /\ Rolling /\ [Next]_vars => Rolling'
<1> SUFFICES ASSUME RInv, Rolling, [Next]_vars PROVE Rolling'
  OBVIOUS
<1>1. CASE Load
  BY <1>1, LoadRolls
<1>2. CASE Roll
  BY <1>2, RollRolls
<1>3. CASE Configure
  <2>1. UNCHANGED <<windows, start>> /\ step = "configure" /\ step' \in {"load", "stopped"}
    BY <1>3 DEF Configure, Goto, Stop
  <2> QED
    BY <2>1, RollingStays
<1>4. CASE Extract \/ RestrictDates \/ Measure \/ Report \/ Evaluate
  <2>1. /\ UNCHANGED <<windows, start>>
        /\ step' \in {"restrict", "measure", "report", "evaluate", "stopped"}
    BY <1>4 DEF Extract, RestrictDates, Measure, Report, Evaluate, Goto, Stop
  <2> QED
    BY <2>1, RollingStays
<1>5. CASE UNCHANGED vars
  <2>1. UNCHANGED <<windows, start, step>>
    BY <1>5 DEF vars
  <2> QED
    BY <2>1, RollingStays
<1> QED
  BY <1>1, <1>2, <1>3, <1>4, <1>5 DEF Next

LEMMA RollingTestsOnce == RInv /\ Rolling => SessionsTestedOnce
<1> SUFFICES ASSUME RInv, Rolling, NEW d \in UNION {Dates(s) : s \in loaded},
                    windows # << >>, Day(d) < 28,
                    windows[1].testStart <= d, d <= windows[Len(windows)].testEnd
    PROVE  Cardinality({k \in DOMAIN windows :
                          windows[k].testStart <= d /\ d <= windows[k].testEnd}) = 1
  BY DEF SessionsTestedOnce
<1> DEFINE N == Len(windows)
           from(k) == windows[k].testStart
           Tests(k) == from(k) <= d /\ d <= windows[k].testEnd
           S == {k \in DOMAIN windows : Tests(k)}
           K == {k \in 1 .. N : from(k) <= d}
<1>1. N \in Nat /\ DOMAIN windows = 1 .. N /\ N >= 1
  <2>1. IsList(windows)
    BY DEF RInv, Walked
  <2>2. windows # << >> => Len(windows) # 0
    BY <2>1 DEF IsList
  <2> QED
    BY <2>1, <2>2, ListIs
<1>2. IsDay(d) /\ d \in Nat
  <2>1. history \in Histories /\ loaded \in SUBSET DOMAIN history
    BY DEF RInv, Where
  <2>2. \E s \in loaded : \E t \in DOMAIN history[s] : d = history[s][t].date
    BY DEF Dates
  <2>3. IsDate(d)
    BY <2>1, <2>2, HistoryIs
  <2> QED
    BY <2>3, DateIs DEF IsDate
<1>3. ASSUME NEW k \in 1 .. N
      PROVE  /\ from(k) \in Nat
             /\ k + 1 \in 1 .. N => (d <= windows[k].testEnd <=> d < from(k + 1))
  <2>1. IsDate(windows[k].trainStart) /\ windows[k] = Window(windows[k].trainStart)
    BY <1>1 DEF Rolling
  <2>2. from(k) \in Nat
    <3>1. IsDate(Window(windows[k].trainStart).testStart)
      BY <2>1, WindowIs, Zenon
    <3>2. IsDate(windows[k].testStart)
      BY <2>1, <3>1, Zenon
    <3> QED
      BY <3>2 DEF IsDate
  <2>3. ASSUME k + 1 \in 1 .. N PROVE d <= windows[k].testEnd <=> d < from(k + 1)
    <3> DEFINE next == AddMonths(windows[k].trainStart, TestMonths)
    <3>1. windows[k + 1].trainStart = next
      BY <1>1, <2>3 DEF Rolling
    <3>2. windows[k + 1] = Window(windows[k + 1].trainStart)
      BY <1>1, <2>3 DEF Rolling
    <3>3. from(k + 1) = Window(next).testStart
      BY <3>1, <3>2, Zenon
    <3>4. d <= Window(windows[k].trainStart).testEnd <=> d < Window(next).testStart
      BY <1>2, <2>1, NextWindow, Zenon
    <3> QED
      BY <2>1, <3>3, <3>4, Zenon
  <2> QED
    BY <2>2, <2>3
<1>4. PICK k \in K : \A j \in K : j <= k
  <2>1. 1 \in K
    BY <1>1
  <2>2. 1 \in Int /\ N \in Int
    BY <1>1
  <2>3. IsFiniteSet(1 .. N)
    BY <2>2, FS_Interval
  <2>4. K \in SUBSET (1 .. N) /\ \A x \in K : x \in Int
    BY <1>1
  <2> HIDE DEF K
  <2>5. IsFiniteSet(K)
    BY <2>3, <2>4, FS_Subset
  <2> QED
    BY <2>1, <2>4, <2>5, GreatestNumber
<1>5. k \in 1 .. N /\ from(k) <= d
  OBVIOUS
<1>6. d <= windows[k].testEnd
  <2>1. CASE k = N
    BY <2>1
  <2>2. CASE k # N
    <3>1. k + 1 \in 1 .. N /\ k + 1 \notin K
      <4>1. k + 1 \in 1 .. N /\ ~(k + 1 <= k)
        <5>1. \A n \in Nat : \A i \in 1 .. n : i # n => i + 1 \in 1 .. n /\ ~(i + 1 <= i)
          OBVIOUS
        <5> QED
          BY <1>1, <1>5, <2>2, <5>1, Zenon
      <4> QED
        BY <1>4, <4>1, Zenon
    <3>2. ~(from(k + 1) <= d) /\ from(k + 1) \in Nat
      BY <1>3, <3>1
    <3>3. d < from(k + 1)
      BY <1>2, <3>2
    <3> QED
      BY <1>3, <1>5, <3>1, <3>3
  <2> QED
    BY <2>1, <2>2
<1>7. ASSUME NEW j \in S PROVE j = k
  <2>1. j \in 1 .. N /\ from(j) <= d /\ d <= windows[j].testEnd
    BY <1>1
  <2>2. j <= k
    BY <1>4, <2>1
  <2>3. ASSUME j < k PROVE FALSE
    <3>1. j + 1 \in 1 .. N /\ (j + 1 = k \/ j + 1 < k)
      BY <1>1, <1>5, <2>1, <2>3
    <3>2. d < from(j + 1)
      BY <1>3, <2>1, <3>1
    <3>3. j + 1 < k => from(j + 1) < from(k)
      BY <1>1, <1>5, <3>1 DEF Rolling
    <3>4. from(j + 1) \in Nat /\ from(k) \in Nat
      BY <1>3, <1>5, <3>1
    <3> QED
      BY <1>2, <1>5, <3>1, <3>2, <3>3, <3>4
  <2> QED
    BY <1>1, <1>5, <2>1, <2>2, <2>3
<1>8. S = {k}
  <2>1. k \in S
    BY <1>1, <1>5, <1>6
  <2> QED
    BY <1>7, <2>1
<1> HIDE DEF S
<1>9. Cardinality(S) = 1
  BY <1>8, FS_Singleton
<1> QED
  BY <1>9 DEF S

(* Of the sessions the test windows span, none is tested twice or not at    *)
(* all, but on the last days of a month: for every history, and all lengths *)
(* of the windows (generate_walk_forward_windows).                          *)
THEOREM SessionsAreTestedOnce == Spec => []SessionsTestedOnce
<1>1. Spec => [](RInv /\ Rolling)
  <2>1. Init => Rolling
    BY InitRolling
  <2>2. RInv /\ Rolling /\ [Next]_vars => Rolling'
    BY RollingKept
  <2> QED
    BY <2>1, <2>2, ResearchInductive, PTL DEF Spec
<1>2. RInv /\ Rolling => SessionsTestedOnce
  BY RollingTestsOnce
<1> QED
  BY <1>1, <1>2, PTL

=============================================================================
