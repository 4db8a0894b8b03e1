---------------------------- MODULE ResearchProofs ----------------------------
(***************************************************************************)
(* No analysis of a price history looks ahead, rows stay aligned and       *)
(* forward samples are complete: for histories of every length, any gaps,  *)
(* window lengths, splits, folds and horizons.                             *)
(***************************************************************************)
EXTENDS Research, WellFoundedInduction, FiniteSetTheorems, TLAPS

-------------------------------------------------------------------------------
(* Intervals, smallest and largest elements.                               *)

LEMMA MinMax ==
    ASSUME NEW a \in Int, NEW b \in Int, a <= b
    PROVE  Min(a..b) = a /\ Max(a..b) = b
<1>1. Min(a..b) = a
  <2>1. a \in a..b /\ \A y \in a..b : a <= y
    OBVIOUS
  <2>2. \A x \in a..b : (\A y \in a..b : x <= y) => x = a
    OBVIOUS
  <2> QED
    BY <2>1, <2>2 DEF Min
<1>2. Max(a..b) = b
  <2>1. b \in a..b /\ \A y \in a..b : b >= y
    OBVIOUS
  <2>2. \A x \in a..b : (\A y \in a..b : x >= y) => x = b
    OBVIOUS
  <2> QED
    BY <2>1, <2>2 DEF Max
<1> QED
  BY <1>1, <1>2

\* The smallest of some natural numbers.
LEMMA Smallest ==
    ASSUME NEW S \in SUBSET Nat, S # {}
    PROVE  Min(S) \in S /\ \A x \in S : Min(S) <= x
<1> DEFINE R == OpToRel(<, Nat)
<1>1. R = {ss \in Nat \X Nat : ss[1] < ss[2]}
  BY DEF OpToRel
<1>2. IsWellFoundedOn(R, Nat)
  BY NatLessThanWellFounded
<1> HIDE DEF R
<1>3. \E x \in S : \A y \in S : ~ (<<y, x>> \in R)
  BY <1>2, WFMin
<1>4. PICK x \in S : \A y \in S : ~ (<<y, x>> \in R)
  BY <1>3
<1>5. ASSUME NEW y \in S PROVE x <= y
  <2>1. <<y, x>> \in Nat \X Nat /\ <<y, x>>[1] = y /\ <<y, x>>[2] = x
    OBVIOUS
  <2>2. ~ (y < x)
    BY <1>1, <1>4, <2>1
  <2> QED
    BY <2>2
<1> QED
  BY <1>4, <1>5 DEF Min

\* The largest of some natural numbers that have a bound.
LEMMA Largest ==
    ASSUME NEW S \in SUBSET Nat, S # {}, NEW n \in Nat, \A x \in S : x <= n
    PROVE  \E m \in S : \A x \in S : x <= m
<1> DEFINE T == {k \in Nat : n - k \in S}
<1>1. T \in SUBSET Nat /\ T # {}
  <2>1. PICK x \in S : TRUE
    OBVIOUS
  <2>2. n - x \in T
    BY <2>1
  <2> QED
    BY <2>2
<1> HIDE DEF T
<1>2. Min(T) \in T /\ \A k \in T : Min(T) <= k
  BY <1>1, Smallest
<1>3. n - Min(T) \in S
  BY <1>2 DEF T
<1>4. ASSUME NEW x \in S PROVE x <= n - Min(T)
  <2>1. n - x \in T
    BY DEF T
  <2>2. Min(T) <= n - x
    BY <2>1, <1>2
  <2>3. Min(T) \in Nat /\ x \in Nat
    BY <1>1, <1>2
  <2> QED
    BY <2>2, <2>3
<1> QED
  BY <1>3, <1>4

\* How many numbers an interval has.
LEMMA SizeOf ==
    ASSUME NEW a \in Int, NEW b \in Int
    PROVE  IsFiniteSet(a..b) /\ Cardinality(a..b) = IF a > b THEN 0 ELSE b - a + 1
BY FS_Interval

-------------------------------------------------------------------------------
(* Series.                                                                 *)

\* What is known at the end of a day: its price, earlier ones, and the
\* statistics the cleaning uses.
Known(day) == 1..day \cup {Quantiles}

\* The days of an index go up.
IsIndex(index) ==
    /\ index \in Seq(Nat \ {0})
    /\ \A i, j \in DOMAIN index : i < j => index[i] < index[j]

\* All rows from some row on.
FromSome(rows, n) == rows \subseteq 1..n /\ \A i \in rows : i..n \subseteq rows

\* A series has a value in all rows from some row on, and none was computed
\* from a later day than that of its row.
IsSeries(s, index) ==
    /\ FromSome(DOMAIN s, Len(index))
    /\ \A i \in DOMAIN s : s[i] \subseteq Known(index[i])

LEMMA EarlierIsKnown ==
    ASSUME NEW index, IsIndex(index), NEW j \in DOMAIN index, NEW i \in DOMAIN index, j <= i
    PROVE  Known(index[j]) \subseteq Known(index[i])
<1>1. index[j] <= index[i] /\ index[i] \in Nat /\ index[j] \in Nat
  BY DEF IsIndex
<1> QED
  BY <1>1 DEF Known

LEMMA EmptySeries == ASSUME NEW index PROVE IsSeries(Empty, index)
BY DEF IsSeries, FromSome, Empty

\* Values computed from several series.
LEMMA CombineSeries ==
    ASSUME NEW index, NEW S, S # {}, \A s \in S : IsSeries(s, index)
    PROVE  /\ IsSeries(Combine(S), index)
           /\ \A i : i \in DOMAIN Combine(S) <=> \A s \in S : i \in DOMAIN s
           /\ \A i \in DOMAIN Combine(S) : Combine(S)[i] = UNION {s[i] : s \in S}
<1> DEFINE D == {j \in UNION {DOMAIN s : s \in S} : \A s \in S : j \in DOMAIN s}
<1>1. \A i : i \in D <=> \A s \in S : i \in DOMAIN s
  OBVIOUS
<1>2. DOMAIN Combine(S) = D /\ \A i \in D : Combine(S)[i] = UNION {s[i] : s \in S}
  BY DEF Combine
<1> HIDE DEF D
<1>3. FromSome(D, Len(index))
  BY <1>1 DEF FromSome, IsSeries
<1>4. ASSUME NEW i \in D PROVE UNION {s[i] : s \in S} \subseteq Known(index[i])
  BY <1>1 DEF IsSeries
<1> QED
  BY <1>1, <1>2, <1>3, <1>4 DEF IsSeries

LEMMA LocSeries ==
    ASSUME NEW index, NEW s, IsSeries(s, index), NEW rows, FromSome(rows, Len(index))
    PROVE  IsSeries(loc(s, rows), index)
BY DEF loc, IsSeries, FromSome

\* A value and an earlier one.
LEMMA DiffSeries ==
    ASSUME NEW index, IsIndex(index), NEW s, IsSeries(s, index), NEW k \in Nat \ {0}
    PROVE  /\ IsSeries(diff(s, k), index)
           /\ \A i : i \in DOMAIN diff(s, k) <=> i \in DOMAIN s /\ i - k \in DOMAIN s
           /\ \A i \in DOMAIN diff(s, k) : diff(s, k)[i] = s[i] \cup s[i - k]
<1> DEFINE h == shift(s, k)
<1>1. DOMAIN s \subseteq 1..Len(index) /\ Len(index) \in Nat /\ DOMAIN index = 1..Len(index)
  BY DEF IsSeries, FromSome, IsIndex
<1>2. DOMAIN h = {j + k : j \in DOMAIN s} /\ \A i \in DOMAIN h : h[i] = s[i - k]
  BY DEF shift
<1>3. ASSUME NEW i \in DOMAIN s PROVE i \in DOMAIN h <=> i - k \in DOMAIN s
  <2>1. ASSUME i \in DOMAIN h PROVE i - k \in DOMAIN s
    BY <2>1, <1>1, <1>2
  <2>2. ASSUME i - k \in DOMAIN s PROVE i \in DOMAIN h
    <3>1. (i - k) + k = i
      BY <1>1
    <3> QED
      BY <2>2, <3>1, <1>2
  <2> QED
    BY <2>1, <2>2
<1> HIDE DEF h
<1> DEFINE D == {j \in UNION {DOMAIN r : r \in {s, h}} : \A r \in {s, h} : j \in DOMAIN r}
<1>4. \A i : i \in D <=> i \in DOMAIN s /\ i - k \in DOMAIN s
  BY <1>3
<1>5. diff(s, k) = [i \in D |-> UNION {r[i] : r \in {s, h}}]
  BY DEF diff, Combine, h
<1>6. ASSUME NEW i \in D PROVE UNION {r[i] : r \in {s, h}} = s[i] \cup s[i - k]
  <2>1. h[i] = s[i - k]
    BY <1>2, <1>3, <1>4
  <2> QED
    BY <2>1
<1> HIDE DEF D
<1>7. DOMAIN diff(s, k) = D /\ \A i \in D : diff(s, k)[i] = s[i] \cup s[i - k]
  BY <1>5, <1>6
<1>8. FromSome(D, Len(index))
  BY <1>1, <1>4 DEF FromSome, IsSeries
<1>9. ASSUME NEW i \in D PROVE s[i] \cup s[i - k] \subseteq Known(index[i])
  <2>1. i \in DOMAIN index /\ i - k \in DOMAIN index /\ i - k <= i
    BY <1>1, <1>4
  <2>2. Known(index[i - k]) \subseteq Known(index[i])
    BY <2>1, EarlierIsKnown
  <2> QED
    BY <2>2, <1>4 DEF IsSeries
<1> QED
  BY <1>4, <1>7, <1>8, <1>9 DEF IsSeries

\* A window of values.
LEMMA RollingSeries ==
    ASSUME NEW index, IsIndex(index), NEW s, IsSeries(s, index), NEW w \in Nat \ {0}
    PROVE  IsSeries(rolling(s, w), index) /\ DOMAIN rolling(s, w) \subseteq DOMAIN s
<1> DEFINE D == {j \in DOMAIN s : (j - w + 1)..j \subseteq DOMAIN s}
<1>1. DOMAIN s \subseteq 1..Len(index) /\ Len(index) \in Nat /\ DOMAIN index = 1..Len(index)
  BY DEF IsSeries, FromSome, IsIndex
<1>2. DOMAIN rolling(s, w) = D
      /\ \A i \in D : rolling(s, w)[i] = UNION {s[j] : j \in (i - w + 1)..i}
  BY DEF rolling
<1>3. ASSUME NEW i \in D, NEW m \in i..Len(index) PROVE m \in D
  <2>1. m \in DOMAIN s
    BY DEF IsSeries, FromSome
  <2>2. ASSUME NEW x \in (m - w + 1)..m PROVE x \in DOMAIN s
    <3>1. CASE x <= i
      BY <3>1, <1>1
    <3>2. CASE x > i
      BY <3>2, <1>1 DEF IsSeries, FromSome
    <3> QED
      BY <3>1, <3>2, <1>1
  <2> QED
    BY <2>1, <2>2
<1>4. ASSUME NEW i \in D, NEW j \in (i - w + 1)..i PROVE s[j] \subseteq Known(index[i])
  <2>1. i \in DOMAIN index /\ j \in DOMAIN s /\ j \in DOMAIN index /\ j <= i
    BY <1>1
  <2>2. Known(index[j]) \subseteq Known(index[i])
    BY <2>1, EarlierIsKnown
  <2> QED
    BY <2>1, <2>2 DEF IsSeries
<1>5. D \subseteq DOMAIN s
  OBVIOUS
<1> HIDE DEF D
<1> QED
  BY <1>1, <1>2, <1>3, <1>4, <1>5 DEF IsSeries, FromSome

\* All values so far.
LEMMA EwmSeries ==
    ASSUME NEW index, IsIndex(index), NEW s, IsSeries(s, index)
    PROVE  IsSeries(ewm(s), index) /\ DOMAIN ewm(s) = DOMAIN s
<1>1. DOMAIN s \subseteq 1..Len(index) /\ Len(index) \in Nat /\ DOMAIN index = 1..Len(index)
  BY DEF IsSeries, FromSome, IsIndex
<1>2. DOMAIN ewm(s) = DOMAIN s
      /\ \A i \in DOMAIN s : ewm(s)[i] = UNION {s[j] : j \in {x \in DOMAIN s : x <= i}}
  BY DEF ewm
<1>3. ASSUME NEW i \in DOMAIN s, NEW j \in DOMAIN s, j <= i PROVE s[j] \subseteq Known(index[i])
  <2>1. Known(index[j]) \subseteq Known(index[i])
    BY <1>1, <1>3, EarlierIsKnown
  <2> QED
    BY <2>1 DEF IsSeries
<1> QED
  BY <1>2, <1>3 DEF IsSeries

\* Prices and their returns.  A return is of its row and the row before.
Returns(r, index) ==
    \A i \in DOMAIN r : \A e \in r[i] \ Statistics :
        /\ e \in 1..index[i]
        /\ i - 1 \in DOMAIN index => e >= index[i - 1]

LEMMA CloseSeries ==
    ASSUME NEW index, IsIndex(index), NEW c \in {Close(index), RawClose(index)}
    PROVE  IsSeries(c, index) /\ IsSeries(LogReturn(c), index) /\ Returns(LogReturn(c), index)
<1>1. DOMAIN c = DOMAIN index /\ \A i \in DOMAIN index : c[i] \subseteq {index[i], Quantiles}
  BY DEF Close, RawClose
<1>2. Len(index) \in Nat /\ DOMAIN index = 1..Len(index)
      /\ \A i \in DOMAIN index : index[i] \in Nat \ {0}
  BY DEF IsIndex
<1>3. IsSeries(c, index)
  <2>1. FromSome(DOMAIN c, Len(index))
    BY <1>1, <1>2 DEF FromSome
  <2>2. ASSUME NEW i \in DOMAIN c PROVE c[i] \subseteq Known(index[i])
    BY <1>1, <1>2 DEF Known
  <2> QED
    BY <2>1, <2>2 DEF IsSeries
<1>4. /\ IsSeries(LogReturn(c), index)
      /\ \A i : i \in DOMAIN LogReturn(c) <=> i \in DOMAIN c /\ i - 1 \in DOMAIN c
      /\ \A i \in DOMAIN LogReturn(c) : LogReturn(c)[i] = c[i] \cup c[i - 1]
  BY <1>3, DiffSeries, 1 \in Nat \ {0} DEF LogReturn
<1>5. ASSUME NEW i \in DOMAIN LogReturn(c), NEW e \in LogReturn(c)[i] \ Statistics
      PROVE  e \in 1..index[i] /\ e >= index[i - 1]
  <2>1. i \in DOMAIN index /\ i - 1 \in DOMAIN index /\ i - 1 < i
    BY <1>1, <1>2, <1>4
  <2>2. index[i - 1] < index[i]
    BY <2>1 DEF IsIndex
  <2>3. e \in {index[i], index[i - 1]}
    BY <1>1, <1>4, <2>1 DEF Statistics
  <2> QED
    BY <1>2, <2>1, <2>2, <2>3
<1> QED
  BY <1>3, <1>4, <1>5 DEF Returns

\* The features.
LEMMA EngineerSeries ==
    ASSUME LineageAssumption, NEW index, IsIndex(index), NEW c, IsSeries(c, index)
    PROVE  /\ IsSeries(engineer_features(c), index)
           /\ DOMAIN engineer_features(c) \subseteq DOMAIN LogReturn(c)
<1> DEFINE S == {c, LogReturn(c), compute_rsi(c), compute_ema(c), compute_macd(c)}
<1>1. IsSeries(LogReturn(c), index)
  BY DiffSeries, 1 \in Nat \ {0} DEF LogReturn
<1>2. IsSeries(compute_rsi(c), index)
  <2>1. IsSeries(diff(c, 1), index) /\ RsiWindow \in Nat \ {0}
    BY <1>1 DEF LogReturn, LineageAssumption
  <2> QED
    BY <2>1, RollingSeries DEF compute_rsi
<1>3. IsSeries(compute_ema(c), index)
  BY EwmSeries DEF compute_ema
<1>4. IsSeries(compute_macd(c), index)
  <2>1. IsSeries(ewm(c), index)
    BY EwmSeries
  <2> QED
    BY <2>1, EwmSeries DEF compute_macd
<1>5. S # {} /\ \A s \in S : IsSeries(s, index)
  BY <1>1, <1>2, <1>3, <1>4
<1> HIDE DEF S
<1>6. /\ IsSeries(Combine(S), index)
      /\ \A i : i \in DOMAIN Combine(S) <=> \A s \in S : i \in DOMAIN s
  BY <1>5, CombineSeries
<1>7. LogReturn(c) \in S
  BY DEF S
<1>8. engineer_features(c) = Combine(S)
  BY DEF engineer_features, S
<1> QED
  BY <1>6, <1>7, <1>8

\* The regime features of the package.
LEMMA RegimeSeries ==
    ASSUME LineageAssumption, NEW index, IsIndex(index),
           NEW c, IsSeries(c, index), NEW s, IsSeries(s, index)
    PROVE  /\ IsSeries(_build_regime_features(s, c), index)
           /\ DOMAIN _build_regime_features(s, c) \subseteq DOMAIN s
<1> DEFINE close  == loc(c, DOMAIN s)
           ema    == loc(compute_ema(c), DOMAIN s)
           logret == loc(LogReturn(c), DOMAIN s)
           S == {s, rolling(logret, VolWindow), rolling(close, VolWindow),
                 diff(ema, Lag), diff(close, Lag)}
<1>1. FromSome(DOMAIN s, Len(index)) /\ VolWindow \in Nat \ {0} /\ Lag \in Nat \ {0}
  BY DEF IsSeries, LineageAssumption
<1>2. IsSeries(close, index)
  BY <1>1, LocSeries
<1>3. IsSeries(ema, index)
  <2>1. IsSeries(compute_ema(c), index)
    BY EwmSeries DEF compute_ema
  <2> QED
    BY <1>1, <2>1, LocSeries
<1>4. IsSeries(logret, index)
  <2>1. IsSeries(LogReturn(c), index)
    BY DiffSeries, 1 \in Nat \ {0} DEF LogReturn
  <2> QED
    BY <1>1, <2>1, LocSeries
<1> HIDE DEF close, ema, logret
<1>5. IsSeries(rolling(logret, VolWindow), index) /\ IsSeries(rolling(close, VolWindow), index)
  BY <1>1, <1>2, <1>4, RollingSeries
<1>6. IsSeries(diff(ema, Lag), index) /\ IsSeries(diff(close, Lag), index)
  BY <1>1, <1>2, <1>3, DiffSeries
<1>7. S # {} /\ \A r \in S : IsSeries(r, index)
  BY <1>5, <1>6
<1>8. s \in S
  OBVIOUS
<1>9. _build_regime_features(s, c) = Combine(S)
  BY DEF _build_regime_features, close, ema, logret
<1> HIDE DEF S
<1>10. /\ IsSeries(Combine(S), index)
       /\ \A i : i \in DOMAIN Combine(S) <=> \A r \in S : i \in DOMAIN r
  BY <1>7, CombineSeries
<1> QED
  BY <1>8, <1>9, <1>10

\* The columns of the quantitative report.
LEMMA QuantSeries ==
    ASSUME LineageAssumption, NEW index, IsIndex(index), NEW c, IsSeries(c, index)
    PROVE  /\ IsSeries(_engineer(c), index)
           /\ DOMAIN _engineer(c) \subseteq DOMAIN LogReturn(c)
<1> DEFINE S == {engineer_features(c), rolling(LogReturn(c), VolWindow), rolling(c, VolWindow),
                 diff(compute_ema(c), Lag), diff(c, Lag)}
<1>1. VolWindow \in Nat \ {0} /\ Lag \in Nat \ {0}
  BY DEF LineageAssumption
<1>2. IsSeries(engineer_features(c), index)
      /\ DOMAIN engineer_features(c) \subseteq DOMAIN LogReturn(c)
  BY EngineerSeries
<1>3. IsSeries(LogReturn(c), index)
  BY DiffSeries, 1 \in Nat \ {0} DEF LogReturn
<1>4. IsSeries(compute_ema(c), index)
  BY EwmSeries DEF compute_ema
<1>5. IsSeries(rolling(LogReturn(c), VolWindow), index) /\ IsSeries(rolling(c, VolWindow), index)
  BY <1>1, <1>3, RollingSeries
<1>6. IsSeries(diff(compute_ema(c), Lag), index) /\ IsSeries(diff(c, Lag), index)
  BY <1>1, <1>4, DiffSeries
<1>7. S # {} /\ \A r \in S : IsSeries(r, index)
  BY <1>2, <1>5, <1>6
<1>8. engineer_features(c) \in S
  OBVIOUS
<1>9. _engineer(c) = Combine(S)
  BY DEF _engineer
<1> HIDE DEF S
<1>10. /\ IsSeries(Combine(S), index)
       /\ \A i : i \in DOMAIN Combine(S) <=> \A r \in S : i \in DOMAIN r
  BY <1>7, CombineSeries
<1> QED
  BY <1>2, <1>8, <1>9, <1>10

-------------------------------------------------------------------------------
(* Indexes.                                                                *)

\* The days of a download.
LEMMA DownloadIndex ==
    ASSUME ResearchAssumption, NEW n \in Nat, NEW index \in Downloads(n)
    PROVE  /\ IsIndex(index)
           /\ \A i \in DOMAIN index : index[i] \in 1..n
<1>1. CASE index = [i \in 1..n |-> i]
  BY <1>1 DEF IsIndex
<1>2. CASE \E g \in Gaps : index = [i \in 1..(n - 1) |-> IF i < g THEN i ELSE i + 1]
  <2>1. PICK g \in Gaps : index = [i \in 1..(n - 1) |-> IF i < g THEN i ELSE i + 1]
    BY <1>2
  <2>2. g \in Nat
    BY DEF ResearchAssumption
  <2>3. DOMAIN index = 1..(n - 1) /\ \A i \in 1..(n - 1) : index[i] = IF i < g THEN i ELSE i + 1
    BY <2>1
  <2>4. \A i \in 1..(n - 1) : index[i] \in Nat \ {0} /\ index[i] \in 1..n
    BY <2>2, <2>3
  <2>5. \A i, j \in 1..(n - 1) : i < j => index[i] < index[j]
    BY <2>2, <2>3
  <2>6. \E m \in Nat : index \in [1..m -> Nat \ {0}]
    <3>1. CASE n = 0
      <4>1. 1..(n - 1) = 1..0
        BY <3>1
      <4> QED
        BY <4>1, <2>1, <2>4
    <3>2. CASE n > 0
      <4>1. n - 1 \in Nat
        BY <3>2
      <4>2. index \in [1..(n - 1) -> Nat \ {0}]
        BY <2>1, <2>4
      <4> QED
        BY <4>1, <4>2
    <3> QED
      BY <3>1, <3>2
  <2>7. index \in Seq(Nat \ {0})
    BY <2>6
  <2> QED
    BY <2>3, <2>4, <2>5, <2>7 DEF IsIndex
<1> QED
  BY <1>1, <1>2 DEF Downloads

\* The days of a set, in order.
LEMMA OrderIndex ==
    ASSUME NEW n \in Nat, NEW S \in SUBSET (1..n)
    PROVE  /\ IsIndex(InOrder(S))
           /\ \A k \in DOMAIN InOrder(S) : InOrder(S)[k] \in S
<1> DEFINE below(d) == {e \in S : e <= d}
           at(k) == {d \in S : Cardinality(below(d)) >= k}
           order == InOrder(S)
<1>0. S \in SUBSET Nat /\ \A d \in S : d \in Nat \ {0} /\ d <= n
  OBVIOUS
<1>1. IsFiniteSet(S) /\ Cardinality(S) \in Nat
  <2>1. IsFiniteSet(1..n)
    BY SizeOf
  <2>2. IsFiniteSet(S)
    BY <2>1, FS_Subset
  <2> QED
    BY <2>2, FS_CardinalityType
<1>2. \A d \in S : IsFiniteSet(below(d)) /\ Cardinality(below(d)) \in Nat
  <2>1. ASSUME NEW d \in S PROVE IsFiniteSet(below(d)) /\ Cardinality(below(d)) \in Nat
    <3>1. below(d) \in SUBSET S
      OBVIOUS
    <3>2. IsFiniteSet(below(d))
      BY <1>1, <3>1, FS_Subset
    <3> QED
      BY <3>2, FS_CardinalityType
  <2> QED
    BY <2>1
<1>3. ASSUME NEW k \in 1..Cardinality(S) PROVE at(k) # {}
  <2>1. S # {} /\ S \in SUBSET Nat /\ \A x \in S : x <= n
    BY <1>0, <1>1, FS_EmptySet
  <2>2. PICK m \in S : \A x \in S : x <= m
    BY <2>1, Largest
  <2>3. below(m) = S
    BY <1>0, <2>2
  <2>4. m \in at(k)
    BY <2>3, <1>1
  <2> QED
    BY <2>4
<1>4. ASSUME NEW k \in 1..Cardinality(S)
      PROVE  Min(at(k)) \in at(k) /\ \A x \in at(k) : Min(at(k)) <= x
  <2>1. at(k) \in SUBSET Nat
    BY <1>0
  <2> HIDE DEF at
  <2> QED
    BY <2>1, <1>3, Smallest
<1>5. DOMAIN order = 1..Cardinality(S) /\ \A k \in 1..Cardinality(S) : order[k] = Min(at(k))
  BY DEF InOrder
<1>6. ASSUME NEW k \in 1..Cardinality(S), NEW l \in 1..Cardinality(S), k < l
      PROVE  Min(at(k)) < Min(at(l))
  <2> DEFINE x == Min(at(k))
             y == Min(at(l))
  <2>1. /\ x \in S /\ Cardinality(below(x)) >= k /\ \A d \in at(k) : x <= d
        /\ y \in S /\ Cardinality(below(y)) >= l
    BY <1>4
  <2> HIDE DEF x, y
  <2>2. Cardinality(below(y)) \in Nat /\ IsFiniteSet(below(y))
    BY <1>2, <2>1
  <2>3. y \in at(k)
    BY <2>1, <2>2, <1>6
  <2>4. x <= y /\ x \in Nat /\ y \in Nat
    BY <2>1, <2>3
  <2>5. x # y
    <3> SUFFICES ASSUME x = y PROVE FALSE
      OBVIOUS
    <3> DEFINE B == below(y) \ {y}
    <3>1. y \in below(y)
      BY <2>1, <2>4
    <3>2. IsFiniteSet(B) /\ Cardinality(B) = Cardinality(below(y)) - 1
      BY <2>2, <3>1, FS_RemoveElement
    <3>3. Cardinality(B) >= k /\ Cardinality(B) # 0
      BY <3>2, <2>1, <2>2, <1>6
    <3>4. B # {}
      BY <3>3, FS_EmptySet
    <3>5. B \in SUBSET Nat /\ \A d \in B : d <= n
      BY <1>0
    <3> HIDE DEF B
    <3>6. PICK p \in B : \A d \in B : d <= p
      BY <3>4, <3>5, Largest
    <3>7. p \in S /\ p < y
      BY <1>0, <3>6, <2>4 DEF B
    <3>8. below(p) = B
      <4>1. ASSUME NEW d \in S, d <= p PROVE d \in B
        BY <1>0, <2>4, <3>7, <4>1 DEF B
      <4>2. ASSUME NEW d \in B PROVE d \in S /\ d <= p
        BY <3>6 DEF B
      <4> QED
        BY <4>1, <4>2
    <3>9. p \in at(k)
      BY <3>3, <3>7, <3>8
    <3>10. x <= p /\ p \in Nat
      BY <2>1, <3>7, <3>9
    <3> QED
      BY <3>7, <3>10, <2>4
  <2>6. x < y
    BY <2>4, <2>5
  <2> QED
    BY <2>6 DEF x, y
<1>7. \A k \in 1..Cardinality(S) : Min(at(k)) \in S
  BY <1>4
<1> HIDE DEF at, below
<1>8. \A k \in DOMAIN order : order[k] \in S /\ order[k] \in Nat \ {0}
  <2> HIDE DEF order
  <2> QED
    BY <1>0, <1>5, <1>7
<1>9. order \in [1..Cardinality(S) -> Nat \ {0}]
  <2>1. order = [k \in 1..Cardinality(S) |-> order[k]]
    BY DEF InOrder
  <2> HIDE DEF order
  <2> QED
    BY <1>5, <1>8, <2>1
<1>10. order \in Seq(Nat \ {0})
  BY <1>1, <1>9
<1>11. \A i, j \in DOMAIN order : i < j => order[i] < order[j]
  BY <1>5, <1>6
<1> HIDE DEF order
<1> QED
  BY <1>8, <1>10, <1>11 DEF IsIndex, order

\* A series for some of its days.
LEMMA Reindexed ==
    ASSUME NEW own, IsIndex(own), NEW s, IsSeries(s, own), NEW common, IsIndex(common),
           \A k \in DOMAIN common : \E i \in DOMAIN s : own[i] = common[k]
    PROVE  /\ IsSeries(reindex(s, own, common), common)
           /\ DOMAIN reindex(s, own, common) = DOMAIN common
           /\ Returns(s, own) => Returns(reindex(s, own, common), common)
<1> DEFINE at(k) == CHOOSE i \in DOMAIN own : own[i] = common[k]
           new == reindex(s, own, common)
<1>1. DOMAIN s \subseteq DOMAIN own
  BY DEF IsSeries, FromSome, IsIndex
<1>2. ASSUME NEW k \in DOMAIN common
      PROVE  at(k) \in DOMAIN s /\ own[at(k)] = common[k]
  <2>1. PICK i \in DOMAIN s : own[i] = common[k]
    OBVIOUS
  <2>2. at(k) \in DOMAIN own /\ own[at(k)] = common[k]
    BY <2>1, <1>1
  <2> HIDE DEF at
  <2>3. at(k) = i
    <3>1. at(k) \in Nat /\ i \in Nat /\ i \in DOMAIN own
      BY <2>1, <2>2, <1>1 DEF IsIndex
    <3>2. own[i] \in Nat
      BY <3>1 DEF IsIndex
    <3>3. ~(at(k) < i) /\ ~(i < at(k))
      BY <2>1, <2>2, <3>1, <3>2 DEF IsIndex
    <3> QED
      BY <3>1, <3>3
  <2> QED
    BY <2>2, <2>3
<1>3. DOMAIN new = DOMAIN common /\ \A k \in DOMAIN common : new[k] = s[at(k)]
  BY DEF reindex
<1> HIDE DEF at, new
<1>4. IsSeries(new, common)
  <2>1. FromSome(DOMAIN new, Len(common))
    <3>1. Len(common) \in Nat /\ DOMAIN common = 1..Len(common)
      BY DEF IsIndex
    <3> QED
      BY <1>3, <3>1 DEF FromSome
  <2>2. ASSUME NEW k \in DOMAIN new PROVE new[k] \subseteq Known(common[k])
    BY <1>2, <1>3 DEF IsSeries
  <2> QED
    BY <2>1, <2>2 DEF IsSeries
<1>5. ASSUME Returns(s, own) PROVE Returns(new, common)
  <2> SUFFICES ASSUME NEW k \in DOMAIN common, NEW e \in s[at(k)] \ Statistics
               PROVE  /\ e \in 1..common[k]
                      /\ k - 1 \in DOMAIN common => e >= common[k - 1]
    BY <1>3 DEF Returns
  <2>1. at(k) \in DOMAIN s /\ own[at(k)] = common[k] /\ at(k) \in DOMAIN own
    BY <1>1, <1>2
  <2>2. e \in 1..own[at(k)] /\ (at(k) - 1 \in DOMAIN own => e >= own[at(k) - 1])
    BY <1>5, <2>1 DEF Returns
  <2>3. ASSUME k - 1 \in DOMAIN common PROVE e >= common[k - 1]
    <3> DEFINE a == at(k)
               b == at(k - 1)
    <3>1. b \in DOMAIN own /\ own[b] = common[k - 1]
      BY <1>1, <1>2, <2>3
    <3>2. k \in Nat /\ k - 1 < k
      BY DEF IsIndex
    <3>3. common[k - 1] < common[k]
      BY <2>3, <3>2 DEF IsIndex
    <3> HIDE DEF a, b
    <3>4. a \in Nat \ {0} /\ b \in Nat \ {0} /\ Len(own) \in Nat /\ DOMAIN own = 1..Len(own)
      BY <2>1, <3>1 DEF IsIndex, a
    <3>5. own[b] < own[a]
      BY <2>1, <3>1, <3>3 DEF a
    <3>6. b < a
      <4>1. own[a] \in Nat /\ own[b] \in Nat
        BY <2>1, <3>1 DEF IsIndex, a
      <4>2. ~(a < b) /\ a # b
        BY <2>1, <3>1, <3>5, <4>1 DEF IsIndex, a
      <4> QED
        BY <3>4, <4>2
    <3>7. a - 1 \in DOMAIN own /\ b <= a - 1
      BY <2>1, <3>1, <3>4, <3>6 DEF a
    <3>8. own[b] <= own[a - 1] /\ own[a - 1] \in Nat /\ own[b] \in Nat
      <4>1. own[a - 1] \in Nat /\ own[b] \in Nat
        BY <3>1, <3>7 DEF IsIndex
      <4>2. b = a - 1 \/ own[b] < own[a - 1]
        <5>1. b = a - 1 \/ b < a - 1
          BY <3>4, <3>7
        <5> QED
          BY <5>1, <3>1, <3>7 DEF IsIndex
      <4> QED
        BY <4>1, <4>2
    <3>9. e >= own[a - 1] /\ e \in Nat
      BY <2>2, <3>7, <2>1 DEF a, IsIndex
    <3> QED
      BY <3>1, <3>8, <3>9
  <2> QED
    BY <2>1, <2>2, <2>3
<1> QED
  BY <1>3, <1>4, <1>5 DEF new

-------------------------------------------------------------------------------
(* Partitions.                                                             *)

\* Training, validation and test rows follow one another, the row after the
\* last one exists, and the rows before the test rows fill a sequence.
Cut(a, b, c, d) == [train |-> a..(b - 1), val |-> b..(c - 1), test |-> c..(d - 1)]

Partition(p, rows, n, k) ==
    \E a \in rows, b, c, d \in 1..n :
        a <= b /\ b <= c /\ c <= d /\ c - a >= k /\ p = Cut(a, b, c, d)

\* The sequences of the test rows are those that end before each of them.
LEMMA ContextIsTest ==
    ASSUME NEW a \in Nat, NEW c \in Nat, NEW d \in Nat, NEW k \in Nat \ {0},
           a <= c, c <= d, c - a >= k
    PROVE  WithContext(c..(d - 1), a..(c - 1), k) = c..(d - 1)
<1> DEFINE before == a..(c - 1)
           test == c..(d - 1)
           rows == LastOf(before, k) \cup test
<1>1. Max(before) = c - 1
  BY MinMax
<1>2. LastOf(before, k) = (c - k)..(c - 1)
  BY <1>1 DEF LastOf
<1>3. rows = (c - k)..(d - 1)
  BY <1>2
<1>4. Min(rows) = c - k /\ Cardinality(rows) = d - c + k
  <2>1. c - k \in Int /\ d - 1 \in Int /\ c - k <= d - 1 /\ (d - 1) - (c - k) + 1 = d - c + k
    OBVIOUS
  <2> HIDE DEF rows
  <2>2. Min((c - k)..(d - 1)) = c - k
    BY <2>1, MinMax
  <2>3. Cardinality((c - k)..(d - 1)) = (d - 1) - (c - k) + 1
    BY <2>1, SizeOf
  <2> QED
    BY <1>3, <2>1, <2>2, <2>3
<1> HIDE DEF rows
<1>5. create_sequences(rows, k) = {i \in rows : i - (c - k) \in k..((d - c + k) - 1)}
  BY <1>4 DEF create_sequences, Slice
<1>6. {i \in rows : i - (c - k) \in k..((d - c + k) - 1)} = test
  BY <1>3
<1>7. WithContext(test, before, k) = create_sequences(rows, k)
  BY DEF WithContext, rows
<1> QED
  BY <1>5, <1>6, <1>7

\* With a sequence for each test row, positions are rows.
LEMMA SequenceIsRow ==
    ASSUME NEW c \in Nat, NEW d \in Nat, NEW i \in c..(d - 1)
    PROVE  SequenceOf(i, c..(d - 1), c..(d - 1)) = i
<1>1. Min(c..(d - 1)) = c /\ Max(c..(d - 1)) = d - 1
  BY MinMax
<1>2. Cardinality(c..(d - 1)) = d - c
  BY SizeOf
<1> QED
  BY <1>1, <1>2 DEF SequenceOf

\* Shares of at most the whole.
LEMMA ShareBounds ==
    ASSUME ResearchAssumption, NEW n \in Nat, NEW k \in Nat \ {0}, n >= 2 * k + 9
    PROVE  /\ Share(n, TrainPct) \in Nat /\ Share(n, ValPct) \in Nat
           /\ Share(n, TrainPct) + Share(n, ValPct) <= n
           /\ Share(n, TrainPct) >= k /\ Share(n, ValPct) > 0
<1> DEFINE t == n * TrainPct
           v == n * ValPct
<1>1. TrainPct \in Nat /\ ValPct \in Nat /\ TrainPct >= 50 /\ ValPct >= 10 /\ TrainPct + ValPct <= 100
  BY DEF ResearchAssumption
<1>2. t \in Nat /\ v \in Nat /\ t >= n * 50 /\ v >= n * 10 /\ t + v <= n * 100
  <2>1. t \in Nat /\ v \in Nat
    BY <1>1
  <2>2. t >= n * 50 /\ v >= n * 10
    BY <1>1
  <2>3. t + v = n * (TrainPct + ValPct)
    BY <1>1
  <2>4. n * (TrainPct + ValPct) <= n * 100
    BY <1>1
  <2> QED
    BY <2>1, <2>2, <2>3, <2>4
<1>3. Share(n, TrainPct) = t \div 100 /\ Share(n, ValPct) = v \div 100
  BY DEF Share
<1> HIDE DEF t, v
<1>4. /\ t \div 100 \in Int /\ 100 * (t \div 100) <= t /\ t < 100 * (t \div 100) + 100
      /\ v \div 100 \in Int /\ 100 * (v \div 100) <= v /\ v < 100 * (v \div 100) + 100
  BY <1>2
<1> QED
  BY <1>2, <1>3, <1>4

\* A part of an interval.
LEMMA SliceOf ==
    ASSUME NEW a \in Nat, NEW z \in Nat, a <= z, NEW x \in Nat, NEW y \in Nat, y <= z - a + 1
    PROVE  Slice(a..z, x, y) = (a + x)..(a + y - 1)
<1>1. Min(a..z) = a
  BY MinMax
<1> QED
  BY <1>1 DEF Slice

\* split_data.
LEMMA SplitParts ==
    ASSUME ResearchAssumption, NEW k \in Nat \ {0}, NEW n \in Nat, NEW a \in 1..n,
           n - a >= 2 * k + 9
    PROVE  LET M == a..(n - 1)
               b == a + Share(n - a, TrainPct)
               c == b + Share(n - a, ValPct)
           IN /\ b \in Nat /\ c \in Nat /\ b < c /\ c <= n /\ b - a >= k
              /\ split_data(M) = Cut(a, b, c, n)
<1> DEFINE M == a..(n - 1)
           t == Share(n - a, TrainPct)
           v == Share(n - a, ValPct)
<1>1. Cardinality(M) = n - a /\ n - a \in Nat
  BY SizeOf
<1>2. t \in Nat /\ v \in Nat /\ t + v <= n - a /\ t >= k /\ v > 0
  BY <1>1, ShareBounds
<1> HIDE DEF t, v
<1> DEFINE A == a..((a + t) - 1)
           B == (a + t)..((a + t + v) - 1)
           C == (a + t + v)..(n - 1)
<1>3. Slice(M, 0, t) = A /\ Slice(M, t, t + v) = B /\ Slice(M, t + v, n - a) = C
  <2>1. a \in Nat /\ n - 1 \in Nat /\ a <= n - 1 /\ (n - 1) - a + 1 = n - a
        /\ a + (n - a) - 1 = n - 1 /\ a + (t + v) - 1 = a + t + v - 1 /\ t + v \in Nat
    BY <1>1, <1>2
  <2>2. Slice(M, 0, t) = (a + 0)..(a + t - 1)
    BY <1>1, <1>2, <2>1, SliceOf
  <2>3. Slice(M, t, t + v) = (a + t)..(a + (t + v) - 1)
    BY <1>1, <1>2, <2>1, SliceOf
  <2>4. Slice(M, t + v, n - a) = (a + (t + v))..(a + (n - a) - 1)
    BY <1>1, <1>2, <2>1, SliceOf
  <2> QED
    BY <1>1, <1>2, <2>1, <2>2, <2>3, <2>4
<1> HIDE DEF M
<1>4. split_data(M) = [train |-> Slice(M, 0, t), val |-> Slice(M, t, t + v),
                       test |-> Slice(M, t + v, n - a)]
  BY <1>1 DEF split_data, t, v
<1>5. Cut(a, a + t, a + t + v, n) = [train |-> A, val |-> B, test |-> C]
  BY DEF Cut
<1> HIDE DEF A, B, C
<1>6. split_data(M) = Cut(a, a + t, a + t + v, n)
  BY <1>3, <1>4, <1>5
<1> QED
  BY <1>1, <1>2, <1>6 DEF M, t, v

\* Where fold f ends: folds are of the same size, and one more fits.
LEMMA FoldEnds ==
    ASSUME NEW q \in Nat, NEW folds \in Nat, NEW f \in 1..folds
    PROVE  LET size == q \div (folds + 1)
           IN /\ size * f \in Nat /\ size * (f + 1) \in Nat
              /\ size * f <= size * (f + 1) /\ size * (f + 1) <= q
<1> DEFINE g == folds + 1
           size == q \div g
           x == size * f
           y == size * (f + 1)
<1>1. g \in Nat \ {0} /\ f \in Nat /\ f + 1 <= g
  OBVIOUS
<1>2. size \in Nat /\ g * size <= q
  <2> HIDE DEF g
  <2>1. size \in Int /\ g * size <= q /\ q < g * size + g
    BY <1>1
  <2>2. size >= 0
    <3> SUFFICES ASSUME size <= -1 PROVE FALSE
      BY <2>1
    <3> HIDE DEF size
    <3>1. g * size <= g * (-1)
      BY <1>1, <2>1
    <3> QED
      BY <3>1, <1>1, <2>1
  <2> QED
    BY <2>1, <2>2
<1> HIDE DEF size
<1>3. x \in Nat /\ y \in Nat /\ y = x + size
  BY <1>1, <1>2
<1>4. (f + 1) * size <= g * size
  <2> HIDE DEF g
  <2> QED
    BY <1>1, <1>2
<1>5. y = (f + 1) * size
  BY <1>1, <1>2
<1>6. (f + 1) * size \in Int /\ g * size \in Int
  BY <1>1, <1>2
<1> HIDE DEF x, y, g
<1>7. x <= y /\ y <= q
  BY <1>1, <1>2, <1>3, <1>4, <1>5, <1>6
<1> QED
  BY <1>3, <1>7 DEF x, y, size, g

\* FoldRows, of a fold that is used: x rows to train on, up to row y to test.
LEMMA FoldParts ==
    ASSUME NEW k \in Nat \ {0}, NEW n \in Nat, NEW a \in 1..n, a < n,
           NEW x \in Nat, NEW y \in Nat, x <= y, y <= n - a,
           Cardinality(create_sequences(Slice(a..(n - 1), 0, x), k)) >= 10
    PROVE  /\ a + x \in 1..n /\ a + y \in 1..n /\ a + x <= a + y /\ (a + x) - a >= k
           /\ [train |-> Slice(a..(n - 1), 0, x), val |-> {},
               test |-> Slice(a..(n - 1), x, y)] = Cut(a, a + x, a + x, a + y)
<1> DEFINE M == a..(n - 1)
           T == Slice(M, 0, x)
           E == Slice(M, x, y)
<1>1. a \in Nat
  OBVIOUS
<1>2. T = a..((a + x) - 1) /\ E = (a + x)..((a + y) - 1)
  <2>1. n - 1 \in Nat /\ a <= n - 1 /\ (n - 1) - a + 1 = n - a
    OBVIOUS
  <2>2. Slice(M, 0, x) = (a + 0)..(a + x - 1)
    BY <1>1, <2>1, SliceOf
  <2>3. Slice(M, x, y) = (a + x)..(a + y - 1)
    BY <1>1, <2>1, SliceOf
  <2> QED
    BY <1>1, <2>2, <2>3
<1>3. Cardinality(create_sequences(T, k)) >= 10
  OBVIOUS
<1> HIDE DEF T, E
<1>4. Cardinality(T) = x
  <2>1. Cardinality(a..((a + x) - 1)) = IF a > (a + x) - 1 THEN 0 ELSE (a + x) - 1 - a + 1
    BY <1>1, SizeOf
  <2> QED
    BY <1>1, <1>2, <2>1
<1>5. x >= k
  <2> SUFFICES ASSUME x < k PROVE FALSE
    OBVIOUS
  <2>1. create_sequences(T, k) = {i \in T : i - Min(T) \in k..(x - 1)}
    BY <1>4 DEF create_sequences, Slice
  <2>2. k..(x - 1) = {}
    OBVIOUS
  <2>3. create_sequences(T, k) = {}
    BY <2>1, <2>2
  <2> QED
    BY <2>3, <1>3, FS_EmptySet
<1> DEFINE U == a..((a + x) - 1)
           V == (a + x)..((a + x) - 1)
           W == (a + x)..((a + y) - 1)
<1>6. T = U /\ V = {} /\ E = W
  BY <1>1, <1>2
<1>7. Cut(a, a + x, a + x, a + y) = [train |-> U, val |-> V, test |-> W]
  BY DEF Cut
<1> HIDE DEF U, V, W
<1>8. [train |-> T, val |-> {}, test |-> E] = Cut(a, a + x, a + x, a + y)
  BY <1>6, <1>7
<1>9. /\ a + x \in 1..n /\ a + y \in 1..n /\ a + x <= a + y /\ (a + x) - a >= k
  BY <1>1, <1>5
<1> QED
  BY <1>8, <1>9 DEF T, E

\* Finite sets of natural numbers have a bound.
LEMMA FiniteBound ==
    ASSUME NEW S \in SUBSET Nat, IsFiniteSet(S)
    PROVE  \E m \in Nat : \A x \in S : x <= m
<1>1. PICK n \in Nat : ExistsBijection(1..n, S)
  BY FS_NatBijection
<1>2. PICK f \in Bijection(1..n, S) : TRUE
  BY <1>1 DEF ExistsBijection
<1>3. f \in [1..n -> S] /\ \A x \in S : \E i \in 1..n : f[i] = x
  BY <1>2 DEF Bijection, Injection, Surjection
<1> DEFINE K == {k \in 0..n : \E m \in Nat : \A i \in 1..k : f[i] <= m}
<1>4. K \in SUBSET Nat /\ 0 \in K /\ \A k \in K : k <= n
  <2>1. \A i \in 1..0 : f[i] <= 0
    OBVIOUS
  <2> QED
    BY <2>1
<1>5. \A k \in 0..n : k \in K <=> \E m \in Nat : \A i \in 1..k : f[i] <= m
  OBVIOUS
<1> HIDE DEF K
<1>6. PICK k \in K : \A j \in K : j <= k
  BY <1>4, Largest
<1>7. PICK m \in Nat : \A i \in 1..k : f[i] <= m
  <2>1. k \in 0..n
    BY <1>4
  <2> QED
    BY <2>1, <1>5
<1>8. k = n
  <2> SUFFICES ASSUME k < n PROVE FALSE
    BY <1>4
  <2>0. k \in Nat
    BY <1>4
  <2>1. k + 1 \in 1..n /\ k + 1 \in 0..n /\ f[k + 1] \in Nat
    <3>1. k + 1 \in 1..n
      BY <2>0
    <3> QED
      <4>1. k + 1 \in 0..n
        BY <3>1, <2>0
      <4>2. f[k + 1] \in S
        BY <3>1, <1>3
      <4> QED
        BY <3>1, <4>1, <4>2
  <2>2. PICK l \in Nat : l >= m /\ l >= f[k + 1]
    <3>1. m + f[k + 1] \in Nat /\ m + f[k + 1] >= m /\ m + f[k + 1] >= f[k + 1]
      BY <2>1
    <3> QED
      BY <3>1
  <2>3. ASSUME NEW i \in 1..(k + 1) PROVE f[i] <= l
    <3>1. f[i] \in Nat
      <4>1. i \in 1..n
        BY <2>0, <2>1
      <4> QED
        BY <4>1, <1>3
    <3>2. CASE i = k + 1
      BY <3>2, <2>2
    <3>3. CASE i \in 1..k
      BY <3>1, <3>3, <1>7, <2>2
    <3> QED
      BY <3>2, <3>3, <2>0
  <2>4. k + 1 \in K
    BY <2>1, <2>3, <1>5
  <2> QED
    BY <2>4, <1>6, <1>4
<1> QED
  BY <1>3, <1>7, <1>8

-------------------------------------------------------------------------------
(* The invariant.                                                          *)

\* Requests that download and clean a history of their own.
Histories == {"train", "predict", "infer", "regime", "validate"}

RequestOK ==
    /\ req.kind \in Histories \cup {"quant", "compare"}
    /\ req.kind \in Histories => req.seq_len \in Nat \ {0}
    /\ req.n_folds \in Nat /\ fold \in Nat

\* Features and returns are series over the days of the history.
DataOK ==
    /\ IsIndex(days)
    /\ IsSeries(df, days)
    /\ IsSeries(ret, days) /\ Returns(ret, days)
    /\ DOMAIN ret = DOMAIN df

\* How the history of some days is split.
FeatureRows(index) == DOMAIN engineer_features(Close(index))
SplitOf(index) == split_data(FeatureRows(index) \ {Max(FeatureRows(index))})

PartOK ==
    \/ part = NoPart
    \/ req.kind \in Histories /\ Partition(part, DOMAIN df, Len(days), req.seq_len)

\* Scalers and weights have seen nothing later than the first test row; those
\* of the store nothing later than the test rows of what they were trained on.
FitOK ==
    /\ \A i \in part.test : fit.scaler \cup fit.weights \subseteq Known(days[i])
    /\ store # NoModel =>
          \A i \in SplitOf(store.trained).test :
             store.scaler \cup store.weights \subseteq Known(store.trained[i])

\* Rows that are labelled, and what labels that are not copies depend on.
LabelOK ==
    /\ DOMAIN label \in {{}, DOMAIN df}
    /\ \A i \in DOMAIN label \cap DOMAIN Filled :
          label[i] \subseteq Known(days[i]) \cup {Clusters}

\* What is there at each stage of a request.
Untouched == part = NoPart /\ pred = Empty /\ label = Empty /\ report = NoReport

StageOK ==
    /\ stage \in {"asked", "raw", "clean"} => Untouched /\ df = Empty /\ ret = Empty
    /\ stage \in {"raw", "clean"} => req.kind \in Histories
    /\ stage \in {"train", "predict", "infer", "regime", "validate"} =>
          /\ req.kind = stage
          /\ Cardinality(DOMAIN df) >= 2 * req.seq_len + 10
          /\ DOMAIN df = FeatureRows(days)
    /\ stage \in {"train", "predict", "infer", "regime"} => Untouched
    /\ stage = "validate" => label = Empty /\ report = NoReport
    /\ stage \in {"split", "save", "backtest", "forecast"} =>
          /\ part = SplitOf(days) /\ part.val # {}
          /\ Partition(part, DOMAIN df, Len(days), req.seq_len)
    /\ stage = "split" => /\ req.kind \in {"train", "predict", "infer"}
                          /\ pred = Empty /\ label = Empty
    /\ stage \in {"save", "saved"} => req.kind = "train"
    /\ stage = "saved" => store.seq_len = req.seq_len
    /\ stage = "backtest" => req.kind \in {"predict", "infer"} /\ DOMAIN pred = part.test
    /\ stage = "forecast" => req.kind = "infer"
    /\ stage = "quant" => req.kind = "quant" /\ Untouched
    /\ stage \in {"risk", "stats", "similar"} => req.kind = "regime"
    /\ stage = "ic" => req.kind = "quant"
    /\ stage = "labelled" => req.kind \in {"regime", "quant"}
    /\ stage \in {"risk", "stats", "labelled", "similar", "ic"} => DOMAIN label = DOMAIN df

\* The two parts of NoLookahead.
PredictionsOK ==
    Warm /\ SameHistory =>
       \A i \in DOMAIN pred : pred[i] \subseteq Known(days[i]) /\ i \notin part.train

PositionsOK ==
    Warm /\ SameHistory /\ report.kind = "positions" =>
       \A r \in report.rows :
          \/ r.row \in Copied
          \/ /\ r.held \subseteq 1..days[r.row] \cup Statistics
             /\ \A e \in r.earned : e >= days[r.row]

\* Predictions are made where numpy can pair the sequences with the rows.
PredOK ==
    /\ DOMAIN pred \in {{}, part.test}
    /\ DOMAIN pred # {} => Cardinality(Sequences) \in {1, Cardinality(part.test)}

\* The parts of TargetsAligned that do not follow from PartOK.
AlignedOK ==
    /\ PredOK
    /\ report.kind = "comparison" =>
          LET daysOf(s) == {r.day : r \in {q \in report.rows : q.stock = s}} IN
          \A s, t \in report.results : daysOf(s) = daysOf(t) /\ Cardinality(daysOf(s)) >= MinRows

IInv ==
    /\ RequestOK /\ DataOK /\ PartOK /\ FitOK /\ LabelOK /\ StageOK
    /\ PredictionsOK /\ PositionsOK /\ AlignedOK /\ ForwardSamplesComplete

LEMMA InitHolds == Init => IInv
<1> SUFFICES ASSUME Init PROVE IInv
  OBVIOUS
<1>1. RequestOK
  <2>1. \/ req \in Request({"train", "predict", "regime"}, SeqLens, {0})
        \/ req \in Request({"validate"}, SeqLens, Folds)
        \/ req \in Request({"quant", "compare"}, {0}, {0})
    BY DEF Init
  <2>2. \/ /\ req.kind \in {"train", "predict", "regime", "validate"}
           /\ req.seq_len \in SeqLens /\ req.n_folds \in Folds \cup {0}
        \/ req.kind \in {"quant", "compare"} /\ req.n_folds = 0
    BY <2>1 DEF Request
  <2>3. SeqLens \subseteq Nat \ {0} /\ Folds \subseteq Nat
    BY ResearchAssumption DEF ResearchAssumption
  <2>4. req.n_folds \in Nat /\ fold \in Nat
    <3>1. fold = 0
      BY DEF Init
    <3>2. CASE req.n_folds \in Folds
      <4> DEFINE folds == req.n_folds
      <4> HIDE DEF folds
      <4>1. folds \in Folds
        BY <3>2 DEF folds
      <4>2. folds \in Nat
        BY <2>3, <4>1
      <4> QED
        BY <3>1, <4>2 DEF folds
    <3>3. CASE req.n_folds = 0
      BY <3>1, <3>3
    <3> QED
      BY <2>2, <3>2, <3>3
  <2>5. req.kind \in Histories => req.seq_len \in Nat \ {0}
    <3>1. CASE req.seq_len \in SeqLens
      BY <2>3, <3>1
    <3>2. CASE req.kind \in {"quant", "compare"}
      BY <3>2 DEF Histories
    <3> QED
      BY <2>2, <3>1, <3>2
  <2>6. req.kind \in Histories \cup {"quant", "compare"}
    BY <2>2 DEF Histories
  <2> QED
    BY <2>4, <2>5, <2>6 DEF RequestOK
<1>2. DataOK
  <2>1. IsIndex(days)
    BY DEF Init, IsIndex
  <2>2. IsSeries(Empty, days)
    BY EmptySeries
  <2>3. Returns(Empty, days)
    BY DEF Returns, Empty
  <2> QED
    BY <2>1, <2>2, <2>3 DEF Init, DataOK
<1>3. PartOK /\ FitOK
  BY DEF Init, PartOK, FitOK, NoPart
<1>4. LabelOK
  BY DEF Init, LabelOK, Empty
<1>5. StageOK
  BY DEF Init, StageOK, Untouched
<1>6. PredictionsOK
  BY DEF Init, PredictionsOK, Empty
<1>7. PositionsOK /\ ForwardSamplesComplete
  BY DEF Init, PositionsOK, ForwardSamplesComplete, NoReport
<1>8. AlignedOK
  BY DEF Init, AlignedOK, PredOK, Empty, NoReport
<1> QED
  BY <1>1, <1>2, <1>3, <1>4, <1>5, <1>6, <1>7, <1>8 DEF IInv

-------------------------------------------------------------------------------
(* Steps that report.                                                      *)

\* What a step that at most reports leaves as it is.
LEMMA DataKept ==
    ASSUME IInv, UNCHANGED <<req, days, df, ret, part, fit, store, pred, fold, label>>
    PROVE  /\ RequestOK' /\ DataOK' /\ PartOK' /\ FitOK' /\ LabelOK' /\ PredictionsOK'
           /\ PredOK'
           /\ Warm' = Warm /\ SameHistory' = SameHistory /\ Copied' = Copied
<1> USE DEF IInv
<1>1. RequestOK' /\ DataOK' /\ PartOK' /\ FitOK'
  BY DEF RequestOK, DataOK, PartOK, FitOK
<1>2. Filled' = Filled
  BY DEF Filled
<1>3. Warm' = Warm /\ SameHistory' = SameHistory /\ Copied' = Copied
  BY <1>2 DEF Warm, SameHistory, Copied
<1>4. LabelOK'
  BY <1>2 DEF LabelOK
<1>5. PredictionsOK'
  BY <1>3 DEF PredictionsOK
<1>6. PredOK'
  BY DEF AlignedOK, PredOK, Sequences
<1> QED
  BY <1>1, <1>3, <1>4, <1>5, <1>6

\* A step that leaves the report, too.
LEMMA ReportKept ==
    ASSUME IInv, UNCHANGED <<req, days, df, ret, part, fit, store, pred, fold, label, report>>,
           StageOK'
    PROVE  IInv'
<1>1. /\ RequestOK' /\ DataOK' /\ PartOK' /\ FitOK' /\ LabelOK' /\ PredictionsOK'
      /\ PredOK'
      /\ Warm' = Warm /\ SameHistory' = SameHistory /\ Copied' = Copied
  BY DataKept
<1>2. PositionsOK'
  BY <1>1 DEF IInv, PositionsOK
<1>3. AlignedOK'
  BY <1>1 DEF IInv, AlignedOK
<1>4. ForwardSamplesComplete'
  BY DEF IInv, ForwardSamplesComplete
<1> QED
  BY <1>1, <1>2, <1>3, <1>4 DEF IInv

\* A step that reports positions.
LEMMA PositionsReported ==
    ASSUME IInv, UNCHANGED <<req, days, df, ret, part, fit, store, pred, fold, label>>,
           report'.kind = "positions", StageOK',
           Warm /\ SameHistory =>
              \A r \in report'.rows :
                 \/ r.row \in Copied
                 \/ /\ r.held \subseteq 1..days[r.row] \cup Statistics
                    /\ \A e \in r.earned : e >= days[r.row]
    PROVE  IInv'
<1>1. /\ RequestOK' /\ DataOK' /\ PartOK' /\ FitOK' /\ LabelOK' /\ PredictionsOK'
      /\ PredOK'
      /\ Warm' = Warm /\ SameHistory' = SameHistory /\ Copied' = Copied
  BY DataKept
<1>2. PositionsOK'
  BY <1>1 DEF PositionsOK
<1>3. AlignedOK'
  BY <1>1 DEF AlignedOK
<1>4. ForwardSamplesComplete'
  BY DEF ForwardSamplesComplete
<1> QED
  BY <1>1, <1>2, <1>3, <1>4 DEF IInv

\* A step that reports something else.
LEMMA OtherReported ==
    ASSUME IInv, UNCHANGED <<req, days, df, ret, part, fit, store, pred, fold, label>>,
           report'.kind \notin {"positions", "comparison"}, StageOK', ForwardSamplesComplete'
    PROVE  IInv'
<1>1. /\ RequestOK' /\ DataOK' /\ PartOK' /\ FitOK' /\ LabelOK' /\ PredictionsOK'
      /\ PredOK'
  BY DataKept
<1>2. PositionsOK'
  BY DEF PositionsOK
<1>3. AlignedOK'
  BY <1>1 DEF AlignedOK
<1> QED
  BY <1>1, <1>2, <1>3 DEF IInv

\* All rows from some row on, as an interval.
LEMMA RowsForm ==
    ASSUME NEW n \in Nat, NEW R, FromSome(R, n), R # {}
    PROVE  \E a \in 1..n : /\ R = a..n /\ Min(R) = a /\ Max(R) = n
                           /\ IsFiniteSet(R) /\ Cardinality(R) = n - a + 1
                           /\ R \ {Max(R)} = a..(n - 1)
<1>1. R \in SUBSET Nat /\ R \subseteq 1..n
  BY DEF FromSome
<1>2. PICK a \in R : \A i \in R : a <= i
  BY <1>1, Smallest
<1>3. a \in 1..n /\ a..n \subseteq R
  BY <1>1 DEF FromSome
<1>4. R = a..n
  <2>1. ASSUME NEW i \in R PROVE i \in a..n
    <3>1. i \in 1..n /\ a <= i
      BY <1>1, <1>2
    <3> QED
      BY <3>1, <1>3
  <2> QED
    BY <2>1, <1>3
<1>5. Min(a..n) = a /\ Max(a..n) = n
  BY <1>3, MinMax
<1>6. IsFiniteSet(a..n) /\ Cardinality(a..n) = n - a + 1
  BY <1>3, SizeOf
<1>7. (a..n) \ {n} = a..(n - 1)
  BY <1>3
<1> QED
  BY <1>3, <1>4, <1>5, <1>6, <1>7

\* The rows of the features.
LEMMA DataRows ==
    ASSUME IInv, DOMAIN df # {}
    PROVE  /\ Len(days) \in Nat /\ DOMAIN days = 1..Len(days)
           /\ \E a \in 1..Len(days) :
                /\ DOMAIN df = a..Len(days) /\ Min(DOMAIN df) = a /\ Max(DOMAIN df) = Len(days)
                /\ IsFiniteSet(DOMAIN df) /\ Cardinality(DOMAIN df) = Len(days) - a + 1
                /\ Matrix = a..(Len(days) - 1)
<1>1. Len(days) \in Nat /\ DOMAIN days = 1..Len(days) /\ FromSome(DOMAIN df, Len(days))
  BY DEF IInv, DataOK, IsIndex, IsSeries
<1>2. \E a \in 1..Len(days) :
        /\ DOMAIN df = a..Len(days) /\ Min(DOMAIN df) = a /\ Max(DOMAIN df) = Len(days)
        /\ IsFiniteSet(DOMAIN df) /\ Cardinality(DOMAIN df) = Len(days) - a + 1
        /\ DOMAIN df \ {Max(DOMAIN df)} = a..(Len(days) - 1)
  BY <1>1, RowsForm
<1> QED
  BY <1>1, <1>2 DEF Matrix

\* A position is taken with the predictions of its row and the row before.
LEMMA SignalStep == ASSUME IInv, run_signal_backtest PROVE IInv'
<1> DEFINE first == Min(part.test)
           held(i) == IF i = first THEN pred[i] ELSE pred[i] \cup pred[i - 1]
           earned(i) == IF i = first THEN {} ELSE {days[i], days[i + 1]}
<1>1. /\ stage = "backtest"
      /\ report' = [kind |-> "positions",
                    rows |-> {[held |-> held(i), earned |-> earned(i), row |-> i] : i \in part.test}]
      /\ stage' = IF req.kind = "infer" THEN "forecast" ELSE "done"
      /\ UNCHANGED <<req, days, df, ret, part, fit, store, pred, fold, label>>
  BY DEF run_signal_backtest
<1>2. /\ req.kind \in {"predict", "infer"} /\ DOMAIN pred = part.test
      /\ part = SplitOf(days) /\ part.val # {}
      /\ Partition(part, DOMAIN df, Len(days), req.seq_len)
  BY <1>1 DEF IInv, StageOK
<1>3. StageOK'
  BY <1>1, <1>2 DEF StageOK
<1>4. ASSUME Warm /\ SameHistory, NEW i \in part.test
      PROVE  held(i) \subseteq 1..days[i] \cup Statistics /\ \A e \in earned(i) : e >= days[i]
  <2>1. PICK a \in DOMAIN df, b \in 1..Len(days), c \in 1..Len(days), d \in 1..Len(days) :
          a <= b /\ b <= c /\ c <= d /\ part = Cut(a, b, c, d)
    BY <1>2 DEF Partition
  <2>2. part.test = c..(d - 1)
    BY <2>1 DEF Cut
  <2>3. first = c
    <3>1. c <= d - 1
      BY <1>4, <2>2
    <3> QED
      BY <2>2, <3>1, MinMax
  <2>4. i \in 1..Len(days) /\ i + 1 \in 1..Len(days) /\ i < i + 1
    BY <1>4, <2>2
  <2>5. Len(days) \in Nat /\ DOMAIN days = 1..Len(days) /\ days[i] \in Nat
        /\ days[i + 1] \in Nat /\ days[i] < days[i + 1]
    BY <2>4 DEF IInv, DataOK, IsIndex
  <2>6. \A j \in part.test : pred[j] \subseteq Known(days[j])
    BY <1>2, <1>4 DEF IInv, PredictionsOK
  <2>7. CASE i = first
    BY <2>6, <2>7, <1>4 DEF Known, Statistics
  <2>8. CASE i # first
    <3>1. i - 1 \in part.test /\ i - 1 \in DOMAIN days /\ i - 1 <= i /\ i \in DOMAIN days
      BY <2>2, <2>3, <2>4, <2>5, <2>8, <1>4
    <3>2. Known(days[i - 1]) \subseteq Known(days[i])
      BY <3>1, EarlierIsKnown DEF IInv, DataOK
    <3>3. held(i) \subseteq Known(days[i])
      BY <2>6, <2>8, <3>1, <3>2, <1>4
    <3>4. \A e \in earned(i) : e >= days[i]
      BY <2>5, <2>8
    <3> QED
      BY <3>3, <3>4 DEF Known, Statistics
  <2> QED
    BY <2>7, <2>8
<1> HIDE DEF held, earned, first
<1>5. report'.kind = "positions"
      /\ report'.rows = {[held |-> held(i), earned |-> earned(i), row |-> i] : i \in part.test}
  BY <1>1
<1>6. Warm /\ SameHistory =>
        \A r \in report'.rows :
           \/ r.row \in Copied
           \/ /\ r.held \subseteq 1..days[r.row] \cup Statistics
              /\ \A e \in r.earned : e >= days[r.row]
  BY <1>4, <1>5
<1> QED
  BY <1>1, <1>3, <1>5, <1>6, PositionsReported

LEMMA ForecastStep == ASSUME IInv, Forecast PROVE IInv'
<1>1. /\ report'.kind = "forecast" /\ stage' = "done"
      /\ UNCHANGED <<req, days, df, ret, part, fit, store, pred, fold, label>>
  BY DEF Forecast
<1>2. StageOK'
  BY <1>1 DEF StageOK
<1>3. ForwardSamplesComplete'
  BY <1>1 DEF ForwardSamplesComplete
<1> QED
  BY <1>1, <1>2, <1>3, OtherReported

LEMMA EndStep == ASSUME IInv, EndValidation PROVE IInv'
<1>1. /\ stage' \in {"failed", "done"}
      /\ UNCHANGED <<req, days, df, ret, part, fit, store, pred, fold, label, report>>
  BY DEF EndValidation
<1>2. StageOK'
  BY <1>1 DEF StageOK
<1> QED
  BY <1>1, <1>2, ReportKept

\* What a label that is not copied depends on.
LEMMA LabelKnown ==
    ASSUME IInv, NEW i \in DOMAIN label, i \notin Copied
    PROVE  label[i] \subseteq 1..days[i] \cup Statistics
<1>1. i \in DOMAIN Filled
  BY DEF Copied, Empty
<1>2. label[i] \subseteq Known(days[i]) \cup {Clusters}
  BY <1>1 DEF IInv, LabelOK
<1> QED
  BY <1>2 DEF Known, Statistics

LEMMA RiskStep == ASSUME IInv, _compute_risk_score PROVE IInv'
<1> DEFINE raw == Combine({df, rolling(ret, VolWindow), rolling(ret, LongWindow)})
           smooth == rolling(raw, RiskWindow)
           score == Combine({smooth, label})
<1>1. /\ stage = "risk"
      /\ report' = [kind |-> "positions",
                    rows |-> {[held |-> score[i], earned |-> {}, row |-> i] : i \in DOMAIN score}]
      /\ stage' = "stats"
      /\ UNCHANGED <<req, days, df, ret, part, fit, store, pred, fold, label>>
  BY DEF _compute_risk_score
<1>2. req.kind = "regime" /\ DOMAIN label = DOMAIN df
  BY <1>1 DEF IInv, StageOK
<1>3. StageOK'
  BY <1>1, <1>2 DEF StageOK
<1>4. IsIndex(days) /\ IsSeries(df, days) /\ IsSeries(ret, days)
  BY DEF IInv, DataOK
<1>5. IsSeries(raw, days)
  <2>1. VolWindow \in Nat \ {0} /\ LongWindow \in Nat \ {0}
    BY LineageAssumption
  <2>2. IsSeries(rolling(ret, VolWindow), days) /\ IsSeries(rolling(ret, LongWindow), days)
    BY <1>4, <2>1, RollingSeries
  <2> DEFINE S == {df, rolling(ret, VolWindow), rolling(ret, LongWindow)}
  <2>3. S # {} /\ \A s \in S : IsSeries(s, days)
    BY <1>4, <2>2
  <2> HIDE DEF S
  <2>4. IsSeries(Combine(S), days)
    BY <2>3, CombineSeries
  <2> QED
    BY <2>4 DEF S
<1> HIDE DEF raw
<1>6. IsSeries(smooth, days)
  <2>1. RiskWindow \in Nat \ {0}
    BY ResearchAssumption
  <2> QED
    BY <1>4, <1>5, <2>1, RollingSeries
<1> HIDE DEF smooth
<1>7. ASSUME NEW i \in DOMAIN score
      PROVE  i \in DOMAIN smooth /\ i \in DOMAIN label /\ score[i] = smooth[i] \cup label[i]
  BY DEF Combine
<1>8. ASSUME NEW i \in DOMAIN score, i \notin Copied
      PROVE  score[i] \subseteq 1..days[i] \cup Statistics
  <2>1. i \in DOMAIN smooth /\ i \in DOMAIN label /\ score[i] = smooth[i] \cup label[i]
    BY <1>7
  <2>2. label[i] \subseteq 1..days[i] \cup Statistics
    BY <2>1, <1>8, LabelKnown
  <2>3. smooth[i] \subseteq Known(days[i])
    BY <2>1, <1>6 DEF IsSeries
  <2> QED
    BY <2>1, <2>2, <2>3 DEF Known, Statistics
<1> HIDE DEF score
<1>9. report'.kind = "positions"
      /\ report'.rows = {[held |-> score[i], earned |-> {}, row |-> i] : i \in DOMAIN score}
  BY <1>1
<1>10. Warm /\ SameHistory =>
        \A r \in report'.rows :
           \/ r.row \in Copied
           \/ /\ r.held \subseteq 1..days[r.row] \cup Statistics
              /\ \A e \in r.earned : e >= days[r.row]
  BY <1>8, <1>9
<1> QED
  BY <1>1, <1>3, <1>9, <1>10, PositionsReported

LEMMA RegimeBacktestStep == ASSUME IInv, run_regime_backtest PROVE IInv'
<1> DEFINE R == DOMAIN label \ {Min(DOMAIN label)}
<1>1. /\ stage = "labelled"
      /\ report' = [kind |-> "positions", rows |-> {HeldNextRow(i) : i \in R}]
      /\ stage' = IF req.kind = "regime" THEN "similar" ELSE "ic"
      /\ UNCHANGED <<req, days, df, ret, part, fit, store, pred, fold, label>>
  BY DEF run_regime_backtest
<1>2. req.kind \in {"regime", "quant"} /\ DOMAIN label = DOMAIN df
  BY <1>1 DEF IInv, StageOK
<1>3. StageOK'
  BY <1>1, <1>2 DEF StageOK
<1>4. ASSUME NEW i \in R, i - 1 \notin Copied
      PROVE  /\ label[i - 1] \subseteq 1..days[i - 1] \cup Statistics
             /\ \A e \in ret[i] \ Statistics : e >= days[i - 1]
  <2>1. /\ Len(days) \in Nat /\ DOMAIN days = 1..Len(days)
        /\ \E a \in 1..Len(days) : DOMAIN df = a..Len(days) /\ Min(DOMAIN df) = a
    BY <1>2, DataRows
  <2>2. i \in DOMAIN df /\ i - 1 \in DOMAIN df /\ i - 1 \in DOMAIN days
    BY <1>2, <2>1
  <2>3. label[i - 1] \subseteq 1..days[i - 1] \cup Statistics
    BY <1>2, <1>4, <2>2, LabelKnown
  <2>4. \A e \in ret[i] \ Statistics : e >= days[i - 1]
    BY <2>2 DEF IInv, DataOK, Returns
  <2> QED
    BY <2>3, <2>4
<1>5. report'.kind = "positions" /\ report'.rows = {HeldNextRow(i) : i \in R}
  BY <1>1
<1> HIDE DEF R
<1>6. ASSUME NEW r \in report'.rows, r.row \notin Copied
      PROVE  /\ r.held \subseteq 1..days[r.row] \cup Statistics
             /\ \A e \in r.earned : e >= days[r.row]
  <2>1. PICK i \in R : r = HeldNextRow(i)
    BY <1>5
  <2>2. r.held = label[i - 1] /\ r.earned = ret[i] \ Statistics /\ r.row = i - 1
    BY <2>1 DEF HeldNextRow
  <2> QED
    BY <1>4, <1>6, <2>2
<1> QED
  BY <1>1, <1>3, <1>5, <1>6, PositionsReported

LEMMA CoefficientStep == ASSUME IInv, InformationCoefficient PROVE IInv'
<1> DEFINE rows == DOMAIN label
           pairs(i) == UNION {label[j] \cup ret[j + 1] : j \in (i - IcWindow)..(i - 1)}
           R == Slice(rows, IcWindow, Cardinality(rows) - 1)
<1>1. /\ stage = "ic"
      /\ report' = [kind |-> "positions",
                    rows |-> {[held |-> pairs(i), earned |-> {}, row |-> i] : i \in R}]
      /\ stage' = "done"
      /\ UNCHANGED <<req, days, df, ret, part, fit, store, pred, fold, label>>
  BY DEF InformationCoefficient
<1>2. req.kind = "quant" /\ DOMAIN label = DOMAIN df
  BY <1>1 DEF IInv, StageOK
<1>3. StageOK'
  BY <1>1 DEF StageOK
<1>4. Copied = {}
  BY <1>2 DEF Copied, Filled
<1>5. ASSUME NEW i \in R PROVE pairs(i) \subseteq 1..days[i] \cup Statistics
  <2>1. i \in DOMAIN df /\ i - Min(DOMAIN df) \in IcWindow..(Cardinality(DOMAIN df) - 2)
    <3>1. IcWindow \in Nat /\ IsFiniteSet(DOMAIN df) /\ DOMAIN df # {}
      BY <1>2, ResearchAssumption, DataRows DEF ResearchAssumption, Slice
    <3>2. Cardinality(DOMAIN df) \in Nat
      BY <3>1, FS_CardinalityType
    <3> QED
      BY <1>2, <3>1, <3>2 DEF Slice
  <2>2. /\ Len(days) \in Nat /\ DOMAIN days = 1..Len(days)
        /\ \E a \in 1..Len(days) : DOMAIN df = a..Len(days) /\ Min(DOMAIN df) = a
                                   /\ Cardinality(DOMAIN df) = Len(days) - a + 1
    BY <2>1, DataRows
  <2>3. IcWindow \in Nat
    BY ResearchAssumption
  <2>4. ASSUME NEW j \in (i - IcWindow)..(i - 1)
        PROVE  label[j] \cup ret[j + 1] \subseteq 1..days[i] \cup Statistics
    <3>1. /\ j \in DOMAIN df /\ j + 1 \in DOMAIN df /\ i \in DOMAIN days
          /\ j \in DOMAIN days /\ j + 1 \in DOMAIN days /\ j <= i /\ j + 1 <= i
      BY <2>1, <2>2, <2>3
    <3>2. label[j] \subseteq Known(days[j]) \cup {Clusters}
      BY <1>2, <3>1 DEF IInv, LabelOK, Filled
    <3>3. ret[j + 1] \subseteq Known(days[j + 1])
      BY <3>1 DEF IInv, DataOK, IsSeries
    <3>4. Known(days[j]) \subseteq Known(days[i]) /\ Known(days[j + 1]) \subseteq Known(days[i])
      BY <3>1, EarlierIsKnown DEF IInv, DataOK
    <3> QED
      BY <3>2, <3>3, <3>4 DEF Known, Statistics
  <2> QED
    BY <2>4
<1> HIDE DEF pairs, R
<1>6. report'.kind = "positions"
      /\ report'.rows = {[held |-> pairs(i), earned |-> {}, row |-> i] : i \in R}
  BY <1>1
<1>7. Warm /\ SameHistory =>
        \A r \in report'.rows :
           \/ r.row \in Copied
           \/ /\ r.held \subseteq 1..days[r.row] \cup Statistics
              /\ \A e \in r.earned : e >= days[r.row]
  BY <1>5, <1>6
<1> QED
  BY <1>1, <1>3, <1>6, <1>7, PositionsReported

\* The statistics of a day are of all horizons.
LEMMA StatsStep == ASSUME IInv, _compute_regime_stats PROVE IInv'
<1> DEFINE R == Eligible(DOMAIN label)
           ahead(i) == {h \in Horizons : i + h \in DOMAIN label}
<1>1. /\ stage = "stats"
      /\ report' = [kind |-> "stats", rows |-> {[row |-> i, ahead |-> ahead(i)] : i \in R}]
      /\ stage' = "labelled"
      /\ UNCHANGED <<req, days, df, ret, part, fit, store, pred, fold, label>>
  BY DEF _compute_regime_stats
<1>2. req.kind = "regime" /\ DOMAIN label = DOMAIN df
  BY <1>1 DEF IInv, StageOK
<1>3. StageOK'
  BY <1>1, <1>2 DEF StageOK
<1>4. MaxHorizon \in Horizons /\ (\A h \in Horizons : h \in Nat /\ h <= MaxHorizon)
  <2>1. Horizons \in SUBSET Nat /\ Horizons # {} /\ IsFiniteSet(Horizons)
    BY ResearchAssumption DEF ResearchAssumption
  <2>2. PICK n \in Nat : \A h \in Horizons : h <= n
    BY <2>1, FiniteBound
  <2>3. \E m \in Horizons : \A h \in Horizons : h <= m
    BY <2>1, <2>2, Largest
  <2>4. \E m \in Horizons : \A h \in Horizons : m >= h
    BY <2>1, <2>3
  <2>5. Max(Horizons) \in Horizons /\ \A h \in Horizons : Max(Horizons) >= h
    BY <2>4 DEF Max
  <2> QED
    BY <2>1, <2>5 DEF MaxHorizon
<1>5. ASSUME NEW i \in R PROVE ahead(i) = Horizons
  <2>1. i \in DOMAIN df /\ i < Cutoff(DOMAIN df)
    BY <1>2 DEF Eligible
  <2>2. /\ Len(days) \in Nat
        /\ \E a \in 1..Len(days) :
             /\ DOMAIN df = a..Len(days) /\ Min(DOMAIN df) = a /\ Max(DOMAIN df) = Len(days)
             /\ Cardinality(DOMAIN df) = Len(days) - a + 1
    BY <2>1, DataRows
  <2>3. i + MaxHorizon <= Len(days) /\ i \in Nat
    <3>1. MaxHorizon \in Nat
      BY <1>4
    <3>2. PICK a \in 1..Len(days) :
             /\ DOMAIN df = a..Len(days) /\ Min(DOMAIN df) = a /\ Max(DOMAIN df) = Len(days)
             /\ Cardinality(DOMAIN df) = Len(days) - a + 1
      BY <2>2
    <3>3. i \in a..Len(days)
      BY <2>1, <3>2
    <3>4. CASE Cardinality(DOMAIN df) > MaxHorizon
      <4>1. i < Len(days) - MaxHorizon + 1
        BY <2>1, <3>2, <3>4 DEF Cutoff
      <4> QED
        BY <4>1, <3>1, <3>3, <2>2
    <3>5. CASE ~(Cardinality(DOMAIN df) > MaxHorizon)
      <4>1. i < a
        BY <2>1, <3>2, <3>5 DEF Cutoff
      <4> QED
        BY <4>1, <3>3
    <3> QED
      BY <3>4, <3>5
  <2>4. ASSUME NEW h \in Horizons PROVE i + h \in DOMAIN label
    <3>1. h \in Nat /\ h <= MaxHorizon /\ MaxHorizon \in Nat
      BY <1>4
    <3> QED
      BY <1>2, <2>1, <2>2, <2>3, <3>1
  <2> QED
    BY <2>4
<1> HIDE DEF ahead, R
<1>6. report'.kind = "stats" /\ report'.rows = {[row |-> i, ahead |-> ahead(i)] : i \in R}
  BY <1>1
<1>7. ForwardSamplesComplete'
  BY <1>5, <1>6 DEF ForwardSamplesComplete
<1> QED
  BY <1>1, <1>3, <1>6, <1>7, OtherReported

\* The path of a similar day has all its days.
LEMMA SimilarStep == ASSUME IInv, _find_similar_scenarios PROVE IInv'
<1> DEFINE rows == DOMAIN label
           candidates == IF Cardinality(rows) < SimilarRows THEN {}
                         ELSE Slice(rows, 0, Cardinality(rows) - SimilarMargin)
           path(i) == rows \cap i..(i + PathLen - 1)
<1>1. /\ stage = "similar"
      /\ report' = [kind |-> "similar", rows |-> {[row |-> i, path |-> path(i)] : i \in candidates}]
      /\ stage' = "done"
      /\ UNCHANGED <<req, days, df, ret, part, fit, store, pred, fold, label>>
  BY DEF _find_similar_scenarios
<1>2. rows = DOMAIN df
  BY <1>1 DEF IInv, StageOK
<1>3. StageOK'
  BY <1>1 DEF StageOK
<1>4. ASSUME NEW i \in candidates PROVE Cardinality(path(i)) = PathLen
  <2>1. i \in DOMAIN df
        /\ i - Min(DOMAIN df) \in 0..(Cardinality(DOMAIN df) - SimilarMargin - 1)
    BY <1>2 DEF Slice
  <2>2. PICK a \in 1..Len(days) :
             /\ DOMAIN df = a..Len(days) /\ Min(DOMAIN df) = a
             /\ Cardinality(DOMAIN df) = Len(days) - a + 1
    BY <2>1, DataRows
  <2>3. PathLen \in Nat /\ SimilarMargin \in Nat /\ PathLen <= SimilarMargin + 1
        /\ Len(days) \in Nat
    BY <2>1, DataRows, ResearchAssumption DEF ResearchAssumption
  <2>4. i \in a..Len(days) /\ i - a <= (Len(days) - a + 1) - SimilarMargin - 1
    BY <2>1, <2>2, <2>3
  <2>5. path(i) = i..(i + PathLen - 1)
    BY <1>2, <2>2, <2>3, <2>4
  <2>6. Cardinality(i..(i + PathLen - 1)) = PathLen
    <3>1. i \in Int /\ i + PathLen - 1 \in Int
      BY <2>3, <2>4
    <3>2. Cardinality(i..(i + PathLen - 1)) = IF i > i + PathLen - 1 THEN 0
                                               ELSE (i + PathLen - 1) - i + 1
      BY <3>1, SizeOf
    <3> QED
      BY <2>3, <3>1, <3>2
  <2> HIDE DEF path
  <2> QED
    BY <2>5, <2>6
<1> HIDE DEF candidates, path
<1>5. report'.kind = "similar"
      /\ report'.rows = {[row |-> i, path |-> path(i)] : i \in candidates}
  BY <1>1
<1>6. ForwardSamplesComplete'
  BY <1>4, <1>5 DEF ForwardSamplesComplete
<1> QED
  BY <1>1, <1>3, <1>5, <1>6, OtherReported

\* The stocks of a comparison have the same days.
LEMMA ComparedDays ==
    ASSUME NEW frames, NEW common, NEW s \in {f.stock : f \in frames}
    PROVE  {r.day : r \in {q \in Compared(frames, common) : q.stock = s}} = common
<1> DEFINE base == Min(common)
           since(f, d) == Max({e \in 1..(d - 1) : \E i \in DOMAIN f.index : f.index[i] = e})
           row(f, d) == [stock |-> f.stock, day |-> d, base |-> base, since |-> since(f, d)]
<1>1. Compared(frames, common) = {row(f, d) : f \in frames, d \in common}
  BY DEF Compared
<1> HIDE DEF base, since
<1>2. \A f, d : row(f, d).stock = f.stock /\ row(f, d).day = d
  OBVIOUS
<1> HIDE DEF row
<1>3. ASSUME NEW d \in common
      PROVE  d \in {r.day : r \in {q \in Compared(frames, common) : q.stock = s}}
  <2>1. PICK f \in frames : f.stock = s
    OBVIOUS
  <2>2. row(f, d) \in Compared(frames, common) /\ row(f, d).stock = s /\ row(f, d).day = d
    BY <1>1, <1>2, <2>1
  <2> QED
    BY <2>2
<1>4. ASSUME NEW r \in Compared(frames, common) PROVE r.day \in common
  BY <1>1, <1>2
<1> QED
  BY <1>3, <1>4

LEMMA CompareStep == ASSUME IInv, compare PROVE IInv'
<1>1. stage = "asked" /\ req.kind = "compare"
      /\ UNCHANGED <<req, days, df, ret, part, fit, store, pred, fold, label>>
  BY DEF compare
<1>2. \/ stage' = "failed" /\ report' = report
      \/ \E n \in Sizes : \E frames : \E common \in SUBSET (1..n) :
           /\ ~(Cardinality(common) < MinRows) /\ stage' = "done"
           /\ report' = [kind |-> "comparison", results |-> {f.stock : f \in frames},
                         rows |-> Compared(frames, common)]
  <2>1. PICK n \in Sizes : \E index \in [Stocks -> Downloads(n)], up \in SUBSET Stocks :
          LET fetched == {[stock |-> s, index |-> index[s], days |-> _fetch_one(index[s])] : s \in up}
              frames  == {f \in fetched : Cardinality(f.days) >= MinRows}
              common  == {d \in 1..n : \A f \in frames : d \in f.days}
          IN IF frames = {} \/ Cardinality(common) < MinRows
             THEN stage' = "failed" /\ UNCHANGED report
             ELSE /\ stage' = "done"
                  /\ report' = [kind |-> "comparison", results |-> {f.stock : f \in frames},
                                rows |-> Compared(frames, common)]
    BY DEF compare
  <2>2. PICK index \in [Stocks -> Downloads(n)], up \in SUBSET Stocks :
          LET fetched == {[stock |-> s, index |-> index[s], days |-> _fetch_one(index[s])] : s \in up}
              frames  == {f \in fetched : Cardinality(f.days) >= MinRows}
              common  == {d \in 1..n : \A f \in frames : d \in f.days}
          IN IF frames = {} \/ Cardinality(common) < MinRows
             THEN stage' = "failed" /\ UNCHANGED report
             ELSE /\ stage' = "done"
                  /\ report' = [kind |-> "comparison", results |-> {f.stock : f \in frames},
                                rows |-> Compared(frames, common)]
    BY <2>1
  <2> DEFINE fetched == {[stock |-> s, index |-> index[s], days |-> _fetch_one(index[s])] : s \in up}
             frames  == {f \in fetched : Cardinality(f.days) >= MinRows}
             common  == {d \in 1..n : \A f \in frames : d \in f.days}
  <2>3. common \in SUBSET (1..n)
    OBVIOUS
  <2>4. IF frames = {} \/ Cardinality(common) < MinRows
        THEN stage' = "failed" /\ UNCHANGED report
        ELSE /\ stage' = "done"
             /\ report' = [kind |-> "comparison", results |-> {f.stock : f \in frames},
                           rows |-> Compared(frames, common)]
    BY <2>2
  <2> HIDE DEF common, frames, fetched
  <2> QED
    BY <2>3, <2>4
<1>3. CASE stage' = "failed" /\ report' = report
  <2>1. StageOK'
    BY <1>3 DEF StageOK
  <2> QED
    BY <1>1, <1>3, <2>1, ReportKept
<1>4. ASSUME NEW n \in Sizes, NEW frames, NEW common \in SUBSET (1..n),
             ~(Cardinality(common) < MinRows), stage' = "done",
             report' = [kind |-> "comparison", results |-> {f.stock : f \in frames},
                        rows |-> Compared(frames, common)]
      PROVE  IInv'
  <2>1. StageOK'
    BY <1>4 DEF StageOK
  <2>2. n \in Nat /\ MinRows \in Nat
    BY ResearchAssumption DEF ResearchAssumption
  <2>3. Cardinality(common) >= MinRows
    <3>1. IsFiniteSet(1..n)
      BY <2>2, SizeOf
    <3>2. IsFiniteSet(common)
      BY <3>1, FS_Subset
    <3>3. Cardinality(common) \in Nat
      BY <3>2, FS_CardinalityType
    <3> QED
      BY <2>2, <3>3, <1>4
  <2>4. /\ RequestOK' /\ DataOK' /\ PartOK' /\ FitOK' /\ LabelOK' /\ PredictionsOK'
        /\ PredOK'
    BY <1>1, DataKept
  <2>5. report'.kind = "comparison" /\ report'.results = {f.stock : f \in frames}
        /\ report'.rows = Compared(frames, common)
    BY <1>4
  <2>6. ASSUME NEW s \in report'.results
        PROVE  {r.day : r \in {q \in report'.rows : q.stock = s}} = common
    BY <2>5, ComparedDays
  <2>7. AlignedOK'
    BY <2>3, <2>4, <2>6 DEF AlignedOK
  <2>8. PositionsOK' /\ ForwardSamplesComplete'
    BY <2>5 DEF PositionsOK, ForwardSamplesComplete
  <2> QED
    BY <2>1, <2>4, <2>7, <2>8 DEF IInv
<1> QED
  BY <1>2, <1>3, <1>4

-------------------------------------------------------------------------------
(* Steps that make the data.                                               *)

LEMMA DataReplaced ==
    ASSUME IInv, UNCHANGED <<req, part, fit, store, pred, fold, label, report>>,
           Untouched, DataOK', StageOK'
    PROVE  IInv'
<1>1. RequestOK'
  BY DEF IInv, RequestOK
<1>2. part' = NoPart /\ pred' = Empty /\ label' = Empty /\ report' = NoReport
  BY DEF Untouched
<1>3. PartOK'
  BY <1>2 DEF PartOK
<1>4. FitOK'
  <2>1. part'.test = {}
    BY <1>2 DEF NoPart
  <2> QED
    BY <2>1 DEF IInv, FitOK
<1>5. LabelOK'
  BY <1>2 DEF LabelOK, Empty
<1>6. PredictionsOK' /\ PositionsOK' /\ ForwardSamplesComplete'
  BY <1>2 DEF PredictionsOK, PositionsOK, ForwardSamplesComplete, NoReport, Empty
<1>7. AlignedOK'
  BY <1>2 DEF AlignedOK, PredOK, NoReport, Empty
<1> QED
  BY <1>1, <1>3, <1>4, <1>5, <1>6, <1>7 DEF IInv

\* No features yet.
LEMMA NoFeatures ==
    ASSUME NEW index, IsIndex(index)
    PROVE  IsSeries(Empty, index) /\ Returns(Empty, index)
BY EmptySeries DEF Returns, Empty

LEMMA FetchStep == ASSUME IInv, fetch_raw PROVE IInv'
<1>1. /\ stage = "asked" /\ req.kind \notin {"quant", "compare"}
      /\ UNCHANGED <<req, df, ret, part, fit, store, pred, fold, label, report>>
  BY DEF fetch_raw
<1>2. Untouched /\ df = Empty /\ ret = Empty /\ req.kind \in Histories
  BY <1>1 DEF IInv, StageOK, RequestOK
<1>3. CASE stage' = "failed" /\ UNCHANGED days
  <2>1. StageOK'
    BY <1>3 DEF StageOK
  <2>2. DataOK'
    BY <1>1, <1>3 DEF IInv, DataOK
  <2> QED
    BY <1>1, <1>2, <2>1, <2>2, DataReplaced
<1>4. ASSUME NEW n \in Nat, days' = [i \in 1..n |-> i], stage' = "raw" PROVE IInv'
  <2>1. IsIndex(days')
    BY <1>4 DEF IsIndex
  <2>2. DataOK'
    BY <1>1, <1>2, <2>1, NoFeatures DEF DataOK
  <2>3. StageOK'
    BY <1>1, <1>2, <1>4 DEF StageOK, Untouched
  <2> QED
    BY <1>1, <1>2, <2>2, <2>3, DataReplaced
<1>5. Sizes \subseteq Nat /\ TrainSizes \subseteq Nat
  BY ResearchAssumption DEF ResearchAssumption
<1> QED
  BY <1>3, <1>4, <1>5 DEF fetch_raw

LEMMA PreprocessStep == ASSUME IInv, preprocess PROVE IInv'
<1>1. /\ stage = "raw" /\ stage' = "clean" /\ days' \in Downloads(Len(days))
      /\ UNCHANGED <<req, df, ret, part, fit, store, pred, fold, label, report>>
  BY DEF preprocess
<1>2. Untouched /\ df = Empty /\ ret = Empty /\ req.kind \in Histories
  BY <1>1 DEF IInv, StageOK
<1>3. Len(days) \in Nat
  BY DEF IInv, DataOK, IsIndex
<1>4. IsIndex(days')
  BY <1>1, <1>3, DownloadIndex, ResearchAssumption
<1>5. DataOK'
  BY <1>1, <1>2, <1>4, NoFeatures DEF DataOK
<1>6. StageOK'
  BY <1>1, <1>2 DEF StageOK, Untouched
<1> QED
  BY <1>1, <1>2, <1>5, <1>6, DataReplaced

LEMMA BuildStep == ASSUME IInv, build_feature_matrix PROVE IInv'
<1> DEFINE rows == engineer_features(Close(days))
           change == LogReturn(Close(days))
<1>1. /\ stage = "clean"
      /\ IF Cardinality(DOMAIN rows) < 2 * req.seq_len + 10
         THEN stage' = "failed" /\ UNCHANGED <<df, ret>>
         ELSE stage' = req.kind /\ df' = rows /\ ret' = loc(change, DOMAIN rows)
      /\ UNCHANGED <<req, days, part, fit, store, pred, fold, label, report>>
  BY DEF build_feature_matrix
<1>2. Untouched /\ req.kind \in Histories /\ req.seq_len \in Nat /\ IsIndex(days)
  BY <1>1 DEF IInv, StageOK, RequestOK, DataOK
<1>3. /\ IsSeries(Close(days), days) /\ IsSeries(change, days)
      /\ Returns(change, days)
  BY <1>2, CloseSeries
<1>4. IsSeries(rows, days) /\ DOMAIN rows \subseteq DOMAIN change
  BY <1>2, <1>3, EngineerSeries, LineageAssumption
<1>5. DOMAIN rows = FeatureRows(days)
  BY DEF FeatureRows
<1> HIDE DEF rows, change
<1>6. CASE Cardinality(DOMAIN rows) < 2 * req.seq_len + 10
  <2>1. StageOK'
    BY <1>1, <1>6 DEF StageOK
  <2>2. DataOK'
    BY <1>1, <1>6 DEF IInv, DataOK
  <2> QED
    BY <1>1, <1>2, <2>1, <2>2, DataReplaced
<1>7. CASE ~(Cardinality(DOMAIN rows) < 2 * req.seq_len + 10)
  <2>1. stage' = req.kind /\ df' = rows /\ ret' = loc(change, DOMAIN rows)
    BY <1>1, <1>7
  <2>2. Cardinality(DOMAIN rows) >= 2 * req.seq_len + 10
    <3>1. FromSome(DOMAIN rows, Len(days)) /\ Len(days) \in Nat
      BY <1>2, <1>4 DEF IsSeries, IsIndex
    <3>2. IsFiniteSet(1..Len(days)) /\ DOMAIN rows \in SUBSET (1..Len(days))
      BY <3>1, SizeOf DEF FromSome
    <3>3. IsFiniteSet(DOMAIN rows)
      BY <3>2, FS_Subset
    <3>4. Cardinality(DOMAIN rows) \in Nat
      BY <3>3, FS_CardinalityType
    <3> QED
      BY <3>4, <1>2, <1>7
  <2> DEFINE r == loc(change, DOMAIN rows)
  <2>3. /\ IsSeries(r, days) /\ DOMAIN r = DOMAIN rows
        /\ \A i \in DOMAIN r : r[i] = change[i]
    <3>1. FromSome(DOMAIN rows, Len(days))
      BY <1>4 DEF IsSeries
    <3>2. IsSeries(r, days)
      BY <1>3, <3>1, LocSeries
    <3>3. DOMAIN r = DOMAIN change \cap DOMAIN rows /\ \A i \in DOMAIN r : r[i] = change[i]
      BY DEF loc
    <3> HIDE DEF r
    <3> QED
      BY <3>2, <3>3, <1>4
  <2> HIDE DEF r
  <2>4. Returns(r, days)
    BY <1>3, <1>4, <2>3 DEF Returns
  <2>5. DataOK'
    BY <1>1, <1>2, <1>4, <2>1, <2>3, <2>4 DEF DataOK, r
  <2>6. StageOK'
    BY <1>1, <1>2, <1>5, <2>1, <2>2 DEF StageOK, Untouched, Histories
  <2> QED
    BY <1>1, <1>2, <2>5, <2>6, DataReplaced
<1> QED
  BY <1>6, <1>7

\* The quantitative report works on the days both histories have.
LEMMA FetchBothStep == ASSUME IInv, FetchBoth PROVE IInv'
<1>1. /\ stage = "asked" /\ req.kind = "quant"
      /\ UNCHANGED <<req, part, fit, store, pred, fold, label, report>>
  BY DEF FetchBoth
<1>2. Untouched
  BY <1>1 DEF IInv, StageOK
<1>3. CASE stage' = "failed" /\ UNCHANGED <<days, df, ret>>
  <2>1. StageOK'
    BY <1>3 DEF StageOK
  <2>2. DataOK'
    BY <1>3 DEF IInv, DataOK
  <2> QED
    BY <1>1, <1>2, <2>1, <2>2, DataReplaced
<1>4. ASSUME NEW n \in Nat, NEW own \in Downloads(n), NEW S,
             LET rows == _engineer(RawClose(own))
                 common == InOrder({own[i] : i \in DOMAIN rows} \cap S)
             IN /\ days' = common
                /\ df' = reindex(rows, own, common)
                /\ ret' = reindex(LogReturn(RawClose(own)), own, common)
                /\ stage' = "quant"
      PROVE  IInv'
  <2> DEFINE rows == _engineer(RawClose(own))
             both == {own[i] : i \in DOMAIN rows} \cap S
             common == InOrder(both)
             r == LogReturn(RawClose(own))
  <2>1. /\ days' = common /\ df' = reindex(rows, own, common)
        /\ ret' = reindex(r, own, common) /\ stage' = "quant"
    BY <1>4
  <2>2. IsIndex(own) /\ \A i \in DOMAIN own : own[i] \in 1..n
    BY DownloadIndex, ResearchAssumption
  <2>3. IsSeries(RawClose(own), own) /\ IsSeries(r, own) /\ Returns(r, own)
    BY <2>2, CloseSeries
  <2>4. IsSeries(rows, own) /\ DOMAIN rows \subseteq DOMAIN r
    BY <2>2, <2>3, QuantSeries, LineageAssumption
  <2> HIDE DEF rows, r
  <2>5. both \in SUBSET (1..n)
    <3>1. DOMAIN rows \subseteq DOMAIN own
      BY <2>2, <2>4 DEF IsSeries, FromSome, IsIndex
    <3> QED
      BY <2>2, <3>1
  <2>6. \A d \in both : \E i \in DOMAIN rows : own[i] = d
    OBVIOUS
  <2> HIDE DEF both
  <2>7. IsIndex(common) /\ \A k \in DOMAIN common : common[k] \in both
    BY <2>5, OrderIndex
  <2> HIDE DEF common
  <2>8. \A k \in DOMAIN common : \E i \in DOMAIN rows : own[i] = common[k]
    BY <2>6, <2>7
  <2>9. \A k \in DOMAIN common : \E i \in DOMAIN r : own[i] = common[k]
    BY <2>4, <2>8
  <2>10. IsSeries(reindex(rows, own, common), common)
         /\ DOMAIN reindex(rows, own, common) = DOMAIN common
    BY <2>2, <2>4, <2>7, <2>8, Reindexed
  <2>11. /\ IsSeries(reindex(r, own, common), common) /\ Returns(reindex(r, own, common), common)
         /\ DOMAIN reindex(r, own, common) = DOMAIN common
    BY <2>2, <2>3, <2>7, <2>9, Reindexed
  <2>12. DataOK'
    BY <2>1, <2>7, <2>10, <2>11 DEF DataOK
  <2>13. StageOK'
    BY <1>1, <1>2, <2>1 DEF StageOK, Untouched
  <2> QED
    BY <1>1, <1>2, <2>12, <2>13, DataReplaced
<1>5. Sizes \subseteq Nat
  BY ResearchAssumption DEF ResearchAssumption
<1> QED
  BY <1>3, <1>4, <1>5 DEF FetchBoth

\* The regimes of filled rows are not copies.
LEMMA ClassifyStep == ASSUME IInv, _classify_regimes PROVE IInv'
<1> DEFINE feat == IF req.kind = "regime" /\ Filled # Empty THEN bfill(Filled, DOMAIN df) ELSE Filled
<1>1. /\ stage \in {"regime", "quant"}
      /\ IF Cardinality(DOMAIN feat) < NClusters
         THEN stage' = "failed" /\ UNCHANGED label
         ELSE /\ label' = [i \in DOMAIN feat |-> feat[i] \cup {Clusters}]
              /\ stage' = IF req.kind = "regime" THEN "risk" ELSE "labelled"
      /\ UNCHANGED <<req, days, df, ret, part, fit, store, pred, fold, report>>
  BY DEF _classify_regimes
<1>2. Untouched /\ req.kind = stage
  BY <1>1 DEF IInv, StageOK
<1>3. IsSeries(Filled, days) /\ DOMAIN Filled \subseteq DOMAIN df
  <2>1. IsIndex(days) /\ IsSeries(df, days)
    BY DEF IInv, DataOK
  <2>2. IsSeries(Close(days), days)
    BY <2>1, CloseSeries
  <2>3. /\ IsSeries(_build_regime_features(df, Close(days)), days)
        /\ DOMAIN _build_regime_features(df, Close(days)) \subseteq DOMAIN df
    BY <2>1, <2>2, RegimeSeries, LineageAssumption
  <2> QED
    BY <2>1, <2>3 DEF Filled
<1>4. DOMAIN feat \in {DOMAIN df, DOMAIN Filled}
      /\ \A i \in DOMAIN feat \cap DOMAIN Filled : feat[i] = Filled[i]
  BY DEF bfill
<1>5. ASSUME ~(Cardinality(DOMAIN feat) < NClusters) PROVE DOMAIN feat = DOMAIN df
  <2>1. CASE req.kind = "regime" /\ Filled # Empty
    BY <2>1 DEF bfill
  <2>2. CASE req.kind = "regime" /\ Filled = Empty
    <3>1. DOMAIN feat = {}
      BY <2>2 DEF Empty
    <3>2. Cardinality(DOMAIN feat) = 0 /\ NClusters \in Nat \ {0}
      BY <3>1, FS_EmptySet, ResearchAssumption DEF ResearchAssumption
    <3> QED
      BY <3>2, <1>5
  <2>3. CASE req.kind = "quant"
    BY <2>3 DEF Filled
  <2> QED
    BY <2>1, <2>2, <2>3, <1>1, <1>2
<1> HIDE DEF feat
<1>6. CASE Cardinality(DOMAIN feat) < NClusters
  <2>1. StageOK'
    BY <1>1, <1>6 DEF StageOK
  <2> QED
    BY <1>1, <1>6, <2>1, ReportKept
<1>7. CASE ~(Cardinality(DOMAIN feat) < NClusters)
  <2>1. /\ label' = [i \in DOMAIN feat |-> feat[i] \cup {Clusters}]
        /\ stage' = IF req.kind = "regime" THEN "risk" ELSE "labelled"
    BY <1>1, <1>7
  <2>2. DOMAIN label' = DOMAIN df /\ \A i \in DOMAIN df : label'[i] = feat[i] \cup {Clusters}
    BY <1>5, <1>7, <2>1
  <2>3. Filled' = Filled
    BY <1>1 DEF Filled
  <2>4. LabelOK'
    <3>1. ASSUME NEW i \in DOMAIN df, i \in DOMAIN Filled
          PROVE  label'[i] \subseteq Known(days[i]) \cup {Clusters}
      <4>1. feat[i] = Filled[i]
        BY <1>4, <1>5, <1>7, <3>1
      <4>2. Filled[i] \subseteq Known(days[i])
        BY <1>3, <3>1 DEF IsSeries
      <4> QED
        BY <2>2, <4>1, <4>2
    <3> QED
      BY <1>1, <2>2, <2>3, <3>1 DEF LabelOK
  <2>5. StageOK'
    BY <1>1, <1>2, <2>1, <2>2 DEF StageOK
  <2>6. RequestOK' /\ DataOK' /\ PartOK' /\ FitOK'
    BY <1>1 DEF IInv, RequestOK, DataOK, PartOK, FitOK
  <2>7. PredictionsOK' /\ PositionsOK' /\ ForwardSamplesComplete'
    BY <1>1, <1>2 DEF Untouched, PredictionsOK, PositionsOK, ForwardSamplesComplete, NoReport, Empty
  <2>8. AlignedOK'
    BY <1>1, <1>2 DEF Untouched, AlignedOK, PredOK, NoReport, Empty
  <2> QED
    BY <2>4, <2>5, <2>6, <2>7, <2>8 DEF IInv
<1> QED
  BY <1>6, <1>7

-------------------------------------------------------------------------------
(* Steps that train and predict.                                           *)

\* What some rows and their targets depend on is known on every later row.
LEMMA SeenKnown ==
    ASSUME DataOK, NEW c \in 1..Len(days), NEW rows \in SUBSET (1..(c - 1)),
           rows \subseteq DOMAIN df, \A j \in rows : j + 1 \in DOMAIN df,
           NEW i \in c..Len(days)
    PROVE  Seen(rows) \subseteq Known(days[i])
<1>1. IsIndex(days) /\ IsSeries(df, days) /\ IsSeries(ret, days) /\ DOMAIN ret = DOMAIN df
      /\ Len(days) \in Nat /\ DOMAIN days = 1..Len(days)
  BY DEF DataOK, IsIndex
<1>2. ASSUME NEW j \in rows PROVE df[j] \cup Target(j) \subseteq Known(days[i])
  <2>1. /\ j \in DOMAIN df /\ j + 1 \in DOMAIN df /\ j \in 1..(c - 1)
    OBVIOUS
  <2>2. /\ i \in DOMAIN days /\ j \in DOMAIN days /\ j + 1 \in DOMAIN days
        /\ j <= i /\ j + 1 <= i
    BY <1>1, <2>1
  <2>3. Known(days[j]) \subseteq Known(days[i]) /\ Known(days[j + 1]) \subseteq Known(days[i])
    BY <1>1, <2>2, EarlierIsKnown
  <2>4. df[j] \subseteq Known(days[j]) /\ ret[j + 1] \subseteq Known(days[j + 1])
    BY <1>1, <2>1 DEF IsSeries
  <2> QED
    BY <2>3, <2>4 DEF Target
<1> QED
  BY <1>2 DEF Seen

\* So is what the sequence before a row depends on.
LEMMA LookbackKnown ==
    ASSUME DataOK, req.seq_len \in Nat, NEW i \in DOMAIN df,
           \A j \in (i - req.seq_len)..(i - 1) : j \in DOMAIN df
    PROVE  df[i] \cup Lookback(i) \subseteq Known(days[i])
<1>1. IsIndex(days) /\ IsSeries(df, days) /\ Len(days) \in Nat /\ DOMAIN days = 1..Len(days)
      /\ DOMAIN df \subseteq 1..Len(days)
  BY DEF DataOK, IsIndex, IsSeries, FromSome
<1>2. ASSUME NEW j \in (i - req.seq_len)..(i - 1) PROVE df[j] \subseteq Known(days[i])
  <2>1. j \in DOMAIN df /\ j \in DOMAIN days /\ i \in DOMAIN days /\ j <= i
    BY <1>1
  <2>2. Known(days[j]) \subseteq Known(days[i])
    BY <1>1, <2>1, EarlierIsKnown
  <2> QED
    BY <1>1, <2>1, <2>2 DEF IsSeries
<1>3. df[i] \subseteq Known(days[i])
  BY <1>1 DEF IsSeries
<1> QED
  BY <1>2, <1>3 DEF Lookback

\* Enough rows to split, as an interval.
LEMMA EnoughRows ==
    ASSUME IInv, stage \in {"train", "predict", "infer", "validate"}
    PROVE  /\ req.seq_len \in Nat \ {0} /\ Len(days) \in Nat
           /\ \E a \in 1..Len(days) :
                /\ DOMAIN df = a..Len(days) /\ Matrix = a..(Len(days) - 1)
                /\ Len(days) - a >= 2 * req.seq_len + 9
<1>1. req.kind = stage /\ Cardinality(DOMAIN df) >= 2 * req.seq_len + 10
  BY DEF IInv, StageOK
<1>2. req.seq_len \in Nat \ {0}
  BY <1>1 DEF IInv, RequestOK, Histories
<1>3. DOMAIN df # {}
  <2> SUFFICES ASSUME DOMAIN df = {} PROVE FALSE
    OBVIOUS
  <2>1. Cardinality(DOMAIN df) = 0
    BY FS_EmptySet
  <2> QED
    BY <1>1, <1>2, <2>1
<1>4. /\ Len(days) \in Nat
      /\ \E a \in 1..Len(days) : /\ DOMAIN df = a..Len(days)
                                 /\ Cardinality(DOMAIN df) = Len(days) - a + 1
                                 /\ Matrix = a..(Len(days) - 1)
  BY <1>3, DataRows
<1> QED
  BY <1>1, <1>2, <1>4

LEMMA SplitStep == ASSUME IInv, split_and_scale_data PROVE IInv'
<1> DEFINE p == split_data(Matrix)
           n == Len(days)
           k == req.seq_len
<1>1. /\ stage \in {"train", "predict", "infer"} /\ stage' = "split" /\ part' = p
      /\ fit' = [scaler |-> Seen(p.train), weights |-> Seen(p.train \cup p.val)]
      /\ UNCHANGED <<req, days, df, ret, store, pred, fold, label, report>>
  BY DEF split_and_scale_data
<1>2. Untouched /\ req.kind = stage /\ DOMAIN df = FeatureRows(days)
  BY <1>1 DEF IInv, StageOK
<1>3. DataOK
  BY DEF IInv
<1>4. PICK a \in 1..n : DOMAIN df = a..n /\ Matrix = a..(n - 1) /\ n - a >= 2 * k + 9
  BY <1>1, EnoughRows
<1>5. k \in Nat \ {0} /\ n \in Nat
  BY <1>1, EnoughRows
<1>6. PICK b \in Nat, c \in Nat : b < c /\ c <= n /\ b - a >= k /\ p = Cut(a, b, c, n)
  <2>1. \E b \in Nat, c \in Nat :
          b < c /\ c <= n /\ b - a >= k /\ split_data(a..(n - 1)) = Cut(a, b, c, n)
    BY <1>4, <1>5, SplitParts, ResearchAssumption
  <2> QED
    BY <1>4, <2>1
<1>7. p = SplitOf(days)
  BY <1>2 DEF SplitOf, Matrix
<1>8. p.train = a..(b - 1) /\ p.val = b..(c - 1) /\ p.test = c..(n - 1)
  BY <1>6 DEF Cut
<1> HIDE DEF p
<1>9. Partition(p, DOMAIN df, n, k) /\ p.val # {}
  <2>1. a \in DOMAIN df /\ b \in 1..n /\ c \in 1..n /\ n \in 1..n
        /\ a <= b /\ b <= c /\ c <= n /\ c - a >= k
    BY <1>4, <1>5, <1>6
  <2>2. b \in p.val
    BY <1>6, <1>8, <2>1
  <2> HIDE DEF n, k
  <2> QED
    BY <1>6, <2>1, <2>2 DEF Partition
<1>10. ASSUME NEW i \in p.test PROVE Seen(p.train) \cup Seen(p.train \cup p.val) \subseteq Known(days[i])
  <2>1. c \in 1..n /\ i \in c..n
    BY <1>4, <1>5, <1>6, <1>8
  <2>2. ASSUME NEW j \in p.train \cup p.val
        PROVE  j \in 1..(c - 1) /\ j \in DOMAIN df /\ j + 1 \in DOMAIN df
    <3> HIDE DEF n, k
    <3>1. a \in 1..n /\ b \in Nat /\ c \in Nat /\ a <= b /\ b < c /\ c <= n
      BY <1>4, <1>5, <1>6
    <3>2. j \in a..(c - 1)
      BY <1>8, <3>1
    <3> QED
      BY <1>4, <1>5, <3>1, <3>2
  <2> DEFINE early == p.train \cup p.val
  <2>3. early \in SUBSET (1..(c - 1)) /\ early \subseteq DOMAIN df /\ \A j \in early : j + 1 \in DOMAIN df
    BY <2>2
  <2>4. p.train \in SUBSET (1..(c - 1)) /\ p.train \subseteq DOMAIN df
        /\ \A j \in p.train : j + 1 \in DOMAIN df
    BY <2>2
  <2> HIDE DEF early, n
  <2>5. Seen(p.train) \subseteq Known(days[i])
    BY <1>3, <2>1, <2>4, SeenKnown DEF n
  <2>6. Seen(early) \subseteq Known(days[i])
    BY <1>3, <2>1, <2>3, SeenKnown DEF n
  <2> QED
    BY <2>5, <2>6 DEF early
<1>11. PartOK'
  BY <1>1, <1>2, <1>9 DEF PartOK, Histories
<1>12. FitOK'
  BY <1>1, <1>10 DEF IInv, FitOK
<1>13. StageOK'
  BY <1>1, <1>2, <1>7, <1>9 DEF StageOK, Untouched
<1>14. Filled' = Filled
  BY <1>1 DEF Filled
<1>15. RequestOK' /\ DataOK' /\ LabelOK'
  BY <1>1, <1>14 DEF IInv, RequestOK, DataOK, LabelOK
<1>16. PredictionsOK' /\ PositionsOK' /\ ForwardSamplesComplete'
  BY <1>1, <1>2 DEF Untouched, PredictionsOK, PositionsOK, ForwardSamplesComplete, NoReport, Empty
<1>17. AlignedOK'
  BY <1>1, <1>2 DEF Untouched, AlignedOK, PredOK, NoReport, Empty
<1> QED
  BY <1>11, <1>12, <1>13, <1>15, <1>16, <1>17 DEF IInv

\* A prediction is made from the days before its row, with a model that has
\* seen none of the test rows.
LEMMA EvaluateStep == ASSUME IInv, evaluate PROVE IInv'
<1> DEFINE k == req.seq_len
           seqs == WithContext(part.test, part.val, k)
           made == fit.scaler \cup Model.scaler \cup Model.weights
           next == [train |-> "save", predict |-> "backtest", infer |-> "backtest"]
           predicted(i) == df[i] \cup made \cup Lookback(SequenceOf(i, seqs, part.test))
<1>1. /\ stage = "split"
      /\ IF Cardinality(seqs) \notin {1, Cardinality(part.test)}
         THEN stage' = "failed" /\ UNCHANGED <<pred, report>>
         ELSE /\ pred' = [i \in part.test |-> predicted(i)]
              /\ report' = [kind |-> "actuals", scaled |-> fit.scaler, inverted |-> Model.scaler]
              /\ stage' = next[req.kind]
      /\ UNCHANGED <<req, days, df, ret, part, fit, store, fold, label>>
  BY DEF evaluate
<1>2. /\ req.kind \in {"train", "predict", "infer"} /\ part = SplitOf(days) /\ part.val # {}
      /\ Partition(part, DOMAIN df, Len(days), k)
  BY <1>1 DEF IInv, StageOK
<1>3. k \in Nat \ {0}
  BY <1>2 DEF IInv, RequestOK, Histories
<1>4. CASE stage' = "failed" /\ UNCHANGED <<pred, report>>
  <2>1. StageOK'
    BY <1>4 DEF StageOK
  <2> QED
    BY <1>1, <1>4, <2>1, ReportKept
<1>5. ASSUME /\ Cardinality(seqs) \in {1, Cardinality(part.test)}
             /\ pred' = [i \in part.test |-> predicted(i)]
             /\ report' = [kind |-> "actuals", scaled |-> fit.scaler, inverted |-> Model.scaler]
             /\ stage' = next[req.kind]
      PROVE  IInv'
  <2>1. DOMAIN pred' = part.test /\ (\A i \in part.test : pred'[i] = predicted(i))
        /\ report'.kind = "actuals"
    BY <1>5
  <2>2. stage' = IF req.kind = "train" THEN "save" ELSE "backtest"
    BY <1>2, <1>5
  <2> HIDE DEF predicted
  <2>3. StageOK'
    BY <1>1, <1>2, <2>1, <2>2 DEF StageOK
  <2>4. Filled' = Filled
    BY <1>1 DEF Filled
  <2>5. RequestOK' /\ DataOK' /\ PartOK' /\ FitOK' /\ LabelOK'
    BY <1>1, <2>4 DEF IInv, RequestOK, DataOK, PartOK, FitOK, LabelOK
  <2>6. ASSUME Warm, SameHistory, NEW i \in part.test
        PROVE  predicted(i) \subseteq Known(days[i]) /\ i \notin part.train
    <3>1. PICK a \in DOMAIN df, b \in 1..Len(days), c \in 1..Len(days), d \in 1..Len(days) :
            a <= b /\ b <= c /\ c <= d /\ part = Cut(a, b, c, d)
      BY <1>2 DEF Partition
    <3>2. part.train = a..(b - 1) /\ part.val = b..(c - 1) /\ part.test = c..(d - 1)
      BY <3>1 DEF Cut
    <3>3. DataOK
      BY DEF IInv
    <3>4. Len(days) \in Nat /\ DOMAIN df \subseteq 1..Len(days) /\ a..Len(days) \subseteq DOMAIN df
      BY <3>3 DEF DataOK, IsIndex, IsSeries, FromSome
    <3>5. a \in Nat /\ b \in Nat /\ c \in Nat /\ d \in Nat /\ d <= Len(days)
      BY <3>4
    <3>6. c - b >= k
      <4>1. Cardinality(b..(c - 1)) >= k
        BY <1>2, <2>6, <3>2 DEF Warm
      <4>2. Cardinality(b..(c - 1)) = IF b > c - 1 THEN 0 ELSE (c - 1) - b + 1
        BY <3>5, SizeOf
      <4> HIDE DEF k
      <4> QED
        BY <1>3, <3>5, <4>1, <4>2
    <3>7. seqs = part.test
      <4>1. WithContext(c..(d - 1), b..(c - 1), k) = c..(d - 1)
        BY <1>3, <3>1, <3>5, <3>6, ContextIsTest
      <4> QED
        BY <3>2, <4>1
    <3>8. SequenceOf(i, seqs, part.test) = i
      <4>1. SequenceOf(i, c..(d - 1), c..(d - 1)) = i
        BY <3>2, <3>5, SequenceIsRow
      <4> HIDE DEF seqs
      <4> QED
        BY <3>2, <3>7, <4>1
    <3>9. i \in c..(d - 1)
      BY <3>2
    <3>10. df[i] \cup Lookback(i) \subseteq Known(days[i])
      <4>1. i \in DOMAIN df /\ \A j \in (i - k)..(i - 1) : j \in DOMAIN df
        <5> HIDE DEF k
        <5> QED
          BY <1>3, <3>1, <3>4, <3>5, <3>6, <3>9
      <4> QED
        BY <1>3, <3>3, <4>1, LookbackKnown
    <3>11. fit.scaler \cup fit.weights \subseteq Known(days[i])
      BY DEF IInv, FitOK
    <3>12. CASE req.kind = "infer"
      <4>1. store.trained = days
        BY <2>6, <3>12 DEF SameHistory
      <4>2. store # NoModel => store.scaler \cup store.weights \subseteq Known(days[i])
        BY <1>2, <4>1 DEF IInv, FitOK
      <4>3. store = NoModel => store.scaler \cup store.weights = {}
        BY DEF NoModel
      <4>4. made \subseteq Known(days[i])
        BY <3>11, <3>12, <4>2, <4>3 DEF Model
      <4> QED
        BY <3>1, <3>2, <3>5, <3>8, <3>9, <3>10, <4>4 DEF predicted
    <3>13. CASE req.kind # "infer"
      <4>1. made \subseteq Known(days[i])
        BY <3>11, <3>13 DEF Model
      <4> QED
        BY <3>1, <3>2, <3>5, <3>8, <3>9, <3>10, <4>1 DEF predicted
    <3> QED
      BY <3>12, <3>13
  <2>7. Warm' = Warm /\ SameHistory' = SameHistory
    BY <1>1 DEF Warm, SameHistory
  <2>8. PredictionsOK'
    BY <1>1, <2>1, <2>6, <2>7 DEF PredictionsOK
  <2>9. PositionsOK' /\ ForwardSamplesComplete'
    BY <2>1 DEF PositionsOK, ForwardSamplesComplete
  <2>10. AlignedOK'
    <3>1. Sequences' = seqs
      BY <1>1, <1>2 DEF Sequences
    <3> QED
      BY <1>1, <1>5, <2>1, <3>1 DEF AlignedOK, PredOK
  <2> QED
    BY <2>3, <2>5, <2>8, <2>9, <2>10 DEF IInv
<1> QED
  BY <1>1, <1>4, <1>5

LEMMA SaveStep == ASSUME IInv, save_artifacts PROVE IInv'
<1>1. /\ stage = "save" /\ stage' = "saved"
      /\ store' = [scaler |-> fit.scaler, weights |-> fit.weights,
                   seq_len |-> req.seq_len, trained |-> days]
      /\ UNCHANGED <<req, days, df, ret, part, fit, pred, fold, label, report>>
  BY DEF save_artifacts
<1>2. req.kind = "train" /\ part = SplitOf(days)
  BY <1>1 DEF IInv, StageOK
<1>3. FitOK'
  <2>1. \A i \in part.test : fit.scaler \cup fit.weights \subseteq Known(days[i])
    BY DEF IInv, FitOK
  <2>2. store'.scaler = fit.scaler /\ store'.weights = fit.weights /\ store'.trained = days
    BY <1>1
  <2> QED
    BY <1>1, <1>2, <2>1, <2>2 DEF FitOK
<1>4. StageOK'
  BY <1>1, <1>2 DEF StageOK
<1>5. Filled' = Filled /\ Warm' = Warm /\ SameHistory' = SameHistory
  BY <1>1, <1>2 DEF Filled, Warm, SameHistory
<1>6. Copied' = Copied
  BY <1>1, <1>5 DEF Copied
<1>7. RequestOK' /\ DataOK' /\ PartOK' /\ LabelOK'
  BY <1>1, <1>5 DEF IInv, RequestOK, DataOK, PartOK, LabelOK
<1>8. PredictionsOK' /\ PositionsOK' /\ ForwardSamplesComplete'
  BY <1>1, <1>5, <1>6 DEF IInv, PredictionsOK, PositionsOK, ForwardSamplesComplete
<1>9. AlignedOK'
  BY <1>1 DEF IInv, AlignedOK, PredOK, Sequences
<1> QED
  BY <1>3, <1>4, <1>7, <1>8, <1>9 DEF IInv

LEMMA AskStep == ASSUME IInv, AskInference PROVE IInv'
<1>1. /\ stage = "saved" /\ stage' = "asked"
      /\ req' = [kind |-> "infer", seq_len |-> store.seq_len, n_folds |-> 0]
      /\ days' = <<>> /\ df' = Empty /\ ret' = Empty /\ part' = NoPart /\ fit' = NoFit
      /\ pred' = Empty /\ fold' = 0 /\ label' = Empty /\ report' = NoReport
      /\ UNCHANGED store
  BY DEF AskInference, Fresh
<1>2. req.kind = "train" /\ store.seq_len = req.seq_len
  BY <1>1 DEF IInv, StageOK
<1>3. store.seq_len \in Nat \ {0}
  BY <1>2 DEF IInv, RequestOK, Histories
<1>4. req'.kind = "infer" /\ req'.seq_len = store.seq_len /\ req'.n_folds = 0
  BY <1>1
<1>5. RequestOK'
  BY <1>1, <1>3, <1>4 DEF RequestOK, Histories
<1>6. DataOK'
  <2>1. IsIndex(<<>>)
    BY DEF IsIndex
  <2>2. IsSeries(Empty, <<>>) /\ Returns(Empty, <<>>)
    BY <2>1, NoFeatures
  <2> QED
    BY <1>1, <2>1, <2>2 DEF DataOK
<1>7. PartOK' /\ FitOK'
  BY <1>1 DEF IInv, PartOK, FitOK, NoPart
<1>8. LabelOK'
  BY <1>1 DEF LabelOK, Empty
<1>9. StageOK'
  BY <1>1 DEF StageOK, Untouched
<1>10. PredictionsOK' /\ PositionsOK' /\ ForwardSamplesComplete'
  BY <1>1 DEF PredictionsOK, PositionsOK, ForwardSamplesComplete, NoReport, Empty
<1>11. AlignedOK'
  BY <1>1 DEF AlignedOK, PredOK, NoReport, Empty
<1> QED
  BY <1>5, <1>6, <1>7, <1>8, <1>9, <1>10, <1>11 DEF IInv

\* A fold trains on the rows before the ones it predicts.
LEMMA ValidateStep == ASSUME IInv, ValidateFold PROVE IInv'
<1> DEFINE f == fold + 1
           k == req.seq_len
           n == Len(days)
           p == FoldRows(f)
           seen == Seen(p.train)
           rows == WithContext(p.test, p.train, k)
           predicted(i) == df[i] \cup seen \cup Lookback(i)
<1>1. /\ stage = "validate" /\ fold < req.n_folds /\ fold' = f
      /\ IF Usable(p)
         THEN /\ part' = p /\ fit' = [scaler |-> seen, weights |-> seen]
              /\ pred' = [i \in rows |-> predicted(i)]
         ELSE UNCHANGED <<part, fit, pred>>
      /\ UNCHANGED <<stage, req, days, df, ret, store, label, report>>
  BY DEF ValidateFold
<1>2. req.kind = "validate" /\ label = Empty /\ report = NoReport
  BY <1>1 DEF IInv, StageOK
<1>3. DataOK /\ fold \in Nat /\ req.n_folds \in Nat
  BY DEF IInv, RequestOK
<1>4. f \in 1..req.n_folds /\ f \in Nat
  BY <1>1, <1>3
<1>5. PICK a \in 1..n : DOMAIN df = a..n /\ Matrix = a..(n - 1) /\ n - a >= 2 * k + 9
  BY <1>1, EnoughRows
<1>6. k \in Nat \ {0} /\ n \in Nat
  BY <1>1, EnoughRows
<1>7. Filled' = Filled /\ SameHistory' = SameHistory
  BY <1>1 DEF Filled, SameHistory
<1>8. DataOK' /\ LabelOK'
  BY <1>1, <1>7 DEF IInv, DataOK, LabelOK
<1>9. RequestOK'
  BY <1>1, <1>4 DEF IInv, RequestOK
<1>10. StageOK'
  BY <1>1 DEF IInv, StageOK
<1>11. PositionsOK' /\ ForwardSamplesComplete'
  BY <1>1, <1>2 DEF PositionsOK, ForwardSamplesComplete, NoReport
<1>12. CASE UNCHANGED <<part, fit, pred>>
  <2>1. PartOK' /\ FitOK'
    BY <1>1, <1>12 DEF IInv, PartOK, FitOK
  <2>2. PredictionsOK'
    BY <1>1, <1>7, <1>12 DEF IInv, PredictionsOK, Warm
  <2>3. AlignedOK'
    BY <1>1, <1>12 DEF IInv, AlignedOK, PredOK, Sequences
  <2> QED
    BY <1>8, <1>9, <1>10, <1>11, <2>1, <2>2, <2>3 DEF IInv
<1>13. ASSUME /\ Usable(p) /\ part' = p /\ fit' = [scaler |-> seen, weights |-> seen]
              /\ pred' = [i \in rows |-> predicted(i)]
       PROVE  IInv'
  <2> DEFINE size == (n - a) \div (req.n_folds + 1)
             x == size * f
             y == size * (f + 1)
             c == a + x
             d == a + y
  <2>1. Cardinality(Matrix) = n - a
    <3> HIDE DEF n, k
    <3>1. a \in Int /\ n - 1 \in Int
      BY <1>6
    <3>2. Cardinality(a..(n - 1)) = IF a > n - 1 THEN 0 ELSE (n - 1) - a + 1
      BY <3>1, SizeOf
    <3> QED
      BY <1>5, <1>6, <3>2
  <2> DEFINE trains == Slice(a..(n - 1), 0, x)
             tests == Slice(a..(n - 1), x, y)
  <2>2. p = [train |-> trains, val |-> {}, test |-> tests]
    BY <1>5, <2>1 DEF FoldRows
  <2>3. Cardinality(create_sequences(trains, k)) >= 10
    BY <1>13, <2>2 DEF Usable
  <2>4. a < n /\ n - a \in Nat
    <3> HIDE DEF n, k
    <3> QED
      BY <1>5, <1>6
  <2>5. c \in 1..n /\ d \in 1..n /\ c <= d /\ c - a >= k /\ p = Cut(a, c, c, d)
    <3>1. x \in Nat /\ y \in Nat /\ x <= y /\ y <= n - a
      BY <1>3, <1>4, <2>4, FoldEnds
    <3> HIDE DEF n, k, x, y, p
    <3>2. /\ c \in 1..n /\ d \in 1..n /\ c <= d /\ c - a >= k
          /\ [train |-> trains, val |-> {}, test |-> tests] = Cut(a, c, c, d)
      <4>1. k \in Nat \ {0} /\ n \in Nat /\ a \in 1..n /\ a < n
            /\ Cardinality(create_sequences(Slice(a..(n - 1), 0, x), k)) >= 10
        BY <1>6, <2>3, <2>4
      <4>2. c \in 1..n /\ d \in 1..n /\ c <= d /\ c - a >= k
        BY <3>1, <4>1, FoldParts
      <4>3. [train |-> trains, val |-> {}, test |-> tests] = Cut(a, c, c, d)
        BY <3>1, <4>1, FoldParts
      <4> QED
        BY <4>2, <4>3
    <3> QED
      BY <2>2, <3>2
  <2> HIDE DEF c, d, trains, tests, x, y, size, p, f
  <2>6. p.train = a..(c - 1) /\ p.val = c..(c - 1) /\ p.test = c..(d - 1)
    BY <2>5 DEF Cut
  <2>7. a \in Nat /\ c \in Nat /\ d \in Nat /\ a <= c /\ d <= n
    BY <1>5, <1>6, <2>5
  <2>8. PartOK'
    <3>1. a \in DOMAIN df
      BY <1>5, <1>6
    <3>2. Partition(p, DOMAIN df, n, k)
      <4> HIDE DEF n, k
      <4> QED
        BY <2>5, <2>7, <3>1 DEF Partition
    <3> QED
      BY <1>1, <1>2, <1>13, <3>2 DEF PartOK, Histories
  <2>9. ASSUME NEW i \in c..n PROVE seen \subseteq Known(days[i])
    <3>1. ASSUME NEW j \in p.train
          PROVE  j \in 1..(c - 1) /\ j \in DOMAIN df /\ j + 1 \in DOMAIN df
      <4> HIDE DEF n, k
      <4>1. j \in a..(c - 1) /\ a \in 1..n /\ c \in 1..n
        BY <2>5, <2>6
      <4> QED
        BY <1>5, <1>6, <4>1
    <3>2. p.train \in SUBSET (1..(c - 1)) /\ p.train \subseteq DOMAIN df
          /\ \A j \in p.train : j + 1 \in DOMAIN df
      BY <3>1
    <3> QED
      BY <1>3, <2>5, <3>2, SeenKnown
  <2> HIDE DEF seen
  <2>10. FitOK'
    <3>1. \A i \in p.test : seen \subseteq Known(days[i])
      <4>1. p.test \subseteq c..n
        <5> HIDE DEF n
        <5> QED
          BY <1>6, <2>6, <2>7
      <4> QED
        BY <2>9, <4>1
    <3> QED
      BY <1>1, <1>13, <3>1 DEF IInv, FitOK
  <2>11. rows = p.test
    <3>1. WithContext(c..(d - 1), a..(c - 1), k) = c..(d - 1)
      BY <1>6, <2>5, <2>7, ContextIsTest
    <3> QED
      BY <2>6, <3>1
  <2>12. ASSUME NEW i \in p.test
         PROVE  predicted(i) \subseteq Known(days[i]) /\ i \notin p.train
    <3>1. i \in DOMAIN df /\ i \in c..n /\ i \notin p.train
      <4> HIDE DEF n, k
      <4> QED
        BY <1>5, <1>6, <2>6, <2>7
    <3>2. ASSUME NEW j \in (i - k)..(i - 1) PROVE j \in DOMAIN df
      <4> HIDE DEF n, k
      <4>1. k \in Nat /\ i - k >= a /\ i \in Int /\ i <= n
        BY <1>6, <2>5, <2>7, <3>1
      <4>2. a <= j /\ j <= n /\ j \in Int
        BY <1>6, <2>7, <4>1
      <4> QED
        BY <1>5, <1>6, <2>7, <4>2
    <3>3. df[i] \cup Lookback(i) \subseteq Known(days[i])
      BY <1>3, <1>6, <3>1, <3>2, LookbackKnown
    <3> QED
      BY <2>9, <3>1, <3>3
  <2>13. DOMAIN pred' = p.test /\ \A i \in p.test : pred'[i] = predicted(i)
    BY <1>13, <2>11
  <2> HIDE DEF predicted, rows
  <2>14. PredictionsOK'
    BY <1>1, <1>13, <2>12, <2>13 DEF PredictionsOK
  <2>15. AlignedOK'
    <3>1. p.val = {}
      BY <2>6, <2>7
    <3>2. Sequences' = p.test
      BY <1>1, <1>13, <2>11, <3>1 DEF Sequences, rows
    <3> QED
      BY <1>1, <1>2, <1>13, <2>13, <3>2 DEF AlignedOK, PredOK, NoReport
  <2> QED
    BY <1>8, <1>9, <1>10, <1>11, <2>8, <2>10, <2>14, <2>15 DEF IInv
<1> QED
  BY <1>1, <1>12, <1>13

-------------------------------------------------------------------------------
(* The specification.                                                      *)

LEMMA StepHolds == IInv /\ [Next]_vars => IInv'
<1> SUFFICES ASSUME IInv, [Next]_vars PROVE IInv'
  OBVIOUS
<1>1. CASE fetch_raw
  BY <1>1, FetchStep
<1>2. CASE preprocess
  BY <1>2, PreprocessStep
<1>3. CASE build_feature_matrix
  BY <1>3, BuildStep
<1>4. CASE split_and_scale_data
  BY <1>4, SplitStep
<1>5. CASE evaluate
  BY <1>5, EvaluateStep
<1>6. CASE save_artifacts
  BY <1>6, SaveStep
<1>7. CASE AskInference
  BY <1>7, AskStep
<1>8. CASE run_signal_backtest
  BY <1>8, SignalStep
<1>9. CASE Forecast
  BY <1>9, ForecastStep
<1>10. CASE ValidateFold
  BY <1>10, ValidateStep
<1>11. CASE EndValidation
  BY <1>11, EndStep
<1>12. CASE FetchBoth
  BY <1>12, FetchBothStep
<1>13. CASE _classify_regimes
  BY <1>13, ClassifyStep
<1>14. CASE _compute_risk_score
  BY <1>14, RiskStep
<1>15. CASE _compute_regime_stats
  BY <1>15, StatsStep
<1>16. CASE run_regime_backtest
  BY <1>16, RegimeBacktestStep
<1>17. CASE _find_similar_scenarios
  BY <1>17, SimilarStep
<1>18. CASE InformationCoefficient
  BY <1>18, CoefficientStep
<1>19. CASE compare
  BY <1>19, CompareStep
<1>20. CASE UNCHANGED vars
  <2>1. UNCHANGED <<req, days, df, ret, part, fit, store, pred, fold, label, report>>
    BY <1>20 DEF vars
  <2>2. StageOK'
    BY <1>20 DEF vars, IInv, StageOK, Untouched
  <2> QED
    BY <2>1, <2>2, ReportKept
<1> QED
  BY <1>1, <1>2, <1>3, <1>4, <1>5, <1>6, <1>7, <1>8, <1>9, <1>10, <1>11, <1>12, <1>13,
     <1>14, <1>15, <1>16, <1>17, <1>18, <1>19, <1>20 DEF Next

LEMMA Invariance == Spec => []IInv
<1>1. Init => IInv
  BY InitHolds
<1>2. IInv /\ [Next]_vars => IInv'
  BY StepHolds
<1> QED
  BY <1>1, <1>2, PTL DEF Spec

\* A context shorter than a sequence leaves fewer sequences than rows.
LEMMA ColdContext ==
    ASSUME NEW b \in Nat, NEW c \in Nat, NEW d \in Nat, NEW k \in Nat \ {0},
           b < c, c < d, c - b < k
    PROVE  Cardinality(WithContext(c..(d - 1), b..(c - 1), k)) < Cardinality(c..(d - 1))
<1> DEFINE before == b..(c - 1)
           test == c..(d - 1)
           rows == LastOf(before, k) \cup test
<1>1. Max(before) = c - 1
  BY MinMax
<1>2. LastOf(before, k) = b..(c - 1)
  BY <1>1 DEF LastOf
<1>3. rows = b..(d - 1)
  BY <1>2
<1>4. Min(rows) = b /\ Cardinality(rows) = d - b
  <2>1. b \in Int /\ d - 1 \in Int /\ b <= d - 1
    OBVIOUS
  <2> HIDE DEF rows
  <2>2. Min(b..(d - 1)) = b
    BY <2>1, MinMax
  <2>3. Cardinality(b..(d - 1)) = (d - 1) - b + 1
    BY <2>1, SizeOf
  <2> QED
    BY <1>3, <2>2, <2>3
<1> HIDE DEF rows
<1>5. create_sequences(rows, k) = {i \in rows : i - b \in k..((d - b) - 1)}
  BY <1>4 DEF create_sequences, Slice
<1>6. {i \in rows : i - b \in k..((d - b) - 1)} = (b + k)..(d - 1)
  BY <1>3
<1>7. WithContext(test, before, k) = (b + k)..(d - 1)
  BY <1>5, <1>6 DEF WithContext, rows
<1>8. Cardinality((b + k)..(d - 1)) = IF b + k > d - 1 THEN 0 ELSE (d - 1) - (b + k) + 1
  BY SizeOf
<1>9. Cardinality(test) = d - c
  BY SizeOf
<1> HIDE DEF test, before
<1> QED
  BY <1>7, <1>8, <1>9 DEF test, before

LEMMA AlignedFromIInv == ASSUME IInv PROVE TargetsAligned
<1>1. ASSUME part # NoPart
      PROVE  \/ \A i \in part.test : Sequences # {} /\ SequenceOf(i, Sequences, part.test) = i
             \/ /\ ~Warm /\ Cardinality(Sequences) < Cardinality(part.test)
                /\ DOMAIN pred = {} \/ Cardinality(Sequences) = 1
  <2> DEFINE k == req.seq_len
             before == IF part.val = {} THEN part.train ELSE part.val
  <2>1. req.kind \in Histories /\ Partition(part, DOMAIN df, Len(days), k)
    BY <1>1 DEF IInv, PartOK
  <2>2. k \in Nat \ {0}
    BY <2>1 DEF IInv, RequestOK
  <2>3. Len(days) \in Nat /\ DOMAIN df \subseteq 1..Len(days)
    BY DEF IInv, DataOK, IsIndex, IsSeries, FromSome
  <2>4. PICK a \in DOMAIN df, b \in 1..Len(days), c \in 1..Len(days), d \in 1..Len(days) :
          a <= b /\ b <= c /\ c <= d /\ c - a >= k /\ part = Cut(a, b, c, d)
    BY <2>1 DEF Partition
  <2>5. part.train = a..(b - 1) /\ part.val = b..(c - 1) /\ part.test = c..(d - 1)
    BY <2>4 DEF Cut
  <2>6. a \in Nat /\ b \in Nat /\ c \in Nat /\ d \in Nat /\ a <= c
    BY <2>3, <2>4
  <2>7. Sequences = WithContext(c..(d - 1), before, k)
    BY <2>5 DEF Sequences
  <2> HIDE DEF k
  <2>8. ASSUME Sequences = part.test
        PROVE  \A i \in part.test : Sequences # {} /\ SequenceOf(i, Sequences, part.test) = i
    BY <2>5, <2>6, <2>8, SequenceIsRow
  <2>9. CASE b = c
    <3>1. before = a..(c - 1)
      BY <2>5, <2>6, <2>9
    <3> HIDE DEF before
    <3>2. Sequences = part.test
      BY <2>2, <2>4, <2>5, <2>6, <2>7, <3>1, ContextIsTest
    <3> QED
      BY <2>8, <3>2
  <2>10. CASE b < c
    <3>1. before = b..(c - 1) /\ b \in part.val
      BY <2>5, <2>6, <2>10
    <3>2. Cardinality(part.val) = c - b
      BY <2>5, <2>6, <2>10, SizeOf
    <3> HIDE DEF before
    <3>3. CASE c - b >= k
      <4>1. Sequences = part.test
        BY <2>2, <2>4, <2>5, <2>6, <2>7, <3>1, <3>3, ContextIsTest
      <4> QED
        BY <2>8, <4>1
    <3>4. CASE c - b < k /\ c < d
      <4>1. Cardinality(Sequences) < Cardinality(part.test)
        BY <2>2, <2>5, <2>6, <2>7, <2>10, <3>1, <3>4, ColdContext
      <4>2. ~Warm
        BY <2>2, <2>6, <3>1, <3>2, <3>4 DEF Warm, k
      <4>3. Cardinality(part.test) = d - c
        BY <2>5, <2>6, <3>4, SizeOf
      <4>4. DOMAIN pred = {} \/ Cardinality(Sequences) = 1
        <5>1. DOMAIN pred # {} => Cardinality(Sequences) \in {1, Cardinality(part.test)}
          BY DEF IInv, AlignedOK, PredOK
        <5>2. Cardinality(Sequences) # Cardinality(part.test)
          BY <2>6, <4>1, <4>3
        <5> QED
          BY <5>1, <5>2
      <4> QED
        BY <4>1, <4>2, <4>4
    <3>5. CASE c = d
      BY <2>5, <2>6, <3>5
    <3> QED
      BY <2>2, <2>4, <2>6, <3>3, <3>4, <3>5
  <2> QED
    BY <2>4, <2>6, <2>9, <2>10
<1>2. ASSUME NEW i \in part.train, NEW j \in part.val \cup part.test PROVE i < j
  <2>1. part # NoPart
    BY <1>2 DEF NoPart
  <2>2. Partition(part, DOMAIN df, Len(days), req.seq_len)
    BY <2>1 DEF IInv, PartOK
  <2>3. Len(days) \in Nat /\ DOMAIN df \subseteq 1..Len(days)
    BY DEF IInv, DataOK, IsIndex, IsSeries, FromSome
  <2>4. PICK a \in DOMAIN df, b \in 1..Len(days), c \in 1..Len(days), d \in 1..Len(days) :
          b <= c /\ part = Cut(a, b, c, d)
    BY <2>2 DEF Partition
  <2>5. part.train = a..(b - 1) /\ part.val = b..(c - 1) /\ part.test = c..(d - 1)
    BY <2>4 DEF Cut
  <2> QED
    BY <1>2, <2>3, <2>4, <2>5
<1>3. AlignedOK
  BY DEF IInv
<1> QED
  BY <1>1, <1>2, <1>3 DEF TargetsAligned, AlignedOK, PredOK

\* No prediction and no position depends on prices after the day it is made on,
\* but for what the model names: the windows, splits, scalers, folds and
\* backtests of ml/features.py, the walk-forward and inference paths, and the
\* regime and quantitative reports.
THEOREM PricesKnown == Spec => []NoLookahead
<1>1. IInv => NoLookahead
  BY DEF IInv, PredictionsOK, PositionsOK, NoLookahead, Known
<1> QED
  BY <1>1, Invariance, PTL

\* Sequences and targets of the test rows stand row for row; after a validation
\* partition shorter than seq_len there are fewer sequences than rows instead,
\* and predictions only from a single one.  Partitions are chronological, and
\* compared stocks have the same days (split_and_scale_data, api_wf_validate,
\* ComparisonService.compare).
THEOREM RowsAligned == Spec => []TargetsAligned
<1>1. IInv => TargetsAligned
  BY AlignedFromIInv
<1> QED
  BY <1>1, Invariance, PTL

\* Every sampled day has its outcome at every horizon, and every similar day
\* its whole path (_compute_regime_stats, _find_similar_scenarios).
THEOREM SamplesComplete == Spec => []ForwardSamplesComplete
<1>1. IInv => ForwardSamplesComplete
  BY DEF IInv
<1> QED
  BY <1>1, Invariance, PTL
===============================================================================
