------------------------------- MODULE Lineage -------------------------------
(***************************************************************************)
(* Which data a number was computed from.  A pandas series is modelled by  *)
(* its lineage: a function from row numbers to the sources of the value in *)
(* that row.  A source is a day whose prices went in, or a statistic of    *)
(* the whole history; a row in which the series is NaN is not in the       *)
(* domain.  An index is the sequence of the days of the rows.  The         *)
(* indicators are the compositions of shift, rolling, ewm and arithmetic   *)
(* of the code; only the lengths of their windows are parameters, so that  *)
(* small histories show them all.                                          *)
(***************************************************************************)
EXTENDS Integers, FiniteSets

CONSTANTS
    RsiWindow,  \* 14
    VolWindow,  \* 20
    LongWindow, \* 90
    Lag         \* 10: of EMA_slope and Ret10

ASSUME LineageAssumption == {RsiWindow, VolWindow, LongWindow, Lag} \subseteq Nat \ {0}

\* Sources that are not days: the quantiles preprocess() clips and filters at,
\* and the scaler and cluster centres of the regime model.
Quantiles == -1
Clusters == -2
Statistics == {Quantiles, Clusters}

-------------------------------------------------------------------------------
(* Operations on series of n rows.                                         *)

\* Arithmetic on several series: NaN where one of them is.
Combine(S) ==
    [i \in {j \in UNION {DOMAIN s : s \in S} : \A s \in S : j \in DOMAIN s} |->
        UNION {s[i] : s \in S}]

loc(s, rows) == [i \in DOMAIN s \cap rows |-> s[i]]

shift(s, k) == [i \in {j + k : j \in DOMAIN s} |-> s[i - k]]
diff(s, k) == Combine({s, shift(s, k)})

rolling(s, w) ==
    [i \in {j \in DOMAIN s : (j - w + 1)..j \subseteq DOMAIN s} |->
        UNION {s[j] : j \in (i - w + 1)..i}]

ewm(s) == [i \in DOMAIN s |-> UNION {s[j] : j \in {x \in DOMAIN s : x <= i}}]

\* ffill().bfill(): nothing is missing after the first value, and the rows
\* before it get a copy of it.
bfill(s, rows) ==
    LET first == CHOOSE i \in DOMAIN s : \A j \in DOMAIN s : i <= j
    IN [i \in rows |-> IF i \in DOMAIN s THEN s[i] ELSE s[first]]

-------------------------------------------------------------------------------
(* Indicators of a series c of closing prices.                             *)

LogReturn(c) == diff(c, 1)
compute_rsi(c) == rolling(diff(c, 1), RsiWindow)
compute_ema(c) == ewm(c)
compute_macd(c) == ewm(ewm(c))

\* Complete rows only (dropna).
engineer_features(c) ==
    Combine({c, LogReturn(c), compute_rsi(c), compute_ema(c), compute_macd(c)})

\* The rows of regime features that df has complete windows for; c is the
\* series the indicators of df were computed from.
_build_regime_features(df, c) ==
    LET close  == loc(c, DOMAIN df)
        ema    == loc(compute_ema(c), DOMAIN df)
        logret == loc(LogReturn(c), DOMAIN df)
    IN Combine({df, rolling(logret, VolWindow), rolling(close, VolWindow),
                diff(ema, Lag), diff(close, Lag)})

\* The same columns in ml/quant_analytics.py, on the whole history, then dropna.
_engineer(c) ==
    Combine({engineer_features(c), rolling(LogReturn(c), VolWindow), rolling(c, VolWindow),
             diff(compute_ema(c), Lag), diff(c, Lag)})
==============================================================================
