------------------------------ MODULE Research ------------------------------
(***************************************************************************)
(* What the analytics make of a price history.  The repository cleans it   *)
(* and builds the feature matrix.  A training job and a prediction request *)
(* split it, train and evaluate; a training job saves the artifacts, with  *)
(* which an inference request evaluates a history of its own and           *)
(* extrapolates.  Walk-forward validation repeats split and training per   *)
(* fold; a regime request labels the days, scores them and reports         *)
(* statistics, similar days and a backtest; the quantitative report        *)
(* relates positions to later returns; a comparison aligns several stocks. *)
(*                                                                         *)
(* Days number the trading days of a download; values are lineages (module *)
(* Lineage) by row of the history; a partition is an interval of rows.     *)
(***************************************************************************)
EXTENDS Lineage, Sequences, FiniteSetsExt

CONSTANTS
    Sizes,      \* numbers of downloaded rows
    TrainSizes, \* of those, the ones of a training job
    Gaps,       \* days that a download may lack, or preprocess() drop
    SeqLens,    \* job.seq_len, sequence_length
    Folds,      \* n_folds
    TrainPct, ValPct,
    Stocks,     \* tickers of a comparison
    MinRows,    \* _MIN_ROWS
    NClusters,  \* n_clusters
    Horizons,   \* 5, 10, 20: days ahead of the regime statistics
    RiskWindow, \* 5
    SimilarRows, SimilarMargin, PathLen, \* 30, 15, 11
    IcWindow    \* 60

ASSUME ResearchAssumption ==
    /\ Sizes \subseteq Nat /\ TrainSizes \subseteq Nat /\ Gaps \subseteq Nat
    /\ SeqLens \subseteq Nat \ {0} /\ Folds \subseteq Nat
    /\ TrainPct \in 50..100 /\ ValPct \in 10..50 /\ TrainPct + ValPct <= 100
    /\ MinRows \in Nat /\ NClusters \in Nat \ {0}
    /\ Horizons \subseteq Nat /\ Horizons # {} /\ IsFiniteSet(Horizons)
    /\ RiskWindow \in Nat \ {0} /\ IcWindow \in Nat
    /\ SimilarRows \in Nat /\ PathLen \in Nat /\ SimilarMargin \in Nat /\ PathLen <= SimilarMargin + 1

VARIABLES
    stage,  \* where the request is
    req,    \* what was asked for
    days,   \* index of the history: the day of each row
    df,     \* df: the lineage of each row of features
    ret,    \* ret[i]: the lineage of the return of row i on the row before it
    part,   \* the partitions the model works on
    fit,    \* what this request's scalers and weights were fitted on
    store,  \* the artifacts a training job has saved
    pred,   \* pred[i]: the lineage of the price predicted in row i
    fold,   \* walk-forward: the current fold
    label,  \* label[i]: the lineage of the regime of row i
    report  \* what the last step produced

vars == <<stage, req, days, df, ret, part, fit, store, pred, fold, label, report>>

Empty == [i \in {} |-> {}]
NoFit == [scaler |-> {}, weights |-> {}]
NoModel == [scaler |-> {}, weights |-> {}, seq_len |-> 0, trained |-> {}]
NoPart == [train |-> {}, val |-> {}, test |-> {}]
NoReport == [kind |-> "none"]

Request(kinds, seqs, folds) == [kind : kinds, seq_len : seqs, n_folds : folds]

Fresh(r) ==
    /\ stage' = "asked" /\ req' = r /\ days' = <<>> /\ df' = Empty /\ ret' = Empty /\ part' = NoPart
    /\ fit' = NoFit /\ pred' = Empty /\ fold' = 0 /\ label' = Empty /\ report' = NoReport

Init ==
    /\ req \in Request({"train", "predict", "regime"}, SeqLens, {0})
               \cup Request({"validate"}, SeqLens, Folds)
               \cup Request({"quant", "compare"}, {0}, {0})
    /\ stage = "asked" /\ days = <<>> /\ df = Empty /\ ret = Empty /\ part = NoPart /\ fit = NoFit
    /\ store = NoModel /\ pred = Empty /\ fold = 0 /\ label = Empty /\ report = NoReport

-------------------------------------------------------------------------------
(* MarketDataRepository.                                                   *)

\* The days of a download, of which one may be missing.
Downloads(n) == {[i \in 1..n |-> i]} \cup {[i \in 1..(n - 1) |-> IF i < g THEN i ELSE i + 1] : g \in Gaps}

\* The download raises or is empty, or has some rows.
fetch_raw ==
    /\ stage = "asked" /\ req.kind \notin {"quant", "compare"}
    /\ \/ /\ \E n \in IF req.kind = "train" THEN TrainSizes ELSE Sizes : days' = [i \in 1..n |-> i]
          /\ stage' = "raw"
       \/ stage' = "failed" /\ UNCHANGED days
    /\ UNCHANGED <<req, df, ret, part, fit, store, pred, fold, label, report>>

\* An outlier or a duplicate goes, the other rows are clipped in place.
preprocess ==
    /\ stage = "raw"
    /\ days' \in Downloads(Len(days))
    /\ stage' = "clean"
    /\ UNCHANGED <<req, df, ret, part, fit, store, pred, fold, label, report>>

\* The Close column after preprocess(), and as downloaded.
Close(index) == [i \in DOMAIN index |-> {index[i], Quantiles}]
RawClose(index) == [i \in DOMAIN index |-> {index[i]}]

\* engineer_features, then InsufficientDataError if there are too few rows.
build_feature_matrix ==
    LET rows == engineer_features(Close(days)) IN
    /\ stage = "clean"
    /\ IF Cardinality(DOMAIN rows) < 2 * req.seq_len + 10
       THEN stage' = "failed" /\ UNCHANGED <<df, ret>>
       ELSE stage' = req.kind /\ df' = rows /\ ret' = loc(LogReturn(Close(days)), DOMAIN rows)
    /\ UNCHANGED <<req, days, part, fit, store, pred, fold, label, report>>

\* The target of a row is the return of the next one: the last has none.
Target(i) == ret[i + 1]
Matrix == DOMAIN df \ {Max(DOMAIN df)}

-------------------------------------------------------------------------------
(* split_and_scale_data and create_sequences.                              *)

\* int(n * percent / 100)
Share(n, percent) == (n * percent) \div 100

\* rows[a:b] and rows[-k:] of an interval.
Slice(rows, a, b) == {i \in rows : i - Min(rows) \in a..(b - 1)}
LastOf(rows, k) == {i \in rows : Max(rows) - i < k}

\* Chronological, the rest is the test partition.
split_data(rows) ==
    LET n       == Cardinality(rows)
        n_train == Share(n, TrainPct)
        n_val   == Share(n, ValPct)
    IN [train |-> Slice(rows, 0, n_train),
        val   |-> Slice(rows, n_train, n_train + n_val),
        test  |-> Slice(rows, n_train + n_val, n)]

\* The rows that have a sequence: all but the first seq_len of the array.
create_sequences(rows, seq_len) == Slice(rows, seq_len, Cardinality(rows))

\* The sequences of a partition that has the end of another one as context.
NoContext(rows, before, seq_len) == create_sequences(rows, seq_len)
WithContext(rows, before, seq_len) ==
    create_sequences(LastOf(before, seq_len) \cup rows, seq_len)

\* X[i - seq_len : i]
Lookback(i) == UNION {df[j] : j \in (i - req.seq_len)..(i - 1)}

\* Scalers and weights that have seen some rows with their targets.
Seen(rows) == UNION {df[i] \cup Target(i) : i \in rows}

\* Scalers see the training rows, training also the validation loss.
split_and_scale_data ==
    /\ stage \in {"train", "predict", "infer"}
    /\ LET p == split_data(Matrix) IN
       /\ part' = p
       /\ fit' = [scaler |-> Seen(p.train), weights |-> Seen(p.train \cup p.val)]
    /\ stage' = "split"
    /\ UNCHANGED <<req, days, df, ret, store, pred, fold, label, report>>

\* The sequence numpy pairs with a test row: the one at its position, or the
\* only one, which is broadcast over all rows.
SequenceOf(i, seqs, test) ==
    IF Cardinality(seqs) = 1 THEN Max(seqs) ELSE Min(seqs) + (i - Min(test))

\* The artifacts predictions are made with: those of the store for inference.
Model == IF req.kind = "infer" THEN store ELSE fit

\* base_test * exp(inverse_transform(predict(X_test))).  The actual prices go
\* through the scalers of the split and back through those of the model.
evaluate ==
    LET seqs == WithContext(part.test, part.val, req.seq_len)
        made == fit.scaler \cup Model.scaler \cup Model.weights
        next == [train |-> "save", predict |-> "backtest", infer |-> "backtest"]
    IN /\ stage = "split"
       /\ IF Cardinality(seqs) \notin {1, Cardinality(part.test)}
          THEN stage' = "failed" /\ UNCHANGED <<pred, report>>
          ELSE /\ pred' = [i \in part.test |->
                             df[i] \cup made \cup Lookback(SequenceOf(i, seqs, part.test))]
               /\ report' = [kind |-> "actuals", scaled |-> fit.scaler,
                             inverted |-> Model.scaler]
               /\ stage' = next[req.kind]
       /\ UNCHANGED <<req, days, df, ret, part, fit, store, fold, label>>

\* BackgroundTrainer: the artifacts and the metadata with the job's seq_len.
save_artifacts ==
    /\ stage = "save"
    /\ store' = [scaler |-> fit.scaler, weights |-> fit.weights,
                 seq_len |-> req.seq_len, trained |-> days]
    /\ stage' = "saved"
    /\ UNCHANGED <<req, days, df, ret, part, fit, pred, fold, label, report>>

\* InferenceEngine.predict: seq_len of the metadata, any range of dates.
AskInference ==
    /\ stage = "saved"
    /\ Fresh([kind |-> "infer", seq_len |-> store.seq_len, n_folds |-> 0])
    /\ UNCHANGED store

\* signal: the prediction of a row against the one before.  The return of a
\* row is that of the actual prices, which are those of the next row.
run_signal_backtest ==
    LET first == Min(part.test)
        held(i) == IF i = first THEN pred[i] ELSE pred[i] \cup pred[i - 1]
        earned(i) == IF i = first THEN {} ELSE {days[i], days[i + 1]}
    IN /\ stage = "backtest"
       /\ report' = [kind |-> "positions",
                     rows |-> {[held |-> held(i), earned |-> earned(i), row |-> i] :
                               i \in part.test}]
       /\ stage' = IF req.kind = "infer" THEN "forecast" ELSE "done"
       /\ UNCHANGED <<req, days, df, ret, part, fit, store, pred, fold, label>>

\* Five steps from the last sequence and the last actual price, each with the
\* prediction of the one before as the newest price, dated from the last test
\* day on.
Forecast ==
    LET last  == Max(part.test)
        start == Model.scaler \cup Model.weights \cup fit.scaler \cup Lookback(last)
                 \cup df[last] \cup Target(last)
    IN /\ stage = "forecast"
       /\ report' = [kind |-> "forecast", from |-> start,
                     dates |-> {days[last] + k : k \in 1..5}]
       /\ stage' = "done"
       /\ UNCHANGED <<req, days, df, ret, part, fit, store, pred, fold, label>>

-------------------------------------------------------------------------------
(* Walk-forward validation: the training rows grow fold by fold.           *)

FoldRows(k) ==
    LET size == Cardinality(Matrix) \div (req.n_folds + 1)
    IN [train |-> Slice(Matrix, 0, size * k),
        val   |-> {},
        test  |-> Slice(Matrix, size * k, size * (k + 1))]

\* Too small a fold is skipped.
Usable(p) ==
    /\ Cardinality(p.test) >= req.seq_len + 10
    /\ Cardinality(create_sequences(p.train, req.seq_len)) >= 10

ValidateFold ==
    LET p == FoldRows(fold + 1)
        seen == Seen(p.train)
    IN /\ stage = "validate"
       /\ fold < req.n_folds
       /\ fold' = fold + 1
       /\ IF Usable(p)
          THEN /\ part' = p
               /\ fit' = [scaler |-> seen, weights |-> seen]
               /\ pred' = [i \in WithContext(p.test, p.train, req.seq_len) |->
                             df[i] \cup seen \cup Lookback(i)]
          ELSE UNCHANGED <<part, fit, pred>>
       /\ UNCHANGED <<stage, req, days, df, ret, store, label, report>>

EndValidation ==
    /\ stage = "validate"
    /\ fold = req.n_folds
    /\ stage' = IF pred = Empty THEN "failed" ELSE "done"
    /\ UNCHANGED <<req, days, df, ret, part, fit, store, pred, fold, label, report>>

-------------------------------------------------------------------------------
(* RegimeService.classify and compute_quant_research_report.               *)

\* An index of the days of a set, earliest first.
InOrder(S) == [k \in 1..Cardinality(S) |->
                 Min({d \in S : Cardinality({e \in S : e <= d}) >= k})]

\* The rows of a series over one index, for the days of another.
reindex(s, index, common) ==
    [k \in DOMAIN common |-> s[CHOOSE i \in DOMAIN index : index[i] = common[k]]]

\* The quantitative report downloads the stock and the benchmark itself,
\* checks no size and works on the days both have.
FetchBoth ==
    /\ stage = "asked" /\ req.kind = "quant"
    /\ \/ \E n \in Sizes : \E own \in Downloads(n), bench \in Downloads(n) :
            LET rows   == _engineer(RawClose(own))
                others == _engineer(RawClose(bench))
                common == InOrder({own[i] : i \in DOMAIN rows} \cap {bench[i] : i \in DOMAIN others})
            IN /\ days' = common
               /\ df' = reindex(rows, own, common)
               /\ ret' = reindex(LogReturn(RawClose(own)), own, common)
               /\ stage' = "quant"
       \/ stage' = "failed" /\ UNCHANGED <<days, df, ret>>
    /\ UNCHANGED <<req, part, fit, store, pred, fold, label, report>>

\* The rows whose windows are all filled.
Filled == IF req.kind = "quant" THEN df ELSE _build_regime_features(df, Close(days))

\* RegimeService copies the first filled row to those before it.  KMeans and
\* its scaler see all rows; with fewer rows than clusters it raises.
_classify_regimes ==
    LET filled == Filled
        feat == IF req.kind = "regime" /\ filled # Empty THEN bfill(filled, DOMAIN df)
                ELSE filled
    IN /\ stage \in {"regime", "quant"}
       /\ IF Cardinality(DOMAIN feat) < NClusters
          THEN stage' = "failed" /\ UNCHANGED label
          ELSE /\ label' = [i \in DOMAIN feat |-> feat[i] \cup {Clusters}]
               /\ stage' = IF req.kind = "regime" THEN "risk" ELSE "labelled"
       /\ UNCHANGED <<req, days, df, ret, part, fit, store, pred, fold, report>>

\* The mean of some rows' raw scores, at least 7.5 in a bad regime; 5.0, and
\* never 7.5, while there is no mean.
_compute_risk_score ==
    LET raw   == Combine({df, rolling(ret, VolWindow), rolling(ret, LongWindow)})
        score == Combine({rolling(raw, RiskWindow), label})
    IN /\ stage = "risk"
       /\ report' = [kind |-> "positions",
                     rows |-> {[held |-> score[i], earned |-> {}, row |-> i] : i \in DOMAIN score}]
       /\ stage' = "stats"
       /\ UNCHANGED <<req, days, df, ret, part, fit, store, pred, fold, label>>

\* Rows before the cutoff, which is the MaxHorizon-th from the end (the first
\* one of a short history); up to the cutoff, by mistake.
MaxHorizon == Max(Horizons)
Cutoff(rows) == IF Cardinality(rows) > MaxHorizon THEN Max(rows) - MaxHorizon + 1 ELSE Min(rows)
EligibleUpToCutoff(rows) == {i \in rows : i <= Cutoff(rows)}
Eligible(rows) == {i \in rows : i < Cutoff(rows)}

\* The horizons at which an eligible day has a later price.
_compute_regime_stats ==
    /\ stage = "stats"
    /\ report' = [kind |-> "stats",
                  rows |-> {[row |-> i, ahead |-> {h \in Horizons : i + h \in DOMAIN label}] :
                            i \in Eligible(DOMAIN label)}]
    /\ stage' = "labelled"
    /\ UNCHANGED <<req, days, df, ret, part, fit, store, pred, fold, label>>

\* weights.shift(1) * daily_ret: a row earns with the weight of the row before
\* it; with its own, by mistake.
HeldSameRow(i) == [held |-> label[i], earned |-> ret[i] \ Statistics, row |-> i - 1]
HeldNextRow(i) == [held |-> label[i - 1], earned |-> ret[i] \ Statistics, row |-> i - 1]

run_regime_backtest ==
    /\ stage = "labelled"
    /\ report' = [kind |-> "positions",
                  rows |-> {HeldNextRow(i) : i \in DOMAIN label \ {Min(DOMAIN label)}}]
    /\ stage' = IF req.kind = "regime" THEN "similar" ELSE "ic"
    /\ UNCHANGED <<req, days, df, ret, part, fit, store, pred, fold, label>>

\* Any of the days but the last ones may be among the most similar; each comes
\* with the prices of the days after it.
_find_similar_scenarios ==
    LET rows == DOMAIN label
        candidates == IF Cardinality(rows) < SimilarRows THEN {}
                      ELSE Slice(rows, 0, Cardinality(rows) - SimilarMargin)
    IN /\ stage = "similar"
       /\ report' = [kind |-> "similar",
                     rows |-> {[row |-> i, path |-> rows \cap i..(i + PathLen - 1)] :
                               i \in candidates}]
       /\ stage' = "done"
       /\ UNCHANGED <<req, days, df, ret, part, fit, store, pred, fold, label>>

\* Information coefficient of a row: the weights of a window of rows before it
\* against the return of the row after each.
InformationCoefficient ==
    LET rows == DOMAIN label
        pairs(i) == UNION {label[j] \cup ret[j + 1] : j \in (i - IcWindow)..(i - 1)}
    IN /\ stage = "ic"
       /\ report' = [kind |-> "positions",
                     rows |-> {[held |-> pairs(i), earned |-> {}, row |-> i] :
                               i \in Slice(rows, IcWindow, Cardinality(rows) - 1)}]
       /\ stage' = "done"
       /\ UNCHANGED <<req, days, df, ret, part, fit, store, pred, fold, label>>

-------------------------------------------------------------------------------
(* ComparisonService.compare: each stock is fetched, cleaned and engineered *)
(* in a thread of its own; the ones that fail are listed as errors.  With   *)
(* too few common days the request fails, by a ValueError rather than the   *)
(* InsufficientDataError intended: len(common_dates or []) asks for the     *)
(* truth of an index.                                                       *)

\* The days of complete rows; too few are an InsufficientDataError.
_fetch_one(index) == {index[i] : i \in DOMAIN engineer_features(Close(index))}

\* Prices relative to the first common day, and log returns, which each stock
\* has on its own calendar.
Compared(frames, common) ==
    {[stock |-> f.stock, day |-> d, base |-> Min(common),
      since |-> Max({e \in 1..(d - 1) : \E i \in DOMAIN f.index : f.index[i] = e})] :
        f \in frames, d \in common}

compare ==
    /\ stage = "asked" /\ req.kind = "compare"
    /\ \E n \in Sizes : \E index \in [Stocks -> Downloads(n)], up \in SUBSET Stocks :
         LET fetched == {[stock |-> s, index |-> index[s], days |-> _fetch_one(index[s])] : s \in up}
             frames  == {f \in fetched : Cardinality(f.days) >= MinRows}
             common  == {d \in 1..n : \A f \in frames : d \in f.days}
         IN IF frames = {} \/ Cardinality(common) < MinRows
            THEN stage' = "failed" /\ UNCHANGED report
            ELSE /\ stage' = "done"
                 /\ report' = [kind |-> "comparison", results |-> {f.stock : f \in frames},
                               rows |-> Compared(frames, common)]
    /\ UNCHANGED <<req, days, df, ret, part, fit, store, pred, fold, label>>

-------------------------------------------------------------------------------
Next ==
    \/ fetch_raw \/ preprocess \/ build_feature_matrix
    \/ split_and_scale_data \/ evaluate \/ save_artifacts \/ AskInference
    \/ run_signal_backtest \/ Forecast
    \/ ValidateFold \/ EndValidation
    \/ FetchBoth \/ _classify_regimes \/ _compute_risk_score \/ _compute_regime_stats
    \/ run_regime_backtest \/ _find_similar_scenarios \/ InformationCoefficient
    \/ compare

Spec == Init /\ [][Next]_vars

-------------------------------------------------------------------------------
(* Properties.                                                             *)

\* The validation partition is long enough to be a full context.
Warm == part.val = {} \/ Cardinality(part.val) >= req.seq_len

\* The saved model was trained on this request's own history.
SameHistory == req.kind = "infer" => store.trained = days

\* The regimes of the rows before the first filled one are copies of it.
Copied == IF label = Empty THEN {} ELSE DOMAIN label \ DOMAIN Filled

\* A predicted price depends on no price after the day it is made on, by way
\* of windows, scalers and weights alike, and that day is none the model or a
\* scaler was fitted on.  A position, a risk score or a coefficient is known
\* before the return it earns.  What depends on the future all the same is
\* named by the model, not left out of it: the quantiles of preprocess(), the
\* clusters of the regimes, the copies in the first rows; and, for inference,
\* a model that was trained on another history (ml/features.py,
\* app/services/backtest_service.py, app/services/regime_service.py).
NoLookahead ==
    Warm /\ SameHistory =>
       /\ \A i \in DOMAIN pred :
             pred[i] \subseteq 1..days[i] \cup {Quantiles} /\ i \notin part.train
       /\ report.kind = "positions" => LET copied == Copied IN
             \A r \in report.rows :
                \/ r.row \in copied
                \/ /\ r.held \subseteq 1..days[r.row] \cup Statistics
                   /\ \A e \in r.earned : e >= days[r.row]

\* The sequences of the test rows: those of the rows before them, which are
\* validation rows or, in walk-forward validation, training rows.
Sequences ==
    WithContext(part.test, IF part.val = {} THEN part.train ELSE part.val, req.seq_len)

\* Sequences, dates and base prices of the test partition are of the same rows,
\* one for one, in every fold, and in training, prediction and inference
\* (split_and_scale_data and api_wf_validate).  A validation partition shorter
\* than seq_len, which features.py admits, leaves fewer sequences than rows:
\* numpy refuses them, and what is predicted all the same is predicted from a
\* single sequence, broadcast over the rows.  Partitions are chronological.  The
\* stocks of a comparison that could be fetched are compared on the same days,
\* and on enough of them.
TargetsAligned ==
    /\ part # NoPart =>
          \/ \A i \in part.test : Sequences # {} /\ SequenceOf(i, Sequences, part.test) = i
          \/ /\ ~Warm /\ Cardinality(Sequences) < Cardinality(part.test)
             /\ DOMAIN pred = {} \/ Cardinality(Sequences) = 1
    /\ DOMAIN pred \in {{}, part.test}
    /\ \A i \in part.train, j \in part.val \cup part.test : i < j
    /\ report.kind = "comparison" => LET daysOf(s) == {r.day : r \in {q \in report.rows : q.stock = s}} IN
          \A s, t \in report.results : daysOf(s) = daysOf(t) /\ Cardinality(daysOf(s)) >= MinRows

\* The statistics of all horizons ahead are of the same days, and the paths of
\* similar days are complete: none is cut off by the end of the data
\* (_compute_regime_stats, _find_similar_scenarios).
ForwardSamplesComplete ==
    /\ report.kind = "stats" => \A r \in report.rows : r.ahead = Horizons
    /\ report.kind = "similar" => \A r \in report.rows : Cardinality(r.path) = PathLen

\* Expected to fail: the prices shown as actual are those of the test days, so
\* what one scaler did is undone by the same one.
ActualsAreReal == report.kind = "actuals" => report.scaled = report.inverted
=============================================================================
