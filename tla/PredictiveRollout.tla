-------------------------- MODULE PredictiveRollout --------------------------
(***************************************************************************)
(* The comparison of a predicted trajectory with a future holdout          *)
(* (core/predictive_rollout.py, evaluate_predictive_rollout): are the      *)
(* files there, is the holdout independent of the training, do the two     *)
(* series align step by step, and is the prediction close enough.          *)
(*                                                                         *)
(* A plan comes with the files it finds.  A file is declared under a       *)
(* written path, which stands for a real one (two written paths may be one *)
(* file).  Values are in units of the scale of their signal, times are     *)
(* integers, 0 when a point has none.                                      *)
(***************************************************************************)
EXTENDS Numbers, Sequences, FiniteSets, SequencesExt, FiniteSetsExt

(* What the schemas require: of a plan training, two steps, a target and   *)
(* thresholds that are not negative, and of a series that its values are   *)
(* numbers.                                                                *)
Numeric(points) ==
  /\ points \in Seq(Range(points))
  /\ \A k \in DOMAIN points :
       /\ points[k].time \in Int
       /\ \A x \in DOMAIN points[k].values : points[k].values[x] \in Int

WellFormedPlan(p) ==
  /\ p.training # {} /\ p.horizon >= 2 /\ p.targets # {} /\ IsFiniteSet(p.targets)
  /\ p.horizon \in Nat /\ p.stepSize \in Nat \ {0} /\ p.trainingEnd \in Int
  /\ {p.maxWorst, p.maxAccumulated, p.maxLag, p.maxPhase, p.maxDrift, p.maxGrowth} \subseteq Nat
  /\ Numeric(p.predicted.points) /\ Numeric(p.observed.points)

VARIABLES
  rollout,    \* the plan and what it finds
  phase,      \* what comes next
  failures,   \* findings so far, all of them errors
  lag,        \* the lag found for each target; none before it is measured
  verdict     \* the status; "" until there is one

rolloutVars == <<rollout, phase, failures, lag, verdict>>

Phases == {"gate", "overlap", "series", "align", "measure", "conclude", "done"}

RolloutStart ==
  /\ phase = "gate"
  /\ failures = {} /\ lag = <<>>
  /\ verdict = ""

Fail(type, about) == [type |-> type, about |-> about]
If(reason, type) == IF reason THEN {Fail(type, "")} ELSE {}
-----------------------------------------------------------------------------
(* Gates: nothing declared, or a model without a state to roll out.        *)
DeclineRollout ==
  /\ phase = "gate"
  /\ ~rollout.declared
  /\ verdict' = IF rollout.stateful THEN "not_declared" ELSE "not_authorized"
  /\ phase' = "done"
  /\ UNCHANGED <<rollout, failures, lag>>

Forbid ==
  /\ phase = "gate"
  /\ rollout.declared /\ ~rollout.stateful
  /\ failures' = {Fail("pointwise_prediction_forbidden", "")}
  /\ verdict' = "blocked"
  /\ phase' = "done"
  /\ UNCHANGED <<rollout, lag>>

(* Files: what is missing is reported once for each written path.          *)
Gone(file) == file.path \in rollout.gone
Declared == {rollout.model, rollout.prediction, rollout.holdout} \cup rollout.training

CheckFiles ==
  /\ phase = "gate"
  /\ rollout.declared /\ rollout.stateful
  /\ failures' = {Fail("predictive_artifact_missing", f.written) : f \in {g \in Declared : Gone(g)}}
  /\ phase' = "overlap"
  /\ UNCHANGED <<rollout, lag, verdict>>

(* Training and holdout share no file, no content and no case.             *)
(* Mutant of Overlap: paths are compared as they are written.              *)
SharesContent(a, b) == ~Gone(a) /\ ~Gone(b) /\ rollout.content[a.path] = rollout.content[b.path]

OverlapAsWritten ==
  \E t \in rollout.training :
    t.written = rollout.holdout.written \/ t.cases \cap rollout.holdout.cases # {}

Overlap ==
  \E t \in rollout.training :
    \/ t.path = rollout.holdout.path
    \/ SharesContent(t, rollout.holdout)
    \/ t.cases \cap rollout.holdout.cases # {}

CheckOverlap ==
  /\ phase = "overlap"
  /\ failures' = failures \cup If(Overlap, "predictive_training_future_overlap")
  /\ phase' = "series"
  /\ UNCHANGED <<rollout, lag, verdict>>

(* The two series are read where they exist, and compared when nothing is  *)
(* missing at all.                                                         *)
Unreadable(file) == ~Gone(file) /\ file.path \in rollout.malformed

LoadSeries ==
  /\ phase = "series"
  /\ failures' = failures
       \cup {Fail("prediction_series_unreadable", f.written) :
               f \in {g \in {rollout.prediction} : Unreadable(g)}}
       \cup {Fail("future_holdout_series_unreadable", f.written) :
               f \in {g \in {rollout.holdout} : Unreadable(g)}}
  /\ phase' = IF \/ \E f \in Declared : Gone(f)
                 \/ Unreadable(rollout.prediction) \/ Unreadable(rollout.holdout)
              THEN "conclude" ELSE "align"
  /\ UNCHANGED <<rollout, lag, verdict>>

-----------------------------------------------------------------------------
(* Alignment of the valid points, in their order.                          *)
ValidIn(points) == {k \in DOMAIN points : points[k].valid}
ValidPlace(points, n) ==
  CHOOSE k \in ValidIn(points) : Cardinality({j \in ValidIn(points) : j < k}) = n - 1
ValidPoints(points) == [n \in 1 .. Cardinality(ValidIn(points)) |-> points[ValidPlace(points, n)]]
Predicted == ValidPoints(rollout.predicted.points)
Observed == ValidPoints(rollout.observed.points)
Clock(points) == [k \in DOMAIN points |-> points[k].time]
Times == Clock(Observed)
Lacks(points, target) == \E k \in DOMAIN points : target \notin DOMAIN points[k].values
UnitsOf(points, target) == {points[k].units[target] : k \in DOMAIN points}

(* Gaps of the holdout's clock, the first that applies.                    *)
ClockGaps ==
  LET steps == {Times[k + 1] - Times[k] : k \in 1 .. Len(Times) - 1} IN
  IF Len(Times) < 2 THEN {"horizon_too_short"}
  ELSE IF \E d \in steps : d <= 0 THEN {"timestamps_not_strictly_increasing"}
  ELSE IF steps # {rollout.stepSize} THEN {"step_size_mismatch"} ELSE {}

Untimed(points) == \E k \in DOMAIN points : points[k].time = 0

GapIf(reason, name) == IF reason THEN {name} ELSE {}

TargetGaps(target) ==
  LET apart == Lacks(Predicted, target) \/ Lacks(Observed, target) IN
  GapIf(Lacks(Predicted, target), "prediction_target_missing")
    \cup GapIf(Lacks(Observed, target), "holdout_target_missing")
    \cup GapIf(/\ ~apart
               /\ \/ Cardinality(UnitsOf(Predicted, target)) # 1
                  \/ UnitsOf(Predicted, target) # UnitsOf(Observed, target),
               "target_unit_mismatch")

Gaps ==
  GapIf({Len(Predicted), Len(Observed)} # {rollout.horizon}, "horizon_step_count_mismatch")
    \cup GapIf({rollout.predicted.unit, rollout.observed.unit} # {rollout.stepUnit}, "step_unit_mismatch")
    \cup GapIf(Untimed(Predicted) \/ Untimed(Observed), "timestamp_missing")
    \cup GapIf(~Untimed(Predicted) /\ ~Untimed(Observed) /\ Clock(Predicted) # Times,
               "timestamp_alignment_mismatch")
    \cup GapIf(Times # <<>> /\ Times[1] # 0 /\ Times[1] <= rollout.trainingEnd,
               "holdout_not_strictly_future")
    \cup (IF Times # <<>> /\ ~Untimed(Observed) THEN ClockGaps ELSE {})
    \cup UNION {TargetGaps(t) : t \in rollout.targets}

Align ==
  /\ phase = "align"
  /\ failures' = failures \cup If(Gaps # {}, "predictive_alignment_failed")
  /\ phase' = IF Gaps # {} THEN "conclude" ELSE "measure"
  /\ UNCHANGED <<rollout, lag, verdict>>

-----------------------------------------------------------------------------
(* Metrics of aligned series, at each step the worst of the targets.       *)
Distance(a, b) == Larger(a - b, b - a)
ErrorAt(k, target) == Predicted[k].values[target] - Observed[k].values[target]
StepError(k) == Max({Distance(ErrorAt(k, t), 0) : t \in rollout.targets})
Steps == DOMAIN Observed
Worst == Max({StepError(k) : k \in Steps})
Accumulated == SumFunction([k \in Steps |-> StepError(k)])
Drift == Max({Distance(ErrorAt(Len(Observed), t), ErrorAt(1, t)) : t \in rollout.targets})
Growth == Larger(0, StepError(Len(Observed)) - StepError(1))

(* The shift under which a target fits best: the smallest of those whose   *)
(* mean square error, over the steps that overlap, is minimal.  A positive *)
(* shift compares a prediction with a later observation.                   *)
(* Mutant of LagLimit: a single step may be all that overlaps.             *)
SquareError(target, k, shift) ==
  LET d == Predicted[k].values[target] - Observed[k + shift].values[target] IN d * d
Overlapping(shift) == {k \in Steps : k + shift \in Steps}
ErrorSum(target, shift) == SumFunction([k \in Overlapping(shift) |-> SquareError(target, k, shift)])
FitsNoWorse(target, a, b) ==
  ErrorSum(target, a) * Cardinality(Overlapping(b)) <= ErrorSum(target, b) * Cardinality(Overlapping(a))

LagLimitToOne == Smaller(rollout.maxLag + 3, Larger(0, Len(Observed) - 1))
LagLimit == Smaller(rollout.maxLag + 3, Larger(0, Len(Observed) - 2))
Shifts == -LagLimit .. LagLimit
BestLag(target) == Min({s \in Shifts : \A z \in Shifts : FitsNoWorse(target, s, z)})

LagOf(found) == Max({Distance(found[t], 0) : t \in rollout.targets})

Exceeded(found) ==
  LET drifts == Drift > rollout.maxDrift
      grows == Growth > rollout.maxGrowth
  IN
  If(Worst > rollout.maxWorst, "predictive_worst_step_threshold_failed")
    \cup If(Accumulated > rollout.maxAccumulated, "predictive_accumulated_error_threshold_failed")
    \cup If(LagOf(found) > rollout.maxLag, "predictive_lag_threshold_failed")
    \cup If(LagOf(found) * rollout.stepSize > rollout.maxPhase, "predictive_phase_threshold_failed")
    \cup If(drifts, "predictive_drift_threshold_failed")
    \cup If(grows, "predictive_error_growth_threshold_failed")
    \cup If(drifts \/ grows, "predictive_stability_threshold_failed")

Measure ==
  /\ phase = "measure"
  /\ lag' = [t \in rollout.targets |-> BestLag(t)]
  /\ failures' = failures \cup Exceeded(lag')
  /\ phase' = "conclude"
  /\ UNCHANGED <<rollout, verdict>>

ConcludeRollout ==
  /\ phase = "conclude"
  /\ verdict' = IF failures = {} THEN "pass" ELSE "blocked"
  /\ phase' = "done"
  /\ UNCHANGED <<rollout, failures, lag>>

RolloutNext ==
  \/ DeclineRollout \/ Forbid \/ CheckFiles \/ CheckOverlap \/ LoadSeries
  \/ Align \/ Measure \/ ConcludeRollout

-----------------------------------------------------------------------------
(* A pass is won on data the training cannot have seen, all of it later    *)
(* than the training, and at every step of the horizon: neither another    *)
(* spelling of a path, a copy, a lost file nor an invalid step may win it. *)
PassIsIndependent ==
  verdict = "pass" =>
    /\ \A f \in Declared : ~Gone(f)
    /\ \A t \in rollout.training :
         /\ t.path # rollout.holdout.path
         /\ rollout.content[t.path] # rollout.content[rollout.holdout.path]
         /\ t.cases \cap rollout.holdout.cases = {}
    /\ Len(Observed) = rollout.horizon
    /\ \A k \in Steps :
         /\ Times[k] > rollout.trainingEnd
         /\ Predicted[k].time = Times[1] + (k - 1) * rollout.stepSize
         /\ \A t \in rollout.targets :
              /\ Distance(ErrorAt(k, t), 0) <= rollout.maxWorst
              /\ Predicted[k].units[t] = Observed[1].units[t]

(* A perfect prediction is not refused: if the files are fine, the series  *)
(* align and agree, and no target repeats itself, within the shifts that   *)
(* are tried and over two steps at least, the verdict is a pass.  (A       *)
(* target that repeats itself, a constant one to begin with, fits as well  *)
(* when shifted, and the most negative shift is reported as its lag.)      *)
RepeatsItself(target) ==
  \E shift \in 1 .. Smaller(rollout.maxLag + 3, Len(Observed) - 2) :
    \A k \in 1 .. Len(Observed) - shift :
      Observed[k].values[target] = Observed[k + shift].values[target]

Perfect ==
  /\ Gaps = {}
  /\ \A k \in Steps, t \in rollout.targets : ErrorAt(k, t) = 0
  /\ \A t \in rollout.targets : ~RepeatsItself(t)

PerfectPredictionPasses ==
  phase = "done" /\ lag # <<>> /\ ~Overlap /\ Perfect => verdict = "pass"

=============================================================================
