-------------------------- MODULE DatasetValidation --------------------------
(***************************************************************************)
(* The validation of a model against a dataset                             *)
(* (core/model_dataset_validation.py, validate_model_dataset): contracts,  *)
(* inputs, the direct audit, the depth evaluation, envelopes, redundant    *)
(* sensors and calibration leave findings, and a cascade over them and the *)
(* results chooses the status.                                             *)
(*                                                                         *)
(* What the numbers come to - an audit passes, an optimizer converges - is *)
(* chosen.  Of the depth evaluation nothing is assumed but its promise.    *)
(***************************************************************************)
EXTENDS Sequences

CONSTANT Plan   \* the validation plans, with what their contracts are like

Severities == {"error", "warning"}
States == {"gone", "lost", "failing", "partial", "pass"}

(* A contract is "gone" when the check of it raises, "lost" when a file of *)
(* it is missing, and else has the status of its check.                    *)
ASSUME PlanAssumption ==
  \A plan \in Plan :
    /\ plan.contracts \in Seq([state : States, mayBePartial : BOOLEAN])
    /\ plan.depth \in BOOLEAN /\ plan.calibrated \in BOOLEAN
    /\ plan.train \in BOOLEAN /\ plan.holdout \in BOOLEAN

VARIABLES
  plan,         \* the plan
  pc,           \* what comes next
  findings,     \* findings so far: their severities and what they are about
  audit,        \* the audit was loaded,
  observed,     \* and so were the observed values
  direct,       \* the direct audit of those values
  depth,        \* the result of the depth evaluation
  calibration,  \* the summary of the calibration
  status        \* of the validation, "" until it is known

vars == <<plan, pc, findings, audit, observed, direct, depth, calibration, status>>

(* The promise of the depth evaluation (DepthPromise), on these inputs.    *)
Unusable(c) == c.state \in {"gone", "lost", "failing"} \/ (c.state = "partial" /\ ~c.mayBePartial)

ContractsUsable == \A k \in DOMAIN plan.contracts : ~Unusable(plan.contracts[k])

Depth == INSTANCE DepthPromise WITH
  inputs <- [audit |-> audit, contracts |-> ContractsUsable], result <- depth

DepthResult ==
  [status : {"", "pass", "partial", "blocked"}, found : SUBSET Severities,
   envelopes : SUBSET Severities, series : {"none", "pass", "fail"}]

Calibrations ==
  [converged : {"none", "yes", "no"}, holdout : {"none", "pass", "fail"}]

NotCalibrated == [converged |-> "none", holdout |-> "none"]

Kinds == {"contract", "input", "direct", "depth", "envelope", "redundant", "holdout", "bound"}

TypeOK ==
  /\ plan \in Plan
  /\ pc \in {"contracts", "inputs", "direct", "depth", "checks", "evidence", "calibrate",
             "conclude", "done", "raised"}
  /\ findings \subseteq [severity : Severities, kind : Kinds]
  /\ audit \in BOOLEAN /\ observed \in BOOLEAN
  /\ direct \in {"not_run", "pass", "fail"}
  /\ depth \in DepthResult
  /\ calibration \in Calibrations
  /\ status \in {"", "pass", "partial", "fail"}

Init ==
  /\ plan \in Plan
  /\ pc = "contracts"
  /\ findings = {}
  /\ audit = FALSE /\ observed = FALSE
  /\ direct = "not_run"
  /\ depth = Depth!NoResult
  /\ calibration = NotCalibrated
  /\ status = ""

(* Findings of one kind with these severities are added.                   *)
Found(severities, kind) ==
  findings' = findings \cup {[severity |-> s, kind |-> kind] : s \in severities}

ErrorIf(wrong) == IF wrong THEN {"error"} ELSE {}
WarningIf(wrong) == IF wrong THEN {"warning"} ELSE {}

-----------------------------------------------------------------------------
CheckContracts ==
  /\ pc = "contracts"
  /\ Found(ErrorIf(~ContractsUsable), "contract")
  /\ pc' = "inputs"
  /\ UNCHANGED <<plan, audit, observed, direct, depth, calibration, status>>

LoadInputs ==
  /\ pc = "inputs"
  /\ audit' \in BOOLEAN /\ observed' \in BOOLEAN
  /\ Found(ErrorIf(~audit' \/ ~observed'), "input")
  /\ pc' = "direct"
  /\ UNCHANGED <<plan, direct, depth, calibration, status>>

(* The audit of the values as they are; it needs every value, and raises   *)
(* when there is one it cannot do without.  Mutant of DirectWarning: a     *)
(* failure is left to the depth evaluation where there is one.             *)
DirectWarningIfScalar(verdict) == WarningIf(verdict = "fail" /\ ~plan.depth)

DirectWarning(verdict) == WarningIf(verdict = "fail")

AuditDirectly ==
  /\ pc = "direct"
  /\ direct' \in IF audit /\ observed THEN {"pass", "fail"} ELSE {"not_run"}
  /\ Found(DirectWarning(direct'), "direct")
  /\ pc' = "depth"
  /\ UNCHANGED <<plan, audit, observed, depth, calibration, status>>

AuditRaises ==
  /\ pc = "direct"
  /\ audit /\ observed
  /\ pc' = "raised"
  /\ UNCHANGED <<plan, findings, audit, observed, direct, depth, calibration, status>>

(* Findings about envelopes are kept apart from the others.                *)
EvaluateDepth ==
  /\ pc = "depth"
  /\ plan.depth
  /\ \E r \in Depth!Results, others \in SUBSET Severities :
       /\ Depth!Promised([audit |-> audit, contracts |-> ContractsUsable], r)
       /\ others \cup r.envelopes = r.found
       /\ depth' = r
       /\ Found(others, "depth")
  /\ pc' = "checks"
  /\ UNCHANGED <<plan, audit, observed, direct, calibration, status>>

DepthRaises ==
  /\ pc = "depth"
  /\ plan.depth
  /\ pc' = "raised"
  /\ UNCHANGED <<plan, findings, audit, observed, direct, depth, calibration, status>>

(* Without a plan for it the depth is that of the scalar snapshot: partial *)
(* at best, which is no finding of the validation; a defect of the split,  *)
(* which only a calibration has, is one.  Mutant of LegacyStatus: the      *)
(* status of those findings.                                               *)
LegacyStatusOfFound(defect) == IF defect \/ ~audit \/ ~observed THEN "blocked" ELSE "pass"

LegacyStatus(defect) == IF defect \/ ~audit \/ ~observed THEN "blocked" ELSE "partial"

LegacyDepth ==
  /\ pc = "depth"
  /\ ~plan.depth
  /\ \E defect \in {d \in BOOLEAN : d => plan.calibrated /\ (plan.train \/ plan.holdout)} :
       /\ depth' = [status |-> LegacyStatus(defect), found |-> ErrorIf(defect), envelopes |-> {},
                    series |-> "none"]
       /\ defect => audit /\ observed
       /\ Found(ErrorIf(defect), "depth")
  /\ pc' = "checks"
  /\ UNCHANGED <<plan, audit, observed, direct, calibration, status>>

-----------------------------------------------------------------------------
(* Envelopes of the snapshot and of the series, and redundant sensors.     *)
CheckEnvelopes ==
  /\ pc = "checks"
  /\ \E outside \in SUBSET Severities :
       /\ outside # {} => observed
       /\ Found(outside \cup depth.envelopes, "envelope")
  /\ pc' = "evidence"
  /\ UNCHANGED <<plan, audit, observed, direct, depth, calibration, status>>

CheckRedundantSensors ==
  /\ pc = "evidence"
  /\ \E disagree \in SUBSET Severities :
       /\ disagree # {} => observed
       /\ Found(disagree, "redundant")
  /\ pc' = "calibrate"
  /\ UNCHANGED <<plan, audit, observed, direct, depth, calibration, status>>

(* The calibration needs the training and holdout values it names too.     *)
SkipCalibration ==
  /\ pc = "calibrate"
  /\ \/ ~plan.calibrated /\ UNCHANGED findings
     \/ plan.calibrated /\ (~audit \/ ~observed) /\ UNCHANGED findings
     \/ plan.calibrated /\ (plan.train \/ plan.holdout) /\ Found({"error"}, "input")
  /\ pc' = "conclude"
  /\ UNCHANGED <<plan, audit, observed, direct, depth, calibration, status>>

Calibrate ==
  /\ pc = "calibrate"
  /\ plan.calibrated /\ audit /\ observed
  /\ \E converged \in {"yes", "no"}, atBound \in BOOLEAN,
        holdout \in IF plan.holdout THEN {"pass", "fail"} ELSE {"none"} :
       /\ calibration' = [converged |-> converged, holdout |-> holdout]
       /\ findings' = findings
            \cup {[severity |-> s, kind |-> "holdout"] :
                    s \in WarningIf(converged = "yes" /\ holdout = "fail")}
            \cup {[severity |-> s, kind |-> "bound"] : s \in WarningIf(atBound)}
  /\ pc' = "conclude"
  /\ UNCHANGED <<plan, audit, observed, direct, depth, status>>

(* A calibration of parameters the audit does not have, or over values     *)
(* that do not cover the model, raises.                                    *)
CalibrationRaises ==
  /\ pc = "calibrate"
  /\ plan.calibrated /\ audit /\ observed
  /\ pc' = "raised"
  /\ UNCHANGED <<plan, findings, audit, observed, direct, depth, calibration, status>>

-----------------------------------------------------------------------------
(* The cascade.  Mutant of Verdict: warnings do not count.                 *)
Has(severity) == \E f \in findings : f.severity = severity

VerdictWithoutWarnings ==
  IF Has("error") THEN "fail"
  ELSE IF calibration.converged = "yes" /\ calibration.holdout = "fail" THEN "partial"
  ELSE IF direct # "pass" /\ calibration.holdout # "pass" THEN "partial"
  ELSE "pass"

Verdict ==
  IF Has("error") THEN "fail"
  ELSE IF calibration.converged = "yes" /\ calibration.holdout = "fail" THEN "partial"
  ELSE IF direct # "pass" /\ calibration.holdout # "pass" THEN "partial"
  ELSE IF Has("warning") THEN "partial"
  ELSE "pass"

Conclude ==
  /\ pc = "conclude"
  /\ status' = Verdict
  /\ pc' = "done"
  /\ UNCHANGED <<plan, findings, audit, observed, direct, depth, calibration>>

(* What the report claims.                                                 *)
SafeClaim ==
  IF status # "pass" THEN status
  ELSE IF depth.status = "pass" THEN "boundary" ELSE "snapshot"

Next ==
  \/ CheckContracts \/ LoadInputs
  \/ AuditDirectly \/ AuditRaises
  \/ EvaluateDepth \/ DepthRaises \/ LegacyDepth
  \/ CheckEnvelopes \/ CheckRedundantSensors
  \/ SkipCalibration \/ Calibrate \/ CalibrationRaises
  \/ Conclude

Spec == Init /\ [][Next]_vars

-----------------------------------------------------------------------------
(* A pass says that every contract is usable, that the model passed on the *)
(* values themselves and nothing was found; and where the plan declares a  *)
(* series that its residuals passed inside the hard envelopes.             *)
PassMeansChecked ==
  status = "pass" =>
    /\ ContractsUsable
    /\ direct = "pass" /\ findings = {}
    /\ plan.depth => depth.series = "pass" /\ depth.found = {}

(* A claim on the declared boundary rests on a series that passed, and     *)
(* without one nothing but the snapshot is claimed.                        *)
ClaimWithinEvidence ==
  /\ SafeClaim = "boundary" => plan.depth /\ depth.series = "pass"
  /\ ~plan.depth /\ status = "pass" => SafeClaim = "snapshot"

(* A validation that does not pass says why: each status below "pass" has  *)
(* a finding of its severity.                                              *)
VerdictHasReason ==
  /\ status = "fail" => Has("error")
  /\ status = "partial" => Has("warning") /\ ~Has("error")

(* What the route's document says and the code does not do: a holdout that *)
(* fails leaves the validation partial or failed, whatever the optimizer.  *)
FailedHoldoutNeverPasses == status = "pass" => calibration.holdout # "fail"

=============================================================================
