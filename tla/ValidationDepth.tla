--------------------------- MODULE ValidationDepth ---------------------------
(***************************************************************************)
(* The depth evaluation of a dataset validation                            *)
(* (core/validation_depth.py, evaluate_validation_depth): the declared     *)
(* files, the observed series, its mapping, time, scenarios, calibration   *)
(* split, residuals point by point, envelopes and adequacy each get a      *)
(* status, and the findings of all of them decide the status of the whole. *)
(*                                                                         *)
(* A task is a plan together with the files it finds.  Times and counts    *)
(* are positive, 0 when the plan or the point has none; a path is "" when  *)
(* the plan names none.  The list of findings is kept by the places of the *)
(* code that may add to it: a sequence of sets, empty where a place had    *)
(* nothing to add.                                                         *)
(***************************************************************************)
EXTENDS Naturals, Sequences, FiniteSets, SequencesExt

CONSTANTS
  Task,   \* the plans to evaluate
  Name    \* paths, and the names of signals, scenarios, cases, blocks and contents

(* No name, and the name of the plan.                                      *)
ASSUME NameAssumption == {"", "plan"} \subseteq Name

Severities == {"error", "warning"}

Error(type, about) == [severity |-> "error", type |-> type, about |-> about]
Warning(type, about) == [severity |-> "warning", type |-> type, about |-> about]

(* The finding, if there is reason for it.                                 *)
When(reason, finding) == IF reason THEN {finding} ELSE {}

InputTypes ==
  {"dataset_file_missing", "calibration_split_file_missing", "testbench_identity_unreadable",
   "observed_series_unreadable", "observed_series_missing", "predictive_artifact_missing",
   "validation_mapping_edges_unreadable", "validation_manifest_unreadable",
   "validation_role_matrix_unreadable", "prediction_series_unreadable",
   "future_holdout_series_unreadable", "validation_contract_check_failed"}

SectionTypes ==
  {"testbench_version_mismatch", "mapping_required_signal_missing",
   "mapping_required_signal_uncertain", "validation_series_empty", "snapshot_scope_overclaim",
   "scenario_set_scope_overclaim", "time_series_timestamp_missing",
   "time_scope_point_count_mismatch", "time_scope_start_mismatch", "time_scope_end_mismatch",
   "time_scope_unit_mismatch", "declared_scenarios_missing", "observed_scenarios_undeclared",
   "scenario_perturbation_missing", "scenario_cases_missing", "calibration_split_not_declared",
   "calibration_split_missing_active_evidence", "calibration_holdout_identity_overlap",
   "residual_series_invalid_point", "residual_series_point_evaluation_failed",
   "residual_series_required_values_missing", "residual_series_interval_failed",
   "physical_envelope_interval_violation", "adequacy_shortfall", "validation_roles_empty"}

RolloutTypes ==
  {"pointwise_prediction_forbidden", "predictive_training_future_overlap",
   "predictive_alignment_failed", "predictive_worst_step_threshold_failed",
   "predictive_accumulated_error_threshold_failed", "predictive_error_growth_threshold_failed",
   "predictive_drift_threshold_failed", "predictive_phase_threshold_failed",
   "predictive_lag_threshold_failed", "predictive_stability_threshold_failed"}

Findings ==
  [severity : Severities, type : InputTypes \cup SectionTypes \cup RolloutTypes, about : Name]

OfInput(finding) == finding.type \in InputTypes

(* A point of a series: what the audit says of it, its worst block, and    *)
(* the severities of the envelopes it is outside of.                       *)
Point ==
  [valid : BOOLEAN, time : Nat, scenario : Name, case : Name,
   audit : {"refused", "missing", "pass", "fail"}, block : Name, outside : SUBSET Severities]

(* A mapping edge that declares no confidence has 0.                       *)
Edge == [target : Name, source : Name, confidence : Nat, issue : BOOLEAN]

Contract ==
  [path : Name, state : {"fine", "partial", "failing", "gone"}, mayBePartial : BOOLEAN,
   id : Name, edges : Seq(Edge), points : Seq(Point)]

SplitFile == [path : Name, content : Name, cases : SUBSET Name]

Plan ==
  [files : Seq(Name), gone : SUBSET Name, malformed : SUBSET Name,
   bench : {"agrees", "differs", "unreadable"}, seriesFile : Name, series : Seq(Point),
   contracts : Seq(Contract), propertiesAgree : BOOLEAN,
   roles : Seq([target : Name, source : Name]), minimumConfidence : Nat,
   scope : {"snapshot", "time_window", "scenario_set", "bounded_dataset"},
   count : Nat, first : Nat, last : Nat, unitAgrees : BOOLEAN,
   scenarios : Seq([id : Name, cases : SUBSET Name, unperturbed : BOOLEAN]),
   calibrated : BOOLEAN, training : Seq(SplitFile), holdout : Seq(SplitFile),
   trainUsed : Name, holdoutUsed : Name, auditRead : BOOLEAN, floors : BOOLEAN,
   short : BOOLEAN, rollout : Seq(SUBSET Findings)]

(* What the definitions below take for granted about a task: the schema,   *)
(* the roles and the testbench come last among the declared identities,    *)
(* files have names, a contract that can be read as a series has points,   *)
(* and a place of the rollout has at most one finding about an input.      *)
ASSUME TaskAssumption ==
  /\ Task \subseteq Plan
  /\ \A t \in Task :
       /\ Len(t.files) >= 3
       /\ "" \notin t.gone
       /\ \A k \in DOMAIN t.contracts :
            t.contracts[k].state = "fine" => t.contracts[k].points # <<>>
       /\ \A k \in DOMAIN t.rollout :
            \A f, g \in t.rollout[k] : OfInput(f) /\ OfInput(g) => f = g

VARIABLES
  task,       \* the plan and what it finds
  stage,      \* the section to come
  findings,   \* all findings so far, by the places they come from
  section,    \* the status of each section
  points,     \* the observed series; <<>> when there is none
  results,    \* what came of the points evaluated so far
  scanned,    \* how many results were merged into intervals
  intervals,  \* runs of failing points
  auditPass   \* the verdict on the series; FALSE until there is one

vars == <<task, stage, findings, section, points, results, scanned, intervals, auditPass>>

Sections == {"dataset", "mapping", "time", "scenarios", "split", "residual",
             "envelopes", "adequacy"}

Stages == {"dataset", "series", "mapping", "time", "scenarios", "split", "points",
           "intervals", "envelopes", "adequacy", "rollout", "conclude", "done", "raised"}

Gone(path) == path \in task.gone

(* A finding about each path whose file is not there.                      *)
Lost(type, paths) == [k \in DOMAIN paths |-> When(Gone(paths[k]), Error(type, paths[k]))]

AnyFound(found) == \E k \in DOMAIN found : found[k] # {}

TypeOK ==
  /\ task \in Plan
  /\ stage \in Stages
  /\ findings \in Seq(SUBSET Findings)
  /\ section \in [Sections -> {"", "current", "missing", "stale", "unreadable", "not_run",
                               "not_applicable", "not_declared", "pass", "partial", "blocked"}]
  /\ points \in Seq(Point)
  /\ results \in Seq({"invalid", "missing", "pass", "fail"})
  /\ Len(results) <= Len(points)
  /\ scanned \in 0 .. Len(results)
  /\ intervals \in Seq([first : Nat, last : Nat, block : Name, scenario : Name])
  /\ auditPass \in BOOLEAN

Init ==
  /\ task \in Task
  /\ stage = "dataset"
  /\ findings = <<>>
  /\ section = [s \in Sections |-> ""]
  /\ points = <<>> /\ results = <<>> /\ intervals = <<>>
  /\ scanned = 0
  /\ auditPass = FALSE

(* A section ends with findings and a status.                              *)
Close(name, status, found) ==
  /\ section' = [section EXCEPT ![name] = status]
  /\ findings' = findings \o found

-----------------------------------------------------------------------------
(* The declared identities: data files, field schema, roles, testbench.    *)
Bench == Last(task.files)
BenchRead == ~Gone(Bench) /\ task.bench # "unreadable"

DatasetFindings ==
  Lost("dataset_file_missing", task.files)
    \o <<When(~Gone(Bench) /\ ~BenchRead, Error("testbench_identity_unreadable", Bench)),
         When(BenchRead /\ task.bench # "agrees", Error("testbench_version_mismatch", Bench))>>

DatasetStatus ==
  IF \E k \in DOMAIN task.files : Gone(task.files[k]) THEN "missing"
  ELSE IF task.bench = "agrees" THEN "current" ELSE "stale"

CheckDataset ==
  /\ stage = "dataset"
  /\ Close("dataset", DatasetStatus, DatasetFindings)
  /\ stage' = "series"
  /\ UNCHANGED <<task, points, results, scanned, intervals, auditPass>>

-----------------------------------------------------------------------------
(* The series: from its file, or else from the contracts.  The validation  *)
(* itself has already reported a contract that cannot be used ("gone": it  *)
(* cannot be read; "failing"; "partial" where the plan wants it to pass),  *)
(* but the series needs each to pass.                                      *)
Reported(c) == c.state \in {"gone", "failing"} \/ (c.state = "partial" /\ ~c.mayBePartial)

Unreadable(c) == ~Reported(c) /\ c.state # "fine"

SeriesOfContracts ==
  LET labelled(c) ==
        IF Len(task.contracts) = 1 THEN c.points
        ELSE [k \in DOMAIN c.points |-> [c.points[k] EXCEPT !.scenario = c.id]]
  IN  IF \A k \in DOMAIN task.contracts : task.contracts[k].state = "fine"
      THEN FlattenSeq([k \in DOMAIN task.contracts |-> labelled(task.contracts[k])])
      ELSE <<>>

ContractFindings ==
  [k \in DOMAIN task.contracts |->
     When(Unreadable(task.contracts[k]),
          Error("observed_series_unreadable", task.contracts[k].path))]
    \o <<When(task.contracts = <<>>, Error("observed_series_missing", "plan"))>>

ReadSeriesFile ==
  LET readable == ~Gone(task.seriesFile) /\ task.series # <<>> IN
  /\ stage = "series"
  /\ task.seriesFile # ""
  /\ points' = IF readable THEN task.series ELSE <<>>
  /\ Close("dataset",
           IF readable THEN section["dataset"]
           ELSE IF Gone(task.seriesFile) THEN "missing" ELSE "unreadable",
           <<When(~readable, Error("observed_series_unreadable", task.seriesFile))>>)
  /\ stage' = "mapping"
  /\ UNCHANGED <<task, results, scanned, intervals, auditPass>>

ReadContractSeries ==
  /\ stage = "series"
  /\ task.seriesFile = ""
  /\ Len(task.contracts) < 2 \/ task.propertiesAgree \/ SeriesOfContracts = <<>>
  /\ points' = SeriesOfContracts
  /\ findings' = findings \o ContractFindings
  /\ stage' = "mapping"
  /\ UNCHANGED <<task, section, results, scanned, intervals, auditPass>>

(* Contracts that declare one property differently end the validation.     *)
RefuseContracts ==
  /\ stage = "series"
  /\ task.seriesFile = ""
  /\ Len(task.contracts) >= 2 /\ ~task.propertiesAgree /\ SeriesOfContracts # <<>>
  /\ stage' = "raised"
  /\ UNCHANGED <<task, findings, section, points, results, scanned, intervals, auditPass>>

HasSeries == points # <<>>
Valid == {k \in DOMAIN points : points[k].valid}

-----------------------------------------------------------------------------
(* The mapping: every role needs an edge of the contracts, and the first   *)
(* of those with the highest confidence must have no issue.                *)
UnreadEdges ==
  [k \in DOMAIN task.contracts |->
     When(task.contracts[k].state = "gone",
          Error("validation_mapping_edges_unreadable", task.contracts[k].path))]

Edges == FlattenSeq([k \in DOMAIN task.contracts |-> task.contracts[k].edges])

Candidates(role) ==
  {k \in DOMAIN Edges : /\ Edges[k].target = role.target
                        /\ role.source \in {"", Edges[k].source}}

BestEdge(role) ==
  LET best(k) == \A j \in Candidates(role) :
                   /\ Edges[j].confidence <= Edges[k].confidence
                   /\ j < k => Edges[j].confidence # Edges[k].confidence
  IN  Edges[CHOOSE k \in Candidates(role) : best(k)]

Uncertain(edge) == edge.issue \/ edge.confidence < task.minimumConfidence

RoleFindings(role) ==
  IF Candidates(role) = {} THEN {Error("mapping_required_signal_missing", role.target)}
  ELSE When(Uncertain(BestEdge(role)), Error("mapping_required_signal_uncertain", role.target))

MappingFindings == [k \in DOMAIN task.roles |-> RoleFindings(task.roles[k])]

ReviewMapping ==
  /\ stage = "mapping"
  /\ IF AnyFound(UnreadEdges) THEN Close("mapping", "not_run", UnreadEdges)
     ELSE Close("mapping", IF AnyFound(MappingFindings) THEN "blocked" ELSE "pass", MappingFindings)
  /\ stage' = "time"
  /\ UNCHANGED <<task, points, results, scanned, intervals, auditPass>>

-----------------------------------------------------------------------------
(* Time and scenarios of the valid points.                                 *)
Times == {points[k].time : k \in Valid} \ {0}
Scenarios == {points[k].scenario : k \in Valid}

Earliest == IF Times = {} THEN 0 ELSE CHOOSE x \in Times : \A y \in Times : x <= y
Latest == IF Times = {} THEN 0 ELSE CHOOSE x \in Times : \A y \in Times : y <= x

(* The scope the report says the evidence has.                             *)
CoveredScope ==
  IF ~HasSeries THEN ""
  ELSE IF Cardinality(Valid) <= 1 THEN "snapshot"
  ELSE IF Cardinality(Scenarios) > 1 THEN "scenario_set" ELSE "time_window"

Differs(declared, observed) == declared # 0 /\ declared # observed

TimeFindings ==
  <<When(Valid = {}, Error("validation_series_empty", "")),
    When(Cardinality(Valid) = 1 /\ task.scope # "snapshot", Error("snapshot_scope_overclaim", "")),
    When(task.scope = "scenario_set" /\ Cardinality(Scenarios) < 2,
         Error("scenario_set_scope_overclaim", "")),
    When(Cardinality(Valid) > 1 /\ \E k \in Valid : points[k].time = 0,
         Error("time_series_timestamp_missing", "")),
    When(Differs(task.count, Len(points)), Error("time_scope_point_count_mismatch", "")),
    When(Differs(task.first, Earliest), Error("time_scope_start_mismatch", "")),
    When(Differs(task.last, Latest), Error("time_scope_end_mismatch", "")),
    When(~task.unitAgrees, Error("time_scope_unit_mismatch", ""))>>

CheckTime ==
  /\ stage = "time"
  /\ IF HasSeries
     THEN Close("time", IF AnyFound(TimeFindings) THEN "blocked" ELSE "pass", TimeFindings)
     ELSE Close("time", "not_run", <<>>)
  /\ stage' = "scenarios"
  /\ UNCHANGED <<task, points, results, scanned, intervals, auditPass>>

Declared == {task.scenarios[k].id : k \in DOMAIN task.scenarios}

CasesSeen(id) == {points[k].case : k \in {j \in Valid : points[j].scenario = id}}

ScenarioFindings ==
  <<When(~(Declared \subseteq Scenarios), Error("declared_scenarios_missing", "")),
    When(~(Scenarios \subseteq Declared), Error("observed_scenarios_undeclared", ""))>>
    \o [k \in DOMAIN task.scenarios |->
         LET s == task.scenarios[k] IN
         When(s.unperturbed, Error("scenario_perturbation_missing", s.id))
           \cup When(~(s.cases \subseteq CasesSeen(s.id)), Error("scenario_cases_missing", s.id))]

CheckScenarios ==
  /\ stage = "scenarios"
  /\ IF HasSeries
     THEN Close("scenarios", IF AnyFound(ScenarioFindings) THEN "blocked" ELSE "pass",
                ScenarioFindings)
     ELSE Close("scenarios", "not_run", <<>>)
  /\ stage' = "split"
  /\ UNCHANGED <<task, points, results, scanned, intervals, auditPass>>

-----------------------------------------------------------------------------
(* The calibration split: training and holdout share no path, no content   *)
(* and no case, and include the files that are used.  Mutant of Overlap:   *)
(* contents are not compared.                                              *)
OverlapByName ==
  \E k \in DOMAIN task.training, j \in DOMAIN task.holdout :
    LET a == task.training[k] b == task.holdout[j]
    IN  a.path = b.path \/ a.cases \cap b.cases # {}

Overlap ==
  \E k \in DOMAIN task.training, j \in DOMAIN task.holdout :
    LET a == task.training[k] b == task.holdout[j] IN
    \/ a.path = b.path
    \/ a.cases \cap b.cases # {}
    \/ ~Gone(a.path) /\ ~Gone(b.path) /\ a.content = b.content

PathsOf(files) == [k \in DOMAIN files |-> files[k].path]

LostSplitFiles ==
  Lost("calibration_split_file_missing", PathsOf(task.training \o task.holdout))

UsedOutside(used, files) == used # "" /\ used \notin Range(PathsOf(files))

SplitFindings ==
  LostSplitFiles
    \o <<When(UsedOutside(task.trainUsed, task.training)
                \/ UsedOutside(task.holdoutUsed, task.holdout),
              Error("calibration_split_missing_active_evidence", "")),
         When(Overlap, Error("calibration_holdout_identity_overlap", ""))>>

CheckSplit ==
  /\ stage = "split"
  /\ IF ~task.calibrated THEN Close("split", "not_applicable", <<>>)
     ELSE IF task.training = <<>>
     THEN Close("split", "not_declared", <<{Error("calibration_split_not_declared", "")}>>)
     ELSE Close("split", IF Overlap THEN "blocked"
                         ELSE IF AnyFound(LostSplitFiles) THEN "not_run" ELSE "pass", SplitFindings)
  /\ stage' = "points"
  /\ UNCHANGED <<task, points, results, scanned, intervals, auditPass>>

-----------------------------------------------------------------------------
(* The residuals of the points, one after the other: an invalid point, one *)
(* the audit refuses, and one that lacks required values are no verdict.   *)
SkipPoints ==
  /\ stage = "points"
  /\ ~HasSeries \/ ~task.auditRead
  /\ Close("residual", "not_run", <<>>)
  /\ stage' = "envelopes"
  /\ UNCHANGED <<task, points, results, scanned, intervals, auditPass>>

Outcome(p) == IF ~p.valid \/ p.audit = "refused" THEN "invalid" ELSE p.audit

PointFindings(p) ==
  When(~p.valid, Error("residual_series_invalid_point", ""))
    \cup When(p.valid /\ p.audit = "refused", Error("residual_series_point_evaluation_failed", ""))
    \cup When(Outcome(p) = "missing", Error("residual_series_required_values_missing", ""))

EvaluatePoint ==
  LET p == points[Len(results) + 1] IN
  /\ stage = "points"
  /\ HasSeries /\ task.auditRead
  /\ Len(results) < Len(points)
  /\ results' = Append(results, Outcome(p))
  /\ findings' = Append(findings, PointFindings(p))
  /\ UNCHANGED <<task, stage, section, points, scanned, intervals, auditPass>>

EndPoints ==
  /\ stage = "points"
  /\ HasSeries /\ task.auditRead
  /\ Len(results) = Len(points)
  /\ stage' = "intervals"
  /\ UNCHANGED <<task, findings, section, points, results, scanned, intervals, auditPass>>

(* Failing points in a row, of one worst block and one scenario, make an   *)
(* interval.  Mutant of Continues: a point in between does not end it.     *)
SameFault(k) ==
  /\ intervals # <<>>
  /\ Last(intervals).block = points[k].block
  /\ Last(intervals).scenario = points[k].scenario

Continues(k) == SameFault(k) /\ Last(intervals).last = k - 1

ExtendInterval ==
  LET k == scanned + 1 IN
  /\ stage = "intervals"
  /\ scanned < Len(results)
  /\ scanned' = k
  /\ intervals' =
       IF results[k] # "fail" THEN intervals
       ELSE IF Continues(k) THEN [intervals EXCEPT ![Len(intervals)].last = k]
       ELSE Append(intervals, [first |-> k, last |-> k, block |-> points[k].block,
                               scenario |-> points[k].scenario])
  /\ UNCHANGED <<task, stage, findings, section, points, results, auditPass>>

EndResiduals ==
  LET blocked == "invalid" \in Range(results) \/ "missing" \in Range(results) IN
  /\ stage = "intervals"
  /\ scanned = Len(results)
  /\ Close("residual",
           IF blocked THEN "blocked" ELSE IF "fail" \in Range(results) THEN "partial" ELSE "pass",
           [k \in DOMAIN intervals |-> {Warning("residual_series_interval_failed", "")}])
  /\ auditPass' = (~blocked /\ "fail" \notin Range(results))
  /\ stage' = "envelopes"
  /\ UNCHANGED <<task, points, results, scanned, intervals>>

-----------------------------------------------------------------------------
(* Physical envelopes: every violation by a valid point is a finding of    *)
(* the severity of its envelope.                                           *)
Violations == UNION {points[k].outside : k \in Valid}

EnvelopeFindings ==
  [k \in DOMAIN points |->
     {[severity |-> s, type |-> "physical_envelope_interval_violation", about |-> ""] :
        s \in IF points[k].valid THEN points[k].outside ELSE {}}]

CheckEnvelopes ==
  /\ stage = "envelopes"
  /\ IF HasSeries
     THEN Close("envelopes", IF "error" \in Violations THEN "blocked"
                             ELSE IF Violations # {} THEN "partial" ELSE "pass",
                EnvelopeFindings)
     ELSE Close("envelopes", "not_run", <<>>)
  /\ stage' = "adequacy"
  /\ UNCHANGED <<task, points, results, scanned, intervals, auditPass>>

(* Adequacy runs when all it reads is there, and then it only warns: how   *)
(* it comes to a shortfall is the subject of SamplingAdequacy.             *)
SchemaFile == task.files[Len(task.files) - 2]
RolesFile == task.files[Len(task.files) - 1]

AdequacyInputs ==
  /\ HasSeries /\ task.auditRead
  /\ section["dataset"] = "current"
  /\ \A k \in DOMAIN task.contracts : ~Reported(task.contracts[k])
  /\ ~Gone(SchemaFile) /\ ~Gone(RolesFile)
  /\ {SchemaFile, RolesFile} \cap task.malformed = {}

AdequacyFindings ==
  <<When(~Gone(SchemaFile) /\ SchemaFile \in task.malformed,
         Error("validation_manifest_unreadable", SchemaFile)),
    When(~Gone(RolesFile) /\ RolesFile \in task.malformed,
         Error("validation_role_matrix_unreadable", RolesFile)),
    When(AdequacyInputs /\ task.short, Warning("adequacy_shortfall", ""))>>

CheckAdequacy ==
  /\ stage = "adequacy"
  /\ IF task.scope = "snapshot" /\ ~task.floors THEN Close("adequacy", "not_applicable", <<>>)
     ELSE Close("adequacy", IF ~AdequacyInputs THEN "not_run"
                            ELSE IF task.short THEN "partial" ELSE "pass", AdequacyFindings)
  /\ stage' = "rollout"
  /\ UNCHANGED <<task, points, results, scanned, intervals, auditPass>>

(* The predictive rollout leaves findings (see PredictiveRollout).         *)
CheckRollout ==
  /\ stage = "rollout"
  /\ findings' = findings \o task.rollout
  /\ stage' = "conclude"
  /\ UNCHANGED <<task, section, points, results, scanned, intervals, auditPass>>

-----------------------------------------------------------------------------
(* The end: a hard violation withdraws the verdict on the series, and a    *)
(* file that several sections miss is reported once.                       *)
(* Mutant of UniqueInputFindings: the type of the finding counts too.      *)
UniqueByType(found) ==
  [k \in DOMAIN found |->
     {f \in found[k] : OfInput(f) => \A j \in 1 .. k - 1 : f \notin found[j]}]

(* A finding about an input is left out if there was one about it before.  *)
UniqueInputFindings(found) ==
  [k \in DOMAIN found |->
     {f \in found[k] :
        OfInput(f) => \A j \in 1 .. k - 1 : \A g \in found[j] : OfInput(g) => g.about # f.about}]

(* Mutant of Withdrawn: the violation only counts against the envelopes.   *)
NeverWithdrawn == FALSE

Withdrawn == section["envelopes"] = "blocked"

Conclude ==
  /\ stage = "conclude"
  /\ findings' = UniqueInputFindings(findings \o
       <<When(task.scope # "snapshot" /\ task.roles = <<>> /\ HasSeries,
              Error("validation_roles_empty", ""))>>)
  /\ section' = [section EXCEPT !["residual"] = IF Withdrawn /\ @ = "pass" THEN "blocked" ELSE @]
  /\ auditPass' = (auditPass /\ ~Withdrawn)
  /\ stage' = "done"
  /\ UNCHANGED <<task, points, results, scanned, intervals>>

(* The status of findings, and so of the whole.                            *)
StatusOf(found) ==
  IF \E k \in DOMAIN found : \E f \in found[k] : f.severity = "error" THEN "blocked"
  ELSE IF AnyFound(found) THEN "partial" ELSE "pass"

Status == StatusOf(findings)

Next ==
  \/ CheckDataset \/ ReadSeriesFile \/ ReadContractSeries \/ RefuseContracts
  \/ ReviewMapping \/ CheckTime \/ CheckScenarios \/ CheckSplit
  \/ SkipPoints \/ EvaluatePoint \/ EndPoints \/ ExtendInterval \/ EndResiduals
  \/ CheckEnvelopes \/ CheckAdequacy \/ CheckRollout \/ Conclude

Spec == Init /\ [][Next]_vars

-----------------------------------------------------------------------------
Done == stage = "done"

(* The validation reports an audit it cannot read, and contracts, itself.  *)
InputsAtHand == task.auditRead /\ \A k \in DOMAIN task.contracts : ~Reported(task.contracts[k])

(* A pass bounds a claim: with the inputs at hand it means that every file *)
(* was there, that every point was evaluated, passed and stayed inside     *)
(* every envelope, that declared and observed scenarios are the same, that *)
(* a claim beyond a snapshot has points for it, that every role's edges    *)
(* hold a good one and that training and holdout are disjoint.             *)
PassIsEarned ==
  Done /\ Status = "pass" /\ InputsAtHand =>
    /\ Range(task.files) \cap task.gone = {} /\ task.bench = "agrees"
    /\ results = [k \in DOMAIN points |-> "pass"] /\ points # <<>>
    /\ \A k \in DOMAIN points : points[k].valid /\ points[k].outside = {}
    /\ Scenarios = Declared
    /\ task.scope # "snapshot" => Len(points) > 1
    /\ task.scope = "scenario_set" => Cardinality(Scenarios) > 1
    /\ \A k \in DOMAIN task.roles :
         \E e \in Candidates(task.roles[k]) : ~Uncertain(Edges[e])
    /\ task.calibrated =>
         /\ task.training # <<>>
         /\ \A a \in Range(task.training), b \in Range(task.holdout) :
              a.path # b.path /\ a.content # b.content /\ a.cases \cap b.cases = {}
    /\ ~task.short \/ section["adequacy"] = "not_applicable"

(* Intervals are the maximal runs: two failing points are reported in one  *)
(* interval exactly if nothing but failures of the same block and scenario *)
(* lies between them, and points that did not fail are in none.            *)
IntervalsAreRuns ==
  /\ \A j \in 1 .. scanned :
       (results[j] = "fail")
         <=> \E i \in DOMAIN intervals : j \in intervals[i].first .. intervals[i].last
  /\ \A j, k \in 1 .. scanned :
       j <= k /\ results[j] = "fail" /\ results[k] = "fail" =>
         ((\E i \in DOMAIN intervals : {j, k} \subseteq intervals[i].first .. intervals[i].last)
           <=> \A l \in j .. k : /\ results[l] = "fail"
                                 /\ points[l].block = points[j].block
                                 /\ points[l].scenario = points[j].scenario)

(* An input that is missing is reported once, however many declarations    *)
(* share it, and is reported at all.                                       *)
InputsReportedOnce ==
  Done =>
    /\ \A j, k \in DOMAIN findings : \A f \in findings[j], g \in findings[k] :
         OfInput(f) /\ OfInput(g) /\ f.about = g.about => j = k /\ f = g
    /\ \A path \in (Range(task.files) \cup {task.seriesFile}) \cap task.gone :
         \E k \in DOMAIN findings : \E f \in findings[k] : OfInput(f) /\ f.about = path

(* The result as the validation sees it.                                   *)
NoResult == [status |-> "", found |-> {}, envelopes |-> {}, series |-> "none"]

Result ==
  IF ~Done THEN NoResult
  ELSE [status |-> Status,
        found |-> UNION {{f.severity : f \in findings[k]} : k \in DOMAIN findings},
        envelopes |-> Violations,
        series |-> IF ~HasSeries \/ ~task.auditRead THEN "none"
                   ELSE IF auditPass THEN "pass" ELSE "fail"]

Promise == INSTANCE DepthPromise WITH
  inputs <- [audit |-> task.auditRead,
             contracts |-> \A k \in DOMAIN task.contracts : ~Reported(task.contracts[k])],
  result <- Result

(* The evaluation delivers one result, and it is one that the promise      *)
(* allows: DatasetValidation is checked and proved against nothing else.   *)
KeepsPromise == Promise!Spec

=============================================================================
