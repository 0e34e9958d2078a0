---------------------------- MODULE DepthEvidence ----------------------------
(***************************************************************************)
(* The two sections of a depth evaluation that weigh evidence, in the      *)
(* order in which evaluate_validation_depth (core/validation_depth.py)     *)
(* calls them: first the adequacy of the samples, then the predictive      *)
(* rollout.  Each adds its findings to those of the evaluation, adequacy   *)
(* errors only about inputs it could not read and warnings otherwise, the  *)
(* rollout errors only.                                                    *)
(***************************************************************************)
EXTENDS SamplingAdequacy, PredictiveRollout

CONSTANT Task   \* pairs of a case for the adequacy and a plan for the rollout

(* What the schemas of the two plans guarantee.                            *)
ASSUME EvidenceAssumption ==
  \A t \in Task : WellFormedCase(t.case) /\ WellFormedPlan(t.plan)

VARIABLE found   \* severities of all findings

evidenceVars == <<adequacyVars, rolloutVars, found>>

EvidenceInit ==
  /\ \E t \in Task : case = t.case /\ rollout = t.plan
  /\ AdequacyStart
  /\ RolloutStart
  /\ found = {}

WeighSamples ==
  /\ stage # "done"
  /\ AdequacyNext
  /\ found' = IF stage' # "done" \/ shortfalls' = {} THEN {}
              ELSE IF adequacy' = "not_run" THEN {"error"} ELSE {"warning"}
  /\ UNCHANGED rolloutVars

WeighPrediction ==
  /\ stage = "done"
  /\ RolloutNext
  /\ found' = found \cup (IF failures' # {} THEN {"error"} ELSE {})
  /\ UNCHANGED adequacyVars

EvidenceNext == WeighSamples \/ WeighPrediction

EvidenceSpec == EvidenceInit /\ [][EvidenceNext]_evidenceVars

=============================================================================
