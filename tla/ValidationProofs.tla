-------------------------- MODULE ValidationProofs --------------------------
(***************************************************************************)
(* Proofs about DatasetValidation, for any plans and any depth evaluation  *)
(* that keeps its promise, and about DepthEvidence, for any case of the    *)
(* sampling and any plan of the rollout.                                   *)
(***************************************************************************)
EXTENDS DatasetValidation, DepthEvidence, TLAPS, FiniteSetTheorems, WellFoundedInduction


(* The stages from one on, but for the end in an exception.                *)
FromInputs == {"inputs", "direct", "depth", "checks", "evidence", "calibrate", "conclude", "done"}
FromDirect == FromInputs \ {"inputs"}
FromDepth == FromDirect \ {"direct"}
FromChecks == FromDepth \ {"depth"}
FromEvidence == FromChecks \ {"checks"}

ContractsAccounted == pc \in FromInputs => ContractsUsable \/ Has("error")

InputsAccounted == pc \in FromDirect => (audit /\ observed) \/ Has("error")

DirectAccounted ==
  pc \in FromDepth => direct = "pass" \/ (direct = "fail" /\ Has("warning")) \/ Has("error")

DepthAccounted ==
  pc \in FromChecks =>
    IF plan.depth
    THEN /\ Depth!Promised([audit |-> audit, contracts |-> ContractsUsable], depth)
         /\ \A s \in depth.found : s \in depth.envelopes \/ Has(s)
    ELSE depth.status # "pass"

EnvelopesAccounted == pc \in FromEvidence => \A s \in depth.envelopes : Has(s)

HoldoutAccounted ==
  calibration.converged = "yes" /\ calibration.holdout = "fail" => Has("warning")

VerdictIsLast == IF pc = "done" THEN status = Verdict ELSE status = ""

(* What each stage found is still among the findings when the verdict is   *)
(* taken: only then does an empty set of findings say that all went well.  *)
Accounted ==
  /\ ContractsAccounted /\ InputsAccounted /\ DirectAccounted
  /\ DepthAccounted /\ EnvelopesAccounted /\ HoldoutAccounted
  /\ VerdictIsLast

IInv == TypeOK /\ Accounted

-----------------------------------------------------------------------------
(* Findings stay, and so does having one of a severity.                    *)
LEMMA HasStays ==
  ASSUME NEW s, findings \subseteq findings', Has(s) PROVE Has(s)'
BY DEF Has

(* Adding severities yields findings of them, and keeps the findings typed.*)
LEMMA FoundAdds ==
  ASSUME NEW S \in SUBSET Severities, NEW kind \in Kinds, Found(S, kind),
         findings \subseteq [severity : Severities, kind : Kinds]
  PROVE  /\ findings \subseteq findings'
         /\ findings' \subseteq [severity : Severities, kind : Kinds]
         /\ \A s \in S : Has(s)'
<1>1. \A s \in S : /\ [severity |-> s, kind |-> kind] \in findings'
                   /\ [severity |-> s, kind |-> kind] \in [severity : Severities, kind : Kinds]
                   /\ [severity |-> s, kind |-> kind].severity = s
  BY DEF Found
<1>2. findings' = findings \cup {[severity |-> s, kind |-> kind] : s \in S}
  BY DEF Found
<1>3. \A s \in S : Has(s)'
  BY <1>1 DEF Has
<1> QED BY <1>1, <1>2, <1>3

LEMMA SeveritiesOfConditions ==
  ASSUME NEW b
  PROVE  /\ ErrorIf(b) \in SUBSET Severities /\ WarningIf(b) \in SUBSET Severities
         /\ b => "error" \in ErrorIf(b) /\ "warning" \in WarningIf(b)
BY DEF ErrorIf, WarningIf, Severities


LEMMA InitAccounted == Init => IInv
<1> SUFFICES ASSUME Init PROVE IInv
  OBVIOUS
<1>1. depth = [status |-> "", found |-> {}, envelopes |-> {}, series |-> "none"]
  BY DEF Init, Depth!NoResult
<1>2. depth \in DepthResult
  BY <1>1 DEF DepthResult, Severities
<1>3. calibration = [converged |-> "none", holdout |-> "none"]
  BY DEF Init, NotCalibrated
<1>4. calibration \in Calibrations /\ calibration.converged = "none"
  BY <1>3 DEF Calibrations
<1>5. TypeOK
  BY <1>2, <1>4 DEF Init, TypeOK
<1>6. pc \notin FromInputs
  BY DEF Init, FromInputs
<1>7. Accounted
  BY <1>4, <1>6
     DEF Init, Accounted, ContractsAccounted, InputsAccounted, DirectAccounted, DepthAccounted,
         EnvelopesAccounted, HoldoutAccounted, VerdictIsLast, FromInputs, FromDirect, FromDepth,
         FromChecks, FromEvidence
<1> QED BY <1>5, <1>7 DEF IInv

(* The parts of the invariant that a step leaves alone: those about stages *)
(* reached before, with findings that only grow.                           *)
LEMMA PlanStays ==
  ASSUME plan' = plan PROVE ContractsUsable' = ContractsUsable
BY DEF ContractsUsable, Unusable

LEMMA ContractsStay ==
  ASSUME ContractsAccounted, pc \in FromInputs, plan' = plan,
         findings \subseteq findings'
  PROVE  ContractsAccounted'
<1>1. Has("error") => Has("error")'
  BY HasStays
<1> QED BY <1>1, PlanStays DEF ContractsAccounted

LEMMA InputsStay ==
  ASSUME InputsAccounted, pc \in FromDirect, audit' = audit, observed' = observed,
         findings \subseteq findings'
  PROVE  InputsAccounted'
<1>1. Has("error") => Has("error")'
  BY HasStays
<1> QED BY <1>1 DEF InputsAccounted

LEMMA DirectStays ==
  ASSUME DirectAccounted, pc \in FromDepth, direct' = direct, findings \subseteq findings'
  PROVE  DirectAccounted'
<1>1. \A s \in Severities : Has(s) => Has(s)'
  BY HasStays
<1> QED BY <1>1 DEF DirectAccounted, Severities

LEMMA DepthStays ==
  ASSUME TypeOK, DepthAccounted, pc \in FromChecks, plan' = plan, audit' = audit, depth' = depth,
         findings \subseteq findings'
  PROVE  DepthAccounted'
<1>1. \A s \in depth.found : Has(s) => Has(s)'
  BY HasStays
<1>2. ContractsUsable' = ContractsUsable
  BY PlanStays
<1>3. IF plan.depth
      THEN /\ Depth!Promised([audit |-> audit, contracts |-> ContractsUsable], depth)
           /\ \A s \in depth.found : s \in depth.envelopes \/ Has(s)
      ELSE depth.status # "pass"
  BY DEF DepthAccounted
<1>4. Depth!Promised([audit |-> audit, contracts |-> ContractsUsable], depth)'
        <=> Depth!Promised([audit |-> audit, contracts |-> ContractsUsable], depth)
  BY <1>2 DEF Depth!Promised
<1> QED BY <1>1, <1>3, <1>4 DEF DepthAccounted

LEMMA EnvelopesStay ==
  ASSUME EnvelopesAccounted, pc \in FromEvidence, depth' = depth, findings \subseteq findings'
  PROVE  EnvelopesAccounted'
<1>1. \A s \in depth.envelopes : Has(s) => Has(s)'
  BY HasStays
<1> QED BY <1>1 DEF EnvelopesAccounted

LEMMA HoldoutStays ==
  ASSUME HoldoutAccounted, calibration' = calibration, findings \subseteq findings'
  PROVE  HoldoutAccounted'
<1>1. Has("warning") => Has("warning")'
  BY HasStays
<1> QED BY <1>1 DEF HoldoutAccounted

LEMMA VerdictWaits ==
  ASSUME VerdictIsLast, pc # "done", pc' # "done", status' = status
  PROVE  VerdictIsLast'
BY DEF VerdictIsLast


-----------------------------------------------------------------------------
(* Every action, in the order of the stages.                               *)
LEMMA ContractsStep == ASSUME IInv, CheckContracts PROVE IInv'
<1> USE DEF CheckContracts
<1> DEFINE S == ErrorIf(~ContractsUsable)
<1>1. S \in SUBSET Severities /\ (~ContractsUsable => "error" \in S)
  BY SeveritiesOfConditions
<1>2. /\ findings \subseteq findings'
      /\ findings' \subseteq [severity : Severities, kind : Kinds]
      /\ \A s \in S : Has(s)'
  <2>1. "contract" \in Kinds /\ Found(S, "contract")
    BY DEF Kinds
  <2>2. findings \subseteq [severity : Severities, kind : Kinds]
    BY DEF IInv, TypeOK
  <2> HIDE DEF S
  <2> QED BY <1>1, <2>1, <2>2, FoundAdds
<1>3. TypeOK'
  BY <1>2 DEF IInv, TypeOK
<1>4. ContractsAccounted'
  BY <1>1, <1>2, PlanStays DEF ContractsAccounted
<1>5. HoldoutAccounted' /\ VerdictIsLast'
  BY <1>2, HoldoutStays, VerdictWaits DEF IInv, Accounted
<1>6. pc' \notin FromDirect
  BY DEF FromDirect, FromInputs
<1> QED BY <1>3, <1>4, <1>5, <1>6
  DEF IInv, Accounted, InputsAccounted, DirectAccounted, DepthAccounted, EnvelopesAccounted,
      FromDepth, FromChecks, FromEvidence

LEMMA InputsStep == ASSUME IInv, LoadInputs PROVE IInv'
<1> USE DEF LoadInputs
<1> DEFINE S == ErrorIf(~audit' \/ ~observed')
<1>1. S \in SUBSET Severities /\ (~audit' \/ ~observed' => "error" \in S)
  BY SeveritiesOfConditions
<1>2. /\ findings \subseteq findings'
      /\ findings' \subseteq [severity : Severities, kind : Kinds]
      /\ \A s \in S : Has(s)'
  <2>1. "input" \in Kinds /\ Found(S, "input")
    BY DEF Kinds
  <2>2. findings \subseteq [severity : Severities, kind : Kinds]
    BY DEF IInv, TypeOK
  <2> HIDE DEF S
  <2> QED BY <1>1, <2>1, <2>2, FoundAdds
<1>3. TypeOK'
  BY <1>2 DEF IInv, TypeOK
<1>4. pc \in FromInputs /\ pc' \notin FromDepth
  BY DEF FromInputs, FromDirect, FromDepth
<1>5. ContractsAccounted'
  BY <1>2, <1>4, ContractsStay DEF IInv, Accounted
<1>6. InputsAccounted'
  BY <1>1, <1>2 DEF InputsAccounted
<1>7. HoldoutAccounted' /\ VerdictIsLast'
  BY <1>2, HoldoutStays, VerdictWaits DEF IInv, Accounted
<1> QED BY <1>3, <1>4, <1>5, <1>6, <1>7
  DEF IInv, Accounted, DirectAccounted, DepthAccounted, EnvelopesAccounted, FromChecks, FromEvidence

LEMMA DirectStep == ASSUME IInv, AuditDirectly PROVE IInv'
<1> USE DEF AuditDirectly
<1> DEFINE S == DirectWarning(direct')
<1>1. S \in SUBSET Severities /\ (direct' = "fail" => "warning" \in S)
  BY SeveritiesOfConditions DEF DirectWarning
<1>2. /\ findings \subseteq findings'
      /\ findings' \subseteq [severity : Severities, kind : Kinds]
      /\ \A s \in S : Has(s)'
  <2>1. "direct" \in Kinds /\ Found(S, "direct")
    BY DEF Kinds
  <2>2. findings \subseteq [severity : Severities, kind : Kinds]
    BY DEF IInv, TypeOK
  <2> HIDE DEF S
  <2> QED BY <1>1, <2>1, <2>2, FoundAdds
<1>3. TypeOK'
  BY <1>2 DEF IInv, TypeOK
<1>4. pc \in FromInputs /\ pc \in FromDirect /\ pc' \notin FromChecks
  BY DEF FromInputs, FromDirect, FromDepth, FromChecks
<1>5. ContractsAccounted' /\ InputsAccounted'
  BY <1>2, <1>4, ContractsStay, InputsStay DEF IInv, Accounted
<1>6. DirectAccounted'
  <2>1. (audit /\ observed) \/ Has("error")'
    BY <1>2, <1>4, HasStays DEF IInv, Accounted, InputsAccounted
  <2>2. CASE audit /\ observed
    BY <1>1, <1>2, <2>2 DEF DirectAccounted
  <2>3. CASE Has("error")'
    BY <2>3 DEF DirectAccounted
  <2> QED BY <2>1, <2>2, <2>3
<1>7. HoldoutAccounted' /\ VerdictIsLast'
  BY <1>2, HoldoutStays, VerdictWaits DEF IInv, Accounted
<1> QED BY <1>3, <1>4, <1>5, <1>6, <1>7
  DEF IInv, Accounted, DepthAccounted, EnvelopesAccounted, FromEvidence


LEMMA DepthStep == ASSUME IInv, EvaluateDepth PROVE IInv'
<1>1. PICK r \in Depth!Results, others \in SUBSET Severities :
        /\ Depth!Promised([audit |-> audit, contracts |-> ContractsUsable], r)
        /\ others \cup r.envelopes = r.found
        /\ depth' = r
        /\ Found(others, "depth")
  BY DEF EvaluateDepth
<1>2. /\ findings \subseteq findings'
      /\ findings' \subseteq [severity : Severities, kind : Kinds]
      /\ \A s \in others : Has(s)'
  <2>1. "depth" \in Kinds /\ findings \subseteq [severity : Severities, kind : Kinds]
    BY DEF IInv, TypeOK, Kinds
  <2> QED BY <1>1, <2>1, FoundAdds
<1>3. TypeOK'
  <2>1. r \in DepthResult
    BY <1>1 DEF DepthResult, Depth!Results, Severities, Depth!Severities
  <2> QED BY <1>1, <1>2, <2>1 DEF EvaluateDepth, IInv, TypeOK
<1>4. pc \in FromInputs /\ pc \in FromDirect /\ pc \in FromDepth /\ pc' \notin FromEvidence
  BY DEF EvaluateDepth, FromInputs, FromDirect, FromDepth, FromChecks, FromEvidence
<1>5. ContractsAccounted' /\ InputsAccounted' /\ DirectAccounted'
  BY <1>2, <1>4, ContractsStay, InputsStay, DirectStays DEF EvaluateDepth, IInv, Accounted
<1>6. DepthAccounted'
  <2>1. Depth!Promised([audit |-> audit, contracts |-> ContractsUsable], depth)'
    <3>1. ContractsUsable' = ContractsUsable /\ audit' = audit
      BY PlanStays DEF EvaluateDepth
    <3> QED BY <1>1, <3>1 DEF Depth!Promised
  <2>2. \A s \in depth'.found : s \in depth'.envelopes \/ Has(s)'
    BY <1>1, <1>2
  <2> QED BY <2>1, <2>2 DEF DepthAccounted, EvaluateDepth
<1>7. HoldoutAccounted' /\ VerdictIsLast'
  BY <1>2, HoldoutStays, VerdictWaits DEF EvaluateDepth, IInv, Accounted
<1> QED BY <1>3, <1>4, <1>5, <1>6, <1>7 DEF IInv, Accounted, EnvelopesAccounted

LEMMA LegacyStep == ASSUME IInv, LegacyDepth PROVE IInv'
<1>1. PICK defect \in BOOLEAN :
        /\ depth' = [status |-> LegacyStatus(defect), found |-> ErrorIf(defect), envelopes |-> {}, series |-> "none"]
        /\ Found(ErrorIf(defect), "depth")
  BY DEF LegacyDepth
<1>2. ErrorIf(defect) \in SUBSET Severities
  BY SeveritiesOfConditions
<1>3. /\ findings \subseteq findings'
      /\ findings' \subseteq [severity : Severities, kind : Kinds]
  <2>1. "depth" \in Kinds /\ findings \subseteq [severity : Severities, kind : Kinds]
    BY DEF IInv, TypeOK, Kinds
  <2> QED BY <1>1, <1>2, <2>1, FoundAdds
<1>4. TypeOK'
  <2>1. depth' \in DepthResult
    BY <1>1, <1>2 DEF DepthResult, LegacyStatus
  <2> QED BY <1>3, <2>1 DEF LegacyDepth, IInv, TypeOK
<1>5. pc \in FromInputs /\ pc \in FromDirect /\ pc \in FromDepth /\ pc' \notin FromEvidence
  BY DEF LegacyDepth, FromInputs, FromDirect, FromDepth, FromChecks, FromEvidence
<1>6. ContractsAccounted' /\ InputsAccounted' /\ DirectAccounted'
  BY <1>3, <1>5, ContractsStay, InputsStay, DirectStays DEF LegacyDepth, IInv, Accounted
<1>7. DepthAccounted'
  BY <1>1 DEF LegacyDepth, DepthAccounted, LegacyStatus
<1>8. HoldoutAccounted' /\ VerdictIsLast'
  BY <1>3, HoldoutStays, VerdictWaits DEF LegacyDepth, IInv, Accounted
<1> QED BY <1>4, <1>5, <1>6, <1>7, <1>8 DEF IInv, Accounted, EnvelopesAccounted

LEMMA EnvelopeStep == ASSUME IInv, CheckEnvelopes PROVE IInv'
<1>1. PICK outside \in SUBSET Severities : Found(outside \cup depth.envelopes, "envelope")
  BY DEF CheckEnvelopes
<1>2. outside \cup depth.envelopes \in SUBSET Severities
  BY DEF IInv, TypeOK, DepthResult
<1>3. /\ findings \subseteq findings'
      /\ findings' \subseteq [severity : Severities, kind : Kinds]
      /\ \A s \in depth.envelopes : Has(s)'
  <2>1. "envelope" \in Kinds /\ findings \subseteq [severity : Severities, kind : Kinds]
    BY DEF IInv, TypeOK, Kinds
  <2> QED BY <1>1, <1>2, <2>1, FoundAdds
<1>4. TypeOK'
  BY <1>3 DEF CheckEnvelopes, IInv, TypeOK
<1>5. pc \in FromInputs /\ pc \in FromDirect /\ pc \in FromDepth /\ pc \in FromChecks
  BY DEF CheckEnvelopes, FromInputs, FromDirect, FromDepth, FromChecks
<1>6. ContractsAccounted' /\ InputsAccounted' /\ DirectAccounted' /\ DepthAccounted'
  BY <1>3, <1>5, ContractsStay, InputsStay, DirectStays, DepthStays
     DEF CheckEnvelopes, IInv, Accounted
<1>7. EnvelopesAccounted'
  BY <1>3 DEF CheckEnvelopes, EnvelopesAccounted
<1>8. HoldoutAccounted' /\ VerdictIsLast'
  BY <1>3, HoldoutStays, VerdictWaits DEF CheckEnvelopes, IInv, Accounted
<1> QED BY <1>4, <1>6, <1>7, <1>8 DEF IInv, Accounted

(* From here on every action only adds findings to what is accounted for.  *)
LEMMA LaterStays ==
  ASSUME IInv, pc \in FromEvidence, findings \subseteq findings',
         UNCHANGED <<plan, audit, observed, direct, depth>>
  PROVE  /\ ContractsAccounted' /\ InputsAccounted' /\ DirectAccounted'
         /\ DepthAccounted' /\ EnvelopesAccounted'
<1>1. pc \in FromInputs /\ pc \in FromDirect /\ pc \in FromDepth /\ pc \in FromChecks
  BY DEF FromInputs, FromDirect, FromDepth, FromChecks, FromEvidence
<1> QED BY <1>1, ContractsStay, InputsStay, DirectStays, DepthStays, EnvelopesStay
  DEF IInv, Accounted

LEMMA RedundantStep == ASSUME IInv, CheckRedundantSensors PROVE IInv'
<1>1. PICK disagree \in SUBSET Severities : Found(disagree, "redundant")
  BY DEF CheckRedundantSensors
<1>2. /\ findings \subseteq findings'
      /\ findings' \subseteq [severity : Severities, kind : Kinds]
  <2>1. "redundant" \in Kinds /\ findings \subseteq [severity : Severities, kind : Kinds]
    BY DEF IInv, TypeOK, Kinds
  <2> QED BY <1>1, <2>1, FoundAdds
<1>3. TypeOK'
  BY <1>2 DEF CheckRedundantSensors, IInv, TypeOK
<1>4. pc \in FromEvidence
  BY DEF CheckRedundantSensors, FromInputs, FromDirect, FromDepth, FromChecks, FromEvidence
<1>5. HoldoutAccounted' /\ VerdictIsLast'
  BY <1>2, HoldoutStays, VerdictWaits DEF CheckRedundantSensors, IInv, Accounted
<1> QED BY <1>2, <1>3, <1>4, <1>5, LaterStays DEF CheckRedundantSensors, IInv, Accounted

LEMMA SkipStep == ASSUME IInv, SkipCalibration PROVE IInv'
<1>1. /\ findings \subseteq findings'
      /\ findings' \subseteq [severity : Severities, kind : Kinds]
  <2>1. "input" \in Kinds /\ findings \subseteq [severity : Severities, kind : Kinds]
    BY DEF IInv, TypeOK, Kinds
  <2>2. CASE Found({"error"}, "input")
    <3>1. {"error"} \in SUBSET Severities
      BY DEF Severities
    <3> QED BY <2>1, <2>2, <3>1, FoundAdds
  <2>3. CASE UNCHANGED findings
    BY <2>1, <2>3
  <2> QED BY <2>2, <2>3 DEF SkipCalibration
<1>2. TypeOK'
  BY <1>1 DEF SkipCalibration, IInv, TypeOK
<1>3. pc \in FromEvidence
  BY DEF SkipCalibration, FromInputs, FromDirect, FromDepth, FromChecks, FromEvidence
<1>4. HoldoutAccounted' /\ VerdictIsLast'
  BY <1>1, HoldoutStays, VerdictWaits DEF SkipCalibration, IInv, Accounted
<1> QED BY <1>1, <1>2, <1>3, <1>4, LaterStays DEF SkipCalibration, IInv, Accounted


LEMMA CalibrateStep == ASSUME IInv, Calibrate PROVE IInv'
<1>1. PICK converged \in {"yes", "no"}, atBound \in BOOLEAN,
           holdout \in IF plan.holdout THEN {"pass", "fail"} ELSE {"none"} :
        /\ calibration' = [converged |-> converged, holdout |-> holdout]
        /\ findings' = findings
             \cup {[severity |-> s, kind |-> "holdout"] :
                     s \in WarningIf(converged = "yes" /\ holdout = "fail")}
             \cup {[severity |-> s, kind |-> "bound"] : s \in WarningIf(atBound)}
  BY DEF Calibrate
<1>2. findings \subseteq findings'
  BY <1>1
<1>3. findings' \subseteq [severity : Severities, kind : Kinds]
  <2>1. findings \subseteq [severity : Severities, kind : Kinds]
    BY DEF IInv, TypeOK
  <2>2. \A s \in WarningIf(converged = "yes" /\ holdout = "fail") : s \in Severities
    BY SeveritiesOfConditions
  <2>3. \A s \in WarningIf(atBound) : s \in Severities
    BY SeveritiesOfConditions
  <2> QED BY <1>1, <2>1, <2>2, <2>3 DEF Kinds
<1>4. converged = "yes" /\ holdout = "fail" => Has("warning")'
  <2> SUFFICES ASSUME converged = "yes", holdout = "fail" PROVE Has("warning")'
    OBVIOUS
  <2>1. "warning" \in WarningIf(converged = "yes" /\ holdout = "fail")
    BY DEF WarningIf
  <2>2. [severity |-> "warning", kind |-> "holdout"] \in findings'
    BY <1>1, <2>1
  <2>3. [severity |-> "warning", kind |-> "holdout"].severity = "warning"
    OBVIOUS
  <2> QED BY <2>2, <2>3 DEF Has
<1>5. HoldoutAccounted'
  BY <1>1, <1>4 DEF HoldoutAccounted
<1>6. TypeOK'
  <2>1. calibration' \in Calibrations
    BY <1>1 DEF Calibrations
  <2> QED BY <1>3, <2>1 DEF Calibrate, IInv, TypeOK
<1>7. pc \in FromEvidence
  BY DEF Calibrate, FromInputs, FromDirect, FromDepth, FromChecks, FromEvidence
<1>8. VerdictIsLast'
  BY VerdictWaits DEF Calibrate, IInv, Accounted
<1> QED BY <1>2, <1>5, <1>6, <1>7, <1>8, LaterStays DEF Calibrate, IInv, Accounted

LEMMA RaisingStep ==
  ASSUME IInv, AuditRaises \/ DepthRaises \/ CalibrationRaises PROVE IInv'
<1>1. /\ pc # "done" /\ pc' = "raised"
      /\ UNCHANGED <<plan, findings, audit, observed, direct, depth, calibration, status>>
  BY DEF AuditRaises, DepthRaises, CalibrationRaises
<1>2. TypeOK'
  BY <1>1 DEF IInv, TypeOK
<1>3. pc' \notin FromInputs
  BY <1>1 DEF FromInputs
<1>4. HoldoutAccounted' /\ VerdictIsLast'
  BY <1>1, HoldoutStays, VerdictWaits DEF IInv, Accounted
<1> QED BY <1>2, <1>3, <1>4
  DEF IInv, Accounted, ContractsAccounted, InputsAccounted, DirectAccounted, DepthAccounted,
      EnvelopesAccounted, FromDirect, FromDepth, FromChecks, FromEvidence

LEMMA ConcludeStep == ASSUME IInv, Conclude PROVE IInv'
<1>1. TypeOK'
  BY DEF Conclude, Verdict, IInv, TypeOK
<1>2. pc \in FromEvidence
  BY DEF Conclude, FromInputs, FromDirect, FromDepth, FromChecks, FromEvidence
<1>3. HoldoutAccounted'
  BY HoldoutStays DEF Conclude, IInv, Accounted
<1>4. VerdictIsLast'
  BY DEF Conclude, VerdictIsLast, Verdict, Has
<1> QED BY <1>1, <1>2, <1>3, <1>4, LaterStays DEF Conclude, IInv, Accounted

LEMMA StutteringStep == ASSUME IInv, UNCHANGED vars PROVE IInv'
<1>1. TypeOK'
  BY DEF IInv, TypeOK, vars
<1>2. \A s \in Severities : Has(s)' = Has(s)
  BY DEF Has, vars
<1>3. ContractsUsable' = ContractsUsable /\ Verdict' = Verdict
  BY PlanStays DEF vars, Verdict, Has
<1>4. ContractsAccounted' /\ InputsAccounted' /\ DirectAccounted' /\ HoldoutAccounted'
  BY <1>2, <1>3
     DEF vars, IInv, Accounted, Severities, ContractsAccounted, InputsAccounted, DirectAccounted,
         HoldoutAccounted
<1>5. DepthAccounted' /\ EnvelopesAccounted'
  <2>1. CASE pc \in FromEvidence
    BY <2>1, LaterStays DEF vars
  <2>2. CASE pc \in FromChecks /\ pc \notin FromEvidence
    BY <2>2, DepthStays DEF vars, IInv, Accounted, EnvelopesAccounted
  <2>3. CASE pc \notin FromChecks
    BY <2>3 DEF vars, DepthAccounted, EnvelopesAccounted, FromEvidence
  <2> QED BY <2>1, <2>2, <2>3
<1>6. VerdictIsLast'
  BY <1>3 DEF vars, IInv, Accounted, VerdictIsLast
<1> QED BY <1>1, <1>4, <1>5, <1>6 DEF IInv, Accounted

-----------------------------------------------------------------------------
(* Whatever the plan, the inputs, the numbers and the depth evaluation, the*)
(* stages account for what they found until the verdict is taken.          *)
THEOREM Accounting == Spec => []IInv
<1>1. IInv /\ [Next]_vars => IInv'
  <2> SUFFICES ASSUME IInv, [Next]_vars PROVE IInv'
    OBVIOUS
  <2>1. CASE CheckContracts BY <2>1, ContractsStep
  <2>2. CASE LoadInputs BY <2>2, InputsStep
  <2>3. CASE AuditDirectly BY <2>3, DirectStep
  <2>4. CASE EvaluateDepth BY <2>4, DepthStep
  <2>5. CASE LegacyDepth BY <2>5, LegacyStep
  <2>6. CASE CheckEnvelopes BY <2>6, EnvelopeStep
  <2>7. CASE CheckRedundantSensors BY <2>7, RedundantStep
  <2>8. CASE SkipCalibration BY <2>8, SkipStep
  <2>9. CASE Calibrate BY <2>9, CalibrateStep
  <2>10. CASE AuditRaises \/ DepthRaises \/ CalibrationRaises BY <2>10, RaisingStep
  <2>11. CASE Conclude BY <2>11, ConcludeStep
  <2>12. CASE UNCHANGED vars BY <2>12, StutteringStep
  <2> QED
    BY <2>1, <2>2, <2>3, <2>4, <2>5, <2>6, <2>7, <2>8, <2>9, <2>10, <2>11, <2>12 DEF Next
<1> QED BY <1>1, InitAccounted, PTL DEF Spec

(* The state of the validation is always one the report can show.          *)
THEOREM TypeCorrect == Spec => []TypeOK
BY Accounting, PTL DEF IInv

(* No findings at all once the status is "pass".                           *)
LEMMA PassFindsNothing ==
  ASSUME IInv, status = "pass"
  PROVE  pc = "done" /\ findings = {} /\ \A s : ~Has(s)
<1>1. pc = "done" /\ Verdict = "pass"
  BY DEF IInv, Accounted, VerdictIsLast
<1>2. ~Has("error") /\ ~Has("warning")
  BY <1>1 DEF Verdict
<1>3. \A f \in findings : f.severity \in {"error", "warning"}
  BY DEF IInv, TypeOK, Severities
<1> QED BY <1>1, <1>2, <1>3 DEF Has

LEMMA PassIsChecked == IInv => PassMeansChecked
<1> SUFFICES ASSUME IInv, status = "pass"
             PROVE  /\ ContractsUsable
                    /\ direct = "pass" /\ findings = {}
                    /\ plan.depth => depth.series = "pass" /\ depth.found = {}
  BY DEF PassMeansChecked
<1>1. pc = "done" /\ findings = {} /\ \A s : ~Has(s)
  BY PassFindsNothing
<1>2. /\ pc \in FromInputs /\ pc \in FromDirect /\ pc \in FromDepth
      /\ pc \in FromChecks /\ pc \in FromEvidence
  BY <1>1 DEF FromInputs, FromDirect, FromDepth, FromChecks, FromEvidence
<1>3. ContractsUsable /\ audit /\ direct = "pass"
  BY <1>1, <1>2 DEF IInv, Accounted, ContractsAccounted, InputsAccounted, DirectAccounted
<1>4. ASSUME plan.depth PROVE depth.series = "pass" /\ depth.found = {}
  <2>1. /\ Depth!Promised([audit |-> audit, contracts |-> ContractsUsable], depth)
        /\ \A s \in depth.found : s \in depth.envelopes \/ Has(s)
    BY <1>2, <1>4 DEF IInv, Accounted, DepthAccounted
  <2>2. \A s \in depth.envelopes : Has(s)
    BY <1>2 DEF IInv, Accounted, EnvelopesAccounted
  <2>3. depth.found = {}
    BY <1>1, <2>1, <2>2
  <2>4. depth.status = "pass"
    BY <2>1, <2>3 DEF Depth!Promised, Depth!StatusOfFound
  <2> QED BY <1>3, <2>1, <2>3, <2>4 DEF Depth!Promised, Depth!Usable
<1> QED BY <1>1, <1>3, <1>4

(* A pass rests on usable contracts, a passing direct audit, no findings,  *)
(* and, where a series is declared, on residuals that passed.              *)
THEOREM PassIsSound == Spec => []PassMeansChecked
BY Accounting, PassIsChecked, PTL

(* The boundary is claimed only on a passing series.                       *)
THEOREM ClaimIsSound == Spec => []ClaimWithinEvidence
<1>1. IInv => ClaimWithinEvidence
  <2> SUFFICES ASSUME IInv PROVE ClaimWithinEvidence
    OBVIOUS
  <2>1. CASE status = "pass"
    <3>1. pc \in FromChecks
      BY <2>1, PassFindsNothing DEF FromInputs, FromDirect, FromDepth, FromChecks
    <3>2. plan.depth \/ depth.status # "pass"
      BY <3>1 DEF IInv, Accounted, DepthAccounted
    <3>3. plan.depth => depth.series = "pass"
      BY <2>1, PassIsChecked DEF PassMeansChecked
    <3> QED BY <2>1, <3>2, <3>3 DEF ClaimWithinEvidence, SafeClaim
  <2>2. CASE status # "pass"
    BY <2>2 DEF ClaimWithinEvidence, SafeClaim, IInv, TypeOK
  <2> QED BY <2>1, <2>2
<1> QED BY <1>1, Accounting, PTL

(* A verdict below "pass" comes with a finding of its severity.            *)
THEOREM VerdictIsReasoned == Spec => []VerdictHasReason
<1>1. IInv => VerdictHasReason
  <2> SUFFICES ASSUME IInv, status \in {"partial", "fail"} PROVE VerdictHasReason
    BY DEF VerdictHasReason
  <2>1. pc = "done" /\ status = Verdict
    BY DEF IInv, Accounted, VerdictIsLast
  <2>2. direct = "pass" \/ (direct = "fail" /\ Has("warning")) \/ Has("error")
    BY <2>1 DEF IInv, Accounted, DirectAccounted, FromInputs, FromDirect, FromDepth
  <2>3. calibration.converged = "yes" /\ calibration.holdout = "fail" => Has("warning")
    BY DEF IInv, Accounted, HoldoutAccounted
  <2> QED BY <2>1, <2>2, <2>3 DEF VerdictHasReason, Verdict
<1> QED BY <1>1, Accounting, PTL


-----------------------------------------------------------------------------
(* What the adequacy asks for, as the two properties state it: of each     *)
(* parameter that varies, of the rows the points come from, and of their   *)
(* number.                                                                 *)
Reached(p) ==
  LET n == AvailableTo(p)
      rows == RowsOf(Passing(Giving(p)))
  IN  /\ n > 1 /\ Cardinality(rows) >= UniversalCount(n)
      /\ NoHole(rows, RowGapAllowed(n, UniversalCount(n)))
      /\ \A k \in Giving(p) : Point(k).outcome \in {"pass", "fail"} /\ Point(k).effects[p] # -1
      /\ \E j, k \in Giving(p) : Point(j).values[p] # Point(k).values[p]

Varied == {p \in DOMAIN case.policies : case.policies[p].varying}

RowsApart ==
  /\ \A j, k \in Valid :
       j # k => ~SameRow(j, k) /\ (Point(j).time = Point(k).time => Point(j).time = 0)
  /\ \A k \in Valid : Located(k) /\ Point(k).file \in case.files /\ Point(k).row \in 0 .. Usable - 1

RowsEnough ==
  /\ Cardinality(SelectedRows) >= UniversalCount(Usable)
  /\ case.mode = "full" => Cardinality(SelectedRows) = Usable

(* What is reported where they are not met.  Nobody has to ask for it.     *)
NotReached == "time_varying_parameter_time_coverage_insufficient"
NotApart ==
  {"temporal_duplicate_timestamps", "source_row_lineage_missing", "source_row_lineage_duplicate",
   "source_row_lineage_out_of_range"}
NotEnough == {"selected_point_floor_not_met", "full_sampling_incomplete"}

ReportedIn(S, types) == \E x \in types : Short(x, "") \in S

FromTime == {"time", "selection", "families", "conclude"}
FromSelection == FromTime \ {"time"}
FromFamilies == FromSelection \ {"selection"}

Required ==
  /\ \A p \in Varied : Reached(p)
  /\ case.scope # "snapshot" => RowsApart
  /\ RowsEnough

AdequacyInv ==
  /\ \E t \in Task : case = t.case
  /\ stage # "done" => adequacy = ""
  /\ stage \in FromTime => \A p \in Varied : Reached(p) \/ Short(NotReached, p) \in shortfalls
  /\ stage \in FromSelection /\ case.scope # "snapshot" => RowsApart \/ ReportedIn(shortfalls, NotApart)
  /\ stage \in FromFamilies => RowsEnough \/ ReportedIn(shortfalls, NotEnough)
  /\ adequacy = "pass" => Required

-----------------------------------------------------------------------------
(* Each depends on the case only.                                          *)
LEMMA RequiredKept ==
  ASSUME case' = case
  PROVE  /\ Varied' = Varied /\ \A p : Reached(p)' = Reached(p)
         /\ RowsApart' = RowsApart /\ RowsEnough' = RowsEnough
<1>1. Valid' = Valid /\ (\A k : Point(k)' = Point(k)) /\ NextRow' = NextRow /\ Edges' = Edges
  BY DEF Valid, Point, NextRow, Edges
<1>2. \A p : Giving(p)' = Giving(p)
  BY <1>1 DEF Giving
<1>3. \A S : Passing(S)' = Passing(S) /\ RowsOf(S)' = RowsOf(S)
  BY <1>1 DEF Passing, RowsOf
<1>4. Usable' = Usable
  BY <1>1 DEF Usable
<1>5. \A p : AvailableTo(p)' = AvailableTo(p)
  <2>1. \A p : SourcesOf(p)' = SourcesOf(p)
    BY <1>1 DEF SourcesOf
  <2>2. QED
    BY <1>4, <2>1 DEF AvailableTo
<1>6. \A p : Reached(p)' = Reached(p)
  BY <1>1, <1>2, <1>3, <1>5 DEF Reached
<1>7. /\ \A k : Located(k)' = Located(k)
      /\ \A j, k : SameRow(j, k)' = SameRow(j, k)
  BY <1>1 DEF Located, SameRow
<1>8. RowsApart' = RowsApart
  BY <1>1, <1>4, <1>7 DEF RowsApart
<1>9. SelectedRows' = SelectedRows
  BY <1>1, <1>7 DEF SelectedRows
<1>10. RowsEnough' = RowsEnough
  BY <1>4, <1>9 DEF RowsEnough
<1>11. Varied' = Varied
  BY DEF Varied
<1>12. QED
  BY <1>6, <1>8, <1>10, <1>11

-----------------------------------------------------------------------------
(* Greatest elements of finite sets: least is the number of those above.   *)
Less == {ss \in Nat \X Nat : ss[1] < ss[2]}

LEMMA SomeLeast ==
  ASSUME NEW S, S \subseteq Nat, S # {}
  PROVE  \E n \in S : \A m \in S : n <= m
<1>1. IsWellFoundedOn(Less, Nat)
  BY NatLessThanWellFounded DEF OpToRel, Less
<1>2. PICK n \in S : \A m \in S : ~(<<m, n>> \in Less)
  BY <1>1, WFMin
<1>3. ASSUME NEW m \in S PROVE n <= m
  <2>1. n \in Nat /\ m \in Nat
    BY <1>2
  <2>2. <<m, n>> \in Nat \X Nat
    BY <2>1
  <2>3. ~(<<m, n>>[1] < <<m, n>>[2])
    BY <1>2, <2>2 DEF Less
  <2>4. QED
    BY <2>1, <2>3
<1>4. QED
  BY <1>2, <1>3

LEMMA SomeGreatest ==
  ASSUME NEW S, IsFiniteSet(S), S # {}, NEW f, \A x \in S : f[x] \in Int
  PROVE  \E x \in S : \A y \in S : f[y] <= f[x]
<1> DEFINE Above(x) == {y \in S : f[y] > f[x]}
           R == {Cardinality(Above(x)) : x \in S}
<1>1. ASSUME NEW x \in S PROVE IsFiniteSet(Above(x)) /\ Cardinality(Above(x)) \in Nat
  <2>1. Above(x) \in SUBSET S
    OBVIOUS
  <2> HIDE DEF Above
  <2>2. QED
    BY <2>1, FS_Subset, FS_CardinalityType
<1>2. R \subseteq Nat /\ R # {}
  BY <1>1
<1>3. PICK r \in R : \A m \in R : r <= m
  <2> HIDE DEF R
  <2>1. QED
    BY <1>2, SomeLeast
<1>4. PICK x \in S : r = Cardinality(Above(x))
  BY <1>3
<1>5. ASSUME NEW y \in S, ~(f[y] <= f[x]) PROVE FALSE
  <2>1. y \in Above(x) /\ y \notin Above(y) /\ Above(y) \in SUBSET Above(x)
    BY <1>5
  <2>2. Cardinality(Above(x)) <= Cardinality(Above(y))
    BY <1>3, <1>4
  <2> HIDE DEF Above
  <2>3. Cardinality(Above(y)) <= Cardinality(Above(x))
    BY <1>1, <2>1, FS_Subset
  <2>4. Cardinality(Above(x)) = Cardinality(Above(y))
    BY <1>1, <2>2, <2>3
  <2>5. Above(x) = Above(y)
    BY <1>1, <2>1, <2>4, FS_Subset
  <2>6. QED
    BY <2>1, <2>5
<1>6. QED
  BY <1>5

LEMMA MaxOf ==
  ASSUME NEW S, S \subseteq Int, IsFiniteSet(S), S # {}
  PROVE  Max(S) \in S /\ \A y \in S : y <= Max(S)
<1> DEFINE f == [x \in S |-> x]
<1>1. \E x \in S : \A y \in S : f[y] <= f[x]
  <2>1. \A x \in S : f[x] \in Int
    OBVIOUS
  <2> HIDE DEF f
  <2>2. QED
    BY <2>1, SomeGreatest
<1>2. \E x \in S : \A y \in S : x >= y
  BY <1>1
<1>3. QED
  BY <1>2 DEF Max

LEMMA MinOf ==
  ASSUME NEW S, S \subseteq Int, IsFiniteSet(S), S # {}
  PROVE  Min(S) \in S /\ \A y \in S : Min(S) <= y
<1> DEFINE f == [x \in S |-> -x]
<1>1. \E x \in S : \A y \in S : f[y] <= f[x]
  <2>1. \A x \in S : f[x] \in Int
    OBVIOUS
  <2> HIDE DEF f
  <2>2. QED
    BY <2>1, SomeGreatest
<1>2. \E x \in S : \A y \in S : x <= y
  BY <1>1
<1>3. QED
  BY <1>2 DEF Min

(* A set of numbers that has 0 and the next of each has all of them.       *)
LEMMA AllNumbers ==
  ASSUME NEW S, S \subseteq Nat, 0 \in S, \A n \in S : n + 1 \in S
  PROVE  S = Nat
<1>1. SUFFICES ASSUME Nat \ S # {} PROVE FALSE
  OBVIOUS
<1>2. PICK n \in Nat \ S : \A m \in Nat \ S : n <= m
  BY <1>1, SomeLeast
<1>3. n # 0 /\ n - 1 \in Nat /\ n - 1 \in S
  BY <1>2
<1>4. QED
  BY <1>2, <1>3

-----------------------------------------------------------------------------
(* The floors: a universal count that nothing asked for can lower, and a   *)
(* gap between rows that more rows can only narrow.                        *)
LEMMA UniversalCountIs ==
  ASSUME NEW n \in Nat
  PROVE  UniversalCount(n) \in 0 .. n /\ (n > 1 => UniversalCount(n) > 1)
<1> DEFINE roots == {k \in 0 .. n : k * k >= n}
<1>1. Min(roots) \in Nat
  <2>1. n * n >= n
    OBVIOUS
  <2>2. n \in roots /\ roots \in SUBSET (0 .. n)
    BY <2>1
  <2> HIDE DEF roots
  <2>3. IsFiniteSet(0 .. n) /\ 0 .. n \in SUBSET Nat
    BY FS_Interval
  <2>4. IsFiniteSet(roots)
    BY <2>2, <2>3, FS_Subset
  <2>5. roots \subseteq Int /\ roots # {}
    BY <2>2, <2>3
  <2>6. Min(roots) \in roots
    BY <2>4, <2>5, MinOf
  <2>7. QED
    BY <2>2, <2>3, <2>6
<1>2. RootCeiling(n) \in Nat
  BY <1>1 DEF RootCeiling
<1>3. QED
  BY <1>2 DEF UniversalCount, Larger, Smaller

LEMMA FloorIsUniversal ==
  ASSUME NEW n \in Nat, NEW counts, IsFiniteSet(counts), counts \subseteq Int,
         NEW ratios, IsFiniteSet(ratios), ratios \subseteq Int
  PROVE  CoverageFloor(n, counts, ratios) \in Int /\ CoverageFloor(n, counts, ratios) >= UniversalCount(n)
<1> DEFINE shares == {Ceiling(r * n, 100) : r \in ratios}
           asked == {UniversalCount(n)} \cup counts \cup shares
<1>1. IsFiniteSet(shares) /\ shares \subseteq Int
  <2> DEFINE f == [r \in ratios |-> Ceiling(r * n, 100)]
  <2>1. f \in Surjection(ratios, shares)
    BY DEF Surjection
  <2>2. \A r \in ratios : Ceiling(r * n, 100) \in Int
    BY DEF Ceiling
  <2> HIDE DEF f
  <2>3. IsFiniteSet(shares)
    BY <2>1, FS_Surjection
  <2>4. QED
    BY <2>2, <2>3
<1>2. UniversalCount(n) \in 0 .. n
  BY UniversalCountIs
<1>3. IsFiniteSet(asked) /\ asked \subseteq Int /\ UniversalCount(n) \in asked
  <2> HIDE DEF shares
  <2> DEFINE u == {UniversalCount(n)}
  <2>1. IsFiniteSet(u) /\ u \subseteq Int
    BY <1>2, FS_Singleton
  <2>2. asked = (u \cup counts) \cup shares
    OBVIOUS
  <2>3. UniversalCount(n) \in asked
    OBVIOUS
  <2> HIDE DEF u, asked
  <2>4. IsFiniteSet(u \cup counts) /\ u \cup counts \subseteq Int
    BY <2>1, FS_Union
  <2>5. IsFiniteSet((u \cup counts) \cup shares)
    BY <1>1, <2>4, FS_Union
  <2>6. QED
    BY <1>1, <2>2, <2>3, <2>4, <2>5
<1> HIDE DEF asked, shares
<1>4. Max(asked) \in Int /\ Max(asked) >= UniversalCount(n)
  BY <1>3, MaxOf
<1>5. CoverageFloor(n, counts, ratios) = IF n = 0 THEN 0 ELSE Smaller(n, Max(asked))
  BY DEF CoverageFloor, asked, shares
<1>6. QED
  BY <1>2, <1>4, <1>5 DEF Smaller

LEMMA CeilingFalls ==
  ASSUME NEW a \in Nat, NEW b \in Nat \ {0}, NEW c \in Nat, b <= c
  PROVE  Ceiling(a, c) \in Int /\ Ceiling(a, b) \in Int /\ Ceiling(a, c) <= Ceiling(a, b)
<1> DEFINE q == (a + b - 1) \div b
           r == (a + c - 1) \div c
<1>1. q \in Int /\ r \in Int /\ q >= 0
  OBVIOUS
<1>2. a + b - 1 < b * q + b /\ c * r <= a + c - 1
  OBVIOUS
<1> HIDE DEF q, r
<1>3. a <= b * q
  BY <1>1, <1>2
<1>4. b * q <= c * q
  BY <1>1
<1>5. c * r < c * q + c
  BY <1>1, <1>2, <1>3, <1>4
<1>6. r < q + 1
  <2>1. SUFFICES ASSUME r >= q + 1 PROVE FALSE
    BY <1>1
  <2>2. c * r >= c * (q + 1)
    BY <1>1, <2>1
  <2>3. c * (q + 1) = c * q + c
    BY <1>1
  <2>4. QED
    BY <1>1, <1>5, <2>2, <2>3
<1>7. QED
  BY <1>1, <1>6 DEF q, r, Ceiling

LEMMA GapNarrows ==
  ASSUME NEW n \in Nat, n > 1, NEW a \in Int, NEW b \in Int, a > 1, a <= b
  PROVE  /\ RowGapAllowed(n, a) \in Int /\ RowGapAllowed(n, b) \in Int
         /\ RowGapAllowed(n, b) <= RowGapAllowed(n, a)
<1>1. 2 * (n - 1) \in Nat /\ a - 1 \in Nat \ {0} /\ b - 1 \in Nat /\ a - 1 <= b - 1
  OBVIOUS
<1>2. /\ Ceiling(2 * (n - 1), a - 1) \in Int /\ Ceiling(2 * (n - 1), b - 1) \in Int
      /\ Ceiling(2 * (n - 1), b - 1) <= Ceiling(2 * (n - 1), a - 1)
  BY <1>1, CeilingFalls
<1>3. QED
  BY <1>2 DEF RowGapAllowed, Larger

-----------------------------------------------------------------------------
LEMMA FewAreFinite ==
  ASSUME NEW a, NEW b, NEW c
  PROVE  IsFiniteSet({a, b, c})
<1>1. IsFiniteSet({a} \cup {b}) /\ IsFiniteSet({c})
  BY FS_Singleton, FS_Union
<1>2. IsFiniteSet(({a} \cup {b}) \cup {c})
  BY <1>1, FS_Union
<1>3. {a, b, c} = ({a} \cup {b}) \cup {c}
  OBVIOUS
<1>4. QED
  BY <1>2, <1>3

Given == \E t \in Task : case = t.case

LEMMA GivenCase == Given => WellFormedCase(case)
BY EvidenceAssumption DEF Given

LEMMA Counted ==
  ASSUME Given
  PROVE  Usable \in Nat /\ \A p : AvailableTo(p) \in Nat
<1>1. case.manifest.rows \in Nat /\ case.manifest.samples \in Nat
  BY GivenCase DEF WellFormedCase
<1>2. \A f \in DOMAIN case.nonNull : case.nonNull[f] \in Nat
  BY GivenCase DEF WellFormedCase
<1>3. Usable \in Nat
  BY <1>1 DEF Usable, Larger
<1>4. \A p : AvailableTo(p) \in Nat
  BY <1>2, <1>3 DEF AvailableTo
<1>5. QED
  BY <1>3, <1>4

(* Floors written or not are numbers.                                      *)
CountFloors ==
  {"minimum_selected_points", "adaptive_minimum_selected_points",
   "minimum_selected_ratio", "adaptive_minimum_selected_ratio",
   "minimum_per_parameter_valid_points", "minimum_per_parameter_valid_ratio"}

OwnFloors ==
  {"minimum_valid_points", "minimum_valid_ratio",
   "convergence_minimum_valid_points", "convergence_minimum_valid_ratio"}

LEMMA FloorsAreNumbers ==
  ASSUME Given
  PROVE  /\ \A key \in CountFloors : Floor(key) \in Nat
         /\ \A p \in Varied : \A key \in OwnFloors : Own(p, key) \in Nat
<1>1. \A key \in DOMAIN case.floors : case.floors[key] \in Nat
  BY GivenCase DEF WellFormedCase
<1>2. \A p \in Varied :
        \A key \in DOMAIN case.policies[p].floors : case.policies[p].floors[key] \in Nat
  BY GivenCase DEF WellFormedCase, Varied
<1>3. \A key \in CountFloors : Inactive[key] \in Nat
  BY Counted DEF Inactive, CountFloors
<1>4. \A key \in OwnFloors : Inferred[key] \in Nat
  BY Counted DEF Inferred, OwnFloors
<1>5. QED
  BY <1>1, <1>2, <1>3, <1>4 DEF Floor, Own

LEMMA ParameterFloorIsUniversal ==
  ASSUME Given, NEW p \in Varied
  PROVE  ParameterFloor(p) \in Int /\ ParameterFloor(p) >= UniversalCount(AvailableTo(p))
<1> DEFINE few == {Floor("minimum_per_parameter_valid_points"), Own(p, "minimum_valid_points"),
                   Own(p, "convergence_minimum_valid_points")}
           all == IF case.mode = "full" THEN {AvailableTo(p)} ELSE {}
           counts == few \cup all
           ratios == {Floor("minimum_per_parameter_valid_ratio"), Own(p, "minimum_valid_ratio"),
                      Own(p, "convergence_minimum_valid_ratio")}
<1>1. few \subseteq Int /\ ratios \subseteq Int
  BY FloorsAreNumbers DEF CountFloors, OwnFloors
<1>2. AvailableTo(p) \in Nat
  BY Counted
<1>3. all \subseteq Int /\ IsFiniteSet(all)
  BY <1>2, FS_Singleton, FS_EmptySet
<1>4. IsFiniteSet(few) /\ IsFiniteSet(ratios)
  BY FewAreFinite
<1>5. ParameterFloor(p) = CoverageFloor(AvailableTo(p), counts, ratios)
  BY DEF ParameterFloor
<1> HIDE DEF few, all, ratios
<1>6. counts \subseteq Int /\ IsFiniteSet(counts)
  BY <1>1, <1>3, <1>4, FS_Union
<1> HIDE DEF counts
<1>7. QED
  BY <1>1, <1>2, <1>4, <1>5, <1>6, FloorIsUniversal

LEMMA VaryingIsReached ==
  ASSUME Given, NEW p \in Varied, VaryingPasses(p)
  PROVE  Reached(p)
<1> DEFINE n == AvailableTo(p)
           rows == RowsOf(Passing(Giving(p)))
           u == UniversalCount(n)
           f == ParameterFloor(p)
<1>1. /\ Cardinality(rows) >= f /\ n > 1 /\ NoHole(rows, RowGapAllowed(n, f))
      /\ Replayed(p) /\ Cardinality(ValuesOf(p)) >= 2
  BY DEF VaryingPasses, Contributes
<1>2. n \in Nat /\ f \in Int /\ f >= u /\ u \in 0 .. n /\ u > 1
  BY <1>1, Counted, ParameterFloorIsUniversal, UniversalCountIs
<1>3. IsFiniteSet(Giving(p)) /\ rows \in SUBSET Nat /\ IsFiniteSet(rows)
  <2>1. IsFiniteSet(DOMAIN case.points) /\ \A k \in DOMAIN case.points : Point(k).row \in Nat \cup {-1}
    BY GivenCase DEF WellFormedCase, Point
  <2>2. Giving(p) \in SUBSET DOMAIN case.points /\ Passing(Giving(p)) \in SUBSET Giving(p)
    BY DEF Giving, Valid, Passing
  <2>3. IsFiniteSet(Giving(p)) /\ IsFiniteSet(Passing(Giving(p)))
    BY <2>1, <2>2, FS_Subset
  <2> DEFINE of == {Point(k).row : k \in Passing(Giving(p))}
             g == [k \in Passing(Giving(p)) |-> Point(k).row]
  <2>4. g \in Surjection(Passing(Giving(p)), of)
    BY DEF Surjection
  <2>5. rows \in SUBSET of /\ rows \in SUBSET Nat
    BY <2>1, <2>2 DEF RowsOf
  <2> HIDE DEF of, g
  <2>6. IsFiniteSet(of)
    BY <2>3, <2>4, FS_Surjection
  <2>7. QED
    BY <2>3, <2>5, <2>6, FS_Subset
<1>4. Cardinality(rows) \in Nat
  BY <1>3, FS_CardinalityType
<1>5. NoHole(rows, RowGapAllowed(n, u))
  <2>1. /\ RowGapAllowed(n, u) \in Int /\ RowGapAllowed(n, f) \in Int
        /\ RowGapAllowed(n, f) <= RowGapAllowed(n, u)
    BY <1>1, <1>2, GapNarrows
  <2> HIDE DEF n, u, f, rows
  <2>2. QED
    BY <1>1, <1>3, <2>1 DEF NoHole
<1>6. \A k \in Giving(p) : Point(k).outcome \in {"pass", "fail"} /\ Point(k).effects[p] # -1
  BY <1>1 DEF Replayed
<1>7. \E j, k \in Giving(p) : Point(j).values[p] # Point(k).values[p]
  <2>1. PICK k \in Giving(p) : TRUE
    BY <1>1 DEF Replayed
  <2>2. ASSUME \A j \in Giving(p) : Point(j).values[p] = Point(k).values[p] PROVE FALSE
    <3>1. ValuesOf(p) = {Point(k).values[p]}
      BY <2>1, <2>2 DEF ValuesOf
    <3>2. Cardinality(ValuesOf(p)) = 1
      BY <3>1, FS_Singleton
    <3>3. QED
      BY <1>1, <3>2
  <2>3. QED
    BY <2>1, <2>2
<1>8. Cardinality(rows) >= u
  <2> HIDE DEF n, u, f, rows
  <2>1. QED
    BY <1>1, <1>2, <1>4
<1>9. QED
  BY <1>1, <1>5, <1>6, <1>7, <1>8 DEF Reached

LEMMA UnreportedIsApart ==
  ASSUME Given, ~ReportedIn(TimeShortfalls, NotApart)
  PROVE  RowsApart
<1>1. ~TimesRepeat /\ ~RowsRepeat
  BY DEF TimeShortfalls, When, NotApart, ReportedIn
<1>2. \A k \in Valid : Located(k) /\ ~OutOfRange(k)
  BY DEF TimeShortfalls, When, NotApart, ReportedIn
<1>3. ASSUME NEW k \in Valid
      PROVE  Located(k) /\ Point(k).file \in case.files /\ Point(k).row \in 0 .. Usable - 1
  <2>1. Point(k).row \in Nat /\ ~(Point(k).row >= Usable)
    BY <1>2, GivenCase DEF WellFormedCase, Valid, Point, Located, OutOfRange
  <2>2. QED
    BY <1>2, <2>1, Counted DEF OutOfRange
<1>4. QED
  BY <1>1, <1>2, <1>3 DEF RowsApart, TimesRepeat, RowsRepeat

LEMMA ValidAreFinite == Given => IsFiniteSet(Valid)
<1>1. Valid \in SUBSET DOMAIN case.points
  BY DEF Valid
<1>2. QED
  BY <1>1, GivenCase, FS_Subset DEF WellFormedCase

LEMMA SelectedAreFew ==
  ASSUME Given
  PROVE  Cardinality(SelectedRows) \in Nat /\ Cardinality(SelectedRows) <= Cardinality(Valid)
<1> DEFINE located == {j \in Valid : Located(j)}
           f == [k \in located |-> <<Point(k).file, Point(k).row>>]
<1>1. located \in SUBSET Valid
  OBVIOUS
<1>2. f \in Surjection(located, SelectedRows)
  BY DEF Surjection, SelectedRows
<1> HIDE DEF f, located
<1>3. IsFiniteSet(located) /\ Cardinality(located) <= Cardinality(Valid)
  BY <1>1, ValidAreFinite, FS_Subset
<1>4. IsFiniteSet(SelectedRows) /\ Cardinality(SelectedRows) <= Cardinality(located)
  BY <1>2, <1>3, FS_Surjection
<1>5. {Cardinality(SelectedRows), Cardinality(located), Cardinality(Valid)} \subseteq Nat
  BY <1>3, <1>4, ValidAreFinite, FS_CardinalityType
<1>6. QED
  BY <1>3, <1>4, <1>5

LEMMA UnreportedIsEnough ==
  ASSUME Given, ~ReportedIn(SelectionShortfalls, NotEnough)
  PROVE  RowsEnough
<1> DEFINE few == {Floor("minimum_selected_points"), Floor("adaptive_minimum_selected_points")}
           all == IF case.mode = "full" THEN {Usable} ELSE {}
           counts == few \cup all
           ratios == {Floor("minimum_selected_ratio"), Floor("adaptive_minimum_selected_ratio")}
<1>1. few \subseteq Int /\ ratios \subseteq Int /\ Usable \in Nat
  BY FloorsAreNumbers, Counted DEF CountFloors
<1>2. all \subseteq Int /\ IsFiniteSet(all)
  <2>1. Usable \in Int
    BY Counted
  <2>2. QED
    BY <2>1, FS_Singleton, FS_EmptySet
<1>3. IsFiniteSet(few) /\ IsFiniteSet(ratios)
  BY FewAreFinite
<1>4. SelectionFloor = CoverageFloor(Usable, counts, ratios)
  BY DEF SelectionFloor
<1> HIDE DEF few, all, ratios
<1>5. counts \subseteq Int /\ IsFiniteSet(counts)
  BY <1>1, <1>2, <1>3, FS_Union
<1> HIDE DEF counts
<1>6. SelectionFloor \in Int /\ SelectionFloor >= UniversalCount(Usable)
  BY <1>1, <1>3, <1>4, <1>5, FloorIsUniversal
<1>7. UniversalCount(Usable) \in Int
  BY <1>1, UniversalCountIs
<1>8. /\ ~(Cardinality(SelectedRows) < SelectionFloor)
      /\ ~(case.mode = "full" /\ Cardinality(SelectedRows) # Usable)
  BY DEF SelectionShortfalls, When, NotEnough, ReportedIn
<1>9. Cardinality(SelectedRows) \in Nat
  BY SelectedAreFew
<1>10. QED
  BY <1>6, <1>7, <1>8, <1>9 DEF RowsEnough

(* Rows that are apart and enough cover the file.                          *)
LEMMA EnoughCover ==
  ASSUME Given, RowsApart, RowsEnough
  PROVE  /\ Cardinality(Valid) >= UniversalCount(Usable)
         /\ case.mode = "full" /\ Cardinality({Point(k).file : k \in Valid}) = 1 =>
              RowsOf(Valid) = 0 .. Usable - 1
<1>1. Usable \in Nat /\ UniversalCount(Usable) \in Nat
  BY Counted, UniversalCountIs
<1>2. Cardinality(SelectedRows) \in Nat /\ Cardinality(SelectedRows) <= Cardinality(Valid)
  BY SelectedAreFew
<1>3. Cardinality(Valid) >= UniversalCount(Usable)
  BY <1>1, <1>2, ValidAreFinite, FS_CardinalityType DEF RowsEnough
<1>4. ASSUME case.mode = "full", Cardinality({Point(k).file : k \in Valid}) = 1
      PROVE  RowsOf(Valid) = 0 .. Usable - 1
  <2> DEFINE files == {Point(k).file : k \in Valid}
             f == [k \in Valid |-> Point(k).file]
  <2>1. f \in Surjection(Valid, files)
    BY DEF Surjection
  <2>2. \A k \in Valid : Point(k).file \in files
    OBVIOUS
  <2>3. Cardinality(files) = 1
    BY <1>4
  <2> HIDE DEF f, files
  <2>4. PICK file : files = {file}
    BY <2>1, <2>3, ValidAreFinite, FS_Surjection, FS_Singleton
  <2>5. RowsOf(Valid) \in SUBSET (0 .. Usable - 1) /\ \A k \in Valid : Point(k).row \in RowsOf(Valid)
    BY <1>1 DEF RowsApart, RowsOf
  <2> DEFINE g == [r \in RowsOf(Valid) |-> <<file, r>>]
  <2>6. g \in Surjection(RowsOf(Valid), SelectedRows)
    <3>1. SelectedRows = {<<file, r>> : r \in RowsOf(Valid)}
      <4>1. \A x \in SelectedRows : \E r \in RowsOf(Valid) : x = <<file, r>>
        BY <2>2, <2>4, <2>5 DEF SelectedRows
      <4>2. \A r \in RowsOf(Valid) : <<file, r>> \in SelectedRows
        <5>1. SUFFICES ASSUME NEW r \in RowsOf(Valid) PROVE <<file, r>> \in SelectedRows
          OBVIOUS
        <5>2. PICK k \in Valid : Point(k).row = r
          BY DEF RowsOf
        <5>3. Point(k).file = file /\ Located(k)
          BY <2>2, <2>4 DEF RowsApart
        <5>4. QED
          BY <5>2, <5>3 DEF SelectedRows
      <4>3. QED
        BY <4>1, <4>2
    <3>2. QED
      BY <3>1 DEF Surjection
  <2> HIDE DEF g
  <2>7. IsFiniteSet(0 .. Usable - 1) /\ Cardinality(0 .. Usable - 1) = Usable
    <3> DEFINE last == Usable - 1
    <3>1. last \in Int /\ Usable = (IF 0 > last THEN 0 ELSE last - 0 + 1)
      BY <1>1
    <3> HIDE DEF last
    <3>2. IsFiniteSet(0 .. last) /\ Cardinality(0 .. last) = Usable
      BY <3>1, FS_Interval
    <3>3. QED
      BY <3>2 DEF last
  <2>8. IsFiniteSet(RowsOf(Valid)) /\ Cardinality(RowsOf(Valid)) <= Usable
    BY <2>5, <2>7, FS_Subset
  <2>9. Usable <= Cardinality(RowsOf(Valid))
    BY <1>4, <2>6, <2>8, FS_Surjection DEF RowsEnough
  <2>10. Cardinality(RowsOf(Valid)) = Usable
    BY <1>1, <2>8, <2>9, FS_CardinalityType
  <2>11. QED
    BY <2>5, <2>7, <2>10, FS_Subset
<1>5. QED
  BY <1>3, <1>4

-----------------------------------------------------------------------------
(* What nobody has to ask for is never dropped.                            *)
LEMMA Heldback ==
  ASSUME NEW x \in NotApart \cup NotEnough \cup {NotReached}, NEW about, NEW S
  PROVE  Short(x, about) \in S <=> Short(x, about) \in Held(S)
<1>1. x \notin DOMAIN Gates
  BY DEF Gates, NotApart, NotEnough, NotReached
<1>2. QED
  BY <1>1 DEF Held, Short

LEMMA AdequacyStarts == EvidenceInit => AdequacyInv
  BY DEF EvidenceInit, AdequacyStart, AdequacyInv, FromTime, FromSelection, FromFamilies

LEMMA AdequacyStep == AdequacyInv /\ [EvidenceNext]_evidenceVars => AdequacyInv'
<1>1. SUFFICES ASSUME AdequacyInv, [EvidenceNext]_evidenceVars PROVE AdequacyInv'
  OBVIOUS
<1>2. case' = case
  BY <1>1 DEF EvidenceNext, WeighSamples, WeighPrediction, AdequacyNext, SkipAdequacy, LoadArtifacts,
    LoadMappings, JudgeSignals, JudgeParameters, JudgeTime, JudgeSelection, JudgeFamilies,
    ConcludeAdequacy, evidenceVars, adequacyVars
<1>3. /\ Varied' = Varied /\ \A p : Reached(p)' = Reached(p)
      /\ RowsApart' = RowsApart /\ RowsEnough' = RowsEnough
  BY <1>2, RequiredKept
<1>4. Required' = Required /\ (Given <=> \E t \in Task : case = t.case) /\ Given
  BY <1>1, <1>2, <1>3 DEF Required, Given, AdequacyInv
<1> USE DEF FromTime, FromSelection, FromFamilies
<1>5. CASE UNCHANGED adequacyVars
  BY <1>1, <1>3, <1>4, <1>5 DEF AdequacyInv, adequacyVars, ReportedIn
<1>6. CASE SkipAdequacy \/ LoadArtifacts \/ LoadMappings \/ JudgeSignals
  BY <1>1, <1>2, <1>4, <1>6 DEF AdequacyInv, SkipAdequacy, LoadArtifacts, LoadMappings, JudgeSignals
<1>7. CASE JudgeParameters
  <2>1. ASSUME NEW p \in Varied PROVE Reached(p) \/ Short(NotReached, p) \in shortfalls'
    <3>1. p \in Parameters /\ Varying(p)
      BY DEF Varied, Parameters, Varying, Classified
    <3>2. CASE VaryingPasses(p)
      BY <1>4, <3>2, VaryingIsReached
    <3>3. CASE ~VaryingPasses(p)
      <4>1. Short(NotReached, p) \in VaryingShortfalls(p)
        BY <3>3 DEF VaryingShortfalls, When, NotReached
      <4>2. VaryingShortfalls(p) \subseteq shortfalls'
        BY <1>7, <3>1 DEF JudgeParameters
      <4>3. QED
        BY <4>1, <4>2
    <3>4. QED
      BY <3>2, <3>3
  <2>2. stage' = "time" /\ stage = "parameters" /\ adequacy' = adequacy
    BY <1>7 DEF JudgeParameters
  <2>3. QED
    BY <1>1, <1>2, <1>3, <1>4, <2>1, <2>2 DEF AdequacyInv
<1>8. CASE JudgeTime
  <2>1. case.scope # "snapshot" => RowsApart \/ ReportedIn(shortfalls', NotApart)
    BY <1>4, <1>8, UnreportedIsApart DEF JudgeTime, ReportedIn
  <2>2. stage' = "selection" /\ stage = "time" /\ adequacy' = adequacy /\ shortfalls \subseteq shortfalls'
    BY <1>8 DEF JudgeTime
  <2>3. QED
    BY <1>1, <1>2, <1>3, <1>4, <2>1, <2>2 DEF AdequacyInv, ReportedIn
<1>9. CASE JudgeSelection
  <2>1. RowsEnough \/ ReportedIn(shortfalls', NotEnough)
    BY <1>4, <1>9, UnreportedIsEnough DEF JudgeSelection, ReportedIn
  <2>2. /\ stage' = "families" /\ stage = "selection" /\ adequacy' = adequacy
        /\ shortfalls \subseteq shortfalls'
    BY <1>9 DEF JudgeSelection
  <2>3. QED
    BY <1>1, <1>2, <1>3, <1>4, <2>1, <2>2 DEF AdequacyInv, ReportedIn
<1>10. CASE JudgeFamilies
  <2>1. /\ stage' = "conclude" /\ stage = "families" /\ adequacy' = adequacy
        /\ shortfalls \subseteq shortfalls'
    BY <1>10 DEF JudgeFamilies
  <2>2. QED
    BY <1>1, <1>2, <1>3, <1>4, <2>1 DEF AdequacyInv, ReportedIn
<1>11. CASE ConcludeAdequacy
  <2>1. /\ stage' = "done" /\ stage = "conclude" /\ shortfalls' = Held(shortfalls)
        /\ adequacy' = "pass" => shortfalls' = {}
    BY <1>11 DEF ConcludeAdequacy
  <2>2. ASSUME adequacy' = "pass" PROVE Required
    <3>1. \A x \in NotApart \cup NotEnough \cup {NotReached} : \A about : Short(x, about) \notin shortfalls
      BY <2>1, <2>2, Heldback
    <3>2. \A p \in Varied : Reached(p)
      BY <1>1, <2>1, <3>1 DEF AdequacyInv
    <3>3. case.scope # "snapshot" => RowsApart
      BY <1>1, <2>1, <3>1 DEF AdequacyInv, ReportedIn
    <3>4. RowsEnough
      BY <1>1, <2>1, <3>1 DEF AdequacyInv, ReportedIn
    <3>5. QED
      BY <3>2, <3>3, <3>4 DEF Required
  <2>3. QED
    BY <1>1, <1>2, <1>3, <1>4, <2>1, <2>2 DEF AdequacyInv
<1>12. QED
  BY <1>1, <1>5, <1>6, <1>7, <1>8, <1>9, <1>10, <1>11
     DEF EvidenceNext, WeighSamples, WeighPrediction, AdequacyNext, evidenceVars

(* For any case, a sampling that passes outside a snapshot has no two      *)
(* points in one row or at one time, each of its rows is in a file of the  *)
(* plan, and their number is at least what the size of the file demands,   *)
(* whatever floors were written (core/validation_adequacy.py,              *)
(* evaluate_validation_adequacy_artifacts).                                *)
THEOREM EvidenceIsWhole == EvidenceSpec => []EvidenceCoversFile
<1>1. AdequacyInv => EvidenceCoversFile
  <2>1. SUFFICES ASSUME AdequacyInv, Passed, case.scope # "snapshot" PROVE EvidenceCoversFile
    BY DEF EvidenceCoversFile
  <2>2. Given /\ RowsApart /\ RowsEnough
    BY <2>1 DEF AdequacyInv, Passed, Required, Given
  <2>3. QED
    BY <2>2, EnoughCover DEF EvidenceCoversFile, RowsApart
<1>2. QED
  BY <1>1, AdequacyStarts, AdequacyStep, PTL DEF EvidenceSpec

(* For any case, a sampling that passes reaches each parameter that        *)
(* varies: often enough, without a hole, with an effect at each point and  *)
(* with two values at least (evaluate_validation_adequacy_artifacts).      *)
THEOREM ParametersAreReached == EvidenceSpec => []EvidenceReachesParameters
<1>1. AdequacyInv => EvidenceReachesParameters
  <2>1. SUFFICES ASSUME AdequacyInv, Passed PROVE EvidenceReachesParameters
    BY DEF EvidenceReachesParameters
  <2>2. \A p \in Varied : Reached(p)
    BY <2>1 DEF AdequacyInv, Passed, Required
  <2>3. QED
    BY <2>2 DEF EvidenceReachesParameters, Varied, Reached
<1>2. QED
  BY <1>1, AdequacyStarts, AdequacyStep, PTL DEF EvidenceSpec


-----------------------------------------------------------------------------
(* What a pass of the rollout rests on: the files are there and share      *)
(* nothing, the series align, and no step is further off than allowed.     *)
NoneGone == \A f \in Declared : ~Gone(f)
Close == ~(Worst > rollout.maxWorst)
Earned == NoneGone /\ ~Overlap /\ Gaps = {} /\ Close

FromOverlap == {"overlap", "series", "align", "measure", "conclude"}

RolloutInv ==
  /\ \E t \in Task : rollout = t.plan
  /\ phase # "done" => verdict = ""
  /\ phase \in FromOverlap /\ failures = {} => NoneGone
  /\ phase \in FromOverlap \ {"overlap"} /\ failures = {} => ~Overlap
  /\ phase = "measure" => Gaps = {}
  /\ phase = "conclude" /\ failures = {} => Gaps = {} /\ Close
  /\ verdict = "pass" => Earned

LEMMA EarnedKept ==
  ASSUME rollout' = rollout
  PROVE  NoneGone' = NoneGone /\ Overlap' = Overlap /\ Gaps' = Gaps /\ Close' = Close
<1>1. Declared' = Declared /\ \A f : Gone(f)' = Gone(f)
  BY DEF Declared, Gone
<1>2. NoneGone' = NoneGone
  BY <1>1 DEF NoneGone
<1>3. \A a, b : SharesContent(a, b)' = SharesContent(a, b)
  BY <1>1 DEF SharesContent
<1>4. Overlap' = Overlap
  BY <1>3 DEF Overlap
<1>5. Predicted' = Predicted /\ Observed' = Observed
  BY DEF Predicted, Observed
<1>6. Times' = Times
  BY <1>5 DEF Times
<1>7. ClockGaps' = ClockGaps
  BY <1>6 DEF ClockGaps
<1>8. \A t : TargetGaps(t)' = TargetGaps(t)
  BY <1>5 DEF TargetGaps
<1>9. Gaps' = Gaps
  <2>1. UNION {TargetGaps(t)' : t \in rollout.targets} = UNION {TargetGaps(t) : t \in rollout.targets}
    BY <1>8
  <2>2. QED
    BY <1>5, <1>6, <1>7, <2>1 DEF Gaps
<1>10. \A k, t : ErrorAt(k, t)' = ErrorAt(k, t)
  BY <1>5 DEF ErrorAt
<1>11. \A k : StepError(k)' = StepError(k)
  BY <1>10 DEF StepError
<1>12. Steps' = Steps
  BY <1>5 DEF Steps
<1>13. Worst' = Worst
  BY <1>11, <1>12 DEF Worst
<1>14. Close' = Close
  BY <1>13 DEF Close
<1>15. QED
  BY <1>2, <1>4, <1>9, <1>14

LEMMA RolloutStarts == EvidenceInit => RolloutInv
  BY DEF EvidenceInit, RolloutStart, RolloutInv, FromOverlap

LEMMA RolloutStep == RolloutInv /\ [EvidenceNext]_evidenceVars => RolloutInv'
<1>1. SUFFICES ASSUME RolloutInv, [EvidenceNext]_evidenceVars PROVE RolloutInv'
  OBVIOUS
<1>2. rollout' = rollout
  BY <1>1 DEF EvidenceNext, WeighSamples, WeighPrediction, RolloutNext, DeclineRollout, Forbid,
    CheckFiles, CheckOverlap, LoadSeries, Align, Measure, ConcludeRollout, evidenceVars, rolloutVars
<1>3. NoneGone' = NoneGone /\ Overlap' = Overlap /\ Gaps' = Gaps /\ Close' = Close
  BY <1>2, EarnedKept
<1>4. Earned' = Earned
  BY <1>3 DEF Earned
<1> USE DEF FromOverlap
<1>5. CASE UNCHANGED rolloutVars
  BY <1>1, <1>3, <1>4, <1>5 DEF RolloutInv, rolloutVars
<1>6. CASE DeclineRollout \/ Forbid
  BY <1>1, <1>2, <1>4, <1>6 DEF RolloutInv, DeclineRollout, Forbid
<1>7. CASE CheckFiles
  <2>1. failures' = {} => NoneGone
    BY <1>7 DEF CheckFiles, NoneGone
  <2>2. phase = "gate" /\ phase' = "overlap" /\ verdict' = verdict
    BY <1>7 DEF CheckFiles
  <2>3. QED
    BY <1>1, <1>2, <1>3, <1>4, <2>1, <2>2 DEF RolloutInv
<1>8. CASE CheckOverlap
  <2>1. failures' = {} => failures = {} /\ ~Overlap
    BY <1>8 DEF CheckOverlap, If
  <2>2. phase = "overlap" /\ phase' = "series" /\ verdict' = verdict
    BY <1>8 DEF CheckOverlap
  <2>3. QED
    BY <1>1, <1>2, <1>3, <1>4, <2>1, <2>2 DEF RolloutInv
<1>9. CASE LoadSeries
  <2>1. failures' = {} => failures = {} /\ ~Unreadable(rollout.prediction) /\ ~Unreadable(rollout.holdout)
    BY <1>9 DEF LoadSeries
  <2>2. phase = "series" /\ verdict' = verdict
    BY <1>9 DEF LoadSeries
  <2>3. /\ phase' \in {"conclude", "align"}
        /\ phase' = "conclude" =>
             ~NoneGone \/ Unreadable(rollout.prediction) \/ Unreadable(rollout.holdout)
    BY <1>9 DEF LoadSeries, NoneGone
  <2>4. QED
    BY <1>1, <1>2, <1>3, <1>4, <2>1, <2>2, <2>3 DEF RolloutInv
<1>10. CASE Align
  <2>1. failures' = {} => failures = {} /\ Gaps = {}
    BY <1>10 DEF Align, If
  <2>2. /\ phase = "align" /\ verdict' = verdict
        /\ phase' = IF Gaps # {} THEN "conclude" ELSE "measure"
    BY <1>10 DEF Align
  <2>3. QED
    BY <1>1, <1>2, <1>3, <1>4, <2>1, <2>2 DEF RolloutInv
<1>11. CASE Measure
  <2>1. failures' = {} => failures = {} /\ Close
    BY <1>11 DEF Measure, Exceeded, If, Close
  <2>2. phase = "measure" /\ phase' = "conclude" /\ verdict' = verdict
    BY <1>11 DEF Measure
  <2>3. QED
    BY <1>1, <1>2, <1>3, <1>4, <2>1, <2>2 DEF RolloutInv
<1>12. CASE ConcludeRollout
  <2>1. /\ phase = "conclude" /\ phase' = "done"
        /\ verdict' = "pass" => failures = {}
    BY <1>12 DEF ConcludeRollout
  <2>2. QED
    BY <1>1, <1>2, <1>3, <1>4, <2>1 DEF RolloutInv, Earned
<1>13. QED
  BY <1>1, <1>5, <1>6, <1>7, <1>8, <1>9, <1>10, <1>11, <1>12
     DEF EvidenceNext, WeighSamples, WeighPrediction, RolloutNext, evidenceVars

-----------------------------------------------------------------------------
(* Each valid point has a place: counting those before it, they are 0, 1,  *)
(* 2 and so on.                                                            *)
LEMMA PlaceExists ==
  ASSUME NEW S, S \subseteq Int, IsFiniteSet(S), NEW n \in 1 .. Cardinality(S)
  PROVE  \E k \in S : Cardinality({j \in S : j < k}) = n - 1
<1> DEFINE Before(k) == {j \in S : j < k}
           last == Cardinality(S) - 1
           ranks == 0 .. last
           r == [k \in S |-> Cardinality(Before(k))]
<1>1. Cardinality(S) \in Nat
  BY FS_CardinalityType
<1>2. ASSUME NEW k \in S
      PROVE  IsFiniteSet(Before(k)) /\ Cardinality(Before(k)) \in ranks
  <2>1. Before(k) \in SUBSET S /\ k \notin Before(k)
    OBVIOUS
  <2> HIDE DEF Before
  <2>2. IsFiniteSet(Before(k)) /\ Cardinality(Before(k)) <= Cardinality(S)
    BY <2>1, FS_Subset
  <2>3. Cardinality(Before(k)) # Cardinality(S)
    BY <2>1, FS_Subset
  <2>4. Cardinality(Before(k)) \in Nat
    BY <2>2, FS_CardinalityType
  <2>5. QED
    BY <1>1, <2>2, <2>3, <2>4
<1>3. ASSUME NEW j \in S, NEW k \in S, j < k PROVE r[j] # r[k]
  <2>0. j \in Before(k) /\ j \notin Before(j) /\ \A i \in Before(j) : i \in Before(k)
    BY <1>3
  <2>1. Before(j) \in SUBSET Before(k) /\ j \in Before(k) /\ j \notin Before(j)
    <3> HIDE DEF Before
    <3>1. QED
      BY <2>0
  <2>2. r[j] = Cardinality(Before(j)) /\ r[k] = Cardinality(Before(k))
    OBVIOUS
  <2> HIDE DEF Before, r
  <2>3. Cardinality(Before(j)) # Cardinality(Before(k))
    BY <1>2, <2>1, FS_Subset
  <2>4. QED
    BY <2>2, <2>3
<1>4. r \in Injection(S, ranks)
  <2>1. r \in [S -> ranks]
    BY <1>2
  <2>2. \A j, k \in S : j # k => j < k \/ k < j
    OBVIOUS
  <2> HIDE DEF r, ranks
  <2>3. \A j, k \in S : r[j] = r[k] => j = k
    BY <1>3, <2>2
  <2>4. QED
    BY <2>1, <2>3 DEF Injection, IsInjective
<1>5. IsFiniteSet(ranks) /\ Cardinality(ranks) = Cardinality(S)
  <2>1. last \in Int /\ Cardinality(S) = IF 0 > last THEN 0 ELSE last - 0 + 1
    BY <1>1
  <2> HIDE DEF last
  <2>2. QED
    BY <2>1, FS_Interval
<1>6. r \in Surjection(S, ranks)
  <2> HIDE DEF r, ranks
  <2>1. QED
    BY <1>4, <1>5, FS_Injection
<1>7. n - 1 \in ranks
  BY <1>1
<1>8. \E k \in S : r[k] = n - 1
  <2> HIDE DEF r, ranks
  <2>1. QED
    BY <1>6, <1>7 DEF Surjection
<1>9. QED
  BY <1>8

LEMMA ValidPointsAre ==
  ASSUME NEW points, Numeric(points)
  PROVE  /\ Len(ValidPoints(points)) \in Nat
         /\ DOMAIN ValidPoints(points) = 1 .. Len(ValidPoints(points))
         /\ \A n \in DOMAIN ValidPoints(points) :
              \E k \in DOMAIN points : ValidPoints(points)[n] = points[k]
<1> DEFINE S == ValidIn(points)
<1>1. Len(points) \in Nat /\ DOMAIN points = 1 .. Len(points)
  BY DEF Numeric
<1>2. S \in SUBSET DOMAIN points /\ S \subseteq Int
  BY <1>1 DEF ValidIn
<1>3. IsFiniteSet(S) /\ Cardinality(S) \in Nat
  <2>1. IsFiniteSet(1 .. Len(points))
    BY <1>1, FS_Interval
  <2> HIDE DEF S
  <2>2. QED
    BY <1>1, <1>2, <2>1, FS_Subset, FS_CardinalityType
<1>4. \A n \in 1 .. Cardinality(S) : ValidPlace(points, n) \in S
  <2>1. SUFFICES ASSUME NEW n \in 1 .. Cardinality(S) PROVE ValidPlace(points, n) \in S
    OBVIOUS
  <2>2. \E k \in S : Cardinality({j \in S : j < k}) = n - 1
    <3> HIDE DEF S
    <3>1. QED
      BY <1>2, <1>3, <2>1, PlaceExists
  <2>3. QED
    BY <2>2 DEF ValidPlace
<1>5. /\ DOMAIN ValidPoints(points) = 1 .. Cardinality(S)
      /\ \A n \in 1 .. Cardinality(S) : ValidPoints(points)[n] = points[ValidPlace(points, n)]
  BY DEF ValidPoints
<1>6. Len(ValidPoints(points)) = Cardinality(S)
  <2> HIDE DEF S
  <2>1. QED
    BY <1>3, <1>5
<1>7. QED
  <2> HIDE DEF S
  <2>1. QED
    BY <1>2, <1>3, <1>4, <1>5, <1>6

-----------------------------------------------------------------------------
(* What it means that two series have no gaps.                             *)
LEMMA GivenPlan == (\E t \in Task : rollout = t.plan) => WellFormedPlan(rollout)
BY EvidenceAssumption

LEMMA NoGaps ==
  ASSUME Gaps = {}
  PROVE  /\ Len(Predicted) = rollout.horizon /\ Len(Observed) = rollout.horizon
         /\ ~Untimed(Observed) /\ Clock(Predicted) = Times
         /\ Times # <<>> => ClockGaps = {} /\ ~(Times[1] # 0 /\ Times[1] <= rollout.trainingEnd)
         /\ \A t \in rollout.targets : TargetGaps(t) = {}
<1>1. /\ {Len(Predicted), Len(Observed)} = {rollout.horizon}
      /\ ~Untimed(Predicted) /\ ~Untimed(Observed)
      /\ ~(~Untimed(Predicted) /\ ~Untimed(Observed) /\ Clock(Predicted) # Times)
      /\ ~(Times # <<>> /\ Times[1] # 0 /\ Times[1] <= rollout.trainingEnd)
      /\ (IF Times # <<>> /\ ~Untimed(Observed) THEN ClockGaps ELSE {}) = {}
  BY DEF Gaps, GapIf
<1>2. UNION {TargetGaps(t) : t \in rollout.targets} = {}
  BY DEF Gaps
<1>3. \A t \in rollout.targets : TargetGaps(t) = {}
  BY <1>2
<1>4. QED
  BY <1>1, <1>3

Aligned ==
  /\ rollout.horizon \in Nat /\ rollout.horizon >= 2
  /\ Len(Observed) = rollout.horizon
  /\ Steps = 1 .. rollout.horizon /\ DOMAIN Predicted = 1 .. rollout.horizon
  /\ \A k \in Steps : Times[k] = Observed[k].time /\ Times[k] \in Int /\ Predicted[k].time = Times[k]

LEMMA SeriesAlign ==
  ASSUME WellFormedPlan(rollout), Gaps = {}
  PROVE  Aligned
<1>1. rollout.horizon \in Nat /\ rollout.horizon >= 2
  BY DEF WellFormedPlan
<1>2. Len(Predicted) = rollout.horizon /\ Len(Observed) = rollout.horizon /\ Clock(Predicted) = Times
  BY NoGaps
<1>3. Numeric(rollout.predicted.points) /\ Numeric(rollout.observed.points)
  BY DEF WellFormedPlan
<1>4. DOMAIN Predicted = 1 .. rollout.horizon
  BY <1>2, <1>3, ValidPointsAre DEF Predicted
<1>5. /\ DOMAIN Observed = 1 .. rollout.horizon
      /\ \A k \in DOMAIN Observed : Observed[k].time \in Int
  BY <1>2, <1>3, ValidPointsAre DEF Observed, Numeric
<1>6. \A k \in 1 .. rollout.horizon : Times[k] = Observed[k].time
  BY <1>5 DEF Times, Clock
<1>7. \A k \in 1 .. rollout.horizon : Clock(Predicted)[k] = Predicted[k].time
  BY <1>4 DEF Clock
<1>8. QED
  BY <1>1, <1>2, <1>4, <1>5, <1>6, <1>7 DEF Aligned, Steps

LEMMA StepsAreFinite == Aligned => IsFiniteSet(Steps) /\ IsFiniteSet(DOMAIN Predicted)
<1>1. SUFFICES ASSUME Aligned PROVE IsFiniteSet(Steps) /\ IsFiniteSet(DOMAIN Predicted)
  OBVIOUS
<1>2. IsFiniteSet(1 .. rollout.horizon)
  BY <1>1, FS_Interval DEF Aligned
<1>3. QED
  BY <1>1, <1>2 DEF Aligned

(* The clock runs in steps of the declared size, from after the training.  *)
LEMMA ClockRuns ==
  ASSUME WellFormedPlan(rollout), Gaps = {}, NEW k \in Steps
  PROVE  /\ Times[k] = Times[1] + (k - 1) * rollout.stepSize
         /\ Times[k] > rollout.trainingEnd
<1> DEFINE h == rollout.horizon
           d == rollout.stepSize
<1>1. d \in Nat \ {0} /\ rollout.trainingEnd \in Int
  BY DEF WellFormedPlan
<1>2. Aligned
  BY SeriesAlign
<1>3. h \in Nat /\ h >= 2 /\ 1 \in Steps /\ Steps = 1 .. h
  BY <1>2 DEF Aligned
<1>4. DOMAIN Times = 1 .. h /\ Len(Times) = h /\ Times # <<>>
  <2>1. Times = [j \in 1 .. h |-> Observed[j].time]
    BY <1>3 DEF Times, Clock, Steps
  <2> HIDE DEF h
  <2>2. DOMAIN Times = 1 .. h /\ Len(Times) = h
    BY <1>3, <2>1
  <2>3. QED
    BY <1>3, <2>2
<1>5. \A j \in 1 .. h - 1 : Times[j + 1] - Times[j] = d
  <2> DEFINE steps == {Times[j + 1] - Times[j] : j \in 1 .. Len(Times) - 1}
  <2>1. ClockGaps = {}
    BY <1>4, NoGaps
  <2>2. steps = {rollout.stepSize}
    <3>1. ClockGaps = IF Len(Times) < 2 THEN {"horizon_too_short"}
                      ELSE IF \E x \in steps : x <= 0 THEN {"timestamps_not_strictly_increasing"}
                      ELSE IF steps # {rollout.stepSize} THEN {"step_size_mismatch"} ELSE {}
      BY DEF ClockGaps
    <3> HIDE DEF steps
    <3>2. QED
      BY <2>1, <3>1
  <2>3. \A j \in 1 .. h - 1 : Times[j + 1] - Times[j] \in steps
    BY <1>4
  <2> HIDE DEF steps
  <2>4. QED
    BY <2>2, <2>3
<1>6. \A j \in 1 .. h : Times[j] \in Int
  BY <1>2, <1>3 DEF Aligned
<1>7. Times[1] > rollout.trainingEnd
  <2>1. Times[1] # 0
    BY <1>2, <1>3, NoGaps DEF Untimed, Aligned, Steps
  <2>2. QED
    BY <1>1, <1>3, <1>4, <1>6, <2>1, NoGaps
<1> HIDE DEF h, d
<1>8. \A n \in Nat : n < h => Times[n + 1] = Times[1] + n * d
  <2> DEFINE S == {n \in Nat : n < h => Times[n + 1] = Times[1] + n * d}
  <2>1. 0 \in S
    BY <1>1, <1>3, <1>6
  <2>2. ASSUME NEW n \in S PROVE n + 1 \in S
    <3>1. SUFFICES ASSUME n + 1 < h PROVE Times[n + 2] = Times[1] + (n + 1) * d
      OBVIOUS
    <3>2. n \in Nat /\ Times[n + 1] = Times[1] + n * d
      BY <1>3, <3>1
    <3>3. Times[n + 2] - Times[n + 1] = d
      <4>1. n + 1 \in 1 .. h - 1 /\ (n + 1) + 1 = n + 2
        BY <1>3, <3>1, <3>2
      <4>2. QED
        BY <1>5, <4>1
    <3>4. Times[n + 2] \in Int /\ Times[n + 1] \in Int /\ Times[1] \in Int
      BY <1>3, <1>6, <3>1, <3>2
    <3>5. n * d \in Int /\ (n + 1) * d = n * d + d
      BY <1>1, <3>2
    <3>6. QED
      BY <1>1, <3>2, <3>3, <3>4, <3>5
  <2>3. S \subseteq Nat
    OBVIOUS
  <2>4. \A n \in S : n + 1 \in S
    BY <2>2
  <2> HIDE DEF S
  <2>5. S = Nat
    BY <2>1, <2>3, <2>4, AllNumbers
  <2>6. QED
    BY <2>5 DEF S
<1>9. k - 1 \in Nat /\ k - 1 < h /\ (k - 1) + 1 = k
  BY <1>3
<1>10. Times[k] = Times[1] + (k - 1) * d
  BY <1>8, <1>9
<1>11. (k - 1) * d >= 0
  BY <1>1, <1>9
<1>12. Times[k] > rollout.trainingEnd
  <2>1. Times[1] \in Int /\ (k - 1) * d \in Int
    BY <1>1, <1>3, <1>6, <1>9
  <2>2. QED
    BY <1>1, <1>7, <1>10, <1>11, <2>1
<1>13. QED
  BY <1>10, <1>12 DEF d

(* Every target is there at each step, in one unit.                        *)
LEMMA TargetsAgree ==
  ASSUME WellFormedPlan(rollout), Gaps = {}, NEW t \in rollout.targets, NEW k \in Steps
  PROVE  /\ Predicted[k].units[t] = Observed[1].units[t] /\ ErrorAt(k, t) \in Int
         /\ Predicted[k].values[t] \in Int /\ Observed[k].values[t] \in Int
<1>1. Aligned
  BY SeriesAlign
<1>2. /\ ~Lacks(Predicted, t) /\ ~Lacks(Observed, t)
      /\ Cardinality(UnitsOf(Predicted, t)) = 1 /\ UnitsOf(Predicted, t) = UnitsOf(Observed, t)
  <2>1. TargetGaps(t) = {}
    BY NoGaps
  <2>2. QED
    BY <2>1 DEF TargetGaps, GapIf
<1>3. k \in DOMAIN Predicted /\ k \in DOMAIN Observed /\ 1 \in DOMAIN Observed
  BY <1>1 DEF Aligned, Steps
<1>4. Predicted[k].units[t] = Observed[1].units[t]
  <2>1. IsFiniteSet(UnitsOf(Predicted, t))
    <3> DEFINE f == [j \in DOMAIN Predicted |-> Predicted[j].units[t]]
    <3>1. f \in Surjection(DOMAIN Predicted, UnitsOf(Predicted, t))
      BY DEF Surjection, UnitsOf
    <3>2. IsFiniteSet(DOMAIN Predicted)
      BY <1>1, StepsAreFinite
    <3> HIDE DEF f
    <3>3. QED
      BY <3>1, <3>2, FS_Surjection
  <2>2. PICK u : UnitsOf(Predicted, t) = {u}
    BY <1>2, <2>1, FS_Singleton
  <2>3. Predicted[k].units[t] \in UnitsOf(Predicted, t) /\ Observed[1].units[t] \in UnitsOf(Observed, t)
    BY <1>3 DEF UnitsOf
  <2>4. QED
    BY <1>2, <2>2, <2>3
<1>5. Predicted[k].values[t] \in Int /\ Observed[k].values[t] \in Int
  <2>1. Numeric(rollout.predicted.points) /\ Numeric(rollout.observed.points)
    BY DEF WellFormedPlan
  <2>2. t \in DOMAIN Predicted[k].values /\ t \in DOMAIN Observed[k].values
    BY <1>2, <1>3 DEF Lacks
  <2>3. PICK i \in DOMAIN rollout.predicted.points : Predicted[k] = rollout.predicted.points[i]
    BY <1>3, <2>1, ValidPointsAre DEF Predicted
  <2>4. PICK j \in DOMAIN rollout.observed.points : Observed[k] = rollout.observed.points[j]
    BY <1>3, <2>1, ValidPointsAre DEF Observed
  <2>5. QED
    BY <2>1, <2>2, <2>3, <2>4 DEF Numeric
<1>6. QED
  BY <1>4, <1>5 DEF ErrorAt

(* The worst of the steps bounds each of them, at each target.             *)
LEMMA WorstBounds ==
  ASSUME WellFormedPlan(rollout), Gaps = {}, Close, NEW k \in Steps, NEW t \in rollout.targets
  PROVE  Distance(ErrorAt(k, t), 0) <= rollout.maxWorst
<1> DEFINE apart(j) == {Distance(ErrorAt(j, x), 0) : x \in rollout.targets}
           errors == {StepError(j) : j \in Steps}
<1>1. \A a \in Int : Distance(a, 0) \in Int
  BY DEF Distance, Larger
<1>2. ASSUME NEW j \in Steps
      PROVE  StepError(j) \in Int /\ \A y \in apart(j) : y \in Int /\ y <= StepError(j)
  <2>1. apart(j) \subseteq Int
    BY <1>1, TargetsAgree
  <2>2. IsFiniteSet(apart(j))
    <3> DEFINE f == [x \in rollout.targets |-> Distance(ErrorAt(j, x), 0)]
    <3>1. f \in Surjection(rollout.targets, apart(j))
      BY DEF Surjection
    <3>2. IsFiniteSet(rollout.targets)
      BY DEF WellFormedPlan
    <3> HIDE DEF f, apart
    <3>3. QED
      BY <3>1, <3>2, FS_Surjection
  <2>3. apart(j) # {}
    OBVIOUS
  <2>4. StepError(j) = Max(apart(j))
    BY DEF StepError
  <2> HIDE DEF apart
  <2>5. QED
    BY <2>1, <2>2, <2>3, <2>4, MaxOf
<1>3. errors \subseteq Int /\ errors # {}
  BY <1>2
<1>4. IsFiniteSet(errors)
  <2> DEFINE f == [j \in Steps |-> StepError(j)]
  <2>1. f \in Surjection(Steps, errors)
    BY DEF Surjection
  <2>2. IsFiniteSet(Steps)
    BY SeriesAlign, StepsAreFinite
  <2> HIDE DEF f, errors
  <2>3. QED
    BY <2>1, <2>2, FS_Surjection
<1>5. StepError(k) \in errors /\ Worst = Max(errors)
  BY DEF Worst
<1>6. Distance(ErrorAt(k, t), 0) \in apart(k)
  OBVIOUS
<1> HIDE DEF apart, errors
<1>7. Worst \in Int /\ StepError(k) <= Worst
  BY <1>3, <1>4, <1>5, MaxOf
<1>8. Worst <= rollout.maxWorst
  BY <1>7 DEF Close, WellFormedPlan
<1>9. rollout.maxWorst \in Int
  BY DEF WellFormedPlan
<1>10. QED
  BY <1>2, <1>6, <1>7, <1>8, <1>9

(* For any plan, a rollout passes only on files that are all there, on a   *)
(* holdout that shares no path, content or case with the training, and     *)
(* only if each of its steps comes after the training, at the declared     *)
(* step size, in one unit and within the worst error allowed               *)
(* (core/predictive_rollout.py, evaluate_predictive_rollout).              *)
THEOREM PassesAreIndependent == EvidenceSpec => []PassIsIndependent
<1>1. RolloutInv => PassIsIndependent
  <2>1. SUFFICES ASSUME RolloutInv, verdict = "pass" PROVE PassIsIndependent
    BY DEF PassIsIndependent
  <2>2. WellFormedPlan(rollout) /\ NoneGone /\ ~Overlap /\ Gaps = {} /\ Close
    BY <2>1, GivenPlan DEF RolloutInv, Earned
  <2>3. Aligned
    BY <2>2, SeriesAlign
  <2>4. ASSUME NEW t \in rollout.training
        PROVE  /\ t.path # rollout.holdout.path
               /\ rollout.content[t.path] # rollout.content[rollout.holdout.path]
               /\ t.cases \cap rollout.holdout.cases = {}
    <3>1. ~Gone(t) /\ ~Gone(rollout.holdout)
      BY <2>2 DEF NoneGone, Declared
    <3>2. ~SharesContent(t, rollout.holdout)
      BY <2>2 DEF Overlap
    <3>3. QED
      BY <2>2, <3>1, <3>2 DEF Overlap, SharesContent
  <2>5. ASSUME NEW k \in Steps
        PROVE  /\ Times[k] > rollout.trainingEnd
               /\ Predicted[k].time = Times[1] + (k - 1) * rollout.stepSize
    BY <2>2, <2>3, ClockRuns DEF Aligned
  <2>6. ASSUME NEW k \in Steps, NEW t \in rollout.targets
        PROVE  /\ Distance(ErrorAt(k, t), 0) <= rollout.maxWorst
               /\ Predicted[k].units[t] = Observed[1].units[t]
    BY <2>2, WorstBounds, TargetsAgree
  <2>7. Len(Observed) = rollout.horizon /\ \A f \in Declared : ~Gone(f)
    BY <2>2, <2>3 DEF Aligned, NoneGone
  <2>8. QED
    BY <2>4, <2>5, <2>6, <2>7 DEF PassIsIndependent
<1>2. QED
  BY <1>1, RolloutStarts, RolloutStep, PTL DEF EvidenceSpec


-----------------------------------------------------------------------------
(* A sum of natural numbers: the recursive function it is read from        *)
(* exists, and is 0 only where all of them are.                            *)
Some(s) == CHOOSE x \in s : TRUE
SumsUp(sums, f, sets) ==
  sums = [s \in sets |-> IF s = {} THEN 0 ELSE f[Some(s)] + sums[s \ {Some(s)}]]

LEMMA SumIsRead ==
  ASSUME NEW f
  PROVE  SumFunction(f) = (CHOOSE sums : SumsUp(sums, f, SUBSET DOMAIN f))[DOMAIN f]
BY DEF SumFunction, SumFunctionOnSet, FoldFunctionOnSet, MapThenFoldSet, SumsUp, Some

LEMMA OneLess ==
  ASSUME NEW s, IsFiniteSet(s), s # {}
  PROVE  /\ Some(s) \in s /\ IsFiniteSet(s \ {Some(s)})
         /\ Cardinality(s \ {Some(s)}) = Cardinality(s) - 1 /\ Cardinality(s) \in Nat \ {0}
<1>1. Some(s) \in s
  BY DEF Some
<1>2. QED
  BY <1>1, FS_RemoveElement, FS_CardinalityType, FS_EmptySet

LEMMA SumsExist ==
  ASSUME NEW f, IsFiniteSet(DOMAIN f)
  PROVE  \E sums : SumsUp(sums, f, SUBSET DOMAIN f)
<1> DEFINE Upto(m) == {s \in SUBSET DOMAIN f : Cardinality(s) <= m}
           M == {m \in Nat : \E sums : SumsUp(sums, f, Upto(m))}
<1>1. \A s \in SUBSET DOMAIN f : IsFiniteSet(s) /\ Cardinality(s) \in Nat /\ Cardinality(s) <= Cardinality(DOMAIN f)
  BY FS_Subset, FS_CardinalityType
<1>2. 0 \in M
  <2> DEFINE g == [s \in Upto(0) |-> 0]
  <2>1. \A s \in Upto(0) : s = {}
    BY <1>1, FS_EmptySet
  <2>2. SumsUp(g, f, Upto(0))
    <3> HIDE DEF Upto
    <3>1. QED
      BY <2>1 DEF SumsUp
  <2>3. QED
    BY <2>2
<1>3. ASSUME NEW m \in M PROVE m + 1 \in M
  <2>1. PICK g : SumsUp(g, f, Upto(m))
    OBVIOUS
  <2>2. m \in Nat
    OBVIOUS
  <2> DEFINE h == [s \in Upto(m + 1) |->
                     IF s \in Upto(m) THEN g[s] ELSE f[Some(s)] + g[s \ {Some(s)}]]
  <2>3. ASSUME NEW s \in Upto(m + 1), s # {} PROVE s \ {Some(s)} \in Upto(m) /\ s \ {Some(s)} \in Upto(m + 1)
    <3>1. IsFiniteSet(s) /\ Cardinality(s) \in Nat
      BY <1>1
    <3>2. Cardinality(s \ {Some(s)}) = Cardinality(s) - 1
      BY <2>3, <3>1, OneLess
    <3>3. QED
      BY <2>2, <3>1, <3>2
  <2>4. {} \in Upto(m)
    BY <2>2, FS_EmptySet
  <2>5. h = [s \in Upto(m + 1) |-> IF s = {} THEN 0 ELSE f[Some(s)] + h[s \ {Some(s)}]]
    <3>1. ASSUME NEW s \in Upto(m + 1)
          PROVE  h[s] = IF s = {} THEN 0 ELSE f[Some(s)] + h[s \ {Some(s)}]
      <4>1. CASE s \in Upto(m)
        <5>1. g[s] = IF s = {} THEN 0 ELSE f[Some(s)] + g[s \ {Some(s)}]
          <6> HIDE DEF Upto
          <6>1. QED
            BY <2>1, <4>1 DEF SumsUp
        <5> HIDE DEF Upto
        <5>2. QED
          BY <2>3, <4>1, <5>1
      <4>2. CASE s \notin Upto(m)
        <5> HIDE DEF Upto
        <5>1. QED
          BY <2>3, <2>4, <4>2
      <4>3. QED
        BY <4>1, <4>2
    <3> HIDE DEF Upto
    <3>2. QED
      BY <3>1
  <2>6. SumsUp(h, f, Upto(m + 1))
    <3> HIDE DEF h, Upto
    <3>1. QED
      BY <2>5 DEF SumsUp
  <2>7. QED
    <3> HIDE DEF h, Upto
    <3>1. QED
      BY <2>2, <2>6
<1>4. Cardinality(DOMAIN f) \in M
  <2>1. M \subseteq Nat /\ \A m \in M : m + 1 \in M
    BY <1>3
  <2> HIDE DEF M
  <2>2. M = Nat
    BY <1>2, <2>1, AllNumbers
  <2>3. QED
    BY <2>2, FS_CardinalityType
<1>5. Upto(Cardinality(DOMAIN f)) = SUBSET DOMAIN f
  BY <1>1
<1>6. QED
  <2> HIDE DEF Upto
  <2>1. QED
    BY <1>4, <1>5

LEMMA SumOfNaturals ==
  ASSUME NEW f, IsFiniteSet(DOMAIN f), \A x \in DOMAIN f : f[x] \in Nat
  PROVE  SumFunction(f) \in Nat /\ (SumFunction(f) = 0 <=> \A x \in DOMAIN f : f[x] = 0)
<1> DEFINE sums == CHOOSE g : SumsUp(g, f, SUBSET DOMAIN f)
           Right(s) == sums[s] \in Nat /\ (sums[s] = 0 <=> \A x \in s : f[x] = 0)
           M == {m \in Nat : \A s \in SUBSET DOMAIN f : Cardinality(s) = m => Right(s)}
<1>1. SumsUp(sums, f, SUBSET DOMAIN f)
  BY SumsExist
<1>2. SumFunction(f) = sums[DOMAIN f]
  BY SumIsRead
<1> HIDE DEF sums
<1>3. \A s \in SUBSET DOMAIN f : sums[s] = IF s = {} THEN 0 ELSE f[Some(s)] + sums[s \ {Some(s)}]
  BY <1>1 DEF SumsUp
<1>4. \A s \in SUBSET DOMAIN f : IsFiniteSet(s) /\ Cardinality(s) \in Nat
  BY FS_Subset, FS_CardinalityType
<1>5. 0 \in M
  <2>1. \A s \in SUBSET DOMAIN f : Cardinality(s) = 0 => s = {}
    BY <1>4, FS_EmptySet
  <2>2. ASSUME NEW s \in SUBSET DOMAIN f, Cardinality(s) = 0 PROVE Right(s)
    <3>1. s = {}
      BY <2>1, <2>2
    <3>2. sums[s] = 0
      BY <1>3, <3>1
    <3>3. QED
      BY <3>1, <3>2
  <2> HIDE DEF Right
  <2>3. QED
    BY <2>2
<1>6. ASSUME NEW m \in M PROVE m + 1 \in M
  <2>0. m \in Nat
    OBVIOUS
  <2>1. SUFFICES ASSUME NEW s \in SUBSET DOMAIN f, Cardinality(s) = m + 1 PROVE Right(s)
    <3> HIDE DEF Right
    <3>1. QED
      BY <2>0
  <2>2. s # {}
    <3>1. Cardinality(s) # 0
      BY <2>0, <2>1
    <3>2. QED
      BY <3>1, FS_EmptySet
  <2> DEFINE x == Some(s)
             rest == s \ {x}
  <2>3. x \in s /\ Cardinality(rest) = m /\ rest \in SUBSET DOMAIN f
    BY <1>4, <2>1, <2>2, OneLess
  <2>4. sums[s] = f[x] + sums[rest]
    BY <1>3, <2>2
  <2> HIDE DEF Right, x
  <2>5. Right(rest)
    BY <2>0, <2>3
  <2>6. f[x] \in Nat
    BY <2>3
  <2>7. (\A y \in s : f[y] = 0) <=> f[x] = 0 /\ \A y \in rest : f[y] = 0
    BY <2>3
  <2> HIDE DEF rest
  <2>8. QED
    BY <2>4, <2>5, <2>6, <2>7 DEF Right
<1>7. M = Nat
  <2>1. M \subseteq Nat /\ \A m \in M : m + 1 \in M
    BY <1>6
  <2> HIDE DEF M
  <2>2. QED
    BY <1>5, <2>1, AllNumbers
<1>8. Right(DOMAIN f)
  <2>1. Cardinality(DOMAIN f) \in M
    <3> HIDE DEF M
    <3>1. QED
      BY <1>4, <1>7
  <2> HIDE DEF Right
  <2>2. QED
    BY <2>1
<1>9. QED
  BY <1>2, <1>8

-----------------------------------------------------------------------------
(* A perfect prediction, of targets that do not repeat themselves, fits    *)
(* best where it is not shifted.                                           *)
LEMMA SquareIsNatural ==
  ASSUME NEW d \in Int
  PROVE  d * d \in Nat /\ (d * d = 0 <=> d = 0)
<1>1. CASE d >= 0
  BY <1>1
<1>2. CASE d < 0
  <2>1. -d \in Nat /\ (-d) * (-d) = d * d
    BY <1>2
  <2>2. QED
    BY <1>2, <2>1
<1>3. QED
  BY <1>1, <1>2

LEMMA ErrorSumIs ==
  ASSUME WellFormedPlan(rollout), Gaps = {}, NEW t \in rollout.targets, NEW s \in Int
  PROVE  /\ Cardinality(Overlapping(s)) \in Nat /\ ErrorSum(t, s) \in Nat
         /\ ErrorSum(t, s) = 0 <=>
              \A k \in Overlapping(s) : Predicted[k].values[t] = Observed[k + s].values[t]
<1> DEFINE f == [k \in Overlapping(s) |-> SquareError(t, k, s)]
<1>1. IsFiniteSet(Overlapping(s)) /\ Cardinality(Overlapping(s)) \in Nat
  <2>1. IsFiniteSet(Steps)
    BY SeriesAlign, StepsAreFinite
  <2>2. Overlapping(s) \in SUBSET Steps
    BY DEF Overlapping
  <2>3. QED
    BY <2>1, <2>2, FS_Subset, FS_CardinalityType
<1>2. ASSUME NEW k \in Overlapping(s)
      PROVE  /\ SquareError(t, k, s) \in Nat
             /\ SquareError(t, k, s) = 0 <=> Predicted[k].values[t] = Observed[k + s].values[t]
  <2>1. Predicted[k].values[t] \in Int /\ Observed[k + s].values[t] \in Int
    BY TargetsAgree DEF Overlapping
  <2> DEFINE d == Predicted[k].values[t] - Observed[k + s].values[t]
  <2>2. d \in Int /\ (d = 0 <=> Predicted[k].values[t] = Observed[k + s].values[t])
    BY <2>1
  <2>3. SquareError(t, k, s) = d * d
    BY DEF SquareError
  <2> HIDE DEF d
  <2>4. QED
    BY <2>2, <2>3, SquareIsNatural
<1>3. /\ DOMAIN f = Overlapping(s)
      /\ \A k \in Overlapping(s) : f[k] \in Nat /\ f[k] = SquareError(t, k, s)
  BY <1>2
<1>4. ErrorSum(t, s) = SumFunction(f)
  BY DEF ErrorSum
<1> HIDE DEF f
<1>5. SumFunction(f) \in Nat /\ (SumFunction(f) = 0 <=> \A k \in DOMAIN f : f[k] = 0)
  BY <1>1, <1>3, SumOfNaturals
<1>6. QED
  BY <1>1, <1>2, <1>3, <1>4, <1>5

LEMMA OfZero == Max({0}) = 0 /\ Min({0}) = 0
<1> DEFINE zero == {0}
<1>1. IsFiniteSet(zero) /\ zero \subseteq Int /\ zero # {} /\ \A n \in zero : n = 0
  BY FS_Singleton
<1> HIDE DEF zero
<1>2. Max(zero) \in zero /\ Min(zero) \in zero
  BY <1>1, MaxOf, MinOf
<1>3. QED
  BY <1>1, <1>2 DEF zero

LEMMA NoShiftFits ==
  ASSUME WellFormedPlan(rollout), Perfect, NEW t \in rollout.targets
  PROVE  BestLag(t) = 0
<1> DEFINE h == rollout.horizon
           best == {s \in Shifts : \A z \in Shifts : FitsNoWorse(t, s, z)}
<1>1. Gaps = {} /\ Aligned /\ ~RepeatsItself(t) /\ \A k \in Steps : ErrorAt(k, t) = 0
  BY SeriesAlign DEF Perfect
<1>2. /\ h \in Nat /\ h >= 2 /\ Len(Observed) = h /\ Steps = 1 .. h
      /\ rollout.maxLag \in Nat
  BY <1>1 DEF Aligned, WellFormedPlan
<1>3. /\ LagLimit = Smaller(rollout.maxLag + 3, h - 2) /\ LagLimit \in Nat /\ LagLimit <= h - 2
      /\ 0 \in Shifts /\ Shifts \subseteq Int
  BY <1>2 DEF LagLimit, Smaller, Larger, Shifts
<1>4. \A k \in Steps :
        /\ Predicted[k].values[t] \in Int /\ Observed[k].values[t] \in Int
        /\ Predicted[k].values[t] = Observed[k].values[t]
  BY <1>1, TargetsAgree DEF ErrorAt
<1>5. ErrorSum(t, 0) = 0 /\ Cardinality(Overlapping(0)) \in Nat \ {0}
  <2>1. Overlapping(0) = Steps
    BY <1>2 DEF Overlapping
  <2>2. \A k \in Steps : k + 0 = k
    BY <1>2
  <2>3. ErrorSum(t, 0) = 0 /\ Cardinality(Overlapping(0)) \in Nat
    BY <1>1, <1>4, <2>1, <2>2, ErrorSumIs
  <2>4. Cardinality(Steps) = h
    BY <1>2, FS_Interval
  <2>5. QED
    BY <1>2, <2>1, <2>3, <2>4
<1>6. ASSUME NEW s \in Shifts, s # 0 PROVE ErrorSum(t, s) \in Nat \ {0}
  <2> DEFINE n == IF s > 0 THEN s ELSE -s
  <2>1. s \in Int /\ n \in 1 .. LagLimit
    BY <1>3, <1>6 DEF Shifts
  <2>2. PICK k \in 1 .. h - n : Observed[k].values[t] # Observed[k + n].values[t]
    BY <1>1, <1>2, <1>3, <2>1 DEF RepeatsItself
  <2>3. k \in Steps /\ k + n \in Steps /\ k \in Int
    BY <1>2, <1>3, <2>1, <2>2
  <2>4. \E j \in Overlapping(s) : Predicted[j].values[t] # Observed[j + s].values[t]
    <3>1. CASE s > 0
      BY <1>4, <2>1, <2>2, <2>3, <3>1 DEF Overlapping
    <3>2. CASE ~(s > 0)
      <4>1. (k + n) + s = k
        BY <2>1, <2>3, <3>2
      <4>2. k + n \in Overlapping(s)
        BY <2>3, <4>1 DEF Overlapping
      <4>3. Predicted[k + n].values[t] # Observed[(k + n) + s].values[t]
        BY <1>4, <2>2, <2>3, <4>1
      <4>4. QED
        BY <4>2, <4>3
    <3>3. QED
      BY <3>1, <3>2
  <2>5. QED
    BY <1>1, <2>1, <2>4, ErrorSumIs
<1>7. best = {0}
  <2>1. \A s \in Shifts : Cardinality(Overlapping(s)) \in Nat /\ ErrorSum(t, s) \in Nat
    BY <1>1, <1>3, ErrorSumIs
  <2>2. \A z \in Shifts : FitsNoWorse(t, 0, z)
    <3>1. SUFFICES ASSUME NEW z \in Shifts PROVE FitsNoWorse(t, 0, z)
      OBVIOUS
    <3>2. ErrorSum(t, z) \in Nat /\ Cardinality(Overlapping(z)) \in Nat
      BY <2>1
    <3>3. 0 * Cardinality(Overlapping(z)) = 0 /\ ErrorSum(t, z) * Cardinality(Overlapping(0)) >= 0
      BY <1>5, <3>2
    <3>4. QED
      BY <1>5, <3>3 DEF FitsNoWorse
  <2>3. ASSUME NEW s \in Shifts, s # 0, FitsNoWorse(t, s, 0) PROVE FALSE
    <3>1. ErrorSum(t, s) \in Nat \ {0} /\ Cardinality(Overlapping(s)) \in Nat
      BY <1>6, <2>1, <2>3
    <3>2. ErrorSum(t, s) * Cardinality(Overlapping(0)) <= 0 * Cardinality(Overlapping(s))
      BY <1>5, <2>3 DEF FitsNoWorse
    <3>3. QED
      BY <1>5, <3>1, <3>2
  <2>4. QED
    BY <1>3, <2>2, <2>3
<1>8. BestLag(t) = Min(best)
  BY DEF BestLag
<1> HIDE DEF best
<1>9. Min({0}) = 0
  BY OfZero
<1>10. QED
  BY <1>7, <1>8, <1>9

LEMMA PerfectExceedsNothing ==
  ASSUME WellFormedPlan(rollout), Perfect
  PROVE  Exceeded([t \in rollout.targets |-> BestLag(t)]) = {}
<1> DEFINE lags == [t \in rollout.targets |-> BestLag(t)]
<1>1. Aligned /\ rollout.targets # {} /\ \A k \in Steps, t \in rollout.targets : ErrorAt(k, t) = 0
  BY SeriesAlign DEF Perfect, WellFormedPlan
<1>2. 1 \in Steps /\ Len(Observed) \in Steps
  BY <1>1 DEF Aligned
<1>3. Distance(0, 0) = 0 /\ Larger(0, 0) = 0 /\ Max({0}) = 0
  <2>1. Max({0}) = 0
    BY OfZero
  <2>2. QED
    BY <2>1 DEF Distance, Larger
<1>4. \A k \in Steps : StepError(k) = 0
  <2>1. SUFFICES ASSUME NEW k \in Steps PROVE StepError(k) = 0
    OBVIOUS
  <2>2. {Distance(ErrorAt(k, t), 0) : t \in rollout.targets} = {0}
    BY <1>1, <1>3
  <2>3. QED
    BY <1>3, <2>2 DEF StepError
<1>5. Worst = 0
  <2>1. {StepError(k) : k \in Steps} = {0}
    BY <1>2, <1>4
  <2>2. QED
    BY <1>3, <2>1 DEF Worst
<1>6. Accumulated = 0
  <2> DEFINE f == [k \in Steps |-> StepError(k)]
  <2>1. IsFiniteSet(DOMAIN f)
    BY <1>1, StepsAreFinite
  <2>2. \A k \in DOMAIN f : f[k] = 0
    BY <1>4
  <2>3. Accumulated = SumFunction(f)
    BY DEF Accumulated
  <2> HIDE DEF f
  <2>4. \A k \in DOMAIN f : f[k] \in Nat
    BY <2>2
  <2>5. QED
    BY <2>1, <2>2, <2>3, <2>4, SumOfNaturals
<1>7. Drift = 0
  <2>1. {Distance(ErrorAt(Len(Observed), t), ErrorAt(1, t)) : t \in rollout.targets} = {0}
    BY <1>1, <1>2, <1>3
  <2>2. QED
    BY <1>3, <2>1 DEF Drift
<1>8. Growth = 0
  BY <1>2, <1>3, <1>4 DEF Growth
<1>9. LagOf(lags) = 0
  <2>1. {Distance(lags[t], 0) : t \in rollout.targets} = {0}
    BY <1>1, <1>3, NoShiftFits
  <2> HIDE DEF lags
  <2>2. QED
    BY <1>3, <2>1 DEF LagOf
<1> HIDE DEF lags
<1>10. /\ {rollout.maxWorst, rollout.maxAccumulated, rollout.maxLag, rollout.maxPhase,
           rollout.maxDrift, rollout.maxGrowth} \subseteq Nat
       /\ 0 * rollout.stepSize = 0
  BY DEF WellFormedPlan
<1>11. Exceeded(lags) = {}
  <2>1. /\ ~(Worst > rollout.maxWorst) /\ ~(Accumulated > rollout.maxAccumulated)
        /\ ~(LagOf(lags) > rollout.maxLag) /\ ~(LagOf(lags) * rollout.stepSize > rollout.maxPhase)
        /\ ~(Drift > rollout.maxDrift) /\ ~(Growth > rollout.maxGrowth)
    BY <1>5, <1>6, <1>7, <1>8, <1>9, <1>10
  <2>2. QED
    BY <2>1 DEF Exceeded, If
<1>12. QED
  BY <1>11 DEF lags

-----------------------------------------------------------------------------
(* A lag is measured only of a plan whose files are there and readable, so *)
(* that nothing is found before it unless its files overlap.               *)
PerfectInv ==
  /\ \E t \in Task : rollout = t.plan
  /\ lag # <<>> => phase \in {"conclude", "done"}
  /\ phase = "overlap" /\ NoneGone => failures = {}
  /\ phase = "series" /\ NoneGone /\ ~Overlap => failures = {}
  /\ phase \in {"align", "measure"} /\ ~Overlap => failures = {}
  /\ phase = "conclude" /\ lag # <<>> /\ ~Overlap /\ Perfect => failures = {}
  /\ PerfectPredictionPasses

LEMMA PerfectKept ==
  ASSUME rollout' = rollout
  PROVE  Perfect' = Perfect
<1>1. Gaps' = Gaps
  BY EarnedKept
<1>2. Predicted' = Predicted /\ Observed' = Observed
  BY DEF Predicted, Observed
<1>3. Steps' = Steps
  BY <1>2 DEF Steps
<1>4. \A k, t : ErrorAt(k, t)' = ErrorAt(k, t)
  BY <1>2 DEF ErrorAt
<1>5. \A t : RepeatsItself(t)' = RepeatsItself(t)
  BY <1>2 DEF RepeatsItself
<1>6. QED
  BY <1>1, <1>3, <1>4, <1>5 DEF Perfect

LEMMA PerfectStarts == EvidenceInit => PerfectInv
  BY DEF EvidenceInit, RolloutStart, PerfectInv, PerfectPredictionPasses

LEMMA PerfectStep == PerfectInv /\ [EvidenceNext]_evidenceVars => PerfectInv'
<1>1. SUFFICES ASSUME PerfectInv, [EvidenceNext]_evidenceVars PROVE PerfectInv'
  OBVIOUS
<1>2. rollout' = rollout
  BY <1>1 DEF EvidenceNext, WeighSamples, WeighPrediction, RolloutNext, DeclineRollout, Forbid,
    CheckFiles, CheckOverlap, LoadSeries, Align, Measure, ConcludeRollout, evidenceVars, rolloutVars
<1>3. NoneGone' = NoneGone /\ Overlap' = Overlap /\ Perfect' = Perfect
  BY <1>2, EarnedKept, PerfectKept
<1>4. WellFormedPlan(rollout)
  BY <1>1, GivenPlan DEF PerfectInv
<1> USE DEF PerfectPredictionPasses
<1>5. CASE UNCHANGED rolloutVars
  BY <1>1, <1>3, <1>5 DEF PerfectInv, rolloutVars
<1>6. CASE DeclineRollout \/ Forbid
  BY <1>1, <1>2, <1>6 DEF PerfectInv, DeclineRollout, Forbid
<1>7. CASE CheckFiles
  <2>1. NoneGone => failures' = {}
    BY <1>7 DEF CheckFiles, NoneGone
  <2>2. phase = "gate" /\ phase' = "overlap" /\ lag' = lag
    BY <1>7 DEF CheckFiles
  <2>3. QED
    BY <1>1, <1>2, <1>3, <2>1, <2>2 DEF PerfectInv
<1>8. CASE CheckOverlap
  <2>1. ~Overlap /\ failures = {} => failures' = {}
    BY <1>8 DEF CheckOverlap, If
  <2>2. phase = "overlap" /\ phase' = "series" /\ lag' = lag
    BY <1>8 DEF CheckOverlap
  <2>3. QED
    BY <1>1, <1>2, <1>3, <2>1, <2>2 DEF PerfectInv
<1>9. CASE LoadSeries
  <2>1. phase = "series" /\ lag' = lag /\ phase' \in {"conclude", "align"}
    BY <1>9 DEF LoadSeries
  <2>2. phase' = "align" =>
          NoneGone /\ ~Unreadable(rollout.prediction) /\ ~Unreadable(rollout.holdout)
    BY <1>9 DEF LoadSeries, NoneGone
  <2>3. phase' = "align" /\ failures = {} => failures' = {}
    BY <1>9, <2>2 DEF LoadSeries
  <2>4. QED
    BY <1>1, <1>2, <1>3, <2>1, <2>2, <2>3 DEF PerfectInv
<1>10. CASE Align
  <2>1. phase = "align" /\ lag' = lag /\ phase' = IF Gaps # {} THEN "conclude" ELSE "measure"
    BY <1>10 DEF Align
  <2>2. phase' = "measure" /\ failures = {} => failures' = {}
    BY <1>10, <2>1 DEF Align, If
  <2>3. QED
    BY <1>1, <1>2, <1>3, <2>1, <2>2 DEF PerfectInv
<1>11. CASE Measure
  <2>1. Perfect /\ failures = {} => failures' = {}
    BY <1>4, <1>11, PerfectExceedsNothing DEF Measure
  <2>2. phase = "measure" /\ phase' = "conclude"
    BY <1>11 DEF Measure
  <2>3. QED
    BY <1>1, <1>2, <1>3, <2>1, <2>2 DEF PerfectInv
<1>12. CASE ConcludeRollout
  <2>1. /\ phase = "conclude" /\ phase' = "done" /\ lag' = lag
        /\ failures = {} => verdict' = "pass"
    BY <1>12 DEF ConcludeRollout
  <2>2. QED
    BY <1>1, <1>2, <1>3, <2>1 DEF PerfectInv
<1>13. QED
  BY <1>1, <1>5, <1>6, <1>7, <1>8, <1>9, <1>10, <1>11, <1>12
     DEF EvidenceNext, WeighSamples, WeighPrediction, RolloutNext, evidenceVars

(* For any plan, a prediction that agrees with the holdout at every step   *)
(* passes, whatever the thresholds, unless a target repeats itself within  *)
(* the shifts that are tried (evaluate_predictive_rollout_artifacts).      *)
THEOREM PerfectPasses == EvidenceSpec => []PerfectPredictionPasses
<1>1. PerfectInv => PerfectPredictionPasses
  BY DEF PerfectInv
<1>2. QED
  BY <1>1, PerfectStarts, PerfectStep, PTL DEF EvidenceSpec

=============================================================================
