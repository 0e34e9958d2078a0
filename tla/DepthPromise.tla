---------------------------- MODULE DepthPromise ----------------------------
(***************************************************************************)
(* What the depth evaluation promises to the validation that asks for it   *)
(* (ValidationDepthEvaluation): one result, whose status is that of its    *)
(* findings, whose series passes only without a hard violation, and which  *)
(* passes on usable inputs only if the series does.                        *)
(***************************************************************************)

Severities == {"error", "warning"}

(* A result: its status, the severities of its findings and of those about *)
(* envelopes, and what became of the residual series.                      *)
Results ==
  [status : {"pass", "partial", "blocked"}, found : SUBSET Severities,
   envelopes : SUBSET Severities, series : {"none", "pass", "fail"}]

NoResult == [status |-> "", found |-> {}, envelopes |-> {}, series |-> "none"]

(* The audit was read and no contract is out of use.                       *)
Usable(inputs) == inputs.audit /\ inputs.contracts

StatusOfFound(found) ==
  IF "error" \in found THEN "blocked" ELSE IF found # {} THEN "partial" ELSE "pass"

Promised(inputs, r) ==
  /\ r \in Results
  /\ r.status = StatusOfFound(r.found)
  /\ r.envelopes \subseteq r.found
  /\ r.series = "pass" => inputs.audit /\ "error" \notin r.envelopes
  /\ r.status = "pass" /\ Usable(inputs) => r.series = "pass"

-----------------------------------------------------------------------------
VARIABLES
  inputs,   \* whether the audit was read and every contract is usable
  result    \* what was delivered

Init ==
  /\ inputs \in [audit : BOOLEAN, contracts : BOOLEAN]
  /\ result = NoResult

Deliver ==
  /\ result = NoResult
  /\ \E r \in Results : Promised(inputs, r) /\ result' = r
  /\ UNCHANGED inputs

Spec == Init /\ [][Deliver]_<<inputs, result>>

=============================================================================
