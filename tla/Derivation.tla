----------------------------- MODULE Derivation -----------------------------
(***************************************************************************)
(* Observed evaluation of a partial snapshot: HierarchicalAuditRunner.     *)
(* evaluate_observed and the derivation it runs (_derive_unobserved,       *)
(* _propagate_connections, _checked_unconsumed in core/hierarchy.py).      *)
(*                                                                         *)
(* The dependency of every residual is traced once, at the observed values *)
(* completed by initial guesses.  Known values then spread along           *)
(* connections and through relations with one unknown, by repeated scans   *)
(* of the records in their order, until a whole scan changes nothing.      *)
(* What is left is checked, or listed as unchecked, and a verdict given.   *)
(***************************************************************************)
EXTENDS Relations

VARIABLES
  relations,  \* the residual records, in the builder's order
  observed,   \* the snapshot as supplied
  skip,       \* may unresolved variables remain (skip_unobserved)
  needs,      \* the traced dependencies of each record
  known,      \* observed and derived values
  derived,    \* the derivations, in the order they were made
  used,       \* the occurrences consumed by a derivation
  pc,         \* the stage of the evaluation
  edge,       \* next record of the running connection pass
  moved,      \* has the running connection pass derived a value
  index,      \* next record of the running relation scan, or of the checks
  changed,    \* has the running relation scan derived a value
  checked,    \* the occurrences evaluated as checks
  unchecked,  \* the occurrences reported as gaps
  outcome     \* how the evaluation ended

problem == <<relations, observed, skip>>
scan == <<edge, moved, index, changed>>
vars == <<problem, needs, known, derived, used, pc, scan,
          checked, unchecked, outcome>>

Index == 1 .. Len(relations)
Known == KnownIn(known)
Missing == Var \ Known
Verdicts == {"none", "pass", "fail", "refused", "missing", "no_check"}
Stages == {"trace", "propagate", "scan", "check", "done"}

Entry == [var : Var, by : Nat, deps : SUBSET Var]

TypeOK ==
  /\ relations \in Seq(Relation)
  /\ observed \in Partial
  /\ skip \in BOOLEAN
  /\ needs \in [Index -> SUBSET Var]
  /\ known \in Partial
  /\ derived \in Seq(Entry)
  /\ used \subseteq Index
  /\ pc \in Stages
  /\ edge \in Nat \ {0}
  /\ moved \in BOOLEAN
  /\ index \in Nat \ {0}
  /\ changed \in BOOLEAN
  /\ checked \subseteq Index
  /\ unchecked \subseteq Index
  /\ outcome \in Verdicts

Init ==
  /\ relations \in Systems
  /\ observed \in Partial
  /\ skip \in BOOLEAN
  /\ needs = [i \in Index |-> {}]
  /\ known = observed
  /\ derived = <<>>
  /\ used = {}
  /\ pc = "trace"
  /\ edge = 1
  /\ moved = FALSE
  /\ index = 1
  /\ changed = FALSE
  /\ checked = {}
  /\ unchecked = {}
  /\ outcome = "none"

Stop(verdict) == pc' = "done" /\ outcome' = verdict

-----------------------------------------------------------------------------
(* Tracing.  Every record is evaluated at the observed values completed by *)
(* initial guesses; a refusal there ends the evaluation.  With a complete  *)
(* snapshot there is nothing to derive.                                    *)
TraceRefused ==
  /\ pc = "trace"
  /\ \E i \in Index : Residual(relations[i], Filled(known)) = "refused"
  /\ Stop("refused")
  /\ UNCHANGED <<problem, needs, known, derived, used, scan, checked, unchecked>>

Trace ==
  /\ pc = "trace"
  /\ \A i \in Index : Residual(relations[i], Filled(known)) # "refused"
  /\ needs' = [i \in Index |-> Reads(relations[i], Filled(known))]
  /\ pc' = IF Missing = {} THEN "check" ELSE "propagate"
  /\ UNCHANGED <<problem, known, derived, used, scan, checked, unchecked, outcome>>

-----------------------------------------------------------------------------
(* Deriving.                                                               *)
(* Mutant of Learn: the derived variable among its own dependencies.       *)
LearnFromItself(v, x, i, deps) ==
  /\ known' = [known EXCEPT ![v] = x]
  /\ derived' = Append(derived, [var |-> v, by |-> i, deps |-> deps \cup {v}])
  /\ used' = used \cup {i}

Learn(v, x, i, deps) ==
  /\ known' = [known EXCEPT ![v] = x]
  /\ derived' = Append(derived, [var |-> v, by |-> i, deps |-> deps])
  /\ used' = used \cup {i}

(* Mutant of Carries: the window of the target is not looked at.           *)
CarriesAnywhere(i, source, target) ==
  /\ relations[i].kind = "connection"
  /\ <<source, target>> \in {<<relations[i].from, relations[i].to>>,
                             <<relations[i].to, relations[i].from>>}
  /\ source \in Known
  /\ target \notin Known

(* Connection i carries the known value of source to the unknown target.   *)
Carries(i, source, target) ==
  /\ relations[i].kind = "connection"
  /\ <<source, target>> \in {<<relations[i].from, relations[i].to>>,
                             <<relations[i].to, relations[i].from>>}
  /\ source \in Known
  /\ target \notin Known
  /\ known[source] \in Bounds[target]

Live(i) == \E source, target \in Var : Carries(i, source, target)

PropagateEdge(i) ==
  /\ pc = "propagate"
  /\ i >= edge
  /\ \A j \in Index : edge <= j /\ j < i => ~Live(j)
  /\ \E source, target \in Var :
       /\ Carries(i, source, target)
       /\ Learn(target, known[source], i, {source})
  /\ edge' = i + 1
  /\ moved' = TRUE
  /\ UNCHANGED <<problem, needs, pc, index, changed, checked, unchecked, outcome>>

PassIsOver == pc = "propagate" /\ \A j \in Index : edge <= j => ~Live(j)

RepeatPass ==
  /\ PassIsOver
  /\ moved
  /\ edge' = 1
  /\ moved' = FALSE
  /\ UNCHANGED <<problem, needs, known, derived, used, pc, index, changed,
                 checked, unchecked, outcome>>

EndPropagation ==
  /\ PassIsOver
  /\ ~moved
  /\ pc' = "scan"
  /\ UNCHANGED <<problem, needs, known, derived, used, scan, checked, unchecked, outcome>>

(* Mutant of Determines: other unknowns may stay at their guesses.         *)
DeterminesAny(i, v, x) ==
  /\ relations[i].traced
  /\ i \notin used
  /\ Consumable(relations[i])
  /\ v \in needs[i] \ Known
  /\ IsRoot(relations[i], v, x, Filled(known))

(* Relation i has one unknown v left, and one root x for it.               *)
Determines(i, v, x) ==
  /\ relations[i].traced
  /\ i \notin used
  /\ Consumable(relations[i])
  /\ needs[i] \ Known = {v}
  /\ IsRoot(relations[i], v, x, Filled(known))

Ready(i) == \E v \in Var, x \in Value : Determines(i, v, x)

ConsumeRelation(i) ==
  /\ pc = "scan"
  /\ i >= index
  /\ \A j \in Index : index <= j /\ j < i => ~Ready(j)
  /\ \E v \in Var, x \in Value :
       /\ Determines(i, v, x)
       /\ Learn(v, x, i, needs[i] \ {v})
  /\ index' = i + 1
  /\ changed' = TRUE
  /\ edge' = 1
  /\ moved' = FALSE
  /\ pc' = "propagate"
  /\ UNCHANGED <<problem, needs, checked, unchecked, outcome>>

ScanIsOver == pc = "scan" /\ \A j \in Index : index <= j => ~Ready(j)

(* A scan that derived nothing settles the derivation.  Mutant: one scan   *)
(* is always enough.                                                       *)
SettledAtOnce == ScanIsOver

Settled == ScanIsOver /\ ~changed

(* Mutant of RepeatScan: the changed flag is not cleared.                  *)
RepeatScanForever ==
  /\ ScanIsOver
  /\ changed
  /\ index' = 1
  /\ UNCHANGED <<problem, needs, known, derived, used, pc, edge, moved, changed,
                 checked, unchecked, outcome>>

RepeatScan ==
  /\ ScanIsOver
  /\ changed
  /\ index' = 1
  /\ changed' = FALSE
  /\ UNCHANGED <<problem, needs, known, derived, used, pc, edge, moved,
                 checked, unchecked, outcome>>

EndDerivation ==
  /\ Settled
  /\ index' = 1
  /\ pc' = "check"
  /\ UNCHANGED <<problem, needs, known, derived, used, edge, moved, changed,
                 checked, unchecked, outcome>>

-----------------------------------------------------------------------------
(* Checking.  An unused record is evaluated when every variable it was     *)
(* traced to need is known; one of unknown provenance only when nothing is *)
(* missing at all.                                                         *)
(* Mutant of Evaluable: unknown provenance taken for no dependency.        *)
EvaluableUntraced(i) == relations[i].traced => needs[i] \subseteq Known

Evaluable(i) ==
  IF relations[i].traced THEN needs[i] \subseteq Known ELSE Missing = {}

(* The records the derivation did not consume.  Mutant: all records.       *)
UnconsumedOrNot(i) == i \in Index

Unconsumed(i) == i \in Index \ used

SkipUsed ==
  /\ pc = "check"
  /\ index \in used
  /\ index' = index + 1
  /\ UNCHANGED <<problem, needs, known, derived, used, pc, edge, moved, changed,
                 checked, unchecked, outcome>>

ReportGap ==
  /\ pc = "check"
  /\ Unconsumed(index)
  /\ ~Evaluable(index)
  /\ unchecked' = unchecked \cup {index}
  /\ index' = index + 1
  /\ UNCHANGED <<problem, needs, known, derived, used, pc, edge, moved, changed,
                 checked, outcome>>

CheckRecord ==
  /\ pc = "check"
  /\ Unconsumed(index)
  /\ Evaluable(index)
  /\ Residual(relations[index], Filled(known)) # "refused"
  /\ checked' = checked \cup {index}
  /\ index' = index + 1
  /\ UNCHANGED <<problem, needs, known, derived, used, pc, edge, moved, changed,
                 unchecked, outcome>>

CheckRefused ==
  /\ pc = "check"
  /\ Unconsumed(index)
  /\ Evaluable(index)
  /\ Residual(relations[index], Filled(known)) = "refused"
  /\ Stop("refused")
  /\ UNCHANGED <<problem, needs, known, derived, used, scan, checked, unchecked>>

(* The verdict: missing values are refused unless skipped, so is a         *)
(* snapshot that leaves nothing to check.                                  *)
(* Mutant of Verdict: nothing checked is nothing failed.                   *)
VerdictOnNothing ==
  IF Missing # {} /\ ~skip THEN "missing"
  ELSE IF AuditPasses({relations[i] : i \in checked}, Filled(known)) THEN "pass" ELSE "fail"

Verdict ==
  IF Missing # {} /\ ~skip THEN "missing"
  ELSE IF checked = {} THEN "no_check"
  ELSE IF AuditPasses({relations[i] : i \in checked}, Filled(known)) THEN "pass" ELSE "fail"

Report ==
  /\ pc = "check"
  /\ index > Len(relations)
  /\ Stop(Verdict)
  /\ UNCHANGED <<problem, needs, known, derived, used, scan, checked, unchecked>>

-----------------------------------------------------------------------------
Next ==
  \/ TraceRefused
  \/ Trace
  \/ \E i \in Index : PropagateEdge(i)
  \/ RepeatPass
  \/ EndPropagation
  \/ \E i \in Index : ConsumeRelation(i)
  \/ RepeatScan
  \/ EndDerivation
  \/ SkipUsed
  \/ ReportGap
  \/ CheckRecord
  \/ CheckRefused
  \/ Report

(* The evaluation is one call on one thread: it runs until it returns.     *)
Spec == Init /\ [][Next]_vars /\ WF_vars(Next)

-----------------------------------------------------------------------------
(* Every value has one source: the snapshot, kept exactly as supplied, or  *)
(* one derivation by one occurrence that derived nothing else; the         *)
(* occurrences counted as used are exactly those.                          *)
OneSource ==
  /\ \A v \in Var : observed[v] # Unknown =>
       /\ known[v] = observed[v]
       /\ \A k \in DOMAIN derived : derived[k].var # v
  /\ \A v \in Known : observed[v] = Unknown =>
       \E k \in DOMAIN derived : derived[k].var = v
  /\ \A k, l \in DOMAIN derived : k # l =>
       derived[k].var # derived[l].var /\ derived[k].by # derived[l].by
  /\ used = {derived[k].by : k \in DOMAIN derived}

(* Provenance is well-founded: what a derivation is said to depend on was  *)
(* observed or derived before it, so no chain of dependencies is circular  *)
(* and every one ends in the snapshot.                                     *)
Provenance ==
  \A k \in DOMAIN derived : \A v \in derived[k].deps :
    \/ observed[v] # Unknown
    \/ \E j \in 1 .. k - 1 : derived[j].var = v

(* Derived values stay inside the declared windows.                        *)
WithinBounds == \A k \in DOMAIN derived : known[derived[k].var] \in Bounds[derived[k].var]

(* A producing relation still agrees with the final values: no later       *)
(* derivation disturbs the root an earlier one found.                      *)
ProducersHold ==
  \A i \in used : Residual(relations[i], Filled(known)) = "zero"

(* No check and no derivation looks at an initial guess: at the values it  *)
(* was evaluated at, a record reads known variables only.                  *)
NoGuessIsEvidence ==
  \A i \in used \cup checked : Reads(relations[i], Filled(known)) \subseteq Known

(* Every evaluation returns.                                               *)
Terminates == <>(pc = "done")

(* The scans implement the unordered promise: every step of the evaluation *)
(* derives one value that the promise allows, judges, or changes nothing   *)
(* the promise speaks of.  Lists of checks appear with the judgement.      *)
Judged == outcome \in {"pass", "fail", "missing", "no_check"}
Promise == INSTANCE DerivationAbs WITH
  checked <- IF Judged THEN checked ELSE {},
  unchecked <- IF Judged THEN unchecked ELSE {}
ImplementsPromise == Promise!Spec

=============================================================================
