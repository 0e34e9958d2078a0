-------------------------- MODULE DerivationProofs --------------------------
(***************************************************************************)
(* Proofs about Derivation for every set of variables, values and          *)
(* relations.  The inductive invariant is Inductive below: it adds to the  *)
(* stated properties what the scans know at each stage.                    *)
(***************************************************************************)
EXTENDS Derivation, TLAPS, FiniteSetTheorems, WellFoundedInduction

-----------------------------------------------------------------------------
(* Before the trace nothing has happened.                                  *)
Untouched ==
  pc = "trace" => known = observed /\ derived = <<>> /\ used = {}

(* While the evaluation runs, the dependencies are those the snapshot      *)
(* showed.                                                                 *)
NeedsAreTraced ==
  pc \in {"propagate", "scan", "check"} =>
    \A i \in Index : needs[i] = Reads(relations[i], Filled(observed))

(* A consumed relation has no unknown left, so it cannot be consumed again *)
(* even by the connection passes, which do not look at the used set.       *)
UsedIsKnown == \A i \in used : needs[i] \subseteq Known

Inductive ==
  /\ TypeOK
  /\ Untouched
  /\ NeedsAreTraced
  /\ UsedIsKnown
  /\ OneSource
  /\ Provenance
  /\ WithinBounds

LEMMA FilledType ==
  ASSUME NEW partial \in Partial
  PROVE  Filled(partial) \in Env
BY RelationsAssumption DEF Filled, Partial, Env

LEMMA KnownGrows ==
  ASSUME NEW partial \in Partial, NEW v \in Var, NEW x \in Value
  PROVE  /\ [partial EXCEPT ![v] = x] \in Partial
         /\ KnownIn([partial EXCEPT ![v] = x]) = KnownIn(partial) \cup {v}
BY RelationsAssumption DEF Partial, KnownIn

(* The bounds hold values only.                                            *)
LEMMA BoundsAreValues ==
  ASSUME NEW v \in Var, NEW x \in Bounds[v]
  PROVE  x \in Value
BY RelationsAssumption

LEMMA EntryType ==
  ASSUME NEW v \in Var, NEW i \in Nat, NEW deps \in SUBSET Var
  PROVE  [var |-> v, by |-> i, deps |-> deps] \in Entry
BY DEF Entry

-----------------------------------------------------------------------------
(* What a learning step does to the values, the derivations and the used   *)
(* occurrences keeps their types.                                          *)
LEMMA LearnType ==
  ASSUME TypeOK, NEW v \in Var, NEW x \in Value, NEW i \in Index,
         NEW deps \in SUBSET Var, Learn(v, x, i, deps), UNCHANGED relations
  PROVE  /\ known' \in Partial
         /\ derived' \in Seq(Entry)
         /\ used' \subseteq Index'
         /\ Known' = Known \cup {v}
<1>1. i \in Nat
  BY DEF Index, TypeOK
<1>2. known' = [known EXCEPT ![v] = x] /\ known \in Partial
  BY DEF Learn, TypeOK
<1>3. known' \in Partial /\ Known' = Known \cup {v}
  BY <1>2, KnownGrows DEF Known
<1>4. derived' \in Seq(Entry)
  BY <1>1, EntryType DEF Learn, TypeOK
<1>5. used' \subseteq Index'
  BY DEF Learn, TypeOK, Index
<1>6. QED
  BY <1>3, <1>4, <1>5

LEMMA CarriesType ==
  ASSUME TypeOK, NEW i \in Index, NEW source \in Var, NEW target \in Var,
         Carries(i, source, target)
  PROVE  /\ known[source] \in Value
         /\ known[source] \in Bounds[target]
         /\ target \notin Known
BY BoundsAreValues DEF Carries

LEMMA TypeInit == Init => TypeOK
<1> SUFFICES ASSUME Init PROVE TypeOK
  OBVIOUS
<1>1. relations \in Seq(Relation)
  BY RelationsAssumption DEF Init
<1>2. needs \in [Index -> SUBSET Var] /\ derived \in Seq(Entry)
  BY DEF Init
<1>3. moved \in BOOLEAN /\ changed \in BOOLEAN
  BY DEF Init
<1>4. edge \in Nat \ {0} /\ index \in Nat \ {0}
  BY DEF Init
<1>5. QED
  BY <1>1, <1>2, <1>3, <1>4 DEF Init, TypeOK, Stages, Verdicts

LEMMA TypeNext == TypeOK /\ [Next]_vars => TypeOK'
<1> SUFFICES ASSUME TypeOK, [Next]_vars PROVE TypeOK'
  OBVIOUS
<1> USE DEF problem, scan, Stages, Verdicts
<1>1. CASE TraceRefused
  BY <1>1 DEF TraceRefused, Stop, TypeOK, Index
<1>2. CASE Trace
  <2>1. needs' \in [Index' -> SUBSET Var]
    <3>1. \A i \in Index : Reads(relations[i], Filled(known)) \subseteq Var
      BY FilledType, EvaluationAssumption DEF TypeOK, Index
    <3>2. QED
      BY <1>2, <3>1 DEF Trace, Index
  <2>2. QED
    BY <1>2, <2>1 DEF Trace, TypeOK, Index
<1>3. ASSUME NEW i \in Index, PropagateEdge(i) PROVE TypeOK'
  <2>1. PICK source \in Var, target \in Var :
          Carries(i, source, target) /\ Learn(target, known[source], i, {source})
    BY <1>3 DEF PropagateEdge
  <2>2. known[source] \in Value
    BY <2>1, CarriesType
  <2>3. /\ known' \in Partial /\ derived' \in Seq(Entry) /\ used' \subseteq Index'
    BY <1>3, <2>1, <2>2, LearnType DEF PropagateEdge
  <2>4. moved' \in BOOLEAN
    BY <1>3 DEF PropagateEdge
  <2>5. edge' \in Nat \ {0}
    BY <1>3 DEF PropagateEdge, Index
  <2>6. QED
    BY <1>3, <2>3, <2>4, <2>5 DEF PropagateEdge, TypeOK, Index
<1>4. CASE RepeatPass
  <2>1. moved' \in BOOLEAN
    BY <1>4 DEF RepeatPass
  <2>2. edge' \in Nat \ {0}
    BY <1>4 DEF RepeatPass
  <2>3. QED
    BY <1>4, <2>1, <2>2 DEF RepeatPass, TypeOK, Index
<1>5. CASE EndPropagation
  BY <1>5 DEF EndPropagation, TypeOK, Index
<1>6. ASSUME NEW i \in Index, ConsumeRelation(i) PROVE TypeOK'
  <2>1. PICK v \in Var, x \in Value :
          Determines(i, v, x) /\ Learn(v, x, i, needs[i] \ {v})
    BY <1>6 DEF ConsumeRelation
  <2>2. needs[i] \ {v} \in SUBSET Var
    BY DEF TypeOK
  <2>3. /\ known' \in Partial /\ derived' \in Seq(Entry) /\ used' \subseteq Index'
    BY <1>6, <2>1, <2>2, LearnType DEF ConsumeRelation
  <2>4. moved' \in BOOLEAN /\ changed' \in BOOLEAN
    BY <1>6 DEF ConsumeRelation
  <2>5. edge' \in Nat \ {0} /\ index' \in Nat \ {0}
    BY <1>6 DEF ConsumeRelation, TypeOK, Index
  <2>6. QED
    BY <1>6, <2>3, <2>4, <2>5 DEF ConsumeRelation, TypeOK, Index
<1>7. CASE RepeatScan
  <2>1. changed' \in BOOLEAN
    BY <1>7 DEF RepeatScan
  <2>2. index' \in Nat \ {0}
    BY <1>7 DEF RepeatScan
  <2>3. QED
    BY <1>7, <2>1, <2>2 DEF RepeatScan, TypeOK, Index
<1>8. CASE EndDerivation
  BY <1>8 DEF EndDerivation, TypeOK, Index
<1>9. CASE SkipUsed
  BY <1>9 DEF SkipUsed, TypeOK, Index
<1>10. CASE ReportGap
  BY <1>10 DEF ReportGap, Unconsumed, TypeOK, Index
<1>11. CASE CheckRecord
  BY <1>11 DEF CheckRecord, Unconsumed, TypeOK, Index
<1>12. CASE CheckRefused
  BY <1>12 DEF CheckRefused, Stop, TypeOK, Index
<1>13. CASE Report
  BY <1>13 DEF Report, Verdict, Stop, TypeOK, Index
<1>14. CASE UNCHANGED vars
  BY <1>14 DEF vars, TypeOK, Index
<1>15. QED
  BY <1>1, <1>2, <1>3, <1>4, <1>5, <1>6, <1>7, <1>8, <1>9, <1>10,
     <1>11, <1>12, <1>13, <1>14 DEF Next

(* Every state of every evaluation is well typed.                          *)
THEOREM TypeCorrect == Spec => []TypeOK
BY TypeInit, TypeNext, PTL DEF Spec

-----------------------------------------------------------------------------
(* A learning step keeps the sources unique and the provenance grounded,   *)
(* provided it learns an unknown variable, inside its window, from a fresh *)
(* occurrence that needs nothing else unknown.                             *)
LEMMA LearnSound ==
  ASSUME TypeOK, OneSource, Provenance, WithinBounds, UsedIsKnown,
         NEW v \in Var, v \notin Known, NEW x \in Bounds[v],
         NEW i \in Index, i \notin used,
         NEW deps \in SUBSET Known, needs[i] \subseteq Known \cup {v},
         Learn(v, x, i, deps), UNCHANGED <<relations, observed, needs>>
  PROVE  OneSource' /\ Provenance' /\ WithinBounds' /\ UsedIsKnown'
<1> DEFINE entry == [var |-> v, by |-> i, deps |-> deps]
           n == Len(derived) + 1
<1>1. x \in Value /\ i \in Nat /\ deps \in SUBSET Var
  BY BoundsAreValues DEF Known, KnownIn, Index
<1>2. entry \in Entry /\ derived \in Seq(Entry) /\ derived' = Append(derived, entry)
  BY <1>1, EntryType DEF Learn, TypeOK
<1>3. /\ DOMAIN derived = 1 .. Len(derived)
      /\ DOMAIN derived' = 1 .. n
      /\ \A k \in DOMAIN derived : derived'[k] = derived[k]
      /\ derived'[n] = entry
      /\ n \in DOMAIN derived' /\ n \notin DOMAIN derived
      /\ DOMAIN derived' = DOMAIN derived \cup {n}
  BY <1>2
<1>4. /\ known \in Partial
      /\ known' = [known EXCEPT ![v] = x]
      /\ Known' = Known \cup {v}
  BY <1>1, KnownGrows DEF Learn, Known, TypeOK
<1>5. /\ known'[v] = x
      /\ \A w \in Var \ {v} : known'[w] = known[w]
  BY <1>4 DEF Partial
<1>6. used' = used \cup {i}
  BY DEF Learn
<1>7. /\ known[v] = Unknown
      /\ observed[v] = Unknown
  BY DEF Known, KnownIn, OneSource
<1>8. \A k \in DOMAIN derived : derived[k].var \in Var /\ derived[k].var \in Known
  <2> SUFFICES ASSUME NEW k \in DOMAIN derived
               PROVE  derived[k].var \in Var /\ derived[k].var \in Known
    OBVIOUS
  <2>1. derived[k] \in Entry
    BY <1>2, <1>3
  <2> derived[k].var \in Var
    BY <2>1 DEF Entry
  <2>2. known[derived[k].var] \in Bounds[derived[k].var]
    BY DEF WithinBounds
  <2>3. known[derived[k].var] \in Value
    BY <2>2, BoundsAreValues
  <2>4. QED
    BY <2>3, RelationsAssumption DEF Known, KnownIn
<1>9. \A k \in DOMAIN derived : derived[k].var # v /\ derived[k].by # i
  BY <1>8 DEF OneSource
<1>10. OneSource'
  <2>1. \A w \in Var : observed'[w] # Unknown =>
          /\ known'[w] = observed'[w]
          /\ \A k \in DOMAIN derived' : derived'[k].var # w
    BY <1>3, <1>5, <1>7 DEF OneSource
  <2>2. \A w \in Known' : observed'[w] = Unknown =>
          \E k \in DOMAIN derived' : derived'[k].var = w
    BY <1>3, <1>4 DEF OneSource
  <2>3. \A k, l \in DOMAIN derived' : k # l =>
          derived'[k].var # derived'[l].var /\ derived'[k].by # derived'[l].by
    BY <1>3, <1>9 DEF OneSource
  <2>4. used' = {derived'[k].by : k \in DOMAIN derived'}
    BY <1>3, <1>6 DEF OneSource
  <2>5. QED
    BY <2>1, <2>2, <2>3, <2>4 DEF OneSource
<1>11. Provenance'
  <2> SUFFICES ASSUME NEW k \in DOMAIN derived', NEW w \in derived'[k].deps
               PROVE  \/ observed[w] # Unknown
                      \/ \E j \in 1 .. k - 1 : derived'[j].var = w
    BY DEF Provenance
  <2>1. CASE k \in DOMAIN derived
    <3>1. w \in derived[k].deps
      BY <2>1, <1>3
    <3>2. \A j \in 1 .. k - 1 : derived'[j] = derived[j]
      BY <2>1, <1>3, <1>2
    <3>3. QED
      BY <2>1, <3>1, <3>2 DEF Provenance
  <2>2. CASE k = n
    <3>1. w \in Known
      BY <2>2, <1>3
    <3>2. observed[w] # Unknown \/ \E j \in DOMAIN derived : derived[j].var = w
      BY <3>1 DEF OneSource
    <3>3. QED
      BY <2>2, <3>2, <1>3, <1>2
  <2>3. QED
    BY <2>1, <2>2, <1>3
<1>12. WithinBounds'
  <2> SUFFICES ASSUME NEW k \in DOMAIN derived'
               PROVE  known'[derived'[k].var] \in Bounds[derived'[k].var]
    BY DEF WithinBounds
  <2>1. CASE k \in DOMAIN derived
    BY <2>1, <1>3, <1>5, <1>8, <1>9 DEF WithinBounds
  <2>2. CASE k = n
    BY <2>2, <1>3, <1>5
  <2>3. QED
    BY <2>1, <2>2, <1>3
<1>13. UsedIsKnown'
  BY <1>4, <1>6 DEF UsedIsKnown
<1>14. QED
  BY <1>10, <1>11, <1>12, <1>13

(* A step that learns nothing keeps what the values and derivations say.   *)
LEMMA NothingLearnt ==
  ASSUME Inductive, UNCHANGED <<observed, known, derived, used>>,
         relations' = relations, needs' = needs
  PROVE  OneSource' /\ Provenance' /\ WithinBounds' /\ UsedIsKnown'
BY DEF Inductive, OneSource, Provenance, WithinBounds, UsedIsKnown, Known

LEMMA InitInductive == Init => Inductive
<1> SUFFICES ASSUME Init PROVE Inductive
  OBVIOUS
<1>1. TypeOK
  BY TypeInit
<1>2. Untouched /\ NeedsAreTraced
  BY DEF Init, Untouched, NeedsAreTraced
<1>3. UsedIsKnown
  BY DEF Init, UsedIsKnown
<1>4. OneSource
  BY DEF Init, OneSource, Known, KnownIn
<1>5. Provenance /\ WithinBounds
  BY DEF Init, Provenance, WithinBounds
<1>6. QED
  BY <1>1, <1>2, <1>3, <1>4, <1>5 DEF Inductive

LEMMA NextInductive == Inductive /\ [Next]_vars => Inductive'
<1> SUFFICES ASSUME Inductive, [Next]_vars PROVE Inductive'
  OBVIOUS
<1> USE DEF problem, scan
<1>1. TypeOK /\ TypeOK'
  BY TypeNext DEF Inductive
<1>2. CASE TraceRefused
  <2>1. /\ UNCHANGED <<observed, known, derived, used, relations, needs>>
        /\ pc' = "done"
    BY <1>2 DEF TraceRefused, Stop
  <2>2. QED
    BY <2>1, <1>1, NothingLearnt DEF Inductive, Untouched, NeedsAreTraced
<1>3. CASE Trace
  <2>1. known = observed /\ derived = <<>> /\ used = {}
    BY <1>3 DEF Trace, Inductive, Untouched
  <2>2. /\ UNCHANGED <<observed, known, derived, used, relations>>
        /\ needs' = [i \in Index |-> Reads(relations[i], Filled(known))]
        /\ pc' \in {"check", "propagate"}
    BY <1>3 DEF Trace
  <2>3. Untouched' /\ NeedsAreTraced'
    BY <2>1, <2>2 DEF Untouched, NeedsAreTraced, Index
  <2>4. UsedIsKnown'
    BY <2>1, <2>2 DEF UsedIsKnown
  <2>5. OneSource' /\ Provenance' /\ WithinBounds'
    BY <2>2 DEF Inductive, OneSource, Provenance, WithinBounds, Known
  <2>6. QED
    BY <1>1, <2>3, <2>4, <2>5 DEF Inductive
<1>4. ASSUME NEW i \in Index, PropagateEdge(i) PROVE Inductive'
  <2>1. PICK source \in Var, target \in Var :
          Carries(i, source, target) /\ Learn(target, known[source], i, {source})
    BY <1>4 DEF PropagateEdge
  <2>2. /\ UNCHANGED <<relations, observed, needs>>
        /\ pc = "propagate" /\ pc' = "propagate"
    BY <1>4 DEF PropagateEdge
  <2>3. relations[i] \in Relation /\ Filled(observed) \in Env
    BY <1>1, FilledType DEF TypeOK, Index
  <2>4. needs[i] = {source, target}
    <3>1. needs[i] = Reads(relations[i], Filled(observed))
      BY <2>2 DEF Inductive, NeedsAreTraced
    <3>2. needs[i] = {relations[i].from, relations[i].to}
      BY <3>1, <2>3, <2>1, EvaluationAssumption DEF Carries
    <3>3. QED
      BY <3>2, <2>1 DEF Carries
  <2>5. i \notin used
    BY <2>4, <2>1 DEF Inductive, UsedIsKnown, Carries
  <2>6. /\ target \notin Known /\ {source} \in SUBSET Known
        /\ known[source] \in Bounds[target]
        /\ needs[i] \subseteq Known \cup {target}
    BY <2>1, <2>4 DEF Carries
  <2>7. OneSource' /\ Provenance' /\ WithinBounds' /\ UsedIsKnown'
    BY <1>1, <2>1, <2>2, <2>5, <2>6, LearnSound DEF Inductive
  <2>8. Untouched' /\ NeedsAreTraced'
    BY <2>2 DEF Inductive, Untouched, NeedsAreTraced, Index
  <2>9. QED
    BY <1>1, <2>7, <2>8 DEF Inductive
<1>5. ASSUME NEW i \in Index, ConsumeRelation(i) PROVE Inductive'
  <2>1. PICK v \in Var, x \in Value :
          Determines(i, v, x) /\ Learn(v, x, i, needs[i] \ {v})
    BY <1>5 DEF ConsumeRelation
  <2>2. /\ UNCHANGED <<relations, observed, needs>>
        /\ pc = "scan" /\ pc' = "propagate"
    BY <1>5 DEF ConsumeRelation
  <2>3. /\ v \notin Known /\ x \in Bounds[v] /\ i \notin used
        /\ needs[i] \ {v} \in SUBSET Known
        /\ needs[i] \subseteq Known \cup {v}
    BY <2>1 DEF Determines, IsRoot
  <2>4. OneSource' /\ Provenance' /\ WithinBounds' /\ UsedIsKnown'
    BY <1>1, <2>1, <2>2, <2>3, LearnSound DEF Inductive
  <2>5. Untouched' /\ NeedsAreTraced'
    BY <2>2 DEF Inductive, Untouched, NeedsAreTraced, Index
  <2>6. QED
    BY <1>1, <2>4, <2>5 DEF Inductive
<1>6. CASE RepeatPass \/ EndPropagation \/ RepeatScan \/ EndDerivation
  <2>1. /\ UNCHANGED <<observed, known, derived, used, relations, needs>>
        /\ pc \in {"propagate", "scan"} /\ pc' # "trace"
    BY <1>6 DEF RepeatPass, EndPropagation, RepeatScan, EndDerivation,
                PassIsOver, Settled, ScanIsOver
  <2>2. QED
    BY <2>1, <1>1, NothingLearnt DEF Inductive, Untouched, NeedsAreTraced, Index
<1>7. CASE SkipUsed \/ ReportGap \/ CheckRecord \/ CheckRefused \/ Report
  <2>1. /\ UNCHANGED <<observed, known, derived, used, relations, needs>>
        /\ pc = "check" /\ pc' # "trace"
    BY <1>7 DEF SkipUsed, ReportGap, CheckRecord, CheckRefused, Report, Stop
  <2>2. QED
    BY <2>1, <1>1, NothingLearnt DEF Inductive, Untouched, NeedsAreTraced, Index
<1>8. CASE UNCHANGED vars
  <2>1. UNCHANGED <<observed, known, derived, used, relations, needs, pc>>
    BY <1>8 DEF vars
  <2>2. QED
    BY <2>1, <1>1, NothingLearnt DEF Inductive, Untouched, NeedsAreTraced, Index
<1>9. QED
  BY <1>2, <1>3, <1>4, <1>5, <1>6, <1>7, <1>8 DEF Next

(* Every value has one source, its provenance is grounded in the snapshot, *)
(* and derived values stay inside their windows.                           *)
THEOREM SoundDerivation == Spec => [](OneSource /\ Provenance /\ WithinBounds)
<1>1. Inductive => OneSource /\ Provenance /\ WithinBounds
  BY DEF Inductive
<1>2. QED
  BY <1>1, InitInductive, NextInductive, PTL DEF Spec


-----------------------------------------------------------------------------
(* The scans implement the promise.  What they know beside Inductive: a    *)
(* scan that has changed nothing started at the first record, a settled    *)
(* derivation leaves nothing to consume, and the checks made so far are    *)
(* those of the records before index.                                      *)
Running == pc # "done" => outcome = "none"

ScansStartAtFirst ==
  /\ pc = "trace" => index = 1
  /\ pc \in {"trace", "propagate", "scan"} => (~changed => index = 1)

NothingReady == pc = "check" => \A i \in Index : ~Ready(i)

Passed == {i \in Index \ used : i < index}

ChecksMade ==
  /\ index <= Len(relations) + 1
  /\ checked = {i \in Passed : Evaluable(i)}
  /\ unchecked = {i \in Passed : ~Evaluable(i)}
  /\ \A i \in checked : Residual(relations[i], Filled(known)) # "refused"

ChecksSoFar ==
  /\ pc \in {"trace", "propagate", "scan"} => checked = {} /\ unchecked = {}
  /\ pc = "check" => ChecksMade

Scanning == Inductive /\ Running /\ ScansStartAtFirst /\ NothingReady /\ ChecksSoFar

LEMMA InitScanning == Init => Scanning
<1> SUFFICES ASSUME Init PROVE Scanning
  OBVIOUS
<1>1. Inductive
  BY InitInductive
<1>2. Running /\ ScansStartAtFirst /\ NothingReady /\ ChecksSoFar
  BY DEF Init, Running, ScansStartAtFirst, NothingReady, ChecksSoFar
<1>3. QED
  BY <1>1, <1>2 DEF Scanning

(* Where the checks begin none has been made.                              *)
LEMMA NoChecksYet ==
  ASSUME TypeOK', checked' = {}, unchecked' = {}, index' = 1
  PROVE  ChecksMade'
<1>1. Len(relations') \in Nat
  BY DEF TypeOK
<1>2. Passed' = {}
  BY <1>1 DEF Passed, Index
<1>3. QED
  BY <1>1, <1>2 DEF ChecksMade

(* One check, or one gap, is added to those before.                        *)
LEMMA CheckMoves ==
  ASSUME TypeOK, ChecksMade, UNCHANGED <<relations, needs, known, used>>,
         index <= Len(relations), index' = index + 1,
         checked' = IF index \notin used /\ Evaluable(index) THEN checked \cup {index} ELSE checked,
         unchecked' = IF index \notin used /\ ~Evaluable(index) THEN unchecked \cup {index} ELSE unchecked,
         index \notin used /\ Evaluable(index) => Residual(relations[index], Filled(known)) # "refused"
  PROVE  ChecksMade'
<1>1. Len(relations) \in Nat /\ index \in Nat \ {0}
  BY DEF TypeOK
<1>2. Passed' = Passed \cup ({index} \ used)
  BY <1>1 DEF Passed, Index
<1>3. \A i \in Index : Evaluable(i)' = Evaluable(i)
  BY DEF Evaluable, Missing, Known
<1>4. Passed \subseteq Index /\ index \in Index /\ Passed' \subseteq Index
  BY <1>1, <1>2 DEF Passed, Index
<1>5. checked' = {i \in Passed' : Evaluable(i)'}
  BY <1>2, <1>3, <1>4 DEF ChecksMade
<1>6. unchecked' = {i \in Passed' : ~Evaluable(i)'}
  BY <1>2, <1>3, <1>4 DEF ChecksMade
<1>7. \A i \in checked' : Residual(relations[i], Filled(known)) # "refused"
  BY DEF ChecksMade
<1>8. QED
  BY <1>1, <1>5, <1>6, <1>7 DEF ChecksMade

LEMMA NextScanning == Scanning /\ [Next]_vars => Scanning'
<1> SUFFICES ASSUME Scanning, [Next]_vars PROVE Scanning'
  OBVIOUS
<1> USE DEF problem, scan
<1>1. Inductive /\ Inductive' /\ TypeOK /\ TypeOK'
  BY NextInductive DEF Scanning, Inductive
<1>2. CASE TraceRefused
  BY <1>1, <1>2 DEF TraceRefused, Stop, Scanning, Running, ScansStartAtFirst, NothingReady, ChecksSoFar
<1>3. CASE Trace
  <2>1. /\ UNCHANGED <<relations, known, used, index, changed, checked, unchecked, outcome>>
        /\ pc = "trace" /\ pc' = IF Missing = {} THEN "check" ELSE "propagate"
    BY <1>3 DEF Trace
  <2>2. /\ index' = 1 /\ checked' = {} /\ unchecked' = {} /\ outcome' = "none"
    BY <2>1 DEF Scanning, ScansStartAtFirst, ChecksSoFar, Running
  <2>3. ChecksSoFar'
    BY <1>1, <2>1, <2>2, NoChecksYet DEF ChecksSoFar
  <2>4. NothingReady'
    <3>1. pc' = "check" => Var \subseteq Known'
      BY <2>1 DEF Missing, Known
    <3>2. \A i \in Index' : needs'[i] \subseteq Var
      BY <1>1 DEF TypeOK
    <3>3. QED
      BY <3>1, <3>2 DEF NothingReady, Ready, Determines
  <2>5. QED
    BY <1>1, <2>1, <2>2, <2>3, <2>4 DEF Scanning, Running, ScansStartAtFirst
<1>4. ASSUME NEW i \in Index, PropagateEdge(i) PROVE Scanning'
  <2>1. /\ UNCHANGED <<index, changed, checked, unchecked, outcome>>
        /\ pc = "propagate" /\ pc' = "propagate"
    BY <1>4 DEF PropagateEdge
  <2>2. QED
    BY <1>1, <2>1 DEF Scanning, Running, ScansStartAtFirst, NothingReady, ChecksSoFar
<1>5. ASSUME NEW i \in Index, ConsumeRelation(i) PROVE Scanning'
  <2>1. /\ UNCHANGED <<checked, unchecked, outcome>>
        /\ changed' = TRUE
        /\ pc = "scan" /\ pc' = "propagate"
    BY <1>5 DEF ConsumeRelation
  <2>2. QED
    BY <1>1, <2>1 DEF Scanning, Running, ScansStartAtFirst, NothingReady, ChecksSoFar
<1>6. CASE RepeatPass \/ EndPropagation
  <2>1. /\ UNCHANGED <<index, changed, checked, unchecked, outcome>>
        /\ pc = "propagate" /\ pc' \in {"propagate", "scan"}
    BY <1>6 DEF RepeatPass, EndPropagation, PassIsOver
  <2>2. QED
    BY <1>1, <2>1 DEF Scanning, Running, ScansStartAtFirst, NothingReady, ChecksSoFar
<1>7. CASE RepeatScan
  <2>1. /\ UNCHANGED <<checked, unchecked, outcome>>
        /\ index' = 1
        /\ pc = "scan" /\ pc' = "scan"
    BY <1>7 DEF RepeatScan, ScanIsOver
  <2>2. QED
    BY <1>1, <2>1 DEF Scanning, Running, ScansStartAtFirst, NothingReady, ChecksSoFar
<1>8. CASE EndDerivation
  <2>1. /\ UNCHANGED <<relations, needs, known, used, checked, unchecked, outcome>>
        /\ index' = 1
        /\ pc = "scan" /\ pc' = "check"
        /\ ~changed /\ \A j \in Index : index <= j => ~Ready(j)
    BY <1>8 DEF EndDerivation, Settled, ScanIsOver
  <2>2. \A j \in Index : ~Ready(j)
    BY <2>1 DEF Scanning, ScansStartAtFirst, Index
  <2>3. NothingReady'
    BY <2>1, <2>2 DEF NothingReady, Ready, Determines, Known, Index
  <2>4. checked' = {} /\ unchecked' = {} /\ outcome' = "none"
    BY <2>1 DEF Scanning, ChecksSoFar, Running
  <2>5. ChecksSoFar'
    BY <1>1, <2>1, <2>4, NoChecksYet DEF ChecksSoFar
  <2>6. QED
    BY <1>1, <2>1, <2>3, <2>4, <2>5 DEF Scanning, Running, ScansStartAtFirst
<1>9. CASE SkipUsed \/ ReportGap \/ CheckRecord
  <2>1. /\ UNCHANGED <<relations, needs, known, used, outcome>>
        /\ index' = index + 1
        /\ pc = "check" /\ pc' = "check"
    BY <1>9 DEF SkipUsed, ReportGap, CheckRecord
  <2>2. index \in Index
    BY <1>9, <1>1 DEF SkipUsed, ReportGap, CheckRecord, Unconsumed, TypeOK
  <2>3. /\ checked' = IF index \notin used /\ Evaluable(index) THEN checked \cup {index} ELSE checked
        /\ unchecked' = IF index \notin used /\ ~Evaluable(index) THEN unchecked \cup {index} ELSE unchecked
        /\ index \notin used /\ Evaluable(index) => Residual(relations[index], Filled(known)) # "refused"
    BY <1>9, <2>2 DEF SkipUsed, ReportGap, CheckRecord, Unconsumed
  <2>4. index <= Len(relations)
    BY <2>2 DEF Index
  <2>5. ChecksMade
    BY <2>1 DEF Scanning, ChecksSoFar
  <2>6. ChecksSoFar'
    BY <1>1, <2>1, <2>3, <2>4, <2>5, CheckMoves DEF ChecksSoFar
  <2>7. NothingReady'
    BY <2>1 DEF Scanning, NothingReady, Ready, Determines, Known, Index
  <2>8. QED
    BY <1>1, <2>1, <2>6, <2>7 DEF Scanning, Running, ScansStartAtFirst
<1>10. CASE CheckRefused \/ Report
  <2>1. pc' = "done"
    BY <1>10 DEF CheckRefused, Report, Stop
  <2>2. QED
    BY <1>1, <2>1 DEF Scanning, Running, ScansStartAtFirst, NothingReady, ChecksSoFar
<1>11. CASE UNCHANGED vars
  <2>1. UNCHANGED <<relations, needs, known, used, pc, index, changed, checked, unchecked, outcome>>
    BY <1>11 DEF vars
  <2>2. Running' /\ ScansStartAtFirst'
    BY <2>1 DEF Scanning, Running, ScansStartAtFirst
  <2>3. NothingReady'
    BY <2>1 DEF Scanning, NothingReady, Ready, Determines, Known, Index
  <2>4. ChecksSoFar'
    BY <2>1 DEF Scanning, ChecksSoFar, ChecksMade, Passed, Evaluable, Missing, Known, Index
  <2>5. QED
    BY <1>1, <2>2, <2>3, <2>4 DEF Scanning
<1>12. QED
  BY <1>2, <1>3, <1>4, <1>5, <1>6, <1>7, <1>8, <1>9, <1>10, <1>11 DEF Next


(* The promise speaks of relations in the same words.                      *)
LEMMA SameWords ==
  /\ Promise!Partial = Partial
  /\ \A partial : Promise!KnownIn(partial) = KnownIn(partial)
  /\ \A partial : Promise!Filled(partial) = Filled(partial)
  /\ \A r : Promise!Consumable(r) <=> Consumable(r)
  /\ \A r, v, x, env : Promise!IsRoot(r, v, x, env) <=> IsRoot(r, v, x, env)
  /\ \A records, env : Promise!AuditPasses(records, env) <=> AuditPasses(records, env)
BY DEF Promise!Partial, Partial, Promise!KnownIn, KnownIn, Promise!Filled, Filled,
       Promise!Consumable, Consumable, Promise!IsRoot, IsRoot,
       Promise!AuditPasses, AuditPasses, Promise!Participates, Participates,
       Promise!Consumable, Consumable

LEMMA SameState ==
  /\ Promise!Known = Known
  /\ Promise!Index = Index
  /\ Promise!Missing = Missing
  /\ \A i : Promise!Needs(i) = Reads(relations[i], Filled(observed))
  /\ \A i : Promise!Refuses(i) <=> Residual(relations[i], Filled(known)) = "refused"
BY SameWords DEF Promise!Known, Known, Promise!Index, Index, Promise!Missing, Missing,
                 Promise!Needs, Promise!Refuses

(* A derivation is one the promise allows.                                 *)
LEMMA MayDerive ==
  ASSUME Scanning, pc \in {"propagate", "scan"}, NEW i \in Index,
         NEW v \in Var, NEW x \in Value,
         relations[i].traced, Consumable(relations[i]), i \notin used,
         needs[i] \ Known = {v}, IsRoot(relations[i], v, x, Filled(known)),
         known' = [known EXCEPT ![v] = x], used' = used \cup {i},
         UNCHANGED <<problem, checked, unchecked, outcome>>
  PROVE  Promise!Next
<1>1. needs[i] = Promise!Needs(i)
  BY SameState DEF Scanning, Inductive, NeedsAreTraced
<1>2. Promise!Known = Known /\ Promise!Index = Index
  BY SameState
<1>3. Promise!CanDerive(i, v, x)
  BY <1>1, <1>2, SameWords DEF Promise!CanDerive
<1>4. outcome = "none"
  BY DEF Scanning, Running
<1>5. UNCHANGED Promise!problem
  BY DEF problem, Promise!problem
<1>6. /\ (IF Judged THEN checked ELSE {})' = IF Judged THEN checked ELSE {}
      /\ (IF Judged THEN unchecked ELSE {})' = IF Judged THEN unchecked ELSE {}
  BY DEF Judged
<1>7. Promise!Derive(i)
  BY <1>3, <1>4, <1>5, <1>6 DEF Promise!Derive
<1>8. QED
  BY <1>2, <1>7 DEF Promise!Next

(* A connection has the value it carries for its one root.                 *)
LEMMA CarriedIsRoot ==
  ASSUME TypeOK, NEW i \in Index, NEW source \in Var, NEW target \in Var,
         Carries(i, source, target)
  PROVE  /\ relations[i].traced /\ Consumable(relations[i])
         /\ IsRoot(relations[i], target, known[source], Filled(known))
<1> DEFINE r == relations[i]
<1>1. r \in Relation /\ r.kind = "connection" /\ r.traced /\ r.from \in Var /\ r.to \in Var
  BY RelationsAssumption DEF TypeOK, Index, Carries
<1>2. /\ known[source] \in Bounds[target] /\ source # target /\ known[source] # Unknown
      /\ {source, target} = {r.from, r.to}
      /\ known \in Partial
  BY DEF Carries, Known, KnownIn, TypeOK
<1>3. Filled(known) \in Env /\ Filled(known)[source] = known[source]
  BY <1>2, FilledType DEF Filled
<1>4. ASSUME NEW y \in Bounds[target]
      PROVE  LET res == Residual(r, [Filled(known) EXCEPT ![target] = y])
             IN  res # "refused" /\ (res = "zero" <=> y = known[source])
  <2> DEFINE env == [Filled(known) EXCEPT ![target] = y]
  <2>1. env \in Env
    BY <1>3, BoundsAreValues DEF Env
  <2>2. env[target] = y /\ env[source] = known[source]
    BY <1>2, <1>3 DEF Env
  <2>3. Residual(r, env) # "refused" /\ (Residual(r, env) = "zero" <=> env[r.from] = env[r.to])
    <3> HIDE DEF env
    <3> QED BY <1>1, <2>1, EvaluationAssumption
  <2>4. env[r.from] = env[r.to] <=> y = known[source]
    <3> HIDE DEF env
    <3> QED BY <1>2, <2>2
  <2>5. QED
    BY <2>3, <2>4
<1>5. IsRoot(r, target, known[source], Filled(known))
  BY <1>2, <1>4 DEF IsRoot
<1>6. QED
  BY <1>1, <1>5 DEF Consumable

(* At the checks the promise has nothing left to derive, and what may be   *)
(* evaluated is what it calls open.                                        *)
LEMMA ChecksAreOpen ==
  ASSUME Scanning, pc = "check"
  PROVE  /\ Promise!Exhausted
         /\ Promise!Open = {i \in Index \ used : Evaluable(i)}
         /\ Promise!Index = Index /\ Promise!Missing = Missing
<1>1. Promise!Known = Known /\ Promise!Index = Index
  BY SameState
<1>2. Promise!Missing = Missing
  BY SameState
<1>3. \A i \in Index : needs[i] = Promise!Needs(i)
  BY SameState DEF Scanning, Inductive, NeedsAreTraced
<1>4. Promise!Exhausted
  <2> SUFFICES ASSUME NEW i \in Index, NEW v \in Var, NEW x \in Value, Promise!CanDerive(i, v, x)
               PROVE  FALSE
    BY <1>1 DEF Promise!Exhausted
  <2>1. Determines(i, v, x)
    BY <1>1, <1>3, SameWords DEF Promise!CanDerive, Determines
  <2>2. QED
    BY <2>1 DEF Scanning, NothingReady, Ready
<1>5. Promise!Open = {i \in Index \ used : Evaluable(i)}
  BY <1>1, <1>2, <1>3 DEF Promise!Open, Evaluable
<1>6. QED
  BY <1>1, <1>2, <1>4, <1>5

(* While there is no verdict, what the promise sees does not change unless *)
(* the values do.                                                          *)
LEMMA Unseen ==
  ASSUME outcome = "none", UNCHANGED <<problem, known, used, outcome>>
  PROVE  UNCHANGED Promise!vars
BY DEF Promise!vars, Promise!problem, problem, Judged

LEMMA StepKeepsPromise == Scanning /\ [Next]_vars => [Promise!Next]_(Promise!vars)
<1> SUFFICES ASSUME Scanning, [Next]_vars PROVE [Promise!Next]_(Promise!vars)
  OBVIOUS
<1>1. TypeOK
  BY DEF Scanning, Inductive
<1>2. CASE TraceRefused
  <2>1. /\ known = observed /\ outcome = "none"
        /\ UNCHANGED <<problem, known, used, checked, unchecked>> /\ outcome' = "refused"
        /\ \E i \in Index : Residual(relations[i], Filled(known)) = "refused"
    BY <1>2 DEF TraceRefused, Stop, Scanning, Running, Inductive, Untouched
  <2>2. Promise!Refuse
    BY <2>1, SameState DEF Promise!Refuse, Promise!problem, problem, Judged
  <2>3. QED
    BY <2>2 DEF Promise!Next
<1>3. CASE Trace
  <2>1. outcome = "none" /\ UNCHANGED <<problem, known, used, outcome>>
    BY <1>3 DEF Trace, Scanning, Running
  <2>2. QED
    BY <2>1, Unseen
<1>4. ASSUME NEW i \in Index, PropagateEdge(i) PROVE Promise!Next
  <2>1. PICK source \in Var, target \in Var :
          Carries(i, source, target) /\ Learn(target, known[source], i, {source})
    BY <1>4 DEF PropagateEdge
  <2>2. pc = "propagate" /\ UNCHANGED <<problem, checked, unchecked, outcome>>
    BY <1>4 DEF PropagateEdge
  <2>3. known[source] \in Value /\ target \notin Known /\ source \in Known
    BY <1>1, <2>1, CarriesType DEF Carries
  <2>4. relations[i] \in Relation /\ Filled(observed) \in Env
    BY <1>1, FilledType DEF TypeOK, Index
  <2>5. needs[i] = {source, target}
    <3>1. needs[i] = Reads(relations[i], Filled(observed))
      BY <2>2 DEF Scanning, Inductive, NeedsAreTraced
    <3>2. needs[i] = {relations[i].from, relations[i].to}
      BY <3>1, <2>4, <2>1, EvaluationAssumption DEF Carries
    <3>3. QED
      BY <3>2, <2>1 DEF Carries
  <2>6. i \notin used /\ needs[i] \ Known = {target}
    BY <2>3, <2>5 DEF Scanning, Inductive, UsedIsKnown
  <2>7. /\ relations[i].traced /\ Consumable(relations[i])
        /\ IsRoot(relations[i], target, known[source], Filled(known))
    BY <1>1, <2>1, CarriedIsRoot
  <2>8. known' = [known EXCEPT ![target] = known[source]] /\ used' = used \cup {i}
    BY <2>1 DEF Learn
  <2>9. QED
    BY <2>2, <2>3, <2>6, <2>7, <2>8, MayDerive
<1>5. ASSUME NEW i \in Index, ConsumeRelation(i) PROVE Promise!Next
  <2>1. PICK v \in Var, x \in Value :
          Determines(i, v, x) /\ Learn(v, x, i, needs[i] \ {v})
    BY <1>5 DEF ConsumeRelation
  <2>2. pc = "scan" /\ UNCHANGED <<problem, checked, unchecked, outcome>>
    BY <1>5 DEF ConsumeRelation
  <2>3. known' = [known EXCEPT ![v] = x] /\ used' = used \cup {i}
    BY <2>1 DEF Learn
  <2>4. QED
    BY <2>1, <2>2, <2>3, MayDerive DEF Determines
<1>6. CASE RepeatPass \/ EndPropagation \/ RepeatScan \/ EndDerivation \/ SkipUsed
             \/ ReportGap \/ CheckRecord
  <2>1. UNCHANGED <<problem, known, used, outcome>> /\ pc # "done"
    BY <1>6 DEF RepeatPass, EndPropagation, RepeatScan, EndDerivation, SkipUsed, ReportGap,
                CheckRecord, PassIsOver, Settled, ScanIsOver
  <2>2. outcome = "none"
    BY <2>1 DEF Scanning, Running
  <2>3. QED
    BY <2>1, <2>2, Unseen
<1>7. CASE CheckRefused
  <2>1. /\ pc = "check" /\ index \in Index \ used /\ Evaluable(index)
        /\ Residual(relations[index], Filled(known)) = "refused"
        /\ outcome' = "refused"
        /\ UNCHANGED <<problem, known, used, checked, unchecked>>
    BY <1>7 DEF CheckRefused, Stop, Unconsumed
  <2>2. outcome = "none"
    BY <2>1 DEF Scanning, Running
  <2>3. Promise!Exhausted /\ index \in Promise!Open
    BY <2>1, ChecksAreOpen
  <2>4. Promise!Refuses(index)
    BY <2>1, SameState
  <2>5. Promise!Refuse
    BY <2>1, <2>2, <2>3, <2>4 DEF Promise!Refuse, Promise!problem, problem, Judged
  <2>6. QED
    BY <2>5 DEF Promise!Next
<1>8. CASE Report
  <2>1. /\ pc = "check" /\ index > Len(relations)
        /\ outcome' = Verdict
        /\ UNCHANGED <<problem, known, used, checked, unchecked>>
    BY <1>8 DEF Report, Stop
  <2>2. outcome = "none"
    BY <2>1 DEF Scanning, Running
  <2>3. Passed = Index \ used
    BY <1>1, <2>1 DEF Passed, Index, TypeOK
  <2>4. checked = {i \in Index \ used : Evaluable(i)} /\ unchecked = {i \in Index \ used : ~Evaluable(i)}
    BY <2>1, <2>3 DEF Scanning, ChecksSoFar, ChecksMade
  <2>5. /\ Promise!Exhausted /\ checked = Promise!Open
        /\ Promise!Index = Index /\ Promise!Missing = Missing
    BY <2>1, <2>4, ChecksAreOpen
  <2>6. unchecked = (Promise!Index \ used) \ Promise!Open
    BY <2>4, <2>5
  <2>7. \A i \in Promise!Open : ~Promise!Refuses(i)
    BY <2>1, <2>5, SameState DEF Scanning, ChecksSoFar, ChecksMade
  <2>8. Judged'
    BY <2>1 DEF Judged, Verdict
  <2>9. /\ (IF Judged THEN checked ELSE {})' = Promise!Open
        /\ (IF Judged THEN unchecked ELSE {})' = (Promise!Index \ used) \ Promise!Open
    BY <2>1, <2>5, <2>6, <2>8
  <2>10. outcome' = IF Promise!Missing # {} /\ ~skip THEN "missing"
                    ELSE IF Promise!Open = {} THEN "no_check"
                    ELSE IF AuditPasses({relations[i] : i \in Promise!Open}, Filled(known))
                         THEN "pass" ELSE "fail"
    BY <2>1, <2>5 DEF Verdict
  <2>11. Promise!Judge
    BY <2>1, <2>2, <2>5, <2>7, <2>9, <2>10, SameWords DEF Promise!Judge, Promise!problem, problem
  <2>12. QED
    BY <2>11 DEF Promise!Next
<1>9. CASE UNCHANGED vars
  BY <1>9 DEF vars, problem, Promise!vars, Promise!problem, Judged
<1>10. QED
  BY <1>2, <1>3, <1>4, <1>5, <1>6, <1>7, <1>8, <1>9 DEF Next

(* The evaluation implements the promise: each of its derivations, in the  *)
(* order of its scans, is one that any order could make, and it judges     *)
(* when nothing can be derived any more, on every record not consumed.     *)
THEOREM ScansKeepPromise == Spec => ImplementsPromise
<1>1. Init => Promise!Init
  BY SameWords DEF Init, Promise!Init, Judged
<1>2. QED
  BY <1>1, InitScanning, NextScanning, StepKeepsPromise, PTL
  DEF Spec, ImplementsPromise, Promise!Spec

-----------------------------------------------------------------------------
(* When no relation chooses what it reads, what a record was traced to     *)
(* read is what it reads at any values, so that a value derived later      *)
(* neither disturbs a consumed relation nor shows a check a guess.         *)
Straight == \A r \in Relation : StraightLine(r)

Evaluated ==
  /\ \A i \in used \cup checked : needs[i] = Reads(relations[i], Filled(observed))
  /\ \A i \in checked : Evaluable(i)

Undisturbed == Scanning /\ Evaluated /\ NoGuessIsEvidence /\ ProducersHold

LEMMA ReadsAsTraced ==
  ASSUME Straight, TypeOK, NEW i \in Index, NEW partial \in Partial
  PROVE  Reads(relations[i], Filled(partial)) = Reads(relations[i], Filled(observed))
<1>1. relations[i] \in Relation
  BY DEF TypeOK, Index
<1>2. Filled(partial) \in Env /\ Filled(observed) \in Env
  BY FilledType DEF TypeOK
<1>3. QED
  BY <1>1, <1>2 DEF Straight, StraightLine

(* What is evaluated reads known values only.                              *)
LEMMA NothingGuessed ==
  Straight /\ TypeOK /\ UsedIsKnown /\ Evaluated => NoGuessIsEvidence
<1> SUFFICES ASSUME Straight, TypeOK, UsedIsKnown, Evaluated, NEW i \in used \cup checked
             PROVE  Reads(relations[i], Filled(known)) \subseteq Known
  BY DEF NoGuessIsEvidence
<1>1. i \in Index /\ known \in Partial
  BY DEF TypeOK
<1>2. Reads(relations[i], Filled(known)) = needs[i]
  BY <1>1, ReadsAsTraced DEF Evaluated
<1>3. needs[i] \subseteq Var
  BY <1>1 DEF TypeOK
<1>4. needs[i] \subseteq Known
  BY <1>3 DEF UsedIsKnown, Evaluated, Evaluable, Missing
<1>5. QED
  BY <1>2, <1>4

(* A value for an unknown leaves relations that read known values as they  *)
(* are, and is the root of the relation it came from.                      *)
LEMMA LearnUndisturbed ==
  ASSUME Undisturbed, NEW i \in Index, NEW v \in Var, v \notin Known, NEW x \in Bounds[v],
         IsRoot(relations[i], v, x, Filled(known)),
         known' = [known EXCEPT ![v] = x], used' = used \cup {i}, UNCHANGED relations
  PROVE  ProducersHold'
<1>1. TypeOK /\ known \in Partial /\ x \in Value
  BY BoundsAreValues DEF Undisturbed, Scanning, Inductive, TypeOK
<1>2. Filled(known) \in Env /\ Filled(known') = [Filled(known) EXCEPT ![v] = x]
  <2>1. Filled(known) \in Env
    BY <1>1, FilledType
  <2>2. Filled(known') = [Filled(known) EXCEPT ![v] = x]
    BY <1>1, RelationsAssumption DEF Filled, Partial
  <2>3. QED
    BY <2>1, <2>2
<1>3. Filled(known') \in Env
  BY <1>1, <1>2 DEF Env
<1>4. Residual(relations[i], Filled(known')) = "zero"
  BY <1>2 DEF IsRoot
<1>5. ASSUME NEW j \in used PROVE Residual(relations[j], Filled(known')) = "zero"
  <2>1. relations[j] \in Relation
    BY <1>1 DEF TypeOK, Index
  <2>2. \A w \in Reads(relations[j], Filled(known)) : Filled(known)[w] = Filled(known')[w]
    BY <1>2 DEF Undisturbed, NoGuessIsEvidence, Env, Known, KnownIn
  <2>3. Residual(relations[j], Filled(known')) = Residual(relations[j], Filled(known))
    BY <1>2, <1>3, <2>1, <2>2, LocalityAssumption
  <2>4. QED
    BY <2>3 DEF Undisturbed, ProducersHold
<1>6. QED
  BY <1>4, <1>5 DEF ProducersHold

LEMMA InitUndisturbed == Init => Undisturbed
BY InitScanning DEF Init, Undisturbed, Evaluated, NoGuessIsEvidence, ProducersHold

LEMMA NextUndisturbed ==
  ASSUME Straight PROVE Undisturbed /\ [Next]_vars => Undisturbed'
<1> SUFFICES ASSUME Undisturbed, [Next]_vars PROVE Undisturbed'
  OBVIOUS
<1> USE DEF problem, scan
<1>1. /\ Scanning /\ Scanning' /\ Inductive /\ Inductive'
      /\ TypeOK /\ TypeOK' /\ UsedIsKnown /\ UsedIsKnown'
  BY NextScanning DEF Undisturbed, Scanning, Inductive
<1>2. ASSUME Evaluated', ProducersHold' PROVE Undisturbed'
  <2>1. NoGuessIsEvidence'
    <3>1. Straight /\ TypeOK' /\ UsedIsKnown' /\ Evaluated' => NoGuessIsEvidence'
      BY NothingGuessed, PTL
    <3>2. QED
      BY <1>1, <1>2, <3>1
  <2>2. QED
    BY <1>1, <1>2, <2>1 DEF Undisturbed
<1>3. CASE \E i \in Index : PropagateEdge(i) \/ ConsumeRelation(i)
  <2>1. PICK i \in Index : PropagateEdge(i) \/ ConsumeRelation(i)
    BY <1>3
  <2>2. PICK v \in Var, x \in Value :
          /\ v \notin Known /\ x \in Bounds[v]
          /\ IsRoot(relations[i], v, x, Filled(known))
          /\ known' = [known EXCEPT ![v] = x] /\ used' = used \cup {i}
    <3>1. CASE PropagateEdge(i)
      BY <1>1, <3>1, CarriesType, CarriedIsRoot DEF PropagateEdge, Learn
    <3>2. CASE ConsumeRelation(i)
      BY <3>2 DEF ConsumeRelation, Learn, Determines, IsRoot
    <3>3. QED
      BY <2>1, <3>1, <3>2
  <2>3. /\ UNCHANGED <<relations, observed, needs, checked>>
        /\ pc \in {"propagate", "scan"}
    BY <2>1 DEF PropagateEdge, ConsumeRelation
  <2>4. checked = {}
    BY <1>1, <2>3 DEF Scanning, ChecksSoFar
  <2>5. needs[i] = Reads(relations[i], Filled(observed))
    BY <1>1, <2>3 DEF Inductive, NeedsAreTraced
  <2>6. Evaluated'
    BY <2>2, <2>3, <2>4, <2>5 DEF Undisturbed, Evaluated
  <2>7. ProducersHold'
    BY <2>2, <2>3, LearnUndisturbed
  <2>8. QED
    BY <1>2, <2>6, <2>7
<1>4. CASE Trace
  <2>1. used' = {} /\ checked' = {}
    BY <1>1, <1>4 DEF Trace, Inductive, Untouched, Scanning, ChecksSoFar
  <2>2. QED
    BY <1>2, <2>1 DEF Evaluated, ProducersHold
<1>5. CASE \/ TraceRefused \/ RepeatPass \/ EndPropagation \/ RepeatScan \/ EndDerivation
           \/ SkipUsed \/ ReportGap \/ CheckRefused \/ Report \/ UNCHANGED vars
  <2>1. UNCHANGED <<relations, observed, needs, known, used, checked>>
    BY <1>5 DEF TraceRefused, RepeatPass, EndPropagation, RepeatScan, EndDerivation,
                SkipUsed, ReportGap, CheckRefused, Report, Stop, vars
  <2>2. Evaluated' /\ ProducersHold'
    BY <2>1 DEF Undisturbed, Evaluated, Evaluable, Missing, Known, ProducersHold
  <2>3. QED
    BY <1>2, <2>2
<1>6. CASE CheckRecord
  <2>1. /\ UNCHANGED <<relations, observed, needs, known, used>>
        /\ checked' = checked \cup {index}
        /\ pc = "check" /\ Evaluable(index) /\ index \in Index
    BY <1>6 DEF CheckRecord, Unconsumed
  <2>2. needs[index] = Reads(relations[index], Filled(observed))
    BY <1>1, <2>1 DEF Inductive, NeedsAreTraced
  <2>3. Evaluated' /\ ProducersHold'
    BY <2>1, <2>2 DEF Undisturbed, Evaluated, Evaluable, Missing, Known, ProducersHold
  <2>4. QED
    BY <1>2, <2>3
<1>7. QED
  BY <1>3, <1>4, <1>5, <1>6 DEF Next

(* When no relation chooses what it reads, checks and derivations look at  *)
(* known values only, and a consumed relation agrees with the final ones.  *)
THEOREM StraightLinesAreSound ==
  ASSUME Straight PROVE Spec => [](NoGuessIsEvidence /\ ProducersHold)
<1>1. Undisturbed => NoGuessIsEvidence /\ ProducersHold
  BY DEF Undisturbed
<1>2. Undisturbed /\ [Next]_vars => Undisturbed'
  BY NextUndisturbed
<1>3. QED
  BY <1>1, <1>2, InitUndisturbed, PTL DEF Spec

(* Nothing is derived from itself: the chain of dependencies of a derived  *)
(* value starts at the snapshot (_derive_unobserved consumes a relation    *)
(* when one of its variables is missing, the others known by then).        *)
THEOREM DerivationsAreGrounded == Spec => []Provenance
  BY SoundDerivation, PTL

(* No value outside its variable's window is derived, by a root search     *)
(* (_derive_unobserved) or over a connection (_propagate_connections).     *)
THEOREM DerivedInWindows == Spec => []WithinBounds
  BY SoundDerivation, PTL

(* A relation consumed by a derivation holds at the final values too, so   *)
(* that leaving it out of the checks (_checked_unconsumed) hides nothing.  *)
THEOREM ConsumedStayConsumed ==
  ASSUME Straight PROVE Spec => []ProducersHold
<1>1. Spec => [](NoGuessIsEvidence /\ ProducersHold)
  BY StraightLinesAreSound
<1>2. QED
  BY <1>1, PTL

-----------------------------------------------------------------------------
(* Termination.  What is left to do: a value more to derive may reopen the *)
(* propagation, and with it all that follows.                              *)
Left ==
  CASE pc = "trace" -> Len(relations) + 7
    [] pc = "propagate" -> Len(relations) + IF moved THEN 6 ELSE 5
    [] pc = "scan" -> Len(relations) + IF changed THEN 4 ELSE 3
    [] pc = "check" -> Len(relations) + 2 - index
    [] OTHER -> 0

Effort == 4 * Cardinality(Missing) + Left

(* The checks stop at the last record.                                     *)
ChecksInRange == /\ pc = "trace" => index = 1
                 /\ pc = "check" => index <= Len(relations) + 1

(* Some step can be taken: a pass and a scan either find their next record *)
(* or are over, and every record of the checks is treated in one way.      *)
CanGoOn ==
  \/ pc = "trace"
  \/ pc = "propagate" /\ (PassIsOver \/ \E i \in Index : /\ i >= edge /\ Live(i)
                                           /\ \A j \in Index : edge <= j /\ j < i => ~Live(j))
  \/ pc = "scan" /\ (ScanIsOver \/ \E i \in Index : /\ i >= index /\ Ready(i)
                                      /\ \A j \in Index : index <= j /\ j < i => ~Ready(j))
  \/ pc = "check" /\ (index > Len(relations) \/ index \in used \/ Unconsumed(index))

LEMMA MissingShrinks ==
  ASSUME TypeOK, IsFiniteSet(Var)
  PROVE  /\ IsFiniteSet(Missing) /\ Cardinality(Missing) \in Nat
         /\ Missing' = Missing => Cardinality(Missing') = Cardinality(Missing)
         /\ \A v \in Missing : Missing' = Missing \ {v} => Cardinality(Missing') = Cardinality(Missing) - 1
<1>1. Missing \in SUBSET Var
  BY DEF Missing
<1>2. IsFiniteSet(Missing) /\ Cardinality(Missing) \in Nat
  BY <1>1, FS_Subset, FS_CardinalityType
<1>3. QED
  BY <1>2, FS_RemoveElement

LEMMA EffortFalls ==
  ASSUME TypeOK, ChecksInRange, IsFiniteSet(Var)
  PROVE  /\ Effort \in Nat
         /\ Next => Effort' < Effort /\ ChecksInRange'
<1> DEFINE n == Len(relations)
           c == Cardinality(Missing)
<1>1. n \in Nat /\ c \in Nat /\ index \in Nat \ {0} /\ moved \in BOOLEAN /\ changed \in BOOLEAN
  BY MissingShrinks DEF TypeOK
<1>2. Left \in Nat /\ Left <= n + 7
  BY <1>1 DEF Left, ChecksInRange
<1>3. Effort = 4 * c + Left
  BY DEF Effort
<1> HIDE DEF n, c
<1>4. Effort \in Nat
  BY <1>1, <1>2, <1>3
<1>5. ASSUME Next PROVE Effort' < Effort /\ ChecksInRange'
  <2> USE DEF problem, scan
  <2>1. Len(relations)' = n
    BY <1>5 DEF Next, TraceRefused, Trace, PropagateEdge, RepeatPass, EndPropagation, ConsumeRelation,
      RepeatScan, EndDerivation, SkipUsed, ReportGap, CheckRecord, CheckRefused, Report, n
  <2>2. Effort' = 4 * Cardinality(Missing') + Left'
    BY DEF Effort
  <2> DEFINE Less == /\ \/ Cardinality(Missing') = c /\ Left' < Left
                        \/ Cardinality(Missing') = c - 1 /\ Left' <= n + 6 /\ Left >= n + 3
                     /\ Left' \in Nat /\ ChecksInRange'
  <2>3. SUFFICES Less
    BY <1>1, <1>2, <1>3, <2>2
  <2>4. known' = known => Cardinality(Missing') = c
    BY MissingShrinks DEF Missing, Known, c
  <2>5. ASSUME NEW v \in Var, NEW x \in Value, NEW i, NEW deps, v \notin Known, Learn(v, x, i, deps)
        PROVE  Cardinality(Missing') = c - 1
    <3>1. Known' = Known \cup {v}
      BY <2>5, KnownGrows DEF Learn, Known, TypeOK
    <3>2. Missing' = Missing \ {v} /\ v \in Missing
      BY <2>5, <3>1 DEF Missing
    <3>3. QED
      BY <3>2, MissingShrinks DEF c
  <2>6. ASSUME TraceRefused \/ Trace \/ RepeatPass \/ EndPropagation \/ RepeatScan \/ EndDerivation
               \/ CheckRefused \/ Report
        PROVE  Cardinality(Missing') = c /\ Left' < Left /\ Left' \in Nat /\ ChecksInRange'
    <3>1. CASE TraceRefused
      BY <1>1, <1>2, <2>1, <2>4, <3>1 DEF TraceRefused, Stop, Left, ChecksInRange, n
    <3>2. CASE Trace
      <4>1. Left = n + 7 /\ index = 1 /\ index' = 1 /\ moved' = moved
        BY <3>2 DEF Trace, Left, ChecksInRange, n
      <4>2. Left' <= n + 6 /\ Left' \in Nat
        <5>1. CASE pc' = "check"
          BY <1>1, <2>1, <4>1, <5>1 DEF Left, n
        <5>2. CASE pc' = "propagate"
          BY <1>1, <2>1, <4>1, <5>2 DEF Left, n
        <5>3. QED
          BY <3>2, <5>1, <5>2 DEF Trace
      <4>3. ChecksInRange'
        BY <1>1, <2>1, <3>2, <4>1 DEF Trace, ChecksInRange, n
      <4>4. QED
        BY <1>1, <2>4, <3>2, <4>1, <4>2, <4>3 DEF Trace
    <3>3. CASE RepeatPass
      BY <1>1, <1>2, <2>1, <2>4, <3>3 DEF RepeatPass, PassIsOver, Left, ChecksInRange, n
    <3>4. CASE EndPropagation
      BY <1>1, <1>2, <2>1, <2>4, <3>4 DEF EndPropagation, PassIsOver, Left, ChecksInRange, n
    <3>5. CASE RepeatScan
      BY <1>1, <1>2, <2>1, <2>4, <3>5 DEF RepeatScan, ScanIsOver, Left, ChecksInRange, n
    <3>6. CASE EndDerivation
      BY <1>1, <1>2, <2>1, <2>4, <3>6 DEF EndDerivation, Settled, ScanIsOver, Left, ChecksInRange, n
    <3>7. CASE CheckRefused
      BY <1>1, <1>2, <2>1, <2>4, <3>7 DEF CheckRefused, Stop, Left, ChecksInRange, n
    <3>8. CASE Report
      BY <1>1, <1>2, <2>1, <2>4, <3>8 DEF Report, Stop, Left, ChecksInRange, n
    <3>9. QED
      BY <2>6, <3>1, <3>2, <3>3, <3>4, <3>5, <3>6, <3>7, <3>8
  <2>7. ASSUME SkipUsed \/ ReportGap \/ CheckRecord
        PROVE  Cardinality(Missing') = c /\ Left' < Left /\ Left' \in Nat /\ ChecksInRange'
    <3>1. index \in Index
      BY <2>7 DEF SkipUsed, ReportGap, CheckRecord, Unconsumed, TypeOK
    <3>2. QED
      BY <1>1, <2>1, <2>4, <2>7, <3>1 DEF SkipUsed, ReportGap, CheckRecord, Left, ChecksInRange, Index, n
  <2>8. ASSUME NEW i \in Index, PropagateEdge(i)
        PROVE  Cardinality(Missing') = c - 1 /\ Left' = n + 6 /\ Left >= n + 5 /\ ChecksInRange'
    <3>1. PICK source \in Var, target \in Var :
            Carries(i, source, target) /\ Learn(target, known[source], i, {source})
      BY <2>8 DEF PropagateEdge
    <3>2. known[source] \in Value /\ target \notin Known
      BY <3>1, CarriesType
    <3>3. Cardinality(Missing') = c - 1
      BY <2>5, <3>1, <3>2
    <3>4. QED
      BY <1>1, <2>1, <2>8, <3>3 DEF PropagateEdge, Left, ChecksInRange, n
  <2>9. ASSUME NEW i \in Index, ConsumeRelation(i)
        PROVE  Cardinality(Missing') = c - 1 /\ Left' = n + 5 /\ Left >= n + 3 /\ ChecksInRange'
    <3>1. PICK v \in Var, x \in Value : Determines(i, v, x) /\ Learn(v, x, i, needs[i] \ {v})
      BY <2>9 DEF ConsumeRelation
    <3>2. v \notin Known
      BY <3>1 DEF Determines
    <3>3. Cardinality(Missing') = c - 1
      BY <2>5, <3>1, <3>2
    <3>4. QED
      BY <1>1, <2>1, <2>9, <3>3 DEF ConsumeRelation, Left, ChecksInRange, n
  <2>10. ASSUME NEW i \in Index, PropagateEdge(i) PROVE Less
    BY <1>1, <1>2, <2>8, <2>10
  <2>11. ASSUME NEW i \in Index, ConsumeRelation(i) PROVE Less
    BY <1>1, <2>9, <2>11
  <2>12. (TraceRefused \/ Trace \/ RepeatPass \/ EndPropagation \/ RepeatScan \/ EndDerivation
            \/ CheckRefused \/ Report \/ SkipUsed \/ ReportGap \/ CheckRecord) => Less
    BY <2>6, <2>7
  <2> HIDE DEF Less
  <2>13. QED
    BY <1>5, <2>10, <2>11, <2>12 DEF Next
<1>6. QED
  BY <1>4, <1>5

LEMMA LeastOne ==
  ASSUME NEW n \in Nat, NEW m \in Nat, NEW P, P \subseteq 1 .. n, \E k \in P : k >= m
  PROVE  \E k \in P : k >= m /\ \A j \in 1 .. n : m <= j /\ j < k => j \notin P
<1> DEFINE S == {k \in P : k >= m}
           Smaller == {ss \in Nat \X Nat : ss[1] < ss[2]}
<1>1. S \subseteq Nat /\ S # {}
  <2>1. S \subseteq 1 .. n
    OBVIOUS
  <2>2. 1 .. n \subseteq Nat
    OBVIOUS
  <2>3. S # {}
    OBVIOUS
  <2>4. QED
    BY <2>1, <2>2, <2>3
<1>2. IsWellFoundedOn(Smaller, Nat)
  BY NatLessThanWellFounded DEF OpToRel
<1>3. PICK k \in S : \A j \in S : ~(<<j, k>> \in Smaller)
  <2> HIDE DEF S, Smaller
  <2>1. QED
    BY <1>1, <1>2, WFMin
<1>4. ASSUME NEW j \in 1 .. n, m <= j, j < k, j \in P PROVE FALSE
  <2>1. j \in S /\ <<j, k>> \in Nat \X Nat
    BY <1>1, <1>4
  <2>2. <<j, k>>[1] < <<j, k>>[2]
    BY <1>4
  <2>3. QED
    BY <1>3, <2>1, <2>2
<1>5. QED
  BY <1>3, <1>4

LEMMA GoesOn ==
  ASSUME TypeOK, pc # "done"
  PROVE  CanGoOn
<1>1. Len(relations) \in Nat /\ edge \in Nat /\ index \in Nat \ {0} /\ pc \in Stages
  BY DEF TypeOK
<1>2. CASE pc = "propagate"
  <2> DEFINE P == {i \in Index : Live(i)}
  <2>1. CASE PassIsOver
    BY <1>2, <2>1 DEF CanGoOn
  <2>2. CASE ~PassIsOver
    <3>1. \E k \in P : k >= edge
      BY <1>1, <1>2, <2>2 DEF PassIsOver, Index
    <3>2. P \subseteq 1 .. Len(relations)
      BY DEF Index
    <3>3. \A j \in Index : Live(j) <=> j \in P
      OBVIOUS
    <3> HIDE DEF P
    <3>4. PICK k \in P : k >= edge /\ \A j \in 1 .. Len(relations) : edge <= j /\ j < k => j \notin P
      BY <1>1, <3>1, <3>2, LeastOne
    <3>5. QED
      BY <1>2, <3>2, <3>3, <3>4 DEF CanGoOn, Index
  <2>3. QED
    BY <2>1, <2>2
<1>3. CASE pc = "scan"
  <2> DEFINE P == {i \in Index : Ready(i)}
  <2>1. CASE ScanIsOver
    BY <1>3, <2>1 DEF CanGoOn
  <2>2. CASE ~ScanIsOver
    <3>1. \E k \in P : k >= index
      BY <1>1, <1>3, <2>2 DEF ScanIsOver, Index
    <3>2. P \subseteq 1 .. Len(relations)
      BY DEF Index
    <3>3. \A j \in Index : Ready(j) <=> j \in P
      OBVIOUS
    <3> HIDE DEF P
    <3>4. PICK k \in P : k >= index /\ \A j \in 1 .. Len(relations) : index <= j /\ j < k => j \notin P
      BY <1>1, <3>1, <3>2, LeastOne
    <3>5. QED
      BY <1>3, <3>2, <3>3, <3>4 DEF CanGoOn, Index
  <2>3. QED
    BY <2>1, <2>2
<1>4. CASE pc = "check"
  BY <1>1, <1>4 DEF CanGoOn, Unconsumed, Index
<1>5. QED
  BY <1>1, <1>2, <1>3, <1>4 DEF CanGoOn, Stages

(* Every evaluation comes to an end: each step of it leaves strictly less  *)
(* to do, a natural number, and until it is done some step can be taken.   *)
(* So the scans (_derive_unobserved repeats them while one changed        *)
(* changed something) are repeated at most once for each value derived.    *)
THEOREM EvaluationsEnd ==
  ASSUME IsFiniteSet(Var)
  PROVE  Spec => /\ [](Effort \in Nat /\ (pc # "done" => CanGoOn))
                 /\ [][Effort' < Effort]_vars
<1> DEFINE IInv == TypeOK /\ ChecksInRange
<1>1. Init => IInv
  BY TypeInit DEF Init, ChecksInRange
<1>2. IInv /\ [Next]_vars => IInv'
  <2>1. SUFFICES ASSUME IInv, [Next]_vars PROVE IInv'
    OBVIOUS
  <2>2. CASE Next
    BY <2>1, <2>2, TypeNext, EffortFalls
  <2>3. CASE UNCHANGED vars
    BY <2>1, <2>3, TypeNext DEF vars, scan, problem, ChecksInRange
  <2>4. QED
    BY <2>1, <2>2, <2>3
<1>3. IInv => Effort \in Nat /\ (pc # "done" => CanGoOn)
  BY EffortFalls, GoesOn
<1>4. IInv /\ [Next]_vars => [Effort' < Effort]_vars
  BY EffortFalls
<1>5. QED
  BY <1>1, <1>2, <1>3, <1>4, PTL DEF Spec
=============================================================================
