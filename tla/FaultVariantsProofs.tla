------------------------- MODULE FaultVariantsProofs -------------------------
(***************************************************************************)
(* The judgement of pairs, the explanation of observations and the signals *)
(* suggested, for every device, audit and list of variants.  The inductive *)
(* invariant says that every result is the row of its group, under the one *)
(* baseline there is, and that the comparison at the end is of all rows.   *)
(***************************************************************************)
EXTENDS FaultVariants, TLAPS, FiniteSetTheorems, WellFoundedInduction

RowsOf(results, groups) ==
  /\ results = [g \in DOMAIN results |-> results[g]]
  /\ DOMAIN results \subseteq groups
  /\ \A g \in DOMAIN results : results[g] = Row(g) /\ LegalIn(task, g)

ObservedReport == Audit(task.device, task.observed)

IInv ==
  /\ task \in Task
  /\ phase = "baseline" => DOMAIN rows = {} /\ DOMAIN pairRows = {}
  /\ RowsOf(rows, Singles)
  /\ RowsOf(pairRows, Pairs)
  /\ phase \in {"compare", "done"} /\ task.observed # <<>> =>
       explained = [variants |-> Matching(Signature(ObservedReport)),
                    miss |-> ~ObservedReport.pass /\ Matching(Signature(ObservedReport)) = {}]
  /\ phase \in {"singles", "compare", "done"} => baseline = Verdict(Audit(task.device, task.nominal))
  /\ phase = "done" => compared.next = NextSignals /\ compared.alike = Groups

(* A step evaluates for the one task there is, and compares at the end.    *)
LEMMA Ending ==
  ASSUME IInv, [Next]_vars
  PROVE  task' = task /\ task' \in Task /\ (phase' = "done" => Compare \/ UNCHANGED vars)
BY DEF IInv, Next, CheckNominal, EvaluateSingle, EvaluatePair, Observe, Compare, vars

(* The comparison depends on the task and the rows only.                   *)
LEMMA ComparisonKept ==
  ASSUME task' = task, rows' = rows
  PROVE  NextSignals' = NextSignals /\ Groups' = Groups
<1>1. Confused' = Confused
  BY DEF Confused, Couples, Comparable, PairsOf, Several, Variants, Variant
<1>2. \A c : Unmeasured(c)' = Unmeasured(c)
  BY DEF Unmeasured, CommonSignals
<1>3. \A c, n : Separation(c, n)' = Separation(c, n)
  BY DEF Separation
<1>4. \A n : Separated(n)' = Separated(n)
  BY <1>1, <1>2, <1>3 DEF Separated
<1>5. \A S : Furthest(S)' = Furthest(S)
  BY <1>2, <1>3 DEF Furthest
<1>6. Suggested' = Suggested
  BY <1>1, <1>2, <1>4 DEF Suggested
<1>7. \A m, n : Better(m, n)' = Better(m, n)
  BY <1>4, <1>5 DEF Better
<1>8. NextSignals' = NextSignals
  BY <1>6, <1>7 DEF NextSignals
<1>9. \A k : Alike(k)' = Alike(k)
  BY <1>1 DEF Alike, ConfusedAs
<1>10. Groups' = Groups
  BY <1>1, <1>5, <1>9 DEF Groups
<1>11. QED
  BY <1>8, <1>10

-----------------------------------------------------------------------------
(* A row depends on the task and the baseline only.                        *)
LEMMA DeviceKept ==
  ASSUME NEW g, task' = task
  PROVE  Device(g)' = Device(g)
  BY DEF Device
LEMMA RowKept ==
  ASSUME NEW g, task' = task, baseline' = baseline
  PROVE  Row(g)' = Row(g)
<1>1. Expected(g)' = Expected(g) /\ Kind(g)' = Kind(g) /\ RederivedBy(g)' = RederivedBy(g)
  BY DEF Expected, Kind, Faults, Variant, RederivedBy
<1>2. Device(g)' = Device(g) /\ Supplied(g)' = Supplied(g)
  BY <1>1 DEF Device, Supplied
<1>3. DeviceReport(g)' = DeviceReport(g)
  BY <1>2 DEF DeviceReport
<1>4. Generated(g)' = Generated(g) /\ DeviceValues(g)' = DeviceValues(g)
  BY <1>1, <1>2, <1>3 DEF Generated, DeviceValues
<1>5. Report(g)' = Report(g)
  BY <1>4 DEF Report
<1>6. QED
  BY <1>1, <1>2, <1>3, <1>4, <1>5
  DEF Row, RowOf, NoRow, NotEvaluable, Underivable, Accepted, PairOf, Neutral, Failed, Verdict,
      Signature, Several, Faults, Variant

LEMMA GroupsKept ==
  ASSUME task' = task
  PROVE  Singles' = Singles /\ Pairs' = Pairs
  BY DEF Singles, Pairs, Selected, Variants, Variant, Faults, PairsOf, Several

LEMMA RowsKept ==
  ASSUME task' = task, baseline' = baseline,
         RowsOf(rows, Singles), RowsOf(pairRows, Pairs)
  PROVE  /\ rows' = rows => RowsOf(rows, Singles)'
         /\ pairRows' = pairRows => RowsOf(pairRows, Pairs)'
<1>1. \A g : Row(g)' = Row(g)
  BY RowKept
<1>2. QED
  BY <1>1, GroupsKept DEF RowsOf

(* One more row of a group that is to be evaluated.                        *)
LEMMA RowsExtended ==
  ASSUME NEW results, NEW groups, NEW g \in groups, RowsOf(results, groups), ~Refused(g)
  PROVE  RowsOf(Added(results, g, Row(g)), groups)
  BY DEF RowsOf, Added, Refused

-----------------------------------------------------------------------------
LEMMA InitIInv == Init => IInv
  BY DEF Init, IInv, RowsOf

LEMMA NextIInv == IInv /\ [Next]_vars => IInv'
<1> SUFFICES ASSUME IInv, [Next]_vars
             PROVE  IInv'
  OBVIOUS
<1>1. task' = task /\ task' \in Task
  BY Ending
<1>2. phase' = "done" => compared'.next = NextSignals' /\ compared'.alike = Groups'
  <2>1. CASE Compare
    <3>1. task' = task /\ rows' = rows /\ compared'.next = NextSignals /\ compared'.alike = Groups
      BY <2>1 DEF Compare
    <3>2. QED
      BY <3>1, ComparisonKept
  <2>2. CASE UNCHANGED vars
    <3>1. task' = task /\ rows' = rows /\ compared' = compared /\ phase' = phase
      BY <2>2 DEF vars
    <3>2. QED
      BY <3>1, ComparisonKept DEF IInv
  <2>3. QED
    BY <2>1, <2>2, Ending
<1> USE DEF IInv
<1>3. CASE CheckNominal
  <2>1. task' = task /\ rows' = rows /\ pairRows' = pairRows /\ phase = "baseline"
    BY <1>3 DEF CheckNominal
  <2>2. RowsOf(rows, Singles)' /\ RowsOf(pairRows, Pairs)'
    BY <2>1 DEF RowsOf
  <2>3. phase' \in {"raised", "singles"}
    BY <1>3 DEF CheckNominal
  <2>4. phase' = "singles" => baseline' = Verdict(Audit(task.device, task.nominal))'
    BY <1>3, <2>1 DEF CheckNominal, Verdict, Signature
  <2>5. QED
    BY <1>1, <1>2, <2>2, <2>3, <2>4
<1>4. CASE EvaluateSingle
  <2>1. PICK group \in Singles :
          /\ phase = "singles"
          /\ IF Refused(group) THEN phase' = "raised" /\ UNCHANGED rows
             ELSE rows' = Added(rows, group, Row(group)) /\ UNCHANGED phase
          /\ UNCHANGED <<task, baseline, pairRows, explained, compared>>
    BY <1>4 DEF EvaluateSingle
  <2>2. \A g : Row(g)' = Row(g)
    BY <2>1, RowKept
  <2>3. RowsOf(pairRows, Pairs)'
    BY <2>1, RowsKept
  <2>4. RowsOf(rows, Singles)'
    <3>1. CASE Refused(group)
      BY <2>1, <3>1, RowsKept
    <3>2. CASE ~Refused(group)
      <4>1. RowsOf(rows', Singles)
        BY <2>1, <3>2, RowsExtended
      <4>2. QED
        BY <4>1, <2>1, <2>2, GroupsKept DEF RowsOf
    <3>3. QED
      BY <3>1, <3>2
  <2>5. phase' \in {"raised", "singles"}
    BY <2>1
  <2>6. baseline' = Verdict(Audit(task.device, task.nominal))'
    BY <2>1 DEF Verdict, Signature
  <2>7. QED
    BY <1>1, <1>2, <2>3, <2>4, <2>5, <2>6
<1>5. CASE EvaluatePair
  <2>1. PICK group \in Pairs :
          /\ phase = "singles"
          /\ IF Refused(group) THEN phase' = "raised" /\ UNCHANGED pairRows
             ELSE pairRows' = Added(pairRows, group, Row(group)) /\ UNCHANGED phase
          /\ UNCHANGED <<task, baseline, rows, explained, compared>>
    BY <1>5 DEF EvaluatePair
  <2>2. \A g : Row(g)' = Row(g)
    BY <2>1, RowKept
  <2>3. RowsOf(rows, Singles)'
    BY <2>1, RowsKept
  <2>4. RowsOf(pairRows, Pairs)'
    <3>1. CASE Refused(group)
      BY <2>1, <3>1, RowsKept
    <3>2. CASE ~Refused(group)
      <4>1. RowsOf(pairRows', Pairs)
        BY <2>1, <3>2, RowsExtended
      <4>2. QED
        BY <4>1, <2>1, <2>2, GroupsKept DEF RowsOf
    <3>3. QED
      BY <3>1, <3>2
  <2>5. phase' \in {"raised", "singles"}
    BY <2>1
  <2>6. baseline' = Verdict(Audit(task.device, task.nominal))'
    BY <2>1 DEF Verdict, Signature
  <2>7. QED
    BY <1>1, <1>2, <2>3, <2>4, <2>5, <2>6
<1>6. CASE Observe
  <2>1. UNCHANGED <<task, baseline, rows, pairRows>> /\ phase = "singles"
    BY <1>6 DEF Observe
  <2>2. RowsOf(rows, Singles)' /\ RowsOf(pairRows, Pairs)'
    BY <2>1, RowsKept
  <2>3. ObservedReport' = ObservedReport /\ Signature(ObservedReport)' = Signature(ObservedReport)
    BY <2>1 DEF ObservedReport, Signature
  <2>4. Matching(Signature(ObservedReport))' = Matching(Signature(ObservedReport))
    BY <2>1, <2>3 DEF Matching
  <2>5. phase' # "baseline" /\ baseline' = Verdict(Audit(task.device, task.nominal))'
    BY <1>6, <2>1 DEF Observe, Verdict, Signature
  <2>6. phase' \in {"compare", "done"} /\ task'.observed # <<>> =>
          explained' = [variants |-> Matching(Signature(ObservedReport)),
                        miss |-> /\ ~ObservedReport.pass
                                 /\ Matching(Signature(ObservedReport)) = {}]
    BY <1>6, <2>1 DEF Observe, ObservedReport
  <2>7. QED
    BY <1>1, <1>2, <2>2, <2>3, <2>4, <2>5, <2>6
<1>7. CASE Compare
  <2>1. UNCHANGED <<task, baseline, rows, pairRows, explained>> /\ phase = "compare"
    BY <1>7 DEF Compare
  <2>2. RowsOf(rows, Singles)' /\ RowsOf(pairRows, Pairs)'
    BY <2>1, RowsKept
  <2>3. ObservedReport' = ObservedReport /\ Signature(ObservedReport)' = Signature(ObservedReport)
    BY <2>1 DEF ObservedReport, Signature
  <2>4. Matching(Signature(ObservedReport))' = Matching(Signature(ObservedReport))
    BY <2>1, <2>3 DEF Matching
  <2>5. phase' = "done" /\ baseline' = Verdict(Audit(task.device, task.nominal))'
    BY <1>7, <2>1 DEF Compare, Verdict, Signature
  <2>6. QED
    BY <1>1, <1>2, <2>1, <2>2, <2>3, <2>4, <2>5
<1>8. CASE UNCHANGED vars
  <2>1. UNCHANGED <<task, phase, baseline, rows, pairRows, explained>>
    BY <1>8 DEF vars
  <2>2. RowsOf(rows, Singles)' /\ RowsOf(pairRows, Pairs)'
    BY <2>1, RowsKept
  <2>3. ObservedReport' = ObservedReport /\ Signature(ObservedReport)' = Signature(ObservedReport)
    BY <2>1 DEF ObservedReport, Signature
  <2>4. Matching(Signature(ObservedReport))' = Matching(Signature(ObservedReport))
    BY <2>1, <2>3 DEF Matching
  <2>5. (phase \in {"singles", "compare", "done"} => baseline = Verdict(Audit(task.device, task.nominal)))'
    BY <2>1 DEF Verdict, Signature
  <2>6. QED
    BY <1>1, <1>2, <2>1, <2>2, <2>3, <2>4, <2>5
<1>9. QED
  BY <1>3, <1>4, <1>5, <1>6, <1>7, <1>8 DEF Next

LEMMA IInvHolds == Spec => []IInv
  BY InitIInv, NextIInv, PTL DEF Spec

-----------------------------------------------------------------------------
(* What the rows of single variants and of pairs of faults say.            *)
LEMMA SingleRow ==
  ASSUME NEW k \in Variants, Variant(k).kind = "fault", Row({k}).ok
  PROVE  Variant(k).expect \subseteq DOMAIN Row({k}).signature
<1>1. Faults({k}) = {k} /\ Expected({k}) = Variant(k).expect
  BY DEF Faults, Expected
<1>2. ~Several(Faults({k})) /\ Kind({k}) = "fault"
  BY <1>1 DEF Several, Kind
<1>3. Row({k}) = RowOf({k})
  BY DEF Row, NoRow
<1>4. Accepted({k}) /\ DOMAIN Row({k}).signature = Failed({k})
  BY <1>3 DEF RowOf, Failed
<1>5. Faults({k}) # {}
  BY <1>1
<1>6. Expected({k}) \subseteq Failed({k})
  BY <1>2, <1>4, <1>5 DEF Accepted
<1>7. QED
  BY <1>1, <1>4, <1>6

LEMMA PairRow ==
  ASSUME NEW g \in Pairs, Row(g).ok
  PROVE  /\ DOMAIN Row(g).signature # {}
         /\ DOMAIN Row(g).signature \subseteq Row(g).expected
         /\ Row(g).expected = UNION {Variant(k).expect : k \in g}
         /\ \A k \in g : k \in Variants /\ Variant(k).kind = "fault"
<1>1. Several(g) /\ \A k \in g : k \in Variants /\ Variant(k).kind = "fault"
  BY DEF Pairs, PairsOf, Faults
<1>2. Faults(g) = g /\ Expected(g) = UNION {Variant(k).expect : k \in g}
  BY <1>1 DEF Faults, Expected
<1>3. ~NotEvaluable(g) /\ Row(g) = RowOf(g)
  BY DEF Row, NoRow
<1>4. /\ DOMAIN Row(g).signature = Failed(g) /\ Row(g).expected = Expected(g)
      /\ Accepted(g)
  BY <1>3 DEF RowOf, Failed
<1>5. PairStatus(Failed(g), Expected(g)) \in {"ok", "masked"}
  BY <1>1, <1>2, <1>4 DEF Accepted, PairOf
<1>6. Failed(g) # {} /\ Failed(g) \subseteq Expected(g)
  BY <1>5 DEF PairStatus
<1>7. QED
  BY <1>1, <1>2, <1>4, <1>6

(* A pair that is accepted is seen, where its faults are expected and      *)
(* nowhere else, and hides only what one of them alone makes fail.         *)
THEOREM PairsJudged == Spec => []PairsAreJudged
<1>1. IInv => PairsAreJudged
  <2> SUFFICES ASSUME IInv, NEW g \in DOMAIN pairRows, pairRows[g].ok
               PROVE  LET failed == DOMAIN pairRows[g].signature
                          alone == {{k} : k \in g}
                      IN  /\ failed # {} /\ failed \subseteq pairRows[g].expected
                          /\ (alone \subseteq DOMAIN rows /\ \A s \in alone : rows[s].ok) =>
                               pairRows[g].expected \ failed
                                 \subseteq UNION {DOMAIN rows[s].signature : s \in alone}
    BY DEF PairsAreJudged
  <2>1. g \in Pairs /\ pairRows[g] = Row(g) /\ Row(g).ok
    BY DEF IInv, RowsOf
  <2>2. ASSUME {{k} : k \in g} \subseteq DOMAIN rows, \A s \in {{k} : k \in g} : rows[s].ok,
               NEW b \in Row(g).expected
        PROVE  b \in UNION {DOMAIN rows[s].signature : s \in {{k} : k \in g}}
    <3>1. PICK k \in g : b \in Variant(k).expect
      BY <2>1, PairRow
    <3>2. k \in Variants /\ Variant(k).kind = "fault"
      BY <2>1, PairRow
    <3>3. {k} \in DOMAIN rows /\ rows[{k}] = Row({k}) /\ Row({k}).ok
      BY <2>2 DEF IInv, RowsOf
    <3>4. b \in DOMAIN rows[{k}].signature
      BY <3>1, <3>2, <3>3, SingleRow
    <3>5. QED
      BY <3>4
  <2>3. QED
    BY <2>1, <2>2, PairRow
<1>2. QED
  BY <1>1, IInvHolds, PTL

(* An observation equal to what a fault's device would have given is       *)
(* explained by it, and one that the nominal data are is no miss.          *)
THEOREM ProducedExplained == Spec => []ProducedIsExplained
<1>1. IInv => ProducedIsExplained
  <2> SUFFICES ASSUME IInv, phase \in {"compare", "done"}, task.observed # <<>>
               PROVE  /\ \A g \in DOMAIN rows :
                           /\ rows[g].kind = "fault" /\ rows[g].status = "evaluated"
                           /\ rows[g].data = task.observed
                           => g \in explained.variants /\ ~explained.miss
                      /\ task.observed = task.nominal /\ baseline.pass => ~explained.miss
    BY DEF ProducedIsExplained
  <2>1. explained = [variants |-> Matching(Signature(ObservedReport)),
                     miss |-> ~ObservedReport.pass /\ Matching(Signature(ObservedReport)) = {}]
    BY DEF IInv
  <2>2. ASSUME NEW g \in DOMAIN rows, rows[g].kind = "fault", rows[g].status = "evaluated",
               rows[g].data = task.observed
        PROVE  g \in Matching(Signature(ObservedReport))
    <3>1. rows[g] = RowOf(g)
      <4>1. rows[g] = Row(g)
        BY <2>2 DEF IInv, RowsOf
      <4>2. NoRow(g).status = "not_evaluable"
        BY DEF NoRow
      <4>3. QED
        BY <2>2, <4>1, <4>2 DEF Row
    <3>2. rows[g].signature = Signature(Report(g)) /\ Generated(g) = task.observed
      BY <2>2, <3>1 DEF RowOf
    <3>3. QED
      BY <2>2, <3>2 DEF Matching, Report, ObservedReport
  <2>3. task.observed = task.nominal /\ baseline.pass => ObservedReport.pass
    BY DEF IInv, ObservedReport, Verdict
  <2>4. QED
    BY <2>1, <2>2, <2>3
<1>2. QED
  BY <1>1, IInvHolds, PTL

-----------------------------------------------------------------------------
(* Greatest elements of finite sets: least is the number of those above.   *)
Less == {ss \in Nat \X Nat : ss[1] < ss[2]}

LEMMA SomeLeast ==
  ASSUME NEW S, S \subseteq Nat, S # {}
  PROVE  \E n \in S : \A m \in S : n <= m
<1>1. IsWellFoundedOn(Less, Nat)
  BY NatLessThanWellFounded DEF OpToRel, Less
<1>2. PICK n \in S : \A m \in S : ~(<<m, n>> \in Less)
  BY <1>1, WFMin
<1>3. ASSUME NEW m \in S PROVE n <= m
  <2>1. n \in Nat /\ m \in Nat
    BY <1>2
  <2>2. <<m, n>> \in Nat \X Nat
    BY <2>1
  <2>3. ~(<<m, n>>[1] < <<m, n>>[2])
    BY <1>2, <2>2 DEF Less
  <2>4. QED
    BY <2>1, <2>3
<1>4. QED
  BY <1>2, <1>3

LEMMA SomeGreatest ==
  ASSUME NEW S, IsFiniteSet(S), S # {}, NEW f, \A x \in S : f[x] \in Int
  PROVE  \E x \in S : \A y \in S : f[y] <= f[x]
<1> DEFINE Above(x) == {y \in S : f[y] > f[x]}
           R == {Cardinality(Above(x)) : x \in S}
<1>1. ASSUME NEW x \in S PROVE IsFiniteSet(Above(x)) /\ Cardinality(Above(x)) \in Nat
  <2>1. Above(x) \in SUBSET S
    OBVIOUS
  <2> HIDE DEF Above
  <2>2. QED
    BY <2>1, FS_Subset, FS_CardinalityType
<1>2. R \subseteq Nat /\ R # {}
  BY <1>1
<1>3. PICK r \in R : \A m \in R : r <= m
  <2> HIDE DEF R
  <2>1. QED
    BY <1>2, SomeLeast
<1>4. PICK x \in S : r = Cardinality(Above(x))
  BY <1>3
<1>5. ASSUME NEW y \in S, ~(f[y] <= f[x]) PROVE FALSE
  <2>1. y \in Above(x) /\ y \notin Above(y) /\ Above(y) \in SUBSET Above(x)
    BY <1>5
  <2>2. Cardinality(Above(x)) <= Cardinality(Above(y))
    BY <1>3, <1>4
  <2> HIDE DEF Above
  <2>3. Cardinality(Above(y)) <= Cardinality(Above(x))
    BY <1>1, <2>1, FS_Subset
  <2>4. Cardinality(Above(x)) = Cardinality(Above(y))
    BY <1>1, <2>2, <2>3
  <2>5. Above(x) = Above(y)
    BY <1>1, <2>1, <2>4, FS_Subset
  <2>6. QED
    BY <2>1, <2>5
<1>6. QED
  BY <1>5

LEMMA MaxOf ==
  ASSUME NEW S, S \subseteq Int, IsFiniteSet(S), S # {}
  PROVE  Max(S) \in S /\ \A y \in S : y <= Max(S)
<1> DEFINE f == [x \in S |-> x]
<1>1. \E x \in S : \A y \in S : f[y] <= f[x]
  <2>1. \A x \in S : f[x] \in Int
    OBVIOUS
  <2> HIDE DEF f
  <2>2. QED
    BY <2>1, SomeGreatest
<1>2. \E x \in S : \A y \in S : x >= y
  BY <1>1
<1>3. QED
  BY <1>2 DEF Max

LEMMA MinOf ==
  ASSUME NEW S, S \subseteq Int, IsFiniteSet(S), S # {}
  PROVE  Min(S) \in S /\ \A y \in S : Min(S) <= y
<1> DEFINE f == [x \in S |-> -x]
<1>1. \E x \in S : \A y \in S : f[y] <= f[x]
  <2>1. \A x \in S : f[x] \in Int
    OBVIOUS
  <2> HIDE DEF f
  <2>2. QED
    BY <2>1, SomeGreatest
<1>2. \E x \in S : \A y \in S : x <= y
  BY <1>1
<1>3. QED
  BY <1>2 DEF Min

(* A signal is best if there is one that separates.                        *)
LEMMA BestOf ==
  ASSUME NEW s, IsFiniteSet(DOMAIN s), DOMAIN s \subseteq Int, \A n \in DOMAIN s : s[n] \in Int
  PROVE  LET positive == {n \in DOMAIN s : s[n] > 0}
         IN  IF positive = {} THEN Best(s) = None ELSE Best(s) \in positive
<1> DEFINE positive == {n \in DOMAIN s : s[n] > 0}
           top == {n \in positive : \A x \in positive : s[x] <= s[n]}
<1>1. CASE positive = {}
  BY <1>1 DEF Best
<1>2. CASE positive # {}
  <2>1. positive \in SUBSET DOMAIN s /\ \A n \in positive : s[n] \in Int
    OBVIOUS
  <2>2. Best(s) = Min(top)
    BY <1>2 DEF Best
  <2>3. top \in SUBSET positive /\ top \in SUBSET DOMAIN s /\ top \subseteq Int
    BY <2>1
  <2> HIDE DEF positive
  <2>4. top # {}
    <3>1. IsFiniteSet(positive)
      BY <2>1, FS_Subset
    <3>2. \E n \in positive : \A x \in positive : s[x] <= s[n]
      BY <1>2, <2>1, <3>1, SomeGreatest
    <3>3. QED
      BY <3>2
  <2> HIDE DEF top
  <2>5. IsFiniteSet(top)
    BY <2>3, FS_Subset
  <2>6. Min(top) \in top
    BY <2>3, <2>4, <2>5, MinOf
  <2>7. Best(s) \in positive
    BY <2>2, <2>3, <2>6
  <2>8. QED
    BY <1>2, <2>7 DEF positive
<1>3. QED
  BY <1>1, <1>2

-----------------------------------------------------------------------------
(* The values of a fault's device beyond the measured ones.                *)
LEMMA DerivedValues ==
  ASSUME IInv, NEW k \in Comparable
  PROVE  /\ IsFiniteSet(DOMAIN rows[{k}].values \ DOMAIN task.nominal)
         /\ \A n \in DOMAIN rows[{k}].values \ DOMAIN task.nominal :
              /\ n \in Int /\ n # None
              /\ Weight(n) \in Nat \ {0}
              /\ rows[{k}].values[n] \in Int
<1> DEFINE derived == Audit(DeviceIn(task, {k}), SuppliedIn(task, {k})).derived
           V == rows[{k}].values
<1>1. /\ {k} \in DOMAIN rows /\ rows[{k}].status = "evaluated" /\ k \in Variants
      /\ rows[{k}] = Row({k}) /\ LegalIn(task, {k}) /\ task \in Task
  BY DEF Comparable, IInv, RowsOf
<1>2. ~NotEvaluable({k}) /\ rows[{k}] = RowOf({k})
  <2>1. NoRow({k}).status = "not_evaluable"
    BY DEF NoRow
  <2>2. QED
    BY <1>1, <2>1 DEF Row
<1>3. SuppliedIn(task, {k}) # <<>>
  BY <1>2 DEF NotEvaluable, Underivable, Supplied
<1>4. V = Filled(SuppliedIn(task, {k}), derived)
  BY <1>2 DEF RowOf, DeviceValues, DeviceReport, Supplied, Device
<1>5. {k} \in SUBSET DOMAIN task.variants
  BY <1>1 DEF Variants
<1>6. /\ IsFiniteSet(DOMAIN derived)
      /\ \A n \in DOMAIN derived : {n, Weight(n)} \subseteq Nat \ {0} /\ derived[n] \in Int
  BY <1>1, <1>3, <1>5, AuditAssumption
<1>7. DOMAIN SuppliedIn(task, {k}) \subseteq DOMAIN task.nominal
  BY DEF SuppliedIn
<1> HIDE DEF derived, V
<1>8. /\ DOMAIN V \ DOMAIN task.nominal \in SUBSET DOMAIN derived
      /\ \A n \in DOMAIN V \ DOMAIN task.nominal : V[n] = derived[n]
  BY <1>4, <1>7 DEF Filled
<1>9. IsFiniteSet(DOMAIN V \ DOMAIN task.nominal)
  BY <1>6, <1>8, FS_Subset
<1>10. ASSUME NEW n \in DOMAIN V \ DOMAIN task.nominal
       PROVE  n \in Int /\ n # None /\ Weight(n) \in Nat \ {0} /\ V[n] \in Int
  BY <1>6, <1>8 DEF None
<1>11. QED
  BY <1>9, <1>10 DEF V

LEMMA Scaled ==
  ASSUME NEW a \in Int, NEW w \in Nat \ {0}
  PROVE  a * w \in Int /\ (a * w > 0 <=> a > 0)
OBVIOUS

(* A signal separates two faults if their devices disagree about it.       *)
LEMMA SeparationOf ==
  ASSUME IInv, NEW c \in Confused, NEW n \in Unmeasured(c)
  PROVE  /\ n \in Int /\ n # None /\ Separation(c, n) \in Int
         /\ Separation(c, n) > 0 <=> \E j, k \in c : Tells(n, j, k)
<1>1. PICK j \in Comparable, k \in Comparable : c = {j, k} /\ j # k
  BY DEF Confused, Couples, PairsOf, Several
<1>2. \A i \in c : n \in DOMAIN rows[{i}].values \ DOMAIN task.nominal
  BY DEF Unmeasured, CommonSignals
<1> DEFINE V == {rows[{i}].values[n] : i \in c}
           x == rows[{j}].values[n]
           y == rows[{k}].values[n]
<1>3. V = {x, y} /\ x \in Int /\ y \in Int /\ n \in Int /\ n # None /\ Weight(n) \in Nat \ {0}
  BY <1>1, <1>2, DerivedValues
<1>4. Separation(c, n) = (Max(V) - Min(V)) * Weight(n)
  BY DEF Separation
<1>5. (\E i, l \in c : Tells(n, i, l)) <=> x # y
  BY <1>1, <1>2 DEF Tells
<1> HIDE DEF V, x, y
<1>6. V \subseteq Int /\ V # {} /\ IsFiniteSet(V)
  <2>1. IsFiniteSet({x}) /\ IsFiniteSet({y})
    BY FS_Singleton
  <2>2. {x, y} = {x} \cup {y}
    OBVIOUS
  <2>3. IsFiniteSet({x, y})
    BY <2>1, <2>2, FS_Union
  <2>4. QED
    BY <1>3, <2>3
<1>7. /\ Max(V) \in {x, y} /\ x <= Max(V) /\ y <= Max(V)
      /\ Min(V) \in {x, y} /\ Min(V) <= x /\ Min(V) <= y
  BY <1>3, <1>6, MaxOf, MinOf
<1>8. Max(V) - Min(V) \in Int /\ (Max(V) - Min(V) > 0 <=> x # y)
  BY <1>3, <1>7
<1>9. QED
  BY <1>3, <1>4, <1>5, <1>8, Scaled

(* Two faults that one fault is confused with are confused.                *)
LEMMA AlikeIsOneGroup ==
  ASSUME NEW k, NEW i \in Alike(k), NEW j \in Alike(k), i # j
  PROVE  {i, j} \in Confused /\ {i, j} \subseteq Alike(k)
<1>1. PICK c \in Confused : k \in c /\ i \in c
  BY DEF Alike, ConfusedAs
<1>2. PICK d \in Confused : k \in d /\ j \in d
  BY DEF Alike, ConfusedAs
<1>3. /\ i \in Comparable /\ j \in Comparable
      /\ rows[{i}].signature = rows[{k}].signature /\ rows[{j}].signature = rows[{k}].signature
  BY <1>1, <1>2 DEF Confused, Couples, PairsOf
<1>4. {i, j} \in Couples
  BY <1>3 DEF Couples, PairsOf, Several
<1>5. QED
  BY <1>3, <1>4 DEF Confused

(* The signal chosen for a set of couples is one that two of a couple      *)
(* disagree about, and there is one if there is such a signal.             *)
LEMMA ChosenFor ==
  ASSUME IInv, NEW D \in SUBSET Confused, IsFiniteSet(D)
  PROVE  LET telling == {n \in UNION {Unmeasured(c) : c \in D} :
                           \E c \in D : n \in Unmeasured(c) /\ \E j, k \in c : Tells(n, j, k)}
         IN  IF telling = {} THEN Best(Furthest(D)) = None ELSE Best(Furthest(D)) \in telling
<1> DEFINE Signals == UNION {Unmeasured(c) : c \in D}
           Of(n) == {Separation(c, n) : c \in {d \in D : n \in Unmeasured(d)}}
           s == Furthest(D)
           telling == {n \in Signals :
                         \E c \in D : n \in Unmeasured(c) /\ \E j, k \in c : Tells(n, j, k)}
<1>1. DOMAIN s = Signals /\ \A n \in Signals : s[n] = Max(Of(n))
  BY DEF Furthest
<1>2. IsFiniteSet(Signals) /\ Signals \subseteq Int
  <2>1. ASSUME NEW c \in D PROVE IsFiniteSet(Unmeasured(c))
    <3>1. PICK j \in Comparable : j \in c
      BY DEF Confused, Couples, PairsOf
    <3>2. Unmeasured(c) \in SUBSET (DOMAIN rows[{j}].values \ DOMAIN task.nominal)
      BY <3>1 DEF Unmeasured, CommonSignals
    <3>3. QED
      BY <3>2, DerivedValues, FS_Subset
  <2>2. Signals \subseteq Int
    BY SeparationOf
  <2> DEFINE all == {Unmeasured(c) : c \in D}
             f == [c \in D |-> Unmeasured(c)]
  <2>3. f \in Surjection(D, all)
    BY DEF Surjection
  <2>4. \A u \in all : IsFiniteSet(u)
    BY <2>1
  <2> HIDE DEF all, f
  <2>5. IsFiniteSet(all)
    BY <2>3, FS_Surjection
  <2>6. IsFiniteSet(UNION all)
    BY <2>4, <2>5, FS_UNION
  <2>7. QED
    BY <2>2, <2>6 DEF all
<1>3. ASSUME NEW n \in Signals
      PROVE  Max(Of(n)) \in Of(n) /\ (\A x \in Of(n) : x <= Max(Of(n))) /\ Of(n) \subseteq Int
  <2> DEFINE E == {d \in D : n \in Unmeasured(d)}
             f == [c \in E |-> Separation(c, n)]
  <2>1. E \in SUBSET D /\ E # {}
    OBVIOUS
  <2>2. Of(n) \subseteq Int /\ Of(n) # {}
    BY <2>1, SeparationOf
  <2>3. f \in Surjection(E, Of(n))
    BY DEF Surjection
  <2> HIDE DEF E, f, Of
  <2>4. IsFiniteSet(Of(n))
    BY <2>1, <2>3, FS_Subset, FS_Surjection
  <2>5. QED
    BY <2>2, <2>4, MaxOf
<1>4. ASSUME NEW n \in Signals PROVE s[n] \in Int /\ (s[n] > 0 <=> n \in telling)
  <2>1. PICK c \in D : n \in Unmeasured(c) /\ s[n] = Separation(c, n)
    BY <1>1, <1>3
  <2>2. s[n] \in Int
    BY <2>1, SeparationOf
  <2>3. s[n] > 0 => n \in telling
    BY <2>1, SeparationOf
  <2>4. ASSUME n \in telling PROVE s[n] > 0
    <3>1. PICK d \in D : n \in Unmeasured(d) /\ \E j, k \in d : Tells(n, j, k)
      BY <2>4
    <3>2. Separation(d, n) \in Int /\ Separation(d, n) > 0
      BY <3>1, SeparationOf
    <3>3. Separation(d, n) <= s[n]
      BY <1>1, <1>3, <3>1
    <3>4. QED
      BY <2>2, <3>2, <3>3
  <2>5. QED
    BY <2>2, <2>3, <2>4
<1>5. telling \subseteq Signals
  OBVIOUS
<1> HIDE DEF s, telling, Signals
<1>6. {n \in DOMAIN s : s[n] > 0} = telling
  BY <1>1, <1>4, <1>5
<1>7. IF telling = {} THEN Best(s) = None ELSE Best(s) \in telling
  BY <1>1, <1>2, <1>4, <1>6, BestOf
<1>8. QED
  BY <1>7 DEF s, telling, Signals

LEMMA ConfusedIsFinite ==
  ASSUME IInv, NEW D \in SUBSET Confused
  PROVE  IsFiniteSet(D)
<1>1. IsFiniteSet(Variants)
  BY AuditAssumption DEF IInv, Variants
<1>2. D \in SUBSET SUBSET Variants
  BY DEF Confused, Couples, PairsOf, Comparable
<1>3. QED
  BY <1>1, <1>2, FS_SUBSET, FS_Subset

(* What two faults of a group disagree about is what the two of a couple   *)
(* within the group disagree about.                                        *)
LEMMA ToldInACouple ==
  ASSUME NEW k \in UNION Confused
  PROVE  LET D == {c \in Confused : c \subseteq Alike(k)}
         IN  {n \in UNION {DOMAIN rows[{i}].values : i \in Alike(k)} :
                \E i, j \in Alike(k) : Tells(n, i, j)}
               = {n \in UNION {Unmeasured(c) : c \in D} :
                    \E c \in D : n \in Unmeasured(c) /\ \E i, j \in c : Tells(n, i, j)}
<1> DEFINE D == {c \in Confused : c \subseteq Alike(k)}
<1>1. ASSUME NEW n, NEW i \in Alike(k), NEW j \in Alike(k), Tells(n, i, j)
      PROVE  {i, j} \in D /\ n \in Unmeasured({i, j})
  <2>1. i # j
    BY <1>1 DEF Tells
  <2>2. {i, j} \in D
    BY <2>1, AlikeIsOneGroup
  <2>3. n \in Unmeasured({i, j})
    BY <1>1 DEF Tells, Unmeasured, CommonSignals
  <2>4. QED
    BY <2>2, <2>3
<1>2. ASSUME NEW c \in D, NEW n, NEW i \in c, NEW j \in c, Tells(n, i, j)
      PROVE  i \in Alike(k) /\ j \in Alike(k) /\ n \in DOMAIN rows[{i}].values
  BY <1>2 DEF Tells
<1> DEFINE told == {n \in UNION {DOMAIN rows[{i}].values : i \in Alike(k)} :
                      \E i, j \in Alike(k) : Tells(n, i, j)}
           between == {n \in UNION {Unmeasured(c) : c \in D} :
                         \E c \in D : n \in Unmeasured(c) /\ \E i, j \in c : Tells(n, i, j)}
<1> HIDE DEF D
<1>3. ASSUME NEW n \in told PROVE n \in between
  <2>1. \E i, j \in Alike(k) : Tells(n, i, j)
    OBVIOUS
  <2>2. PICK i \in Alike(k), j \in Alike(k) : Tells(n, i, j)
    BY <2>1
  <2>3. {i, j} \in D /\ n \in Unmeasured({i, j})
    BY <1>1, <2>2
  <2>4. \E x, y \in {i, j} : Tells(n, x, y)
    BY <2>2
  <2>5. QED
    BY <2>3, <2>4
<1>4. ASSUME NEW n \in between PROVE n \in told
  <2>1. PICK c \in D : \E i, j \in c : Tells(n, i, j)
    OBVIOUS
  <2>2. PICK i \in c, j \in c : Tells(n, i, j)
    BY <2>1
  <2>3. i \in Alike(k) /\ j \in Alike(k) /\ n \in DOMAIN rows[{i}].values
    BY <1>2, <2>2
  <2>4. QED
    BY <2>2, <2>3
<1>5. told = between
  <2> HIDE DEF told, between
  <2>1. QED
    BY <1>3, <1>4
<1>6. QED
  BY <1>5 DEF D

(* The signal a group is given is one that two of its faults disagree      *)
(* about; a group is given none only where there is none.                  *)
LEMMA GroupsSignal ==
  ASSUME IInv, NEW g \in Groups
  PROVE  LET telling == {n \in UNION {DOMAIN rows[{k}].values : k \in g.variants} :
                           \E j, k \in g.variants : Tells(n, j, k)}
         IN  IF telling = {} THEN g.signal = None ELSE g.signal \in telling
<1>1. PICK k \in UNION Confused :
        g = [variants |-> Alike(k),
             signal |-> Best(Furthest({c \in Confused : c \subseteq Alike(k)}))]
  BY DEF Groups
<1> DEFINE D == {c \in Confused : c \subseteq Alike(k)}
           told == {n \in UNION {DOMAIN rows[{i}].values : i \in Alike(k)} :
                      \E i, j \in Alike(k) : Tells(n, i, j)}
           between == {n \in UNION {Unmeasured(c) : c \in D} :
                         \E c \in D : n \in Unmeasured(c) /\ \E i, j \in c : Tells(n, i, j)}
<1>2. told = between
  BY ToldInACouple
<1>3. D \in SUBSET Confused
  OBVIOUS
<1>4. g.variants = Alike(k) /\ g.signal = Best(Furthest(D))
  BY <1>1
<1> HIDE DEF D
<1>5. IsFiniteSet(D)
  BY <1>3, ConfusedIsFinite
<1>6. IF between = {} THEN g.signal = None ELSE g.signal \in between
  BY <1>3, <1>4, <1>5, ChosenFor
<1>7. IF told = {} THEN g.signal = None ELSE g.signal \in told
  BY <1>2, <1>6
<1>8. QED
  BY <1>4, <1>7

(* Each signal of the list is one that two faults of a group disagree      *)
(* about.                                                                  *)
LEMMA ListedTells ==
  ASSUME IInv, NEW n \in Suggested
  PROVE  \E g \in Groups : \E j, k \in g.variants : Tells(n, j, k)
<1>1. PICK c \in Confused : n \in Unmeasured(c) /\ Separation(c, n) > 0
  BY DEF Suggested, Separated
<1>2. PICK j \in c, k \in c : Tells(n, j, k)
  BY <1>1, SeparationOf
<1>3. j \in Alike(j) /\ k \in Alike(j) /\ j \in UNION Confused
  BY DEF Alike, ConfusedAs
<1> DEFINE g == [variants |-> Alike(j),
                 signal |-> Best(Furthest({d \in Confused : d \subseteq Alike(j)}))]
<1>4. g \in Groups
  BY <1>3 DEF Groups
<1>5. g.variants = Alike(j)
  OBVIOUS
<1> HIDE DEF g
<1>6. QED
  BY <1>2, <1>3, <1>4, <1>5

(* A signal is suggested only if measuring it says something new: it is    *)
(* not measured yet, and the devices of two faults of the group disagree   *)
(* about it.  If none is suggested, no signal that both give would help.   *)
THEOREM SuggestionsTell == Spec => []SuggestionsDiscriminate
<1>1. IInv => SuggestionsDiscriminate
  <2>1. SUFFICES ASSUME IInv, phase = "done" PROVE SuggestionsDiscriminate
    BY DEF SuggestionsDiscriminate
  <2>2. compared.alike = Groups /\ DOMAIN compared.next = Suggested
    BY <2>1 DEF IInv, NextSignals
  <2>3. QED
    BY <2>1, <2>2, GroupsSignal, ListedTells DEF SuggestionsDiscriminate
<1>2. QED
  BY <1>1, InitIInv, NextIInv, PTL DEF Spec

=============================================================================
