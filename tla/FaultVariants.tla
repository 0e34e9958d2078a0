---------------------------- MODULE FaultVariants ----------------------------
(***************************************************************************)
(* Faults told apart by the blocks they make fail (core/diagnosability.py, *)
(* evaluate_fault_variants): a variant changes the parameters of the       *)
(* device and some of the measurements, the device says what it would have *)
(* measured, and the unchanged model judges that.  Single variants, pairs  *)
(* of faults, an observation to be explained, and signals worth measuring  *)
(* next.                                                                   *)
(*                                                                         *)
(* A device gives values to its parameters, pairs of a component and a     *)
(* name; data give integers to measured signals.  Signals are numbers, in  *)
(* the order of their names.  A group is a set of variants, by their place *)
(* in the tree's list, in which they always apply.                         *)
(***************************************************************************)
EXTENDS Integers, Sequences, FiniteSets, SequencesExt, FiniteSetsExt, TLC

CONSTANTS
  Task,         \* tree, nominal data, variants and what is asked about them
  Builds(_),    \* whether the constructors accept the parameters of a device
  Audit(_, _),  \* the report of the audit of a device on data
  Weight(_)     \* differences of a signal are multiplied by it: one over its scale

VARIABLES
  task,       \* what is evaluated
  phase,      \* what comes next
  baseline,   \* the verdict on the nominal data
  rows,       \* results of the single variants, or of the selected ones composed
  pairRows,   \* results of pairs of faults
  explained,  \* the variants that match the observation, and if none does
  compared    \* the comparison of the faults

vars == <<task, phase, baseline, rows, pairRows, explained, compared>>

NoVerdict == [signature |-> <<>>, pass |-> FALSE]
NoMatch == [variants |-> {}, miss |-> FALSE]
Uncompared == [pairwise |-> {}, next |-> <<>>, alike |-> {}]

Variants == DOMAIN task.variants
Variant(k) == task.variants[k]

Init ==
  /\ task \in Task
  /\ phase = "baseline"
  /\ baseline = NoVerdict
  /\ rows = <<>> /\ pairRows = <<>>
  /\ explained = NoMatch
  /\ compared = Uncompared

Restricted(f, S) == [x \in DOMAIN f \cap S |-> f[x]]
Filled(f, g) == [x \in DOMAIN f \cup DOMAIN g |-> IF x \in DOMAIN f THEN f[x] ELSE g[x]]
Added(f, x, value) == [y \in DOMAIN f \cup {x} |-> IF y = x THEN value ELSE f[y]]
-----------------------------------------------------------------------------
(* What an audit says: it is refused, it finds nothing to evaluate, or it  *)
(* has a verdict, its own one for each block, and values it derived.       *)
Sign(x) == IF x > 0 THEN "+" ELSE IF x < 0 THEN "-" ELSE "0"
Size(x) == IF x < 0 THEN -x ELSE x

Largest(residuals) ==
  residuals[CHOOSE k \in DOMAIN residuals :
              \A j \in DOMAIN residuals : /\ Size(residuals[j]) <= Size(residuals[k])
                                          /\ j < k => Size(residuals[j]) # Size(residuals[k])]

Signature(report) ==
  [b \in {c \in DOMAIN report.blocks : /\ ~report.blocks[c].pass
                                       /\ report.blocks[c].residuals # <<>>}
     |-> Sign(Largest(report.blocks[b].residuals))]

Verdict(report) == [signature |-> Signature(report), pass |-> report.pass]

-----------------------------------------------------------------------------
(* The device and the data of a group of variants: the changes in order,   *)
(* without what is to be rederived.                                        *)
InOrder(group) == SetToSortSeq(group, LAMBDA j, k : j < k)

DeviceIn(t, group) ==
  FoldLeft(LAMBDA device, k : t.variants[k].parameters @@ device, t.device, InOrder(group))

Changed(value, change) ==
  CASE change.how = "scale" -> value * change.by
    [] change.how = "offset" -> value + change.by
    [] change.how = "set" -> change.by
    [] change.how = "flip" -> -value

ChangedIn(t, group) ==
  LET one(d, c) == [d EXCEPT ![c.variable] = Changed(@, c)]
  IN  FoldLeft(LAMBDA d, k : FoldLeft(one, d, t.variants[k].changes), t.nominal, InOrder(group))

RederivedIn(t, group) == UNION {t.variants[k].rederive : k \in group}

SuppliedIn(t, group) ==
  [n \in DOMAIN t.nominal \ RederivedIn(t, group) |-> ChangedIn(t, group)[n]]

(* What can be stated: components, blocks and measurements that exist, and *)
(* a device that can be built, whether or not anything is left to audit.   *)
LegalIn(t, group) ==
  /\ \A k \in group :
       LET variant == t.variants[k] IN
       /\ \A p \in DOMAIN variant.parameters : p[1] \in t.components
       /\ variant.expect \subseteq t.blocks
       /\ {c.variable : c \in Range(variant.changes)} \cup variant.rederive \subseteq DOMAIN t.nominal
  /\ Builds(DeviceIn(t, group))

(* The variants are finitely many, and so are the signals that a device    *)
(* gives numbers to, whose scales are positive.                            *)
ASSUME AuditAssumption ==
  \A t \in Task :
    /\ IsFiniteSet(DOMAIN t.variants)
    /\ \A group \in SUBSET DOMAIN t.variants :
         LegalIn(t, group) /\ SuppliedIn(t, group) # <<>> =>
           LET derived == Audit(DeviceIn(t, group), SuppliedIn(t, group)).derived IN
           /\ IsFiniteSet(DOMAIN derived)
           /\ \A n \in DOMAIN derived :
                {n, Weight(n)} \subseteq Nat \ {0} /\ derived[n] \in Int

Device(group) == DeviceIn(task, group)
RederivedBy(group) == RederivedIn(task, group)
Supplied(group) == SuppliedIn(task, group)

DeviceReport(group) == Audit(Device(group), Supplied(group))

(* The data the device would have given; the nominal model judges them.    *)
DeviceValues(group) == Filled(Supplied(group), DeviceReport(group).derived)
Generated(group) ==
  Filled(Supplied(group), Restricted(DeviceReport(group).derived, RederivedBy(group)))
Report(group) == Audit(task.device, Generated(group))

Underivable(group) ==
  \/ Supplied(group) = <<>>
  \/ DeviceReport(group).state = "nothing"
  \/ ~(RederivedBy(group) \subseteq DOMAIN DeviceReport(group).derived)

(* What ends the whole evaluation: a group that cannot be stated, an audit *)
(* that is refused.                                                        *)
Refused(group) ==
  \/ ~LegalIn(task, group)
  \/ Supplied(group) # <<>> /\ DeviceReport(group).state = "refused"
  \/ ~Underivable(group) /\ Report(group).state = "refused"

NotEvaluable(group) == Underivable(group) \/ Report(group).state = "nothing"

-----------------------------------------------------------------------------
(* The row of a group.  A pair of faults may hide part of what each of     *)
(* them does, but must be seen, and nowhere else.  Mutant of PairStatus:   *)
(* what is not as expected counts as hidden.                               *)
PairStatusByDifference(failed, expected) ==
  IF failed = {} THEN "undetected" ELSE IF failed = expected THEN "ok" ELSE "masked"

PairStatus(failed, expected) ==
  CASE failed = {} -> "undetected"
    [] failed # {} /\ failed = expected -> "ok"
    [] failed # {} /\ failed # expected /\ failed \subseteq expected -> "masked"
    [] OTHER -> "outside"

Faults(group) == {k \in group : Variant(k).kind = "fault"}
Expected(group) == UNION {Variant(k).expect : k \in Faults(group)}
Several(group) == \E j, k \in group : j # k

Kind(group) == IF Faults(group) # {} THEN "fault" ELSE "benign"

NoRow(group) ==
  [kind |-> Kind(group), expected |-> Expected(group), status |-> "not_evaluable",
   signature |-> <<>>, neutral |-> FALSE, pair |-> "", ok |-> FALSE, data |-> <<>>, values |-> <<>>]

Failed(group) == DOMAIN Signature(Report(group))
Neutral(group) == Verdict(Report(group)) = baseline

PairOf(group) ==
  IF Several(Faults(group)) THEN PairStatus(Failed(group), Expected(group)) ELSE ""

Accepted(group) ==
  IF Several(Faults(group)) THEN PairOf(group) \in {"ok", "masked"}
  ELSE IF Faults(group) # {} THEN Failed(group) # {} /\ Expected(group) \subseteq Failed(group)
  ELSE Neutral(group)

RowOf(group) ==
  [kind |-> Kind(group), expected |-> Expected(group), status |-> "evaluated",
   signature |-> Signature(Report(group)), neutral |-> Neutral(group), pair |-> PairOf(group),
   ok |-> Accepted(group), data |-> Generated(group), values |-> DeviceValues(group)]

Row(group) == IF NotEvaluable(group) THEN NoRow(group) ELSE RowOf(group)

-----------------------------------------------------------------------------
(* The groups to evaluate: each variant, or the selected ones composed;    *)
(* and the pairs of faults, if pairs are wanted.                           *)
Selected == {k \in Variants : Variant(k).id \in Range(task.selected)}

Singles ==
  IF ~task.compose THEN {{k} : k \in Variants}
  ELSE IF Selected = {} THEN {} ELSE {Selected}

PairsOf(S) == {g \in {{j, k} : j, k \in S} : Several(g)}

Pairs == IF task.pairs THEN PairsOf(Faults(Variants)) ELSE {}

Precedes(g, h) == Min(g) < Min(h) \/ (Min(g) = Min(h) /\ Max(g) < Max(h))
IsFirst(g, groups) == g \in groups /\ \A h \in groups \ {g} : Precedes(g, h)

BadSelection ==
  /\ task.compose
  /\ \/ ~IsInjective(task.selected)
     \/ ~(Range(task.selected) \subseteq {Variant(k).id : k \in Variants})

CheckNominal ==
  LET report == Audit(task.device, task.nominal) IN
  /\ phase = "baseline"
  /\ IF report.state # "fine" \/ BadSelection
     THEN phase' = "raised" /\ UNCHANGED baseline
     ELSE phase' = "singles" /\ baseline' = Verdict(report)
  /\ UNCHANGED <<task, rows, pairRows, explained, compared>>

(* One group after the other; the results so far are lost if one of them   *)
(* cannot even be stated.                                                  *)
EvaluateSingle ==
  \E group \in Singles :
    /\ phase = "singles"
    /\ IsFirst(group, Singles \ DOMAIN rows)
    /\ IF Refused(group) THEN phase' = "raised" /\ UNCHANGED rows
       ELSE rows' = Added(rows, group, Row(group)) /\ UNCHANGED phase
    /\ UNCHANGED <<task, baseline, pairRows, explained, compared>>

EvaluatePair ==
  \E group \in Pairs :
    /\ phase = "singles"
    /\ Singles \subseteq DOMAIN rows
    /\ IsFirst(group, Pairs \ DOMAIN pairRows)
    /\ IF Refused(group) THEN phase' = "raised" /\ UNCHANGED pairRows
       ELSE pairRows' = Added(pairRows, group, Row(group)) /\ UNCHANGED phase
    /\ UNCHANGED <<task, baseline, rows, explained, compared>>

(* An observation is explained by the faults whose signature it has.       *)
Matching(signature) ==
  {g \in DOMAIN rows : /\ rows[g].kind = "fault" /\ rows[g].status = "evaluated"
                       /\ rows[g].signature = signature}

Observe ==
  LET report == Audit(task.device, task.observed)
      matching == Matching(Signature(report))
  IN
  /\ phase = "singles"
  /\ Singles \subseteq DOMAIN rows /\ Pairs \subseteq DOMAIN pairRows
  /\ IF task.observed # <<>> /\ report.state # "fine"
     THEN phase' = "raised" /\ UNCHANGED explained
     ELSE /\ phase' = "compare"
          /\ explained' = IF task.observed = <<>> THEN NoMatch
                          ELSE [variants |-> matching, miss |-> ~report.pass /\ matching = {}]
  /\ UNCHANGED <<task, baseline, rows, pairRows, compared>>

-----------------------------------------------------------------------------
(* Faults of one signature are compared by the signals their devices give  *)
(* and that are not measured yet.  Mutant of Unmeasured: CommonSignals,    *)
(* those that are measured already can be suggested too.                   *)
Comparable ==
  {k \in Variants : /\ {k} \in DOMAIN rows
                    /\ rows[{k}].kind = "fault" /\ rows[{k}].status = "evaluated"}

Couples == PairsOf(Comparable)
Confused == {c \in Couples : \A j, k \in c : rows[{j}].signature = rows[{k}].signature}

CommonSignals(c) == {n \in UNION {DOMAIN rows[{k}].values : k \in c} :
                       \A k \in c : n \in DOMAIN rows[{k}].values}

Unmeasured(c) == CommonSignals(c) \ DOMAIN task.nominal

Separation(c, name) ==
  LET values == {rows[{k}].values[name] : k \in c} IN (Max(values) - Min(values)) * Weight(name)

(* The signal of the largest positive separation, the first of equals.     *)
None == 0

Best(separations) ==
  LET positive == {n \in DOMAIN separations : separations[n] > 0} IN
  IF positive = {} THEN None
  ELSE Min({n \in positive : \A x \in positive : separations[x] <= separations[n]})

Separations(c) == [n \in Unmeasured(c) |-> Separation(c, n)]

Furthest(couples) ==
  [n \in UNION {Unmeasured(c) : c \in couples} |->
     Max({Separation(c, n) : c \in {d \in couples : n \in Unmeasured(d)}})]

Pairwise ==
  {[variants |-> c, by |-> "signature", signal |-> None] : c \in Couples \ Confused}
    \cup {[variants |-> c, by |-> "signal", signal |-> Best(Separations(c))] : c \in Confused}

Separated(name) == {c \in Confused : name \in Unmeasured(c) /\ Separation(c, name) > 0}

(* Signals to measure next: those that separate most pairs, then furthest. *)
Better(a, b) ==
  LET pairs(n) == Cardinality(Separated(n)) IN
  \/ pairs(a) > pairs(b)
  \/ pairs(a) = pairs(b) /\ Furthest(Separated(a))[a] > Furthest(Separated(b))[b]
  \/ pairs(a) = pairs(b) /\ Furthest(Separated(a))[a] = Furthest(Separated(b))[b] /\ a < b

Suggested == {n \in UNION {Unmeasured(c) : c \in Confused} : Separated(n) # {}}

(* The place of each in the list.                                          *)
NextSignals == [n \in Suggested |-> 1 + Cardinality({m \in Suggested : Better(m, n)})]

(* Groups that the measured signals cannot tell apart.                     *)
ConfusedAs(k) == {c \in Confused : k \in c}
Alike(k) == UNION ConfusedAs(k)

Groups ==
  {[variants |-> Alike(k),
    signal |-> Best(Furthest({c \in Confused : c \subseteq Alike(k)}))] : k \in UNION Confused}

Compare ==
  /\ phase = "compare"
  /\ compared' = [pairwise |-> Pairwise, next |-> NextSignals, alike |-> Groups]
  /\ phase' = "done"
  /\ UNCHANGED <<task, baseline, rows, pairRows, explained>>

Next == CheckNominal \/ EvaluateSingle \/ EvaluatePair \/ Observe \/ Compare

Spec == Init /\ [][Next]_vars

-----------------------------------------------------------------------------
(* A pair that is accepted is seen, is seen only where its faults are      *)
(* expected, and what it hides is hidden by the pair: where the faults are *)
(* accepted on their own, an expected block that does not fail in the pair *)
(* fails under one of them alone.                                          *)
PairsAreJudged ==
  \A g \in DOMAIN pairRows :
    pairRows[g].ok =>
      LET failed == DOMAIN pairRows[g].signature
          alone == {{k} : k \in g}
      IN
      /\ failed # {} /\ failed \subseteq pairRows[g].expected
      /\ (alone \subseteq DOMAIN rows /\ \A s \in alone : rows[s].ok) =>
           pairRows[g].expected \ failed \subseteq UNION {DOMAIN rows[s].signature : s \in alone}

(* A signal is suggested only if measuring it says something new: it is    *)
(* not measured yet, and the devices of two faults of the group disagree   *)
(* about it.  If none is suggested, no signal that both give would help.   *)
Tells(name, j, k) ==
  /\ name \in (DOMAIN rows[{j}].values \cap DOMAIN rows[{k}].values) \ DOMAIN task.nominal
  /\ rows[{j}].values[name] # rows[{k}].values[name]

SuggestionsDiscriminate ==
  phase = "done" =>
    /\ \A g \in compared.alike :
         LET telling == {n \in UNION {DOMAIN rows[{k}].values : k \in g.variants} :
                           \E j, k \in g.variants : Tells(n, j, k)}
         IN  IF telling = {} THEN g.signal = None ELSE g.signal \in telling
    /\ \A n \in DOMAIN compared.next :
         \E g \in compared.alike : \E j, k \in g.variants : Tells(n, j, k)

(* An observation that a fault would have produced is explained by it, and *)
(* one that the nominal device would have produced is no miss.             *)
ProducedIsExplained ==
  phase \in {"compare", "done"} /\ task.observed # <<>> =>
    /\ \A g \in DOMAIN rows :
         rows[g].kind = "fault" /\ rows[g].status = "evaluated" /\ rows[g].data = task.observed =>
           g \in explained.variants /\ ~explained.miss
    /\ task.observed = task.nominal /\ baseline.pass => ~explained.miss

=============================================================================
