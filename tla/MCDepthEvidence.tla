--------------------------- MODULE MCDepthEvidence ---------------------------
(***************************************************************************)
(* Cases for the adequacy: one of three rows that passes with the full     *)
(* sequence, one of fourteen rows that passes on samples, and the ways     *)
(* their parts can be off.  Plans for the rollout: every pair of short     *)
(* trajectories, and the ways the files can be off.  A case comes with no  *)
(* rollout and a rollout with no adequacy, but for a few of both.          *)
(***************************************************************************)
EXTENDS DepthEvidence, Sequences, TLC

At(row) ==
  [valid |-> TRUE, time |-> row + 1, file |-> "d", row |-> row, scenario |-> "s", tags |-> {},
   values |-> ("x" :> 1 @@ "p" :> row), outcome |-> "pass", effects |-> ("p" :> 2)]

Varies(floors) ==
  [varying |-> TRUE, source |-> [kind |-> "rows", name |-> ""], floors |-> floors, strata |-> {},
   sensitive |-> TRUE, effect |-> 1]

Static == [Varies(<<>>) EXCEPT !.varying = FALSE]

Edge(source, target) ==
  [source |-> source, target |-> target, review |-> FALSE, parameter |-> FALSE, nextRow |-> FALSE]

Field(use, reason) == [time |-> FALSE, use |-> use, reason |-> reason]

Full ==
  [scope |-> "time_window", planned |-> TRUE, inputs |-> TRUE, manifestFile |-> "fine",
   rolesFile |-> "fine", unreadContracts |-> {}, mode |-> "full", floors |-> <<>>,
   policies |-> ("p" :> Varies(<<>>) @@ "q" :> Static), criticalSignals |-> {},
   criticalParameters |-> {}, quotas |-> {}, tags |-> {},
   manifest |-> [rows |-> 3, samples |-> 0, duration |-> 2, gap |-> 1, penultimate |-> 0],
   fields |-> ("t" :> [Field("covered", "") EXCEPT !.time = TRUE]
                 @@ "fx" :> Field("covered", "") @@ "fy" :> Field("covered", "")),
   nonNull |-> ("fx" :> 3 @@ "fy" :> 0),
   edges |-> {Edge("fx", "x")}, variables |-> {[target |-> "y", source |-> "fy", candidate |-> FALSE]},
   blocks |-> {[id |-> "b", signals |-> {"x"}, parameters |-> {"p"}]}, model |-> {"p", "q"},
   numeric |-> {"p", "q"},
   files |-> {"d"}, scenarios |-> {[id |-> "s", perturbs |-> {"p"}]}, enveloped |-> {"p"},
   points |-> <<At(0), At(1), At(2)>>]

Loose ==
  [minimum_valid_points |-> 3, minimum_valid_ratio |-> 10, minimum_distinct_timestamps |-> 3,
   minimum_time_span |-> 1, maximum_time_gap |-> 9]

LoosePlan ==
  [minimum_selected_points |-> 3, minimum_selected_ratio |-> 10, minimum_distinct_timestamps |-> 3,
   minimum_time_span |-> 1, maximum_time_gap |-> 9]

Sampled ==
  [Full EXCEPT !.mode = "stratified", !.floors = LoosePlan,
               !.policies = ("p" :> Varies(Loose) @@ "q" :> Static),
               !.manifest = [rows |-> 14, samples |-> 0, duration |-> 13, gap |-> 1, penultimate |-> 0],
               !.points = [k \in 1 .. 14 |-> At(k - 1)]]

Snapshot ==
  [Full EXCEPT !.scope = "snapshot", !.planned = FALSE, !.policies = <<>>]

-----------------------------------------------------------------------------
(* One point of the full sequence, or two, of another kind.                *)
OddPoints ==
  {[At(1) EXCEPT !.valid = FALSE], [At(1) EXCEPT !.outcome = "fail"],
   [At(1) EXCEPT !.outcome = "missing"], [At(1) EXCEPT !.time = 1], [At(1) EXCEPT !.time = 0],
   [At(1) EXCEPT !.row = 0], [At(1) EXCEPT !.row = 3], [At(1) EXCEPT !.row = -1],
   [At(1) EXCEPT !.file = "e"], [At(1) EXCEPT !.file = ""], [At(1) EXCEPT !.values = ("x" :> 1)],
   [At(1) EXCEPT !.values = ("p" :> 0)], [At(1) EXCEPT !.effects = ("p" :> -1)],
   [At(1) EXCEPT !.effects = ("p" :> 0)], [At(1) EXCEPT !.scenario = "r"],
   [At(1) EXCEPT !.time = 8], [At(1) EXCEPT !.values = ("x" :> 1 @@ "p" :> 0)]}

Alike == [k \in 1 .. 3 |-> [At(k - 1) EXCEPT !.values = ("x" :> 1 @@ "p" :> 4)]]

PointCases ==
  {[c EXCEPT !.points = s, !.scope = scope] :
     c \in {Full, [Full EXCEPT !.mode = "stratified", !.floors = LoosePlan,
                               !.policies = ("p" :> Varies(Loose))]},
     scope \in {"snapshot", "time_window"},
     s \in {<<At(0), x, At(2)>> : x \in OddPoints \cup {At(1)}}
           \cup {<<x, At(1), y>> : x, y \in OddPoints} \cup {<<At(0), At(1)>>, Alike, <<>>}}

(* Samples of the rows, some of them failing or taken twice.               *)
InOrder(S) ==
  [k \in 1 .. Cardinality(S) |->
     At(CHOOSE r \in S : Cardinality({x \in S : x < r}) = k - 1)]

Samples == {S \in SUBSET (0 .. 13) : Cardinality(S) >= 11}

Halves(n) ==
  {[from |-> f, to |-> t, of |-> 2, least |-> n] : f \in {0, 1}, t \in {1, 2}}
    \ {[from |-> 1, to |-> 1, of |-> 2, least |-> n]}

SampleCases ==
  {[Sampled EXCEPT !.points = InOrder(S)] : S \in Samples}
    \cup {[Sampled EXCEPT !.points = Append(InOrder(S), [At(5) EXCEPT !.time = 20])] :
            S \in {T \in Samples : Cardinality(T) = 11 /\ 5 \in T}}
    \cup {[Sampled EXCEPT !.points = [InOrder(S) EXCEPT ![3].outcome = o]] :
            S \in {T \in Samples : Cardinality(T) = 12 /\ {0, 1} \cap T = {}} \cup {0 .. 13},
            o \in {"fail", "invalid"}}
    \cup {[Sampled EXCEPT !.policies["p"].strata = Halves(n), !.policies["p"].sensitive = b,
                          !.policies["p"].effect = f, !.enveloped = e, !.scenarios = d] :
            n \in {1, 8}, e \in {{}, {"p"}}, b \in BOOLEAN, f \in {1, 2, 3},
            d \in {{}, {[id |-> "s", perturbs |-> {"p"}]}}}

(* Counts and times of the manifest, and rows that need the next.          *)
ManifestCases ==
  {[Full EXCEPT !.manifest = [rows |-> r, samples |-> n, duration |-> d, gap |-> g, penultimate |-> u],
                !.edges = {[Edge("fx", "x") EXCEPT !.nextRow = x]} \cup e, !.policies["p"].source = f] :
     r \in {0, 3, 4}, n \in {0, 4}, d \in {0, 2, 3}, g \in {0, 1}, u \in {0, 2}, x \in BOOLEAN,
     f \in {[kind |-> "rows", name |-> ""]},
     e \in {{}, {[Edge("fy", "y") EXCEPT !.nextRow = TRUE, !.review = TRUE]}}}
    \cup {[Full EXCEPT !.policies["p"].source = [kind |-> k, name |-> f],
                       !.edges = @ \cup {Edge("fx", t)}] :
            k \in {"field", "other"}, f \in {"fx", "fy", "fz"}, t \in {"x", "p"}}

(* What nobody has to ask for, and what is asked for.                      *)
AskedFor ==
  {<<>>, [minimum_signal_coverage_ratio |-> 80], [maximum_exclusion_ratio |-> 40],
   [minimum_parameter_coverage_ratio |-> 100], [reject_repeated_exclusion_reasons |-> 1],
   [require_start_middle_end |-> 1], [minimum_per_signal_valid_points |-> 4]}

FieldCases ==
  {[c EXCEPT !.floors = a, !.fields = ("fx" :> Field("covered", "") @@ "fy" :> y @@ "fz" :> z),
             !.blocks = @ \cup b, !.edges = e] :
     c \in {Full, [Full EXCEPT !.policies = <<>>]}, a \in AskedFor,
     y \in {Field("excluded", "n/a"), Field("excluded", "broken sensor"), Field("covered", "")},
     z \in {Field("excluded", "broken sensor"), Field("review", "")},
     e \in {{Edge("fx", "x")}, {[Edge("fx", "x") EXCEPT !.review = TRUE]},
            {[Edge("fx", "q2") EXCEPT !.parameter = TRUE]}},
     b \in {{}, {[id |-> "c", signals |-> {"y"}, parameters |-> {}]}}}

OtherCases ==
  {[Full EXCEPT !.tags = {[kind |-> k, name |-> "n"]},
                !.points[2].tags = IF g THEN {[kind |-> "mode", name |-> "n"]} ELSE {},
                !.quotas = {[id |-> "f", members |-> {"x", "z"}, count |-> n, ratio |-> 50]},
                !.criticalSignals = s, !.criticalParameters = p] :
     k \in {"event", "peak", "boundary", "mode"}, g \in BOOLEAN, n \in {1, 2},
     s \in {{}, {"z"}}, p \in {{}, {"q"}, {"r"}}}
    \cup {[Full EXCEPT !.manifestFile = m, !.rolesFile = r, !.unreadContracts = u, !.inputs = i] :
            m \in {"fine", "gone", "unreadable"}, r \in {"fine", "gone", "unreadable"},
            u \in {{}, {"c"}}, i \in BOOLEAN}
    \cup {Snapshot, [Snapshot EXCEPT !.scope = "time_window"]}

(* The model declares a parameter but gives it no number, or not at all.   *)
UnreplayedCases ==
  {[c EXCEPT !.model = m, !.numeric = {"q"},
             !.points = [k \in DOMAIN c.points |-> [c.points[k] EXCEPT !.effects = ("p" :> -1)]]] :
     c \in {Full, Sampled, [Full EXCEPT !.policies = ("p" :> Static @@ "q" :> Static)]},
     m \in {{"q"}, {"p", "q"}}}

Cases == UNION {PointCases, SampleCases, ManifestCases, FieldCases, OtherCases, UnreplayedCases}

-----------------------------------------------------------------------------
File(written, path, cases) == [written |-> written, path |-> path, cases |-> cases]

StepAt(k, value) ==
  [valid |-> TRUE, time |-> k + 1, values |-> ("y" :> value), units |-> ("y" :> "m")]

Series(values) == [unit |-> "s", points |-> [k \in DOMAIN values |-> StepAt(k, values[k])]]

NoPlan ==
  [declared |-> FALSE, stateful |-> FALSE, model |-> File("m", "m", {}),
   training |-> {File("t", "t", {"k"})}, prediction |-> File("p", "p", {}),
   holdout |-> File("h", "h", {"l"}), gone |-> {}, malformed |-> {},
   content |-> [f \in {"m", "t", "p", "h", "u"} |-> f],
   predicted |-> Series(<<0, 1, 0>>), observed |-> Series(<<0, 1, 0>>),
   trainingEnd |-> 1, stepSize |-> 1, stepUnit |-> "s", horizon |-> 3, targets |-> {"y"},
   maxWorst |-> 1, maxAccumulated |-> 2, maxLag |-> 0, maxPhase |-> 0, maxDrift |-> 1, maxGrowth |-> 1]

Plain == [NoPlan EXCEPT !.declared = TRUE, !.stateful = TRUE]

TrajectoryPlans ==
  {[Plain EXCEPT !.predicted = Series(p), !.observed = Series(o), !.maxAccumulated = a, !.maxLag = l,
                 !.maxPhase = l] :
     p, o \in [1 .. 3 -> 0 .. 2], a \in {1, 3}, l \in {0, 1}}
    \cup {[Plain EXCEPT !.predicted = Series(p), !.observed = Series(o), !.horizon = 4] :
            p, o \in [1 .. 4 -> 0 .. 1]}
    \cup {[Plain EXCEPT !.predicted = Series(p), !.observed = Series(p), !.horizon = 4, !.maxDrift = 0] :
            p \in [1 .. 4 -> 0 .. 2]}

OddSteps ==
  {[StepAt(2, 1) EXCEPT !.valid = FALSE], [StepAt(2, 1) EXCEPT !.time = 0],
   [StepAt(2, 1) EXCEPT !.time = 2], [StepAt(2, 1) EXCEPT !.time = 5],
   [StepAt(2, 1) EXCEPT !.values = <<>>], [StepAt(2, 1) EXCEPT !.units = ("y" :> "km")]}

With(series, step) == [series EXCEPT !.points[2] = step]

AlignmentPlans ==
  {[Plain EXCEPT !.predicted = With(@, p), !.observed = With(@, o), !.trainingEnd = e] :
     p, o \in OddSteps \cup {StepAt(2, 1)}, e \in {1, 2}}
    \cup {[Plain EXCEPT !.horizon = n, !.stepUnit = u, !.stepSize = z,
                        !.predicted.points = SubSeq(@, 1, k), !.observed.points = SubSeq(@, 1, k)] :
            n \in {2, 3}, u \in {"s", "h"}, z \in {1, 2}, k \in 0 .. 3}

FilePlans ==
  {[Plain EXCEPT !.training = {File("t", t, c)}, !.gone = g, !.malformed = m,
                 !.content = [@ EXCEPT !["t"] = d], !.holdout = File(w, "h", {"l"})] :
     t \in {"t", "h", "p"}, c \in {{}, {"l"}}, d \in {"t", "h"}, w \in {"h", "t"},
     g \in {{}, {"t"}, {"h"}, {"m", "p"}}, m \in {{}, {"p"}, {"h"}, {"t"}}}

Plans == UNION {TrajectoryPlans, AlignmentPlans, FilePlans,
                {NoPlan, [NoPlan EXCEPT !.stateful = TRUE], [NoPlan EXCEPT !.declared = TRUE]}}

Tasks ==
  {[case |-> c, plan |-> NoPlan] : c \in Cases} \cup {[case |-> Snapshot, plan |-> p] : p \in Plans}
    \cup {[case |-> c, plan |-> p] : c \in {Full, [Full EXCEPT !.rolesFile = "unreadable"]},
                                     p \in {Plain, [Plain EXCEPT !.maxWorst = 0, !.gone = {"m"}]}}

GenericReasons == {"n/a"}

=============================================================================
