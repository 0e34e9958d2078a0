--------------------------- MODULE SamplingAdequacy ---------------------------
(***************************************************************************)
(* Is there enough evidence for what a validation claims                   *)
(* (core/validation_adequacy.py, evaluate_validation_adequacy)?  The plan, *)
(* the manifest of the data file, the roles of its fields, the model and   *)
(* the evaluated points are judged section by section; what falls short is *)
(* reported, and in the end only the floors somebody asked for count.      *)
(*                                                                         *)
(* A case is a plan with the artifacts it finds.  A time, a count or a     *)
(* path is 0 or "" when it is not given, a row -1 (rows are numbered from  *)
(* 0).  Ratios are in percent.  A point carries the outcome of its audit   *)
(* and, for each parameter it replaces, the effect of replaying it with    *)
(* the parameter of the model (-1 when there is no such replay).  The      *)
(* model declares parameters (model), some of them as numbers (numeric).   *)
(***************************************************************************)
EXTENDS Numbers, FiniteSets, FiniteSetsExt

CONSTANT Generic   \* the reasons for an exclusion that explain nothing

(* Without an adequacy plan nothing of it is declared; a policy that names *)
(* parts of the rows names three at least, and what is expected to have an *)
(* effect is expected to have a positive one.  Counts and floors are never *)
(* negative, and a point comes from a row or from none.  Only a parameter  *)
(* that the model gives a number is replaced in a replay.                  *)
WellFormedCase(c) ==
  /\ ~c.planned => /\ DOMAIN c.floors = {} /\ c.mode = "full" /\ DOMAIN c.policies = {}
                   /\ c.criticalSignals = {} /\ c.criticalParameters = {} /\ c.quotas = {}
  /\ \A p \in DOMAIN c.policies :
       c.policies[p].varying =>
         /\ c.policies[p].strata = {} \/ Cardinality(c.policies[p].strata) >= 3
         /\ c.policies[p].sensitive => c.policies[p].effect > 0
         /\ \A key \in DOMAIN c.policies[p].floors : c.policies[p].floors[key] \in Nat
  /\ {c.floors[key] : key \in DOMAIN c.floors} \cup {c.nonNull[f] : f \in DOMAIN c.nonNull}
       \cup {c.manifest.rows, c.manifest.samples} \subseteq Nat
  /\ IsFiniteSet(DOMAIN c.points)
  /\ \A k \in DOMAIN c.points :
       /\ c.points[k].row \in Nat \cup {-1}
       /\ \A p \in DOMAIN c.points[k].effects \ c.numeric : c.points[k].effects[p] = -1
  /\ c.numeric \subseteq c.model

VARIABLES
  case,         \* the plan and what it finds
  stage,        \* the section to come
  shortfalls,   \* what was found missing so far: its type and what it is about
  signals,      \* the signals with sufficient evidence
  parameters,   \* the parameters with sufficient evidence
  adequacy      \* the result; "" until there is one

adequacyVars == <<case, stage, shortfalls, signals, parameters, adequacy>>

Stages == {"gate", "mappings", "signals", "parameters", "time", "selection", "families",
           "conclude", "done"}

Short(type, about) == [type |-> type, about |-> about]
When(reason, type, about) == IF reason THEN {Short(type, about)} ELSE {}

AdequacyStart ==
  /\ stage = "gate"
  /\ shortfalls = {} /\ signals = {} /\ parameters = {}
  /\ adequacy = ""

-----------------------------------------------------------------------------
(* Floors of a file of n rows, and gaps in a set.                          *)
RootCeiling(n) == Min({k \in 0 .. n : k * k >= n})

RatioBelow(count, of, percent) == IF of = 0 THEN percent > 0 ELSE 100 * count < percent * of

UniversalCount(n) == IF n = 0 THEN 0 ELSE Smaller(n, Larger(12, RootCeiling(n)))

(* The floor of n available rows: what counts and ratios ask for, never    *)
(* less than the universal count and never more than there is.             *)
(* Mutant of CoverageFloor: what a project asks for replaces the rest.     *)
ProjectFloor(n, counts, ratios) ==
  IF n = 0 THEN 0
  ELSE Smaller(n, Max(counts \cup {Ceiling(r * n, 100) : r \in ratios}))

CoverageFloor(n, counts, ratios) ==
  IF n = 0 THEN 0
  ELSE Smaller(n, Max({UniversalCount(n)} \cup counts \cup {Ceiling(r * n, 100) : r \in ratios}))

(* No two neighbours of the set are further apart than allowed, and there  *)
(* are neighbours.                                                         *)
NoHole(S, allowed) ==
  /\ Cardinality(S) >= 2
  /\ \A a \in S : a = Max(S) \/ \E b \in S : a < b /\ b - a <= allowed

RowGapAllowed(n, floor) == Larger(1, Ceiling(2 * (n - 1), floor - 1))

Forever == 1000000
-----------------------------------------------------------------------------
(* The universe: what the manifest, the roles, the mapping, the blocks and *)
(* the plan name.                                                          *)
Edges == {e \in case.edges : ~e.review}
NextRow == \E e \in case.edges : e.nextRow

(* A row whose signal is taken from the row after it needs that row.       *)
Usable ==
  LET counted == Larger(case.manifest.rows, case.manifest.samples)
  IN  IF NextRow /\ counted > 0 THEN counted - 1 ELSE counted

Gap == case.manifest.gap

Span ==
  LET whole == case.manifest.duration IN
  IF ~NextRow THEN whole
  ELSE IF case.manifest.penultimate # 0 THEN case.manifest.penultimate
  ELSE IF whole # 0 /\ Gap # 0 THEN Larger(0, whole - Gap) ELSE whole

(* Floors the plan does not write: counts and times of the manifest, the   *)
(* others inactive.                                                        *)
Inactive ==
  [minimum_selected_points |-> Usable, minimum_selected_ratio |-> 0,
   minimum_distinct_timestamps |-> Usable, minimum_time_span |-> Larger(Span, 1),
   maximum_time_gap |-> IF Gap = 0 THEN Forever ELSE Gap, require_start_middle_end |-> 0,
   minimum_signal_coverage_ratio |-> 0, minimum_per_signal_valid_points |-> 0,
   minimum_per_signal_valid_ratio |-> 0, minimum_per_parameter_valid_points |-> 0,
   minimum_per_parameter_valid_ratio |-> 0, minimum_parameter_coverage_ratio |-> 0,
   maximum_exclusion_ratio |-> 100, maximum_repeated_exclusion_reason_count |-> 1,
   adaptive_minimum_selected_points |-> 0, adaptive_minimum_selected_ratio |-> 0,
   reject_repeated_exclusion_reasons |->
     IF {"maximum_exclusion_ratio", "maximum_repeated_exclusion_reason_count"}
          \cap DOMAIN case.floors # {} THEN 1 ELSE 0]

Floor(key) == IF key \in DOMAIN case.floors THEN case.floors[key] ELSE Inactive[key]

(* The floors of one parameter, and what stands in for those not written.  *)
Inferred ==
  [minimum_valid_points |-> Usable, minimum_valid_ratio |-> 100,
   minimum_distinct_timestamps |-> Usable, minimum_time_span |-> Larger(Span, 1),
   maximum_time_gap |-> IF Gap = 0 THEN Forever ELSE Gap,
   convergence_minimum_valid_points |-> 0, convergence_minimum_valid_ratio |-> 0]

Own(p, key) ==
  IF key \in DOMAIN case.policies[p].floors THEN case.policies[p].floors[key] ELSE Inferred[key]

Authored ==
  DOMAIN case.floors
    \cup (IF case.criticalSignals # {} THEN {"critical_signals"} ELSE {})
    \cup (IF case.criticalParameters # {} THEN {"critical_parameters"} ELSE {})
    \cup (IF DOMAIN case.policies # {} THEN {"parameter_temporal_policies"} ELSE {})
    \cup (IF case.quotas # {} THEN {"family_quotas"} ELSE {})

Fields == {f \in DOMAIN case.fields : ~case.fields[f].time}
Excluded == {f \in Fields : case.fields[f].use = "excluded"}
Eligible == {f \in Fields : case.fields[f].use = "covered"}
Selected == Fields \cap ({v.source : v \in case.variables} \cup {e.source : e \in Edges})

Candidates == {v.target : v \in {w \in case.variables : w.candidate}}
RequiredSignals == (UNION {b.signals : b \in case.blocks}) \cup case.criticalSignals
RequiredParameters ==
  (UNION {b.parameters : b \in case.blocks}) \cup case.criticalParameters \cup Candidates

SignalTargets ==
  RequiredSignals \cup {v.target : v \in {w \in case.variables : ~w.candidate}}
Parameters ==
  RequiredParameters \cup {e.target : e \in {d \in Edges : d.parameter}} \cup DOMAIN case.policies

SourcesOf(target) ==
  {e.source : e \in {d \in Edges : d.target = target}}
    \cup {v.source : v \in {w \in case.variables : w.target = target}}

Covered ==
  {e.target : e \in Edges} \cup {v.target : v \in case.variables} \cup (Parameters \cap case.model)
-----------------------------------------------------------------------------
(* The valid points, by their place in the series.                         *)
Point(k) == case.points[k]
Valid == {k \in DOMAIN case.points : Point(k).valid}
Giving(target) == {k \in Valid : target \in DOMAIN Point(k).values}
Passing(points) == {k \in points : Point(k).outcome = "pass"}
TimesOf(points) == {Point(k).time : k \in points} \ {0}
RowsOf(points) == {Point(k).row : k \in points} \ {-1}
ValuesOf(p) == {Point(k).values[p] : k \in Giving(p)}

Spread(points, stamps, span, gap) ==
  LET times == TimesOf(points) IN
  /\ Cardinality(times) >= stamps
  /\ NoHole(times, gap)
  /\ Max(times) - Min(times) >= span

-----------------------------------------------------------------------------
(* Gates.  A snapshot without a plan needs no adequacy; without readable   *)
(* inputs nothing is judged, and what cannot be read is an error.          *)
SkipAdequacy ==
  /\ stage = "gate"
  /\ case.scope = "snapshot" /\ ~case.planned
  /\ adequacy' = "not_applicable"
  /\ stage' = "done"
  /\ UNCHANGED <<case, shortfalls, signals, parameters>>

Unread ==
  When(case.manifestFile = "unreadable", "validation_manifest_unreadable", "manifest")
    \cup When(case.rolesFile = "unreadable", "validation_role_matrix_unreadable", "roles")

LoadArtifacts ==
  /\ stage = "gate"
  /\ case.scope # "snapshot" \/ case.planned
  /\ shortfalls' = Unread
  /\ IF /\ case.manifestFile = "fine" /\ case.rolesFile = "fine"
        /\ case.inputs /\ case.points # <<>>
     THEN stage' = "mappings" /\ UNCHANGED adequacy
     ELSE stage' = "done" /\ adequacy' = "not_run"
  /\ UNCHANGED <<case, signals, parameters>>

LoadMappings ==
  /\ stage = "mappings"
  /\ shortfalls' = shortfalls
       \cup {Short("validation_mapping_edges_unreadable", path) : path \in case.unreadContracts}
  /\ IF case.unreadContracts = {} THEN stage' = "signals" /\ UNCHANGED adequacy
     ELSE stage' = "done" /\ adequacy' = "not_run"
  /\ UNCHANGED <<case, signals, parameters>>

-----------------------------------------------------------------------------
(* Signals: enough points that give it pass, spread over the time that is  *)
(* claimed.  Two counts of the manifest that differ are reported first.    *)
SignalPasses(target) ==
  LET passing == Cardinality(Passing(Giving(target))) IN
  /\ passing >= Floor("minimum_per_signal_valid_points")
  /\ ~RatioBelow(passing, Cardinality(Valid), Floor("minimum_per_signal_valid_ratio"))
  /\ Spread(Giving(target), Floor("minimum_distinct_timestamps"), Floor("minimum_time_span"),
            Floor("maximum_time_gap"))

JudgeSignals ==
  /\ stage = "signals"
  /\ signals' = {t \in SignalTargets : SignalPasses(t)}
  /\ shortfalls' = shortfalls
       \cup When(case.manifest.rows # 0 /\ case.manifest.samples # 0
                   /\ case.manifest.rows # case.manifest.samples,
                 "manifest_point_count_mismatch", "")
       \cup {Short("critical_signal_time_coverage_insufficient", t) :
               t \in RequiredSignals \ signals'}
  /\ stage' = "parameters"
  /\ UNCHANGED <<case, parameters, adequacy>>

-----------------------------------------------------------------------------
(* Parameters.  How many rows could have given a time-varying parameter a  *)
(* value: those of the manifest, or of a field that is mapped to it.       *)
AvailableTo(p) ==
  LET from == case.policies[p].source IN
  CASE from.kind = "rows" -> Usable
    [] from.kind = "field" /\ from.name \in SourcesOf(p) /\ from.name \in DOMAIN case.nonNull
         -> case.nonNull[from.name]
    [] OTHER -> 0

AvailabilityShortfalls(p) ==
  LET from == case.policies[p].source
      bound == from.name \in SourcesOf(p)
  IN  When(AvailableTo(p) = 0 /\ (from.kind = "rows" \/ (from.kind = "field" /\ bound)),
           "parameter_availability_count_missing", p)
        \cup When(from.kind = "field" /\ ~bound, "parameter_availability_source_unbound", p)
        \cup When(from.kind = "other", "parameter_availability_source_invalid", p)

ParameterFloor(p) ==
  CoverageFloor(AvailableTo(p),
    {Floor("minimum_per_parameter_valid_points"), Own(p, "minimum_valid_points"),
     Own(p, "convergence_minimum_valid_points")}
      \cup (IF case.mode = "full" THEN {AvailableTo(p)} ELSE {}),
    {Floor("minimum_per_parameter_valid_ratio"), Own(p, "minimum_valid_ratio"),
     Own(p, "convergence_minimum_valid_ratio")})

(* The model was replayed for each point that gives the parameter a value. *)
(* Mutant of Replayed: failed replays are passed over.                     *)
Evaluated(points) == {k \in points : Point(k).outcome \in {"pass", "fail"}}
Effects(p) == {Point(k).effects[p] : k \in Evaluated(Giving(p))} \ {-1}

ReplayedSometimes(p) == Effects(p) # {}

Replayed(p) ==
  /\ Giving(p) # {}
  /\ \A k \in Giving(p) : Point(k).outcome \in {"pass", "fail"} /\ Point(k).effects[p] # -1

Contributes(p) ==
  /\ p \in case.numeric
  /\ Replayed(p)
  /\ Cardinality(ValuesOf(p)) >= 2
  /\ IF case.policies[p].sensitive THEN Max(Effects(p)) >= case.policies[p].effect
                                   ELSE Max(Effects(p)) <= case.policies[p].effect

(* Parts of the rows, by fractions of their range.                         *)
Inside(row, part, n) ==
  LET last == Larger(n - 1, 1) IN
  row < n /\ part.from * last <= row * part.of /\ row * part.of <= part.to * last

Third(k) == [from |-> k - 1, to |-> k, of |-> 3, least |-> 1]

StrataMet(p) ==
  LET wanted == case.policies[p].strata IN
  \A part \in (IF wanted = {} THEN {} ELSE wanted \cup {Third(k) : k \in 1 .. 3}) :
    Cardinality({r \in RowsOf(Passing(Giving(p))) : Inside(r, part, AvailableTo(p))}) >= part.least

(* Samples that stand for a whole file need evidence of their own.         *)
HasDirection(p) ==
  /\ \E s \in case.scenarios :
       p \in s.perturbs /\ \E k \in Giving(p) : Point(k).scenario = s.id
  /\ Cardinality(ValuesOf(p)) >= 2

EvidenceShortfalls(p) ==
  IF case.mode = "full" THEN {}
  ELSE When(Passing(Giving(p)) = {}, "time_varying_parameter_residual_evidence_missing", p)
    \cup When(~HasDirection(p), "time_varying_parameter_direction_evidence_missing", p)
    \cup When(p \notin case.enveloped, "time_varying_parameter_physical_envelope_missing", p)

VaryingPasses(p) ==
  LET n == AvailableTo(p)
      rows == RowsOf(Passing(Giving(p)))
  IN
  /\ p \in Covered /\ p \in case.numeric
  /\ n > 0
  /\ Cardinality(rows) >= ParameterFloor(p)
  /\ Spread(Giving(p), Own(p, "minimum_distinct_timestamps"), Own(p, "minimum_time_span"),
            Own(p, "maximum_time_gap"))
  /\ StrataMet(p)
  /\ n > 1 /\ ParameterFloor(p) > 1 /\ NoHole(rows, RowGapAllowed(n, ParameterFloor(p)))
  /\ Contributes(p)
  /\ EvidenceShortfalls(p) = {}
  /\ case.mode = "full" => Cardinality(rows) = n

Classified(p) == p \in DOMAIN case.policies
Varying(p) == Classified(p) /\ case.policies[p].varying

ParameterPasses(p) ==
  IF Varying(p) THEN VaryingPasses(p) ELSE Classified(p) /\ p \in Covered /\ p \in case.model

VaryingShortfalls(p) ==
  AvailabilityShortfalls(p) \cup EvidenceShortfalls(p)
    \cup When(p \notin case.numeric, "time_varying_parameter_model_target_missing", p)
    \cup When(~Contributes(p), "time_varying_parameter_model_contribution_missing", p)
    \cup When(~VaryingPasses(p), "time_varying_parameter_time_coverage_insufficient", p)

JudgeParameters ==
  LET varying == {p \in Parameters : Varying(p)} IN
  /\ stage = "parameters"
  /\ parameters' = {p \in Parameters : ParameterPasses(p)}
  /\ shortfalls' = shortfalls
       \cup {Short("parameter_temporal_classification_missing", p) :
               p \in {q \in Parameters : ~Classified(q)}}
       \cup UNION {VaryingShortfalls(p) : p \in varying}
       \cup {Short("static_parameter_evidence_missing", p) :
               p \in {q \in Parameters \ varying : Classified(q)} \ parameters'}
       \cup {Short("critical_parameter_uncovered", p) : p \in RequiredParameters \ parameters'}
  /\ stage' = "time"
  /\ UNCHANGED <<case, signals, adequacy>>

-----------------------------------------------------------------------------
(* Time and the rows the valid points come from: each its own moment, its  *)
(* own row of a declared file, with no hole and every tag that is asked    *)
(* for.  A snapshot is not held to it.                                     *)
Located(k) == Point(k).file # "" /\ Point(k).row # -1
SameRow(j, k) == Point(j).file = Point(k).file /\ Point(j).row = Point(k).row
RowsRepeat == \E j, k \in Valid : j # k /\ Located(j) /\ Located(k) /\ SameRow(j, k)
TimesRepeat == \E j, k \in Valid : j # k /\ Point(j).time # 0 /\ Point(j).time = Point(k).time
OutOfRange(k) == Located(k) /\ (Point(k).file \notin case.files \/ Point(k).row >= Usable)

ThirdsSeen == {i \in 1 .. 3 : \E r \in RowsOf(Valid) : Usable > 1 /\ Inside(r, Third(i), Usable)}
TagsSeen(kind) == {t.name : t \in {u \in UNION {Point(k).tags : k \in Valid} : u.kind = kind}}
TagsMissing(kind) == ~({t.name : t \in {u \in case.tags : u.kind = kind}} \subseteq TagsSeen(kind))

TimeShortfalls ==
  LET times == TimesOf(Valid) IN
  When(Cardinality(times) < Floor("minimum_distinct_timestamps"),
       "temporal_distinct_timestamp_floor_not_met", "")
    \cup When(TimesRepeat, "temporal_duplicate_timestamps", "")
    \cup When(Cardinality(times) < 2 \/ Max(times) - Min(times) < Floor("minimum_time_span"),
              "temporal_positive_span_missing", "")
    \cup When(~NoHole(times, Floor("maximum_time_gap")), "temporal_maximum_gap_exceeded", "")
    \cup When(Floor("require_start_middle_end") = 1 /\ ThirdsSeen # 1 .. 3, "temporal_strata_missing", "")
    \cup When(TagsMissing("event"), "temporal_event_tags_missing", "")
    \cup When(TagsMissing("peak"), "temporal_peak_tags_missing", "")
    \cup When(TagsMissing("boundary"), "temporal_boundary_tags_missing", "")
    \cup When(TagsMissing("mode"), "temporal_modes_missing", "")
    \cup When(\E k \in Valid : ~Located(k), "source_row_lineage_missing", "")
    \cup When(RowsRepeat, "source_row_lineage_duplicate", "")
    \cup When(\E k \in Valid : OutOfRange(k), "source_row_lineage_out_of_range", "")

JudgeTime ==
  /\ stage = "time"
  /\ shortfalls' = shortfalls \cup (IF case.scope = "snapshot" THEN {} ELSE TimeShortfalls)
  /\ stage' = "selection"
  /\ UNCHANGED <<case, signals, parameters, adequacy>>

-----------------------------------------------------------------------------
(* Selection: how much of the rows, signals and parameters there are was   *)
(* used, and whether what was left out was left out for a reason.          *)
SelectedRows == {<<Point(k).file, Point(k).row>> : k \in {j \in Valid : Located(j)}}

SelectionFloor ==
  CoverageFloor(Usable,
    {Floor("minimum_selected_points"), Floor("adaptive_minimum_selected_points")}
      \cup (IF case.mode = "full" THEN {Usable} ELSE {}),
    {Floor("minimum_selected_ratio"), Floor("adaptive_minimum_selected_ratio")})

ExcludedFor(reason) == {f \in DOMAIN case.fields : /\ case.fields[f].use = "excluded"
                                                   /\ case.fields[f].reason = reason}
Reasons == {case.fields[f].reason : f \in {g \in DOMAIN case.fields : case.fields[g].use = "excluded"}}

SelectionShortfalls ==
  LET few == Cardinality(SelectedRows) < SelectionFloor IN
  When(few, "selected_point_floor_not_met", "") \cup When(few, "selected_point_ratio_not_met", "")
    \cup When(case.mode = "full" /\ Cardinality(SelectedRows) # Usable, "full_sampling_incomplete", "")
    \cup When(RatioBelow(Cardinality(Selected), Cardinality(Eligible),
                         Floor("minimum_signal_coverage_ratio")), "signal_coverage_ratio_not_met", "")
    \cup When(RatioBelow(Cardinality(Parameters \cap Covered), Cardinality(Parameters),
                         Floor("minimum_parameter_coverage_ratio")), "parameter_coverage_ratio_not_met", "")
    \cup When(100 * Cardinality(Excluded) > Floor("maximum_exclusion_ratio") * Cardinality(Fields),
              "exclusion_ratio_exceeded", "")
    \cup When(Floor("reject_repeated_exclusion_reasons") = 1
                /\ \E r \in Reasons \ {""} :
                     Cardinality(ExcludedFor(r)) > Floor("maximum_repeated_exclusion_reason_count"),
              "repeated_exclusion_reason", "")
    \cup When(Reasons \cap Generic # {}, "templated_exclusion_reason", "")

JudgeSelection ==
  /\ stage = "selection"
  /\ shortfalls' = shortfalls \cup SelectionShortfalls
  /\ stage' = "families"
  /\ UNCHANGED <<case, signals, parameters, adequacy>>

(* Families of the plan count what is covered in any way, the blocks of    *)
(* the model only what has sufficient evidence.                            *)
CoveredIn(quota) == {m \in quota.members : m \in signals \/ m \in parameters \/ m \in Covered}

QuotaMet(quota) ==
  /\ Cardinality(CoveredIn(quota)) >= quota.count
  /\ ~RatioBelow(Cardinality(CoveredIn(quota)), Cardinality(quota.members), quota.ratio)

JudgeFamilies ==
  /\ stage = "families"
  /\ shortfalls' = shortfalls
       \cup {Short("family_quota_not_met", q.id) : q \in {r \in case.quotas : ~QuotaMet(r)}}
       \cup {Short("subsystem_critical_coverage_missing", b.id) :
               b \in {c \in case.blocks : ~(c.signals \cup c.parameters \subseteq signals \cup parameters)}}
  /\ stage' = "conclude"
  /\ UNCHANGED <<case, signals, parameters, adequacy>>

-----------------------------------------------------------------------------
(* Only what somebody asked for is held against the validation, and only   *)
(* as a warning.                                                           *)
ParameterKeys ==
  {"critical_parameters", "parameter_temporal_policies", "minimum_parameter_coverage_ratio",
   "minimum_per_parameter_valid_points", "minimum_per_parameter_valid_ratio", "family_quotas"}

Gates ==
  [signal_coverage_ratio_not_met |-> {"minimum_signal_coverage_ratio"},
   parameter_coverage_ratio_not_met |-> {"minimum_parameter_coverage_ratio"},
   parameter_temporal_classification_missing |-> ParameterKeys,
   critical_parameter_uncovered |-> ParameterKeys,
   subsystem_critical_coverage_missing |-> {"family_quotas"},
   exclusion_ratio_exceeded |-> {"maximum_exclusion_ratio"},
   templated_exclusion_reason |-> {"maximum_exclusion_ratio", "reject_repeated_exclusion_reasons"},
   repeated_exclusion_reason |->
     {"reject_repeated_exclusion_reasons", "maximum_repeated_exclusion_reason_count",
      "maximum_exclusion_ratio"}]

Held(found) ==
  {f \in found : f.type \in DOMAIN Gates => Gates[f.type] \cap Authored # {}}

ConcludeAdequacy ==
  /\ stage = "conclude"
  /\ shortfalls' = Held(shortfalls)
  /\ adequacy' = IF shortfalls' = {} THEN "pass" ELSE "partial"
  /\ stage' = "done"
  /\ UNCHANGED <<case, signals, parameters>>

AdequacyNext ==
  \/ SkipAdequacy \/ LoadArtifacts \/ LoadMappings \/ JudgeSignals \/ JudgeParameters
  \/ JudgeTime \/ JudgeSelection \/ JudgeFamilies \/ ConcludeAdequacy

-----------------------------------------------------------------------------
Passed == stage = "done" /\ adequacy = "pass"

(* A pass beyond a snapshot cannot be had from few rows used often, from   *)
(* rows the file does not have or from floors set low: each valid point is *)
(* a row and a moment of its own, the rows are never fewer than the        *)
(* universal count, and all of them when the sequence is to be full.       *)
EvidenceCoversFile ==
  Passed /\ case.scope # "snapshot" =>
    /\ \A j, k \in Valid :
         j # k => ~SameRow(j, k) /\ (Point(j).time = Point(k).time => Point(j).time = 0)
    /\ \A k \in Valid : Point(k).file \in case.files /\ Point(k).row \in 0 .. Usable - 1
    /\ Cardinality(Valid) >= UniversalCount(Usable)
    /\ case.mode = "full" /\ Cardinality({Point(k).file : k \in Valid}) = 1 =>
         RowsOf(Valid) = 0 .. Usable - 1

(* A parameter that varies is not covered by points that merely carry it:  *)
(* a pass means enough different rows that passed, with no long stretch of *)
(* rows between them, two values at least, and that every single point     *)
(* carrying it was evaluated and replayed against the model.               *)
EvidenceReachesParameters ==
  Passed =>
    \A p \in DOMAIN case.policies :
      LET n == AvailableTo(p)
          rows == RowsOf(Passing(Giving(p)))
      IN  case.policies[p].varying =>
            /\ n > 1 /\ Cardinality(rows) >= UniversalCount(n)
            /\ NoHole(rows, RowGapAllowed(n, UniversalCount(n)))
            /\ \A k \in Giving(p) : /\ Point(k).outcome \in {"pass", "fail"}
                                    /\ Point(k).effects[p] # -1
            /\ \E j, k \in Giving(p) : Point(j).values[p] # Point(k).values[p]

=============================================================================
