-------------------------- MODULE MCValidationDepth --------------------------
(***************************************************************************)
(* Tasks: one that passes, every series of up to three points against it   *)
(* for each scope, and every way one or two of its parts can be off.       *)
(***************************************************************************)
EXTENDS ValidationDepth

P(valid, time, scenario, audit, block, outside) ==
  [valid |-> valid, time |-> time, scenario |-> scenario, case |-> "", audit |-> audit,
   block |-> block, outside |-> outside]

Good(time) == P(TRUE, time, "s", "pass", "", {})

C(path, state, edges, series) ==
  [path |-> path, state |-> state, mayBePartial |-> FALSE, id |-> path, edges |-> edges,
   points |-> series]

E(source, confidence, issue) ==
  [target |-> "x", source |-> source, confidence |-> confidence, issue |-> issue]

Split(path, content, cases) == [path |-> path, content |-> content, cases |-> cases]

S(id, cases, unperturbed) == [id |-> id, cases |-> cases, unperturbed |-> unperturbed]

TheContract == C("c", "fine", <<E("f", 2, FALSE)>>, <<Good(1), Good(2)>>)

Base ==
  [files |-> <<"data", "schema", "roles", "bench">>, gone |-> {}, malformed |-> {},
   bench |-> "agrees", seriesFile |-> "data", series |-> <<Good(1), Good(2)>>,
   contracts |-> <<TheContract>>, propertiesAgree |-> TRUE,
   roles |-> <<[target |-> "x", source |-> ""]>>, minimumConfidence |-> 2,
   scope |-> "time_window", count |-> 0, first |-> 0, last |-> 0, unitAgrees |-> TRUE,
   scenarios |-> <<S("s", {}, FALSE)>>, calibrated |-> FALSE,
   training |-> <<>>, holdout |-> <<>>, trainUsed |-> "", holdoutUsed |-> "",
   auditRead |-> TRUE, floors |-> FALSE, short |-> FALSE, rollout |-> <<>>]

Names ==
  {"", "plan", "data", "schema", "roles", "bench", "series", "a", "b", "c", "d", "f", "g", "k",
   "r", "s", "v", "w", "x"}

Scopes == {"snapshot", "time_window", "scenario_set", "bounded_dataset"}

-----------------------------------------------------------------------------
SomePoints ==
  {Good(1), Good(2), P(FALSE, 1, "s", "pass", "", {}), P(TRUE, 0, "s", "missing", "", {}),
   P(TRUE, 2, "r", "fail", "a", {}), P(TRUE, 2, "s", "fail", "a", {"error"}),
   P(TRUE, 2, "s", "fail", "b", {}), P(TRUE, 1, "s", "pass", "", {"error", "warning"}),
   P(TRUE, 2, "s", "refused", "", {})}

OfPoints ==
  {[Base EXCEPT !.series = s, !.scope = scope] :
     s \in UNION {[1 .. n -> SomePoints] : n \in 1 .. 3}, scope \in {"snapshot", "time_window"}}

(* Failures around something that is none, and in a row.                   *)
Runs ==
  {[Base EXCEPT !.series = s] :
     s \in [1 .. 4 -> {Good(1), P(TRUE, 2, "s", "fail", "a", {}), P(TRUE, 2, "s", "fail", "b", {}),
                       P(FALSE, 2, "s", "pass", "", {})}]}

OfTime ==
  {[Base EXCEPT !.scope = scope, !.count = c, !.first = f, !.last = f + 1, !.unitAgrees = u] :
     scope \in Scopes, c \in {0, 2, 3}, f \in {1, 2}, u \in BOOLEAN}

OfScenarios ==
  {[Base EXCEPT !.scope = scope, !.scenarios = d, !.series = s] :
     scope \in Scopes,
     d \in {<<>>, <<S("s", {"k"}, FALSE)>>, <<S("s", {}, FALSE), S("r", {}, TRUE)>>,
            <<S("s", {}, FALSE), S("r", {}, FALSE)>>},
     s \in {<<Good(1), Good(2)>>, <<Good(1), P(TRUE, 2, "r", "pass", "", {})>>,
            <<Good(1), [Good(2) EXCEPT !.case = "k"]>>, <<Good(1), Good(1)>>}}

OfFiles ==
  {[Base EXCEPT !.gone = g, !.seriesFile = f, !.malformed = m, !.bench = b, !.scope = scope,
                !.short = s] :
     g \in SUBSET {"data", "schema", "bench"}, f \in {"data", "series", ""},
     m \in {{}, {"schema"}, {"roles"}}, b \in {"agrees", "differs", "unreadable"},
     scope \in {"snapshot", "time_window"}, s \in BOOLEAN}

SomeEdges == {E("f", 2, FALSE), E("f", 2, TRUE), E("g", 3, TRUE), E("g", 1, FALSE)}

OfMapping ==
  {[Base EXCEPT !.contracts = <<[TheContract EXCEPT !.edges = e]>>, !.roles = r] :
     e \in UNION {[1 .. n -> SomeEdges] : n \in 0 .. 2},
     r \in {<<>>, <<[target |-> "x", source |-> ""]>>, <<[target |-> "x", source |-> "g"]>>}}

OfContracts ==
  {[Base EXCEPT !.seriesFile = f, !.series = <<Good(1), Good(2)>>, !.scope = scope,
                !.propertiesAgree = a, !.gone = g,
                !.contracts = [k \in 1 .. n |-> IF k = 1 THEN [TheContract EXCEPT !.state = q,
                                                                 !.mayBePartial = m]
                                                ELSE [TheContract EXCEPT !.path = "d", !.id = "s"]],
                !.scenarios = IF n = 2 THEN <<S("c", {}, FALSE), S("s", {}, FALSE)>>
                              ELSE <<S("s", {}, FALSE)>>] :
     n \in 0 .. 2, q \in {"fine", "partial", "failing", "gone"}, m \in BOOLEAN, a \in BOOLEAN,
     f \in {"", "data"}, scope \in {"time_window", "scenario_set"}, g \in {{}, {"data"}}}

SomeFiles == {Split("a", "v", {"k"}), Split("b", "v", {}), Split("b", "w", {"k"}), Split("d", "w", {})}

OfSplits ==
  {[Base EXCEPT !.calibrated = TRUE, !.training = t, !.holdout = h, !.trainUsed = u, !.gone = g] :
     t \in {<<f>> : f \in SomeFiles} \cup {<<>>}, h \in {<<f>> : f \in SomeFiles} \cup {<<>>},
     u \in {"", "a"}, g \in {{}, {"b"}, {"a", "d"}}}

OfRest ==
  {[Base EXCEPT !.auditRead = r, !.floors = f, !.short = s, !.scope = scope, !.rollout = o] :
     r \in BOOLEAN, f \in BOOLEAN, s \in BOOLEAN, scope \in Scopes,
     o \in {<<>>, <<{Error("predictive_artifact_missing", "data")}>>,
            <<{Error("prediction_series_unreadable", "schema")}>>,
            <<{Error("predictive_drift_threshold_failed", "")}>>}}

Tasks == UNION {OfPoints, Runs, OfTime, OfScenarios, OfFiles, OfMapping, OfContracts,
                {t \in OfSplits : (t.training = <<>>) <=> (t.holdout = <<>>)}, OfRest}

=============================================================================
