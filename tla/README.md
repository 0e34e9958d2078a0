# PhysicsGuard, specified

PhysicsGuard audits a table of measured signals against a low-fidelity physical
model: every physical relation becomes a *residual*, a report says which blocks
of the modelled system disagree with the measurements, and nothing that was not
really compared may count as agreement. This directory holds a TLA+ model of
its decision logic, the TLC runs that check it on small instances and the
proofs, checked by TLAPS, of what matters most for every instance.

The program is a single-threaded Python package. What is hard in it is not
concurrency between threads but *order* (a greedy derivation over a list, trees
folded by level, cards applied one after the other), *stale facts* (a
dependency traced before the values are known) and *evidence* (a relation used
to produce a number may not confirm it). Two places meet crashes and
concurrent actors: the release workflow and the skill installer.

## 1. The system

`H` is `core/hierarchy.py`, `R` is `core/residual.py`.

| Component | State it keeps | Operations | What is hard | What makes it correct |
|---|---|---|---|---|
| Observed evaluation (`H:489-600`, `H:1174-1308`) | known values, derivations, consumed occurrences, change flags | trace, carry along connections, derive from one relation, check, judge | order of records, staleness of traces, refusals, stopping | observations survive; each value has one well-founded source inside its window; producers are never checks; nothing derivable is left; no guess counts as evidence; no verdict on nothing |
| Block tree (`H:127-340`, `H:660-960`) | home of each residual, scores, verdicts, refinement rows | assign, score, include descendants, compare refinements | declared levels that skip, second roots, records without a block, consumed coarse relations | verdicts and scores are those of the subtree; connections stay local; failures reach a root; inconsistency is evidence |
| Dependency tracing (`core/_residual_dependencies.py`) | frames of the running functions, dependencies of their locals, branches in effect; reuse cache of one command | trace, reuse | branches not taken, helper functions, refusals; stale reuse, reentry, errors | no source a residual varies with is missing; traces are reused within one outermost command only |
| Residual builder, registry (`R`, `core/registry.py`) | records in order, variable vector | build, evaluate | refusals, order | one occurrence per relation |
| Solver (`core/solver.py`) | none | bounded least squares | numerics | (numerical) |
| Source-report colours (`H:831-911`, `io/source_reading.py`) | a row with a colour per reading, colours of inlets and blocks | read properties, tables and cells, judge cells again, read variables and parameters, bind inlets, carry colours to derived values, colour blocks and claims | rows judged before and after conversion, several derivations, one description used for two inlets, reds that are repainted | green goes back to originals that say the same; no disagreement is lost on the way to the verdict; inlets stay apart |
| Assumptions (`core/assumptions.py`) | cards | fill or override parameters, replace boundaries, summarise | several cards on one target | each target has one source and the cards say which |
| Fault variants (`core/diagnosability.py`) | rows per variant and pair | edit device, rederive, sign, compare, suggest | masked against unevaluable; what a pair hides | verdict on a pair only from evidence; a suggested signal tells faults apart |
| Dataset validation (`core/validation_depth.py`, `core/validation_adequacy.py`, `core/model_dataset_validation.py`) | series, findings, statuses | split, evaluate series, adequacy floors, envelopes, status | order of downgrades, intervals, overlap of splits, floors, gaps and rows that need their successor | pass means every part ran and passed, on enough rows of the file and replayed parameters |
| Predictive rollout (`core/predictive_rollout.py`) | series and thresholds | gates, metrics | alignment, lag ties | a pass needs an independent aligned holdout |
| Test-file contracts, manifests, mapping, coverage, quantity flow | ledgers | readiness decisions | partial ledgers | ready means no open gap |
| Units and observed conversion | conversion steps | convert | order of steps | conversions compose |
| Physics modules (`modules/`) | parameters | residuals | domains, branches, shared helpers, parameters with and without one origin | what a residual varies with can be traced |
| Loaders, schemas, CLI (`io/`, `schema/`, `cli.py`, `workflow.py`) | none | parse, dispatch, exit codes | error paths | exit 0 only on pass |
| Release publication (`.github/workflows/publish-release.yml`) | remote tag and release | check identity, wait for CI, create, verify | actors outside, crashes between steps | one stable release per version at a certified source |
| Skill installer (`scripts/install_physicsguard_skills.py`) | installed copy | compare, remove, copy | crash in the middle | a rerun repairs; `--check` never passes a partial copy |

The CLI loads a system and a snapshot, the builder turns components,
connections, boundaries and assumptions into records, the evaluation traces and
derives, and the report (the block tree, colours, rankings) is computed from
the records and the outcome. Variants and dataset validation call the
evaluation repeatedly with edited systems or successive points.

## 2. Modules

Every module names the code's functions in its comments; the exact lines of
every definition are in `PROJECT.json` under "map". `MC*` modules give the
constants their small values, `*Proofs` modules hold the theorems.

### Records, Relations

What a residual record is, and what evaluating it can show. Numbers are
abstracted to a finite set `Value`; a residual is a root (`"zero"`), a mismatch
within the audit threshold (`"small"`) or beyond it (`"large"`), or a refusal
(`DomainRefusal`). `Reads(r, env)` is what the tracer of
`_residual_dependencies.py` reports when `r` is evaluated at `env`. The
assumptions say that a residual looks only at what it reads and that a
connection is the difference of its two ends. `IsRoot` abstracts the numerical
root search of `_derive_unobserved`: one root in the window and no refused
sample. How the samples are placed, and tolerances, are not modelled.

### Formulas, NativeHelpers, Native*, TraceScope, Tracing

`Formulas` is a small language for the residual functions of the native
modules: expressions over variables, parameters and locals, assignments,
branches, calls and refusals, with a semantics (`ValOf`, `ExecOf`) that leaves the
arithmetic itself open: an operator is some function of its operands (`Mixed`),
and only what the code's control flow looks at (truth, zero, the least of some
values) is given. `NativeHelpers` has the functions the modules share
(interpolation, domain checks, compressor relations); `NativeControl`,
`NativeSignals`, `NativePhysical`, `NativeComponents` and `NativeMachines` have
one definition for each native module class, statement by statement in the
order of its `residuals`, so that what a module reads first, where it branches
and where it refuses is that of the code. `Given` and `Unclaimed` say which of
its parameters has an attribute of its own, as `native_parameter_attributes` of
`modules/registry.py` finds out.

`Tracing` is `core/_residual_dependencies.py`. `Request` starts the trace of a
module, or reuses one; `Step` is one traced statement:
`ReadVariables` and `Assign` collect what a value depends on, `Branch` adds the condition to everything the
branch may assign, taken or not, `Enter` and `Return` follow a helper function
into a frame of its own, `Refuse` ends the trace with an error,
`Deliver` with the records. `Command` and `Leave`
are `residual_trace_scope`, entered again by a command inside a command.
`TraceScope`, which `Tracing` extends and whose actions its actions are made of,
is that scope alone: `Open`, `Close`, `Serve` a request from the first entry that
agrees with it, `Start` a trace when none does, `Follow` it, `Finish` or `Discard`
it. What is traced and what is found are left open there. `NoDependenceMissed`
compares the result with the semantics: for every variable that is not named,
changing it changes nothing. `ReuseRetraces` compares a reused answer with what a
trace at the requested point would find (`Found`, the steps of the trace from
its opening on, `Opening`, to the records): an entry is kept without values when
nothing the method decides on comes from a variable, and the code then takes it
to be right at every point.

What is computed over syntax trees (the value of an expression, what a body
computes, the sources of an expression, the variables it reads, what a branch may
assign and whether it may leave, and what a trace goes on to find) is a constant
operator each, `Val`, `Exec`, `Observe`, `Reached`, `Resolvable`, `Targets`,
`MayLeave`, `Found`, and its definition is
one unfolding, `ValOf`, `ExecOf` and so on, which calls the constant for the
parts. `Tracing.cfg` gives each constant its unfolding (`Val <- ValOf`), which is
the recursion one would write, without a RECURSIVE operator in a module that is
proved about; `Equations` says the same in a formula. `SyntaxAssumption` says that
methods and helpers are trees (`Terms`, `Statements`, each part of less `Depth`
than the whole) and `AuditsAssumption` that an audit gives every variable and
parameter of the module a value; TLC evaluates both on the catalogue.

### Derivation, DerivationAbs

`HierarchicalAuditRunner.evaluate_observed` with `_derive_unobserved`,
`_propagate_connections` and `_checked_unconsumed`.

| State | Code |
|---|---|
| `relations`, `observed`, `skip` | the builder's records, the snapshot, `skip_unobserved` |
| `needs` | the dependencies traced once, at observed values over initial guesses |
| `known`, `derived`, `used` | the value map, `derived_variables` in insertion order, consumed occurrences |
| `pc`, `edge`, `moved`, `index`, `changed` | the position in the nested loops and their flags |
| `checked`, `unchecked`, `outcome` | evaluated records, gaps, the verdict or the error |

`Trace` is the trace of all records; `PropagateEdge` is one iteration of a
connection pass that carries something, `RepeatPass`/`EndPropagation` its end;
`ConsumeRelation` is one relation that derives a variable, which starts the
connection passes again; `RepeatScan`/`EndDerivation` the end of a relation
scan; `CheckRecord`, `ReportGap`, `SkipUsed` one iteration of the check loop;
`Report`, `TraceRefused`, `CheckRefused` the ways to return. Iterations of the
two derivation loops that do nothing are passed over in the step that follows
them (the guards say that nothing before could act), so a step is one change.

`DerivationAbs` is what the scans promise: any relation with one unknown and
one root may be consumed next, a connection being nothing special, and the
judgement comes in one step when nothing can be consumed any more.
`ImplementsPromise` is the refinement, with `checked` and `unchecked` appearing
at the judgement. It implies what one would otherwise state one by one: known
values are kept, a producer is never counted as a check, no verdict is given on
nothing, and derivation stops only when nothing more can be derived. It is a
safety refinement; that the evaluation ends is `Terminates`.

### BlockRollup

`_build_report` with `BlockIndex`, `BlockScorer`, `_include_descendants` and
`_refinement_checks`. `Assign` gives every checked occurrence its block (a
connection the lowest common ancestor of its ends, by declared level, and the
block named `interblock` when there is none), `ScoreBlocks` scores each block on
its own residuals of the scored roles, `RollUp(b)` folds the children into `b`,
deepest first, `Compare(p)` writes the refinement row of a parent. The scoring
method is a parameter. The assumption on the tree is what `HierarchySpec`
validates; levels may skip and there may be several roots. The refinement
planner, the confidence scorer and the sorting of the report's lists are left
out.

### SourceReading, SourceReport

`SourceReading` is `io/source_reading.py`: the row a quote, a CSV file and a
cell get (`QuoteRow`, `TableRow`, `CellRow`, `SignalRow`), the second look at a
cell after its conversion (`Recheck`), and the binding of a mixer's inlets to
the clauses of the text (`Entities` is `_source_entities`; `Bound`,
`InletColour`, `RoleOf`, `BoundRow` are `check_input_roles`). A number is what
comparing it with its original shows, a text the clauses it has and where a
quote occurs in them; reading a number and its unit out of a text is data, and
what makes a snapshot fail to load (a CSV file that cannot be read) is left out.

`SourceReport` is the report, from the quotes to its verdict. It extends
`BlockRollup`: `Evaluate` is a step of the block tree. Before it come the
stages of loading (`ReadProperties`, `ReadTables`, `RecheckCells`,
`ReadSignals`, `ReadParameters`), after it those of `_attach_source_report`:
`BindInlets`, `Spread` for one derived value after the other, `ColourBlocks`,
`ReadClaims`, `Conclude`. A document is a snapshot with what the evaluation
derived from it and what the checked relations read; the derivation is taken at
its word, `WellOrdered` being what `Provenance` of `Derivation` shows.

### Assumptions

`AssumptionManager` and what `ResidualBuilder` makes of it. `SkipCard`,
`UnknownComponent` and `ApplyCard` are the loop of
`apply_parameter_assumptions`, `MarkCard` the marking when the builder is made,
`Evaluate` the boundaries an evaluation keeps, `SpecifyCard` the second marking
and the constraints the cards turn into, `Emit` their records, `Again` another
evaluation by the same builder. A parameter's value is abstracted to who gave
it: nobody, the model, or the card of that number.

### ReleasePublish

`.github/workflows/publish-release.yml`. Every request of the job to the
repository is a step of its own, so everything else may happen between two of
them: pushes to main, CI runs ending or being rerun, other people touching tags
and releases (`Meddle`), the runner dying (`Crash`). The checks of the project
files are one condition on the commit (`Sound`), the two title checks are
`Announced` (the job's `if`) and `Titled` (the identity step). `Queue` and
`GroupIsFree` are the concurrency group. CI and outsiders are external.
`green`, `foreign` and `touched` are history: which commits ever passed CI, and
what others did since a run looked.

### SkillInstall

`scripts/install_physicsguard_skills.py`. A file is a sequence of names.
`RemoveFile`, `FinishRemoval` are `_remove`; `MakeDirectory`, `OpenCopy`,
`CloseCopy`, `FinishCopy` are `copytree` with `_ignore`, a file being `Torn`
between its opening and its closing; `RemoveRetired` and `Finish` end `install`.
`Crash` may come before any of them. `Wanted`, `Present`, `Differences` and
`Current` are the comparison behind `--check` and `--dry-run`, which decides
what belongs in a copy by other code (`_skipped`) than the copying (`_ignore`).
The list of skills has one entry, so there is one copy. The assumption on
`Path` excludes a directory named like a consumer file or like a compiled file:
on those the two filters would disagree, and `main` and the repository's layout
rule them out.

### DepthPromise, ValidationDepth

`evaluate_validation_depth` of `core/validation_depth.py`. A task is a plan
with the files it finds; `stage` is the section to come, and every section is
one action in the order of the code: `CheckDataset`, `ReadSeriesFile` or
`ReadContractSeries`, `ReviewMapping`, `CheckTime`, `CheckScenarios`,
`CheckSplit`, the points one by one (`EvaluatePoint`), the merging of failures
one by one (`ExtendInterval`), `EndResiduals`, `CheckEnvelopes`,
`CheckAdequacy`, `CheckRollout`, `Conclude`. What the audit says of a point is
part of the task, where `Derivation` says how it comes about. A finding is its
severity, its type and what it is about; messages and details are left out.
`findings` has a set for each place of the code that may add to the list, empty
where it had nothing to add. Of
adequacy and the predictive rollout this module has only the gates and what they
may leave behind; the two have modules of their own.

`DepthPromise` is what the validation may rely on: one result, whose status is
that of its findings, whose series passes only inside the hard envelopes, and
which passes on usable inputs only if the series does. `KeepsPromise` says that
the evaluation implements it.

### SamplingAdequacy, PredictiveRollout, DepthEvidence

`SamplingAdequacy` is `core/validation_adequacy.py`, with the counterfactual
replays of `core/validation_depth.py` it judges. A case is a plan with the
manifest, roles, mapping, model and evaluated points it finds; every section of
`evaluate_validation_adequacy_artifacts` is one action, in order: `LoadArtifacts`,
`LoadMappings`, `JudgeSignals`, `JudgeParameters`, `JudgeTime`,
`JudgeSelection`, `JudgeFamilies`, `ConcludeAdequacy`, or `SkipAdequacy` where
nothing is declared. `shortfalls` are its findings.
`Inactive` and `Inferred` are the floors `_resolve_manifest_floors` fills in,
`CoverageFloor` is `_coverage_floor`, `Held` is `_requested_floor_findings`, which
drops what nobody asked for. A parameter is covered when the model declares it
(`model`), but a varying one contributes only when the model gives it a number
(`numeric`, `_model_parameter_values`), since only such a one is replaced in a replay.
Ratios are percents, times integers; the floors are the code's, the numbers of the
instance small.

`PredictiveRollout` is `core/predictive_rollout.py`: the gates, the files as
written and as they resolve, overlap by path, content and case, the alignment of
the valid points, the metrics and thresholds over integers, and the search for
the best lag (`BestLag`) with its tie. The valid points of a series are found by
rank: the one at place `n` is the one with `n - 1` valid points before it
(`ValidPlace`), which is the filter of the code and can be reasoned about.

`DepthEvidence` extends both, whose names do not clash, and runs them in the order
of `evaluate_validation_depth`, collecting the severities they leave. Its tasks
are pairs of a case and a plan; `EvidenceAssumption` says that they are what the
schemas let through (`WellFormedCase`, `WellFormedPlan`). `Numbers` has the three
functions on integers that both use.

### FaultVariants

`evaluate_fault_variants` of `core/diagnosability.py`. The audit is a parameter,
the report on a device and data; `CheckNominal` is the baseline, `EvaluateSingle`
and `EvaluatePair` evaluate one group of variants each (`Device`, `Supplied`,
`Generated` are `_variant_device` and `_variant_data`, `Row` is
`_variant_result`), `Observe` matches an observation and `Compare` is
`_variant_discrimination`. What ends the whole evaluation (`Refused`) is told
apart from what ends a row (`NotEvaluable`), as in the code: the registry of the
variant's device is built before it is known whether anything is left to audit, so
parameters a constructor does not accept (`Builds`, part of what can be stated,
`LegalIn`) end the evaluation even then. `AuditAssumption`
says what the audit is taken for: finitely many variants, finitely many derived
signals with numeric values, positive weights. `NextSignals` gives the suggestions
by place, the better before the worse (`Better`).

### DatasetValidation

`validate_model_dataset`, one action per part of the function. It composes with
the depth evaluation through the promise alone (assume-guarantee): `EvaluateDepth`
takes any result that `DepthPromise` allows on the inputs at hand, so what is
shown of the validation holds for every depth evaluation that keeps the promise.
Whether an audit passes, an optimizer converges or a holdout fails is chosen;
`Verdict` is `_status`, `SafeClaim` is `_safe_claim`.

## 3. What is checked

| Run | What it shows | Instance |
|---|---|---|
| `derivation` | `Provenance`, `ProducersHold`, `NoGuessIsEvidence`; `Terminates`; `ImplementsPromise` | all sequences of 3 out of 8 relations, all partial snapshots of 3 variables with 3 values |
| `derivation_switch` | `NoGuessIsEvidence` fails when a relation selects its input by a value | 4 relations, one a switch |
| `source_report` | `SubtreeVerdict`, `SmallestHome`, `RootsMirrorRecords`, `DisagreementsAreExplained`, `InconsistencyIsReal`; `GreenIsSourced`, `NoDisagreementIsLost`, `InletsStayApart` | 5 trees over 4 blocks, every owner map, 72 record triples, with a document in which all is well; one tree with every document that is off in up to two of its parts |
| `assumptions` | `OnlyOverridesDisplace`, `NoConstraintIsLost`, `CardsTellRecords`, `EvaluationKeepsCards` | every deck of up to 3 out of 11 cards |
| `release_publish` | `ReleasesAreCertified`, `SuccessIsReal`, `CollisionsAreForeign`; `EveryRunEnds` | 2 runs, 2 commits of one version, one of them sound and announced, 1 intervention |
| `validation_depth` | `PassIsEarned`, `IntervalsAreRuns`, `InputsReportedOnce`; `KeepsPromise` | one task that passes, every series of up to 3 out of 9 points and of 4 out of 4 for it, and every part of the plan varied |
| `depth_evidence` | `EvidenceCoversFile`, `EvidenceReachesParameters`; `PassIsIndependent`, `PerfectPredictionPasses` | one full sequence of 3 rows, one sampled of 14, every part off in turn and 2 points at a time, all samples of 11 or more of 14 rows; all pairs of trajectories of 3 steps over 3 values and of 4 over 2, and the ways files and steps can be off |
| `fault_variants` | `PairsAreJudged`, `SuggestionsDiscriminate` | 3 blocks and signals, lists of up to 3 variants, composed, in pairs, with an observation |
| `tracing` | `NoDependenceMissed`, `NoParameterMissed`, `ReuseWithinCommand`, `ReuseRetraces` | every native module but one, two points and settings, two nested commands |
| `dataset_validation` | `PassMeansChecked`, `ClaimWithinEvidence`, `VerdictHasReason` | lists of up to 2 contracts of all states, with and without depth, calibration, training and holdout |
| `dataset_failed_holdout` | `FailedHoldoutNeverPasses` fails | the same |
| `skill_install` | `DoneIsCurrent`, `CheckIsSound` | 4 files of the 4 kinds, every earlier copy, 1 change between runs |

**Bounds.** Three relations are what the hazards of a derivation need: a chain
of two derivations and a check, two connections closing a cycle with a third,
a producer between two orders of the list. The pool holds a relation of each
behaviour: one root, none, many, a refusal, an unsatisfiable window, unknown
provenance, a role outside the solver. Four blocks give a chain of four levels,
a fork with skipped levels and two roots with a child. Three cards allow an
override between two others. Two runs suffice for the concurrency group (a
third would only wait or be replaced) and one intervention already separates
every pair of requests; `Meddling` bounds it because it is the only counter.
`Edits` bounds the changes between two installs, which may start from any copy.

Twelve is the smallest universal floor of the code, so a sampled sequence needs
more than twelve rows to be sampled at all; fourteen leave two to miss, which is
enough for a hole at the allowed gap. Three steps have a shift of one to try,
four of two, and the tie between them. Two settings of each parameter and two
points are what it takes for a residual to vary with a source.

Two inlets of two readings let a reading move to the description of the other
inlet, to one that is described twice, to another file or to none; one value is
derived from readings of both and another from that, so that a colour has two
derivations to travel. Two parts off at once is what it takes for one repaint
to hide another; a document in which nothing or only a parameter is quoted has
one part off.

Three points let anything stand between two failures, four also two intervals;
the parts of a plan are varied one or two at a time because each section writes
its own findings and only the end reads them together.

**Deadlock** is not checked where the system ends: an evaluation returns, a
report is complete, a builder fails, a validation has its status or raises, all
release runs have ended, and no skill is left in the checkout once the bound on
changes is spent.

**Fairness.** `Derivation` assumes weak fairness of its next step: it is one
call on one thread, which runs until it returns. `ReleasePublish` assumes that
a pending run begins when the group is free and that a running one takes its
next step, for each run: GitHub starts pending runs, and `timeout-minutes: 30`
with the 20-minute CI deadline end a stage that makes no progress
(`MeetDeadline` is always enabled there). Nothing is assumed of CI or of
outsiders. The other modules have no liveness property and no fairness.

**Mutants.** Each property has a mutant, a plausible bug of one definition that
stands beside it in its module (`Mutant of ...`): with it in place of the
definition, the run finds the property violated. Type invariants are not
checked by runs; they are the first theorem of each proof module.

## 4. What is proved

With TLAPS, for every value of the constants that satisfies the assumptions of
the modules.

- `DerivationProofs`: `TypeCorrect`, and `SoundDerivation` (`OneSource`,
  `Provenance`, `WithinBounds`). The properties are not inductive alone:
  that a consumed occurrence is never consumed again by a connection pass,
  which does not look at the used set, follows only from `UsedIsKnown` (all its
  dependencies are known, so no end of it is unknown), which needs
  `NeedsAreTraced` (dependencies are those traced at the snapshot, two ends for
  a connection), which needs `Untouched` before the trace. `Inductive` is their
  conjunction.
  `ScansKeepPromise` proves `ImplementsPromise`: each step of the scans is a step
  of `DerivationAbs` or a stutter. The hard step is the judgement, which the
  promise allows only when nothing can be derived any more. `Scanning` is the
  invariant for it: the records a scan has passed without a change were not
  ready, so that a scan which changed nothing leaves `NothingReady`, which then
  holds for all of the checks; and the checks made so far are those of the
  promise (`ChecksAreOpen`). `StraightLinesAreSound` proves `ProducersHold` and
  `NoGuessIsEvidence` under the assumption `Straight`, that what a relation
  reads does not depend on the values, which `derivation_switch` shows to be
  necessary; its invariant is `Undisturbed`. `DerivationsAreGrounded` and
  `ConsumedStayConsumed` state two of the run's properties by name, and
  `DerivedInWindows` proves `WithinBounds`, which no run checks because
  `ImplementsPromise` implies it.
  `EvaluationsEnd` is the safety half of `Terminates`, for finitely many
  variables: `Effort`, mainly the values still missing, is a natural number that
  every step makes smaller (a value derived outweighs all that it reopens), and
  until the verdict a step can be taken (`CanGoOn`: what a pass or scan has not
  passed has a first record that can act, or it is over).
- `TracingProofs`, of the scope: `TracesServeOneCommand` (`ReuseWithinCommand`),
  `CommandsKeepTraces` (`InnerCommandKeepsTraces`) and `RepeatsAgree`
  (`AnswersAreKept`: whoever asks the same again in a command gets the same,
  although an entry kept later may agree with the request too), for every behaviour
  of `TraceScope`. `ScopeInv` adds that what is being traced no entry answers yet
  (`Unanswered`), which holds because nothing is kept while a trace is under way.
  The actions of the tracer are made of those of the scope (`TracerKeepsScope`), so
  all of these hold of it; `TracerReusesWithinCommand` states the one its run checks.
- `TracingProofs`, of what is traced: `NoDependenceIsMissed`
  (`NoDependenceMissed`) and `NoParameterIsMissed` (`NoParameterMissed`), for
  every catalogue of modules and helpers, all points, settings and plans.
  `AnswersHold` states what both follow from: whatever variables and quoted
  parameters change together, a record whose sources name none of them keeps its
  value wherever the method answers (`Holds`). The two properties change one
  variable, or move parameters only; a derivation relies on the whole.
  `ReuseFindsTheSame` (`ReuseRetraces`) says that nothing is lost by reuse: what is
  served from the command's entries is what a new trace would find.
  How it goes is described below.
- `SourceReportProofs`, of the block tree (as a component): `TypeCorrect`,
  `VerdictsCoverSubtrees`,
  `ConnectionsStaySmall`, `InconsistenciesAreReal`, for every tree and every
  scoring method. A subtree is defined as a least closed set, so no recursion
  is needed; `SubtreeSplits` gives its recursive form. The invariant says that
  the blocks visited so far are final (`Visited`), and `VisitIsFinal` that a
  visited block stays so because children are deeper (`ChildIsDeeper`) and are
  visited first. `FailuresReachRoots` (`RootsMirrorRecords`) and
  `VerdictsDifferForReasons` (`DisagreementsAreExplained`) assume `FairScoring`,
  a method whose score is within the threshold exactly when every residual is,
  as `max` without weights is; in `rms` and `top_k_mean` a failing residual can be
  diluted by others and in `weighted_sum` passing ones can add up. They need that every block is under some
  root (`UnderSomeRoot`: among the blocks that are not, one of least level would
  have a parent that is, as levels are well-founded) and that scores stay those
  of the blocks' own residuals (`OwnScores`).
- `SourceReportProofs`, of the report: `ReportEvaluates` (a report is a run of the
  block tree, so the theorems of the block tree hold in it), `ReportTypeCorrect`,
  `GreenIsEarned` (`GreenIsSourced`), `DisagreementsReachVerdict`
  (`NoDisagreementIsLost`) and `DescriptionsStayApart` (`InletsStayApart`), for
  every tree and document. The invariant says that the rows made so far are
  what the originals say (`Honest`), that those still to come are empty
  (`Fresh`), that green derived values go back to proven observations and what
  is backed to something found (`Grounded`), and that roles, blocks, claims and
  verdict follow from them (`Earned`). What a value goes back to is a least
  closed set (`Ground`), so derivations of any length need no induction: the
  step only has to show that what was derived goes back to what its
  dependencies go back to.
- `AssumptionsProofs`: `TypeCorrect`, `OverridesOnly`, `ConstraintsRemain`,
  `CardsAgree`, `CardsAreStable` (an action property). `IInv` follows the loop:
  cards not yet reached are unapplied (`Waiting`), marked cards show
  `VariableReport` (`Marked`), the constraints collected are those of the cards
  passed (`Collected`).
- `MaintenanceProofs`, of a release: `TypeCorrect`, `OnlyCertifiedReleases`,
  `SuccessIsPublication`, `RunsDoNotCollide` and `RunsPublishTheirSource` (of
  `PublishesItsSource`, which is proved only), for any number of runs, commits,
  versions and interventions. The invariant states what a run knows at each
  stage unless it was disturbed (`Knows`), that only one run is running
  (`Exclusive`) and that CI successes are remembered (`Remembered`).
  `RunsOnlyMoveOn` is the safety half of `EveryRunEnds`: every step moves a run
  ahead in the order of the workflow (`Ahead`) or leaves it, so that it takes each
  step at most once and stays as it ended, and at most one run waits, for at most
  one that is running.
- `ValidationDepthProofs`: `TypeCorrect`, `PassCorrect` (`PassIsEarned`),
  `IntervalsCorrect` (`IntervalsAreRuns`), `InputsCorrect` (`InputsReportedOnce`)
  and `PromiseKept` (`KeepsPromise`: every step of the evaluation is a stutter of
  `DepthPromise` but the last, which gives a result it allows), for every task of
  any length. So what `ValidationProofs` shows of a validation holds with this
  evaluation in the place of the promise. The invariant is
  `TypeOK /\ Given /\ Earned /\ Single(findings) /\ GoneFound /\ Runs /\ OnceAtEnd`:
  what each section passed without a finding holds from then on (`Earned`), what
  is missing has been found (`GoneFound`), and the intervals made so far are runs
  of failed points of one block and scenario that the next point does not continue,
  in order and without leaving a failure out (`Runs`). Series have any
  length; where an induction over it is called for, the proofs take a least
  counterexample instead (`SomeLeast`, and `AllNumbers` and `SomeJoined`, which
  follow from it), as naturals are well-founded.
- `ValidationProofs`, of the validation: `TypeCorrect`, `PassIsSound`,
  `ClaimIsSound`, `VerdictIsReasoned`, for every plan and every depth evaluation
  that keeps its promise. `Accounted` is the invariant: each result so far that is
  not a pass has left a finding of its kind, from the step that produced it on.
- `ValidationProofs`, of the evidence: `EvidenceIsWhole` (`EvidenceCoversFile`) and
  `ParametersAreReached` (`EvidenceReachesParameters`), for every case and floors of
  any size. `AdequacyInv` says that what a section asks for is met or reported;
  the sections hold it because every floor is at least the universal one
  (`FloorIsUniversal`), more points narrow the gap allowed between rows
  (`GapNarrows`), and `Held` never drops what is asked of everyone (`Heldback`).
  That distinct rows in number cover a file is counting (`EnoughCover`).
  `PassesAreIndependent` (`PassIsIndependent`) and `PerfectPasses`
  (`PerfectPredictionPasses`), for every plan, series of any length and all
  thresholds. `RolloutInv` says what the stages that left no failure have
  established. Behind it are that a valid point is at each place (`PlaceExists`:
  ranks are an injection between finite sets of one size), that the clock runs
  from the first point in equal steps (`ClockRuns`), and that a maximum bounds each
  of its elements (`WorstBounds`). `PerfectInv` says that a plan whose files are
  independent reaches the measurement without a failure; that the lag then is
  0 (`NoShiftFits`) needs that a sum of squares is 0 only where each of them is.
  `SumOfNaturals` shows it of the library's recursive sum: the function it reads
  exists on sets of each size (`SumsExist`), by least counterexample again.
- `MaintenanceProofs`, of an install: `InstallTypeCorrect`, `InstallIsCurrent` (`DoneIsCurrent`) and
  `AcceptedIsWhole` (`CheckIsSound`), for any files, contents, filters and
  crashes. Both rest on `FiltersAgree`: the copying and the comparison leave out
  the same files, which needs `PathAssumption` (no directory is named like a
  compiled file or like a file the skill keeps). The invariant `Knowledge` says
  what holds at each step of a run: nothing is there when the directory is made,
  the destination holds copies and at most one open file while files are copied,
  and all of them afterwards.

- `FaultVariantsProofs`: `PairsJudged` and `ProducedExplained`
  (`ProducedIsExplained`: an observation a fault would have produced is explained
  by it, and one of the accepted nominal device is no miss), for every tree,
  audit and list of variants. `IInv` says that every row is that of its group and
  the baseline that of the nominal data; what a pair hides is then a matter of
  `SingleRow` and `PairRow`. `SuggestionsTell` (`SuggestionsDiscriminate`) for every
  finite list: `IInv` says that the comparison made at the end is that of all rows,
  a group is there for each confused fault, and the signal suggested is one of
  those that tell two of them apart because among finitely many candidates there
  is a best one (by counting those that are better).

**Why no dependence is missed.** All the theorems on what is traced have the
hypothesis `Equations`. It is no property of the code but says which operators are
meant: over trees of finite depth each equation has one solution on the terms and
bodies that occur, the recursive definition with which TLC runs the model. It
quantifies over all points and bodies, so TLC cannot evaluate it as an assumption,
and tlapm does not accept the recursion; facts about the operators are proved by
induction over `Depth`, in the form of a least counterexample (`TermInduction`,
`BodyInduction`).

1. *Another run beside the trace.* Fix a set `Z` of sources and another run of the
   method, in a setting and at a point that differ in `Z` only (`Differ`), which
   answers. `Shadow` relates the frames of the trace to that run: either it goes
   beside the trace in every frame (`Beside`: locals whose sources are free of
   `Z` have the same values, and what the statements left, `Ahead`, compute from there
   is what the run computes), or at some depth it went another way
   (`Beyond`). In the second case a test that decided has a source in `Z`, and
   so do the controls of every statement the frame still has and every local that
   either arm could have bound, which is why the code adds the influence to
   the targets of the arm not taken and to the gates. `MovesShadow` shows that every
   step of the tracer keeps this, call and return included (`EnterStep`,
   `ReturnStep`), and `DeliveredShadow` that a record delivered free of `Z` has the
   value of the run beside it.
2. *The same trace elsewhere.* A trace is reused at points it was not made at. If
   the other point agrees on everything that was read, the steps are the same there
   (`SameReached`, `MovesSame`). If the trace is not sensitive to values, nothing
   that decided came from a variable, and at every other point there is a trace
   with the same sources, controls and statements left and other values in its
   locals, its twin (`Twins`, `MovesTwin`). So at all points where an entry fits, a
   trace of it would have a shadow for every `Z` (`Everywhere`), and its
   dependencies hold there (`KeptHolds`). The trace or its twin is also on the way
   from the opening at that point to what it ends with (`Attended`, `FoundMoves`), so
   its sources are those a new trace finds there.
3. *The invariant.* `TracingInv` says that keys and points are those of the audited
   module (`Audited`), that the trace under way would be attended by every shadow
   wherever its entry would fit (`TraceOk`), that what each kept entry names holds
   wherever it fits and is what a trace finds there (`EntryOk`), and so for the last
   answer (`AnswerOk`).
   `TracingStep` has one lemma per kind of step.

Only model-checked: the liveness properties `Terminates` and `EveryRunEnds`
(fairness and ENABLED are out of the prover's reach; what they rest on,
`EvaluationsEnd` and `RunsOnlyMoveOn`, is proved). Every other property of the
passing runs is stated by a theorem, some of them under an assumption a theorem
names: `Straight` for two of the derivation's, `FairScoring` for two of the block
tree's, `Equations` for those on what is traced.

What is proved of tracing is proved of the model's language: that each native
module is the program `Native*` has for it is read off the code, not proved, and
that an expression is traced as `ObserveOf` says is the translation of `_deps`.

A caution for who extends the proofs: tlapm 1.4.5 takes two `CASE` expressions for
the same when their first and `OTHER` arms are, so an equation of two unfolded
`CASE`s is not worth the word *proved*. The proofs that compare an operator with
itself at two states or points first take each side to its arm (`<3>3` and `<3>4`
under `pick` in `SameReached`). All proof modules were also checked with every
`CASE` of every module rewritten to nested `IF`, where the identification cannot
occur; the same proofs pass.

## 5. Findings

- `derivation_switch`: dependencies are traced once, at initial guesses. A
  relation that selects between two inputs by a third value is traced on the
  branch of the guess; when the selector is derived to another value, the
  relation is checked (or consumed) at the guess of the input it now reads,
  against the documented rule that a relation is checked when all its variables
  are known.
- `dataset_failed_holdout`: `_status` looks at a failed holdout only when the
  optimizer converged, so that a calibration that neither converged nor passed
  its holdout leaves a validation that passes, without a finding.

More differences between the code and what is written of it show in the
definitions, without runs of their own.

- Two active cards on one variable, one of them with `allow_override`: the other
  reports `not_applied_existing_boundary` and that the explicit boundary was
  preferred, although that boundary is left out (`ShouldSkip` looks at all cards,
  `SpecifyCard` at one; `docs/assumption_cards.md:59`).
- `CoveredScope` counts points, so several points of one timestamp are a time
  window; `openspec/specs/simulation-validation-depth/spec.md:25-26` calls one
  timestamp a snapshot.
- A declared series that does not exist is reported as
  `observed_series_unreadable` (`ReadSeriesFile`), where the specification names
  `observed_series_missing`.
- When the audit cannot be read or a contract is out of use, the depth
  evaluation leaves that to the validation: its own result may then be a pass
  with its residual series not run, which is why `PassIsEarned` and
  `DepthPromise` speak of usable inputs. A contract that requires only
  `partial_allowed` can never back a contract series.
- `Gates`: the code's table names the type
  `critical_signal_insufficient_time_coverage`, the finding is called
  `critical_signal_time_coverage_insufficient`. So this floor is held against a
  validation that did not ask for it, where the docstring
  (`validation_adequacy.py:157`) keeps absent floors inactive.
- `RowGapAllowed` bounds the gaps between rows but not those before the first and
  after the last, so samples of consecutive early rows pass, where the comment
  (`validation_adequacy.py:1493-1494`) speaks of preventing representative points
  from collapsing into a few phases. `EvidenceReachesParameters` therefore claims
  no more than the gaps between.
- With several data files the full sequence is counted in pairs of file and row
  against the rows of one manifest; `EvidenceCoversFile` claims all rows for one
  file only.
- `BestLag` reports the most negative of equal shifts, so a prediction that is
  exact on a target that is constant, or repeats itself within the shifts tried,
  fails the lag threshold; `PerfectPredictionPasses` excludes such targets.
  Nothing compares the prediction with the holdout file: they may be one.
- `Unclaimed` parameters are never named as sources: attributes with several
  origins or computed ones (`SumModule.weights`, `RangeCheck.variable`, the band
  of a thermostat, the UA of a cold plate, faradaic efficiency of the balance of
  plant, the storage list of an HV bus). `NoParameterMissed` speaks of the others.
- `Matching` compares signatures even when both are empty: a failed audit none of
  whose blocks fails on its own is matched by a fault that is not detected, and is
  no model miss.
- A reading in another unit that a CSV cell gives is checked by a conversion
  through a declared property and stays green although no original has that
  property (`Recheck`, `source_reading.py:212-228`); the comment at
  `source_reading.py:235` (a declared but unquoted property is a usable
  hypothesis, not source evidence) is acted on for quoted readings only
  (`Confirmed`).
- `Entities` drops inlets that are described twice before it asks whether one is
  left, so a quote that occurs in the clauses of two inlets, one of them described
  twice, is bound to the other; `skill/physicsguard/references/model-format.md:133`
  keeps repeated bindings grey. `InletsStayApart` speaks of the inlet it is bound
  to.
- A derived value is green when the values it was derived from are; a parameter of
  the relation that derived it, quoted or not, does not count (`AllGreen`).
- `Spoken` takes in readings that disagree with their original, so a block can be
  green on a red one. The report does not pass then, which is why the last part
  of `GreenIsSourced` speaks of accepted reports.
- Two faults composed: what one changes and the other has rederived loses the
  change (`Supplied` leaves out what any of them rederives).

## 6. Not modelled

Numerics: the solver, the root search, measurement resolution, the arithmetic of
the physics modules (which operations a residual performs is modelled, their
results are not), calibration. Lists of variables of any length (aggregates, mixers) have one or
two entries in the catalogue. Bounds and units of variables, parsing, rendering,
rankings for display, the payloads of reports. The adaptive branch of the
adequacy (`adaptive_sampling_not_converged`) cannot be reached: the schema demands
convergence first.

Test-file contracts and manifests, signal mapping and parameter coverage, quantity
flow, units and observed conversion, diagnostics and
the command line are decision tables and translations over one document at a
time; they keep no state between calls. They are left to the next modules of the
plan.

## 7. Plan

1. Done: Records, Relations, Derivation, DerivationAbs; BlockRollup;
   Assumptions; ReleasePublish; SkillInstall; ValidationDepth, DepthPromise,
   DatasetValidation; Formulas, the Native modules and Tracing;
   SamplingAdequacy, PredictiveRollout and DepthEvidence; FaultVariants;
   SourceReading and SourceReport.
2. Done: a theorem for every safety and step property of the passing runs. Left
   is liveness, for which the prover has no ENABLED.
3. `TestFileContract`, mapping and coverage ledgers, quantity
   flow, units and observed conversion, exit codes and the preflight.
4. A composition of Derivation with SourceReport, whose documents would then be
   what the scans derive and trace instead of what `WellOrdered` allows.
