----------------------------- MODULE TraceScope -----------------------------
(***************************************************************************)
(* The scope of dependency traces (residual_trace_scope and the reuse in   *)
(* module_residual_dependencies, core/_residual_dependencies.py).          *)
(*                                                                         *)
(* A request names what is traced (its key: class, constructor, settings)  *)
(* and the point it is traced at.  The outermost command opens a scope;    *)
(* traces made in it are kept with the values their result depends on, and *)
(* the first one that agrees with a request answers it.  How a trace finds *)
(* its sources is left to Tracing, which extends this module.              *)
(***************************************************************************)
EXTENDS Naturals, Sequences

VARIABLES
    depth,      \* commands in progress, each inside the one before
    cache,      \* entries of the scope the outermost command opened
    era,        \* outermost commands so far
    run,        \* the trace under way: its request and the values it has read
    answer      \* the last answer

scope == <<depth, cache, era, run, answer>>

Idle == [on |-> FALSE]
NoAnswer == [how |-> "none"]

(***************************************************************************)
(* The outermost command opens the scope and closes it on every way out; a *)
(* command inside one uses the open scope.                                 *)
(* Mutant of Closed: no one closes it.                                     *)
(***************************************************************************)
Opened == IF depth = 0 THEN <<>> ELSE cache
NeverClosed == cache
Closed == IF depth = 1 THEN <<>> ELSE cache

Open ==
    /\ ~run.on
    /\ depth' = depth + 1
    /\ cache' = Opened
    /\ era' = IF depth = 0 THEN era + 1 ELSE era
    /\ answer' = NoAnswer
    /\ UNCHANGED run
Close ==
    /\ ~run.on /\ depth > 0
    /\ depth' = depth - 1
    /\ cache' = Closed
    /\ answer' = NoAnswer
    /\ UNCHANGED <<era, run>>

(***************************************************************************)
(* An entry answers every request of its key that agrees with the values   *)
(* it was kept with, the first such entry before the others.               *)
(***************************************************************************)
Inputs(names, point) == [n \in names |-> point[n]]
Fits(entry, key, point) ==
    /\ entry.key = key
    /\ entry.inputs = Inputs(DOMAIN entry.inputs, point)
Serves(i, key, point) ==
    /\ i \in DOMAIN cache
    /\ Fits(cache[i], key, point)
    /\ \A j \in 1 .. i - 1 : ~Fits(cache[j], key, point)

(* A reused answer has the sources of the entry; the method is run again   *)
(* for its values and may raise.                                           *)
Serve(i, new) ==
    /\ ~run.on
    /\ \/ new.how = "reused" /\ new.deps = cache[i].deps /\ new.era = cache[i].era
       \/ new.how = "raised"
    /\ Serves(i, new.key, new.point)
    /\ answer' = new
    /\ UNCHANGED <<depth, cache, era, run>>

(* What no entry answers is traced.                                        *)
Start(new) ==
    /\ ~run.on /\ new.on
    /\ \A i \in DOMAIN cache : ~Fits(cache[i], new.key, new.point)
    /\ run' = new
    /\ answer' = NoAnswer
    /\ UNCHANGED <<depth, cache, era>>

(* While a trace is under way it reads values; nothing else happens.       *)
Quiet == UNCHANGED <<depth, cache, era, answer>>
Follow ==
    /\ run.on /\ run'.on
    /\ run'.key = run.key /\ run'.point = run.point
    /\ run.reads \subseteq run'.reads
    /\ Quiet

(* An error drops the trace; nothing is kept.                              *)
Discard(new) ==
    /\ run.on
    /\ new.how = "raised"
    /\ run' = Idle
    /\ answer' = new
    /\ UNCHANGED <<depth, cache, era>>

(* A finished trace is kept inside a command: with every value it read     *)
(* when the sources depend on values (exact), with none otherwise.         *)
Entry0(deps, reads) ==
    [key |-> run.key, inputs |-> Inputs(reads, run.point), deps |-> deps, era |-> era]
Finish(new, exact) ==
    /\ run.on
    /\ new.how = "traced"
    /\ new.key = run.key /\ new.point = run.point /\ new.era = era
    /\ run.reads \subseteq new.reads
    /\ cache' = IF depth = 0 THEN cache
                ELSE Append(cache, Entry0(new.deps, IF exact THEN new.reads ELSE {}))
    /\ run' = Idle
    /\ answer' = new
    /\ UNCHANGED <<depth, era>>

ScopeInit == depth = 0 /\ cache = <<>> /\ era = 0 /\ run = Idle /\ answer = NoAnswer

ScopeNext ==
    \/ Open \/ Close
    \/ \E i \in DOMAIN cache : Serve(i, answer')
    \/ Start(run') \/ Follow \/ Discard(answer')
    \/ \E exact \in BOOLEAN : Finish(answer', exact)

(* Whatever a trace finds, commands and traces keep to this discipline.    *)
ScopeSpec == ScopeInit /\ [][ScopeNext]_scope

-----------------------------------------------------------------------------
(***************************************************************************)
(* Traces of one command serve that command only: an answer comes from a   *)
(* trace of the outermost command under way, and none outlives it.         *)
(***************************************************************************)
ReuseWithinCommand ==
    /\ answer.how = "reused" => depth > 0 /\ answer.era = era
    /\ \A i \in DOMAIN cache : cache[i].era = era /\ depth > 0

(***************************************************************************)
(* A command inside another keeps what the outer one learnt: while the     *)
(* outermost command lasts, kept traces are only added to.                 *)
(***************************************************************************)
InnerCommandKeepsTraces ==
    [][depth > 0 /\ depth' > 0 =>
          Len(cache') >= Len(cache) /\ SubSeq(cache', 1, Len(cache)) = cache]_scope

(***************************************************************************)
(* A command gets the same sources whenever it asks the same: once given,  *)
(* an answer is what the entries give, and what the entries give for a     *)
(* request does not change while the command lasts, however many traces    *)
(* that also agree with the request are added.                             *)
(***************************************************************************)
AnswersAreKept ==
    depth > 0 /\ answer.how \in {"traced", "reused"} =>
        \E i \in DOMAIN cache : /\ Serves(i, answer.key, answer.point)
                                /\ cache[i].deps = answer.deps
=============================================================================
