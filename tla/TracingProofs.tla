---------------------------- MODULE TracingProofs ----------------------------
(***************************************************************************)
(* Proofs about Tracing for every set of modules, plans and values.        *)
(***************************************************************************)
EXTENDS Tracing, TLAPS, SequenceTheorems, WellFoundedInduction

-----------------------------------------------------------------------------
(* The scope: whatever a trace finds, what is kept and what serves.        *)

(* The entries are a sequence, and all of the command under way.           *)
Entries ==
  /\ depth \in Nat /\ era \in Nat
  /\ \E S : cache \in Seq(S)
  /\ \A i \in DOMAIN cache : cache[i].era = era
  /\ depth = 0 => cache = <<>>

(* What is being traced no entry answers yet.                              *)
Unanswered == run.on => \A i \in DOMAIN cache : ~Fits(cache[i], run.key, run.point)

ScopeInv == Entries /\ Unanswered /\ ReuseWithinCommand /\ AnswersAreKept

(* Entries are added at the end only, so a request is served by the same   *)
(* entry as before.                                                        *)
Prolonged == \E S : \E e \in S : cache \in Seq(S) /\ cache' = Append(cache, e)

LEMMA ProlongedServes ==
  ASSUME Prolonged
  PROVE  /\ Len(cache') = Len(cache) + 1 /\ Len(cache) \in Nat
         /\ \A i \in DOMAIN cache : i \in DOMAIN cache' /\ cache'[i] = cache[i]
         /\ SubSeq(cache', 1, Len(cache)) = cache
         /\ \A i \in DOMAIN cache : \A key, point : Serves(i, key, point) => Serves(i, key, point)'
<1>1. PICK S : \E e \in S : cache \in Seq(S) /\ cache' = Append(cache, e)
  BY DEF Prolonged
<1>2. PICK e \in S : cache \in Seq(S) /\ cache' = Append(cache, e)
  BY <1>1
<1>3. /\ Len(cache') = Len(cache) + 1 /\ Len(cache) \in Nat /\ DOMAIN cache = 1 .. Len(cache)
      /\ \A i \in DOMAIN cache : i \in DOMAIN cache' /\ cache'[i] = cache[i]
  BY <1>2
<1>4. SubSeq(cache', 1, Len(cache)) = cache
  BY <1>2
<1>5. ASSUME NEW i \in DOMAIN cache, NEW key, NEW point, Serves(i, key, point)
      PROVE  Serves(i, key, point)'
  <2>1. \A j \in 1 .. i : cache'[j] = cache[j]
    BY <1>3
  <2>2. QED
    BY <1>3, <1>5, <2>1 DEF Serves, Fits, Inputs
<1>6. QED
  BY <1>3, <1>4, <1>5

LEMMA ScopeStart == ScopeInit => ScopeInv
<1>1. ASSUME ScopeInit PROVE ScopeInv
  <2>1. cache = <<>> /\ depth = 0 /\ era = 0 /\ run.on = FALSE /\ answer.how = "none"
    BY <1>1 DEF ScopeInit, Idle, NoAnswer
  <2>2. <<>> \in Seq({}) /\ DOMAIN cache = {}
    BY <2>1
  <2>3. QED
    BY <2>1, <2>2 DEF ScopeInv, Entries, Unanswered, ReuseWithinCommand, AnswersAreKept
<1>2. QED
  BY <1>1

LEMMA FinishProlongs ==
  ASSUME ScopeInv, NEW new, NEW exact, Finish(new, exact), depth # 0
  PROVE  Prolonged
<1>1. PICK S : cache \in Seq(S)
  BY DEF ScopeInv, Entries
<1>2. cache \in Seq(S \cup {Entry0(new.deps, IF exact THEN new.reads ELSE {})})
  BY <1>1
<1>3. QED
  BY <1>2 DEF Prolonged, Finish

LEMMA ScopeStep == ScopeInv /\ [ScopeNext]_scope => ScopeInv'
<1> SUFFICES ASSUME ScopeInv, [ScopeNext]_scope PROVE ScopeInv'
  OBVIOUS
<1> USE DEF ScopeInv
<1>1. CASE Open
  <2>1. answer'.how = "none" /\ depth' = depth + 1 /\ run' = run /\ ~run.on
    BY <1>1 DEF Open, NoAnswer
  <2>2. CASE depth = 0
    <3>1. cache' = <<>> /\ era' = era + 1
      BY <1>1, <2>2 DEF Open, Opened
    <3>2. <<>> \in Seq({}) /\ DOMAIN cache' = {}
      BY <3>1
    <3>3. QED
      BY <2>1, <3>1, <3>2 DEF Entries, Unanswered, ReuseWithinCommand, AnswersAreKept
  <2>3. CASE depth # 0
    <3>1. cache' = cache /\ era' = era
      BY <1>1, <2>3 DEF Open, Opened
    <3>2. depth' > 0 /\ depth' \in Nat
      BY <2>1 DEF Entries
    <3>3. QED
      BY <2>1, <3>1, <3>2 DEF Entries, Unanswered, ReuseWithinCommand, AnswersAreKept
  <2>4. QED
    BY <2>2, <2>3
<1>2. CASE Close
  <2>1. answer'.how = "none" /\ depth' = depth - 1 /\ run' = run /\ ~run.on /\ era' = era /\ depth > 0
    BY <1>2 DEF Close, NoAnswer
  <2>2. CASE depth = 1
    <3>1. cache' = <<>> /\ depth' = 0
      BY <1>2, <2>1, <2>2 DEF Close, Closed
    <3>2. <<>> \in Seq({}) /\ DOMAIN cache' = {}
      BY <3>1
    <3>3. QED
      BY <2>1, <3>1, <3>2 DEF Entries, Unanswered, ReuseWithinCommand, AnswersAreKept
  <2>3. CASE depth # 1
    <3>1. cache' = cache
      BY <1>2, <2>3 DEF Close, Closed
    <3>2. depth' > 0 /\ depth' \in Nat
      BY <2>1, <2>3 DEF Entries
    <3>3. QED
      BY <2>1, <3>1, <3>2 DEF Entries, Unanswered, ReuseWithinCommand, AnswersAreKept
  <2>4. QED
    BY <2>2, <2>3
<1>3. ASSUME NEW i \in DOMAIN cache, Serve(i, answer') PROVE ScopeInv'
  <2>1. UNCHANGED <<depth, cache, era, run>>
    BY <1>3 DEF Serve
  <2>2. Serves(i, answer'.key, answer'.point)
    BY <1>3 DEF Serve
  <2>3. Entries' /\ Unanswered'
    BY <2>1 DEF Entries, Unanswered, Fits, Inputs
  <2>4. depth > 0
    BY DEF ReuseWithinCommand
  <2>5. CASE answer'.how = "reused" /\ answer'.deps = cache[i].deps /\ answer'.era = cache[i].era
    <3>1. ReuseWithinCommand'
      BY <2>1, <2>4, <2>5 DEF ReuseWithinCommand
    <3>2. AnswersAreKept'
      BY <2>1, <2>2, <2>5 DEF AnswersAreKept, Serves, Fits, Inputs
    <3>3. QED
      BY <2>3, <3>1, <3>2
  <2>6. CASE answer'.how = "raised"
    BY <2>1, <2>3, <2>6 DEF ReuseWithinCommand, AnswersAreKept
  <2>7. QED
    BY <1>3, <2>5, <2>6 DEF Serve
<1>4. CASE Start(run')
  <2>1. answer'.how = "none" /\ UNCHANGED <<depth, cache, era>>
    BY <1>4 DEF Start, NoAnswer
  <2>2. Unanswered'
    BY <1>4, <2>1 DEF Start, Unanswered, Fits, Inputs
  <2>3. QED
    BY <2>1, <2>2 DEF Entries, ReuseWithinCommand, AnswersAreKept
<1>5. CASE Follow
  <2>1. UNCHANGED <<depth, cache, era, answer>> /\ run.on /\ run'.key = run.key /\ run'.point = run.point
    BY <1>5 DEF Follow, Quiet
  <2>2. Unanswered'
    BY <2>1 DEF Unanswered, Fits, Inputs
  <2>3. QED
    BY <2>1, <2>2 DEF Entries, ReuseWithinCommand, AnswersAreKept, Serves, Fits, Inputs
<1>6. CASE Discard(answer')
  <2>1. UNCHANGED <<depth, cache, era>> /\ answer'.how = "raised" /\ run'.on = FALSE
    BY <1>6 DEF Discard, Idle
  <2>2. QED
    BY <2>1 DEF Entries, Unanswered, ReuseWithinCommand, AnswersAreKept
<1>7. ASSUME NEW exact \in BOOLEAN, Finish(answer', exact) PROVE ScopeInv'
  <2>1. /\ UNCHANGED <<depth, era>> /\ answer'.how = "traced" /\ run'.on = FALSE /\ run.on
        /\ answer'.key = run.key /\ answer'.point = run.point
    BY <1>7 DEF Finish, Idle
  <2>2. CASE depth = 0
    <3>1. cache' = cache
      BY <1>7, <2>2 DEF Finish
    <3>2. QED
      BY <2>1, <2>2, <3>1 DEF Entries, Unanswered, ReuseWithinCommand, AnswersAreKept
  <2>3. CASE depth # 0
    <3> DEFINE e == Entry0(answer'.deps, IF exact THEN answer'.reads ELSE {})
    <3>1. PICK n : n = Len(cache) + 1
      OBVIOUS
    <3>2. Prolonged /\ cache' = Append(cache, e)
      BY <1>7, <2>3, FinishProlongs DEF Finish
    <3>3. PICK S : cache \in Seq(S)
      BY DEF Entries
    <3>4. /\ cache' \in Seq(S \cup {e}) /\ DOMAIN cache' = 1 .. n /\ cache'[n] = e
          /\ DOMAIN cache = 1 .. Len(cache) /\ Len(cache) \in Nat
      BY <3>1, <3>2, <3>3
    <3>5. e.era = era /\ e.deps = answer'.deps /\ Fits(e, answer'.key, answer'.point)
      BY <2>1 DEF Entry0, Fits, Inputs
    <3> HIDE DEF e
    <3>6. \A j \in 1 .. Len(cache) : cache'[j] = cache[j] /\ ~Fits(cache[j], answer'.key, answer'.point)
      BY <2>1, <3>2, <3>4, ProlongedServes DEF Unanswered
    <3>7. Entries'
      BY <2>1, <2>3, <3>1, <3>4, <3>5, <3>6 DEF Entries
    <3>8. ReuseWithinCommand'
      BY <2>1, <2>3, <3>1, <3>4, <3>5, <3>6 DEF ReuseWithinCommand, Entries
    <3>9. AnswersAreKept'
      <4>1. Serves(n, answer.key, answer.point)'
        <5>1. n \in 1 .. n /\ 1 .. n - 1 = 1 .. Len(cache)
          BY <3>1, <3>4
        <5>2. Fits(cache'[n], answer'.key, answer'.point)
          BY <3>4, <3>5
        <5>3. \A j \in 1 .. n - 1 : ~Fits(cache'[j], answer'.key, answer'.point)
          BY <3>6, <5>1
        <5>4. QED
          BY <3>4, <5>1, <5>2, <5>3 DEF Serves, Fits, Inputs
      <4>2. n \in DOMAIN cache' /\ cache'[n].deps = answer'.deps
        BY <3>1, <3>4, <3>5
      <4>3. QED
        BY <4>1, <4>2 DEF AnswersAreKept, Serves, Fits, Inputs
    <3>10. QED
      BY <2>1, <3>7, <3>8, <3>9 DEF Unanswered
  <2>4. QED
    BY <2>2, <2>3
<1>8. CASE UNCHANGED scope
  <2>1. UNCHANGED <<depth, cache, era, run, answer>>
    BY <1>8 DEF scope
  <2>2. Entries' /\ ReuseWithinCommand' /\ Unanswered'
    BY <2>1 DEF Entries, ReuseWithinCommand, Unanswered
  <2>3. \A i, key, point : Serves(i, key, point)' <=> Serves(i, key, point)
    BY <2>1 DEF Serves
  <2>4. AnswersAreKept'
    BY <2>1, <2>3 DEF AnswersAreKept
  <2>5. QED
    BY <2>2, <2>4
<1>9. QED
  BY <1>1, <1>2, <1>3, <1>4, <1>5, <1>6, <1>7, <1>8 DEF ScopeNext

LEMMA ScopeInvariance == ScopeSpec => []ScopeInv
  BY ScopeStart, ScopeStep, PTL DEF ScopeSpec

(* A trace is reused in the outermost command it was made in and in no     *)
(* other, for any number and nesting of commands (residual_trace_scope).   *)
THEOREM TracesServeOneCommand == ScopeSpec => []ReuseWithinCommand
  BY ScopeInvariance, PTL DEF ScopeInv

LEMMA CommandsKeep ==
  ASSUME ScopeInv, [ScopeNext]_scope, depth > 0, depth' > 0
  PROVE  cache' = cache \/ Prolonged
<1>1. CASE Open
  BY <1>1 DEF Open, Opened, ScopeInv, Entries
<1>2. CASE Close
  BY <1>2 DEF Close, Closed, ScopeInv, Entries
<1>3. ASSUME NEW exact \in BOOLEAN, Finish(answer', exact) PROVE Prolonged
  BY <1>3, FinishProlongs DEF ScopeInv, Entries
<1>4. QED
  BY <1>1, <1>2, <1>3 DEF ScopeNext, Serve, Start, Follow, Quiet, Discard, scope

(* While the outermost command lasts the commands inside it lose no trace. *)
THEOREM CommandsKeepTraces == ScopeSpec => InnerCommandKeepsTraces
<1>1. ASSUME ScopeInv, [ScopeNext]_scope, depth > 0, depth' > 0
      PROVE  Len(cache') >= Len(cache) /\ SubSeq(cache', 1, Len(cache)) = cache
  <2>1. CASE cache' = cache
    <3>1. PICK S : cache \in Seq(S)
      BY <1>1 DEF ScopeInv, Entries
    <3>2. Len(cache) \in Nat /\ SubSeq(cache, 1, Len(cache)) = cache
      BY <3>1
    <3>3. QED
      BY <2>1, <3>2
  <2>2. CASE Prolonged
    BY <2>2, ProlongedServes
  <2>3. QED
    BY <1>1, <2>1, <2>2, CommandsKeep
<1>2. ScopeInv /\ [ScopeNext]_scope =>
        [depth > 0 /\ depth' > 0 =>
          Len(cache') >= Len(cache) /\ SubSeq(cache', 1, Len(cache)) = cache]_scope
  BY <1>1
<1>3. QED
  BY <1>2, ScopeInvariance, PTL DEF ScopeSpec, InnerCommandKeepsTraces

(* What serves a request goes on serving it while the command lasts.       *)
SameService ==
  depth > 0 /\ depth' > 0 =>
    \A i \in DOMAIN cache : \A key, point :
      Serves(i, key, point) => Serves(i, key, point)' /\ cache'[i] = cache[i]

(* A command that asks for the same dependencies again gets the same ones, *)
(* however many traces were kept since: the first entry that agrees with a *)
(* request stays the first, and a trace is only made when none agrees.     *)
THEOREM RepeatsAgree ==
  ScopeSpec => []AnswersAreKept /\ [][SameService]_scope
<1>1. ASSUME ScopeInv, [ScopeNext]_scope PROVE SameService
  <2>1. CASE cache' = cache
    BY <2>1 DEF SameService, Serves, Fits, Inputs
  <2>2. CASE Prolonged
    BY <2>2, ProlongedServes DEF SameService
  <2>3. QED
    BY <1>1, <2>1, <2>2, CommandsKeep DEF SameService
<1>2. ScopeInv => AnswersAreKept
  BY DEF ScopeInv
<1>3. ScopeInv /\ [ScopeNext]_scope => [SameService]_scope
  BY <1>1
<1>4. QED
  BY <1>2, <1>3, ScopeInvariance, PTL DEF ScopeSpec

-----------------------------------------------------------------------------
(* The tracer keeps to that discipline.                                    *)
RunShape ==
  run = Idle \/ run = [on |-> TRUE, key |-> run.key, point |-> run.point,
                       reads |-> run.reads, sensitive |-> run.sensitive]

LEMMA NoteFollows ==
  ASSUME RunShape, run.on, NEW influences, NEW names, Note(influences, names), Quiet
  PROVE  Follow /\ RunShape'
<1> DEFINE sensitive == run.sensitive \/ SensitiveTo(influences)
           reads == run.reads \union names
<1>1. run = [on |-> TRUE, key |-> run.key, point |-> run.point,
             reads |-> run.reads, sensitive |-> run.sensitive]
  BY DEF RunShape, Idle
<1>2. run' = [run EXCEPT !.sensitive = sensitive, !.reads = reads]
  BY DEF Note
<1> HIDE DEF sensitive, reads
<1>3. run' = [on |-> TRUE, key |-> run.key, point |-> run.point, reads |-> reads, sensitive |-> sensitive]
  BY <1>1, <1>2
<1>4. run.reads \subseteq reads
  BY DEF reads
<1>5. QED
  BY <1>3, <1>4 DEF Follow, RunShape

LEMMA StepFollows ==
  ASSUME RunShape, Step
  PROVE  ScopeNext /\ RunShape'
<1>1. ASSUME Fail PROVE Discard(answer') /\ RunShape'
  BY <1>1 DEF Fail, Discard, Failed, RunShape
<1>2. CASE ReadVariables
  BY <1>1, <1>2, NoteFollows DEF ReadVariables, Running, ScopeNext
<1>3. CASE Assign
  BY <1>1, <1>3, NoteFollows DEF Assign, Running, ScopeNext
<1>4. CASE Branch
  BY <1>1, <1>4, NoteFollows DEF Branch, Running, ScopeNext
<1>5. CASE Refuse
  BY <1>1, <1>5 DEF Refuse, ScopeNext
<1>6. CASE Enter
  BY <1>1, <1>6, NoteFollows DEF Enter, Running, ScopeNext
<1>7. CASE Return
  BY <1>1, <1>7, NoteFollows DEF Return, Running, ScopeNext
<1>8. CASE Deliver
  <2>1. \A new, exact : Finish(new, exact) => answer' = new /\ run' = Idle
    BY DEF Finish
  <2>2. \/ Fail
        \/ \E new, exact : Finish(new, exact) /\ exact \in BOOLEAN
    BY <1>8 DEF Deliver
  <2>3. CASE Fail
    BY <1>1, <2>3 DEF ScopeNext
  <2>4. ASSUME NEW new, NEW exact \in BOOLEAN, Finish(new, exact) PROVE ScopeNext /\ RunShape'
    BY <2>1, <2>4 DEF ScopeNext, RunShape
  <2>5. QED
    BY <2>2, <2>3, <2>4
<1>9. QED
  BY <1>2, <1>3, <1>4, <1>5, <1>6, <1>7, <1>8 DEF Step

LEMMA NextFollows == RunShape /\ [Next]_vars => RunShape' /\ [ScopeNext]_scope
<1> SUFFICES ASSUME RunShape, [Next]_vars PROVE RunShape' /\ [ScopeNext]_scope
  OBVIOUS
<1>1. CASE Step
  BY <1>1, StepFollows
<1>2. CASE Request
  <2> DEFINE audit == plan.audits[calls + 1]
  <2>1. CASE Reuse(audit.set, audit.point)
    <3>1. PICK i \in DOMAIN cache : \E new : Serve(i, new)
      BY <2>1 DEF Reuse
    <3>2. Serve(i, answer') /\ UNCHANGED run
      BY <3>1 DEF Serve
    <3>3. QED
      BY <3>1, <3>2 DEF ScopeNext, RunShape
  <2>2. CASE Trace(audit.set, audit.point)
    <3> DEFINE new == [on |-> TRUE, key |-> Key(audit.set), point |-> audit.point,
                       reads |-> {}, sensitive |-> FALSE]
    <3>1. Start(new) /\ run' = new
      BY <2>2 DEF Trace, Start
    <3>2. RunShape'
      BY <3>1 DEF RunShape
    <3>3. QED
      BY <3>1, <3>2 DEF ScopeNext
  <2>3. QED
    BY <1>2, <2>1, <2>2 DEF Request
<1>3. CASE Command
  BY <1>3 DEF Command, Open, ScopeNext, RunShape
<1>4. CASE Leave
  BY <1>4 DEF Leave, Close, ScopeNext, RunShape
<1>5. CASE UNCHANGED vars
  BY <1>5 DEF vars, scope, RunShape
<1>6. QED
  BY <1>1, <1>2, <1>3, <1>4, <1>5 DEF Next

(* Whatever methods and helpers it traces, at whatever points and in       *)
(* whatever order, the tracer keeps what it learnt, for as long, and       *)
(* answers with it, as TraceScope says: each of its steps is one of the    *)
(* steps of the scope or leaves the scope alone.                           *)
LEMMA TracerKeepsScope == Spec => ScopeSpec
<1>1. Init => ScopeInit /\ RunShape
  BY DEF Init, ScopeInit, RunShape
<1>2. QED
  BY <1>1, NextFollows, PTL DEF Spec, ScopeSpec

(* And so the tracer reuses no trace outside the command it was made in.   *)
THEOREM TracerReusesWithinCommand == Spec => []ReuseWithinCommand
  BY TracerKeepsScope, TracesServeOneCommand, PTL

-----------------------------------------------------------------------------
(* Induction over the depth of trees.                                      *)
Shallower == {p \in Nat \X Nat : p[1] < p[2]}

LEMMA ShallowerIsWellFounded == IsWellFoundedOn(Shallower, Nat)
BY NatLessThanWellFounded DEF OpToRel, Shallower

LEMMA SomeShallowest ==
  ASSUME NEW S, S \subseteq Nat, S # {}
  PROVE  \E n \in S : \A m \in S : n <= m
<1>1. PICK n \in S : \A m \in S : ~(<<m, n>> \in Shallower)
  BY ShallowerIsWellFounded, WFMin
<1>2. ASSUME NEW m \in S PROVE n <= m
  <2>1. n \in Nat /\ m \in Nat
    BY <1>1
  <2>2. <<m, n>> \in Nat \X Nat
    BY <2>1
  <2>3. ~(<<m, n>>[1] < <<m, n>>[2])
    BY <1>1, <2>2 DEF Shallower
  <2>4. ~(m < n)
    BY <2>3
  <2>5. QED
    BY <2>1, <2>4
<1>3. QED
  BY <1>1, <1>2

LEMMA TermInduction ==
  ASSUME NEW Good, \A e \in Terms : (\A d \in Parts(e) : d \in Good) => e \in Good
  PROVE  \A e \in Terms : e \in Good
<1> SUFFICES ASSUME NEW x \in Terms, x \notin Good PROVE FALSE
  OBVIOUS
<1> DEFINE Bad == {e \in Terms : e \notin Good}
           Depths == {Depth(e) : e \in Bad}
<1>1. Depths \subseteq Nat /\ Depths # {}
  BY SyntaxAssumption
<1>2. PICK n \in Depths : \A m \in Depths : n <= m
  BY <1>1, SomeShallowest
<1>3. PICK e \in Bad : Depth(e) = n
  BY <1>2
<1>4. ASSUME NEW d \in Parts(e) PROVE d \in Good
  <2>1. d \in Terms /\ Depth(d) < Depth(e) /\ Depth(d) \in Nat /\ n \in Nat
    BY <1>1, <1>3, SyntaxAssumption
  <2>2. ~(n <= Depth(d))
    BY <1>3, <2>1
  <2>3. QED
    BY <1>2, <2>1, <2>2
<1>5. QED
  BY <1>3, <1>4

-----------------------------------------------------------------------------
(* Sets of sources: which are clean of the sources in Z, the ones that     *)
(* change.  Unknown sources are clean only when nothing changes.           *)
Clean(Z, deps) == Z = {} \/ (Unknown \notin deps /\ \A source \in Z : source \notin deps)

LEMMA MergeClean ==
  ASSUME NEW Z, NEW parts
  PROVE  Clean(Z, Merge(parts)) <=> \A part \in parts : Clean(Z, part)
BY DEF Clean, Merge

(* Two sets of locals agree where the sources are clean, except on some    *)
(* names.                                                                  *)
Agrees(Z, deps, env, other, except) ==
  \A n : n \notin except /\ (n \in DOMAIN deps => Clean(Z, deps[n])) =>
            Lookup(env, n) = Lookup(other, n)

(* Another setting and point that differ from these in Z only.             *)
Differ(Z, key, point, set, other) ==
  /\ \A n : Variable(n) \notin Z => Lookup(other, n) = Lookup(point, n)
  /\ \A n : ~(Claimed(key, n) /\ Parameter(n) \in Z) => Lookup(set, n) = Lookup(key.set, n)

-----------------------------------------------------------------------------
(* An expression whose sources are clean has the same value.               *)
LEMMA SameValue ==
  ASSUME Equations, NEW Z, NEW frame, NEW controls, NEW key, NEW point, NEW env, NEW set, NEW other,
         Agrees(Z, frame.deps, frame.env, env, {}), Differ(Z, key, point, set, other)
  PROVE  \A e \in Terms : Clean(Z, Observe(e, frame, controls, key, point).from) =>
            Val(e, env, other, set) = Val(e, frame.env, point, key.set)
<1> DEFINE From(e) == Observe(e, frame, controls, key, point).from
           V(e) == Val(e, frame.env, point, key.set)
           W(e) == Val(e, env, other, set)
           Good == {e \in Terms : Clean(Z, From(e)) => W(e) = V(e)}
<1>1. ASSUME NEW e \in Terms, \A d \in Parts(e) : d \in Good
      PROVE  e \in Good
  <2> SUFFICES ASSUME Clean(Z, From(e)) PROVE W(e) = V(e)
    OBVIOUS
  <2>1. /\ V(e) = ValOf(e, frame.env, point, key.set) /\ W(e) = ValOf(e, env, other, set)
        /\ Observe(e, frame, controls, key, point) = ObserveOf(e, frame, controls, key, point)
    BY DEF Equations
  <2>2. e.k \in TermKinds /\ \A d \in Parts(e) : d \in Terms
    BY SyntaxAssumption
  <2> DEFINE O == ObserveOf(e, frame, controls, key, point)
  <2>3. Clean(Z, O.from)
    BY <2>1
  <2>4. CASE e.k = "num"
    BY <2>1, <2>4 DEF ValOf
  <2>5. CASE e.k = "loc"
    <3>1. O.from = SourcesOf(frame, e.n)
      BY <2>5 DEF ObserveOf, Seen
    <3>2. e.n \in DOMAIN frame.deps => Clean(Z, frame.deps[e.n])
      BY <2>3, <3>1 DEF SourcesOf
    <3>3. Lookup(frame.env, e.n) = Lookup(env, e.n)
      BY <3>2 DEF Agrees
    <3>4. QED
      BY <2>1, <2>5, <3>3 DEF ValOf
  <2>6. CASE e.k = "par"
    <3>1. O.from = Quoted(key, e.n)
      BY <2>6 DEF ObserveOf, Seen
    <3>2. ~(Claimed(key, e.n) /\ Parameter(e.n) \in Z)
      BY <2>3, <3>1 DEF Quoted, Clean
    <3>3. QED
      BY <2>1, <2>6, <3>2 DEF ValOf, Differ
  <2>7. CASE e.k = "ref"
    <3>1. O.from = Merge({{Variable(e.n)}, Quoted(key, e.n), controls})
      BY <2>7 DEF ObserveOf, Seen
    <3>2. Clean(Z, {Variable(e.n)})
      BY <2>3, <3>1, MergeClean
    <3>3. Variable(e.n) \notin Z
      BY <3>2 DEF Clean
    <3>4. QED
      BY <2>1, <2>7, <3>3 DEF ValOf, Differ
  <2>8. CASE e.k = "op"
    <3> DEFINE os == {Observe(e.args[i], frame, controls, key, point) : i \in DOMAIN e.args}
    <3>1. O.from = Merge({o.from : o \in os})
      BY <2>8 DEF ObserveOf, Seen
    <3>2. ASSUME NEW i \in DOMAIN e.args PROVE W(e.args[i]) = V(e.args[i])
      <4>1. Clean(Z, From(e.args[i]))
        BY <2>3, <3>1, MergeClean
      <4>2. e.args[i] \in Parts(e)
        BY <2>8 DEF Parts
      <4>3. QED
        BY <1>1, <4>1, <4>2
    <3> HIDE DEF V, W
    <3>3. [i \in DOMAIN e.args |-> W(e.args[i])] = [i \in DOMAIN e.args |-> V(e.args[i])]
      BY <3>2
    <3>4. /\ V(e) = Apply(e.f, [i \in DOMAIN e.args |-> V(e.args[i])])
          /\ W(e) = Apply(e.f, [i \in DOMAIN e.args |-> W(e.args[i])])
      BY <2>1, <2>8 DEF ValOf, V, W
    <3>5. QED
      BY <3>3, <3>4
  <2>9. CASE e.k = "entry"
    <3>1. O.from = From(e.t) /\ e.t \in Parts(e)
      BY <2>9 DEF ObserveOf, Parts
    <3>2. W(e.t) = V(e.t)
      BY <1>1, <2>3, <3>1
    <3>3. QED
      BY <2>1, <2>9, <3>2 DEF ValOf
  <2> DEFINE At(d) == Observe(d, frame, controls, key, point)
             Tested(d) == [At(d) EXCEPT !.by = @ \union At(d).from]
  <2>10. CASE e.k = "select"
    <3>1. O.from = Merge({o.from : o \in {At(e.t), Tested(e.i)}})
      BY <2>10 DEF ObserveOf, Seen
    <3>2. Tested(e.i).from = From(e.i)
      OBVIOUS
    <3>3. e.t \in Parts(e) /\ e.i \in Parts(e)
      BY <2>10 DEF Parts
    <3> HIDE DEF Tested
    <3>5. Clean(Z, At(e.t).from) /\ Clean(Z, Tested(e.i).from)
      BY <2>3, <3>1, MergeClean
    <3>4. W(e.t) = V(e.t) /\ W(e.i) = V(e.i)
      BY <1>1, <3>2, <3>3, <3>5
    <3>6. QED
      BY <2>1, <2>10, <3>4 DEF ValOf
  <2>11. CASE e.k = "pick"
    <3>1. e.t \in Parts(e) /\ e.a \in Parts(e) /\ e.b \in Parts(e)
      BY <2>11 DEF Parts
    <3> DEFINE arm == IF V(e.t) # 0 THEN e.a ELSE e.b
    <3>2. W(e.t) = V(e.t) /\ W(arm) = V(arm)
      <4>1. CASE ~Resolvable(e.t)
        <5>1. O.from = {Unknown}
          BY <2>11, <4>1 DEF ObserveOf, Seen
        <5>2. Z = {}
          BY <2>3, <5>1 DEF Clean
        <5>3. QED
          BY <1>1, <3>1, <5>2 DEF Clean
      <4>2. CASE Resolvable(e.t)
        <5>1. O.from = Merge({o.from : o \in {Tested(e.t), At(arm)}})
          BY <2>11, <4>2 DEF ObserveOf, Seen
        <5>2. Tested(e.t).from = From(e.t)
          OBVIOUS
        <5> HIDE DEF Tested
        <5>3. Clean(Z, Tested(e.t).from) /\ Clean(Z, At(arm).from)
          BY <2>3, <5>1, MergeClean
        <5>4. QED
          BY <1>1, <3>1, <5>2, <5>3
      <4>3. QED
        BY <4>1, <4>2
    <3>3. QED
      BY <2>1, <2>11, <3>2 DEF ValOf
  <2>12. ASSUME e.k \in {"and", "or"}
         PROVE  /\ W(e.a) = V(e.a)
                /\ ~(IF e.k = "and" THEN V(e.a) = 0 ELSE V(e.a) # 0) => W(e.b) = V(e.b)
    <3> DEFINE stops == IF e.k = "and" THEN V(e.a) = 0 ELSE V(e.a) # 0
    <3>1. e.a \in Parts(e) /\ e.b \in Parts(e)
      BY <2>12 DEF Parts
    <3>2. CASE ~Resolvable(e.a)
      <4>1. O.from = {Unknown}
        BY <2>12, <3>2 DEF ObserveOf, Seen
      <4>2. Z = {}
        BY <2>3, <4>1 DEF Clean
      <4>3. QED
        BY <1>1, <3>1, <4>2 DEF Clean
    <3>3. CASE Resolvable(e.a) /\ stops
      <4>1. O.from = From(e.a)
        BY <2>12, <3>3 DEF ObserveOf, Seen
      <4>2. QED
        BY <1>1, <2>3, <3>1, <3>3, <4>1
    <3>4. CASE Resolvable(e.a) /\ ~stops
      <4>1. O.from = Merge({o.from : o \in {Tested(e.a), At(e.b)}})
        BY <2>12, <3>4 DEF ObserveOf, Seen
      <4>2. Tested(e.a).from = From(e.a)
        OBVIOUS
      <4> HIDE DEF Tested
      <4>3. Clean(Z, Tested(e.a).from) /\ Clean(Z, At(e.b).from)
        BY <2>3, <4>1, MergeClean
      <4>4. QED
        BY <1>1, <3>1, <4>2, <4>3
    <3>5. QED
      BY <3>2, <3>3, <3>4
  <2>13. CASE e.k \in {"and", "or"}
    <3>1. W(e.a) = V(e.a)
      BY <2>12, <2>13
    <3>2. CASE e.k = "and"
      BY <2>1, <2>12, <3>1, <3>2 DEF ValOf
    <3>3. CASE e.k = "or"
      BY <2>1, <2>12, <3>1, <3>3 DEF ValOf
    <3>4. QED
      BY <2>13, <3>2, <3>3
  <2>14. CASE e.k = "total"
    <3> DEFINE R(p) == [i \in DOMAIN e.names |-> Lookup(p, e.names[i])]
    <3>1. O.from = Merge({{Variable(e.names[i]) : i \in DOMAIN e.names}, Quoted(key, e.list), controls})
      BY <2>14 DEF ObserveOf, Seen
    <3>2. Clean(Z, {Variable(e.names[i]) : i \in DOMAIN e.names})
      BY <2>3, <3>1, MergeClean
    <3>3. \A i \in DOMAIN e.names : Lookup(other, e.names[i]) = Lookup(point, e.names[i])
      BY <3>2 DEF Clean, Differ
    <3>4. R(other) = R(point)
      BY <3>3
    <3>5. V(e) = Apply("sum", R(point)) /\ W(e) = Apply("sum", R(other))
      BY <2>1, <2>14 DEF ValOf
    <3>6. QED
      BY <3>4, <3>5
  <2>15. CASE e.k = "element"
    <3>1. Lookup(other, e.n) = Lookup(point, e.n)
      <4>1. CASE Quoted(key, e.list) = {}
        <5>1. O.from = Merge({{Variable(e.n)}, controls})
          BY <2>15, <4>1 DEF ObserveOf, Seen
        <5>2. Clean(Z, {Variable(e.n)})
          BY <2>3, <5>1, MergeClean
        <5>3. QED
          BY <5>2 DEF Clean, Differ
      <4>2. CASE Quoted(key, e.list) # {}
        <5>1. O.from = {Unknown}
          BY <2>15, <4>2 DEF ObserveOf, Seen
        <5>2. QED
          BY <2>3, <5>1 DEF Clean, Differ
      <4>3. QED
        BY <4>1, <4>2
    <3>2. QED
      BY <2>1, <2>15, <3>1 DEF ValOf
  <2> QED
    BY <2>2, <2>4, <2>5, <2>6, <2>7, <2>8, <2>9, <2>10, <2>11, <2>13, <2>14, <2>15 DEF TermKinds
<1>2. QED
  BY <1>1, TermInduction

-----------------------------------------------------------------------------
(* Induction over bodies: their statements and the arms of these.          *)
LEMMA BodyInduction ==
  ASSUME NEW Good, <<>> \in Good,
         \A body \in Seq(Statements) :
            /\ body # <<>> /\ Tail(body) \in Good
            /\ Head(body).k = "when" => Head(body).a \in Good /\ Head(body).b \in Good
            => body \in Good
  PROVE  \A body \in Seq(Statements) : body \in Good
<1> DEFINE GoodAt(s) == s.k = "when" => s.a \in Good /\ s.b \in Good
           Bodies == {body \in Seq(Statements) : \A i \in DOMAIN body : GoodAt(body[i])}
<1>1. ASSUME NEW long \in Bodies, long \notin Good PROVE FALSE
  <2> DEFINE Bad == {body \in Bodies : body \notin Good}
             Lengths == {Len(body) : body \in Bad}
  <2>1. Lengths \subseteq Nat /\ Lengths # {}
    <3>1. \A body \in Seq(Statements) : Len(body) \in Nat
      OBVIOUS
    <3>2. \A body \in Bad : body \in Seq(Statements)
      OBVIOUS
    <3>3. long \in Bad
      BY <1>1
    <3> HIDE DEF Bad
    <3>4. QED
      BY <3>1, <3>2, <3>3
  <2>2. PICK n \in Lengths : \A m \in Lengths : n <= m
    BY <2>1, SomeShallowest
  <2>3. PICK body \in Bad : Len(body) = n
    BY <2>2
  <2>4. body # <<>> /\ body \in Seq(Statements)
    BY <2>3
  <2>5. /\ Head(body) = body[1] /\ 1 \in DOMAIN body /\ Tail(body) \in Seq(Statements)
        /\ Len(Tail(body)) = n - 1 /\ n \in Nat
        /\ \A i \in DOMAIN Tail(body) : i + 1 \in DOMAIN body /\ Tail(body)[i] = body[i + 1]
    <3>1. Len(body) \in Nat \ {0} /\ Len(body) = n /\ DOMAIN body = 1 .. Len(body)
      BY <2>3, <2>4
    <3>2. /\ Head(body) = body[1] /\ Tail(body) \in Seq(Statements) /\ Len(Tail(body)) = Len(body) - 1
          /\ \A i \in 1 .. Len(Tail(body)) : Tail(body)[i] = body[i + 1]
      BY <2>4, HeadTailProperties
    <3>3. DOMAIN Tail(body) = 1 .. Len(Tail(body))
      BY <3>2
    <3>4. QED
      BY <3>1, <3>2, <3>3
  <2>6. GoodAt(Head(body)) /\ Tail(body) \in Bodies
    BY <2>3, <2>5
  <2>7. ~(n <= Len(Tail(body)))
    BY <2>5
  <2>8. Tail(body) \in Bad => Len(Tail(body)) \in Lengths
    OBVIOUS
  <2>9. Tail(body) \in Good
    BY <2>2, <2>6, <2>7, <2>8
  <2>10. QED
    BY <2>3, <2>4, <2>6, <2>9
<1>2. ASSUME NEW odd \in Statements, ~GoodAt(odd) PROVE FALSE
  <2> DEFINE Bad == {s \in Statements : ~GoodAt(s)}
             Depths == {Depth(s) : s \in Bad}
  <2>1. Depths \subseteq Nat /\ Depths # {}
    BY <1>2, SyntaxAssumption
  <2>2. PICK n \in Depths : \A m \in Depths : n <= m
    BY <2>1, SomeShallowest
  <2>3. PICK s \in Bad : Depth(s) = n
    BY <2>2
  <2>4. ASSUME NEW arm \in {s.a, s.b} PROVE arm \in Good
    <3>1. arm \in Seq(Statements) /\ \A i \in DOMAIN arm : Depth(arm[i]) < Depth(s)
      BY <2>3, SyntaxAssumption
    <3>2. ASSUME NEW i \in DOMAIN arm PROVE GoodAt(arm[i])
      <4>1. arm[i] \in Statements
        BY <3>1
      <4>2. Depth(arm[i]) \in Nat /\ Depth(s) \in Nat
        BY <2>3, <4>1, SyntaxAssumption
      <4>3. ~(n <= Depth(arm[i]))
        BY <2>3, <3>1, <4>2
      <4>4. QED
        BY <2>2, <4>1, <4>3
    <3>3. QED
      BY <1>1, <3>1, <3>2
  <2>5. QED
    BY <2>3, <2>4
<1>3. ASSUME NEW body \in Seq(Statements) PROVE body \in Good
  <2>1. \A i \in DOMAIN body : body[i] \in Statements
    OBVIOUS
  <2>2. body \in Bodies
    BY <1>2, <2>1
  <2>3. QED
    BY <1>1, <2>2
<1>4. QED
  BY <1>3

LEMMA BodyParts ==
  ASSUME NEW body \in Seq(Statements), body # <<>>
  PROVE  /\ Head(body) \in Statements /\ Head(body).k \in Kinds
         /\ Tail(body) \in Seq(Statements)
         /\ Head(body).k = "when" => /\ Head(body).a \in Seq(Statements)
                                     /\ Head(body).b \in Seq(Statements)
<1>1. Head(body) \in Statements /\ Tail(body) \in Seq(Statements)
  OBVIOUS
<1>2. QED
  BY <1>1, SyntaxAssumption

(* What a body may define and whether it may leave, part by part.          *)
LEMMA BodyReach ==
  ASSUME Equations, NEW body \in Seq(Statements), body # <<>>
  PROVE  LET s == Head(body)
         IN  /\ Targets(Tail(body)) \subseteq Targets(body)
             /\ s.k = "let" => s.x \in Targets(body)
             /\ s.k = "ask" => \A j \in DOMAIN s.xs : s.xs[j] \in Targets(body)
             /\ s.k = "read" => \A j \in DOMAIN s.names : s.names[j] \in Targets(body)
             /\ s.k = "when" => Targets(s.a) \subseteq Targets(body) /\ Targets(s.b) \subseteq Targets(body)
             /\ MayLeave(Tail(body)) => MayLeave(body)
             /\ s.k \in {"stop", "give", "yield"} => MayLeave(body)
             /\ s.k = "when" => (MayLeave(s.a) \/ MayLeave(s.b) => MayLeave(body))
<1>1. /\ Head(body) = body[1] /\ 1 \in DOMAIN body /\ Tail(body) \in Seq(Statements)
      /\ \A i \in DOMAIN Tail(body) : i + 1 \in DOMAIN body /\ Tail(body)[i] = body[i + 1]
  OBVIOUS
<1>2. /\ Targets(body) = TargetsOf(body) /\ MayLeave(body) = MayLeaveOf(body)
      /\ Targets(Tail(body)) = TargetsOf(Tail(body)) /\ MayLeave(Tail(body)) = MayLeaveOf(Tail(body))
  BY <1>1 DEF Equations
<1> DEFINE Of(s) == CASE s.k = "let" -> {s.x}
                      [] s.k = "ask" -> Named(s.xs)
                      [] s.k = "read" -> Named(s.names)
                      [] s.k = "when" -> Targets(s.a) \union Targets(s.b)
                      [] OTHER -> {}
<1>3. \A other : TargetsOf(other) = UNION {Of(other[i]) : i \in DOMAIN other}
  BY DEF TargetsOf
<1> HIDE DEF Of
<1>4. Of(Head(body)) \subseteq Targets(body)
  BY <1>1, <1>2, <1>3
<1>5. Targets(Tail(body)) \subseteq Targets(body)
  BY <1>1, <1>2, <1>3
<1>6. /\ MayLeave(Tail(body)) => MayLeave(body)
      /\ Head(body).k \in {"stop", "give", "yield"} => MayLeave(body)
      /\ Head(body).k = "when" => (MayLeave(Head(body).a) \/ MayLeave(Head(body).b) => MayLeave(body))
  BY <1>1, <1>2 DEF MayLeaveOf
<1>7. QED
  BY <1>4, <1>5, <1>6 DEF Of, Named

LEMMA BindLookup ==
  ASSUME NEW env, NEW xs, NEW vs, NEW n, \A i \in DOMAIN xs : xs[i] # n
  PROVE  Lookup(Bind(env, xs, vs), n) = Lookup(env, n)
BY DEF Lookup, Bind

(* What running a body to its end leaves as it was, and when a body can    *)
(* leave before.                                                           *)
LEMMA ExecEffects ==
  ASSUME Equations
  PROVE  \A body \in Seq(Statements) : \A env, point, set :
            LET r == Exec(body, env, point, set)
            IN  /\ r.how = "next" => \A n : n \notin Targets(body) => Lookup(r.env, n) = Lookup(env, n)
                /\ r.how \notin {"next", "raise"} => MayLeave(body)
<1> DEFINE Fine(body, r, env) ==
              /\ r.how = "next" => \A n : n \notin Targets(body) => Lookup(r.env, n) = Lookup(env, n)
              /\ r.how \notin {"next", "raise"} => MayLeave(body)
           Good == {body \in Seq(Statements) : \A env, point, set : Fine(body, Exec(body, env, point, set), env)}
<1>1. <<>> \in Good
  <2>1. <<>> \in Seq(Statements)
    OBVIOUS
  <2>2. ASSUME NEW env, NEW point, NEW set
        PROVE  Exec(<<>>, env, point, set) = [how |-> "next", env |-> env, out |-> <<>>]
    BY <2>1 DEF Equations, ExecOf
  <2>3. QED
    BY <2>1, <2>2
<1>2. ASSUME NEW body \in Seq(Statements), body # <<>>, Tail(body) \in Good,
             Head(body).k = "when" => Head(body).a \in Good /\ Head(body).b \in Good
      PROVE  body \in Good
  <2> SUFFICES ASSUME NEW env, NEW point, NEW set
               PROVE  Fine(body, Exec(body, env, point, set), env)
    OBVIOUS
  <2> DEFINE s == Head(body)
             r == Exec(body, env, point, set)
             E(rest, e) == Exec(rest, e, point, set)
  <2>1. r = ExecOf(body, env, point, set) /\ s.k \in Kinds
    BY <1>2, BodyParts DEF Equations
  <2>2. Fine(body, Raised, env)
    BY DEF Raised
  <2>3. ASSUME NEW xs, NEW vs, \A i \in DOMAIN xs : xs[i] \in Targets(body)
        PROVE  Fine(body, E(Tail(body), Bind(env, xs, vs)), env)
    <3>1. Fine(Tail(body), E(Tail(body), Bind(env, xs, vs)), Bind(env, xs, vs))
      BY <1>2
    <3>2. \A n : n \notin Targets(body) => Lookup(Bind(env, xs, vs), n) = Lookup(env, n)
      BY <2>3, BindLookup
    <3>3. QED
      BY <1>2, <3>1, <3>2, BodyReach
  <2> HIDE DEF Fine
  <2>4. CASE s.k = "stop"
    BY <1>2, <2>1, <2>2, <2>4 DEF ExecOf
  <2>5. CASE s.k = "read"
    <3> DEFINE vs == Readings(s.names, point)
    <3>1. r = IF Broken(vs) THEN Raised ELSE E(Tail(body), Bind(env, s.names, vs))
      BY <1>2, <2>1, <2>5 DEF ExecOf
    <3>2. \A i \in DOMAIN s.names : s.names[i] \in Targets(body)
      BY <1>2, <2>5, BodyReach
    <3> HIDE DEF vs
    <3>3. QED
      BY <2>2, <2>3, <3>1, <3>2
  <2>6. CASE s.k = "let"
    <3> DEFINE vs == <<Val(s.e, env, point, set)>>
    <3>1. r = IF Broken(vs) THEN Raised ELSE E(Tail(body), Bind(env, <<s.x>>, vs))
      BY <1>2, <2>1, <2>6 DEF ExecOf
    <3>2. \A i \in DOMAIN <<s.x>> : <<s.x>>[i] \in Targets(body)
      BY <1>2, <2>6, BodyReach
    <3> HIDE DEF vs
    <3>3. QED
      BY <2>2, <2>3, <3>1, <3>2
  <2>7. CASE s.k = "when"
    <3> DEFINE t == Val(s.t, env, point, set)
               arm == IF t # 0 THEN s.a ELSE s.b
               q == E(arm, env)
    <3>1. r = IF t = Undefined THEN Raised ELSE IF q.how = "next" THEN E(Tail(body), q.env) ELSE q
      BY <1>2, <2>1, <2>7 DEF ExecOf
    <3>2. arm \in Good /\ Targets(arm) \subseteq Targets(body) /\ (MayLeave(arm) => MayLeave(body))
      BY <1>2, <2>7, BodyReach
    <3>3. Fine(arm, q, env) /\ Fine(Tail(body), E(Tail(body), q.env), q.env)
      BY <1>2, <3>2
    <3> HIDE DEF q, t
    <3>4. CASE q.how = "next"
      BY <1>2, <2>2, <3>1, <3>2, <3>3, <3>4, BodyReach DEF Fine
    <3>5. CASE q.how # "next"
      BY <2>2, <3>1, <3>2, <3>3, <3>5 DEF Fine
    <3>6. QED
      BY <3>4, <3>5
  <2>8. CASE s.k = "ask"
    <3> DEFINE vs == Evaluated(s.args, env, point, set)
               q == Exec(Helper(s.fn).body, Bind(NoLocals, Helper(s.fn).args, vs), point, set)
    <3>1. r = IF Unfit(Helper(s.fn).args, vs) THEN Raised ELSE Resumed(Tail(body), env, s.xs, q, point, set)
      BY <1>2, <2>1, <2>8 DEF ExecOf
    <3>2. \A i \in DOMAIN s.xs : s.xs[i] \in Targets(body)
      BY <1>2, <2>8, BodyReach
    <3> HIDE DEF q, vs
    <3>3. r = Raised \/ r = E(Tail(body), Bind(env, s.xs, q.out))
      BY <3>1 DEF Resumed
    <3>4. QED
      BY <2>2, <2>3, <3>2, <3>3
  <2>9. CASE s.k \in {"give", "yield"}
    <3>1. MayLeave(body)
      BY <1>2, <2>9, BodyReach
    <3>2. CASE s.k = "give"
      <4> DEFINE vs == Evaluated(s.es, env, point, set)
      <4>1. r = Ended("give", env, vs)
        BY <1>2, <2>1, <3>2 DEF ExecOf
      <4>2. r.how \in {"give", "raise"}
        BY <4>1 DEF Ended, Raised
      <4>3. QED
        BY <3>1, <4>2 DEF Fine
    <3>3. CASE s.k = "yield"
      <4> DEFINE vs == Evaluated(ValuesOf(s.records), env, point, set)
      <4>1. r = Ended("yield", env, vs)
        BY <1>2, <2>1, <3>3 DEF ExecOf
      <4>2. r.how \in {"yield", "raise"}
        BY <4>1 DEF Ended, Raised
      <4>3. QED
        BY <3>1, <4>2 DEF Fine
    <3>4. QED
      BY <2>9, <3>2, <3>3
  <2>10. QED
    BY <2>1, <2>4, <2>5, <2>6, <2>7, <2>8, <2>9 DEF Kinds
<1>3. \A body \in Seq(Statements) : body \in Good
  BY <1>1, <1>2, BodyInduction
<1>4. QED
  BY <1>3

(* One body after another.                                                 *)
LEMMA ExecConcat ==
  ASSUME Equations, NEW last \in Seq(Statements), NEW point, NEW set
  PROVE  \A body \in Seq(Statements) : \A env :
            LET r == Exec(body, env, point, set)
            IN  Exec(body \o last, env, point, set) =
                   IF r.how = "next" THEN Exec(last, r.env, point, set) ELSE r
<1> DEFINE Then(r) == IF r.how = "next" THEN Exec(last, r.env, point, set) ELSE r
           Good == {body \in Seq(Statements) : \A env :
                      Exec(body \o last, env, point, set) = Then(Exec(body, env, point, set))}
<1>1. <<>> \in Good
  <2>1. <<>> \in Seq(Statements) /\ <<>> \o last = last
    OBVIOUS
  <2>2. ASSUME NEW env
        PROVE  Exec(<<>>, env, point, set) = [how |-> "next", env |-> env, out |-> <<>>]
    BY <2>1 DEF Equations, ExecOf
  <2>3. QED
    BY <2>1, <2>2
<1>2. ASSUME NEW body \in Seq(Statements), body # <<>>, Tail(body) \in Good
      PROVE  body \in Good
  <2> SUFFICES ASSUME NEW env
               PROVE  Exec(body \o last, env, point, set) = Then(Exec(body, env, point, set))
    OBVIOUS
  <2>0. PICK all : all = body \o last
    OBVIOUS
  <2>1. /\ all \in Seq(Statements) /\ all # <<>>
        /\ Head(all) = Head(body) /\ Tail(all) = Tail(body) \o last
    BY <1>2, <2>0
  <2> DEFINE s == Head(body)
             E(rest, e) == Exec(rest, e, point, set)
  <2> SUFFICES E(all, env) = Then(E(body, env))
    BY <2>0
  <2>2. /\ E(body, env) = ExecOf(body, env, point, set) /\ s.k \in Kinds
        /\ E(all, env) = ExecOf(all, env, point, set)
    BY <1>2, <2>1, BodyParts DEF Equations
  <2>3. \A e : E(Tail(all), e) = Then(E(Tail(body), e))
    BY <1>2, <2>1
  <2>4. Then(Raised) = Raised
    BY DEF Raised
  <2> HIDE DEF Then
  <2>5. ASSUME NEW xs, NEW vs,
               E(body, env) = IF Broken(vs) THEN Raised ELSE E(Tail(body), Bind(env, xs, vs)),
               E(all, env) = IF Broken(vs) THEN Raised ELSE E(Tail(all), Bind(env, xs, vs))
        PROVE  E(all, env) = Then(E(body, env))
    BY <2>3, <2>4, <2>5
  <2>6. CASE s.k = "stop"
    BY <1>2, <2>1, <2>2, <2>4, <2>6 DEF ExecOf
  <2>7. CASE s.k = "read"
    <3> DEFINE vs == Readings(s.names, point)
    <3>1. /\ E(body, env) = IF Broken(vs) THEN Raised ELSE E(Tail(body), Bind(env, s.names, vs))
          /\ E(all, env) = IF Broken(vs) THEN Raised ELSE E(Tail(all), Bind(env, s.names, vs))
      BY <1>2, <2>1, <2>2, <2>7 DEF ExecOf
    <3> HIDE DEF vs
    <3>2. QED
      BY <2>5, <3>1
  <2>8. CASE s.k = "let"
    <3> DEFINE vs == <<Val(s.e, env, point, set)>>
    <3>1. /\ E(body, env) = IF Broken(vs) THEN Raised ELSE E(Tail(body), Bind(env, <<s.x>>, vs))
          /\ E(all, env) = IF Broken(vs) THEN Raised ELSE E(Tail(all), Bind(env, <<s.x>>, vs))
      BY <1>2, <2>1, <2>2, <2>8 DEF ExecOf
    <3> HIDE DEF vs
    <3>2. QED
      BY <2>5, <3>1
  <2>9. CASE s.k = "when"
    <3> DEFINE t == Val(s.t, env, point, set)
               q == E(IF t # 0 THEN s.a ELSE s.b, env)
    <3>1. /\ E(body, env) = IF t = Undefined THEN Raised ELSE IF q.how = "next" THEN E(Tail(body), q.env) ELSE q
          /\ E(all, env) = IF t = Undefined THEN Raised ELSE IF q.how = "next" THEN E(Tail(all), q.env) ELSE q
      BY <1>2, <2>1, <2>2, <2>9 DEF ExecOf
    <3>2. q.how # "next" => Then(q) = q
      BY DEF Then
    <3> HIDE DEF q, t
    <3>3. QED
      BY <2>3, <2>4, <3>1, <3>2
  <2>10. CASE s.k = "ask"
    <3> DEFINE vs == Evaluated(s.args, env, point, set)
               q == Exec(Helper(s.fn).body, Bind(NoLocals, Helper(s.fn).args, vs), point, set)
               bad == q.how # "give" \/ Unfit(s.xs, q.out)
    <3>1. /\ E(body, env) = IF Unfit(Helper(s.fn).args, vs) THEN Raised
                            ELSE Resumed(Tail(body), env, s.xs, q, point, set)
          /\ E(all, env) = IF Unfit(Helper(s.fn).args, vs) THEN Raised
                           ELSE Resumed(Tail(all), env, s.xs, q, point, set)
      BY <1>2, <2>1, <2>2, <2>10 DEF ExecOf
    <3>2. \A rest : Resumed(rest, env, s.xs, q, point, set) = IF bad THEN Raised ELSE E(rest, Bind(env, s.xs, q.out))
      BY DEF Resumed
    <3> HIDE DEF q, vs, bad
    <3>3. QED
      BY <2>3, <2>4, <3>1, <3>2
  <2>11. CASE s.k = "give"
    <3> DEFINE vs == Evaluated(s.es, env, point, set)
    <3>1. E(body, env) = Ended("give", env, vs) /\ E(all, env) = Ended("give", env, vs)
      BY <1>2, <2>1, <2>2, <2>11 DEF ExecOf
    <3>2. Ended("give", env, vs).how \in {"give", "raise"}
      BY DEF Ended, Raised
    <3>3. QED
      BY <3>1, <3>2 DEF Then
  <2>12. CASE s.k = "yield"
    <3> DEFINE vs == Evaluated(ValuesOf(s.records), env, point, set)
    <3>1. E(body, env) = Ended("yield", env, vs) /\ E(all, env) = Ended("yield", env, vs)
      BY <1>2, <2>1, <2>2, <2>12 DEF ExecOf
    <3>2. Ended("yield", env, vs).how \in {"yield", "raise"}
      BY DEF Ended, Raised
    <3>3. QED
      BY <3>1, <3>2 DEF Then
  <2>13. QED
    BY <2>0, <2>2, <2>6, <2>7, <2>8, <2>9, <2>10, <2>11, <2>12 DEF Kinds
<1>3. \A body \in Seq(Statements) : body \in Good
  BY <1>1, <1>2, BodyInduction
<1>4. QED
  BY <1>3

-----------------------------------------------------------------------------
(* The shape of the frames of a trace.                                     *)
Todo(t) == \E S : t \in Seq(S) /\ \A x \in S : x.s \in Statements
FrameShape(f) ==
  /\ f = [env |-> f.env, deps |-> f.deps, todo |-> f.todo, gates |-> f.gates,
          inherited |-> f.inherited, dest |-> f.dest]
  /\ Todo(f.todo)
FramesShape(F) ==
  /\ \E S : F \in Seq(S)
  /\ F # <<>>
  /\ \A i \in DOMAIN F : FrameShape(F[i]) /\ (i < Len(F) => F[i].todo # <<>>)

(* The statements after the first k.                                       *)
Ahead(todo, k) == [j \in 1 .. Len(todo) - k |-> todo[j + k].s]

LEMMA AheadParts ==
  ASSUME NEW t, Todo(t), NEW k \in 0 .. Len(t)
  PROVE  /\ Len(t) \in Nat /\ Ahead(t, k) \in Seq(Statements)
         /\ k < Len(t) => /\ Ahead(t, k) # <<>> /\ Head(Ahead(t, k)) = t[k + 1].s
                          /\ Tail(Ahead(t, k)) = Ahead(t, k + 1)
<1>1. PICK S : t \in Seq(S) /\ \A x \in S : x.s \in Statements
  BY DEF Todo
<1>2. Len(t) \in Nat /\ DOMAIN t = 1 .. Len(t) /\ \A j \in 1 .. Len(t) : t[j].s \in Statements
  BY <1>1
<1>3. Ahead(t, k) \in Seq(Statements) /\ Len(Ahead(t, k)) = Len(t) - k
  <2>1. Len(t) - k \in Nat /\ \A j \in 1 .. Len(t) - k : j + k \in 1 .. Len(t)
    BY <1>2
  <2>2. Ahead(t, k) \in [1 .. Len(t) - k -> Statements]
    BY <1>2, <2>1 DEF Ahead
  <2>3. QED
    BY <2>1, <2>2
<1>4. ASSUME k < Len(t)
      PROVE  /\ Ahead(t, k) # <<>> /\ Head(Ahead(t, k)) = t[k + 1].s
             /\ Tail(Ahead(t, k)) = Ahead(t, k + 1)
  <2>1. Ahead(t, k) # <<>> /\ 1 \in 1 .. Len(t) - k
    BY <1>2, <1>3, <1>4
  <2>2. Head(Ahead(t, k)) = t[k + 1].s
    <3>1. Head(Ahead(t, k)) = Ahead(t, k)[1]
      BY <1>3, <2>1
    <3>2. QED
      BY <2>1, <3>1 DEF Ahead
  <2>3. k + 1 \in 0 .. Len(t)
    BY <1>2, <1>4
  <2>4. Ahead(t, k + 1) \in [1 .. Len(t) - (k + 1) -> Statements]
    <3>1. \A j \in 1 .. Len(t) - (k + 1) : j + (k + 1) \in 1 .. Len(t)
      BY <1>2, <2>3
    <3>2. QED
      BY <1>2, <3>1 DEF Ahead
  <2>5. Ahead(t, k + 1) \in Seq(Statements) /\ Len(Ahead(t, k + 1)) = Len(t) - k - 1
    <3>1. \A a, b \in Nat : b < a => a - (b + 1) \in Nat /\ a - (b + 1) = a - b - 1
      OBVIOUS
    <3>2. Len(t) \in Nat /\ k \in Nat /\ k < Len(t)
      BY <1>2, <1>4
    <3>3. PICK m \in Nat : m = Len(t) - (k + 1) /\ m = Len(t) - k - 1
      BY <3>1, <3>2, Zenon
    <3>4. PICK f : f = Ahead(t, k + 1)
      OBVIOUS
    <3>5. f \in [1 .. m -> Statements]
      BY <2>4, <3>3, <3>4, Zenon
    <3>6. f \in Seq(Statements) /\ Len(f) = m
      BY <3>5
    <3>7. QED
      BY <3>3, <3>4, <3>6, Zenon
  <2>6. /\ Tail(Ahead(t, k)) \in Seq(Statements) /\ Len(Tail(Ahead(t, k))) = Len(t) - k - 1
        /\ \A j \in 1 .. Len(t) - k - 1 : Tail(Ahead(t, k))[j] = Ahead(t, k)[j + 1]
    <3>1. PICK f : f = Ahead(t, k)
      OBVIOUS
    <3>2. PICK m : m = Len(f) - 1 /\ m = Len(t) - k - 1
      BY <1>3, <3>1, Zenon
    <3>3. f \in Seq(Statements) /\ f # <<>>
      BY <1>3, <2>1, <3>1, Zenon
    <3>4. Tail(f) \in Seq(Statements) /\ Len(Tail(f)) = Len(f) - 1
          /\ \A j \in 1 .. Len(Tail(f)) : Tail(f)[j] = f[j + 1]
      BY <3>3, HeadTailProperties
    <3>5. QED
      BY <3>1, <3>2, <3>4, Zenon
  <2>7. ASSUME NEW j \in 1 .. Len(t) - k - 1 PROVE Ahead(t, k)[j + 1] = Ahead(t, k + 1)[j]
    <3>1. j + 1 \in 1 .. Len(t) - k /\ j \in 1 .. Len(t) - (k + 1) /\ j + (k + 1) = j + 1 + k
      BY <1>2, <1>4
    <3>2. QED
      BY <3>1 DEF Ahead
  <2>8. Tail(Ahead(t, k)) = Ahead(t, k + 1)
    BY <1>2, <2>5, <2>6, <2>7, SeqEqual
  <2>9. QED
    BY <2>1, <2>2, <2>8
<1>5. QED
  BY <1>2, <1>3, <1>4

(* A statement is done: the ones after it stay.                            *)
LEMMA DoneAhead ==
  ASSUME NEW t, Todo(t), t # <<>>
  PROVE  /\ Todo(Tail(t)) /\ Len(Tail(t)) = Len(t) - 1 /\ Len(t) \in Nat \ {0}
         /\ \A j \in 1 .. Len(t) - 1 : Tail(t)[j] = t[j + 1]
         /\ \A k \in 1 .. Len(t) : Ahead(Tail(t), k - 1) = Ahead(t, k)
<1>1. PICK S : t \in Seq(S) /\ \A x \in S : x.s \in Statements
  BY DEF Todo
<1>2. /\ Tail(t) \in Seq(S) /\ Len(Tail(t)) = Len(t) - 1 /\ Len(t) \in Nat \ {0}
      /\ \A j \in 1 .. Len(t) - 1 : Tail(t)[j] = t[j + 1]
  BY <1>1
<1>3. ASSUME NEW k \in 1 .. Len(t) PROVE Ahead(Tail(t), k - 1) = Ahead(t, k)
  <2>1. Len(Tail(t)) - (k - 1) = Len(t) - k
    BY <1>2
  <2>2. \A j \in 1 .. Len(t) - k : Tail(t)[j + (k - 1)] = t[j + k]
    BY <1>2
  <2>3. QED
    BY <2>1, <2>2 DEF Ahead
<1>4. QED
  BY <1>1, <1>2, <1>3 DEF Todo

(* An arm is put before what is left.                                      *)
Armed(u, t, arm, under) ==
  /\ Todo(u) /\ Len(u) = Len(arm) + Len(t) - 1
  /\ \A j \in 1 .. Len(arm) : u[j].under = under
  /\ \A j \in 1 .. Len(t) - 1 : u[Len(arm) + j] = t[j + 1]
  /\ Ahead(u, 0) = arm \o Ahead(t, 1)
  /\ \A k \in 1 .. Len(t) : Ahead(u, Len(arm) + k - 1) = Ahead(t, k)

LEMMA ArmAhead ==
  ASSUME NEW t, Todo(t), t # <<>>, NEW arm \in Seq(Statements), NEW under
  PROVE  Armed(Tagged(arm, under) \o Tail(t), t, arm, under)
<1> DEFINE tags == Tagged(arm, under)
<1>1. PICK S : t \in Seq(S) /\ \A x \in S : x.s \in Statements
  BY DEF Todo
<1>2. PICK u : u = tags \o Tail(t)
  OBVIOUS
<1>3. /\ Tail(t) \in Seq(S) /\ Len(Tail(t)) = Len(t) - 1 /\ Len(t) \in Nat \ {0}
      /\ \A j \in 1 .. Len(t) - 1 : Tail(t)[j] = t[j + 1]
  BY <1>1
<1> DEFINE R == {[s |-> s, under |-> under] : s \in Statements}
<1>4. /\ tags \in Seq(R) /\ Len(tags) = Len(arm) /\ Len(arm) \in Nat
      /\ \A j \in 1 .. Len(arm) : tags[j] = [s |-> arm[j], under |-> under]
  <2>1. tags \in [1 .. Len(arm) -> R] /\ Len(arm) \in Nat
    BY DEF Tagged
  <2>2. tags \in Seq(R) /\ Len(tags) = Len(arm)
    BY <2>1
  <2>3. QED
    BY <2>1, <2>2 DEF Tagged
<1> HIDE DEF tags
<1>5. \A x \in S \union R : x.s \in Statements
  BY <1>1
<1> HIDE DEF R
<1>6. /\ u \in Seq(S \union R) /\ Len(u) = Len(arm) + Len(t) - 1
      /\ \A j \in 1 .. Len(arm) : u[j] = tags[j]
      /\ \A j \in 1 .. Len(t) - 1 : u[Len(arm) + j] = Tail(t)[j]
  <2>1. tags \in Seq(S \union R) /\ Tail(t) \in Seq(S \union R)
    BY <1>3, <1>4, SeqMonotonic
  <2>2. /\ u \in Seq(S \union R) /\ Len(u) = Len(tags) + Len(Tail(t))
        /\ \A j \in 1 .. Len(tags) + Len(Tail(t)) :
              u[j] = IF j <= Len(tags) THEN tags[j] ELSE Tail(t)[j - Len(tags)]
    BY <1>2, <2>1, ConcatProperties
  <2>3. ASSUME NEW j \in 1 .. Len(t) - 1 PROVE u[Len(arm) + j] = Tail(t)[j]
    <3>1. Len(arm) + j \in 1 .. Len(tags) + Len(Tail(t)) /\ ~(Len(arm) + j <= Len(tags))
          /\ Len(arm) + j - Len(tags) = j
      BY <1>3, <1>4
    <3>2. QED
      BY <2>2, <3>1
  <2>4. Len(u) = Len(arm) + Len(t) - 1
    BY <1>3, <1>4, <2>2
  <2>5. QED
    BY <1>3, <1>4, <2>2, <2>3, <2>4
<1>7. Todo(u)
  BY <1>5, <1>6 DEF Todo
<1>8. Ahead(u, 0) = arm \o Ahead(t, 1)
  <2>1. Ahead(t, 1) \in Seq(Statements) /\ Len(Ahead(t, 1)) = Len(t) - 1
    <3>1. Ahead(t, 1) \in Seq(Statements)
      BY <1>3, AheadParts
    <3>2. QED
      BY <1>3, <3>1 DEF Ahead
  <2>2. Ahead(u, 0) \in Seq(Statements) /\ Len(Ahead(u, 0)) = Len(u)
    <3>1. Ahead(u, 0) \in Seq(Statements)
      BY <1>3, <1>4, <1>6, <1>7, AheadParts
    <3>2. QED
      BY <1>3, <1>4, <1>6, <3>1 DEF Ahead
  <2> DEFINE whole == arm \o Ahead(t, 1)
  <2>3. /\ whole \in Seq(Statements) /\ Len(whole) = Len(u)
        /\ \A j \in 1 .. Len(u) : whole[j] = IF j <= Len(arm) THEN arm[j] ELSE Ahead(t, 1)[j - Len(arm)]
    <3>1. Len(arm) + Len(Ahead(t, 1)) = Len(u)
      BY <1>3, <1>4, <1>6, <2>1
    <3>2. QED
      BY <2>1, <3>1, ConcatProperties
  <2> HIDE DEF whole
  <2>4. ASSUME NEW j \in 1 .. Len(u) PROVE Ahead(u, 0)[j] = whole[j]
    <3>1. Ahead(u, 0)[j] = u[j].s
      BY <1>3, <1>4, <1>6 DEF Ahead
    <3>2. CASE j <= Len(arm)
      <4>1. j \in 1 .. Len(arm)
        BY <1>4, <3>2
      <4>2. whole[j] = arm[j] /\ u[j] = [s |-> arm[j], under |-> under]
        BY <1>4, <1>6, <2>3, <3>2, <4>1
      <4>3. QED
        BY <3>1, <4>2
    <3>3. CASE ~(j <= Len(arm))
      <4>1. PICK i \in 1 .. Len(t) - 1 : j = Len(arm) + i /\ i = j - Len(arm)
        <5>1. j - Len(arm) \in 1 .. Len(t) - 1 /\ j = Len(arm) + (j - Len(arm))
          BY <1>3, <1>4, <1>6, <3>3
        <5>2. QED
          BY <5>1
      <4>2. Ahead(u, 0)[j] = t[i + 1].s
        BY <1>3, <1>6, <3>1, <4>1
      <4>3. whole[j] = Ahead(t, 1)[i]
        BY <2>3, <3>3, <4>1
      <4>4. Ahead(t, 1)[i] = t[i + 1].s
        BY <1>3 DEF Ahead
      <4>5. QED
        BY <4>2, <4>3, <4>4
    <3>4. QED
      BY <3>2, <3>3
  <2>5. Ahead(u, 0) = whole
    BY <2>2, <2>3, <2>4, SeqEqual
  <2>6. QED
    BY <2>5 DEF whole
<1>9. ASSUME NEW k \in 1 .. Len(t) PROVE Ahead(u, Len(arm) + k - 1) = Ahead(t, k)
  <2>1. Len(u) - (Len(arm) + k - 1) = Len(t) - k
    <3>1. Len(u) = Len(arm) + Len(t) - 1 /\ Len(arm) \in Int /\ Len(t) \in Int /\ k \in Int
      BY <1>3, <1>4, <1>6
    <3>2. \A a, b, c \in Int : (a + b - 1) - (a + c - 1) = b - c
      OBVIOUS
    <3>3. QED
      BY <3>1, <3>2
  <2>2. ASSUME NEW j \in 1 .. Len(t) - k PROVE u[j + (Len(arm) + k - 1)] = t[j + k]
    <3>1. PICK i \in 1 .. Len(t) - 1 : j + (Len(arm) + k - 1) = Len(arm) + i /\ i + 1 = j + k
      <4>1. j + (Len(arm) + k - 1) = Len(arm) + (j + k - 1) /\ j + k - 1 \in 1 .. Len(t) - 1
            /\ j + k - 1 + 1 = j + k
        BY <1>3, <1>4
      <4>2. QED
        BY <4>1
    <3>2. u[Len(arm) + i] = t[i + 1]
      BY <1>3, <1>6
    <3>3. QED
      BY <3>1, <3>2
  <2>3. QED
    BY <2>1, <2>2 DEF Ahead
<1>10. ASSUME NEW j \in 1 .. Len(arm) PROVE u[j].under = under
  <2>1. u[j] = tags[j] /\ tags[j] = [s |-> arm[j], under |-> under]
    BY <1>4, <1>6
  <2>2. [s |-> arm[j], under |-> under].under = under
    OBVIOUS
  <2>3. QED
    BY <2>1, <2>2, Zenon
<1>11. \A j \in 1 .. Len(t) - 1 : u[Len(arm) + j] = t[j + 1]
  BY <1>3, <1>6
<1>12. Len(u) = Len(arm) + Len(t) - 1
  BY <1>6
<1>13. Armed(u, t, arm, under)
  BY <1>7, <1>8, <1>9, <1>10, <1>11, <1>12, Zenon DEF Armed
<1>14. QED
  BY <1>2, <1>13 DEF tags

-----------------------------------------------------------------------------
(* Locals that agree where their sources are clean, and their bindings.    *)
LEMMA BoundLookup ==
  ASSUME NEW xs, NEW n, \E i \in DOMAIN xs : xs[i] = n
  PROVE  \E i \in DOMAIN xs : \A env, vs :
            Lookup(Bind(env, xs, vs), n) = vs[i] /\ n \in DOMAIN Bind(env, xs, vs) /\ Bind(env, xs, vs)[n] = vs[i]
<1> DEFINE c == CHOOSE i \in DOMAIN xs : xs[i] = n
<1>1. c \in DOMAIN xs
  OBVIOUS
<1>2. \A env, vs : n \in DOMAIN Bind(env, xs, vs) /\ Bind(env, xs, vs)[n] = vs[c]
  BY DEF Bind
<1>3. QED
  BY <1>1, <1>2 DEF Lookup

LEMMA UnboundLookup ==
  ASSUME NEW xs, NEW n, ~\E i \in DOMAIN xs : xs[i] = n
  PROVE  \A env, vs : /\ Lookup(Bind(env, xs, vs), n) = Lookup(env, n)
                      /\ n \in DOMAIN Bind(env, xs, vs) <=> n \in DOMAIN env
                      /\ n \in DOMAIN env => Bind(env, xs, vs)[n] = env[n]
BY DEF Bind, Lookup

(* Both bind names, to values that are the same where the sources are      *)
(* clean.                                                                  *)
LEMMA BindAgrees ==
  ASSUME NEW Z, NEW deps, NEW env, NEW other, NEW except, Agrees(Z, deps, env, other, except),
         NEW xs, NEW sources, NEW vs, NEW ws,
         \A i \in DOMAIN xs : Clean(Z, sources[i]) => vs[i] = ws[i]
  PROVE  Agrees(Z, Bind(deps, xs, sources), Bind(env, xs, vs), Bind(other, xs, ws), except)
<1> DEFINE D == Bind(deps, xs, sources)
<1>1. ASSUME NEW n, n \notin except, n \in DOMAIN D => Clean(Z, D[n])
      PROVE  Lookup(Bind(env, xs, vs), n) = Lookup(Bind(other, xs, ws), n)
  <2>1. CASE \E i \in DOMAIN xs : xs[i] = n
    <3>1. PICK i \in DOMAIN xs : \A e, us :
            Lookup(Bind(e, xs, us), n) = us[i] /\ n \in DOMAIN Bind(e, xs, us) /\ Bind(e, xs, us)[n] = us[i]
      BY <2>1, BoundLookup
    <3>2. Clean(Z, sources[i])
      BY <1>1, <3>1
    <3>3. QED
      BY <3>1, <3>2
  <2>2. CASE ~\E i \in DOMAIN xs : xs[i] = n
    <3>1. \A e, us : /\ Lookup(Bind(e, xs, us), n) = Lookup(e, n)
                     /\ n \in DOMAIN Bind(e, xs, us) <=> n \in DOMAIN e
                     /\ n \in DOMAIN e => Bind(e, xs, us)[n] = e[n]
      BY <2>2, UnboundLookup
    <3>2. n \in DOMAIN deps => Clean(Z, deps[n])
      BY <1>1, <3>1
    <3>3. QED
      BY <1>1, <3>1, <3>2 DEF Agrees
  <2>3. QED
    BY <2>1, <2>2
<1> HIDE DEF D
<1>2. QED
  BY <1>1 DEF Agrees, D

(* One binds names to values of tainted sources, the other does not, or    *)
(* they differ there already.                                              *)
LEMMA BindTainted ==
  ASSUME NEW Z, NEW deps, NEW env, NEW other, NEW except, Agrees(Z, deps, env, other, except),
         NEW xs, NEW sources, NEW vs, except \subseteq Named(xs),
         \A i \in DOMAIN xs : ~Clean(Z, sources[i])
  PROVE  Agrees(Z, Bind(deps, xs, sources), Bind(env, xs, vs), other, {})
<1> DEFINE D == Bind(deps, xs, sources)
<1>1. ASSUME NEW n, n \in DOMAIN D => Clean(Z, D[n])
      PROVE  Lookup(Bind(env, xs, vs), n) = Lookup(other, n)
  <2>1. CASE \E i \in DOMAIN xs : xs[i] = n
    BY <1>1, <2>1, BoundLookup
  <2>2. CASE ~\E i \in DOMAIN xs : xs[i] = n
    <3>1. \A e, us : /\ Lookup(Bind(e, xs, us), n) = Lookup(e, n)
                     /\ n \in DOMAIN Bind(e, xs, us) <=> n \in DOMAIN e
                     /\ n \in DOMAIN e => Bind(e, xs, us)[n] = e[n]
      BY <2>2, UnboundLookup
    <3>2. n \notin except
      BY <2>2 DEF Named
    <3>3. n \in DOMAIN deps => Clean(Z, deps[n])
      BY <1>1, <3>1
    <3>4. QED
      BY <3>1, <3>2, <3>3 DEF Agrees
  <2>3. QED
    BY <2>1, <2>2
<1> HIDE DEF D
<1>2. QED
  BY <1>1 DEF Agrees, D

(* The other binds names, and they agree on the rest.                      *)
LEMMA OtherBinds ==
  ASSUME NEW Z, NEW deps, NEW env, NEW other, Agrees(Z, deps, env, other, {}), NEW xs, NEW ws
  PROVE  Agrees(Z, deps, env, Bind(other, xs, ws), Named(xs))
<1>1. ASSUME NEW n, n \notin Named(xs), n \in DOMAIN deps => Clean(Z, deps[n])
      PROVE  Lookup(env, n) = Lookup(Bind(other, xs, ws), n)
  BY <1>1, UnboundLookup DEF Agrees, Named
<1>2. QED
  BY <1>1 DEF Agrees

(* An influence spreads to names, and the other may have changed them.     *)
LEMMA InfluenceAgrees ==
  ASSUME NEW Z, NEW deps, NEW env, NEW other, Agrees(Z, deps, env, other, {}),
         NEW names, NEW influence, NEW changed,
         \A n : Clean(Z, influence) \/ n \notin names => Lookup(changed, n) = Lookup(other, n)
  PROVE  Agrees(Z, Influenced(deps, names, influence), env, changed, {})
<1> DEFINE D == Influenced(deps, names, influence)
<1>1. ASSUME NEW n, n \in DOMAIN D => Clean(Z, D[n])
      PROVE  Lookup(env, n) = Lookup(changed, n)
  <2>1. CASE n \notin names
    BY <1>1, <2>1 DEF Influenced, Agrees
  <2>2. CASE n \in names /\ n \in DOMAIN deps
    <3>1. Clean(Z, Merge({deps[n], influence}))
      BY <1>1, <2>2 DEF Influenced
    <3>2. Clean(Z, deps[n]) /\ Clean(Z, influence)
      BY <3>1, MergeClean
    <3>3. QED
      BY <3>2 DEF Agrees
  <2>3. CASE n \in names /\ n \notin DOMAIN deps
    BY <1>1, <2>3 DEF Influenced, Agrees
  <2>4. QED
    BY <2>1, <2>2, <2>3
<1> HIDE DEF D
<1>2. QED
  BY <1>1 DEF Agrees, D

LEMMA AgreesOff ==
  ASSUME NEW Z, NEW deps, NEW env, NEW other, Agrees(Z, deps, env, other, {}), NEW except
  PROVE  Agrees(Z, deps, env, other, except)
BY DEF Agrees

-----------------------------------------------------------------------------
(* The frames of a trace after a step, at a point, without its errors.     *)
Moves(F, H, key, point) ==
  LET frame == Here(F)
      s == Due(frame)
  IN  /\ frame.todo # <<>>
      /\ \/ s.k = "read" /\ H = AfterRead(F, point)
         \/ s.k = "let" /\ H = AfterAssign(F, key, point)
         \/ s.k = "when" /\ H = AfterBranch(F, key, point)
         \/ /\ s.k = "ask" /\ H = AfterEnter(F, key, point)
            /\ DOMAIN s.args = DOMAIN Helper(s.fn).args
         \/ /\ s.k = "give" /\ H = AfterReturn(F, key, point)
            /\ Len(F) > 1 /\ DOMAIN s.es = DOMAIN frame.dest

LEMMA ReplacedFrame ==
  ASSUME NEW F, \E S : F \in Seq(S), F # <<>>, NEW frame, NEW H, H = Replaced(F, frame)
  PROVE  /\ \E S : H \in Seq(S)
         /\ Len(F) \in Nat \ {0} /\ DOMAIN F = 1 .. Len(F)
         /\ H # <<>> /\ Len(H) = Len(F) /\ DOMAIN H = 1 .. Len(F)
         /\ H[Len(F)] = frame
         /\ \A i \in 1 .. Len(F) - 1 : H[i] = F[i]
<1>1. PICK S : F \in Seq(S)
  OBVIOUS
<1>2. F \in Seq(S \union {frame}) /\ Len(F) \in Nat \ {0}
  BY <1>1
<1>3. /\ Replaced(F, frame) \in Seq(S \union {frame})
      /\ Len(Replaced(F, frame)) = Len(F)
      /\ \A i \in 1 .. Len(F) : Replaced(F, frame)[i] = IF i = Len(F) THEN frame ELSE F[i]
  BY <1>2, ExceptSeq DEF Replaced
<1>4. QED
  BY <1>2, <1>3

LEMMA AddedFrame ==
  ASSUME NEW F, \E S : F \in Seq(S), F # <<>>, NEW frame, NEW H, H = Append(F, frame)
  PROVE  /\ \E S : H \in Seq(S)
         /\ Len(F) \in Nat \ {0} /\ DOMAIN F = 1 .. Len(F)
         /\ H # <<>> /\ Len(H) = Len(F) + 1 /\ DOMAIN H = 1 .. Len(F) + 1
         /\ H[Len(F) + 1] = frame
         /\ \A i \in 1 .. Len(F) : H[i] = F[i]
<1>1. PICK S : F \in Seq(S)
  OBVIOUS
<1>2. F \in Seq(S \union {frame}) /\ Len(F) \in Nat \ {0}
  BY <1>1
<1>3. QED
  BY <1>2

Popped(F, H, frame) ==
  /\ \E S : H \in Seq(S)
  /\ Len(F) \in Nat \ {0, 1} /\ DOMAIN F = 1 .. Len(F)
  /\ H # <<>> /\ Len(H) = Len(F) - 1 /\ DOMAIN H = 1 .. Len(F) - 1
  /\ H[Len(F) - 1] = frame
  /\ \A i \in 1 .. Len(F) - 2 : H[i] = F[i]

LEMMA PoppedFrame ==
  ASSUME NEW F, \E S : F \in Seq(S), Len(F) > 1, NEW frame,
         NEW H, H = Append(SubSeq(F, 1, Len(F) - 2), frame)
  PROVE  Popped(F, H, frame)
<1>1. PICK S : F \in Seq(S)
  OBVIOUS
<1>2. F \in Seq(S \union {frame}) /\ Len(F) \in Nat \ {0, 1} /\ DOMAIN F = 1 .. Len(F)
  <2>1. Len(F) \in Nat /\ DOMAIN F = 1 .. Len(F)
    BY <1>1, LenProperties
  <2>2. F \in Seq(S \union {frame})
    BY <1>1, SeqMonotonic
  <2>3. QED
    BY <2>1, <2>2
<1> DEFINE n == Len(F) - 2
<1>3. PICK G : G = SubSeq(F, 1, n)
  OBVIOUS
<1>n. n \in Nat /\ n \in Int /\ 1 \in Int /\ n + 2 = Len(F) /\ n + 1 = Len(F) - 1
  BY <1>2
<1> HIDE DEF n
<1>4. /\ G \in Seq(S \union {frame}) /\ Len(G) = n
      /\ \A i \in 1 .. n : G[i] = F[i]
  <2>1. \A i \in 1 .. n : F[i] \in S \union {frame}
    BY <1>2, <1>n
  <2>2. /\ G \in Seq(S \union {frame})
        /\ Len(G) = IF 1 <= n THEN n - 1 + 1 ELSE 0
        /\ \A i \in 1 .. n - 1 + 1 : G[i] = F[1 + i - 1]
    BY <1>n, <1>3, <2>1, SubSeqProperties
  <2>3. QED
    BY <1>n, <2>2
<1>5. /\ Append(G, frame) \in Seq(S \union {frame}) /\ Len(Append(G, frame)) = n + 1
      /\ Append(G, frame)[n + 1] = frame
      /\ \A i \in 1 .. n : Append(G, frame)[i] = F[i]
  BY <1>n, <1>4
<1>6. Append(G, frame) # <<>> /\ DOMAIN Append(G, frame) = 1 .. Len(F) - 1
  <2>1. DOMAIN Append(G, frame) = 1 .. Len(F) - 1
    BY <1>5, <1>n, LenProperties
  <2>2. Len(<<>>) = 0 /\ Len(F) - 1 # 0
    BY <1>2
  <2>3. QED
    BY <1>5, <1>n, <2>1, <2>2
<1>7. H = Append(G, frame)
  BY <1>3 DEF n
<1>8. /\ \E T : H \in Seq(T)
      /\ H # <<>> /\ Len(H) = Len(F) - 1 /\ DOMAIN H = 1 .. Len(F) - 1
      /\ H[Len(F) - 1] = frame
  <2>1. Append(G, frame) \in Seq(S \union {frame})
    BY <1>5
  <2>2. /\ Append(G, frame) # <<>> /\ Len(Append(G, frame)) = Len(F) - 1
        /\ DOMAIN Append(G, frame) = 1 .. Len(F) - 1 /\ Append(G, frame)[Len(F) - 1] = frame
    BY <1>5, <1>6, <1>n
  <2>3. QED
    BY <1>7, <2>1, <2>2, Zenon
<1>9. \A i \in 1 .. Len(F) - 2 : H[i] = F[i]
  <2>1. 1 .. Len(F) - 2 = 1 .. n
    BY DEF n
  <2>2. QED
    BY <1>5, <1>7, <2>1, Zenon
<1>10. QED
  BY <1>2, <1>8, <1>9, Zenon DEF Popped

(* What each step makes of the frame it is in.                             *)
LEMMA HereShape ==
  ASSUME NEW F, FramesShape(F)
  PROVE  /\ Len(F) \in DOMAIN F /\ FrameShape(Here(F))
         /\ Here(F).todo # <<>> => Due(Here(F)) = Here(F).todo[1].s /\ Due(Here(F)) \in Statements
                                   /\ Len(Here(F).todo) \in Nat \ {0}
                                   /\ Head(Here(F).todo) = Here(F).todo[1]
<1>1. Len(F) \in Nat \ {0} /\ DOMAIN F = 1 .. Len(F)
  BY ReplacedFrame DEF FramesShape
<1>2. FrameShape(Here(F))
  BY <1>1 DEF FramesShape, Here
<1>3. PICK S : Here(F).todo \in Seq(S) /\ \A x \in S : x.s \in Statements
  BY <1>2 DEF FrameShape, Todo
<1>4. ASSUME Here(F).todo # <<>>
      PROVE  /\ Due(Here(F)) = Here(F).todo[1].s /\ Due(Here(F)) \in Statements
             /\ Len(Here(F).todo) \in Nat \ {0}
             /\ Head(Here(F).todo) = Here(F).todo[1]
  <2>1. Head(Here(F).todo) = Here(F).todo[1] /\ Here(F).todo[1] \in S /\ Len(Here(F).todo) \in Nat \ {0}
    BY <1>3, <1>4
  <2>2. QED
    BY <1>3, <2>1 DEF Due
<1>5. QED
  BY <1>1, <1>2, <1>4

MadeFrame(env, deps, todo, gates, inherited, dest) ==
  [env |-> env, deps |-> deps, todo |-> todo, gates |-> gates, inherited |-> inherited, dest |-> dest]

LEMMA MadeFrameParts ==
  ASSUME NEW env, NEW deps, NEW todo, NEW gates, NEW inherited, NEW dest
  PROVE  LET f == MadeFrame(env, deps, todo, gates, inherited, dest)
         IN  /\ f.env = env /\ f.deps = deps /\ f.todo = todo /\ f.gates = gates
             /\ f.inherited = inherited /\ f.dest = dest
             /\ Todo(todo) => FrameShape(f)
BY DEF MadeFrame, FrameShape

LEMMA BoundShape ==
  ASSUME NEW f, FrameShape(f), f.todo # <<>>, NEW names, NEW vs, NEW sources
  PROVE  LET g == Bound(f, names, vs, sources)
         IN  /\ FrameShape(g) /\ g.todo = Tail(f.todo)
             /\ g.env = Bind(f.env, names, vs) /\ g.deps = Bind(f.deps, names, sources)
             /\ g.gates = f.gates /\ g.inherited = f.inherited /\ g.dest = f.dest
<1> DEFINE env == Bind(f.env, names, vs)
           deps == Bind(f.deps, names, sources)
           todo == Tail(f.todo)
<1>0. f = MadeFrame(f.env, f.deps, f.todo, f.gates, f.inherited, f.dest)
  BY DEF FrameShape, MadeFrame
<1>1. Todo(todo)
  BY DoneAhead DEF FrameShape
<1>2. Bound(f, names, vs, sources) = [f EXCEPT !.env = env, !.deps = deps, !.todo = todo]
  BY DEF Bound
<1> HIDE DEF env, deps, todo
<1> DEFINE f1 == [f EXCEPT !.env = env]
           f2 == [f1 EXCEPT !.deps = deps]
           f3 == [f2 EXCEPT !.todo = todo]
<1>3. f3 = MadeFrame(env, deps, todo, f.gates, f.inherited, f.dest)
  <2>1. f1 = MadeFrame(env, f.deps, f.todo, f.gates, f.inherited, f.dest)
    BY <1>0 DEF MadeFrame
  <2> HIDE DEF f1
  <2>2. f2 = MadeFrame(env, deps, f.todo, f.gates, f.inherited, f.dest)
    BY <2>1 DEF MadeFrame
  <2> HIDE DEF f2
  <2>3. QED
    BY <2>2 DEF MadeFrame
<1>4. Bound(f, names, vs, sources) = MadeFrame(env, deps, todo, f.gates, f.inherited, f.dest)
  <2>1. [f EXCEPT !.env = env, !.deps = deps, !.todo = todo] = f3
    BY Zenon DEF f1, f2, f3
  <2> HIDE DEF f3
  <2>2. QED
    BY <1>2, <1>3, <2>1, Zenon
<1>5. QED
  BY <1>1, <1>4, MadeFrameParts DEF env, deps, todo

(* The frame after a branch, of which an arm is still to run.              *)
Branched(f, key, point) ==
  LET s == Due(f)
      influence == Influence(f, key, point)
      arms == s.a \o s.b
      arm == IF Val(s.t, f.env, point, key.set) # 0 THEN s.a ELSE s.b
  IN  MadeFrame(f.env, Influenced(f.deps, Targets(arms), influence),
                Tagged(arm, influence) \o Tail(f.todo),
                IF MayLeave(arms) THEN Merge({f.gates, influence}) ELSE f.gates,
                f.inherited, f.dest)

LEMMA BranchedShape ==
  ASSUME NEW F, FramesShape(F), Here(F).todo # <<>>, Due(Here(F)).k = "when", NEW key, NEW point
  PROVE  /\ AfterBranch(F, key, point) = Replaced(F, Branched(Here(F), key, point))
         /\ FrameShape(Branched(Here(F), key, point))
         /\ Due(Here(F)).a \in Seq(Statements) /\ Due(Here(F)).b \in Seq(Statements)
<1> DEFINE f == Here(F)
           s == Due(f)
           influence == Influence(f, key, point)
           arms == s.a \o s.b
           arm == IF Val(s.t, f.env, point, key.set) # 0 THEN s.a ELSE s.b
           deps == Influenced(f.deps, Targets(arms), influence)
           todo == Tagged(arm, influence) \o Tail(f.todo)
           gates == IF MayLeave(arms) THEN Merge({f.gates, influence}) ELSE f.gates
<1>1. FrameShape(f) /\ s \in Statements /\ f = MadeFrame(f.env, f.deps, f.todo, f.gates, f.inherited, f.dest)
  BY HereShape DEF FrameShape, MadeFrame
<1>2. s.a \in Seq(Statements) /\ s.b \in Seq(Statements)
  BY <1>1, SyntaxAssumption
<1>3. Todo(todo)
  <2>1. Todo(f.todo) /\ f.todo # <<>> /\ arm \in Seq(Statements)
    BY <1>1, <1>2 DEF FrameShape
  <2>2. Armed(todo, f.todo, arm, influence)
    BY <2>1, ArmAhead
  <2>3. QED
    BY <2>2 DEF Armed
<1>4. AfterBranch(F, key, point) = Replaced(F, [f EXCEPT !.deps = deps, !.gates = gates, !.todo = todo])
  BY DEF AfterBranch
<1>5. Branched(f, key, point) = MadeFrame(f.env, deps, todo, gates, f.inherited, f.dest)
  BY DEF Branched
<1> HIDE DEF f, deps, todo, gates
<1>6. [f EXCEPT !.deps = deps, !.gates = gates, !.todo = todo] = Branched(f, key, point)
  <2> DEFINE f1 == [f EXCEPT !.deps = deps]
             f2 == [f1 EXCEPT !.gates = gates]
             f3 == [f2 EXCEPT !.todo = todo]
  <2>1. f1 = MadeFrame(f.env, deps, f.todo, f.gates, f.inherited, f.dest)
    BY <1>1 DEF MadeFrame
  <2>2. [f EXCEPT !.deps = deps, !.gates = gates, !.todo = todo] = f3
    BY Zenon DEF f1, f2, f3
  <2> HIDE DEF f1
  <2>3. f2 = MadeFrame(f.env, deps, f.todo, gates, f.inherited, f.dest)
    BY <2>1 DEF MadeFrame
  <2> HIDE DEF f2
  <2>4. f3 = MadeFrame(f.env, deps, todo, gates, f.inherited, f.dest)
    BY <2>3 DEF MadeFrame
  <2> HIDE DEF f3
  <2>5. QED
    BY <1>5, <2>2, <2>4, Zenon
<1>7. FrameShape(Branched(f, key, point))
  BY <1>3, <1>5, MadeFrameParts
<1>8. QED
  BY <1>2, <1>4, <1>6, <1>7 DEF f

(* The frame of a call.                                                    *)
Entered(f, key, point) ==
  LET s == Due(f)
      h == Helper(s.fn)
      looks == Looks(s.args, f, key, point)
  IN  MadeFrame(Bind(NoLocals, h.args, Evaluated(s.args, f.env, point, key.set)),
                Bind(NoLocals, h.args, [i \in DOMAIN looks |-> looks[i].from]),
                Tagged(h.body, {}), {}, Controls(f), s.xs)

LEMMA TaggedTodo ==
  ASSUME NEW body \in Seq(Statements), NEW under
  PROVE  /\ Todo(Tagged(body, under)) /\ Len(Tagged(body, under)) = Len(body)
         /\ Ahead(Tagged(body, under), 0) = body
<1> DEFINE R == {[s |-> s, under |-> under] : s \in Statements}
           tags == Tagged(body, under)
<1>1. tags \in [1 .. Len(body) -> R] /\ Len(body) \in Nat
  BY DEF Tagged
<1>2. tags \in Seq(R) /\ Len(tags) = Len(body)
  BY <1>1
<1>3. \A x \in R : x.s \in Statements
  OBVIOUS
<1>4. \A j \in 1 .. Len(body) : tags[j].s = body[j]
  BY DEF Tagged
<1> HIDE DEF R, tags
<1>5. Todo(tags)
  BY <1>2, <1>3 DEF Todo
<1>6. Ahead(tags, 0) \in Seq(Statements) /\ Len(Ahead(tags, 0)) = Len(body)
  <2>1. Ahead(tags, 0) \in Seq(Statements)
    BY <1>1, <1>2, <1>5, AheadParts
  <2>2. DOMAIN Ahead(tags, 0) = 1 .. Len(body)
    BY <1>1, <1>2 DEF Ahead
  <2>3. QED
    BY <1>1, <2>1, <2>2
<1>7. \A j \in 1 .. Len(body) : Ahead(tags, 0)[j] = body[j]
  BY <1>1, <1>2, <1>4 DEF Ahead
<1>8. Ahead(tags, 0) = body
  BY <1>6, <1>7, SeqEqual
<1>9. QED
  BY <1>2, <1>5, <1>8 DEF tags

LEMMA EnteredShape ==
  ASSUME NEW F, FramesShape(F), Here(F).todo # <<>>, Due(Here(F)).k = "ask", NEW key, NEW point
  PROVE  /\ AfterEnter(F, key, point) = Append(F, Entered(Here(F), key, point))
         /\ FrameShape(Entered(Here(F), key, point))
         /\ Helper(Due(Here(F)).fn).body \in Seq(Statements)
<1> DEFINE f == Here(F)
           s == Due(f)
           h == Helper(s.fn)
           looks == Looks(s.args, f, key, point)
           env == Bind(NoLocals, h.args, Evaluated(s.args, f.env, point, key.set))
           deps == Bind(NoLocals, h.args, [i \in DOMAIN looks |-> looks[i].from])
<1>1. h.body \in Seq(Statements)
  BY HereShape, SyntaxAssumption
<1>2. Todo(Tagged(h.body, {}))
  BY <1>1, TaggedTodo
<1>3. Entered(f, key, point) = MadeFrame(env, deps, Tagged(h.body, {}), {}, Controls(f), s.xs)
  BY DEF Entered
<1>4. AfterEnter(F, key, point) = Append(F, MadeFrame(env, deps, Tagged(h.body, {}), {}, Controls(f), s.xs))
  BY DEF AfterEnter, NewFrame, MadeFrame
<1> HIDE DEF env, deps, h, f, s
<1>5. FrameShape(Entered(f, key, point))
  BY <1>2, <1>3, MadeFrameParts
<1>6. QED
  BY <1>1, <1>3, <1>4, <1>5 DEF f, h, s

LEMMA ReplacedShape ==
  ASSUME NEW F, FramesShape(F), NEW g, FrameShape(g)
  PROVE  FramesShape(Replaced(F, g))
BY ReplacedFrame DEF FramesShape

LEMMA CallerShape ==
  ASSUME NEW F, FramesShape(F), Len(F) > 1
  PROVE  FrameShape(F[Len(F) - 1]) /\ F[Len(F) - 1].todo # <<>>
<1>1. Len(F) - 1 \in DOMAIN F /\ Len(F) - 1 < Len(F)
  BY ReplacedFrame DEF FramesShape
<1>2. QED
  BY <1>1 DEF FramesShape

(* A step keeps the shape.                                                 *)
LEMMA MovesShape ==
  ASSUME NEW F, NEW H, NEW key, NEW point, FramesShape(F), Moves(F, H, key, point)
  PROVE  FramesShape(H)
<1>1. Here(F).todo # <<>> /\ FrameShape(Here(F))
  BY HereShape DEF Moves
<1>2. CASE Due(Here(F)).k = "read" /\ H = AfterRead(F, point)
  BY <1>1, <1>2, BoundShape, ReplacedShape DEF AfterRead
<1>3. CASE Due(Here(F)).k = "let" /\ H = AfterAssign(F, key, point)
  BY <1>1, <1>3, BoundShape, ReplacedShape DEF AfterAssign
<1>4. CASE Due(Here(F)).k = "when" /\ H = AfterBranch(F, key, point)
  BY <1>1, <1>4, BranchedShape, ReplacedShape
<1>5. CASE Due(Here(F)).k = "ask" /\ H = AfterEnter(F, key, point)
  <2>1. PICK g : H = Append(F, g) /\ FrameShape(g)
    BY <1>1, <1>5, EnteredShape
  <2>2. F[Len(F)].todo # <<>>
    BY <1>1 DEF Here
  <2>3. /\ Len(F) \in Nat \ {0} /\ DOMAIN F = 1 .. Len(F) /\ H # <<>> /\ Len(H) = Len(F) + 1
        /\ DOMAIN H = 1 .. Len(F) + 1 /\ H[Len(F) + 1] = g /\ \A i \in 1 .. Len(F) : H[i] = F[i]
        /\ \E S : H \in Seq(S)
    <3>1. (\E S : F \in Seq(S)) /\ F # <<>>
      BY DEF FramesShape
    <3>2. QED
      BY <2>1, <3>1, AddedFrame
  <2>4. \A i \in DOMAIN H : FrameShape(H[i]) /\ (i < Len(H) => H[i].todo # <<>>)
    BY <2>1, <2>2, <2>3 DEF FramesShape
  <2>5. QED
    BY <2>3, <2>4 DEF FramesShape
<1>6. CASE Due(Here(F)).k = "give" /\ H = AfterReturn(F, key, point) /\ Len(F) > 1
  <2>0. Len(F) > 1 /\ \E S : F \in Seq(S)
    BY <1>6 DEF FramesShape
  <2>1. PICK g : H = Append(SubSeq(F, 1, Len(F) - 2), g) /\ FrameShape(g)
    BY <1>6, CallerShape, BoundShape DEF AfterReturn
  <2>2. Popped(F, H, g)
    BY <2>0, <2>1, PoppedFrame
  <2>5. /\ Len(F) \in Nat \ {0, 1} /\ DOMAIN F = 1 .. Len(F)
        /\ \E S : H \in Seq(S)
        /\ H # <<>> /\ Len(H) = Len(F) - 1 /\ DOMAIN H = 1 .. Len(F) - 1
        /\ H[Len(F) - 1] = g
        /\ \A i \in 1 .. Len(F) - 2 : H[i] = F[i]
    BY <2>2 DEF Popped
  <2>6. FrameShape(g)
    BY <2>1
  <2>3. ASSUME NEW i \in DOMAIN H PROVE FrameShape(H[i]) /\ (i < Len(H) => H[i].todo # <<>>)
    <3>1. CASE i = Len(F) - 1
      <4>1. ~(i < Len(H))
        BY <2>5, <3>1
      <4>2. FrameShape(H[i])
        BY <2>5, <2>6, <3>1
      <4>3. QED
        BY <4>1, <4>2
    <3>2. CASE i # Len(F) - 1
      <4>1. i \in 1 .. Len(F) - 2 /\ i \in DOMAIN F /\ i < Len(F)
        BY <2>5, <3>2
      <4>2. H[i] = F[i]
        BY <2>5, <4>1
      <4>3. QED
        BY <4>1, <4>2 DEF FramesShape
    <3>3. QED
      BY <3>1, <3>2
  <2>4. QED
    BY <2>5, <2>3 DEF FramesShape
<1>7. QED
  BY <1>2, <1>3, <1>4, <1>5, <1>6 DEF Moves

-----------------------------------------------------------------------------
(* Another execution of the method, w, at a point and a setting that       *)
(* differ from the trace's in the sources in Z only, beside the frames of  *)
(* the trace.  In each frame in which both are, their locals agree where   *)
(* the sources are clean.  The other may have skipped what is controlled   *)
(* by sources that are not clean, or have left a frame by such a gate.     *)
Lost(Z, f) == ~Clean(Z, f.inherited) \/ ~Clean(Z, f.gates)

(* In a caller's frame it awaits the result of the call, below, and ends   *)
(* the frame with r.                                                       *)
Waits(Z, w, f, dest, e, r, below) ==
  /\ Agrees(Z, f.deps, f.env, e, {})
  /\ r = Resumed(Ahead(f.todo, 1), e, dest, below, w.point, w.set)
Chain(F, Z, w, d, E, R) ==
  /\ R[1] = w.outcome
  /\ \A i \in 1 .. d : R[i].how # "raise"
  /\ \A i \in 1 .. d - 1 : Waits(Z, w, F[i], F[i + 1].dest, E[i], R[i], R[i + 1])
(* It is in frame d, which it ends with r.                                 *)
Linked(F, Z, w, d, r) == \E E, R : Chain(F, Z, w, d, E, R) /\ R[d] = r

(* In the frame under way it has skipped k statements.                     *)
Abreast(Z, w, f, k, e, r) ==
  /\ k \in 0 .. Len(f.todo)
  /\ r = Exec(Ahead(f.todo, k), e, w.point, w.set)
  /\ \A j \in 1 .. k : ~Clean(Z, f.todo[j].under)
  /\ Agrees(Z, f.deps, f.env, e, {})
(* It is past a call that the trace is still in.                           *)
Past(Z, w, f, dest, k, e, r) ==
  /\ k \in 1 .. Len(f.todo)
  /\ r = Exec(Ahead(f.todo, k), e, w.point, w.set)
  /\ \A j \in 2 .. k : ~Clean(Z, f.todo[j].under)
  /\ Agrees(Z, f.deps, f.env, e, Named(dest))

Beside(F, Z, w) ==
  \E k, e, r : Linked(F, Z, w, Len(F), r) /\ Abreast(Z, w, Here(F), k, e, r)
Beyond(F, Z, w, d) ==
  /\ \A i \in d + 1 .. Len(F) : Lost(Z, F[i])
  /\ d = 0 \/ \E k, e, r : Linked(F, Z, w, d, r) /\ Past(Z, w, F[d], F[d + 1].dest, k, e, r)
Shadow(F, Z, w) == Beside(F, Z, w) \/ \E d \in 0 .. Len(F) - 1 : Beyond(F, Z, w, d)

LEMMA LinkedKept ==
  ASSUME NEW F, NEW H, NEW Z, NEW w, NEW d \in Nat \ {0}, NEW r, Linked(F, Z, w, d, r),
         \A i \in 1 .. d - 1 : H[i] = F[i], H[d].dest = F[d].dest
  PROVE  Linked(H, Z, w, d, r)
<1>1. PICK E, R : Chain(F, Z, w, d, E, R) /\ R[d] = r
  BY DEF Linked
<1>2. ASSUME NEW i \in 1 .. d - 1 PROVE H[i + 1].dest = F[i + 1].dest
  <2>1. i + 1 = d \/ i + 1 \in 1 .. d - 1
    OBVIOUS
  <2>2. QED
    BY <2>1
<1>3. Chain(H, Z, w, d, E, R)
  BY <1>1, <1>2 DEF Chain
<1>4. QED
  BY <1>1, <1>3 DEF Linked

LEMMA LinkedEnds ==
  ASSUME NEW F, NEW Z, NEW w, NEW d \in Nat \ {0}, NEW r, Linked(F, Z, w, d, r)
  PROVE  r.how # "raise" /\ (d = 1 => r = w.outcome)
<1>1. PICK E, R : Chain(F, Z, w, d, E, R) /\ R[d] = r
  BY DEF Linked
<1>2. d \in 1 .. d
  OBVIOUS
<1>3. QED
  BY <1>1, <1>2 DEF Chain

LEMMA LinkedTop ==
  ASSUME NEW F, NEW Z, NEW w, w.outcome.how # "raise"
  PROVE  Linked(F, Z, w, 1, w.outcome)
<1> DEFINE R == [i \in {1} |-> w.outcome]
<1>1. Chain(F, Z, w, 1, R, R) /\ R[1] = w.outcome
  BY DEF Chain
<1>2. QED
  BY <1>1 DEF Linked

LEMMA LinkedDown ==
  ASSUME NEW F, NEW Z, NEW w, NEW d \in Nat \ {0}, NEW r, Linked(F, Z, w, d, r),
         NEW e, NEW below, Waits(Z, w, F[d], F[d + 1].dest, e, r, below)
  PROVE  Linked(F, Z, w, d + 1, below)
<1>1. PICK E, R : Chain(F, Z, w, d, E, R) /\ R[d] = r
  BY DEF Linked
<1>2. r.how # "raise"
  BY LinkedEnds
<1>3. below.how = "give"
  BY <1>2 DEF Waits, Resumed, Raised
<1> DEFINE E2 == [i \in 1 .. d |-> IF i = d THEN e ELSE E[i]]
           R2 == [i \in 1 .. d + 1 |-> IF i = d + 1 THEN below ELSE R[i]]
<1>4. /\ R2[d + 1] = below /\ R2[d] = r /\ E2[d] = e
      /\ \A i \in 1 .. d : R2[i] = R[i]
      /\ \A i \in 1 .. d - 1 : E2[i] = E[i]
  BY <1>1
<1> HIDE DEF E2, R2
<1>5. R2[1] = w.outcome
  BY <1>1, <1>4 DEF Chain
<1>6. ASSUME NEW i \in 1 .. d + 1 PROVE R2[i].how # "raise"
  <2>1. i = d + 1 \/ i \in 1 .. d
    OBVIOUS
  <2>2. QED
    BY <1>1, <1>3, <1>4, <2>1 DEF Chain
<1>7. ASSUME NEW i \in 1 .. d PROVE Waits(Z, w, F[i], F[i + 1].dest, E2[i], R2[i], R2[i + 1])
  <2>1. CASE i = d
    BY <1>4, <2>1
  <2>2. CASE i # d
    <3>1. i \in 1 .. d - 1 /\ i + 1 \in 1 .. d
      BY <2>2
    <3>2. QED
      BY <1>1, <1>4, <3>1 DEF Chain
  <2>3. QED
    BY <2>1, <2>2
<1>8. Chain(F, Z, w, d + 1, E2, R2)
  <2>1. 1 .. d + 1 - 1 = 1 .. d
    OBVIOUS
  <2>2. QED
    BY <1>5, <1>6, <1>7, <2>1 DEF Chain
<1>9. QED
  BY <1>4, <1>8 DEF Linked

LEMMA LinkedUp ==
  ASSUME NEW F, NEW Z, NEW w, NEW d \in Nat \ {0}, NEW r, Linked(F, Z, w, d + 1, r)
  PROVE  \E e, up : Linked(F, Z, w, d, up) /\ Waits(Z, w, F[d], F[d + 1].dest, e, up, r)
<1>1. PICK E, R : Chain(F, Z, w, d + 1, E, R) /\ R[d + 1] = r
  BY DEF Linked
<1>2. d \in 1 .. d + 1 - 1 /\ \A i \in 1 .. d : i \in 1 .. d + 1 /\ \A i1 \in 1 .. d - 1 : i1 \in 1 .. d + 1 - 1
  OBVIOUS
<1>3. Waits(Z, w, F[d], F[d + 1].dest, E[d], R[d], r)
  BY <1>1, <1>2 DEF Chain
<1>4. Chain(F, Z, w, d, E, R)
  BY <1>1, <1>2 DEF Chain
<1>5. QED
  BY <1>3, <1>4 DEF Linked

(* Where the other is not in step with the frame under way, the controls   *)
(* of the statement there are not clean.                                   *)
LEMMA OffTaints ==
  ASSUME NEW F, FramesShape(F), Here(F).todo # <<>>, NEW Z,
         Lost(Z, Here(F)) \/ ~Clean(Z, Here(F).todo[1].under)
  PROVE  ~Clean(Z, Controls(Here(F)))
<1> DEFINE f == Here(F)
<1>1. Controls(f) = Merge({f.inherited, f.gates, f.todo[1].under})
  BY HereShape DEF Controls
<1> HIDE DEF f
<1>2. Clean(Z, Controls(f)) => Clean(Z, f.inherited) /\ Clean(Z, f.gates) /\ Clean(Z, f.todo[1].under)
  BY <1>1, MergeClean
<1>3. QED
  BY <1>2 DEF Lost, f

(* A frame that the other leaves by a gate.                                *)
LEMMA LeftBehind ==
  ASSUME NEW H, FramesShape(H), NEW Z, NEW w, NEW r, Lost(Z, Here(H)), Linked(H, Z, w, Len(H), r)
  PROVE  Shadow(H, Z, w)
<1> DEFINE n == Len(H)
<1>1. n \in Nat \ {0} /\ DOMAIN H = 1 .. n
  BY ReplacedFrame DEF FramesShape
<1>2. \A i \in n .. n : Lost(Z, H[i])
  BY <1>1 DEF Here
<1>3. CASE n = 1
  <2>1. Beyond(H, Z, w, 0) /\ 0 \in 0 .. n - 1
    BY <1>2, <1>3 DEF Beyond
  <2>2. QED
    BY <2>1 DEF Shadow
<1>4. CASE n # 1
  <2>1. PICK d \in Nat \ {0} : d + 1 = n
    <3>1. PICK d : d = n - 1
      OBVIOUS
    <3>2. d \in Nat \ {0} /\ d + 1 = n
      BY <1>1, <1>4, <3>1
    <3>3. QED
      BY <3>2
  <2>2. PICK e, up : Linked(H, Z, w, d, up) /\ Waits(Z, w, H[d], H[d + 1].dest, e, up, r)
    BY <2>1, LinkedUp
  <2> DEFINE dest == H[d + 1].dest
  <2>3. up.how # "raise"
    BY <2>2, LinkedEnds
  <2>4. up = Exec(Ahead(H[d].todo, 1), Bind(e, dest, r.out), w.point, w.set)
    BY <2>2, <2>3 DEF Waits, Resumed, Raised
  <2>5. FrameShape(H[d]) /\ H[d].todo # <<>>
    <3>1. d \in DOMAIN H /\ d < Len(H)
      BY <1>1, <2>1
    <3>2. QED
      BY <3>1 DEF FramesShape
  <2>6. 1 \in 1 .. Len(H[d].todo)
    BY <2>5, DoneAhead DEF FrameShape
  <2>7. Agrees(Z, H[d].deps, H[d].env, Bind(e, dest, r.out), Named(dest))
    BY <2>2, OtherBinds DEF Waits
  <2>8. Past(Z, w, H[d], dest, 1, Bind(e, dest, r.out), up)
    BY <2>4, <2>6, <2>7 DEF Past
  <2>9. Beyond(H, Z, w, d) /\ d \in 0 .. n - 1
    BY <1>1, <1>2, <2>1, <2>2, <2>8 DEF Beyond
  <2>10. QED
    BY <2>9 DEF Shadow
<1>5. QED
  BY <1>3, <1>4

(* The trace changes the frame under way, which the other has left.        *)
LEMMA BeyondKept ==
  ASSUME NEW F, NEW H, NEW Z, NEW w, Len(F) \in Nat \ {0}, Len(H) = Len(F),
         \A i \in 1 .. Len(F) - 1 : H[i] = F[i], H[Len(F)].dest = F[Len(F)].dest,
         Lost(Z, F[Len(F)]) => Lost(Z, H[Len(F)]),
         NEW d \in 0 .. Len(F) - 1, Beyond(F, Z, w, d)
  PROVE  Shadow(H, Z, w)
<1>1. ASSUME NEW i \in d + 1 .. Len(H) PROVE Lost(Z, H[i])
  <2>1. Lost(Z, F[i])
    BY <1>1 DEF Beyond
  <2>2. i = Len(F) \/ i \in 1 .. Len(F) - 1
    BY <1>1
  <2>3. QED
    BY <2>1, <2>2
<1>2. CASE d = 0
  BY <1>1, <1>2 DEF Beyond, Shadow
<1>3. CASE d # 0
  <2>1. PICK k, e, r : Linked(F, Z, w, d, r) /\ Past(Z, w, F[d], F[d + 1].dest, k, e, r)
    BY <1>3 DEF Beyond
  <2>2. d \in Nat \ {0} /\ d \in 1 .. Len(F) - 1 /\ \A i \in 1 .. d - 1 : i \in 1 .. Len(F) - 1
    BY <1>3
  <2>3. Linked(H, Z, w, d, r)
    BY <2>1, <2>2, LinkedKept
  <2>4. H[d] = F[d] /\ H[d + 1].dest = F[d + 1].dest
    <3>1. d + 1 = Len(F) \/ d + 1 \in 1 .. Len(F) - 1
      BY <2>2
    <3>2. QED
      BY <2>2, <3>1
  <2>5. Beyond(H, Z, w, d)
    BY <1>1, <2>1, <2>3, <2>4 DEF Beyond
  <2>6. QED
    BY <2>5 DEF Shadow
<1>4. QED
  BY <1>2, <1>3

(* The trace binds names.  In step with it, so does the other.             *)
LEMMA BoundStep ==
  ASSUME NEW F, FramesShape(F), Here(F).todo # <<>>, NEW Z, NEW w, Shadow(F, Z, w),
         NEW names, NEW vs, NEW sources,
         NEW H, H = Replaced(F, Bound(Here(F), names, vs, sources)),
         \A i \in DOMAIN names : Clean(Z, sources[i]) => Clean(Z, Controls(Here(F))),
         \A e, r : Abreast(Z, w, Here(F), 0, e, r) /\ r.how # "raise" =>
            \E ws : /\ \A i \in DOMAIN names : Clean(Z, sources[i]) => vs[i] = ws[i]
                    /\ r = Exec(Ahead(Here(F).todo, 1), Bind(e, names, ws), w.point, w.set)
  PROVE  Shadow(H, Z, w)
<1> DEFINE n == Len(F)
           f == Here(F)
           g == Bound(f, names, vs, sources)
<1>1. /\ n \in Nat \ {0} /\ Len(H) = n /\ H[n] = g /\ \A i \in 1 .. n - 1 : H[i] = F[i]
  BY ReplacedFrame DEF FramesShape
<1>2. FrameShape(f) /\ f = F[n]
  BY HereShape DEF Here
<1>3. /\ g.todo = Tail(f.todo) /\ g.env = Bind(f.env, names, vs) /\ g.deps = Bind(f.deps, names, sources)
      /\ g.gates = f.gates /\ g.inherited = f.inherited /\ g.dest = f.dest
  BY <1>2, BoundShape
<1>4. /\ Len(f.todo) \in Nat \ {0} /\ Len(g.todo) = Len(f.todo) - 1
      /\ \A j \in 1 .. Len(f.todo) - 1 : g.todo[j] = f.todo[j + 1]
      /\ \A k \in 1 .. Len(f.todo) : Ahead(g.todo, k - 1) = Ahead(f.todo, k)
  BY <1>2, <1>3, DoneAhead DEF FrameShape
<1> HIDE DEF f, g
<1>5. ASSUME Beside(F, Z, w) PROVE Beside(H, Z, w)
  <2>1. PICK k, e, r : Linked(F, Z, w, n, r) /\ Abreast(Z, w, f, k, e, r)
    BY <1>5 DEF Beside, f
  <2>2. Linked(H, Z, w, n, r) /\ r.how # "raise"
    BY <1>1, <1>2, <1>3, <2>1, LinkedKept, LinkedEnds
  <2>3. CASE k = 0
    <3>1. PICK ws : /\ \A i \in DOMAIN names : Clean(Z, sources[i]) => vs[i] = ws[i]
                    /\ r = Exec(Ahead(f.todo, 1), Bind(e, names, ws), w.point, w.set)
      BY <2>1, <2>2, <2>3 DEF f
    <3>2. Agrees(Z, f.deps, f.env, e, {})
      BY <2>1 DEF Abreast
    <3>3. Agrees(Z, g.deps, g.env, Bind(e, names, ws), {})
      BY <1>3, <3>1, <3>2, BindAgrees
    <3>4. Ahead(g.todo, 0) = Ahead(f.todo, 1)
      <4>1. 1 \in 1 .. Len(f.todo) /\ 1 - 1 = 0
        BY <1>4
      <4>2. QED
        BY <1>4, <4>1
    <3>5. Abreast(Z, w, g, 0, Bind(e, names, ws), r)
      BY <1>4, <3>1, <3>3, <3>4 DEF Abreast
    <3>6. QED
      BY <1>1, <2>2, <3>5 DEF Beside, Here
  <2>4. CASE k # 0
    <3>1. k \in 1 .. Len(f.todo) /\ k - 1 \in 0 .. Len(g.todo) /\ 1 \in 1 .. k
      BY <1>4, <2>1, <2>4 DEF Abreast
    <3>2. ~Clean(Z, Controls(f))
      BY <2>1, <3>1, OffTaints DEF f, Abreast
    <3>3. Agrees(Z, g.deps, g.env, e, {})
      BY <1>3, <2>1, <3>2, BindTainted DEF f, Abreast
    <3>4. r = Exec(Ahead(g.todo, k - 1), e, w.point, w.set)
      BY <1>4, <2>1, <3>1 DEF Abreast
    <3>5. \A j \in 1 .. k - 1 : ~Clean(Z, g.todo[j].under)
      <4>1. \A j \in 1 .. k - 1 : j + 1 \in 1 .. k /\ j \in 1 .. Len(f.todo) - 1
        BY <1>4, <3>1
      <4>2. QED
        BY <1>4, <2>1, <4>1 DEF Abreast
    <3>6. Abreast(Z, w, g, k - 1, e, r)
      BY <3>1, <3>3, <3>4, <3>5 DEF Abreast
    <3>7. QED
      BY <1>1, <2>2, <3>6 DEF Beside, Here
  <2>5. QED
    BY <2>3, <2>4
<1>6. ASSUME NEW d \in 0 .. n - 1, Beyond(F, Z, w, d) PROVE Shadow(H, Z, w)
  <2>1. Lost(Z, F[n]) => Lost(Z, H[n])
    BY <1>1, <1>2, <1>3 DEF Lost
  <2>2. QED
    BY <1>1, <1>2, <1>3, <1>6, <2>1, BeyondKept
<1>7. QED
  BY <1>5, <1>6 DEF Shadow

(* What either arm of a branch may do, both may.                           *)
LEMMA ArmsReach ==
  ASSUME Equations, NEW a \in Seq(Statements), NEW b \in Seq(Statements), NEW arm \in {a, b}
  PROVE  Targets(arm) \subseteq Targets(a \o b) /\ (MayLeave(arm) => MayLeave(a \o b))
<1>1. PICK all : all = a \o b
  OBVIOUS
<1>2. all \in Seq(Statements) /\ arm \in Seq(Statements)
  BY <1>1
<1>3. ASSUME NEW i \in DOMAIN arm PROVE \E j \in DOMAIN all : all[j] = arm[i]
  <2>1. /\ Len(all) = Len(a) + Len(b) /\ DOMAIN all = 1 .. Len(a) + Len(b)
        /\ Len(a) \in Nat /\ Len(b) \in Nat /\ DOMAIN a = 1 .. Len(a) /\ DOMAIN b = 1 .. Len(b)
        /\ \A j \in 1 .. Len(a) + Len(b) : all[j] = IF j <= Len(a) THEN a[j] ELSE b[j - Len(a)]
    BY <1>1, <1>2, ConcatProperties, LenProperties
  <2>2. CASE arm = a
    <3>1. i \in DOMAIN all /\ all[i] = a[i]
      BY <1>3, <2>1, <2>2
    <3>2. QED
      BY <2>2, <3>1
  <2>3. CASE arm = b
    <3>1. PICK j \in 1 .. Len(a) + Len(b) : ~(j <= Len(a)) /\ j - Len(a) = i
      <4>1. Len(a) + i \in 1 .. Len(a) + Len(b) /\ ~(Len(a) + i <= Len(a)) /\ Len(a) + i - Len(a) = i
        BY <1>3, <2>1, <2>3
      <4>2. QED
        BY <4>1
    <3>2. all[j] = b[i]
      BY <2>1, <3>1
    <3>3. QED
      BY <2>1, <2>3, <3>2
  <2>4. QED
    BY <2>2, <2>3
<1> DEFINE Of(s) == CASE s.k = "let" -> {s.x}
                      [] s.k = "ask" -> Named(s.xs)
                      [] s.k = "read" -> Named(s.names)
                      [] s.k = "when" -> Targets(s.a) \union Targets(s.b)
                      [] OTHER -> {}
<1>4. \A body : TargetsOf(body) = UNION {Of(body[i]) : i \in DOMAIN body}
  BY DEF TargetsOf
<1> HIDE DEF Of
<1>5. /\ Targets(arm) = TargetsOf(arm) /\ Targets(all) = TargetsOf(all)
      /\ MayLeave(arm) = MayLeaveOf(arm) /\ MayLeave(all) = MayLeaveOf(all)
  BY <1>2 DEF Equations
<1>6. Targets(arm) \subseteq Targets(all)
  BY <1>3, <1>4, <1>5
<1>7. MayLeave(arm) => MayLeave(all)
  BY <1>3, <1>5 DEF MayLeaveOf
<1>8. QED
  BY <1>1, <1>6, <1>7

(* The trace takes an arm.  The other takes it too where the test is       *)
(* clean; where it is not, the other ends its own arm or leaves the frame. *)
LEMMA BranchStep ==
  ASSUME Equations, NEW F, FramesShape(F), Here(F).todo # <<>>, Due(Here(F)).k = "when",
         NEW key, NEW point, NEW Z, NEW w, Differ(Z, key, point, w.set, w.point), Shadow(F, Z, w),
         NEW H, H = AfterBranch(F, key, point)
  PROVE  Shadow(H, Z, w)
<1> DEFINE n == Len(F)
           f == Here(F)
           s == Due(f)
           influence == Influence(f, key, point)
           arms == s.a \o s.b
           arm == IF Val(s.t, f.env, point, key.set) # 0 THEN s.a ELSE s.b
           g == Branched(f, key, point)
<1>1. /\ H = Replaced(F, g) /\ FrameShape(g)
      /\ s.a \in Seq(Statements) /\ s.b \in Seq(Statements)
  BY BranchedShape
<1>2. FramesShape(H)
  BY <1>1, ReplacedShape
<1>3. /\ n \in Nat \ {0} /\ Len(H) = n /\ H[n] = g /\ \A i \in 1 .. n - 1 : H[i] = F[i]
  BY <1>1, ReplacedFrame DEF FramesShape
<1>4. FrameShape(f) /\ f = F[n] /\ s = f.todo[1].s /\ s \in Statements
  BY HereShape DEF Here
<1>5. /\ g.env = f.env /\ g.deps = Influenced(f.deps, Targets(arms), influence)
      /\ g.todo = Tagged(arm, influence) \o Tail(f.todo)
      /\ g.gates = IF MayLeave(arms) THEN Merge({f.gates, influence}) ELSE f.gates
      /\ g.inherited = f.inherited /\ g.dest = f.dest
  <2> DEFINE deps == Influenced(f.deps, Targets(arms), influence)
             todo == Tagged(arm, influence) \o Tail(f.todo)
             gates == IF MayLeave(arms) THEN Merge({f.gates, influence}) ELSE f.gates
  <2>1. g = MadeFrame(f.env, deps, todo, gates, f.inherited, f.dest)
    BY DEF Branched
  <2> HIDE DEF deps, todo, gates, g
  <2>2. /\ g.env = f.env /\ g.deps = deps /\ g.todo = todo /\ g.gates = gates
        /\ g.inherited = f.inherited /\ g.dest = f.dest
    BY <2>1, MadeFrameParts
  <2>3. QED
    BY <2>2 DEF deps, todo, gates
<1>6. influence = Merge({Observe(s.t, f, Controls(f), key, point).from, Controls(f)})
  BY DEF Influence
<1> HIDE DEF influence, g, s, f
<1>7. arm \in Seq(Statements) /\ arm \in {s.a, s.b} /\ Len(arm) \in Nat
  BY <1>1
<1>8. /\ Len(g.todo) = Len(arm) + Len(f.todo) - 1 /\ Len(f.todo) \in Nat \ {0}
      /\ \A j \in 1 .. Len(arm) : g.todo[j].under = influence
      /\ \A j \in 1 .. Len(f.todo) - 1 : g.todo[Len(arm) + j] = f.todo[j + 1]
      /\ Ahead(g.todo, 0) = arm \o Ahead(f.todo, 1)
      /\ \A k \in 1 .. Len(f.todo) : Ahead(g.todo, Len(arm) + k - 1) = Ahead(f.todo, k)
  <2>1. Todo(f.todo) /\ f.todo # <<>>
    BY <1>4 DEF f, FrameShape
  <2>2. Len(f.todo) \in Nat \ {0}
    BY <2>1, DoneAhead
  <2> HIDE DEF arm
  <2>3. g.todo = Tagged(arm, influence) \o Tail(f.todo)
    BY <1>5
  <2>4. Armed(g.todo, f.todo, arm, influence)
    <3>1. Armed(Tagged(arm, influence) \o Tail(f.todo), f.todo, arm, influence)
      BY <1>7, <2>1, ArmAhead
    <3>2. QED
      BY <2>3, <3>1, Zenon
  <2>5. QED
    BY <2>2, <2>4 DEF Armed
<1>9. Clean(Z, influence) =>
         Clean(Z, Observe(s.t, f, Controls(f), key, point).from) /\ Clean(Z, Controls(f))
  BY <1>6, MergeClean
<1>10. Lost(Z, f) => Lost(Z, g)
  <2>1. Clean(Z, Merge({f.gates, influence})) => Clean(Z, f.gates)
    BY MergeClean
  <2>2. QED
    BY <1>5, <2>1 DEF Lost
<1>11. ASSUME NEW d \in 0 .. n - 1, Beyond(F, Z, w, d) PROVE Shadow(H, Z, w)
  <2>3. H[n] = g
    BY <1>3
  <2>4. F[n] = f
    BY <1>4
  <2>5. g.dest = f.dest
    BY <1>5
  <2>1. H[n].dest = F[n].dest /\ (Lost(Z, F[n]) => Lost(Z, H[n]))
    BY <1>10, <2>3, <2>4, <2>5, Zenon
  <2>2. QED
    BY <1>3, <1>11, <2>1, BeyondKept
<1> HIDE DEF arm
<1>12. ASSUME Beside(F, Z, w) PROVE Shadow(H, Z, w)
  <2>1. PICK k, e, r : Linked(F, Z, w, n, r) /\ Abreast(Z, w, f, k, e, r)
    BY <1>12 DEF Beside, f
  <2>2. Linked(H, Z, w, n, r) /\ r.how # "raise"
    BY <1>3, <1>4, <1>5, <2>1, LinkedKept, LinkedEnds
  <2>3. Agrees(Z, f.deps, f.env, e, {})
    BY <2>1 DEF Abreast
  <2>4. CASE k # 0
    <3>1. k \in 1 .. Len(f.todo) /\ 1 \in 1 .. k /\ Len(arm) + k - 1 \in 0 .. Len(g.todo)
      <4>1. k \in 0 .. Len(f.todo)
        BY <2>1 DEF Abreast
      <4>2. Len(f.todo) \in Nat /\ Len(arm) \in Nat /\ Len(g.todo) = Len(arm) + Len(f.todo) - 1
        BY <1>7, <1>8
      <4>3. QED
        BY <2>4, <4>1, <4>2
    <3>2. ~Clean(Z, Controls(f))
      BY <2>1, <3>1, OffTaints DEF f, Abreast
    <3>3. Agrees(Z, g.deps, g.env, e, {})
      BY <1>5, <2>3, InfluenceAgrees
    <3>4. r = Exec(Ahead(g.todo, Len(arm) + k - 1), e, w.point, w.set)
      BY <1>8, <2>1, <3>1 DEF Abreast
    <3>5. ASSUME NEW j \in 1 .. Len(arm) + k - 1 PROVE ~Clean(Z, g.todo[j].under)
      <4>1. CASE j \in 1 .. Len(arm)
        BY <1>8, <1>9, <3>2, <4>1
      <4>2. CASE j \notin 1 .. Len(arm)
        <5>1. PICK i \in 1 .. Len(f.todo) - 1 : j = Len(arm) + i /\ i + 1 \in 1 .. k
          <6>1. PICK i : i = j - Len(arm)
            OBVIOUS
          <6>2. i \in 1 .. Len(f.todo) - 1 /\ j = Len(arm) + i /\ i + 1 \in 1 .. k
            BY <1>7, <1>8, <3>1, <3>5, <4>2, <6>1
          <6>3. QED
            BY <6>2
        <5>2. QED
          BY <1>8, <2>1, <5>1 DEF Abreast
      <4>3. QED
        BY <4>1, <4>2
    <3>6. Abreast(Z, w, g, Len(arm) + k - 1, e, r)
      BY <3>1, <3>3, <3>4, <3>5 DEF Abreast
    <3>7. QED
      BY <1>3, <2>2, <3>6 DEF Shadow, Beside, Here
  <2> DEFINE t == Val(s.t, e, w.point, w.set)
             own == IF t # 0 THEN s.a ELSE s.b
             q == Exec(own, e, w.point, w.set)
             Rest(env) == Exec(Ahead(f.todo, 1), env, w.point, w.set)
  <2>5. own \in {s.a, s.b} /\ own \in Seq(Statements)
    BY <1>1
  <2>6. k = 0 => t # Undefined /\ r = IF q.how = "next" THEN Rest(q.env) ELSE q
    <3>1. SUFFICES ASSUME k = 0 PROVE t # Undefined /\ r = IF q.how = "next" THEN Rest(q.env) ELSE q
      OBVIOUS
    <3> DEFINE body == Ahead(f.todo, 0)
    <3>2. 0 \in 0 .. Len(f.todo) /\ 0 < Len(f.todo)
      BY <1>8
    <3>3. body \in Seq(Statements) /\ body # <<>> /\ Head(body) = s /\ Tail(body) = Ahead(f.todo, 1)
      BY <1>4, <3>2, AheadParts DEF FrameShape
    <3>4. r = Exec(body, e, w.point, w.set)
      BY <2>1, <3>1 DEF Abreast
    <3> HIDE DEF body
    <3>5. r = ExecOf(body, e, w.point, w.set)
      BY <3>3, <3>4 DEF Equations
    <3>6. r = IF t = Undefined THEN Raised ELSE IF q.how = "next" THEN Rest(q.env) ELSE q
      BY <3>3, <3>5 DEF ExecOf, s, f
    <3>7. QED
      BY <2>2, <3>6 DEF Raised
  <2>7. CASE k = 0 /\ Clean(Z, influence)
    <3>1. t = Val(s.t, f.env, point, key.set)
      <4>1. s.t \in Terms
        BY <1>4, SyntaxAssumption DEF TermsIn, s, f
      <4>2. QED
        BY <1>9, <2>3, <2>7, <4>1, SameValue
    <3>2. own = arm
      BY <3>1 DEF arm
    <3>3. Ahead(f.todo, 1) \in Seq(Statements)
      <4>1. 1 \in 0 .. Len(f.todo)
        BY <1>8
      <4>2. QED
        BY <1>4, <4>1, AheadParts DEF FrameShape
    <3>4. r = Exec(Ahead(g.todo, 0), e, w.point, w.set)
      <4> DEFINE last == Ahead(f.todo, 1)
                 part == Exec(arm, e, w.point, w.set)
      <4>1. Ahead(g.todo, 0) = arm \o last
        BY <1>8
      <4>2. r = IF part.how = "next" THEN Exec(last, part.env, w.point, w.set) ELSE part
        BY <2>6, <2>7, <3>2
      <4>3. last \in Seq(Statements)
        BY <3>3
      <4> HIDE DEF last
      <4>4. Exec(arm \o last, e, w.point, w.set) =
              IF part.how = "next" THEN Exec(last, part.env, w.point, w.set) ELSE part
        BY <1>7, <4>3, ExecConcat
      <4>5. QED
        BY <4>1, <4>2, <4>4
    <3>5. Agrees(Z, g.deps, g.env, e, {})
      BY <1>5, <2>3, InfluenceAgrees
    <3>6. 0 \in 0 .. Len(g.todo) /\ 1 .. 0 = {}
      BY <1>7, <1>8
    <3>7. Abreast(Z, w, g, 0, e, r)
      BY <3>4, <3>5, <3>6 DEF Abreast
    <3>8. QED
      BY <1>3, <2>2, <3>7 DEF Shadow, Beside, Here
  <2>8. CASE k = 0 /\ ~Clean(Z, influence) /\ q.how = "next"
    <3>1. \A m : Clean(Z, influence) \/ m \notin Targets(arms) => Lookup(q.env, m) = Lookup(e, m)
      BY <1>1, <2>5, <2>8, ArmsReach, ExecEffects
    <3>2. Agrees(Z, g.deps, g.env, q.env, {})
      BY <1>5, <2>3, <3>1, InfluenceAgrees
    <3>3. r = Exec(Ahead(g.todo, Len(arm)), q.env, w.point, w.set)
      <4>1. 1 \in 1 .. Len(f.todo) /\ Len(arm) + 1 - 1 = Len(arm)
        BY <1>7, <1>8
      <4>2. QED
        BY <1>8, <2>6, <2>8, <4>1
    <3>4. \A j \in 1 .. Len(arm) : ~Clean(Z, g.todo[j].under)
      BY <1>8, <2>8
    <3>5. Len(arm) \in 0 .. Len(g.todo)
      BY <1>7, <1>8
    <3>6. Abreast(Z, w, g, Len(arm), q.env, r)
      BY <3>2, <3>3, <3>4, <3>5 DEF Abreast
    <3>7. QED
      BY <1>3, <2>2, <3>6 DEF Shadow, Beside, Here
  <2>9. CASE k = 0 /\ ~Clean(Z, influence) /\ q.how # "next"
    <3>1. MayLeave(arms)
      <4>1. q.how # "raise"
        BY <2>2, <2>6, <2>9
      <4>2. MayLeave(own)
        BY <2>5, <2>9, <4>1, ExecEffects
      <4>3. QED
        BY <1>1, <2>5, <4>2, ArmsReach
    <3>2. ~Clean(Z, g.gates)
      BY <1>5, <2>9, <3>1, MergeClean
    <3>3. QED
      BY <1>2, <1>3, <2>2, <3>2, LeftBehind DEF Lost, Here
  <2>10. QED
    BY <2>4, <2>7, <2>8, <2>9
<1>13. QED
  BY <1>11, <1>12 DEF Shadow

(* The trace enters a helper.  In step with it, so does the other.         *)
LEMMA EnterStep ==
  ASSUME Equations, NEW F, FramesShape(F), Here(F).todo # <<>>, Due(Here(F)).k = "ask",
         DOMAIN Due(Here(F)).args = DOMAIN Helper(Due(Here(F)).fn).args,
         NEW key, NEW point, NEW Z, NEW w, Differ(Z, key, point, w.set, w.point), Shadow(F, Z, w),
         NEW H, H = AfterEnter(F, key, point)
  PROVE  Shadow(H, Z, w)
<1> DEFINE n == Len(F)
           f == Here(F)
           s == Due(f)
           h == Helper(s.fn)
           vs == Evaluated(s.args, f.env, point, key.set)
           from == [i \in DOMAIN s.args |-> Observe(s.args[i], f, Controls(f), key, point).from]
           g == Entered(f, key, point)
<1>1. H = Append(F, g) /\ h.body \in Seq(Statements)
  BY EnteredShape
<1>2. /\ n \in Nat \ {0} /\ Len(H) = n + 1 /\ H[n + 1] = g /\ \A i \in 1 .. n : H[i] = F[i]
  BY <1>1, AddedFrame DEF FramesShape
<1>3. FrameShape(f) /\ f = F[n] /\ s = f.todo[1].s /\ s \in Statements
  BY HereShape DEF Here
<1>4. /\ g.env = Bind(NoLocals, h.args, vs) /\ g.deps = Bind(NoLocals, h.args, from)
      /\ g.todo = Tagged(h.body, {}) /\ g.inherited = Controls(f) /\ g.dest = s.xs
  <2> DEFINE looks == Looks(s.args, f, key, point)
  <2>1. [i \in DOMAIN looks |-> looks[i].from] = from
    BY DEF Looks
  <2> DEFINE env == Bind(NoLocals, h.args, vs)
             deps == Bind(NoLocals, h.args, [i \in DOMAIN looks |-> looks[i].from])
             todo == Tagged(h.body, {})
  <2>2. g = MadeFrame(env, deps, todo, {}, Controls(f), s.xs)
    BY DEF Entered
  <2>3. deps = Bind(NoLocals, h.args, from)
    BY <2>1
  <2> HIDE DEF env, deps, todo, g
  <2>4. g.env = env /\ g.deps = deps /\ g.todo = todo /\ g.inherited = Controls(f) /\ g.dest = s.xs
    BY <2>2, MadeFrameParts
  <2>5. QED
    BY <2>3, <2>4 DEF env, todo
<1>5. /\ Len(f.todo) \in Nat \ {0}
      /\ Ahead(f.todo, 0) \in Seq(Statements) /\ Ahead(f.todo, 0) # <<>>
      /\ Head(Ahead(f.todo, 0)) = s /\ Tail(Ahead(f.todo, 0)) = Ahead(f.todo, 1)
  <2>1. Todo(f.todo) /\ Len(f.todo) \in Nat \ {0}
    BY <1>3, DoneAhead DEF FrameShape
  <2>2. 0 \in 0 .. Len(f.todo) /\ 0 < Len(f.todo) /\ 0 + 1 = 1
    BY <2>1
  <2>3. QED
    BY <1>3, <2>1, <2>2, AheadParts
<1>6. DOMAIN s.args = DOMAIN h.args /\ s.k = "ask"
  OBVIOUS
<1>7. \A i \in DOMAIN s.args : s.args[i] \in Terms
  BY <1>3, <1>6, SyntaxAssumption DEF TermsIn
<1>8. Lost(Z, f) \/ ~Clean(Z, f.todo[1].under) => Lost(Z, g)
  <2>1. Lost(Z, f) \/ ~Clean(Z, f.todo[1].under) => ~Clean(Z, Controls(f))
    BY OffTaints
  <2>2. QED
    BY <1>4, <2>1 DEF Lost
<1> HIDE DEF g, s, f, h
<1>9. ASSUME Beside(F, Z, w) PROVE Shadow(H, Z, w)
  <2>1. PICK k, e, r : Linked(F, Z, w, n, r) /\ Abreast(Z, w, f, k, e, r)
    BY <1>9, Zenon DEF Beside, f
  <2>2. Linked(H, Z, w, n, r) /\ r.how # "raise"
    <3>1. (\A i \in 1 .. n - 1 : H[i] = F[i]) /\ H[n].dest = F[n].dest
      BY <1>2
    <3>2. QED
      BY <1>2, <2>1, <3>1, LinkedKept, LinkedEnds
  <2>3. Agrees(Z, f.deps, f.env, e, {})
    BY <2>1 DEF Abreast
  <2>4. H[n] = f /\ H[n + 1].dest = s.xs
    <3>1. H[n] = F[n] /\ H[n + 1] = g
      <4>1. n \in 1 .. n
        BY <1>2
      <4>2. QED
        BY <1>2, <4>1, Zenon
    <3>2. F[n] = f /\ g.dest = s.xs
      BY <1>3, <1>4
    <3>3. QED
      BY <3>1, <3>2, Zenon
  <2>5. CASE k # 0
    <3>1. k \in 1 .. Len(f.todo) /\ 1 \in 1 .. k
      <4>1. k \in 0 .. Len(f.todo)
        BY <2>1 DEF Abreast
      <4>2. QED
        BY <1>5, <2>5, <4>1
    <3>2. Lost(Z, g)
      BY <1>8, <2>1, <3>1 DEF Abreast
    <3>3. Agrees(Z, f.deps, f.env, e, Named(s.xs))
      BY <2>3, AgreesOff
    <3>4. \A j \in 2 .. k : j \in 1 .. k
      BY <3>1
    <3>5. Past(Z, w, f, s.xs, k, e, r)
      BY <2>1, <3>1, <3>3, <3>4 DEF Past, Abreast
    <3>6. \A i \in n + 1 .. Len(H) : Lost(Z, H[i])
      <4>1. \A i \in n + 1 .. Len(H) : i = n + 1
        BY <1>2
      <4>2. QED
        BY <1>2, <3>2, <4>1
    <3>7. Beyond(H, Z, w, n)
      BY <2>2, <2>4, <3>5, <3>6 DEF Beyond
    <3>8. n \in 0 .. Len(H) - 1
      BY <1>2
    <3>9. QED
      BY <3>7, <3>8 DEF Shadow
  <2>6. CASE k = 0
    <3> DEFINE ws == Evaluated(s.args, e, w.point, w.set)
               below == Exec(h.body, Bind(NoLocals, h.args, ws), w.point, w.set)
               body == Ahead(f.todo, 0)
    <3>1. r = Exec(body, e, w.point, w.set)
      BY <2>1, <2>6 DEF Abreast
    <3>2. r = ExecOf(body, e, w.point, w.set)
      BY <1>5, <3>1 DEF Equations
    <3>3. r = IF Unfit(h.args, ws) THEN Raised ELSE Resumed(Ahead(f.todo, 1), e, s.xs, below, w.point, w.set)
      <4> HIDE DEF body
      <4>1. body # <<>> /\ Head(body) = s /\ Tail(body) = Ahead(f.todo, 1)
        BY <1>5 DEF body
      <4>2. QED
        BY <1>6, <3>2, <4>1 DEF ExecOf, h
    <3>4. r = Resumed(Ahead(f.todo, 1), e, s.xs, below, w.point, w.set)
      BY <2>2, <3>3 DEF Raised
    <3> HIDE DEF below
    <3>5. Waits(Z, w, H[n], H[n + 1].dest, e, r, below)
      BY <2>3, <2>4, <3>4 DEF Waits
    <3>6. Linked(H, Z, w, n + 1, below)
      BY <1>2, <2>2, <3>5, LinkedDown
    <3>7. ASSUME NEW i \in DOMAIN h.args, Clean(Z, from[i]) PROVE vs[i] = ws[i]
      <4>1. i \in DOMAIN s.args /\ s.args[i] \in Terms
        BY <1>6, <1>7, <3>7
      <4>2. Clean(Z, Observe(s.args[i], f, Controls(f), key, point).from)
        BY <3>7, <4>1
      <4>3. Val(s.args[i], e, w.point, w.set) = Val(s.args[i], f.env, point, key.set)
        BY <2>3, <4>1, <4>2, SameValue
      <4>4. QED
        BY <4>1, <4>3 DEF Evaluated
    <3> HIDE DEF vs, ws, from
    <3>8. Agrees(Z, g.deps, g.env, Bind(NoLocals, h.args, ws), {})
      <4>1. Agrees(Z, NoLocals, NoLocals, NoLocals, {})
        BY DEF Agrees
      <4>2. QED
        BY <1>4, <3>7, <4>1, BindAgrees
    <3>9. below = Exec(Ahead(g.todo, 0), Bind(NoLocals, h.args, ws), w.point, w.set)
      BY <1>1, <1>4, TaggedTodo DEF below, h, s, f
    <3>10. 0 \in 0 .. Len(g.todo) /\ 1 .. 0 = {}
      <4>1. Len(g.todo) \in Nat
        BY <1>1, <1>4, TaggedTodo DEF h, s, f
      <4>2. QED
        BY <4>1
    <3>11. Abreast(Z, w, g, 0, Bind(NoLocals, h.args, ws), below)
      BY <3>8, <3>9, <3>10 DEF Abreast
    <3>12. QED
      BY <1>2, <3>6, <3>11 DEF Shadow, Beside, Here
  <2>7. QED
    BY <2>5, <2>6
<1>10. ASSUME NEW d \in 0 .. n - 1, Beyond(F, Z, w, d) PROVE Shadow(H, Z, w)
  <2>1. \A i \in d + 1 .. n : Lost(Z, F[i])
    BY <1>10 DEF Beyond
  <2>2. n \in d + 1 .. n /\ d \in 0 .. Len(H) - 1
    BY <1>2
  <2>3. Lost(Z, g)
    BY <1>3, <1>8, <2>1, <2>2
  <2>4. ASSUME NEW i \in d + 1 .. Len(H) PROVE Lost(Z, H[i])
    <3>1. i = n + 1 \/ (i \in d + 1 .. n /\ i \in 1 .. n)
      <4>1. n \in Nat \ {0} /\ d \in 0 .. n - 1 /\ i \in d + 1 .. n + 1
        BY <1>2, <1>10, <2>4
      <4> HIDE DEF n
      <4>2. QED
        BY <4>1
    <3>2. QED
      BY <1>2, <2>1, <2>3, <3>1
  <2>5. CASE d = 0
    BY <2>2, <2>4, <2>5 DEF Shadow, Beyond
  <2>6. CASE d # 0
    <3>1. PICK k, e, r : Linked(F, Z, w, d, r) /\ Past(Z, w, F[d], F[d + 1].dest, k, e, r)
      BY <1>10, <2>6 DEF Beyond
    <3>2. d \in Nat \ {0} /\ H[d] = F[d] /\ H[d + 1] = F[d + 1] /\ \A i \in 1 .. d - 1 : H[i] = F[i]
      <4>1. d \in 1 .. n /\ d + 1 \in 1 .. n /\ \A i \in 1 .. d - 1 : i \in 1 .. n
        BY <1>2, <2>6
      <4>2. QED
        BY <1>2, <4>1
    <3>3. Linked(H, Z, w, d, r)
      BY <3>1, <3>2, LinkedKept
    <3>4. Beyond(H, Z, w, d)
      BY <2>4, <3>1, <3>2, <3>3 DEF Beyond
    <3>5. QED
      BY <2>2, <3>4 DEF Shadow
  <2>7. QED
    BY <2>5, <2>6
<1>11. QED
  BY <1>9, <1>10 DEF Shadow

(* The trace returns from a helper.  The other, if it was still in the     *)
(* helper, returns too; either way it is past the call.                    *)
LEMMA ReturnStep ==
  ASSUME Equations, NEW F, FramesShape(F), Here(F).todo # <<>>, Due(Here(F)).k = "give",
         Len(F) > 1, DOMAIN Due(Here(F)).es = DOMAIN Here(F).dest,
         NEW key, NEW point, NEW Z, NEW w, Differ(Z, key, point, w.set, w.point), Shadow(F, Z, w),
         NEW H, H = AfterReturn(F, key, point)
  PROVE  Shadow(H, Z, w)
<1> DEFINE n == Len(F)
           f == Here(F)
           c == F[n - 1]
           s == Due(f)
           dest == f.dest
           vs == Evaluated(s.es, f.env, point, key.set)
           from == [i \in DOMAIN s.es |-> Observe(s.es[i], f, Controls(f), key, point).from]
           sources == [i \in DOMAIN s.es |-> Merge({from[i], Controls(f), Controls(c)})]
           g == Bound(c, dest, vs, sources)
<1>1. PICK m \in Nat \ {0} : n = m + 1 /\ m = n - 1
  <2>1. n \in Nat \ {0}
    BY ReplacedFrame DEF FramesShape
  <2>2. PICK m : m = n - 1
    OBVIOUS
  <2>3. n > 1
    OBVIOUS
  <2> HIDE DEF n
  <2>4. m \in Nat \ {0} /\ n = m + 1
    BY <2>1, <2>2, <2>3
  <2>5. QED
    BY <2>2, <2>4
<1>2. /\ Len(H) = m /\ H[m] = g /\ \A i \in 1 .. m - 1 : H[i] = F[i]
  <2>1. H = Append(SubSeq(F, 1, n - 2), g)
    <3> DEFINE looks == Looks(s.es, f, key, point)
               all == [i \in DOMAIN looks |-> Merge({looks[i].from, Controls(f), Controls(c)})]
    <3>1. all = sources
      BY DEF Looks
    <3>2. AfterReturn(F, key, point) = Append(SubSeq(F, 1, n - 2), Bound(c, dest, vs, all))
      BY DEF AfterReturn
    <3> HIDE DEF all, sources, vs, f, c
    <3>3. QED
      BY <3>1, <3>2
  <2>2. Popped(F, H, g)
    BY <2>1, PoppedFrame DEF FramesShape
  <2>3. \A i \in 1 .. m - 1 : i \in 1 .. n - 2
    BY <1>1
  <2>4. Len(H) = n - 1 /\ H[n - 1] = g /\ \A i \in 1 .. n - 2 : H[i] = F[i]
    BY <2>2 DEF Popped
  <2> HIDE DEF g
  <2>5. QED
    BY <1>1, <2>3, <2>4
<1>3. FrameShape(f) /\ f = F[m + 1] /\ s = f.todo[1].s /\ s \in Statements
  BY <1>1, HereShape DEF Here
<1>4. FrameShape(c) /\ c.todo # <<>> /\ c = F[m]
  BY <1>1, CallerShape
<1>5. /\ g.todo = Tail(c.todo) /\ g.env = Bind(c.env, dest, vs) /\ g.deps = Bind(c.deps, dest, sources)
      /\ g.gates = c.gates /\ g.inherited = c.inherited /\ g.dest = c.dest
  BY <1>4, BoundShape
<1> HIDE DEF g, c
<1>6. /\ Len(c.todo) \in Nat \ {0} /\ Len(g.todo) = Len(c.todo) - 1
      /\ \A j \in 1 .. Len(c.todo) - 1 : g.todo[j] = c.todo[j + 1]
      /\ \A k \in 1 .. Len(c.todo) : Ahead(g.todo, k - 1) = Ahead(c.todo, k)
  <2>1. Todo(c.todo) /\ c.todo # <<>> /\ g.todo = Tail(c.todo)
    BY <1>4, <1>5 DEF FrameShape
  <2>2. QED
    BY <2>1, DoneAhead
<1>7. /\ Len(f.todo) \in Nat \ {0}
      /\ Ahead(f.todo, 0) \in Seq(Statements) /\ Ahead(f.todo, 0) # <<>>
      /\ Head(Ahead(f.todo, 0)) = s
  <2>1. Todo(f.todo) /\ Len(f.todo) \in Nat \ {0}
    BY <1>3, DoneAhead DEF FrameShape
  <2>2. 0 \in 0 .. Len(f.todo) /\ 0 < Len(f.todo) /\ 0 + 1 = 1
    BY <2>1
  <2>3. QED
    BY <1>3, <2>1, <2>2, AheadParts
<1>8. DOMAIN s.es = DOMAIN dest /\ s.k = "give"
  OBVIOUS
<1>9. \A i \in DOMAIN s.es : s.es[i] \in Terms
  BY <1>3, <1>8, SyntaxAssumption DEF TermsIn
<1>10. ASSUME NEW i \in DOMAIN dest, Clean(Z, sources[i])
       PROVE  Clean(Z, from[i]) /\ Clean(Z, Controls(f))
  <2>1. sources[i] = Merge({from[i], Controls(f), Controls(c)})
    BY <1>8
  <2> HIDE DEF sources, from, dest, f
  <2>2. Clean(Z, Merge({from[i], Controls(f), Controls(c)}))
    BY <1>10, <2>1
  <2>3. QED
    BY <2>2, MergeClean
<1>11. Lost(Z, f) \/ ~Clean(Z, f.todo[1].under) => ~Clean(Z, Controls(f))
  BY OffTaints
<1>12. Lost(Z, c) => Lost(Z, g)
  <2>1. g.gates = c.gates /\ g.inherited = c.inherited
    BY <1>5
  <2>2. QED
    BY <2>1 DEF Lost
<1> HIDE DEF s, f, dest
<1>13. ASSUME NEW e, ~Clean(Z, Controls(f)), Agrees(Z, c.deps, c.env, e, Named(dest))
       PROVE  Agrees(Z, g.deps, g.env, e, {})
  <2>1. \A i \in DOMAIN dest : ~Clean(Z, sources[i])
    BY <1>10, <1>13
  <2> HIDE DEF sources, vs
  <2>2. Agrees(Z, Bind(c.deps, dest, sources), Bind(c.env, dest, vs), e, {})
    BY <1>13, <2>1, BindTainted
  <2>3. QED
    BY <1>5, <2>2
<1>14. ASSUME Beside(F, Z, w) PROVE Shadow(H, Z, w)
  <2>1. PICK k, e, r : Linked(F, Z, w, m + 1, r) /\ Abreast(Z, w, f, k, e, r)
    BY <1>1, <1>14 DEF Beside, f
  <2>2. PICK e0, up : Linked(F, Z, w, m, up) /\ Waits(Z, w, F[m], F[m + 1].dest, e0, up, r)
    BY <2>1, LinkedUp
  <2>3. up.how # "raise" /\ r.how # "raise"
    BY <2>1, <2>2, LinkedEnds
  <2> DEFINE env == Bind(e0, dest, r.out)
  <2>4. up = Resumed(Ahead(c.todo, 1), e0, dest, r, w.point, w.set) /\ Agrees(Z, c.deps, c.env, e0, {})
    BY <1>3, <1>4, <2>2 DEF Waits, dest
  <2>5. up = Exec(Ahead(c.todo, 1), env, w.point, w.set)
    BY <2>3, <2>4 DEF Resumed, Raised
  <2>6. Linked(H, Z, w, m, up)
    <3>1. H[m].dest = F[m].dest
      BY <1>2, <1>4, <1>5
    <3>2. QED
      BY <1>2, <2>2, <3>1, LinkedKept
  <2>7. Agrees(Z, g.deps, g.env, env, {})
    <3>1. CASE k # 0
      <4>1. 1 \in 1 .. k
        <5>1. k \in 0 .. Len(f.todo)
          BY <2>1 DEF Abreast
        <5>2. QED
          BY <1>7, <3>1, <5>1
      <4>2. ~Clean(Z, Controls(f))
        BY <1>11, <2>1, <4>1 DEF Abreast
      <4>3. Agrees(Z, c.deps, c.env, env, Named(dest))
        BY <2>4, OtherBinds
      <4>4. QED
        BY <1>13, <4>2, <4>3
    <3>2. CASE k = 0
      <4> DEFINE ws == Evaluated(s.es, e, w.point, w.set)
                 body == Ahead(f.todo, 0)
      <4>1. r = Exec(body, e, w.point, w.set)
        BY <2>1, <3>2 DEF Abreast
      <4>2. r = ExecOf(body, e, w.point, w.set)
        BY <1>7, <4>1 DEF Equations
      <4>3. r = Ended("give", e, ws)
        <5> HIDE DEF body
        <5>1. body # <<>> /\ Head(body) = s
          BY <1>7 DEF body
        <5>2. QED
          BY <1>8, <4>2, <5>1 DEF ExecOf
      <4>4. r.out = ws
        BY <2>3, <4>3 DEF Ended, Raised
      <4>5. ASSUME NEW i \in DOMAIN dest, Clean(Z, sources[i]) PROVE vs[i] = ws[i]
        <5>1. i \in DOMAIN s.es /\ s.es[i] \in Terms
          BY <1>8, <1>9, <4>5
        <5>2. Clean(Z, Observe(s.es[i], f, Controls(f), key, point).from)
          BY <1>10, <4>5, <5>1
        <5>3. Agrees(Z, f.deps, f.env, e, {})
          BY <2>1 DEF Abreast
        <5>4. Val(s.es[i], e, w.point, w.set) = Val(s.es[i], f.env, point, key.set)
          BY <5>1, <5>2, <5>3, SameValue
        <5>5. QED
          BY <5>1, <5>4 DEF Evaluated
      <4> HIDE DEF vs, ws, sources
      <4>6. QED
        BY <1>5, <2>4, <4>4, <4>5, BindAgrees
    <3>3. QED
      BY <3>1, <3>2
  <2>8. up = Exec(Ahead(g.todo, 0), env, w.point, w.set)
    <3>1. 1 \in 1 .. Len(c.todo) /\ 1 - 1 = 0
      BY <1>6
    <3>2. QED
      BY <1>6, <2>5, <3>1
  <2>9. 0 \in 0 .. Len(g.todo) /\ 1 .. 0 = {}
    BY <1>6
  <2>10. Abreast(Z, w, g, 0, env, up)
    BY <2>7, <2>8, <2>9 DEF Abreast
  <2>11. QED
    BY <1>2, <2>6, <2>10 DEF Shadow, Beside, Here
<1>15. ASSUME NEW d \in 0 .. n - 1, Beyond(F, Z, w, d) PROVE Shadow(H, Z, w)
  <2>1. \A i \in d + 1 .. m + 1 : Lost(Z, F[i])
    BY <1>1, <1>15 DEF Beyond
  <2>2. d \in 0 .. m
    BY <1>1, <1>15
  <2>3. ~Clean(Z, Controls(f))
    <3>1. m + 1 \in d + 1 .. m + 1
      BY <2>2
    <3>2. QED
      BY <1>3, <1>11, <2>1, <3>1
  <2>4. d # 0 => \E k, e, r : Linked(F, Z, w, d, r) /\ Past(Z, w, F[d], F[d + 1].dest, k, e, r)
    BY <1>15 DEF Beyond
  <2>5. CASE d = m
    <3>1. PICK k, e, r : Linked(F, Z, w, m, r) /\ Past(Z, w, c, dest, k, e, r)
      <4>1. m # 0 /\ F[m] = c /\ F[m + 1].dest = dest
        BY <1>3, <1>4 DEF dest
      <4>2. QED
        BY <2>4, <2>5, <4>1
    <3>2. Linked(H, Z, w, m, r)
      <4>1. H[m].dest = F[m].dest
        BY <1>2, <1>4, <1>5
      <4>2. QED
        BY <1>2, <3>1, <4>1, LinkedKept
    <3>3. Agrees(Z, g.deps, g.env, e, {})
      BY <1>13, <2>3, <3>1 DEF Past
    <3>4. k \in 1 .. Len(c.todo) /\ k - 1 \in 0 .. Len(g.todo)
      <4>1. k \in 1 .. Len(c.todo)
        BY <3>1 DEF Past
      <4>2. QED
        BY <1>6, <4>1
    <3>5. r = Exec(Ahead(g.todo, k - 1), e, w.point, w.set)
      BY <1>6, <3>1, <3>4 DEF Past
    <3>6. \A j \in 1 .. k - 1 : ~Clean(Z, g.todo[j].under)
      <4>1. \A j \in 1 .. k - 1 : j + 1 \in 2 .. k /\ j \in 1 .. Len(c.todo) - 1
        BY <1>6, <3>4
      <4>2. QED
        BY <1>6, <3>1, <4>1 DEF Past
    <3>7. Abreast(Z, w, g, k - 1, e, r)
      BY <3>3, <3>4, <3>5, <3>6 DEF Abreast
    <3>8. QED
      BY <1>2, <3>2, <3>7 DEF Shadow, Beside, Here
  <2>6. CASE d # m
    <3>1. d \in 0 .. m - 1 /\ m \in d + 1 .. m + 1
      BY <2>2, <2>6
    <3>2. Lost(Z, g)
      BY <1>4, <1>12, <2>1, <3>1
    <3>3. ASSUME NEW i \in d + 1 .. Len(H) PROVE Lost(Z, H[i])
      <4>1. i = m \/ (i \in 1 .. m - 1 /\ i \in d + 1 .. m + 1)
        BY <1>2, <3>1, <3>3
      <4>2. CASE i = m
        BY <1>2, <3>2, <4>2
      <4>3. CASE i # m
        BY <1>2, <2>1, <4>1, <4>3
      <4>4. QED
        BY <4>2, <4>3
    <3>4. CASE d = 0
      BY <1>2, <3>1, <3>3, <3>4 DEF Shadow, Beyond
    <3>5. CASE d # 0
      <4>1. PICK k, e, r : Linked(F, Z, w, d, r) /\ Past(Z, w, F[d], F[d + 1].dest, k, e, r)
        BY <2>4, <3>5
      <4>2. d \in Nat \ {0} /\ d \in 1 .. m - 1 /\ \A i \in 1 .. d - 1 : i \in 1 .. m - 1
        BY <3>1, <3>5
      <4>3. H[d] = F[d] /\ H[d + 1].dest = F[d + 1].dest
        <5>1. CASE d + 1 = m
          <6>1. H[m].dest = F[m].dest
            BY <1>2, <1>4, <1>5
          <6>2. QED
            BY <1>2, <4>2, <5>1, <6>1
        <5>2. CASE d + 1 # m
          <6>1. d + 1 \in 1 .. m - 1
            BY <4>2, <5>2
          <6>2. QED
            BY <1>2, <4>2, <6>1
        <5>3. QED
          BY <5>1, <5>2
      <4>4. Linked(H, Z, w, d, r)
        BY <1>2, <4>1, <4>2, <4>3, LinkedKept
      <4>5. Beyond(H, Z, w, d)
        BY <3>3, <4>1, <4>3, <4>4 DEF Beyond
      <4>6. QED
        BY <1>2, <3>1, <4>5 DEF Shadow
    <3>6. QED
      BY <3>4, <3>5
  <2>7. QED
    BY <2>5, <2>6
<1>16. QED
  BY <1>14, <1>15 DEF Shadow

LEMMA HeadAhead ==
  ASSUME NEW F, FramesShape(F), Here(F).todo # <<>>
  PROVE  LET f == Here(F)
         IN  /\ Ahead(f.todo, 0) \in Seq(Statements) /\ Ahead(f.todo, 0) # <<>>
             /\ Head(Ahead(f.todo, 0)) = Due(f) /\ Tail(Ahead(f.todo, 0)) = Ahead(f.todo, 1)
<1> DEFINE f == Here(F)
<1>1. FrameShape(f) /\ Due(f) = f.todo[1].s /\ Len(f.todo) \in Nat \ {0}
  BY HereShape
<1>2. 0 \in 0 .. Len(f.todo) /\ 0 < Len(f.todo) /\ 0 + 1 = 1
  BY <1>1
<1>3. QED
  BY <1>1, <1>2, AheadParts DEF FrameShape

(* The trace reads variables, and in step with it so does the other.       *)
LEMMA ReadStep ==
  ASSUME Equations, NEW F, FramesShape(F), Here(F).todo # <<>>, Due(Here(F)).k = "read",
         NEW key, NEW point, NEW Z, NEW w, Differ(Z, key, point, w.set, w.point), Shadow(F, Z, w),
         NEW H, H = AfterRead(F, point)
  PROVE  Shadow(H, Z, w)
<1> DEFINE f == Here(F)
           names == Due(f).names
           vs == Readings(names, point)
           sources == [i \in DOMAIN names |-> Merge({{Variable(names[i])}, Controls(f)})]
<1>1. H = Replaced(F, Bound(f, names, vs, sources))
  BY DEF AfterRead
<1>2. ASSUME NEW i \in DOMAIN names, Clean(Z, sources[i])
      PROVE  Clean(Z, Controls(f)) /\ Lookup(w.point, names[i]) = Lookup(point, names[i])
  <2>1. Clean(Z, Merge({{Variable(names[i])}, Controls(f)}))
    BY <1>2
  <2>2. Clean(Z, {Variable(names[i])}) /\ Clean(Z, Controls(f))
    BY <2>1, MergeClean
  <2>3. Variable(names[i]) \notin Z
    BY <2>2 DEF Clean
  <2>4. QED
    BY <2>2, <2>3 DEF Differ
<1>3. ASSUME NEW e, NEW r, Abreast(Z, w, f, 0, e, r), r.how # "raise"
      PROVE  \E ws : /\ \A i \in DOMAIN names : Clean(Z, sources[i]) => vs[i] = ws[i]
                     /\ r = Exec(Ahead(f.todo, 1), Bind(e, names, ws), w.point, w.set)
  <2> DEFINE ws == Readings(names, w.point)
             body == Ahead(f.todo, 0)
  <2>1. r = Exec(body, e, w.point, w.set)
    BY <1>3 DEF Abreast
  <2>2. body \in Seq(Statements) /\ body # <<>> /\ Head(body) = Due(f) /\ Tail(body) = Ahead(f.todo, 1)
    BY HeadAhead
  <2>3. r = ExecOf(body, e, w.point, w.set)
    BY <2>1, <2>2 DEF Equations
  <2> HIDE DEF body
  <2>4. r = IF Broken(ws) THEN Raised ELSE Exec(Ahead(f.todo, 1), Bind(e, names, ws), w.point, w.set)
    BY <2>2, <2>3 DEF ExecOf
  <2>5. r = Exec(Ahead(f.todo, 1), Bind(e, names, ws), w.point, w.set)
    BY <1>3, <2>4 DEF Raised
  <2>6. \A i \in DOMAIN names : Clean(Z, sources[i]) => vs[i] = ws[i]
    BY <1>2 DEF Readings
  <2>7. QED
    BY <2>5, <2>6
<1> HIDE DEF vs, sources, names, f
<1>4. QED
  BY <1>1, <1>2, <1>3, BoundStep DEF f

(* The trace assigns a local, and in step with it so does the other.       *)
LEMMA AssignStep ==
  ASSUME Equations, NEW F, FramesShape(F), Here(F).todo # <<>>, Due(Here(F)).k = "let",
         NEW key, NEW point, NEW Z, NEW w, Differ(Z, key, point, w.set, w.point), Shadow(F, Z, w),
         NEW H, H = AfterAssign(F, key, point)
  PROVE  Shadow(H, Z, w)
<1> DEFINE f == Here(F)
           s == Due(f)
           names == <<s.x>>
           vs == <<Val(s.e, f.env, point, key.set)>>
           from == Observe(s.e, f, Controls(f), key, point).from
           sources == <<Merge({from, Controls(f)})>>
<1>1. H = Replaced(F, Bound(f, names, vs, sources))
  BY DEF AfterAssign
<1>2. Clean(Z, sources[1]) => Clean(Z, from) /\ Clean(Z, Controls(f))
  BY MergeClean
<1>3. DOMAIN names = {1}
  OBVIOUS
<1>4. s.e \in Terms
  BY HereShape, SyntaxAssumption DEF TermsIn
<1>5. ASSUME NEW e, NEW r, Abreast(Z, w, f, 0, e, r), r.how # "raise"
      PROVE  \E ws : /\ \A i \in DOMAIN names : Clean(Z, sources[i]) => vs[i] = ws[i]
                     /\ r = Exec(Ahead(f.todo, 1), Bind(e, names, ws), w.point, w.set)
  <2> DEFINE ws == <<Val(s.e, e, w.point, w.set)>>
             body == Ahead(f.todo, 0)
  <2>1. r = Exec(body, e, w.point, w.set) /\ Agrees(Z, f.deps, f.env, e, {})
    BY <1>5 DEF Abreast
  <2>2. body \in Seq(Statements) /\ body # <<>> /\ Head(body) = s /\ Tail(body) = Ahead(f.todo, 1)
    BY HeadAhead
  <2>3. r = ExecOf(body, e, w.point, w.set)
    BY <2>1, <2>2 DEF Equations
  <2> HIDE DEF body
  <2>4. r = IF Broken(ws) THEN Raised ELSE Exec(Ahead(f.todo, 1), Bind(e, names, ws), w.point, w.set)
    BY <2>2, <2>3 DEF ExecOf
  <2>5. r = Exec(Ahead(f.todo, 1), Bind(e, names, ws), w.point, w.set)
    BY <1>5, <2>4 DEF Raised
  <2>6. Clean(Z, from) => Val(s.e, e, w.point, w.set) = Val(s.e, f.env, point, key.set)
    BY <1>4, <2>1, SameValue
  <2>7. Clean(Z, sources[1]) => vs[1] = ws[1]
    BY <1>2, <2>6
  <2> HIDE DEF ws, vs, sources
  <2>8. \A i \in DOMAIN names : Clean(Z, sources[i]) => vs[i] = ws[i]
    BY <1>3, <2>7
  <2>9. QED
    BY <2>5, <2>8
<1>6. \A i \in DOMAIN names : Clean(Z, sources[i]) => Clean(Z, Controls(f))
  BY <1>2, <1>3
<1> HIDE DEF vs, sources, names, s, f
<1>7. QED
  BY <1>1, <1>5, <1>6, BoundStep DEF f

(* Whatever step the trace takes, the other stays beside it.               *)
LEMMA MovesShadow ==
  ASSUME Equations, NEW F, NEW H, NEW key, NEW point, FramesShape(F), Moves(F, H, key, point),
         NEW Z, NEW w, Differ(Z, key, point, w.set, w.point), Shadow(F, Z, w)
  PROVE  Shadow(H, Z, w)
<1>1. Here(F).todo # <<>>
  BY DEF Moves
<1>2. CASE Due(Here(F)).k = "read" /\ H = AfterRead(F, point)
  BY <1>1, <1>2, ReadStep
<1>3. CASE Due(Here(F)).k = "let" /\ H = AfterAssign(F, key, point)
  BY <1>1, <1>3, AssignStep
<1>4. CASE Due(Here(F)).k = "when" /\ H = AfterBranch(F, key, point)
  BY <1>1, <1>4, BranchStep
<1>5. CASE /\ Due(Here(F)).k = "ask" /\ H = AfterEnter(F, key, point)
           /\ DOMAIN Due(Here(F)).args = DOMAIN Helper(Due(Here(F)).fn).args
  BY <1>1, <1>5, EnterStep
<1>6. CASE /\ Due(Here(F)).k = "give" /\ H = AfterReturn(F, key, point)
           /\ Len(F) > 1 /\ DOMAIN Due(Here(F)).es = DOMAIN Here(F).dest
  BY <1>1, <1>6, ReturnStep
<1>7. QED
  BY <1>2, <1>3, <1>4, <1>5, <1>6 DEF Moves

(* A trace begins beside every execution of the method.                    *)
LEMMA OpeningShape ==
  ASSUME NEW body \in Seq(Statements)
  PROVE  FramesShape(Opening(body)) /\ Len(Opening(body)) = 1
<1> DEFINE f == NewFrame(NoLocals, NoLocals, body, {}, <<>>)
<1>1. f = MadeFrame(NoLocals, NoLocals, Tagged(body, {}), {}, {}, <<>>)
  BY DEF NewFrame, MadeFrame
<1>2. FrameShape(f)
  BY <1>1, TaggedTodo, MadeFrameParts
<1>3. Opening(body) = <<f>>
  BY DEF Opening
<1> HIDE DEF f
<1>4. <<f>> \in Seq({f}) /\ <<f>> # <<>> /\ DOMAIN <<f>> = {1} /\ <<f>>[1] = f /\ Len(<<f>>) = 1
  OBVIOUS
<1>5. PICK G : G = <<f>>
  OBVIOUS
<1>6. /\ \E S : G \in Seq(S)
      /\ G # <<>> /\ DOMAIN G = {1} /\ G[1] = f /\ Len(G) = 1
  BY <1>4, <1>5, Zenon
<1>7. FramesShape(G)
  BY <1>2, <1>6 DEF FramesShape
<1>8. QED
  BY <1>3, <1>5, <1>6, <1>7, Zenon

LEMMA OpeningShadow ==
  ASSUME NEW body \in Seq(Statements), NEW Z, NEW w, w.outcome.how # "raise",
         w.outcome = Exec(body, NoLocals, w.point, w.set)
  PROVE  Shadow(Opening(body), Z, w)
<1> DEFINE f == NewFrame(NoLocals, NoLocals, body, {}, <<>>)
           F == Opening(body)
<1>1. f = MadeFrame(NoLocals, NoLocals, Tagged(body, {}), {}, {}, <<>>)
  BY DEF NewFrame, MadeFrame
<1>2. f.env = NoLocals /\ f.deps = NoLocals /\ f.todo = Tagged(body, {})
  BY <1>1, MadeFrameParts
<1>3. Len(F) = 1 /\ Here(F) = f
  BY DEF Opening, Here
<1> HIDE DEF f, F
<1>4. w.outcome = Exec(Ahead(f.todo, 0), NoLocals, w.point, w.set)
  BY <1>2, TaggedTodo
<1>5. 0 \in 0 .. Len(f.todo) /\ 1 .. 0 = {}
  <2>1. Len(f.todo) \in Nat
    BY <1>2, TaggedTodo
  <2>2. QED
    BY <2>1
<1>6. Agrees(Z, f.deps, f.env, NoLocals, {})
  BY <1>2 DEF Agrees
<1>7. Abreast(Z, w, f, 0, NoLocals, w.outcome)
  BY <1>4, <1>5, <1>6 DEF Abreast
<1>8. Linked(F, Z, w, 1, w.outcome)
  BY LinkedTop
<1>9. QED
  BY <1>3, <1>7, <1>8 DEF F, Shadow, Beside

(* It ends with the same value for every record whose sources are clean.   *)
Returns(F) == ValuesOf(Due(Here(F)).records)
Sources(F, key, point) ==
  LET f == Here(F)
  IN  [i \in DOMAIN Returns(F) |->
         Merge({Observe(Returns(F)[i], f, Controls(f), key, point).from, Controls(f)})]
Gives(F, key, point) == Evaluated(Returns(F), Here(F).env, point, key.set)
LEMMA DeliveredShadow ==
  ASSUME Equations, NEW F, FramesShape(F), Len(F) = 1, Here(F).todo # <<>>, Due(Here(F)).k = "yield",
         NEW key, NEW point, NEW Z, NEW w, Differ(Z, key, point, w.set, w.point), Shadow(F, Z, w)
  PROVE  \A i \in DOMAIN Returns(F) :
            Clean(Z, Sources(F, key, point)[i]) => w.outcome.out[i] = Gives(F, key, point)[i]
<1> DEFINE f == Here(F)
           s == Due(f)
           es == ValuesOf(s.records)
           From(i) == Observe(es[i], f, Controls(f), key, point).from
<1> SUFFICES ASSUME NEW i \in DOMAIN es, Clean(Z, Merge({From(i), Controls(f)}))
             PROVE  w.outcome.out[i] = Val(es[i], f.env, point, key.set)
  BY DEF Returns, Sources, Gives, Evaluated
<1>1. Clean(Z, From(i)) /\ Clean(Z, Controls(f))
  BY MergeClean
<1>2. ~Lost(Z, f) /\ Clean(Z, f.todo[1].under)
  BY <1>1, OffTaints
<1>3. f = F[1] /\ es[i] \in Terms
  <2>1. s \in Statements /\ s.k = "yield"
    BY HereShape
  <2>2. es[i] \in TermsIn(s)
    BY <2>1 DEF ValuesOf, TermsIn
  <2>3. QED
    BY <2>1, <2>2, SyntaxAssumption DEF Here
<1>4. PICK k, e, r : Linked(F, Z, w, 1, r) /\ Abreast(Z, w, f, k, e, r)
  <2>1. ASSUME NEW d \in 0 .. Len(F) - 1, Beyond(F, Z, w, d) PROVE FALSE
    <3>1. d = 0 /\ 1 \in d + 1 .. Len(F)
      BY <2>1
    <3>2. QED
      BY <1>2, <1>3, <2>1, <3>1 DEF Beyond
  <2>2. QED
    BY <2>1 DEF Shadow, Beside
<1> HIDE DEF f
<1>5. k = 0 /\ Agrees(Z, f.deps, f.env, e, {})
  <2>1. k \in 0 .. Len(f.todo) /\ \A j \in 1 .. k : ~Clean(Z, f.todo[j].under)
    BY <1>4 DEF Abreast
  <2>2. Len(f.todo) \in Nat
    BY HereShape DEF f
  <2>3. 1 \notin 1 .. k
    BY <1>2, <2>1
  <2>4. k = 0
    BY <2>1, <2>2, <2>3
  <2>5. QED
    BY <1>4, <2>4 DEF Abreast
<1> DEFINE body == Ahead(f.todo, 0)
           ws == Evaluated(es, e, w.point, w.set)
<1>6. r = Exec(body, e, w.point, w.set)
  BY <1>4, <1>5 DEF Abreast
<1>7. body \in Seq(Statements) /\ body # <<>> /\ Head(body) = s
  BY HeadAhead DEF f
<1>8. r = ExecOf(body, e, w.point, w.set)
  BY <1>6, <1>7 DEF Equations
<1>9. s.k = "yield"
  BY DEF f
<1> HIDE DEF body, s
<1>10. r = Ended("yield", e, ws)
  BY <1>7, <1>8, <1>9 DEF ExecOf
<1>11. w.outcome = r /\ r.how # "raise"
  BY <1>4, LinkedEnds
<1>12. r.out = ws
  BY <1>10, <1>11 DEF Ended, Raised
<1>13. ws[i] = Val(es[i], e, w.point, w.set)
  BY DEF Evaluated
<1>14. Val(es[i], e, w.point, w.set) = Val(es[i], f.env, point, key.set)
  BY <1>1, <1>3, <1>5, SameValue
<1>15. QED
  BY <1>11, <1>12, <1>13, <1>14

(* A look has its two parts.                                               *)
LEMMA ObservedShape ==
  ASSUME Equations, NEW frame, NEW controls, NEW key, NEW point
  PROVE  \A e \in Terms : LET o == Observe(e, frame, controls, key, point) IN o = Seen(o.from, o.by)
<1> DEFINE O(e) == Observe(e, frame, controls, key, point)
           V(e) == Val(e, frame.env, point, key.set)
           Shaped(o) == o = Seen(o.from, o.by)
           Good == {e \in Terms : Shaped(O(e))}
           Together(os) == Seen(Merge({o.from : o \in os}), UNION {o.by : o \in os})
           Decides(o) == [o EXCEPT !.by = @ \union o.from]
<1>1. ASSUME NEW e \in Terms, \A d \in Parts(e) : d \in Good PROVE e \in Good
  <2>1. O(e) = ObserveOf(e, frame, controls, key, point) /\ e.k \in TermKinds
    BY SyntaxAssumption DEF Equations
  <2>2. \A os : Shaped(Together(os))
    BY DEF Seen
  <2>3. \A from, by : Shaped(Seen(from, by))
    BY DEF Seen
  <2>4. ASSUME NEW o, Shaped(o) PROVE Shaped(Decides(o))
    <3>1. o = Seen(o.from, o.by)
      BY <2>4, Zenon
    <3>2. \A from, by : Decides(Seen(from, by)) = Seen(from, by \union from)
      BY DEF Seen
    <3> HIDE DEF Decides, Shaped
    <3>3. Decides(o) = Seen(o.from, o.by \union o.from)
      BY <3>1, <3>2, Zenon
    <3>4. QED
      BY <2>3, <3>3 DEF Shaped
  <2>5. CASE e.k \in {"num", "loc", "par", "ref", "total", "element"}
    <3>1. \E from, by : O(e) = Seen(from, by)
      BY <2>1, <2>5 DEF ObserveOf
    <3> HIDE DEF O, Shaped
    <3>2. QED
      BY <2>3, <3>1 DEF Shaped
  <2>6. CASE e.k = "op"
    <3>1. O(e) = Together({O(e.args[i]) : i \in DOMAIN e.args})
      BY <2>1, <2>6 DEF ObserveOf
    <3> HIDE DEF O, Together, Shaped
    <3>2. QED
      BY <2>2, <3>1 DEF Shaped
  <2>7. CASE e.k = "entry"
    <3>1. O(e) = O(e.t) /\ e.t \in Parts(e)
      BY <2>1, <2>7 DEF ObserveOf, Parts
    <3>2. QED
      BY <1>1, <3>1
  <2>8. CASE e.k = "select"
    <3>1. O(e) = Together({O(e.t), Decides(O(e.i))})
      BY <2>1, <2>8 DEF ObserveOf
    <3> HIDE DEF O, Together, Decides, Shaped
    <3>2. QED
      BY <2>2, <3>1 DEF Shaped
  <2>9. CASE e.k = "pick"
    <3>1. \/ O(e) = Together({Decides(O(e.t)), O(IF V(e.t) # 0 THEN e.a ELSE e.b)})
          \/ O(e) = Seen({Unknown}, Decides(O(e.t)).by)
      BY <2>1, <2>9 DEF ObserveOf
    <3> HIDE DEF O, Together, Decides, Shaped, V
    <3>2. QED
      BY <2>2, <2>3, <3>1 DEF Shaped
  <2>10. CASE e.k \in {"and", "or"}
    <3>1. \/ O(e) = Seen({Unknown}, Decides(O(e.a)).by)
          \/ O(e) = Decides(O(e.a))
          \/ O(e) = Together({Decides(O(e.a)), O(e.b)})
      <4>1. CASE e.k = "and"
        BY <2>1, <4>1 DEF ObserveOf
      <4>2. CASE e.k = "or"
        BY <2>1, <4>2 DEF ObserveOf
      <4>3. QED
        BY <2>10, <4>1, <4>2
    <3>2. e.a \in Good
      BY <1>1, <2>10 DEF Parts
    <3>3. Shaped(O(e.a))
      BY <3>2
    <3> HIDE DEF O, Together, Decides, Shaped
    <3>4. QED
      BY <2>2, <2>3, <2>4, <3>1, <3>3 DEF Shaped
  <2>11. QED
    BY <2>1, <2>5, <2>6, <2>7, <2>8, <2>9, <2>10 DEF TermKinds
<1>2. QED
  BY <1>1, TermInduction

-----------------------------------------------------------------------------
(* The same trace at another point.  Where the two agree on what is read,  *)
(* expressions have the same values and the same sources.                  *)
AgreeOn(names, point, other) == \A n \in names : Lookup(other, n) = Lookup(point, n)

LEMMA SameReached ==
  ASSUME Equations, NEW frame, NEW controls, NEW key, NEW point, NEW other
  PROVE  \A e \in Terms : AgreeOn(Reached(e, frame.env, point, key.set), point, other) =>
            /\ Val(e, frame.env, other, key.set) = Val(e, frame.env, point, key.set)
            /\ Observe(e, frame, controls, key, other) = Observe(e, frame, controls, key, point)
<1> DEFINE V(e) == Val(e, frame.env, point, key.set)
           W(e) == Val(e, frame.env, other, key.set)
           O(e) == Observe(e, frame, controls, key, point)
           P(e) == Observe(e, frame, controls, key, other)
           R(e) == Reached(e, frame.env, point, key.set)
           Same(e) == W(e) = V(e) /\ P(e) = O(e)
           Good == {e \in Terms : AgreeOn(R(e), point, other) => Same(e)}
<1>1. ASSUME NEW e \in Terms, \A d \in Parts(e) : d \in Good
      PROVE  e \in Good
  <2> SUFFICES ASSUME AgreeOn(R(e), point, other) PROVE Same(e)
    OBVIOUS
  <2>1. /\ V(e) = ValOf(e, frame.env, point, key.set) /\ W(e) = ValOf(e, frame.env, other, key.set)
        /\ O(e) = ObserveOf(e, frame, controls, key, point)
        /\ P(e) = ObserveOf(e, frame, controls, key, other)
        /\ R(e) = ReachedOf(e, frame.env, point, key.set)
    BY DEF Equations
  <2>2. e.k \in TermKinds
    BY SyntaxAssumption
  <2>3. AgreeOn(ReachedOf(e, frame.env, point, key.set), point, other)
    BY <2>1
  <2>4. ASSUME NEW d \in Parts(e), R(d) \subseteq ReachedOf(e, frame.env, point, key.set) PROVE Same(d)
    BY <1>1, <2>3, <2>4 DEF AgreeOn
  <2>5. SUFFICES ValOf(e, frame.env, other, key.set) = ValOf(e, frame.env, point, key.set)
                 /\ ObserveOf(e, frame, controls, key, other) = ObserveOf(e, frame, controls, key, point)
    BY <2>1
  <2> HIDE DEF V, W, O, P, R
  <2>6. CASE e.k \in {"num", "loc", "par"}
    BY <2>6 DEF ValOf, ObserveOf
  <2>7. CASE e.k \in {"ref", "element"}
    <3>1. ReachedOf(e, frame.env, point, key.set) = {e.n}
      BY <2>7 DEF ReachedOf
    <3>2. Lookup(other, e.n) = Lookup(point, e.n)
      BY <2>3, <3>1 DEF AgreeOn
    <3>3. QED
      BY <2>7, <3>2 DEF ValOf, ObserveOf
  <2>8. CASE e.k = "total"
    <3>1. ReachedOf(e, frame.env, point, key.set) = {e.names[i] : i \in DOMAIN e.names}
      BY <2>8 DEF ReachedOf
    <3>2. \A i \in DOMAIN e.names : Lookup(other, e.names[i]) = Lookup(point, e.names[i])
      BY <2>3, <3>1 DEF AgreeOn
    <3>3. [i \in DOMAIN e.names |-> Lookup(other, e.names[i])] = [i \in DOMAIN e.names |-> Lookup(point, e.names[i])]
      BY <3>2
    <3>4. ValOf(e, frame.env, other, key.set) = ValOf(e, frame.env, point, key.set)
      BY <2>8, <3>3 DEF ValOf
    <3>5. QED
      BY <2>8, <3>4 DEF ObserveOf
  <2>9. CASE e.k = "op"
    <3>1. ReachedOf(e, frame.env, point, key.set) = UNION {R(e.args[i]) : i \in DOMAIN e.args}
      BY <2>9 DEF ReachedOf, R
    <3>2. ASSUME NEW i \in DOMAIN e.args PROVE Same(e.args[i])
      <4>1. e.args[i] \in Parts(e) /\ R(e.args[i]) \subseteq ReachedOf(e, frame.env, point, key.set)
        BY <2>9, <3>1 DEF Parts
      <4>2. QED
        BY <2>4, <4>1
    <3>3. [i \in DOMAIN e.args |-> W(e.args[i])] = [i \in DOMAIN e.args |-> V(e.args[i])]
      BY <3>2
    <3>4. ValOf(e, frame.env, other, key.set) = ValOf(e, frame.env, point, key.set)
      BY <2>9, <3>3 DEF ValOf, V, W
    <3>5. {P(e.args[i]) : i \in DOMAIN e.args} = {O(e.args[i]) : i \in DOMAIN e.args}
      BY <3>2
    <3> DEFINE Together(os) == Seen(Merge({o.from : o \in os}), UNION {o.by : o \in os})
    <3>6. /\ ObserveOf(e, frame, controls, key, other) = Together({P(e.args[i]) : i \in DOMAIN e.args})
          /\ ObserveOf(e, frame, controls, key, point) = Together({O(e.args[i]) : i \in DOMAIN e.args})
      BY <2>9 DEF ObserveOf, O, P
    <3> HIDE DEF Together
    <3>7. QED
      BY <3>4, <3>5, <3>6
  <2>10. CASE e.k = "entry"
    <3>1. e.t \in Parts(e) /\ R(e.t) \subseteq ReachedOf(e, frame.env, point, key.set)
      BY <2>10 DEF Parts, ReachedOf, R
    <3>2. Same(e.t)
      BY <2>4, <3>1
    <3>3. QED
      BY <2>10, <3>2 DEF ValOf, ObserveOf, V, W, O, P
  <2>11. CASE e.k = "select"
    <3>1. /\ e.t \in Parts(e) /\ R(e.t) \subseteq ReachedOf(e, frame.env, point, key.set)
          /\ e.i \in Parts(e) /\ R(e.i) \subseteq ReachedOf(e, frame.env, point, key.set)
      BY <2>11 DEF Parts, ReachedOf, R
    <3>2. Same(e.t) /\ Same(e.i)
      BY <2>4, <3>1
    <3>3. QED
      BY <2>11, <3>2 DEF ValOf, ObserveOf, V, W, O, P
  <2>12. CASE e.k = "pick"
    <3> DEFINE arm == IF V(e.t) # 0 THEN e.a ELSE e.b
    <3>1. /\ e.t \in Parts(e) /\ R(e.t) \subseteq ReachedOf(e, frame.env, point, key.set)
          /\ arm \in Parts(e) /\ R(arm) \subseteq ReachedOf(e, frame.env, point, key.set)
      BY <2>12 DEF Parts, ReachedOf, R, V
    <3>2. Same(e.t) /\ Same(arm)
      BY <2>4, <3>1
    <3> DEFINE Together(os) == Seen(Merge({o.from : o \in os}), UNION {o.by : o \in os})
               Decides(o) == [o EXCEPT !.by = @ \union o.from]
    <3>3. /\ ObserveOf(e, frame, controls, key, other) =
               IF Resolvable(e.t) THEN Together({Decides(P(e.t)), P(IF W(e.t) # 0 THEN e.a ELSE e.b)})
               ELSE Seen({Unknown}, Decides(P(e.t)).by)
          /\ ObserveOf(e, frame, controls, key, point) =
               IF Resolvable(e.t) THEN Together({Decides(O(e.t)), O(arm)})
               ELSE Seen({Unknown}, Decides(O(e.t)).by)
      BY <2>12 DEF ObserveOf, V, W, O, P
    <3>4. /\ ValOf(e, frame.env, other, key.set) =
               IF W(e.t) = Undefined THEN Undefined ELSE IF W(e.t) # 0 THEN W(e.a) ELSE W(e.b)
          /\ ValOf(e, frame.env, point, key.set) =
               IF V(e.t) = Undefined THEN Undefined ELSE IF V(e.t) # 0 THEN V(e.a) ELSE V(e.b)
      BY <2>12 DEF ValOf, V, W
    <3> HIDE DEF Together, Decides
    <3>5. QED
      BY <3>2, <3>3, <3>4
  <2>13. CASE e.k = "and"
    <3>1. /\ e.a \in Parts(e) /\ R(e.a) \subseteq ReachedOf(e, frame.env, point, key.set)
          /\ e.b \in Parts(e)
          /\ V(e.a) # 0 => R(e.b) \subseteq ReachedOf(e, frame.env, point, key.set)
      BY <2>13 DEF Parts, ReachedOf, R, V
    <3>2. Same(e.a) /\ (V(e.a) # 0 => Same(e.b))
      BY <2>4, <3>1
    <3> DEFINE Together(os) == Seen(Merge({o.from : o \in os}), UNION {o.by : o \in os})
               Decides(o) == [o EXCEPT !.by = @ \union o.from]
    <3>3. /\ ObserveOf(e, frame, controls, key, other) =
               IF ~Resolvable(e.a) THEN Seen({Unknown}, Decides(P(e.a)).by)
               ELSE IF W(e.a) = 0 THEN Decides(P(e.a)) ELSE Together({Decides(P(e.a)), P(e.b)})
          /\ ObserveOf(e, frame, controls, key, point) =
               IF ~Resolvable(e.a) THEN Seen({Unknown}, Decides(O(e.a)).by)
               ELSE IF V(e.a) = 0 THEN Decides(O(e.a)) ELSE Together({Decides(O(e.a)), O(e.b)})
      BY <2>13 DEF ObserveOf, V, W, O, P
    <3>4. /\ ValOf(e, frame.env, other, key.set) = IF W(e.a) = 0 \/ W(e.a) = Undefined THEN W(e.a) ELSE W(e.b)
          /\ ValOf(e, frame.env, point, key.set) = IF V(e.a) = 0 \/ V(e.a) = Undefined THEN V(e.a) ELSE V(e.b)
      BY <2>13 DEF ValOf, V, W
    <3> HIDE DEF Together, Decides
    <3>5. QED
      BY <3>2, <3>3, <3>4
  <2>14. CASE e.k = "or"
    <3>1. /\ e.a \in Parts(e) /\ R(e.a) \subseteq ReachedOf(e, frame.env, point, key.set)
          /\ e.b \in Parts(e)
          /\ V(e.a) = 0 => R(e.b) \subseteq ReachedOf(e, frame.env, point, key.set)
      BY <2>14 DEF Parts, ReachedOf, R, V
    <3>2. Same(e.a) /\ (V(e.a) = 0 => Same(e.b))
      BY <2>4, <3>1
    <3> DEFINE Together(os) == Seen(Merge({o.from : o \in os}), UNION {o.by : o \in os})
               Decides(o) == [o EXCEPT !.by = @ \union o.from]
    <3>3. /\ ObserveOf(e, frame, controls, key, other) =
               IF ~Resolvable(e.a) THEN Seen({Unknown}, Decides(P(e.a)).by)
               ELSE IF W(e.a) # 0 THEN Decides(P(e.a)) ELSE Together({Decides(P(e.a)), P(e.b)})
          /\ ObserveOf(e, frame, controls, key, point) =
               IF ~Resolvable(e.a) THEN Seen({Unknown}, Decides(O(e.a)).by)
               ELSE IF V(e.a) # 0 THEN Decides(O(e.a)) ELSE Together({Decides(O(e.a)), O(e.b)})
      BY <2>14 DEF ObserveOf, V, W, O, P
    <3>4. /\ ValOf(e, frame.env, other, key.set) = IF W(e.a) # 0 THEN W(e.a) ELSE W(e.b)
          /\ ValOf(e, frame.env, point, key.set) = IF V(e.a) # 0 THEN V(e.a) ELSE V(e.b)
      BY <2>14 DEF ValOf, V, W
    <3> HIDE DEF Together, Decides
    <3>5. QED
      BY <3>2, <3>3, <3>4
  <2>15. QED
    BY <2>2, <2>6, <2>7, <2>8, <2>9, <2>10, <2>11, <2>12, <2>13, <2>14 DEF TermKinds
<1>2. QED
  BY <1>1, TermInduction

(* Where no variable decides anything, they have the same sources whatever *)
(* the point.                                                              *)
LEMMA QuietClean ==
  ASSUME NEW Z, \A source \in Z : IsVariable(source), NEW deps, ~SensitiveTo(deps)
  PROVE  Clean(Z, deps)
BY DEF SensitiveTo, Clean

LEMMA SameSources ==
  ASSUME Equations, NEW Z, \A source \in Z : IsVariable(source),
         NEW f, NEW g, g.deps = f.deps, Agrees(Z, f.deps, f.env, g.env, {}),
         NEW controls, NEW key, NEW point, NEW other, Differ(Z, key, point, key.set, other)
  PROVE  \A e \in Terms : ~SensitiveTo(Observe(e, f, controls, key, point).by) =>
            Observe(e, g, controls, key, other) = Observe(e, f, controls, key, point)
<1> DEFINE V(e) == Val(e, f.env, point, key.set)
           W(e) == Val(e, g.env, other, key.set)
           O(e) == Observe(e, f, controls, key, point)
           P(e) == Observe(e, g, controls, key, other)
           Good == {e \in Terms : ~SensitiveTo(O(e).by) => P(e) = O(e)}
<1>1. ASSUME NEW e \in Terms, ~SensitiveTo(O(e).from) PROVE W(e) = V(e)
  BY <1>1, QuietClean, SameValue
<1>2. ASSUME NEW e \in Terms, \A d \in Parts(e) : d \in Good
      PROVE  e \in Good
  <2> SUFFICES ASSUME ~SensitiveTo(O(e).by) PROVE P(e) = O(e)
    OBVIOUS
  <2>1. /\ O(e) = ObserveOf(e, f, controls, key, point)
        /\ P(e) = ObserveOf(e, g, controls, key, other)
    BY DEF Equations
  <2>2. e.k \in TermKinds /\ \A d \in Parts(e) : d \in Terms
    BY SyntaxAssumption
  <2>3. \A influence : influence \subseteq O(e).by => ~SensitiveTo(influence)
    BY DEF SensitiveTo
  <2>4. ASSUME NEW d \in Parts(e), O(d).by \subseteq O(e).by PROVE P(d) = O(d)
    BY <1>2, <2>3, <2>4
  <2>5. ASSUME NEW d \in Parts(e), O(d).by \union O(d).from \subseteq O(e).by
        PROVE  P(d) = O(d) /\ W(d) = V(d)
    <3>1. O(d).by \subseteq O(e).by /\ O(d).from \subseteq O(e).by
      BY <2>5
    <3>2. W(d) = V(d)
      BY <1>1, <2>2, <2>3, <3>1
    <3>3. QED
      BY <2>4, <3>1, <3>2
  <2>6. SUFFICES ObserveOf(e, g, controls, key, other) = ObserveOf(e, f, controls, key, point)
    BY <2>1
  <2> HIDE DEF V, W, O, P
  <2>7. CASE e.k \in {"num", "par", "ref", "total", "element"}
    BY <2>7 DEF ObserveOf
  <2>8. CASE e.k = "loc"
    BY <2>8 DEF ObserveOf, SourcesOf
  <2> DEFINE Together(os) == Seen(Merge({o.from : o \in os}), UNION {o.by : o \in os})
             Decides(o) == [o EXCEPT !.by = @ \union o.from]
  <2>9. CASE e.k = "op"
    <3>1. /\ ObserveOf(e, g, controls, key, other) = Together({P(e.args[i]) : i \in DOMAIN e.args})
          /\ ObserveOf(e, f, controls, key, point) = Together({O(e.args[i]) : i \in DOMAIN e.args})
      BY <2>9 DEF ObserveOf, O, P
    <3>2. O(e).by = UNION {o.by : o \in {O(e.args[i]) : i \in DOMAIN e.args}}
      BY <2>1, <3>1 DEF Seen
    <3>3. ASSUME NEW i \in DOMAIN e.args PROVE P(e.args[i]) = O(e.args[i])
      <4>1. e.args[i] \in Parts(e) /\ O(e.args[i]).by \subseteq O(e).by
        BY <2>9, <3>2 DEF Parts
      <4>2. QED
        BY <2>4, <4>1
    <3>4. {P(e.args[i]) : i \in DOMAIN e.args} = {O(e.args[i]) : i \in DOMAIN e.args}
      BY <3>3
    <3> HIDE DEF Together
    <3>5. QED
      BY <3>1, <3>4
  <2>10. CASE e.k = "entry"
    <3>1. /\ ObserveOf(e, g, controls, key, other) = P(e.t)
          /\ ObserveOf(e, f, controls, key, point) = O(e.t)
          /\ e.t \in Parts(e)
      BY <2>10 DEF ObserveOf, O, P, Parts
    <3>2. QED
      BY <2>1, <2>4, <3>1
  <2>11. CASE e.k = "select"
    <3>1. /\ ObserveOf(e, g, controls, key, other) = Together({P(e.t), Decides(P(e.i))})
          /\ ObserveOf(e, f, controls, key, point) = Together({O(e.t), Decides(O(e.i))})
          /\ e.t \in Parts(e) /\ e.i \in Parts(e)
      BY <2>11 DEF ObserveOf, O, P, Parts
    <3> HIDE DEF Decides
    <3>2. O(e.t).by \subseteq O(e).by /\ Decides(O(e.i)).by \subseteq O(e).by
      <4>1. O(e).by = UNION {o.by : o \in {O(e.t), Decides(O(e.i))}}
        BY <2>1, <3>1 DEF Seen
      <4>2. QED
        BY <4>1
    <3> HIDE DEF Together
    <3>3. O(e.i).by \subseteq O(e).by
      BY <3>2, ObservedShape DEF Decides, O
    <3>4. P(e.t) = O(e.t) /\ P(e.i) = O(e.i)
      BY <2>4, <3>1, <3>2, <3>3
    <3>5. QED
      BY <3>1, <3>4
  <2>12. CASE e.k = "pick"
    <3>1. e.t \in Parts(e) /\ e.a \in Parts(e) /\ e.b \in Parts(e)
      BY <2>12 DEF Parts
    <3>2. CASE ~Resolvable(e.t)
      <4>1. /\ ObserveOf(e, g, controls, key, other) = Seen({Unknown}, Decides(P(e.t)).by)
            /\ ObserveOf(e, f, controls, key, point) = Seen({Unknown}, Decides(O(e.t)).by)
        BY <2>12, <3>2 DEF ObserveOf, O, P
      <4>2. O(e.t).by \subseteq O(e).by
        BY <2>1, <2>2, <3>1, <4>1, ObservedShape DEF Seen, O
      <4> HIDE DEF Decides
      <4>3. QED
        BY <2>4, <3>1, <4>1, <4>2
    <3>3. CASE Resolvable(e.t)
      <4> DEFINE arm == IF V(e.t) # 0 THEN e.a ELSE e.b
                 brm == IF W(e.t) # 0 THEN e.a ELSE e.b
      <4>1. /\ ObserveOf(e, g, controls, key, other) = Together({Decides(P(e.t)), P(brm)})
            /\ ObserveOf(e, f, controls, key, point) = Together({Decides(O(e.t)), O(arm)})
        BY <2>12, <3>3 DEF ObserveOf, O, P, V, W
      <4> HIDE DEF Decides
      <4>2. Decides(O(e.t)).by \subseteq O(e).by /\ O(arm).by \subseteq O(e).by
        <5>1. O(e).by = UNION {o.by : o \in {Decides(O(e.t)), O(arm)}}
          BY <2>1, <4>1 DEF Seen
        <5>2. QED
          BY <5>1
      <4> HIDE DEF Together
      <4>3. O(e.t).by \union O(e.t).from \subseteq O(e).by
        BY <2>2, <3>1, <4>2, ObservedShape DEF Decides, O
      <4>4. P(e.t) = O(e.t) /\ arm = brm /\ P(arm) = O(arm)
        BY <2>4, <2>5, <3>1, <4>2, <4>3
      <4>5. QED
        BY <4>1, <4>4
    <3>4. QED
      BY <3>2, <3>3
  <2>13. CASE e.k \in {"and", "or"}
    <3>1. e.a \in Parts(e) /\ e.b \in Parts(e)
      BY <2>13 DEF Parts
    <3> DEFINE stops == IF e.k = "and" THEN V(e.a) = 0 ELSE V(e.a) # 0
               halts == IF e.k = "and" THEN W(e.a) = 0 ELSE W(e.a) # 0
    <3>2. /\ ObserveOf(e, g, controls, key, other) =
               IF ~Resolvable(e.a) THEN Seen({Unknown}, Decides(P(e.a)).by)
               ELSE IF halts THEN Decides(P(e.a)) ELSE Together({Decides(P(e.a)), P(e.b)})
          /\ ObserveOf(e, f, controls, key, point) =
               IF ~Resolvable(e.a) THEN Seen({Unknown}, Decides(O(e.a)).by)
               ELSE IF stops THEN Decides(O(e.a)) ELSE Together({Decides(O(e.a)), O(e.b)})
      <4>1. CASE e.k = "and"
        BY <4>1 DEF ObserveOf, O, P, V, W
      <4>2. CASE e.k = "or"
        BY <4>2 DEF ObserveOf, O, P, V, W
      <4>3. QED
        BY <2>13, <4>1, <4>2
    <3>3. Seen({Unknown}, Decides(O(e.a)).by).by = Decides(O(e.a)).by
      BY DEF Seen
    <3> HIDE DEF Decides, stops, halts
    <3>4. Decides(O(e.a)).by \subseteq O(e).by /\ (Resolvable(e.a) /\ ~stops => O(e.b).by \subseteq O(e).by)
      <4>1. Together({Decides(O(e.a)), O(e.b)}).by = UNION {o.by : o \in {Decides(O(e.a)), O(e.b)}}
        BY DEF Seen
      <4> HIDE DEF Together
      <4>2. CASE ~Resolvable(e.a)
        BY <2>1, <3>2, <3>3, <4>2
      <4>3. CASE Resolvable(e.a) /\ stops
        BY <2>1, <3>2, <4>3
      <4>4. CASE Resolvable(e.a) /\ ~stops
        <5>1. O(e) = Together({Decides(O(e.a)), O(e.b)})
          BY <2>1, <3>2, <4>4
        <5>2. O(e).by = UNION {o.by : o \in {Decides(O(e.a)), O(e.b)}}
          BY <4>1, <5>1, Zenon
        <5>3. QED
          BY <5>2
      <4>5. QED
        BY <4>2, <4>3, <4>4
    <3> HIDE DEF Together
    <3>5. O(e.a).by \union O(e.a).from \subseteq O(e).by
      BY <2>2, <3>1, <3>4, ObservedShape DEF Decides, O
    <3>6. P(e.a) = O(e.a) /\ W(e.a) = V(e.a) /\ (Resolvable(e.a) /\ ~stops => P(e.b) = O(e.b))
      BY <2>4, <2>5, <3>1, <3>4, <3>5
    <3>7. halts = stops
      BY <3>6 DEF halts, stops
    <3>8. QED
      BY <3>2, <3>6, <3>7
  <2>14. QED
    BY <2>2, <2>7, <2>8, <2>9, <2>10, <2>11, <2>12, <2>13 DEF TermKinds
<1>3. QED
  BY <1>2, TermInduction

(* What a step of the trace reads in the registry.                         *)
Gets(F, key, point) ==
  LET f == Here(F)
      s == Due(f)
  IN  IF s.k = "read" THEN Named(s.names)
      ELSE UNION {Reached(e, f.env, point, key.set) : e \in TermsIn(s)}

LEMMA DueTerms ==
  ASSUME NEW F, FramesShape(F), Here(F).todo # <<>>
  PROVE  /\ TermsIn(Due(Here(F))) \subseteq Terms
         /\ Due(Here(F)).k = "let" => Due(Here(F)).e \in TermsIn(Due(Here(F)))
         /\ Due(Here(F)).k = "when" => Due(Here(F)).t \in TermsIn(Due(Here(F)))
         /\ Due(Here(F)).k = "ask" =>
               \A i \in DOMAIN Due(Here(F)).args : Due(Here(F)).args[i] \in TermsIn(Due(Here(F)))
         /\ Due(Here(F)).k = "give" =>
               \A i \in DOMAIN Due(Here(F)).es : Due(Here(F)).es[i] \in TermsIn(Due(Here(F)))
         /\ Due(Here(F)).k = "yield" =>
               \A i \in DOMAIN Due(Here(F)).records :
                  Due(Here(F)).records[i].value \in TermsIn(Due(Here(F)))
<1>1. Due(Here(F)) \in Statements
  BY HereShape
<1>2. TermsIn(Due(Here(F))) \subseteq Terms
  BY <1>1, SyntaxAssumption
<1>3. QED
  BY <1>2 DEF TermsIn

(* A step takes the same frames to the same frames at another point that   *)
(* agrees on what it reads.                                                *)
LEMMA MovesSame ==
  ASSUME Equations, NEW F, FramesShape(F), NEW H, NEW key, NEW point, NEW other,
         Moves(F, H, key, point), AgreeOn(Gets(F, key, point), point, other)
  PROVE  Moves(F, H, key, other)
<1> DEFINE f == Here(F)
           s == Due(f)
<1>1. f.todo # <<>>
  BY DEF Moves
<1>2. ASSUME s.k # "read", NEW e \in TermsIn(s)
      PROVE  /\ Val(e, f.env, other, key.set) = Val(e, f.env, point, key.set)
             /\ Observe(e, f, Controls(f), key, other) = Observe(e, f, Controls(f), key, point)
  <2>1. e \in Terms
    BY <1>1, <1>2, DueTerms
  <2>2. AgreeOn(Reached(e, f.env, point, key.set), point, other)
    BY <1>2 DEF AgreeOn, Gets
  <2>3. QED
    BY <2>1, <2>2, SameReached
<1>3. CASE s.k = "read" /\ H = AfterRead(F, point)
  <2>1. Readings(s.names, other) = Readings(s.names, point)
    BY <1>3 DEF AgreeOn, Gets, Readings, Named
  <2>2. AfterRead(F, other) = AfterRead(F, point)
    BY <2>1 DEF AfterRead
  <2>3. QED
    BY <1>1, <1>3, <2>2 DEF Moves
<1>4. CASE s.k = "let" /\ H = AfterAssign(F, key, point)
  <2>1. s.e \in TermsIn(s)
    BY <1>1, <1>4, DueTerms
  <2>2. AfterAssign(F, key, other) = AfterAssign(F, key, point)
    BY <1>2, <1>4, <2>1 DEF AfterAssign
  <2>3. QED
    BY <1>1, <1>4, <2>2 DEF Moves
<1>5. CASE s.k = "when" /\ H = AfterBranch(F, key, point)
  <2>1. s.t \in TermsIn(s)
    BY <1>1, <1>5, DueTerms
  <2>2. /\ Val(s.t, f.env, other, key.set) = Val(s.t, f.env, point, key.set)
        /\ Influence(f, key, other) = Influence(f, key, point)
    BY <1>2, <1>5, <2>1 DEF Influence
  <2>3. AfterBranch(F, key, other) = AfterBranch(F, key, point)
    BY <2>2 DEF AfterBranch
  <2>4. QED
    BY <1>1, <1>5, <2>3 DEF Moves
<1>6. CASE /\ s.k = "ask" /\ H = AfterEnter(F, key, point)
           /\ DOMAIN s.args = DOMAIN Helper(s.fn).args
  <2>1. \A i \in DOMAIN s.args : s.args[i] \in TermsIn(s)
    BY <1>1, <1>6, DueTerms
  <2>2. /\ Evaluated(s.args, f.env, other, key.set) = Evaluated(s.args, f.env, point, key.set)
        /\ Looks(s.args, f, key, other) = Looks(s.args, f, key, point)
    BY <1>2, <1>6, <2>1 DEF Evaluated, Looks
  <2>3. AfterEnter(F, key, other) = AfterEnter(F, key, point)
    BY <2>2 DEF AfterEnter
  <2>4. QED
    BY <1>1, <1>6, <2>3 DEF Moves
<1>7. CASE /\ s.k = "give" /\ H = AfterReturn(F, key, point)
           /\ Len(F) > 1 /\ DOMAIN s.es = DOMAIN f.dest
  <2>1. \A i \in DOMAIN s.es : s.es[i] \in TermsIn(s)
    BY <1>1, <1>7, DueTerms
  <2>2. /\ Evaluated(s.es, f.env, other, key.set) = Evaluated(s.es, f.env, point, key.set)
        /\ Looks(s.es, f, key, other) = Looks(s.es, f, key, point)
    BY <1>2, <1>7, <2>1 DEF Evaluated, Looks
  <2>3. AfterReturn(F, key, other) = AfterReturn(F, key, point)
    BY <2>2 DEF AfterReturn
  <2>4. QED
    BY <1>1, <1>7, <2>3 DEF Moves
<1>8. QED
  BY <1>3, <1>4, <1>5, <1>6, <1>7 DEF Moves
(* A trace at another point whose locals differ only in what those in Z    *)
(* change, and which is otherwise the same.                                *)
Twin(Z, f, g) ==
  /\ g.deps = f.deps /\ g.todo = f.todo /\ g.gates = f.gates
  /\ g.inherited = f.inherited /\ g.dest = f.dest
  /\ Agrees(Z, f.deps, f.env, g.env, {})
Twins(Z, F, G) ==
  /\ FramesShape(G) /\ Len(G) = Len(F)
  /\ \A i \in 1 .. Len(F) : Twin(Z, F[i], G[i])
(* What decides over the step.                                             *)
Heeds(F, key, point) ==
  LET f == Here(F)
      s == Due(f)
      looked == UNION {Observe(e, f, Controls(f), key, point).by : e \in TermsIn(s)}
  IN  IF s.k = "when" THEN looked \union Influence(f, key, point) ELSE looked

LEMMA TwinLooks ==
  ASSUME Equations, NEW Z, \A source \in Z : IsVariable(source), NEW f, NEW g, Twin(Z, f, g),
         NEW key, NEW point, NEW other, Differ(Z, key, point, key.set, other)
  PROVE  /\ Controls(g) = Controls(f)
         /\ \A e \in Terms : LET o == Observe(e, f, Controls(f), key, point) IN
               ~SensitiveTo(o.by) =>
                  /\ Observe(e, g, Controls(g), key, other) = o
                  /\ Clean(Z, o.from) => Val(e, g.env, other, key.set) = Val(e, f.env, point, key.set)
<1>1. Controls(g) = Controls(f)
  BY DEF Controls, Twin
<1>2. g.deps = f.deps /\ Agrees(Z, f.deps, f.env, g.env, {})
  BY DEF Twin
<1>3. \A e \in Terms : ~SensitiveTo(Observe(e, f, Controls(f), key, point).by) =>
         Observe(e, g, Controls(f), key, other) = Observe(e, f, Controls(f), key, point)
  BY <1>2, SameSources
<1>4. \A e \in Terms : Clean(Z, Observe(e, f, Controls(f), key, point).from) =>
         Val(e, g.env, other, key.set) = Val(e, f.env, point, key.set)
  BY <1>2, SameValue
<1>5. QED
  BY <1>1, <1>3, <1>4, Zenon

LEMMA TwinReplaced ==
  ASSUME NEW Z, NEW F, FramesShape(F), NEW G, Twins(Z, F, G), NEW f, NEW g, FrameShape(g), Twin(Z, f, g)
  PROVE  Twins(Z, Replaced(F, f), Replaced(G, g))
<1> DEFINE H == Replaced(F, f)
           K == Replaced(G, g)
           n == Len(F)
<1>1. FramesShape(G) /\ Len(G) = n /\ \A i \in 1 .. n : Twin(Z, F[i], G[i])
  BY DEF Twins
<1>2. FramesShape(K)
  BY <1>1, ReplacedShape
<1>3. Len(H) = n /\ H[n] = f /\ \A i \in 1 .. n - 1 : H[i] = F[i]
  BY ReplacedFrame DEF FramesShape
<1>4. n \in Nat /\ Len(K) = n /\ K[n] = g /\ \A i \in 1 .. n - 1 : K[i] = G[i]
  BY <1>1, ReplacedFrame DEF FramesShape
<1> HIDE DEF H, K, n
<1>5. ASSUME NEW i \in 1 .. n PROVE Twin(Z, H[i], K[i])
  <2>1. i = n \/ i \in 1 .. n - 1
    BY <1>4
  <2>2. QED
    BY <1>1, <1>3, <1>4, <2>1
<1>6. QED
  BY <1>2, <1>3, <1>4, <1>5 DEF Twins, H, K

LEMMA TwinBound ==
  ASSUME NEW Z, NEW f, NEW g, Twin(Z, f, g), FrameShape(f), FrameShape(g), f.todo # <<>>,
         NEW names, NEW vs, NEW ws, NEW sources,
         \A i \in DOMAIN names : Clean(Z, sources[i]) => vs[i] = ws[i]
  PROVE  /\ Twin(Z, Bound(f, names, vs, sources), Bound(g, names, ws, sources))
         /\ FrameShape(Bound(g, names, ws, sources))
<1> DEFINE h == Bound(f, names, vs, sources)
           k == Bound(g, names, ws, sources)
<1>1. /\ g.deps = f.deps /\ g.todo = f.todo /\ g.gates = f.gates
      /\ g.inherited = f.inherited /\ g.dest = f.dest /\ Agrees(Z, f.deps, f.env, g.env, {})
  BY DEF Twin
<1>2. /\ h.todo = Tail(f.todo) /\ h.env = Bind(f.env, names, vs) /\ h.deps = Bind(f.deps, names, sources)
      /\ h.gates = f.gates /\ h.inherited = f.inherited /\ h.dest = f.dest
  BY BoundShape
<1>3. /\ FrameShape(k)
      /\ k.todo = Tail(g.todo) /\ k.env = Bind(g.env, names, ws) /\ k.deps = Bind(g.deps, names, sources)
      /\ k.gates = g.gates /\ k.inherited = g.inherited /\ k.dest = g.dest
  BY <1>1, BoundShape
<1> HIDE DEF h, k
<1>4. Agrees(Z, Bind(f.deps, names, sources), Bind(f.env, names, vs), Bind(g.env, names, ws), {})
  BY <1>1, BindAgrees
<1>5. QED
  BY <1>1, <1>2, <1>3, <1>4 DEF Twin, h, k

LEMMA TwinHere ==
  ASSUME NEW Z, NEW F, FramesShape(F), NEW G, Twins(Z, F, G)
  PROVE  /\ Twin(Z, Here(F), Here(G)) /\ FrameShape(Here(F)) /\ FrameShape(Here(G)) /\ FramesShape(G)
         /\ Here(G).todo = Here(F).todo /\ Here(G).dest = Here(F).dest /\ Due(Here(G)) = Due(Here(F))
<1>1. FramesShape(G) /\ Len(G) = Len(F) /\ \A i \in 1 .. Len(F) : Twin(Z, F[i], G[i])
  BY DEF Twins
<1>2. Len(F) \in 1 .. Len(F)
  <2>1. \E S : F \in Seq(S) /\ F # <<>>
    BY DEF FramesShape
  <2>2. QED
    BY <2>1, EmptySeq
<1>3. Twin(Z, Here(F), Here(G))
  BY <1>1, <1>2 DEF Here
<1>4. QED
  BY <1>1, <1>3, HereShape DEF Twin, Due
LEMMA TwinRead ==
  ASSUME NEW Z, NEW F, FramesShape(F), NEW G, Twins(Z, F, G), Here(F).todo # <<>>,
         NEW key, NEW point, NEW other, Differ(Z, key, point, key.set, other)
  PROVE  Twins(Z, AfterRead(F, point), AfterRead(G, other))
<1> DEFINE f == Here(F)
           g == Here(G)
           names == Due(f).names
           vs == Readings(names, point)
           ws == Readings(names, other)
           sources == [i \in DOMAIN names |-> Merge({{Variable(names[i])}, Controls(f)})]
<1>1. Twin(Z, f, g) /\ FrameShape(f) /\ FrameShape(g) /\ Due(g) = Due(f)
  BY TwinHere
<1>2. Controls(g) = Controls(f)
  BY <1>1 DEF Controls, Twin
<1>3. AfterRead(F, point) = Replaced(F, Bound(f, names, vs, sources))
  BY DEF AfterRead
<1>4. AfterRead(G, other) = Replaced(G, Bound(g, names, ws, sources))
  BY <1>1, <1>2 DEF AfterRead
<1>5. ASSUME NEW i \in DOMAIN names, Clean(Z, sources[i]) PROVE vs[i] = ws[i]
  <2>1. Clean(Z, {Variable(names[i])})
    BY <1>5, MergeClean
  <2>2. Variable(names[i]) \notin Z
    BY <2>1 DEF Clean
  <2>3. QED
    BY <1>5, <2>2 DEF Readings, Differ
<1> HIDE DEF vs, ws, sources, names, f, g
<1>6. /\ Twin(Z, Bound(f, names, vs, sources), Bound(g, names, ws, sources))
      /\ FrameShape(Bound(g, names, ws, sources))
  BY <1>1, <1>5, TwinBound DEF f
<1>7. Twins(Z, Replaced(F, Bound(f, names, vs, sources)), Replaced(G, Bound(g, names, ws, sources)))
  BY <1>6, TwinReplaced
<1>8. QED
  BY <1>3, <1>4, <1>7

LEMMA TwinAssign ==
  ASSUME Equations, NEW Z, \A source \in Z : IsVariable(source),
         NEW F, FramesShape(F), NEW G, Twins(Z, F, G), Here(F).todo # <<>>, Due(Here(F)).k = "let",
         NEW key, NEW point, NEW other, Differ(Z, key, point, key.set, other),
         ~SensitiveTo(Heeds(F, key, point))
  PROVE  Twins(Z, AfterAssign(F, key, point), AfterAssign(G, key, other))
<1> DEFINE f == Here(F)
           g == Here(G)
           s == Due(f)
           names == <<s.x>>
           o == Observe(s.e, f, Controls(f), key, point)
           vs == <<Val(s.e, f.env, point, key.set)>>
           ws == <<Val(s.e, g.env, other, key.set)>>
           sources == <<Merge({o.from, Controls(f)})>>
<1>1. Twin(Z, f, g) /\ FrameShape(f) /\ FrameShape(g) /\ Due(g) = Due(f)
  BY TwinHere
<1>2. s.e \in TermsIn(s) /\ s.e \in Terms
  BY DueTerms
<1>3. ~SensitiveTo(o.by)
  BY <1>2 DEF SensitiveTo, Heeds
<1>4. /\ Controls(g) = Controls(f) /\ Observe(s.e, g, Controls(g), key, other) = o
      /\ Clean(Z, o.from) => ws[1] = vs[1]
  BY <1>1, <1>2, <1>3, TwinLooks
<1>5. AfterAssign(F, key, point) = Replaced(F, Bound(f, names, vs, sources))
  BY DEF AfterAssign
<1>6. AfterAssign(G, key, other) = Replaced(G, Bound(g, names, ws, sources))
  BY <1>1, <1>4 DEF AfterAssign
<1>7. Clean(Z, sources[1]) => Clean(Z, o.from)
  BY MergeClean
<1>8. DOMAIN names = {1}
  OBVIOUS
<1> HIDE DEF vs, ws, sources, names, o, s, f, g
<1>9. \A i \in DOMAIN names : Clean(Z, sources[i]) => vs[i] = ws[i]
  BY <1>4, <1>7, <1>8
<1>10. /\ Twin(Z, Bound(f, names, vs, sources), Bound(g, names, ws, sources))
       /\ FrameShape(Bound(g, names, ws, sources))
  BY <1>1, <1>9, TwinBound DEF f
<1>11. Twins(Z, Replaced(F, Bound(f, names, vs, sources)), Replaced(G, Bound(g, names, ws, sources)))
  BY <1>10, TwinReplaced
<1>12. QED
  BY <1>5, <1>6, <1>11

(* No variable decides, so both take the same arm.                         *)
LEMMA TwinBranch ==
  ASSUME Equations, NEW Z, \A source \in Z : IsVariable(source),
         NEW F, FramesShape(F), NEW G, Twins(Z, F, G), Here(F).todo # <<>>, Due(Here(F)).k = "when",
         NEW key, NEW point, NEW other, Differ(Z, key, point, key.set, other),
         ~SensitiveTo(Heeds(F, key, point))
  PROVE  Twins(Z, AfterBranch(F, key, point), AfterBranch(G, key, other))
<1> DEFINE f == Here(F)
           g == Here(G)
           s == Due(f)
           o == Observe(s.t, f, Controls(f), key, point)
           influence == Influence(f, key, point)
<1>1. /\ Twin(Z, f, g) /\ FrameShape(f) /\ FrameShape(g) /\ FramesShape(G)
      /\ g.todo = f.todo /\ Due(g) = Due(f)
  BY TwinHere
<1>2. s.t \in TermsIn(s) /\ s.t \in Terms
  BY DueTerms
<1>3. ~SensitiveTo(o.by) /\ ~SensitiveTo(influence)
  BY <1>2 DEF SensitiveTo, Heeds
<1>4. influence = Merge({o.from, Controls(f)})
  BY DEF Influence
<1>5. Clean(Z, o.from)
  <2>1. Clean(Z, influence)
    BY <1>3, QuietClean
  <2>2. QED
    BY <1>4, <2>1, MergeClean
<1>6. /\ Controls(g) = Controls(f) /\ Observe(s.t, g, Controls(g), key, other) = o
      /\ Val(s.t, g.env, other, key.set) = Val(s.t, f.env, point, key.set)
  BY <1>1, <1>2, <1>3, <1>5, TwinLooks
<1>7. Influence(g, key, other) = influence
  BY <1>1, <1>4, <1>6 DEF Influence
<1>8. /\ AfterBranch(F, key, point) = Replaced(F, Branched(f, key, point))
      /\ AfterBranch(G, key, other) = Replaced(G, Branched(g, key, other))
      /\ FrameShape(Branched(g, key, other))
  BY <1>1, BranchedShape
<1>9. Twin(Z, Branched(f, key, point), Branched(g, key, other))
  <2> DEFINE arms == s.a \o s.b
             arm == IF Val(s.t, f.env, point, key.set) # 0 THEN s.a ELSE s.b
             deps == Influenced(f.deps, Targets(arms), influence)
             todo == Tagged(arm, influence) \o Tail(f.todo)
             gates == IF MayLeave(arms) THEN Merge({f.gates, influence}) ELSE f.gates
  <2>1. Branched(f, key, point) = MadeFrame(f.env, deps, todo, gates, f.inherited, f.dest)
    BY DEF Branched
  <2>2. /\ g.deps = f.deps /\ g.todo = f.todo /\ g.gates = f.gates
        /\ g.inherited = f.inherited /\ g.dest = f.dest /\ Agrees(Z, f.deps, f.env, g.env, {})
    BY <1>1 DEF Twin
  <2>3. Branched(g, key, other) = MadeFrame(g.env, deps, todo, gates, f.inherited, f.dest)
    BY <1>1, <1>6, <1>7, <2>2 DEF Branched
  <2>4. Agrees(Z, deps, f.env, g.env, {})
    BY <2>2, InfluenceAgrees
  <2> HIDE DEF deps, todo, gates
  <2>5. QED
    BY <2>1, <2>3, <2>4, MadeFrameParts DEF Twin
<1>10. QED
  BY <1>8, <1>9, TwinReplaced
LEMMA TwinEnter ==
  ASSUME Equations, NEW Z, \A source \in Z : IsVariable(source),
         NEW F, FramesShape(F), NEW G, Twins(Z, F, G), Here(F).todo # <<>>, Due(Here(F)).k = "ask",
         DOMAIN Due(Here(F)).args = DOMAIN Helper(Due(Here(F)).fn).args,
         NEW key, NEW point, NEW other, Differ(Z, key, point, key.set, other),
         ~SensitiveTo(Heeds(F, key, point)),
         FramesShape(AfterEnter(G, key, other))
  PROVE  Twins(Z, AfterEnter(F, key, point), AfterEnter(G, key, other))
<1> DEFINE f == Here(F)
           g == Here(G)
           s == Due(f)
           h == Helper(s.fn)
           n == Len(F)
           H == AfterEnter(F, key, point)
           K == AfterEnter(G, key, other)
           from == [i \in DOMAIN s.args |-> Observe(s.args[i], f, Controls(f), key, point).from]
           vs == Evaluated(s.args, f.env, point, key.set)
           ws == Evaluated(s.args, g.env, other, key.set)
<1>1. /\ Twin(Z, f, g) /\ FramesShape(G) /\ g.todo = f.todo /\ Due(g) = Due(f)
  BY TwinHere
<1>2. /\ Controls(g) = Controls(f)
      /\ \A i \in DOMAIN s.args :
            /\ Observe(s.args[i], g, Controls(g), key, other) = Observe(s.args[i], f, Controls(f), key, point)
            /\ Clean(Z, from[i]) => vs[i] = ws[i]
  <2>1. \A i \in DOMAIN s.args : s.args[i] \in TermsIn(s) /\ s.args[i] \in Terms
    BY DueTerms
  <2>2. \A i \in DOMAIN s.args : ~SensitiveTo(Observe(s.args[i], f, Controls(f), key, point).by)
    BY <2>1 DEF SensitiveTo, Heeds
  <2>3. Controls(g) = Controls(f)
    BY <1>1 DEF Controls, Twin
  <2>4. ASSUME NEW i \in DOMAIN s.args
        PROVE  /\ Observe(s.args[i], g, Controls(g), key, other) = Observe(s.args[i], f, Controls(f), key, point)
               /\ Clean(Z, from[i]) => vs[i] = ws[i]
    <3> DEFINE e == s.args[i]
               o == Observe(e, f, Controls(f), key, point)
    <3>1. e \in Terms /\ ~SensitiveTo(o.by)
      BY <2>1, <2>2, <2>4
    <3>2. from[i] = o.from /\ vs[i] = Val(e, f.env, point, key.set) /\ ws[i] = Val(e, g.env, other, key.set)
      BY <2>4 DEF Evaluated
    <3> HIDE DEF e
    <3>3. /\ Observe(e, g, Controls(g), key, other) = o
          /\ Clean(Z, o.from) => Val(e, g.env, other, key.set) = Val(e, f.env, point, key.set)
      BY <1>1, <3>1, TwinLooks
    <3>4. QED
      BY <3>2, <3>3 DEF e
  <2>5. QED
    BY <2>3, <2>4
<1>3. H = Append(F, Entered(f, key, point)) /\ K = Append(G, Entered(g, key, other))
  BY <1>1, EnteredShape
<1>4. Twin(Z, Entered(f, key, point), Entered(g, key, other))
  <2> DEFINE env == Bind(NoLocals, h.args, vs)
             env2 == Bind(NoLocals, h.args, ws)
             deps == Bind(NoLocals, h.args, from)
             todo == Tagged(h.body, {})
             looks == Looks(s.args, f, key, point)
             looks2 == Looks(s.args, g, key, other)
  <2>1. [i \in DOMAIN looks |-> looks[i].from] = from
    BY DEF Looks
  <2>2. looks2 = looks
    BY <1>2 DEF Looks
  <2>3. Entered(f, key, point) = MadeFrame(env, deps, todo, {}, Controls(f), s.xs)
    BY <2>1 DEF Entered
  <2>4. Entered(g, key, other) = MadeFrame(env2, deps, todo, {}, Controls(f), s.xs)
    BY <1>1, <1>2, <2>1, <2>2 DEF Entered
  <2>5. Agrees(Z, deps, env, env2, {})
    <3>1. Agrees(Z, NoLocals, NoLocals, NoLocals, {})
      BY DEF Agrees
    <3>2. \A i \in DOMAIN h.args : Clean(Z, from[i]) => vs[i] = ws[i]
      BY <1>2
    <3> HIDE DEF from, vs, ws, h
    <3>3. QED
      BY <3>1, <3>2, BindAgrees
  <2> HIDE DEF env, env2, deps, todo
  <2>6. QED
    BY <2>3, <2>4, <2>5, MadeFrameParts DEF Twin
<1>5. Len(G) = n /\ \A i \in 1 .. n : Twin(Z, F[i], G[i])
  BY DEF Twins
<1> DEFINE p == Entered(f, key, point)
           q == Entered(g, key, other)
<1>6. /\ n \in Nat /\ Len(H) = n + 1 /\ H[n + 1] = p /\ \A i \in 1 .. n : H[i] = F[i]
  BY <1>3, AddedFrame DEF FramesShape
<1>7. /\ Len(K) = n + 1 /\ K[n + 1] = q /\ \A i \in 1 .. n : K[i] = G[i]
  BY <1>1, <1>3, <1>5, AddedFrame DEF FramesShape
<1> HIDE DEF H, K, p, q, n, f, g, s, h
<1>8. ASSUME NEW i \in 1 .. Len(H) PROVE Twin(Z, H[i], K[i])
  <2>1. i = n + 1 \/ i \in 1 .. n
    BY <1>6
  <2>2. QED
    BY <1>4, <1>5, <1>6, <1>7, <2>1 DEF p, q
<1>9. QED
  BY <1>6, <1>7, <1>8 DEF Twins, H, K

LEMMA TwinReturn ==
  ASSUME Equations, NEW Z, \A source \in Z : IsVariable(source),
         NEW F, FramesShape(F), NEW G, Twins(Z, F, G), Here(F).todo # <<>>, Due(Here(F)).k = "give",
         Len(F) > 1, DOMAIN Due(Here(F)).es = DOMAIN Here(F).dest,
         NEW key, NEW point, NEW other, Differ(Z, key, point, key.set, other),
         ~SensitiveTo(Heeds(F, key, point)),
         FramesShape(AfterReturn(G, key, other))
  PROVE  Twins(Z, AfterReturn(F, key, point), AfterReturn(G, key, other))
<1> DEFINE f == Here(F)
           g == Here(G)
           s == Due(f)
           n == Len(F)
           c == F[n - 1]
           d == G[n - 1]
           H == AfterReturn(F, key, point)
           K == AfterReturn(G, key, other)
           from == [i \in DOMAIN s.es |->
                      Merge({Observe(s.es[i], f, Controls(f), key, point).from, Controls(f), Controls(c)})]
           vs == Evaluated(s.es, f.env, point, key.set)
           ws == Evaluated(s.es, g.env, other, key.set)
<1>1. /\ Twin(Z, f, g) /\ FramesShape(G) /\ g.dest = f.dest /\ Due(g) = Due(f)
  BY TwinHere
<1>2. /\ Controls(g) = Controls(f)
      /\ \A i \in DOMAIN s.es :
            /\ Observe(s.es[i], g, Controls(g), key, other) = Observe(s.es[i], f, Controls(f), key, point)
            /\ Clean(Z, from[i]) => vs[i] = ws[i]
  <2>1. \A i \in DOMAIN s.es : s.es[i] \in TermsIn(s) /\ s.es[i] \in Terms
    BY DueTerms
  <2>2. \A i \in DOMAIN s.es : ~SensitiveTo(Observe(s.es[i], f, Controls(f), key, point).by)
    BY <2>1 DEF SensitiveTo, Heeds
  <2>3. Controls(g) = Controls(f)
    BY <1>1 DEF Controls, Twin
  <2>4. ASSUME NEW i \in DOMAIN s.es
        PROVE  /\ Observe(s.es[i], g, Controls(g), key, other) = Observe(s.es[i], f, Controls(f), key, point)
               /\ Clean(Z, from[i]) => vs[i] = ws[i]
    <3> DEFINE e == s.es[i]
               o == Observe(e, f, Controls(f), key, point)
    <3>1. e \in Terms /\ ~SensitiveTo(o.by)
      BY <2>1, <2>2, <2>4
    <3>2. vs[i] = Val(e, f.env, point, key.set) /\ ws[i] = Val(e, g.env, other, key.set)
      BY <2>4 DEF Evaluated
    <3>3. Clean(Z, from[i]) => Clean(Z, o.from)
      BY <2>4, MergeClean
    <3> HIDE DEF e, from, vs, ws
    <3>4. /\ Observe(e, g, Controls(g), key, other) = o
          /\ Clean(Z, o.from) => Val(e, g.env, other, key.set) = Val(e, f.env, point, key.set)
      BY <1>1, <3>1, TwinLooks
    <3>5. QED
      BY <3>2, <3>3, <3>4 DEF e
  <2>5. QED
    BY <2>3, <2>4
<1>3. Len(G) = n /\ n \in Nat \ {0} /\ n - 1 \in 1 .. n /\ \A i \in 1 .. n : Twin(Z, F[i], G[i])
  <2>1. Len(G) = n /\ \A i \in 1 .. n : Twin(Z, F[i], G[i])
    BY DEF Twins
  <2>2. n \in Nat
    BY DEF FramesShape
  <2> HIDE DEF n
  <2>3. n - 1 \in 1 .. n
    BY <2>2 DEF n
  <2>4. QED
    BY <2>1, <2>2, <2>3 DEF n
<1>4. /\ FrameShape(c) /\ c.todo # <<>> /\ FrameShape(d) /\ Twin(Z, c, d)
  BY <1>1, <1>3, CallerShape
<1>5. Controls(d) = Controls(c)
  BY <1>4 DEF Controls, Twin
<1> DEFINE p == Bound(c, f.dest, vs, from)
           q == Bound(d, f.dest, ws, from)
<1>6. H = Append(SubSeq(F, 1, n - 2), p)
  <2> DEFINE looks == Looks(s.es, f, key, point)
  <2>1. [i \in DOMAIN looks |-> Merge({looks[i].from, Controls(f), Controls(c)})] = from
    BY DEF Looks
  <2>2. QED
    BY <2>1 DEF AfterReturn
<1>7. K = Append(SubSeq(G, 1, n - 2), q)
  <2> DEFINE looks == Looks(s.es, g, key, other)
             made == [i \in DOMAIN looks |-> Merge({looks[i].from, Controls(g), Controls(d)})]
  <2>1. made = from
    BY <1>2, <1>5 DEF Looks
  <2>2. K = Append(SubSeq(G, 1, n - 2), Bound(d, f.dest, ws, made))
    BY <1>1, <1>3 DEF AfterReturn
  <2> HIDE DEF made, K, from
  <2>3. QED
    BY <2>1, <2>2
<1>8. Twin(Z, p, q)
  <2>1. \A i \in DOMAIN f.dest : Clean(Z, from[i]) => vs[i] = ws[i]
    BY <1>2
  <2> HIDE DEF from, vs, ws, c, d, f
  <2>2. QED
    BY <1>4, <2>1, TwinBound
<1>9. Popped(F, H, p)
  <2> HIDE DEF p, H
  <2>1. QED
    BY <1>6, PoppedFrame DEF FramesShape
<1>10. Popped(G, K, q)
  <2> HIDE DEF q, K
  <2>1. QED
    BY <1>1, <1>3, <1>7, PoppedFrame DEF FramesShape
<1> HIDE DEF H, K, p, q, n
<1>11. Len(H) = n - 1 /\ H[n - 1] = p /\ \A i \in 1 .. n - 2 : H[i] = F[i]
  BY <1>9 DEF Popped, n
<1>12. Len(K) = n - 1 /\ K[n - 1] = q /\ \A i \in 1 .. n - 2 : K[i] = G[i]
  BY <1>3, <1>10 DEF Popped
<1>13. ASSUME NEW i \in 1 .. Len(H) PROVE Twin(Z, H[i], K[i])
  <2>1. i = n - 1 \/ (i \in 1 .. n - 2 /\ i \in 1 .. n)
    BY <1>3, <1>11
  <2>2. QED
    BY <1>3, <1>8, <1>11, <1>12, <2>1
<1>14. QED
  BY <1>11, <1>12, <1>13 DEF Twins, H, K

(* Where no variable decides, a step of a trace is matched by its twin's.  *)
LEMMA MovesTwin ==
  ASSUME Equations, NEW Z, \A source \in Z : IsVariable(source),
         NEW F, FramesShape(F), NEW H, NEW G, Twins(Z, F, G),
         NEW key, NEW point, NEW other, Moves(F, H, key, point), Differ(Z, key, point, key.set, other),
         ~SensitiveTo(Heeds(F, key, point))
  PROVE  \E K : Moves(G, K, key, other) /\ Twins(Z, H, K)
<1> DEFINE f == Here(F)
           g == Here(G)
           s == Due(f)
<1>1. f.todo # <<>>
  BY DEF Moves
<1>2. /\ FramesShape(G) /\ Len(G) = Len(F) /\ g.todo = f.todo /\ g.dest = f.dest /\ Due(g) = Due(f)
  BY TwinHere DEF Twins
<1>3. CASE s.k = "read" /\ H = AfterRead(F, point)
  <2>1. Moves(G, AfterRead(G, other), key, other)
    BY <1>1, <1>2, <1>3 DEF Moves
  <2>2. Twins(Z, H, AfterRead(G, other))
    BY <1>1, <1>3, TwinRead
  <2>3. QED
    BY <2>1, <2>2
<1>4. CASE s.k = "let" /\ H = AfterAssign(F, key, point)
  <2>1. Moves(G, AfterAssign(G, key, other), key, other)
    BY <1>1, <1>2, <1>4 DEF Moves
  <2>2. Twins(Z, H, AfterAssign(G, key, other))
    BY <1>1, <1>4, TwinAssign
  <2>3. QED
    BY <2>1, <2>2
<1>5. CASE s.k = "when" /\ H = AfterBranch(F, key, point)
  <2>1. Moves(G, AfterBranch(G, key, other), key, other)
    BY <1>1, <1>2, <1>5 DEF Moves
  <2>2. Twins(Z, H, AfterBranch(G, key, other))
    BY <1>1, <1>5, TwinBranch
  <2>3. QED
    BY <2>1, <2>2
<1>6. CASE /\ s.k = "ask" /\ H = AfterEnter(F, key, point)
           /\ DOMAIN s.args = DOMAIN Helper(s.fn).args
  <2> DEFINE K == AfterEnter(G, key, other)
  <2>1. Moves(G, K, key, other)
    BY <1>1, <1>2, <1>6 DEF Moves
  <2>2. FramesShape(K)
    BY <1>2, <2>1, MovesShape
  <2>3. Twins(Z, H, K)
    BY <1>1, <1>6, <2>2, TwinEnter
  <2>4. QED
    BY <2>1, <2>3
<1>7. CASE /\ s.k = "give" /\ H = AfterReturn(F, key, point)
           /\ Len(F) > 1 /\ DOMAIN s.es = DOMAIN f.dest
  <2> DEFINE K == AfterReturn(G, key, other)
  <2>1. Moves(G, K, key, other)
    BY <1>1, <1>2, <1>7 DEF Moves
  <2>2. FramesShape(K)
    BY <1>2, <2>1, MovesShape
  <2>3. Twins(Z, H, K)
    BY <1>1, <1>7, <2>2, TwinReturn
  <2>4. QED
    BY <2>1, <2>3
<1>8. QED
  BY <1>3, <1>4, <1>5, <1>6, <1>7 DEF Moves
-----------------------------------------------------------------------------
(* What a trace at a point finds from its opening on, and from a step on.  *)
Fresh(key, point) == Found(Opening(Modules[key.module].body), key, point)
LEMMA FoundMoves ==
  ASSUME Equations, NEW F, NEW H, NEW key, NEW point, Moves(F, H, key, point)
  PROVE  Found(H, key, point) = Found(F, key, point)
<1> DEFINE s == Due(Here(F))
<1>1. Found(F, key, point) = FoundOf(F, key, point)
  BY DEF Equations
<1>2. CASE s.k = "read" /\ H = AfterRead(F, point)
  BY <1>1, <1>2 DEF FoundOf
<1>3. CASE s.k = "let" /\ H = AfterAssign(F, key, point)
  BY <1>1, <1>3 DEF FoundOf
<1>4. CASE s.k = "when" /\ H = AfterBranch(F, key, point)
  BY <1>1, <1>4 DEF FoundOf
<1>5. CASE s.k = "ask" /\ H = AfterEnter(F, key, point)
  BY <1>1, <1>5 DEF FoundOf
<1>6. CASE s.k = "give" /\ H = AfterReturn(F, key, point)
  BY <1>1, <1>6 DEF FoundOf
<1>7. QED
  BY <1>2, <1>3, <1>4, <1>5, <1>6 DEF Moves

LEMMA FoundAtEnd ==
  ASSUME Equations, NEW F, Due(Here(F)).k = "yield", NEW key, NEW point
  PROVE  Found(F, key, point) = Sources(F, key, point)
<1>1. Found(F, key, point) = FoundOf(F, key, point)
  BY DEF Equations
<1>2. FoundOf(F, key, point) = DependenciesOf(Returns(F), Here(F), key, point)
  BY DEF FoundOf, Returns
<1>3. DependenciesOf(Returns(F), Here(F), key, point) = Sources(F, key, point)
  BY DEF DependenciesOf, Looks, Sources
<1>4. QED
  BY <1>1, <1>2, <1>3

(* The trace at a point is beside every execution of the method, and on    *)
(* its way to what it was to find there.                                   *)
Attended(F, key, point) ==
  /\ Found(F, key, point) = Fresh(key, point)
  /\ \A Z, w : /\ Differ(Z, key, point, w.set, w.point)
               /\ w.outcome = Outcome(key.module, w.set, w.point)
               /\ w.outcome.how # "raise"
               => Shadow(F, Z, w)
(* It would be at every point that agrees on what it read, and, while no   *)
(* variable decides, at every point with a twin in its place.              *)
Variables(point) == {Variable(n) : n \in DOMAIN point}
Everywhere(F, key, point, reads, sensitive) ==
  /\ \A other : AgreeOn(reads, point, other) => Attended(F, key, other)
  /\ ~sensitive => \A other : DOMAIN other = DOMAIN point =>
        \E G : Twins(Variables(point), F, G) /\ Attended(G, key, other)

LEMMA AttendedMoves ==
  ASSUME Equations, NEW F, FramesShape(F), NEW H, NEW key, NEW point, Moves(F, H, key, point),
         Attended(F, key, point)
  PROVE  Attended(H, key, point)
BY MovesShadow, FoundMoves DEF Attended

LEMMA VariablesDiffer ==
  ASSUME NEW key, NEW point, NEW other, DOMAIN other = DOMAIN point
  PROVE  /\ Differ(Variables(point), key, point, key.set, other)
         /\ \A source \in Variables(point) : IsVariable(source)
BY DEF Variables, Variable, Differ, Lookup, IsVariable

LEMMA EverywhereMoves ==
  ASSUME Equations, NEW F, FramesShape(F), NEW H, NEW key, NEW point, Moves(F, H, key, point),
         NEW reads, NEW sensitive, Everywhere(F, key, point, reads, sensitive),
         NEW more, reads \subseteq more, Gets(F, key, point) \subseteq more,
         NEW later, ~later => ~sensitive /\ ~SensitiveTo(Heeds(F, key, point))
  PROVE  Everywhere(H, key, point, more, later)
<1>1. ASSUME NEW other, AgreeOn(more, point, other) PROVE Attended(H, key, other)
  <2>1. AgreeOn(reads, point, other) /\ AgreeOn(Gets(F, key, point), point, other)
    BY <1>1 DEF AgreeOn
  <2>2. Attended(F, key, other)
    BY <2>1 DEF Everywhere
  <2>3. Moves(F, H, key, other)
    BY <2>1, MovesSame
  <2>4. QED
    BY <2>2, <2>3, AttendedMoves
<1>2. ASSUME ~later, NEW other, DOMAIN other = DOMAIN point
      PROVE  \E K : Twins(Variables(point), H, K) /\ Attended(K, key, other)
  <2>1. PICK G : Twins(Variables(point), F, G) /\ Attended(G, key, other)
    BY <1>2 DEF Everywhere
  <2>2. /\ Differ(Variables(point), key, point, key.set, other)
        /\ \A source \in Variables(point) : IsVariable(source)
    BY <1>2, VariablesDiffer
  <2>3. ~SensitiveTo(Heeds(F, key, point))
    BY <1>2
  <2>4. PICK K : Moves(G, K, key, other) /\ Twins(Variables(point), H, K)
    BY <2>1, <2>2, <2>3, MovesTwin
  <2>5. FramesShape(G)
    BY <2>1 DEF Twins
  <2>6. Attended(K, key, other)
    BY <2>1, <2>4, <2>5, AttendedMoves
  <2>7. QED
    BY <2>4, <2>6
<1>3. QED
  BY <1>1, <1>2 DEF Everywhere

LEMMA EverywhereStarts ==
  ASSUME NEW key, key.module \in DOMAIN Modules, NEW point
  PROVE  /\ FramesShape(Opening(Modules[key.module].body))
         /\ Everywhere(Opening(Modules[key.module].body), key, point, {}, FALSE)
<1> DEFINE body == Modules[key.module].body
           F == Opening(body)
<1>1. body \in Seq(Statements)
  BY SyntaxAssumption
<1>2. FramesShape(F)
  BY <1>1, OpeningShape
<1>3. ASSUME NEW other PROVE Attended(F, key, other)
  <2> SUFFICES ASSUME NEW Z, NEW w, w.outcome = Outcome(key.module, w.set, w.point), w.outcome.how # "raise"
               PROVE  Shadow(F, Z, w)
    BY DEF Attended, Fresh
  <2>1. w.outcome = Exec(body, NoLocals, w.point, w.set)
    BY DEF Outcome
  <2> HIDE DEF body
  <2>2. QED
    BY <1>1, <2>1, OpeningShadow
<1> HIDE DEF F
<1>4. Twins(Variables(point), F, F)
  BY <1>2 DEF Twins, Twin, Agrees
<1>5. QED
  BY <1>2, <1>3, <1>4 DEF Everywhere, F

-----------------------------------------------------------------------------
(* Sources that hold at a point: wherever the method is run in a setting   *)
(* and at a point that differ in Z only, a record whose sources are clean  *)
(* has the value it has here.                                              *)
Holds(key, point, deps, values) ==
  \A Z, set, other :
     Differ(Z, key, point, set, other) /\ Outcome(key.module, set, other).how # "raise" =>
        \A i \in DOMAIN deps : Clean(Z, deps[i]) => Outcome(key.module, set, other).out[i] = values[i]

(* What a trace returns holds, of the values it finds and of those that    *)
(* running the method gives.                                               *)
LEMMA DeliveredHolds ==
  ASSUME Equations, NEW F, FramesShape(F), Len(F) = 1, Here(F).todo # <<>>, Due(Here(F)).k = "yield",
         NEW key, NEW point, Attended(F, key, point)
  PROVE  /\ Holds(key, point, Sources(F, key, point), Gives(F, key, point))
         /\ Outcome(key.module, key.set, point).how # "raise" =>
               Holds(key, point, Sources(F, key, point), Outcome(key.module, key.set, point).out)
<1> DEFINE deps == Sources(F, key, point)
           values == Gives(F, key, point)
           own == Outcome(key.module, key.set, point)
<1>1. ASSUME NEW Z, NEW set, NEW other, Differ(Z, key, point, set, other),
             Outcome(key.module, set, other).how # "raise",
             NEW i \in DOMAIN deps, Clean(Z, deps[i])
      PROVE  Outcome(key.module, set, other).out[i] = values[i]
  <2> DEFINE o == Outcome(key.module, set, other)
             w == [set |-> set, point |-> other, outcome |-> o]
  <2>1. w.set = set /\ w.point = other /\ w.outcome = o
    OBVIOUS
  <2> HIDE DEF w, o
  <2>2. Shadow(F, Z, w) /\ Differ(Z, key, point, w.set, w.point)
    BY <1>1, <2>1 DEF Attended, o
  <2>3. i \in DOMAIN Returns(F)
    BY <1>1 DEF Sources
  <2>4. w.outcome.out[i] = values[i]
    BY <1>1, <2>2, <2>3, DeliveredShadow
  <2>5. QED
    BY <2>1, <2>4 DEF o
<1> HIDE DEF deps, values
<1>2. Holds(key, point, deps, values)
  BY <1>1 DEF Holds
<1>3. ASSUME own.how # "raise" PROVE Holds(key, point, deps, own.out)
  <2>1. Differ({}, key, point, key.set, point) /\ \A i \in DOMAIN deps : Clean({}, deps[i])
    BY DEF Differ, Clean
  <2>2. \A i \in DOMAIN deps : own.out[i] = values[i]
    BY <1>1, <1>3, <2>1
  <2>3. QED
    BY <1>2, <2>2 DEF Holds
<1>4. QED
  BY <1>2, <1>3 DEF values, deps
(* Kept with what it read, or where no variable decides, the sources of a  *)
(* trace hold at the other points too, of what the method gives there, and *)
(* are those a trace finds there.                                          *)
LEMMA KeptHolds ==
  ASSUME Equations, NEW F, FramesShape(F), Len(F) = 1, Here(F).todo # <<>>, Due(Here(F)).k = "yield",
         NEW key, NEW point, NEW reads, NEW sensitive, Everywhere(F, key, point, reads, sensitive),
         NEW other, DOMAIN other = DOMAIN point,
         \/ AgreeOn(reads, point, other) /\ AgreeOn(Gets(F, key, point), point, other)
         \/ ~sensitive /\ ~SensitiveTo(Heeds(F, key, point)),
         Outcome(key.module, key.set, other).how # "raise"
  PROVE  /\ Holds(key, other, Sources(F, key, point), Outcome(key.module, key.set, other).out)
         /\ Sources(F, key, point) = Fresh(key, other)
<1> DEFINE f == Here(F)
           s == Due(f)
           es == Returns(F)
<1>1. \A i \in DOMAIN es : es[i] \in TermsIn(s) /\ es[i] \in Terms
  BY DueTerms DEF Returns, ValuesOf
<1>2. CASE AgreeOn(reads, point, other) /\ AgreeOn(Gets(F, key, point), point, other)
  <2>1. Attended(F, key, other)
    BY <1>2 DEF Everywhere
  <2>2. ASSUME NEW i \in DOMAIN es
        PROVE  Observe(es[i], f, Controls(f), key, other) = Observe(es[i], f, Controls(f), key, point)
    <3>1. AgreeOn(Reached(es[i], f.env, point, key.set), point, other)
      BY <1>1, <1>2 DEF AgreeOn, Gets
    <3>2. QED
      BY <1>1, <3>1, SameReached
  <2>3. Sources(F, key, other) = Sources(F, key, point)
    BY <2>2 DEF Sources
  <2>4. Found(F, key, other) = Sources(F, key, other)
    BY FoundAtEnd
  <2>5. QED
    BY <2>1, <2>3, <2>4, DeliveredHolds DEF Attended
<1>3. CASE ~sensitive /\ ~SensitiveTo(Heeds(F, key, point))
  <2> DEFINE Z == Variables(point)
  <2>1. PICK G : Twins(Z, F, G) /\ Attended(G, key, other)
    BY <1>3 DEF Everywhere
  <2> DEFINE g == Here(G)
  <2>2. Differ(Z, key, point, key.set, other) /\ \A source \in Z : IsVariable(source)
    BY VariablesDiffer
  <2> HIDE DEF Z
  <2>3. /\ FramesShape(G) /\ Len(G) = 1 /\ g.todo # <<>> /\ Due(g) = s /\ Twin(Z, f, g)
    <3>1. FramesShape(G) /\ g.todo = f.todo /\ Due(g) = s /\ Twin(Z, f, g)
      BY <2>1, TwinHere
    <3>2. Len(G) = 1
      BY <2>1 DEF Twins
    <3>3. QED
      BY <3>1, <3>2
  <2>4. ASSUME NEW i \in DOMAIN es
        PROVE  Observe(es[i], g, Controls(g), key, other) = Observe(es[i], f, Controls(f), key, point)
    <3>1. ~SensitiveTo(Observe(es[i], f, Controls(f), key, point).by)
      BY <1>1, <1>3 DEF SensitiveTo, Heeds
    <3>2. QED
      BY <1>1, <2>2, <2>3, <3>1, TwinLooks
  <2>5. Controls(g) = Controls(f) /\ Returns(G) = es
    BY <2>3 DEF Controls, Twin, Returns
  <2>6. Sources(G, key, other) = Sources(F, key, point)
    BY <2>4, <2>5 DEF Sources
  <2>7. Found(G, key, other) = Sources(G, key, other)
    BY <2>3, FoundAtEnd
  <2>8. QED
    BY <2>1, <2>3, <2>6, <2>7, DeliveredHolds DEF Attended
<1>4. QED
  BY <1>2, <1>3

-----------------------------------------------------------------------------
(* What the tracer keeps and answers: each trace under way is beside every *)
(* execution, each entry holds at every point it fits and is what a trace  *)
(* finds there, and so is each answer at its own.                          *)
Audited ==
  /\ module \in DOMAIN Modules /\ plan \in Plans(Modules[module]) /\ calls \in Nat
Meant(key, point) ==
  /\ key.module \in DOMAIN Modules
  /\ DOMAIN key.set = DOMAIN Modules[key.module].params
  /\ DOMAIN point = Modules[key.module].reads
TraceOk ==
  run.on => /\ Meant(run.key, run.point)
            /\ FramesShape(frames)
            /\ Everywhere(frames, run.key, run.point, run.reads, run.sensitive)
EntryOk(entry) ==
  \A point :
     LET own == Outcome(entry.key.module, entry.key.set, point)
     IN  Meant(entry.key, point) /\ Fits(entry, entry.key, point) /\ own.how # "raise" =>
            /\ Holds(entry.key, point, entry.deps, own.out)
            /\ entry.deps = Fresh(entry.key, point)
AnswerOk ==
  Answered => /\ Meant(answer.key, answer.point)
              /\ Holds(answer.key, answer.point, answer.deps, answer.values)
              /\ answer.deps = Fresh(answer.key, answer.point)
TracingInv == Audited /\ TraceOk /\ (\A i \in DOMAIN cache : EntryOk(cache[i])) /\ AnswerOk

LEMMA NoteRecord ==
  ASSUME RunShape, run.on, NEW influences, NEW names, Note(influences, names)
  PROVE  /\ run'.on /\ run'.key = run.key /\ run'.point = run.point
         /\ run'.reads = run.reads \union names
         /\ ~run'.sensitive => ~run.sensitive /\ ~SensitiveTo(influences)
<1> DEFINE sensitive == run.sensitive \/ SensitiveTo(influences)
           reads == run.reads \union names
<1>1. run = [on |-> TRUE, key |-> run.key, point |-> run.point,
             reads |-> run.reads, sensitive |-> run.sensitive]
  BY DEF RunShape, Idle
<1>2. run' = [run EXCEPT !.sensitive = sensitive, !.reads = reads]
  BY DEF Note
<1>3. ~sensitive => ~run.sensitive /\ ~SensitiveTo(influences)
  OBVIOUS
<1> HIDE DEF sensitive, reads
<1>4. run' = [on |-> TRUE, key |-> run.key, point |-> run.point, reads |-> reads, sensitive |-> sensitive]
  BY <1>1, <1>2
<1>5. run'.on /\ run'.key = run.key /\ run'.point = run.point /\ run'.reads = reads /\ run'.sensitive = sensitive
  BY <1>4
<1>6. QED
  BY <1>3, <1>5, Zenon DEF reads

(* A step of a trace that goes on moves its frames, and notes all that it  *)
(* read and all that decided.                                              *)
LEMMA StepMoves ==
  ASSUME RunShape, TraceOk, Step, ~Fail, ~Deliver
  PROVE  /\ Moves(frames, frames', run.key, run.point) /\ Quiet /\ Still
         /\ run.on /\ run'.on /\ run'.key = run.key /\ run'.point = run.point
         /\ run.reads \subseteq run'.reads /\ Gets(frames, run.key, run.point) \subseteq run'.reads
         /\ ~run'.sensitive => ~run.sensitive /\ ~SensitiveTo(Heeds(frames, run.key, run.point))
<1> DEFINE key == run.key
           point == run.point
           Wanted(influences, names) ==
              /\ Moves(frames, frames', key, point) /\ Quiet /\ Still
              /\ Note(influences, names)
              /\ Gets(frames, key, point) \subseteq names
              /\ Heeds(frames, key, point) \subseteq influences
<1>1. run.on /\ Top.todo # <<>> /\ FramesShape(frames)
  BY DEF Step, ReadVariables, Assign, Branch, Refuse, Enter, Return, Running, Deliver, TraceOk
<1>2. ASSUME ReadVariables PROVE \E influences, names : Wanted(influences, names)
  <2>1. Now.k = "read" /\ frames' = AfterRead(frames, point) /\ Quiet /\ Still
        /\ Note({}, {Now.names[i] : i \in DOMAIN Now.names})
    BY <1>2 DEF ReadVariables, Running
  <2>2. Moves(frames, frames', key, point)
    BY <1>1, <2>1 DEF Moves, Top, Now
  <2>3. Gets(frames, key, point) = {Now.names[i] : i \in DOMAIN Now.names}
    BY <2>1 DEF Gets, Named, Top, Now
  <2>4. Heeds(frames, key, point) = {}
    BY <2>1 DEF Heeds, TermsIn, Top, Now
  <2>5. Wanted({}, {Now.names[i] : i \in DOMAIN Now.names})
    BY <2>1, <2>2, <2>3, <2>4
  <2>6. QED
    BY <2>5
<1>3. ASSUME Assign PROVE \E influences, names : Wanted(influences, names)
  <2>1. Now.k = "let" /\ frames' = AfterAssign(frames, key, point) /\ Quiet /\ Still
        /\ Note(Look(Now.e).by, ReadsOf(<<Now.e>>))
    BY <1>3 DEF Assign, Running
  <2>2. Moves(frames, frames', key, point)
    BY <1>1, <2>1 DEF Moves, Top, Now
  <2>3. TermsIn(Now) = {Now.e}
    BY <2>1 DEF TermsIn
  <2>4. Gets(frames, key, point) \subseteq ReadsOf(<<Now.e>>)
    BY <2>1, <2>3 DEF Gets, ReadsOf, Top, Now
  <2>5. Heeds(frames, key, point) = Look(Now.e).by
    BY <2>1, <2>3 DEF Heeds, Look, Top, Now
  <2>6. Wanted(Look(Now.e).by, ReadsOf(<<Now.e>>))
    BY <2>1, <2>2, <2>4, <2>5
  <2>7. QED
    BY <2>6
<1>4. ASSUME Branch PROVE \E influences, names : Wanted(influences, names)
  <2> DEFINE influences == Look(Now.t).by \union Influence(Top, key, point)
  <2>1. Now.k = "when" /\ frames' = AfterBranch(frames, key, point) /\ Quiet /\ Still
        /\ Note(influences, ReadsOf(<<Now.t>>))
    BY <1>4 DEF Branch, Running
  <2>2. Moves(frames, frames', key, point)
    BY <1>1, <2>1 DEF Moves, Top, Now
  <2>3. TermsIn(Now) = {Now.t}
    BY <2>1 DEF TermsIn
  <2>4. Gets(frames, key, point) \subseteq ReadsOf(<<Now.t>>)
    BY <2>1, <2>3 DEF Gets, ReadsOf, Top, Now
  <2>5. Heeds(frames, key, point) = influences
    BY <2>1, <2>3 DEF Heeds, Look, Top, Now
  <2>6. Wanted(influences, ReadsOf(<<Now.t>>))
    BY <2>1, <2>2, <2>4, <2>5
  <2>7. QED
    BY <2>6
<1>5. ASSUME Enter PROVE \E influences, names : Wanted(influences, names)
  <2> DEFINE influences == Influences(LooksAt(Now.args))
  <2>1. Now.k = "ask" /\ frames' = AfterEnter(frames, key, point) /\ Quiet /\ Still
        /\ Note(influences, ReadsOf(Now.args)) /\ ~Unfit(Helper(Now.fn).args, ValuesAt(Now.args))
    BY <1>5 DEF Enter, Running
  <2>2. Moves(frames, frames', key, point)
    BY <1>1, <2>1 DEF Moves, Top, Now, Unfit, ValuesAt, Evaluated
  <2>3. TermsIn(Now) = {Now.args[i] : i \in DOMAIN Now.args}
    BY <2>1 DEF TermsIn
  <2>4. Gets(frames, key, point) \subseteq ReadsOf(Now.args)
    BY <2>1, <2>3 DEF Gets, ReadsOf, Top, Now
  <2>5. Heeds(frames, key, point) \subseteq influences
    BY <2>1, <2>3 DEF Heeds, Influences, LooksAt, Looks, Top, Now
  <2>6. Wanted(influences, ReadsOf(Now.args))
    BY <2>1, <2>2, <2>4, <2>5
  <2>7. QED
    BY <2>6
<1>6. ASSUME Return PROVE \E influences, names : Wanted(influences, names)
  <2> DEFINE influences == Influences(LooksAt(Now.es))
  <2>1. Now.k = "give" /\ frames' = AfterReturn(frames, key, point) /\ Quiet /\ Still /\ Len(frames) > 1
        /\ Note(influences, ReadsOf(Now.es)) /\ ~Unfit(Top.dest, ValuesAt(Now.es))
    BY <1>6 DEF Return, Running
  <2>2. Moves(frames, frames', key, point)
    BY <1>1, <2>1 DEF Moves, Top, Now, Unfit, ValuesAt, Evaluated
  <2>3. TermsIn(Now) = {Now.es[i] : i \in DOMAIN Now.es}
    BY <2>1 DEF TermsIn
  <2>4. Gets(frames, key, point) \subseteq ReadsOf(Now.es)
    BY <2>1, <2>3 DEF Gets, ReadsOf, Top, Now
  <2>5. Heeds(frames, key, point) \subseteq influences
    BY <2>1, <2>3 DEF Heeds, Influences, LooksAt, Looks, Top, Now
  <2>6. Wanted(influences, ReadsOf(Now.es))
    BY <2>1, <2>2, <2>4, <2>5
  <2>7. QED
    BY <2>6
<1>7. PICK influences, names : Wanted(influences, names)
  <2> HIDE DEF Wanted
  <2>1. QED
    BY <1>2, <1>3, <1>4, <1>5, <1>6 DEF Step, Refuse
<1>10. /\ run'.on /\ run'.key = run.key /\ run'.point = run.point
       /\ run'.reads = run.reads \union names
       /\ ~run'.sensitive => ~run.sensitive /\ ~SensitiveTo(influences)
  BY <1>1, <1>7, NoteRecord
<1>11. ~SensitiveTo(influences) => ~SensitiveTo(Heeds(frames, key, point))
  BY <1>7 DEF SensitiveTo
<1>12. QED
  BY <1>1, <1>7, <1>10, <1>11
LEMMA StepStays == Step => Still /\ run.on
BY DEF Step, ReadVariables, Assign, Branch, Refuse, Enter, Return, Deliver, Running

LEMMA InvMoves ==
  ASSUME Equations, RunShape, TracingInv, Step, ~Fail, ~Deliver
  PROVE  TracingInv'
<1> DEFINE key == run.key
           point == run.point
<1>1. TraceOk
  BY DEF TracingInv
<1>2. /\ Moves(frames, frames', key, point) /\ Quiet /\ Still
      /\ run.on /\ run'.on /\ run'.key = key /\ run'.point = point
      /\ run.reads \subseteq run'.reads /\ Gets(frames, key, point) \subseteq run'.reads
      /\ ~run'.sensitive => ~run.sensitive /\ ~SensitiveTo(Heeds(frames, key, point))
  BY <1>1, StepMoves
<1>3. Meant(key, point) /\ FramesShape(frames) /\ Everywhere(frames, key, point, run.reads, run.sensitive)
  BY <1>1, <1>2 DEF TraceOk
<1>4. FramesShape(frames')
  BY <1>2, <1>3, MovesShape
<1>5. Everywhere(frames', key, point, run'.reads, run'.sensitive)
  BY <1>2, <1>3, EverywhereMoves
<1>6. TraceOk'
  BY <1>2, <1>3, <1>4, <1>5 DEF TraceOk
<1>7. QED
  BY <1>2, <1>6 DEF TracingInv, Audited, AnswerOk, Answered, Quiet, Still

LEMMA InvFails ==
  ASSUME TracingInv, Step, Fail
  PROVE  TracingInv'
<1>1. Still /\ run' = Idle /\ answer' = Failed /\ cache' = cache
  BY StepStays DEF Fail, Discard
<1>2. TraceOk' /\ AnswerOk'
  BY <1>1 DEF TraceOk, AnswerOk, Answered, Idle, Failed
<1>3. QED
  BY <1>1, <1>2 DEF TracingInv, Audited, Still

(* What is kept of a trace holds wherever it fits.                         *)
LEMMA EntryMade ==
  ASSUME Equations, TracingInv, Running("yield"), Len(frames) = 1,
         NEW exact, NEW reads, run.reads \subseteq reads, Gets(frames, run.key, run.point) \subseteq reads,
         exact \/ (~run.sensitive /\ ~SensitiveTo(Heeds(frames, run.key, run.point)))
  PROVE  EntryOk(Entry0(Sources(frames, run.key, run.point), IF exact THEN reads ELSE {}))
<1> DEFINE key == run.key
           at == run.point
           deps == Sources(frames, key, at)
           names == IF exact THEN reads ELSE {}
           entry == Entry0(deps, names)
<1>1. entry.key = key /\ entry.deps = deps /\ entry.inputs = Inputs(names, at)
  BY DEF Entry0
<1>2. /\ Meant(key, at) /\ FramesShape(frames) /\ Everywhere(frames, key, at, run.reads, run.sensitive)
      /\ Here(frames).todo # <<>> /\ Due(Here(frames)).k = "yield"
  BY DEF TracingInv, TraceOk, Running, Top, Now
<1> HIDE DEF entry, deps
<1>3. ASSUME NEW point, Meant(key, point), Fits(entry, key, point),
             Outcome(key.module, key.set, point).how # "raise"
      PROVE  /\ Holds(key, point, deps, Outcome(key.module, key.set, point).out)
             /\ deps = Fresh(key, point)
  <2>1. DOMAIN point = DOMAIN at
    BY <1>2, <1>3 DEF Meant
  <2>2. \A n \in names : point[n] = at[n]
    <3>1. DOMAIN Inputs(names, at) = names /\ \A n \in names : Inputs(names, at)[n] = at[n]
      BY DEF Inputs
    <3>2. Inputs(names, at) = Inputs(names, point)
      BY <1>1, <1>3, <3>1 DEF Fits
    <3>3. \A n \in names : Inputs(names, point)[n] = point[n]
      BY DEF Inputs
    <3> HIDE DEF names
    <3>4. QED
      BY <3>1, <3>2, <3>3
  <2>3. AgreeOn(names, at, point)
    BY <2>1, <2>2 DEF AgreeOn, Lookup
  <2>4. \/ AgreeOn(run.reads, at, point) /\ AgreeOn(Gets(frames, key, at), at, point)
        \/ ~run.sensitive /\ ~SensitiveTo(Heeds(frames, key, at))
    <3>1. CASE exact
      BY <2>3, <3>1 DEF AgreeOn
    <3>2. CASE ~exact
      BY <3>2
    <3>3. QED
      BY <3>1, <3>2
  <2>5. QED
    BY <1>2, <1>3, <2>1, <2>4, KeptHolds DEF deps
<1>4. QED
  BY <1>1, <1>3 DEF EntryOk, entry, deps

LEMMA InvDelivers ==
  ASSUME Equations, ScopeInv, RunShape, TracingInv, Deliver, ~Fail
  PROVE  TracingInv'
<1> DEFINE key == run.key
           point == run.point
           es == ValuesOf(Now.records)
           looks == LooksAt(es)
           deps == DependenciesOf(es, Top, run.key, run.point)
           exact == \/ run.sensitive \/ SensitiveTo(Influences(looks))
                    \/ \E i \in DOMAIN deps : Unknown \in deps[i]
           reads == run.reads \union ReadsOf(es)
           new == [how |-> "traced", key |-> run.key, point |-> run.point,
                   values |-> ValuesAt(es), deps |-> deps, era |-> era, reads |-> reads]
<1>1. Running("yield") /\ Len(frames) = 1 /\ Still /\ Finish(new, exact)
  BY DEF Deliver
<1>2. /\ run.on /\ Meant(key, point) /\ FramesShape(frames)
      /\ Everywhere(frames, key, point, run.reads, run.sensitive)
      /\ Here(frames).todo # <<>> /\ Due(Here(frames)).k = "yield"
  BY <1>1 DEF TracingInv, TraceOk, Running, Top, Now
<1>3. es = Returns(frames)
  BY DEF Returns, Now, Top
<1>4. deps = Sources(frames, key, point)
  BY <1>3 DEF Sources, DependenciesOf, Looks, Top
<1>5. ValuesAt(es) = Gives(frames, key, point)
  BY <1>3 DEF Gives, ValuesAt, Top
<1>6. /\ Gets(frames, key, point) \subseteq reads
      /\ exact \/ (~run.sensitive /\ ~SensitiveTo(Heeds(frames, key, point)))
  <2>1. TermsIn(Now) = {es[i] : i \in DOMAIN es}
    BY <1>2 DEF TermsIn, ValuesOf, Now, Top
  <2>2. Gets(frames, key, point) \subseteq ReadsOf(es)
    BY <1>2, <2>1 DEF Gets, ReadsOf, Now, Top
  <2>3. Heeds(frames, key, point) \subseteq Influences(looks)
    BY <1>2, <2>1 DEF Heeds, Influences, LooksAt, Looks, Now, Top
  <2>4. SensitiveTo(Heeds(frames, key, point)) => SensitiveTo(Influences(looks))
    BY <2>3 DEF SensitiveTo
  <2>5. QED
    BY <2>2, <2>4
<1>7. run.reads \subseteq reads
  OBVIOUS
<1>8. /\ new.how = "traced" /\ new.key = key /\ new.point = point /\ new.values = ValuesAt(es)
      /\ new.deps = deps /\ new.reads = reads
  OBVIOUS
<1> HIDE DEF new, exact, reads, deps
<1>9. EntryOk(Entry0(deps, IF exact THEN reads ELSE {}))
  BY <1>1, <1>4, <1>6, <1>7, EntryMade
<1>10. /\ run' = Idle /\ answer' = new
       /\ cache' = cache \/ cache' = Append(cache, Entry0(deps, IF exact THEN reads ELSE {}))
  BY <1>1, <1>8 DEF Finish
<1>11. \A i \in DOMAIN cache' : EntryOk(cache'[i])
  <2>1. \A i \in DOMAIN cache : EntryOk(cache[i])
    BY DEF TracingInv
  <2>2. CASE cache' = cache
    BY <2>1, <2>2
  <2>3. CASE cache' = Append(cache, Entry0(deps, IF exact THEN reads ELSE {}))
    <3> DEFINE entry == Entry0(deps, IF exact THEN reads ELSE {})
    <3>1. PICK S : cache \in Seq(S)
      BY DEF ScopeInv, Entries
    <3>2. EntryOk(entry) /\ cache' = Append(cache, entry)
      BY <1>9, <2>3
    <3> HIDE DEF entry
    <3>3. ASSUME NEW i \in DOMAIN cache' PROVE EntryOk(cache'[i])
      <4>1. (i \in DOMAIN cache /\ cache'[i] = cache[i]) \/ cache'[i] = entry
        BY <3>1, <3>2, <3>3
      <4>2. QED
        BY <2>1, <3>2, <4>1
    <3>4. QED
      BY <3>3
  <2>4. QED
    BY <1>10, <2>2, <2>3
<1>12. AnswerOk'
  <2>1. Attended(frames, key, point)
    BY <1>2 DEF Everywhere, AgreeOn
  <2>2. Holds(key, point, Sources(frames, key, point), Gives(frames, key, point))
    BY <1>1, <1>2, <2>1, DeliveredHolds
  <2>3. Holds(new.key, new.point, new.deps, new.values) /\ Meant(new.key, new.point)
    BY <1>2, <1>4, <1>5, <1>8, <2>2
  <2>4. Sources(frames, key, point) = Fresh(key, point)
    BY <1>2, <2>1, FoundAtEnd DEF Attended
  <2>5. new.deps = Fresh(new.key, new.point)
    BY <1>4, <1>8, <2>4
  <2>6. QED
    BY <1>10, <2>3, <2>5 DEF AnswerOk
<1>13. TraceOk'
  BY <1>10 DEF TraceOk, Idle
<1>14. QED
  BY <1>1, <1>11, <1>12, <1>13 DEF TracingInv, Audited, Still

LEMMA InvReuses ==
  ASSUME TracingInv, NEW set, NEW point, Reuse(set, point), Meant(Key(set), point)
  PROVE  TracingInv'
<1> DEFINE key == Key(set)
           r == Outcome(module, set, point)
           raised == [how |-> "raised", key |-> key, point |-> point]
           reused(i) == [how |-> "reused", key |-> key, point |-> point,
                         values |-> r.out, deps |-> cache[i].deps, era |-> cache[i].era]
           new(i) == IF r.how = "raise" THEN raised ELSE reused(i)
<1>1. PICK i \in DOMAIN cache : Serve(i, new(i))
  BY DEF Reuse
<1>2. /\ calls' = calls + 1 /\ UNCHANGED <<module, plan, frames>>
      /\ UNCHANGED <<cache, run>> /\ answer' = new(i) /\ Serves(i, new(i).key, new(i).point)
  BY <1>1 DEF Reuse, Serve
<1>3. key.module = module /\ key.set = set
  BY DEF Key
<1>4. AnswerOk'
  <2>1. CASE r.how = "raise"
    <3>1. answer' = raised
      BY <1>2, <2>1
    <3>2. QED
      BY <3>1 DEF AnswerOk, Answered
  <2>2. CASE r.how # "raise"
    <3>1. answer' = reused(i) /\ Serves(i, key, point)
      BY <1>2, <2>2
    <3>2. /\ reused(i).key = key /\ reused(i).point = point
          /\ reused(i).values = r.out /\ reused(i).deps = cache[i].deps
      OBVIOUS
    <3> HIDE DEF reused, new, raised, r
    <3>3. EntryOk(cache[i]) /\ cache[i].key = key /\ Fits(cache[i], key, point)
      BY <1>1, <3>1 DEF TracingInv, Serves, Fits
    <3>4. r = Outcome(key.module, key.set, point) /\ r.how # "raise"
      BY <1>3, <2>2 DEF r
    <3> HIDE DEF key
    <3>5. Holds(key, point, cache[i].deps, r.out) /\ cache[i].deps = Fresh(key, point)
      BY <3>3, <3>4 DEF EntryOk, key
    <3>6. Meant(key, point)
      BY DEF key
    <3>7. QED
      BY <3>1, <3>2, <3>5, <3>6 DEF AnswerOk
  <2>3. QED
    BY <2>1, <2>2
<1>5. TraceOk' /\ Audited'
  BY <1>2 DEF TracingInv, TraceOk, Audited
<1>6. QED
  BY <1>2, <1>4, <1>5 DEF TracingInv

LEMMA InvTraces ==
  ASSUME TracingInv, NEW set, NEW point, Trace(set, point), Meant(Key(set), point)
  PROVE  TracingInv'
<1> DEFINE key == Key(set)
           new == [on |-> TRUE, key |-> key, point |-> point, reads |-> {}, sensitive |-> FALSE]
           F == Opening(Modules[module].body)
<1>1. /\ calls' = calls + 1 /\ UNCHANGED <<module, plan>>
      /\ cache' = cache /\ answer' = NoAnswer /\ run' = new /\ frames' = F
  BY DEF Trace, Start, Opening
<1>2. key.module = module
  BY DEF Key
<1>3. new.key = key /\ new.point = point /\ new.reads = {} /\ new.sensitive = FALSE
  OBVIOUS
<1> HIDE DEF key, new
<1>4. Meant(key, point)
  BY DEF key
<1>5. FramesShape(F) /\ Everywhere(F, key, point, {}, FALSE)
  BY <1>2, <1>4, EverywhereStarts DEF Meant
<1> HIDE DEF F
<1>6. TraceOk'
  BY <1>1, <1>3, <1>4, <1>5 DEF TraceOk
<1>7. AnswerOk' /\ Audited'
  BY <1>1 DEF AnswerOk, Answered, NoAnswer, TracingInv, Audited
<1>8. QED
  BY <1>1, <1>6, <1>7 DEF TracingInv

LEMMA InvCommands ==
  ASSUME TracingInv, Command \/ Leave
  PROVE  TracingInv'
<1>1. /\ UNCHANGED <<module, plan, calls, frames, run>> /\ answer' = NoAnswer
      /\ cache' = cache \/ cache' = <<>>
  BY DEF Command, Leave, Open, Close, Opened, Closed
<1>2. \A i \in DOMAIN cache' : EntryOk(cache'[i])
  BY <1>1 DEF TracingInv
<1>3. TraceOk' /\ AnswerOk' /\ Audited'
  BY <1>1 DEF TracingInv, TraceOk, AnswerOk, Answered, NoAnswer, Audited
<1>4. QED
  BY <1>2, <1>3 DEF TracingInv

(* Audits give every variable and parameter a value.                       *)
LEMMA AuditsMean ==
  ASSUME TracingInv, Asked
  PROVE  LET audit == plan.audits[calls + 1] IN Meant(Key(audit.set), audit.point)
<1>1. module \in DOMAIN Modules /\ plan \in Plans(Modules[module]) /\ calls \in Nat
  BY DEF TracingInv, Audited
<1>2. Len(plan.audits) \in Nat /\ DOMAIN plan.audits = 1 .. Len(plan.audits)
  BY <1>1, AuditsAssumption
<1>3. calls + 1 \in DOMAIN plan.audits
  BY <1>1, <1>2 DEF Asked
<1>4. /\ DOMAIN plan.audits[calls + 1].point = Modules[module].reads
      /\ DOMAIN plan.audits[calls + 1].set = DOMAIN Modules[module].params
  BY <1>1, <1>3, AuditsAssumption
<1>5. QED
  BY <1>1, <1>4 DEF Meant, Key

LEMMA TracingStep ==
  ASSUME Equations, ScopeInv, RunShape, TracingInv, [Next]_vars
  PROVE  TracingInv'
<1>1. CASE Step
  <2>1. CASE Fail
    BY <1>1, <2>1, InvFails
  <2>2. CASE ~Fail /\ Deliver
    BY <2>2, InvDelivers
  <2>3. CASE ~Fail /\ ~Deliver
    BY <1>1, <2>3, InvMoves
  <2>4. QED
    BY <2>1, <2>2, <2>3
<1>2. CASE Request
  <2> DEFINE audit == plan.audits[calls + 1]
  <2>1. Asked /\ (Reuse(audit.set, audit.point) \/ Trace(audit.set, audit.point))
    BY <1>2 DEF Request
  <2>2. Meant(Key(audit.set), audit.point)
    BY <2>1, AuditsMean
  <2> HIDE DEF audit
  <2>3. QED
    BY <2>1, <2>2, InvReuses, InvTraces
<1>3. CASE Command \/ Leave
  BY <1>3, InvCommands
<1>4. CASE UNCHANGED vars
  BY <1>4 DEF vars, scope, TracingInv, TraceOk, AnswerOk, Answered, Audited
<1>5. QED
  BY <1>1, <1>2, <1>3, <1>4 DEF Next
LEMMA TracingStart ==
  ASSUME Init
  PROVE  TracingInv /\ RunShape
BY DEF Init, ScopeInit, TracingInv, Audited, TraceOk, AnswerOk, Answered, NoAnswer, Idle, RunShape

LEMMA TracingInvariance ==
  ASSUME Equations
  PROVE  Spec => []TracingInv
<1>1. Init => TracingInv /\ RunShape
  BY TracingStart
<1>2. RunShape /\ [Next]_vars => RunShape'
  BY NextFollows
<1>3. ScopeInv /\ RunShape /\ TracingInv /\ [Next]_vars => TracingInv'
  BY TracingStep
<1>4. Spec => ScopeSpec
  BY TracerKeepsScope
<1>5. ScopeSpec => []ScopeInv
  BY ScopeInvariance
<1>6. QED
  BY <1>1, <1>2, <1>3, <1>4, <1>5, PTL DEF Spec

-----------------------------------------------------------------------------
LEMMA NoneMissed ==
  ASSUME TracingInv
  PROVE  NoDependenceMissed
<1> DEFINE key == answer.key
           point == answer.point
           deps == answer.deps
<1> SUFFICES ASSUME Answered, NEW n \in DOMAIN point, NEW v \in Values \ {point[n]},
                    NEW i \in DOMAIN deps, Known(i), Variable(n) \notin deps[i],
                    Outcome(key.module, key.set, [point EXCEPT ![n] = v]).how = "yield"
             PROVE  Outcome(key.module, key.set, [point EXCEPT ![n] = v]).out[i] = answer.values[i]
  BY DEF NoDependenceMissed, Unmoved
<1> DEFINE Z == {Variable(n)}
           other == [point EXCEPT ![n] = v]
<1>1. Holds(key, point, deps, answer.values)
  BY DEF TracingInv, AnswerOk
<1>2. Clean(Z, deps[i])
  BY DEF Clean, Known
<1>3. Differ(Z, key, point, key.set, other)
  <2>1. DOMAIN other = DOMAIN point /\ \A m \in DOMAIN point : m # n => other[m] = point[m]
    OBVIOUS
  <2>2. \A m : Variable(m) \notin Z => m # n
    OBVIOUS
  <2> HIDE DEF other, Z
  <2>3. QED
    BY <2>1, <2>2 DEF Differ, Lookup
<1> HIDE DEF Z
<1>4. QED
  BY <1>1, <1>2, <1>3 DEF Holds

LEMMA NoParameterLost ==
  ASSUME TracingInv
  PROVE  NoParameterMissed
<1> DEFINE key == answer.key
           point == answer.point
           deps == answer.deps
           moved(set) == {p \in DOMAIN set : set[p] # key.set[p]}
<1> SUFFICES ASSUME Answered, NEW set \in Settings(Modules[key.module]),
                    \A p \in moved(set) : Claimed(key, p),
                    NEW i \in DOMAIN deps, Known(i), \A p \in moved(set) : Parameter(p) \notin deps[i],
                    Outcome(key.module, set, point).how = "yield"
             PROVE  Outcome(key.module, set, point).out[i] = answer.values[i]
  BY DEF NoParameterMissed, Unmoved
<1> DEFINE Z == {Parameter(p) : p \in moved(set)}
<1>1. Meant(key, point) /\ Holds(key, point, deps, answer.values)
  BY DEF TracingInv, AnswerOk
<1>2. Clean(Z, deps[i])
  BY DEF Clean, Known
<1>3. DOMAIN set = DOMAIN key.set
  BY <1>1, AuditsAssumption DEF Meant
<1>4. Differ(Z, key, point, set, point)
  <2>1. ASSUME NEW p, ~(Claimed(key, p) /\ Parameter(p) \in Z) PROVE Lookup(set, p) = Lookup(key.set, p)
    <3>1. p \notin moved(set)
      BY <2>1
    <3>2. QED
      BY <1>3, <3>1 DEF Lookup
  <2>2. QED
    BY <2>1 DEF Differ
<1> HIDE DEF Z
<1>5. QED
  BY <1>1, <1>2, <1>4 DEF Holds

(* What an answer says holds of any number of changes at once: wherever    *)
(* the method is run, at a point and in a setting that differ in some      *)
(* variables and claimed parameters, every record whose sources are known  *)
(* and name none of these has the value of the answer.                     *)
THEOREM AnswersHold ==
  ASSUME Equations
  PROVE  Spec => [](Answered => Holds(answer.key, answer.point, answer.deps, answer.values))
<1>1. TracingInv => (Answered => Holds(answer.key, answer.point, answer.deps, answer.values))
  BY DEF TracingInv, AnswerOk
<1>2. QED
  BY <1>1, TracingInvariance, PTL

(* Whatever native modules and helpers are traced, in whatever settings    *)
(* and at whatever points, a record that an answer - traced or reused -    *)
(* finds independent of a variable keeps its value when the variable       *)
(* alone takes any other value, as long as the method still answers.       *)
THEOREM NoDependenceIsMissed ==
  ASSUME Equations
  PROVE  Spec => []NoDependenceMissed
BY TracingInvariance, NoneMissed, PTL

(* And one that does not name a quoted parameter, or several, keeps its    *)
(* value in every setting that moves these alone.                          *)
THEOREM NoParameterIsMissed ==
  ASSUME Equations
  PROVE  Spec => []NoParameterMissed
BY TracingInvariance, NoParameterLost, PTL

(* However many traces a command keeps, of whatever methods and helpers,   *)
(* an answer that reuses one has for each record the sources that a new    *)
(* trace at the requested point would find: those not sensitive to values  *)
(* serve every point, and the others the points that agree with them on    *)
(* all the values they read.                                               *)
THEOREM ReuseFindsTheSame ==
  ASSUME Equations
  PROVE  Spec => []ReuseRetraces
<1>1. TracingInv => ReuseRetraces
  BY DEF TracingInv, AnswerOk, ReuseRetraces, Answered, Fresh
<1>2. QED
  BY <1>1, TracingInvariance, PTL

=============================================================================
