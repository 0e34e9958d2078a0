------------------------------- MODULE Tracing -------------------------------
(***************************************************************************)
(* core/_residual_dependencies.py: which variables (and quoted parameters) *)
(* each residual record of a native module depends on.                     *)
(*                                                                         *)
(* A trace runs the method at a point one statement at a time and follows  *)
(* the sources of every local, the controls of every statement (enclosing  *)
(* tests, earlier tests that may leave the method, the caller's controls)  *)
(* and so of every record it returns.  Traces made inside one command are  *)
(* reused at other points: with an entry that is sensitive to values only  *)
(* where all the values it read agree, otherwise everywhere.               *)
(*                                                                         *)
(* Dependencies are sets of sources; Unknown in a set stands for None and  *)
(* absorbs the rest.                                                       *)
(***************************************************************************)
EXTENDS NativeHelpers, TraceScope

CONSTANTS Modules,         \* module name -> its Native definition
          Plans(_),        \* the sequences of audits tried on a module
          Settings(_),     \* the parameter settings of a module
          Values,          \* the values a variable may take
          MaxDepth,        \* bound: nested commands
          MaxEras          \* bound: commands one after the other

(***************************************************************************)
(* The methods are finite syntax trees over these expressions and          *)
(* statements, and what is computed over them solves one equation each:    *)
(* Exec = ExecOf, Resolvable = ResolvableOf and so on, with which every    *)
(* instance of the model gives them.                                       *)
(***************************************************************************)
CONSTANTS Terms, Statements,
          Depth(_),                       \* how deep a tree is
          Exec(_, _, _, _),               \* what a body computes
          Resolvable(_),                  \* can a test be read without running code
          Observe(_, _, _, _, _),         \* the sources of an expression
          Reached(_, _, _, _),            \* the variables its evaluation reads
          Targets(_), MayLeave(_),        \* what the arms of a branch may do
          Found(_, _, _)                  \* what a trace finds from its frames on

VARIABLES
    module,     \* name of the audited module
    plan,       \* its audits, each a setting and a point, and whether the
                \* audited assumptions quote its parameters
    calls,      \* requests so far
    frames      \* the call frames of the trace under way, innermost last

vars == <<module, plan, calls, frames, scope>>

Kinds == {"read", "let", "when", "stop", "ask", "give", "yield"}
TermsIn(s) ==
    CASE s.k = "let"   -> {s.e}
      [] s.k = "when"  -> {s.t}
      [] s.k = "ask"   -> {s.args[i] : i \in DOMAIN s.args}
      [] s.k = "give"  -> {s.es[i] : i \in DOMAIN s.es}
      [] s.k = "yield" -> {s.records[i].value : i \in DOMAIN s.records}
      [] OTHER -> {}

(* Methods and helpers are built from terms and statements, each shallower *)
(* than what it is part of.                                                *)
ASSUME SyntaxAssumption ==
    /\ \A e \in Terms : /\ e.k \in TermKinds /\ Depth(e) \in Nat
                        /\ \A d \in Parts(e) : d \in Terms /\ Depth(d) < Depth(e)
    /\ \A s \in Statements :
          /\ s.k \in Kinds /\ Depth(s) \in Nat /\ TermsIn(s) \subseteq Terms
          /\ s.k = "when" => \A arm \in {s.a, s.b} :
                /\ arm \in Seq(Statements)
                /\ \A i \in DOMAIN arm : Depth(arm[i]) < Depth(s)
          /\ s.k = "ask" => Helper(s.fn).body \in Seq(Statements)
    /\ \A name \in DOMAIN Modules : Modules[name].body \in Seq(Statements)

(* An audit gives every variable the method may read, and every parameter, *)
(* a value.                                                                *)
ASSUME AuditsAssumption ==
    \A name \in DOMAIN Modules :
        LET m == Modules[name]
        IN  /\ \A p \in Plans(m) :
                  /\ Len(p.audits) \in Nat /\ DOMAIN p.audits = 1 .. Len(p.audits)
                  /\ \A i \in DOMAIN p.audits : /\ DOMAIN p.audits[i].point = m.reads
                                                /\ DOMAIN p.audits[i].set = DOMAIN m.params
            /\ \A set \in Settings(m) : DOMAIN set = DOMAIN m.params

-----------------------------------------------------------------------------
(***************************************************************************)
(* What a method computes, whoever watches: the reference.  Binding more   *)
(* or fewer values than there are names is an error, as is a helper that   *)
(* gives none.                                                             *)
(***************************************************************************)
NoLocals == [n \in {} |-> 0]
Bind(env, xs, vs) ==
    [n \in DOMAIN env \union {xs[i] : i \in DOMAIN xs} |->
        IF \E i \in DOMAIN xs : xs[i] = n
        THEN vs[CHOOSE i \in DOMAIN xs : xs[i] = n] ELSE env[n]]
Unfit(xs, vs) == DOMAIN vs # DOMAIN xs \/ Broken(vs)
Evaluated(es, env, point, set) == [i \in DOMAIN es |-> Val(es[i], env, point, set)]
ValuesOf(records) == [i \in DOMAIN records |-> records[i].value]
Readings(names, point) == [i \in DOMAIN names |-> Lookup(point, names[i])]

Raised == [how |-> "raise", env |-> NoLocals, out |-> <<>>]
Ended(how, env, vs) == IF Broken(vs) THEN Raised ELSE [how |-> how, env |-> env, out |-> vs]
(* A call goes on with the rest of the body when the helper ended well. *)
Resumed(rest, env, xs, r, point, set) ==
    IF r.how # "give" \/ Unfit(xs, r.out) THEN Raised
    ELSE Exec(rest, Bind(env, xs, r.out), point, set)

ExecOf(body, env, point, set) ==
    LET s == Head(body)
        On(xs, vs) == IF Broken(vs) THEN Raised ELSE Exec(Tail(body), Bind(env, xs, vs), point, set)
    IN  IF body = <<>> THEN [how |-> "next", env |-> env, out |-> <<>>] ELSE
        CASE s.k = "stop" -> Raised
          [] s.k = "read" -> On(s.names, Readings(s.names, point))
          [] s.k = "let"  -> On(<<s.x>>, <<Val(s.e, env, point, set)>>)
          [] s.k = "when" -> LET t == Val(s.t, env, point, set)
                                 r == Exec(IF t # 0 THEN s.a ELSE s.b, env, point, set)
                             IN  IF t = Undefined THEN Raised
                                 ELSE IF r.how = "next" THEN Exec(Tail(body), r.env, point, set) ELSE r
          [] s.k = "ask"  -> LET h == Helper(s.fn)
                                 vs == Evaluated(s.args, env, point, set)
                                 r == Exec(h.body, Bind(NoLocals, h.args, vs), point, set)
                             IN  IF Unfit(h.args, vs) THEN Raised
                                 ELSE Resumed(Tail(body), env, s.xs, r, point, set)
          [] s.k = "give" -> Ended("give", env, Evaluated(s.es, env, point, set))
          [] s.k = "yield" -> Ended("yield", env, Evaluated(ValuesOf(s.records), env, point, set))

Outcome(name, set, point) == Exec(Modules[name].body, NoLocals, point, set)

-----------------------------------------------------------------------------
(***************************************************************************)
(* Dependencies.                                                           *)
(***************************************************************************)
Variable(n) == <<"variable", n>>
Parameter(n) == <<"parameter", n>>
Unknown == <<"unknown", "">>
Merge(parts) == IF Unknown \in UNION parts THEN {Unknown} ELSE UNION parts
IsVariable(source) == source[1] = "variable"

(* _control_input: this influence on control makes a trace depend on values. *)
(* Mutant: only an influence that is unknown does.                           *)
SensitiveToUnknown(influence) == Unknown \in influence
SensitiveTo(influence) == \E source \in influence : source = Unknown \/ IsVariable(source)

(* A parameter attribute is a source when the parameter is quoted and the *)
(* constructor shows it to be the attribute's one origin.  Mutant of       *)
(* Quoted: only a parameter without a default is a source.                 *)
Claimed(key, n) ==
    LET params == Modules[key.module].params
    IN  key.quoted /\ n \in DOMAIN params /\ params[n].origin
QuotedIfRequired(key, n) ==
    IF Claimed(key, n) /\ Modules[key.module].params[n].required THEN {Parameter(n)} ELSE {}
Quoted(key, n) == IF Claimed(key, n) THEN {Parameter(n)} ELSE {}

(* _parameter_value: can this selector be read without running code. *)
ResolvableOf(e) ==
    LET operands == \A i \in DOMAIN e.args : Resolvable(e.args[i])
    IN  CASE e.k \in {"num", "loc", "par"} -> TRUE
          [] e.k = "entry" -> TRUE
          [] e.k = "op" -> e.f \in {"abs", "lt", "le", "eq"} /\ operands
          [] OTHER -> FALSE

(***************************************************************************)
(* _deps: the sources of an expression in a frame, with the influences it  *)
(* passes to _control_input on the way ("by").  A test in the expression   *)
(* that cannot be resolved leaves the sources unknown, and so does a list  *)
(* comprehension over a quoted parameter (_inline_comprehension).          *)
(***************************************************************************)
Seen(deps, by) == [from |-> deps, by |-> by]
SourcesOf(frame, n) == IF n \in DOMAIN frame.deps THEN frame.deps[n] ELSE {Unknown}
ObserveOf(e, frame, controls, key, point) ==
    LET O(d) == Observe(d, frame, controls, key, point)
        V(d) == Val(d, frame.env, point, key.set)
        Together(os) == Seen(Merge({o.from : o \in os}), UNION {o.by : o \in os})
        Decides(o) == [o EXCEPT !.by = @ \union o.from]
        (* part decides whether the next is looked at. *)
        ShortCircuit(stops) ==
            IF ~Resolvable(e.a) THEN Seen({Unknown}, Decides(O(e.a)).by)
            ELSE IF stops THEN Decides(O(e.a)) ELSE Together({Decides(O(e.a)), O(e.b)})
    IN  CASE e.k = "num" -> Seen({}, {})
          [] e.k = "loc" -> Seen(SourcesOf(frame, e.n), {})
          [] e.k = "par" -> Seen(Quoted(key, e.n), {})
          [] e.k = "ref" -> Seen(Merge({{Variable(e.n)}, Quoted(key, e.n), controls}), {})
          [] e.k = "op"  -> Together({O(e.args[i]) : i \in DOMAIN e.args})
          [] e.k = "entry" -> O(e.t)
          [] e.k = "select" -> Together({O(e.t), Decides(O(e.i))})
          [] e.k = "pick" ->
                IF Resolvable(e.t)
                THEN Together({Decides(O(e.t)), O(IF V(e.t) # 0 THEN e.a ELSE e.b)})
                ELSE Seen({Unknown}, Decides(O(e.t)).by)
          [] e.k = "and" -> ShortCircuit(V(e.a) = 0)
          [] e.k = "or"  -> ShortCircuit(V(e.a) # 0)
          [] e.k = "total" -> Seen(Merge({{Variable(e.names[i]) : i \in DOMAIN e.names},
                                          Quoted(key, e.list), controls}), {})
          [] e.k = "element" -> IF Quoted(key, e.list) = {}
                                THEN Seen(Merge({{Variable(e.n)}, controls}), {})
                                ELSE Seen({Unknown}, {})

(* The variables the evaluation of an expression reads in the registry. *)
ReachedOf(e, env, point, set) ==
    LET R(d) == Reached(d, env, point, set)
        V(d) == Val(d, env, point, set)
    IN  CASE e.k \in {"ref", "element"} -> {e.n}
          [] e.k = "total" -> {e.names[i] : i \in DOMAIN e.names}
          [] e.k = "op" -> UNION {R(e.args[i]) : i \in DOMAIN e.args}
          [] e.k = "entry" -> R(e.t)
          [] e.k = "select" -> R(e.t) \union R(e.i)
          [] e.k = "pick" -> R(e.t) \union R(IF V(e.t) # 0 THEN e.a ELSE e.b)
          [] e.k = "and" -> R(e.a) \union (IF V(e.a) = 0 THEN {} ELSE R(e.b))
          [] e.k = "or" -> R(e.a) \union (IF V(e.a) # 0 THEN {} ELSE R(e.b))
          [] OTHER -> {}

(* The locals a branch may define, and whether it may leave the method. *)
TargetsOf(body) ==
    LET TargetsAt(s) == CASE s.k = "let"  -> {s.x}
                          [] s.k = "ask"  -> Named(s.xs)
                          [] s.k = "read" -> Named(s.names)
                          [] s.k = "when" -> Targets(s.a) \union Targets(s.b)
                          [] OTHER -> {}
    IN  UNION {TargetsAt(body[i]) : i \in DOMAIN body}
MayLeaveOf(body) ==
    LET Leaves(s) == \/ s.k \in {"stop", "give", "yield"}
                     \/ s.k = "when" /\ (MayLeave(s.a) \/ MayLeave(s.b))
    IN  \E i \in DOMAIN body : Leaves(body[i])

-----------------------------------------------------------------------------
(***************************************************************************)
(* The trace.  A frame holds its locals and their sources, the statements  *)
(* left with the influence of the tests around them, its gates (tests that *)
(* may have left it), the controls it inherits, and where its results go.  *)
(***************************************************************************)
Tagged(body, under) == [i \in DOMAIN body |-> [s |-> body[i], under |-> under]]
NewFrame(env, deps, body, inherited, dest) ==
    [env |-> env, deps |-> deps, todo |-> Tagged(body, {}), gates |-> {},
     inherited |-> inherited, dest |-> dest]
Opening(body) == <<NewFrame(NoLocals, NoLocals, body, {}, <<>>)>>

(* The frame under way, its statement, and _controls of that statement. *)
Here(fs) == fs[Len(fs)]
Due(frame) == Head(frame.todo).s
Controls(frame) == Merge({frame.inherited, frame.gates, Head(frame.todo).under})
Replaced(fs, frame) == [fs EXCEPT ![Len(fs)] = frame]
Looks(es, frame, key, point) ==
    [i \in DOMAIN es |-> Observe(es[i], frame, Controls(frame), key, point)]
Influences(looks) == UNION {looks[i].by : i \in DOMAIN looks}

(* Names get values with their sources, and the statement is done.         *)
Bound(frame, names, vs, sources) ==
    [frame EXCEPT !.env = Bind(@, names, vs), !.deps = Bind(@, names, sources), !.todo = Tail(@)]

AfterRead(fs, point) ==
    LET frame == Here(fs)
        names == Due(frame).names
    IN  Replaced(fs, Bound(frame, names, Readings(names, point),
            [i \in DOMAIN names |-> Merge({{Variable(names[i])}, Controls(frame)})]))

AfterAssign(fs, key, point) ==
    LET frame == Here(fs)
        s == Due(frame)
        from == Observe(s.e, frame, Controls(frame), key, point).from
    IN  Replaced(fs, Bound(frame, <<s.x>>, <<Val(s.e, frame.env, point, key.set)>>,
                           <<Merge({from, Controls(frame)})>>))

(* _branch: the test's influence reaches every local a branch may define. *)
(* Mutant: the influence reaches what the branch assigns when it runs.     *)
InfluencedIfRun(deps, names, influence) == deps
Influenced(deps, names, influence) ==
    [n \in DOMAIN deps \union names |->
        IF n \notin names THEN deps[n]
        ELSE IF n \in DOMAIN deps THEN Merge({deps[n], influence}) ELSE influence]
Influence(frame, key, point) ==
    Merge({Observe(Due(frame).t, frame, Controls(frame), key, point).from, Controls(frame)})
AfterBranch(fs, key, point) ==
    LET frame == Here(fs)
        s == Due(frame)
        influence == Influence(frame, key, point)
        arms == s.a \o s.b
        arm == IF Val(s.t, frame.env, point, key.set) # 0 THEN s.a ELSE s.b
    IN  Replaced(fs, [frame EXCEPT
            !.deps = Influenced(@, Targets(arms), influence),
            !.gates = IF MayLeave(arms) THEN Merge({@, influence}) ELSE @,
            !.todo = Tagged(arm, influence) \o Tail(@)])

(* _arguments: a native helper is followed with its arguments' sources. *)
AfterEnter(fs, key, point) ==
    LET frame == Here(fs)
        s == Due(frame)
        h == Helper(s.fn)
        looks == Looks(s.args, frame, key, point)
    IN  Append(fs, NewFrame(Bind(NoLocals, h.args, Evaluated(s.args, frame.env, point, key.set)),
                            Bind(NoLocals, h.args, [i \in DOMAIN looks |-> looks[i].from]),
                            h.body, Controls(frame), s.xs))

AfterReturn(fs, key, point) ==
    LET frame == Here(fs)
        s == Due(frame)
        caller == fs[Len(fs) - 1]
        looks == Looks(s.es, frame, key, point)
        sources == [i \in DOMAIN looks |-> Merge({looks[i].from, Controls(frame), Controls(caller)})]
    IN  Append(SubSeq(fs, 1, Len(fs) - 2),
               Bound(caller, frame.dest, Evaluated(s.es, frame.env, point, key.set), sources))

DependenciesOf(es, frame, key, point) ==
    LET looks == Looks(es, frame, key, point)
    IN  [i \in DOMAIN es |-> Merge({looks[i].from, Controls(frame)})]

(* The sources of the records that a trace at this point goes on to find.  *)
FoundOf(fs, key, point) ==
    LET s == Due(Here(fs))
    IN  CASE s.k = "read" -> Found(AfterRead(fs, point), key, point)
          [] s.k = "let"  -> Found(AfterAssign(fs, key, point), key, point)
          [] s.k = "when" -> Found(AfterBranch(fs, key, point), key, point)
          [] s.k = "ask"  -> Found(AfterEnter(fs, key, point), key, point)
          [] s.k = "give" -> Found(AfterReturn(fs, key, point), key, point)
          [] s.k = "yield" -> DependenciesOf(ValuesOf(s.records), Here(fs), key, point)
          [] OTHER -> <<>>

-----------------------------------------------------------------------------
Top == Here(frames)
Now == Due(Top)
Look(e) == Observe(e, Top, Controls(Top), run.key, run.point)
LooksAt(es) == Looks(es, Top, run.key, run.point)
Value(e) == Val(e, Top.env, run.point, run.key.set)
ValuesAt(es) == Evaluated(es, Top.env, run.point, run.key.set)
ReadsOf(es) == UNION {Reached(es[i], Top.env, run.point, run.key.set) : i \in DOMAIN es}

Note(influences, names) ==
    run' = [run EXCEPT !.sensitive = @ \/ SensitiveTo(influences),
                       !.reads = @ \union names]
Running(kind) == run.on /\ Top.todo # <<>> /\ Now.k = kind
Still == UNCHANGED <<module, plan, calls>>

(* An error leaves every frame; the trace is dropped and nothing is kept.  *)
Failed == [how |-> "raised", key |-> run.key, point |-> run.point]
Fail == Discard(Failed) /\ frames' = <<>>

ReadVariables ==
    /\ Running("read")
    /\ IF Broken(Readings(Now.names, run.point)) THEN Fail
       ELSE /\ frames' = AfterRead(frames, run.point)
            /\ Note({}, {Now.names[i] : i \in DOMAIN Now.names})
            /\ Quiet
    /\ Still

Assign ==
    /\ Running("let")
    /\ IF Value(Now.e) = Undefined THEN Fail
       ELSE /\ frames' = AfterAssign(frames, run.key, run.point)
            /\ Note(Look(Now.e).by, ReadsOf(<<Now.e>>))
            /\ Quiet
    /\ Still

Branch ==
    /\ Running("when")
    /\ IF Value(Now.t) = Undefined THEN Fail
       ELSE /\ frames' = AfterBranch(frames, run.key, run.point)
            /\ Note(Look(Now.t).by \union Influence(Top, run.key, run.point), ReadsOf(<<Now.t>>))
            /\ Quiet
    /\ Still

Refuse ==
    /\ Running("stop")
    /\ Fail
    /\ Still

Enter ==
    /\ Running("ask")
    /\ IF Unfit(Helper(Now.fn).args, ValuesAt(Now.args)) THEN Fail
       ELSE /\ frames' = AfterEnter(frames, run.key, run.point)
            /\ Note(Influences(LooksAt(Now.args)), ReadsOf(Now.args))
            /\ Quiet
    /\ Still

Return ==
    /\ Running("give") /\ Len(frames) > 1
    /\ IF Unfit(Top.dest, ValuesAt(Now.es)) THEN Fail
       ELSE /\ frames' = AfterReturn(frames, run.key, run.point)
            /\ Note(Influences(LooksAt(Now.es)), ReadsOf(Now.es))
            /\ Quiet
    /\ Still

(***************************************************************************)
(* The records are returned, each with its sources.  The trace is exact    *)
(* when control depended on a value or some sources are unknown.           *)
(***************************************************************************)
Deliver ==
    /\ Running("yield") /\ Len(frames) = 1
    /\ LET es == ValuesOf(Now.records)
           looks == LooksAt(es)
           deps == DependenciesOf(es, Top, run.key, run.point)
           exact == \/ run.sensitive \/ SensitiveTo(Influences(looks))
                    \/ \E i \in DOMAIN deps : Unknown \in deps[i]
       IN  IF Broken(ValuesAt(es)) THEN Fail
           ELSE /\ Finish([how |-> "traced", key |-> run.key, point |-> run.point,
                           values |-> ValuesAt(es), deps |-> deps, era |-> era,
                           reads |-> run.reads \union ReadsOf(es)], exact)
                /\ frames' = <<>>
    /\ Still

(* The equations of the operators over the syntax. *)
Equations ==
    /\ \A e \in Terms : \A env, point, set :
          /\ Val(e, env, point, set) = ValOf(e, env, point, set)
          /\ Reached(e, env, point, set) = ReachedOf(e, env, point, set)
    /\ \A e \in Terms : \A frame, controls, key, point :
          Observe(e, frame, controls, key, point) = ObserveOf(e, frame, controls, key, point)
    /\ \A e \in Terms : Resolvable(e) = ResolvableOf(e)
    /\ \A body \in Seq(Statements) :
          /\ Targets(body) = TargetsOf(body) /\ MayLeave(body) = MayLeaveOf(body)
          /\ \A env, point, set : Exec(body, env, point, set) = ExecOf(body, env, point, set)
    /\ \A fs, key, point : Found(fs, key, point) = FoundOf(fs, key, point)

-----------------------------------------------------------------------------
(***************************************************************************)
(* module_residual_dependencies: reuse the first kept trace of the same    *)
(* key whose inputs agree, or trace.  A reused answer still runs the       *)
(* method for its values.                                                  *)
(***************************************************************************)
Key(set) == [module |-> module, set |-> set, quoted |-> plan.quoted]
Asked == ~run.on /\ calls < Len(plan.audits)

Reuse(set, point) ==
    /\ \E i \in DOMAIN cache :
          LET r == Outcome(module, set, point)
          IN  Serve(i, IF r.how = "raise"
                       THEN [how |-> "raised", key |-> Key(set), point |-> point]
                       ELSE [how |-> "reused", key |-> Key(set), point |-> point,
                             values |-> r.out, deps |-> cache[i].deps, era |-> cache[i].era])
    /\ calls' = calls + 1
    /\ UNCHANGED <<module, plan, frames>>

Trace(set, point) ==
    /\ Start([on |-> TRUE, key |-> Key(set), point |-> point, reads |-> {}, sensitive |-> FALSE])
    /\ frames' = Opening(Modules[module].body)
    /\ calls' = calls + 1
    /\ UNCHANGED <<module, plan>>

Command ==
    /\ Asked /\ depth < MaxDepth   \* bound: a command audits something
    /\ depth = 0 => era < MaxEras
    /\ Open
    /\ UNCHANGED <<module, plan, calls, frames>>
Leave ==
    /\ calls > 0
    /\ Close
    /\ UNCHANGED <<module, plan, calls, frames>>

Init ==
    /\ module \in DOMAIN Modules
    /\ plan \in Plans(Modules[module])
    /\ calls = 0 /\ frames = <<>>
    /\ ScopeInit

Step == \/ ReadVariables \/ Assign \/ Branch \/ Refuse \/ Enter \/ Return \/ Deliver
Request == /\ Asked
           /\ LET audit == plan.audits[calls + 1]
              IN  Reuse(audit.set, audit.point) \/ Trace(audit.set, audit.point)
Next == Step \/ Request \/ Command \/ Leave
Spec == Init /\ [][Next]_vars

-----------------------------------------------------------------------------
Answered == answer.how \in {"traced", "reused"}

(***************************************************************************)
(* No dependence is missed: where a record's sources are known, changing a *)
(* variable outside them (alone, to any value) leaves the record's value   *)
(* as it is whenever the method still answers.  This is what a derivation  *)
(* relies on when it takes a residual to be independent of a variable      *)
(* (_deps, _branch, _controls), and it must hold of reused answers too.    *)
(***************************************************************************)
Known(i) == Unknown \notin answer.deps[i]
Unmoved(outcome, i) == outcome.how = "yield" => outcome.out[i] = answer.values[i]
NoDependenceMissed ==
    Answered => \A n \in DOMAIN answer.point :
        LET free == {i \in DOMAIN answer.deps : Known(i) /\ Variable(n) \notin answer.deps[i]}
        IN  free # {} => \A v \in Values \ {answer.point[n]} :
                LET other == Outcome(answer.key.module, answer.key.set, [answer.point EXCEPT ![n] = v])
                IN  \A i \in free : Unmoved(other, i)

(***************************************************************************)
(* No quoted parameter is missed either: with its parameters quoted, a     *)
(* record that does not name a parameter keeps its value in every setting  *)
(* that differs in that parameter alone.  A parameter whose attribute has  *)
(* no single origin (native_parameter_attributes) is never named, and the  *)
(* property is not about it.                                               *)
(***************************************************************************)
NoParameterMissed ==
    Answered /\ answer.key.quoted => \A set \in Settings(Modules[answer.key.module]) :
        LET moved == {p \in DOMAIN set : set[p] # answer.key.set[p]}
            free == {i \in DOMAIN answer.deps : Known(i) /\ \A p \in moved : Parameter(p) \notin answer.deps[i]}
        IN  moved # {} /\ free # {} /\ (\A p \in moved : Claimed(answer.key, p)) =>
                LET other == Outcome(answer.key.module, set, answer.point)
                IN  \A i \in free : Unmoved(other, i)

(***************************************************************************)
(* A reused answer is what a new trace at the requested point would give:  *)
(* an entry serves other points only when the code's tests of what the     *)
(* control of the method depended on (_control_input, and the test of      *)
(* unknown sources at the end of the trace) show that every point has the  *)
(* same sources, and otherwise only points that agree on all that was read *)
(* ("have the same provenance at every numeric point").                    *)
(***************************************************************************)
ReuseRetraces ==
    answer.how = "reused" =>
        answer.deps = Found(Opening(Modules[answer.key.module].body), answer.key, answer.point)
=============================================================================
