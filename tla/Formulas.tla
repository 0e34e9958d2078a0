------------------------------ MODULE Formulas ------------------------------
(***************************************************************************)
(* The small language the native residual methods are written in, and what *)
(* a method computes at a point.                                           *)
(*                                                                         *)
(* A method is a sequence of statements: reads of variables, assignments,  *)
(* branches, refusals (raise), calls of native helpers, and one statement  *)
(* that returns residual records.  Expressions are trees.  Values are      *)
(* integers; truth values are 1 and 0; a quotient is rounded; a table is   *)
(* named by its first entry and its last entry is one more.  A function    *)
(* whose formula no property distinguishes (a power, an exponential, an    *)
(* interpolation) is Fn: some strict function in which each operand        *)
(* counts.  A value nothing can be computed from (a quotient by zero, the  *)
(* root of a negative number) is Undefined, and ends the method with an    *)
(* error as the exception does.                                            *)
(***************************************************************************)
EXTENDS Integers, Sequences, FiniteSets

CONSTANT Val(_, _, _, _)

Undefined == 999983        \* stands for a raised arithmetic error
Modulus == 97              \* Fn's values stay small

(***************************************************************************)
(* Expressions.                                                            *)
(***************************************************************************)
Num(v) == [k |-> "num", v |-> v]
Loc(n) == [k |-> "loc", n |-> n]
Par(n) == [k |-> "par", n |-> n]
(* The variable whose name a parameter gives. *)
Ref(n) == [k |-> "ref", n |-> n]
Op(f, args) == [k |-> "op", f |-> f, args |-> args]
Fn(args) == Op("fn", args)
Root(a) == Op("root", <<a>>)
Abs(a) == Op("abs", <<a>>)
Low(a, b) == Op("min", <<a, b>>)
High(a, b) == Op("max", <<a, b>>)
Within(a, e, b) == Op("within", <<a, e, b>>)   \* a <= e <= b, one chained test
a \oplus b == Op("add", <<a, b>>)
a \ominus b == Op("sub", <<a, b>>)
a \otimes b == Op("mul", <<a, b>>)
a \oslash b == Op("div", <<a, b>>)
a \prec b == Op("lt", <<a, b>>)
a \preceq b == Op("le", <<a, b>>)
a \succ b == Op("lt", <<b, a>>)
a \succeq b == Op("le", <<b, a>>)
a \doteq b == Op("eq", <<a, b>>)
FirstOf(t) == [k |-> "entry", t |-> t, at |-> 0]
LastOf(t) == [k |-> "entry", t |-> t, at |-> 1]
(* A table entry whose index is computed. *)
Entry(t, i) == [k |-> "select", t |-> t, i |-> i]
Pick(t, a, b) == [k |-> "pick", t |-> t, a |-> a, b |-> b]
Both(a, b) == [k |-> "and", a |-> a, b |-> b]
Either(a, b) == [k |-> "or", a |-> a, b |-> b]
(* sum(value(x, name) for name in self.list) over the listed variables. *)
Total(list, names) == [k |-> "total", list |-> list, names |-> names]
(* One element of a list [value(x, name) for name in self.list]. *)
Element(list, n) == [k |-> "element", list |-> list, n |-> n]

TermKinds == {"num", "loc", "par", "ref", "op", "entry", "select", "pick",
              "and", "or", "total", "element"}
(* The expressions an expression is made of. *)
Parts(e) ==
    CASE e.k = "op"     -> {e.args[i] : i \in DOMAIN e.args}
      [] e.k = "entry"  -> {e.t}
      [] e.k = "select" -> {e.t, e.i}
      [] e.k = "pick"   -> {e.t, e.a, e.b}
      [] e.k \in {"and", "or"} -> {e.a, e.b}
      [] OTHER -> {}

(***************************************************************************)
(* Statements.  Ask binds the results of a helper called with arguments;   *)
(* Give returns from a helper; Yield returns the method's records.         *)
(***************************************************************************)
Read(names) == [k |-> "read", names |-> names]
Let(x, e) == [k |-> "let", x |-> x, e |-> e]
When(t, a, b) == [k |-> "when", t |-> t, a |-> a, b |-> b]
Stop == [k |-> "stop"]
Ask(xs, fn, args) == [k |-> "ask", xs |-> xs, fn |-> fn, args |-> args]
Give(es) == [k |-> "give", es |-> es]
Yield(records) == [k |-> "yield", records |-> records]
Rec(role, value, scale) == [role |-> role, value |-> value, scale |-> scale]
Equation(value) == Rec("equation", value, Par("residual_scale"))
PostCheck(value) == Rec("post_check", value, Par("residual_scale"))

(***************************************************************************)
(* Constructor parameters: what the constructor accepts, a value it        *)
(* accepts, whether it must be supplied, and whether the attribute it is   *)
(* kept in has one constructor origin (an attribute assigned twice, from a *)
(* conditional expression or through a local has none).                    *)
(***************************************************************************)
Given(kind, v) == [kind |-> kind, base |-> v, required |-> TRUE, origin |-> TRUE]
Default(kind, v) == [kind |-> kind, base |-> v, required |-> FALSE, origin |-> TRUE]
Unclaimed(param) == [param EXCEPT !.origin = FALSE]
Accepts(kind) ==
    CASE kind = "finite"     -> {-1, 0, 2}
      [] kind = "positive"   -> {1, 2}
      [] kind = "nonneg"     -> {0, 2}
      [] kind = "fraction"   -> {0, 1}
      [] kind = "efficiency" -> {1}
      [] kind = "table"      -> {0, 1}
      [] kind = "mode"       -> {0, 1}      \* refuse, hold
      [] kind = "mode1d"     -> {0, 1, 2}   \* refuse, hold, extrapolate
      [] kind = "option"     -> {0, 1}      \* absent, present
      [] kind = "names"      -> {0}         \* a variable name or a list of them
NoParams == [n \in {} |-> 0]
And(params, scale) ==
    [n \in DOMAIN params \union {scale} |->
        IF n = scale THEN Default("positive", 1) ELSE params[n]]
Scaled(params) == And(params, "residual_scale")

(* A native module: its parameters, further constructor tests, the        *)
(* variables its method may read, and the method.                          *)
Native(params, needs, reads, body) ==
    [params |-> params, needs |-> needs, reads |-> reads, body |-> body]
Named(names) == {names[i] : i \in DOMAIN names}
(* The method of most modules: read the owned variables, perhaps refuse    *)
(* some values of the first ones, and return one equation.                 *)
Checked(params, before, refused, after, value, scale) ==
    Native(And(params, scale), <<>>, Named(before \o after),
        <<Read(before), When(refused, <<Stop>>, <<>>), Read(after),
          Yield(<<Rec("equation", value, Par(scale))>>)>>)
Formula(params, names, value, scale) ==
    Native(And(params, scale), <<>>, Named(names),
        <<Read(names), Yield(<<Rec("equation", value, Par(scale))>>)>>)

(* value - bound on the side it exceeds, 0 inside the band. *)
Excess(x, lower, upper) ==
    Pick(Loc(x) \succ Par(upper), Loc(x) \ominus Par(upper),
         Pick(Loc(x) \prec Par(lower), Loc(x) \ominus Par(lower), Num(0)))

-----------------------------------------------------------------------------
(***************************************************************************)
(* Evaluation.  env holds the locals, point the variables, set the         *)
(* parameters.  Val is the value of an expression: the solution of the     *)
(* equation Val = ValOf, with which every instance of the model gives it.  *)
(***************************************************************************)
(* Looking up a name that is not bound is an error. *)
Lookup(f, n) == IF n \in DOMAIN f THEN f[n] ELSE Undefined

Truth(b) == IF b THEN 1 ELSE 0
Least(a, b) == IF a <= b THEN a ELSE b
Quotient(a, b) == IF b > 0 THEN a \div b ELSE (-a) \div (-b)
Mixed(vs) ==
    LET upTo[i \in 0 .. Len(vs)] == IF i = 0 THEN 0 ELSE (3 * upTo[i - 1] + vs[i] + 1) % Modulus
    IN  upTo[Len(vs)]
Sum(vs) ==
    LET upTo[i \in 0 .. Len(vs)] == IF i = 0 THEN 0 ELSE upTo[i - 1] + vs[i]
    IN  upTo[Len(vs)]

Broken(vs) == \E i \in DOMAIN vs : vs[i] = Undefined
Apply(f, v) ==
    IF Broken(v) THEN Undefined ELSE
    CASE f = "fn"     -> Mixed(v)
      [] f = "root"   -> IF v[1] < 0 THEN Undefined ELSE v[1]
      [] f = "abs"    -> IF v[1] < 0 THEN -v[1] ELSE v[1]
      [] f = "min"    -> Least(v[1], v[2])
      [] f = "max"    -> -Least(-v[1], -v[2])
      [] f = "within" -> Truth(v[1] <= v[2] /\ v[2] <= v[3])
      [] f = "add"    -> v[1] + v[2]
      [] f = "sub"    -> v[1] - v[2]
      [] f = "mul"    -> v[1] * v[2]
      [] f = "div"    -> IF v[2] = 0 THEN Undefined ELSE Quotient(v[1], v[2])
      [] f = "lt"     -> Truth(v[1] < v[2])
      [] f = "le"     -> Truth(v[1] <= v[2])
      [] f = "eq"     -> Truth(v[1] = v[2])
      [] f = "sum"    -> Sum(v)

ValOf(e, env, point, set) ==
    LET V(d) == Val(d, env, point, set) IN
    CASE e.k = "num"    -> e.v
      [] e.k = "loc"    -> Lookup(env, e.n)
      [] e.k = "par"    -> Lookup(set, e.n)
      [] e.k \in {"ref", "element"} -> Lookup(point, e.n)
      [] e.k = "op"     -> Apply(e.f, [i \in DOMAIN e.args |-> V(e.args[i])])
      [] e.k = "entry"  -> Apply("add", <<V(e.t), e.at>>)
      [] e.k = "select" -> Apply("fn", <<V(e.t), V(e.i)>>)
      [] e.k = "pick"   -> LET t == V(e.t)
                           IN  IF t = Undefined THEN Undefined
                               ELSE IF t # 0 THEN V(e.a) ELSE V(e.b)
      [] e.k = "and"    -> LET t == V(e.a) IN IF t = 0 \/ t = Undefined THEN t ELSE V(e.b)
      [] e.k = "or"     -> LET t == V(e.a) IN IF t # 0 THEN t ELSE V(e.b)
      [] e.k = "total"  -> Apply("sum", [i \in DOMAIN e.names |-> Lookup(point, e.names[i])])
=============================================================================
