---- MODULE MCDerivation ----
(***************************************************************************)
(* Instances of Derivation for TLC: every sequence of relations drawn from *)
(* a small pool, over three variables with values 0 .. 2.                  *)
(***************************************************************************)
EXTENDS Derivation, FiniteSetsExt

CONSTANTS a, b, c, Length

MCVar == {a, b, c}
MCValue == 0 .. 2
MCBounds == [v \in MCVar |-> IF v = c THEN 0 .. 1 ELSE 0 .. 2]
MCGuess == [v \in MCVar |-> IF v = c THEN 1 ELSE 0]

Record(kind, form, on, target) ==
  [kind |-> kind, form |-> form, on |-> on, target |-> target,
   traced |-> form # "opaque", inSolver |-> TRUE]
Edge(from, to) ==
  [kind |-> "connection", form |-> "edge", from |-> from, to |-> to,
   traced |-> TRUE, inSolver |-> TRUE]

(* Sums have one root or none, products may have many, a ratio refuses a   *)
(* zero, a switch reads one of two variables, opaque code has no trace.    *)
Sum3 == Record("equation", "sum", <<a, b, c>>, 3)
ProductBC == Record("equation", "product", <<b, c>>, 0)
RatioAC == Record("equation", "ratio", <<a, c>>, 1)
FixB == Record("boundary", "sum", <<b>>, 1)
SoftC == [Record("soft_check", "sum", <<c>>, 1) EXCEPT !.inSolver = FALSE]
OpaqueA == Record("equation", "opaque", <<a>>, 1)
SwitchABC == Record("equation", "switch", <<a, b, c>>, 0)

StraightPool == {Sum3, ProductBC, RatioAC, SoftC, OpaqueA,
                 Edge(a, b), Edge(b, c), Edge(c, a)}
StraightSystems == [1 .. Length -> StraightPool]
SwitchPool == {SwitchABC, Edge(b, a), FixB, SoftC}
SwitchSystems == [1 .. Length -> SwitchPool]

MCReads(r, env) ==
  CASE r.form = "edge" -> {r.from, r.to}
    [] r.form = "switch" -> {r.on[1], IF env[r.on[1]] = 0 THEN r.on[2] ELSE r.on[3]}
    [] OTHER -> {r.on[k] : k \in DOMAIN r.on}

Size(n) == IF n = 0 THEN "zero" ELSE IF n \in {-1, 1} THEN "small" ELSE "large"

Total(r, env) == SumSet({4 * k + env[r.on[k]] : k \in DOMAIN r.on}) - 4 * SumSet(DOMAIN r.on)

MCResidual(r, env) ==
  CASE r.form = "edge" -> Size(env[r.from] - env[r.to])
    [] r.form \in {"sum", "opaque"} -> Size(Total(r, env) - r.target)
    [] r.form = "product" -> Size(env[r.on[1]] * env[r.on[2]] - r.target)
    [] r.form = "ratio" -> IF env[r.on[2]] = 0 THEN "refused"
                           ELSE Size(env[r.on[1]] - r.target * env[r.on[2]])
    [] r.form = "switch" -> Size(IF env[r.on[1]] = 0 THEN env[r.on[2]] - 1 ELSE env[r.on[3]] - 1)

=============================================================================
