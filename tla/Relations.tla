----------------------------- MODULE Relations -----------------------------
(***************************************************************************)
(* The residual relations of one audit, as observed evaluation sees them:  *)
(* what a relation reads, what its residual is at given values, and which  *)
(* values of one unknown make it vanish (core/residual.py,                 *)
(* core/_residual_dependencies.py, core/hierarchy.py).                     *)
(*                                                                         *)
(* Numbers are abstracted to a finite set Value; a residual is abstracted  *)
(* to what the audit tells apart: a root ("zero"), a mismatch within the   *)
(* audit threshold ("small"), a mismatch beyond it ("large"), or a         *)
(* DomainRefusal ("refused").                                              *)
(***************************************************************************)
EXTENDS Records

CONSTANTS
  Var,              \* the registered variables
  Value,            \* the values a variable can take
  Unknown,          \* the absence of a value
  Relation,         \* the residual records a module or the system can yield
  Systems,          \* the residual sequences of the audits considered
  Bounds,           \* Bounds[v]: the declared window of v
  Guess,            \* Guess[v]: the initial guess of v
  Reads(_, _),      \* Reads(r, env): what evaluating r at env reads
  Residual(_, _)    \* Residual(r, env): the residual of r at env

Env == [Var -> Value]
Partial == [Var -> Value \cup {Unknown}]

Outcomes == {"zero", "small", "large", "refused"}

(* What holds of every record a builder yields.  A connection is a plain   *)
(* difference of its two endpoints and its dependencies are always known.  *)
ASSUME RelationsAssumption ==
  /\ Unknown \notin Value
  /\ Systems \subseteq Seq(Relation)
  /\ Bounds \in [Var -> SUBSET Value]
  /\ Guess \in Env
  /\ \A v \in Var : Guess[v] \in Bounds[v]
  /\ \A r \in Relation :
       /\ r.kind \in Kinds
       /\ r.traced \in BOOLEAN
       /\ r.inSolver \in BOOLEAN
       /\ r.kind = "connection" => r.traced /\ r.from \in Var /\ r.to \in Var

ASSUME EvaluationAssumption ==
  \A r \in Relation, env \in Env :
    /\ Reads(r, env) \subseteq Var
    /\ Residual(r, env) \in Outcomes
    /\ r.kind = "connection" =>
         /\ Reads(r, env) = {r.from, r.to}
         /\ Residual(r, env) # "refused"
         /\ Residual(r, env) = "zero" <=> env[r.from] = env[r.to]

(* A residual looks at nothing but what it reads at those values.          *)
ASSUME LocalityAssumption ==
  \A r \in Relation, env, other \in Env :
    (\A v \in Reads(r, env) : env[v] = other[v])
      => /\ Reads(r, other) = Reads(r, env)
         /\ Residual(r, other) = Residual(r, env)

KnownIn(partial) == {v \in Var : partial[v] # Unknown}

(* The vector an evaluation uses: known values over initial guesses.       *)
Filled(partial) ==
  [v \in Var |-> IF partial[v] = Unknown THEN Guess[v] ELSE partial[v]]

(* x is the one root of r for the unknown v inside its window; a refused   *)
(* sample anywhere in the window leaves the variable without a root.       *)
IsRoot(r, v, x, env) ==
  /\ x \in Bounds[v]
  /\ \A y \in Bounds[v] :
       LET res == Residual(r, [env EXCEPT ![v] = y])
       IN  res # "refused" /\ (res = "zero" <=> y = x)

(* A relation whose reads do not depend on the values it is given.         *)
StraightLine(r) == \A env, other \in Env : Reads(r, env) = Reads(r, other)

(* The verdict on a set of evaluated relations: the largest residual of    *)
(* the solver roles against the threshold.                                 *)
AuditPasses(records, env) ==
  \A r \in records : Participates(r) => Residual(r, env) # "large"

=============================================================================
