------------------------------ MODULE Records ------------------------------
(***************************************************************************)
(* Residual records and their roles (core/residual.py): which of them a    *)
(* derivation may consume and which enter the verdict of an audit.         *)
(***************************************************************************)
EXTENDS Naturals, Sequences

Kinds == {"equation", "connection", "boundary", "assumption",
          "soft_check", "post_check"}

(* The roles a derivation may consume; they are in the solver by default.  *)
Consumable(r) == r.kind \in {"equation", "connection", "boundary", "assumption"}

Participates(r) ==
  Consumable(r) \/ (r.kind = "soft_check" /\ r.inSolver)

=============================================================================
