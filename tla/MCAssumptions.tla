---------------------------- MODULE MCAssumptions ----------------------------
(***************************************************************************)
(* Every deck of up to three cards out of eleven: on one parameter, on one *)
(* variable, on names that do not exist, of every status and authority.    *)
(***************************************************************************)
EXTENDS Assumptions

Pool ==
  LET C(t, x, s, o, n) ==
        [type |-> t, target |-> x, status |-> s, override |-> o, numeric |-> n]
  IN  { C("parameter", "h.eff", "active", FALSE, TRUE),
        C("parameter", "h.eff", "active", TRUE, TRUE),
        C("parameter", "h.eff", "proposed", TRUE, TRUE),
        C("parameter", "z.eff", "active", TRUE, TRUE),
        C("variable", "h.T", "active", FALSE, TRUE),
        C("variable", "h.T", "active", TRUE, TRUE),
        C("variable", "h.T", "active", TRUE, FALSE),
        C("variable", "h.T", "rejected", TRUE, TRUE),
        C("variable", "h.p", "active", FALSE, TRUE),
        C("variable", "z.T", "active", FALSE, TRUE),
        C("context", "h.T", "active", FALSE, FALSE) }

DecksOfThree == UNION {[1 .. n -> Pool] : n \in 0 .. 3}

=============================================================================
