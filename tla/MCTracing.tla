------------------------------ MODULE MCTracing ------------------------------
(***************************************************************************)
(* Tracing over the catalogue of native modules.  Points: every variable   *)
(* at 1, or one of them at 0 or 2.  Settings: the base values the          *)
(* constructor accepts, or one parameter moved to another accepted value.  *)
(***************************************************************************)
EXTENDS Tracing, NativeControl, NativeSignals, NativePhysical, NativeMachines, TLC

Catalogue ==
    LET physics == PhysicalModules @@ ComponentModules @@ MachineModules
    IN  ControlModules @@ SignalModules @@ physics

MCValues == {-1, 0, 1, 2}
Centre(m) == [n \in m.reads |-> 1]
PointsOf(m) == {[Centre(m) EXCEPT ![n] = v] : n \in m.reads, v \in {0, 1, 2}}

Base(m) == [p \in DOMAIN m.params |-> m.params[p].base]
Constructs(m, set) == \A i \in DOMAIN m.needs : Val(m.needs[i], NoLocals, NoLocals, set) # 0
Moved(m, p) == {[Base(m) EXCEPT ![p] = v] : v \in Accepts(m.params[p].kind)}
SettingsOf(m) == {set \in {Base(m)} \union UNION {Moved(m, p) : p \in DOMAIN m.params} : Constructs(m, set)}

(* Settings that choose other paths through the method. *)
Modes(m) == {Base(m)} \union
    UNION {Moved(m, p) : p \in {q \in DOMAIN m.params : m.params[q].kind \in {"mode", "mode1d", "option"}}}
At(set, point) == [set |-> set, point |-> point]
Audits(quoted, a, b) == [quoted |-> quoted, audits |-> <<a, b>>]
(* From the centre to another point or back, in each mode; one setting     *)
(* after another at the centre, and so without quoted parameters.          *)
PlansOf(m) ==
    {Audits(TRUE, At(set, Centre(m)), At(set, p)) : set \in Modes(m), p \in PointsOf(m)}
    \union {Audits(TRUE, At(set, p), At(set, Centre(m))) : set \in Modes(m), p \in PointsOf(m)}
    \union {Audits(quoted, At(set, Centre(m)), At(Base(m), Centre(m))) :
              quoted \in BOOLEAN, set \in SettingsOf(m)}

(* The syntax trees of the catalogue, and how deep they are.               *)
RECURSIVE Within1(_)
Within1(es) == LET inner == UNION {Parts(e) : e \in es} \ es
               IN  IF inner = {} THEN es ELSE es \union Within1(inner)
RECURSIVE Nested(_)
Nested(ss) == LET inner == UNION {IF s.k = "when" THEN Named(s.a) \union Named(s.b)
                                  ELSE IF s.k = "ask" THEN Named(Helper(s.fn).body) ELSE {} : s \in ss} \ ss
              IN  IF inner = {} THEN ss ELSE ss \union Nested(inner)
CatalogueStatements == Nested(UNION {Named(Catalogue[name].body) : name \in DOMAIN Catalogue})
CatalogueTerms == Within1(UNION {TermsIn(s) : s \in CatalogueStatements})
DepthOf(x) ==
    LET below == {Depth(d) : d \in IF x.k = "when" THEN Named(x.a \o x.b) ELSE IF x.k \in Kinds THEN {} ELSE Parts(x)}
    IN  IF below = {} THEN 0 ELSE 1 + CHOOSE n \in below : \A k \in below : k <= n
=============================================================================
