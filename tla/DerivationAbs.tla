---------------------------- MODULE DerivationAbs ----------------------------
(***************************************************************************)
(* What observed evaluation promises, without its scans: any unused        *)
(* relation with one unknown and one root may be consumed, in any order,   *)
(* a connection being nothing special; the judgement comes in one step,    *)
(* and only when no relation can be consumed any more.                     *)
(***************************************************************************)
EXTENDS Relations

VARIABLES
  relations, observed, skip,   \* the problem
  known, used,                 \* values and the occurrences that made them
  checked, unchecked, outcome  \* the judgement

problem == <<relations, observed, skip>>
vars == <<problem, known, used, checked, unchecked, outcome>>

Index == 1 .. Len(relations)
Known == KnownIn(known)
Missing == Var \ Known

Init ==
  /\ relations \in Systems
  /\ observed \in Partial
  /\ skip \in BOOLEAN
  /\ known = observed
  /\ used = {}
  /\ checked = {}
  /\ unchecked = {}
  /\ outcome = "none"

(* The dependencies, as far as the values of the snapshot show them.       *)
Needs(i) == Reads(relations[i], Filled(observed))

CanDerive(i, v, x) ==
  /\ relations[i].traced
  /\ Consumable(relations[i])
  /\ i \notin used
  /\ Needs(i) \ Known = {v}
  /\ IsRoot(relations[i], v, x, Filled(known))

Derive(i) ==
  /\ outcome = "none"
  /\ \E v \in Var, x \in Value :
       /\ CanDerive(i, v, x)
       /\ known' = [known EXCEPT ![v] = x]
  /\ used' = used \cup {i}
  /\ UNCHANGED <<problem, checked, unchecked, outcome>>

Open == {i \in Index \ used :
           IF relations[i].traced THEN Needs(i) \subseteq Known ELSE Missing = {}}

Exhausted == \A i \in Index, v \in Var, x \in Value : ~CanDerive(i, v, x)
Refuses(i) == Residual(relations[i], Filled(known)) = "refused"

(* A refusal comes from the first trace of all relations or from a check.  *)
Refuse ==
  /\ outcome = "none"
  /\ outcome' = "refused"
  /\ \/ known = observed /\ \E i \in Index : Refuses(i)
     \/ Exhausted /\ \E i \in Open : Refuses(i)
  /\ UNCHANGED <<problem, known, used, checked, unchecked>>

Judge ==
  /\ outcome = "none"
  /\ Exhausted
  /\ \A i \in Open : ~Refuses(i)
  /\ checked' = Open
  /\ unchecked' = (Index \ used) \ Open
  /\ outcome' =
       IF Missing # {} /\ ~skip THEN "missing"
       ELSE IF Open = {} THEN "no_check"
       ELSE IF AuditPasses({relations[i] : i \in Open}, Filled(known))
            THEN "pass" ELSE "fail"
  /\ UNCHANGED <<problem, known, used>>

Next ==
  \/ \E i \in Index : Derive(i)
  \/ Refuse
  \/ Judge

Spec == Init /\ [][Next]_vars

=============================================================================
