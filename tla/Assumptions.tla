----------------------------- MODULE Assumptions -----------------------------
(***************************************************************************)
(* Explicit assumption cards (AssumptionManager in core/assumptions.py)    *)
(* and what the residual builder makes of them (core/residual.py).         *)
(*                                                                         *)
(* Constructing a builder applies the parameter cards in order and marks   *)
(* the others; each evaluation then leaves out overridden boundaries and   *)
(* turns variable cards into residuals, marking them again.  A value is    *)
(* abstracted to where it comes from: the model, or the number of a card.  *)
(***************************************************************************)
EXTENDS Naturals, Sequences

CONSTANTS
  Parameter,        \* the parameters cards may name
  Variable,         \* the variables cards and boundaries may name
  Registered,       \* those whose component exists, or that are registered
  Decks,            \* the sequences of cards considered
  Missing           \* the value of a parameter that nobody gives

Card == [type : {"parameter", "variable", "context"},
         target : Parameter \cup Variable,
         status : {"active", "rejected", "proposed"},
         override : BOOLEAN,
         numeric : BOOLEAN]

ASSUME DeckAssumption ==
  /\ Registered \subseteq Parameter \cup Variable
  /\ Decks \subseteq Seq(Card)
  /\ Missing \notin Nat
  /\ \A d \in Decks : \A i \in 1 .. Len(d) :
       /\ d[i].type = "parameter" => d[i].target \in Parameter
       /\ d[i].type = "variable" => d[i].target \in Variable

VARIABLES
  deck,        \* the cards of the system, in order
  given,       \* the parameters the model gives explicitly
  boundaries,  \* the variables with an explicit boundary
  params,      \* where the value of each parameter comes from
  card,        \* what each card reports
  records,     \* the constraints on variables, by what they come from
  specs,       \* the cards that were turned into constraints
  pc,
  next         \* the next card to look at

problem == <<deck, given, boundaries>>
vars == <<problem, params, card, records, specs, pc, next>>

Index == 1 .. Len(deck)
Explicit == 0       \* the model itself, as if it were a card before the others
Applications ==
  {"none", "parameter_fill", "parameter_override", "not_applied_existing_parameter",
   "boundary_residual", "not_applied_existing_boundary", "context_only",
   "not_applied_rejected", "not_applied_proposed"}

TypeOK ==
  /\ deck \in Decks
  /\ given \subseteq Parameter
  /\ boundaries \subseteq Variable
  /\ params \in [Parameter -> {Missing, Explicit} \cup Index]
  /\ card \in [Index -> [applied : BOOLEAN, application : Applications]]
  /\ records \subseteq Variable \X ({Explicit} \cup Index)
  /\ specs \subseteq Index
  /\ pc \in {"apply", "mark", "built", "specify", "emit", "evaluated", "failed"}
  /\ next \in Nat \ {0}

Report(applied, application) == [applied |-> applied, application |-> application]

(* A card that is not active never counts as applied.                      *)
Inactive(i) ==
  Report(FALSE, IF deck[i].status = "rejected" THEN "not_applied_rejected"
                ELSE "not_applied_proposed")

IsActive(i) == deck[i].status = "active"

Init ==
  /\ deck \in Decks
  /\ given \in SUBSET (Parameter \cap Registered)
  /\ boundaries \in SUBSET Variable
  /\ params = [p \in Parameter |-> IF p \in given THEN Explicit ELSE Missing]
  /\ card = [i \in Index |-> IF IsActive(i) THEN Report(FALSE, "none") ELSE Inactive(i)]
  /\ records = {}
  /\ specs = {}
  /\ pc = "apply"
  /\ next = 1

Take(i) == i = next /\ i \in Index /\ next' = next + 1
Set(i, report) == card' = [card EXCEPT ![i] = report]

(* The end of a loop over the cards.                                       *)
Pass(here, there) ==
  /\ pc = here
  /\ next \notin Index
  /\ pc' = there
  /\ next' = 1
  /\ UNCHANGED <<problem, params, card, records, specs>>

-----------------------------------------------------------------------------
(* Construction: apply_parameter_assumptions.                              *)
IsParameterCard(i) == deck[i].type = "parameter" /\ IsActive(i)

SkipCard(i) ==
  /\ pc = "apply"
  /\ Take(i)
  /\ ~IsParameterCard(i)
  /\ IF deck[i].type = "parameter" THEN Set(i, Inactive(i)) ELSE UNCHANGED card
  /\ UNCHANGED <<problem, params, records, specs, pc>>

UnknownComponent(i) ==
  /\ pc = "apply"
  /\ i = next /\ i \in Index
  /\ IsParameterCard(i)
  /\ deck[i].target \notin Registered
  /\ pc' = "failed"
  /\ UNCHANGED <<problem, params, card, records, specs, next>>

(* Mutant of Present: the parameters of the model as it was written.       *)
PresentInModel(p) == p \in given

Present(p) == params[p] # Missing

ApplyCard(i) ==
  LET p == deck[i].target IN
  /\ pc = "apply"
  /\ Take(i)
  /\ IsParameterCard(i)
  /\ p \in Registered
  /\ IF Present(p) /\ ~deck[i].override
     THEN /\ Set(i, Report(FALSE, "not_applied_existing_parameter"))
          /\ UNCHANGED params
     ELSE /\ Set(i, Report(TRUE, IF Present(p) THEN "parameter_override" ELSE "parameter_fill"))
          /\ params' = [params EXCEPT ![p] = i]
  /\ UNCHANGED <<problem, records, specs, pc>>

(* What a variable card reports: an explicit boundary is preferred unless  *)
(* the card may override it.                                               *)
Preferred(i) == deck[i].target \in boundaries /\ ~deck[i].override

VariableReport(i) ==
  IF ~IsActive(i) THEN Inactive(i)
  ELSE IF Preferred(i) THEN Report(FALSE, "not_applied_existing_boundary")
  ELSE Report(TRUE, "boundary_residual")

(* Mutant of MarkCard: every active variable card is marked as applied.    *)
MarkEagerly(i) ==
  /\ pc = "mark"
  /\ Take(i)
  /\ \/ deck[i].type # "variable" /\ UNCHANGED card
     \/ deck[i].type = "variable" /\ Set(i, IF IsActive(i) THEN Report(TRUE, "boundary_residual")
                                            ELSE Inactive(i))
  /\ UNCHANGED <<problem, params, records, specs, pc>>

MarkCard(i) ==
  /\ pc = "mark"
  /\ Take(i)
  /\ \/ deck[i].type = "parameter" /\ UNCHANGED card
     \/ deck[i].type = "variable" /\ Set(i, VariableReport(i))
     \/ deck[i].type = "context" /\ Set(i, IF IsActive(i) THEN Report(TRUE, "context_only")
                                           ELSE Inactive(i))
  /\ UNCHANGED <<problem, params, records, specs, pc>>

-----------------------------------------------------------------------------
(* Evaluation: the boundaries that no active card overrides, then the      *)
(* cards that constrain a variable.                                        *)
(* Mutant of ShouldSkip: whatever the status of the card.                  *)
SkipByAnyCard(v) ==
  \E i \in Index : deck[i].type = "variable" /\ deck[i].override /\ deck[i].target = v

ShouldSkip(v) ==
  \E i \in Index : /\ deck[i].type = "variable" /\ IsActive(i)
                   /\ deck[i].override /\ deck[i].target = v

Kept == {v \in boundaries : ~ShouldSkip(v)}

Evaluate ==
  /\ pc = "built"
  /\ IF Kept \subseteq Registered
     THEN /\ records' = {<<v, Explicit>> : v \in Kept}
          /\ pc' = "specify"
     ELSE pc' = "failed" /\ UNCHANGED records
  /\ UNCHANGED <<problem, params, card, specs, next>>

(* The spec of one card; a value that is no number ends the evaluation     *)
(* before the card is marked.  Mutant: the card is marked first, and a     *)
(* preferred boundary does not keep it from constraining.                  *)
SpecifyAlways(i) ==
  /\ pc = "specify"
  /\ Take(i)
  /\ specs' = IF deck[i].type = "variable" /\ IsActive(i) THEN specs \cup {i} ELSE specs
  /\ UNCHANGED <<problem, params, card, records, pc>>

SpecifyCard(i) ==
  LET constrains == deck[i].type = "variable" /\ IsActive(i) /\ ~Preferred(i) IN
  /\ pc = "specify"
  /\ IF constrains /\ ~deck[i].numeric
     THEN i = next /\ i \in Index /\ pc' = "failed" /\ UNCHANGED <<card, specs, next>>
     ELSE /\ Take(i)
          /\ IF deck[i].type = "variable" THEN Set(i, VariableReport(i)) ELSE UNCHANGED card
          /\ specs' = IF constrains THEN specs \cup {i} ELSE specs
          /\ UNCHANGED pc
  /\ UNCHANGED <<problem, params, records>>

Emit ==
  /\ pc = "emit"
  /\ IF \A i \in specs : deck[i].target \in Registered
     THEN /\ records' = records \cup {<<deck[i].target, i>> : i \in specs}
          /\ pc' = "evaluated"
     ELSE pc' = "failed" /\ UNCHANGED records
  /\ UNCHANGED <<problem, params, card, specs, next>>

(* A builder is evaluated again and again, at other values.                *)
Again ==
  /\ pc = "evaluated"
  /\ pc' = "built"
  /\ records' = {}
  /\ specs' = {}
  /\ next' = 1
  /\ UNCHANGED <<problem, params, card>>

Next ==
  \/ \E i \in Index : \/ SkipCard(i) \/ UnknownComponent(i) \/ ApplyCard(i)
                      \/ MarkCard(i) \/ SpecifyCard(i)
  \/ Pass("apply", "mark")
  \/ Pass("mark", "built")
  \/ Evaluate
  \/ Pass("specify", "emit")
  \/ Emit
  \/ Again

Spec == Init /\ [][Next]_vars

-----------------------------------------------------------------------------
(* Only a card that may override displaces a value, be it the model's or   *)
(* that of an earlier card, and the last applied card is in effect.        *)
OnlyOverridesDisplace ==
  pc # "apply" /\ pc # "failed" => \A p \in Parameter :
    LET applied == {i \in Index : deck[i].type = "parameter" /\ deck[i].target = p /\ card[i].applied}
    IN  /\ \A i \in applied :
             (p \in given \/ \E j \in applied : j < i) => deck[i].override
        /\ IF applied = {} THEN params[p] = IF p \in given THEN Explicit ELSE Missing
           ELSE params[p] \in applied /\ \A i \in applied : i <= params[p]

(* Leaving out a boundary never leaves its variable unconstrained.         *)
NoConstraintIsLost ==
  pc = "evaluated" => \A v \in boundaries : \E by \in {Explicit} \cup Index : <<v, by>> \in records

(* A variable card reports that it was applied exactly when one of the     *)
(* constraints of the evaluation is its own.                               *)
CardsTellRecords ==
  pc = "evaluated" => \A i \in Index :
    deck[i].type = "variable" => (card[i].applied <=> <<deck[i].target, i>> \in records)

(* What the cards say before any evaluation ("assumptions inspect") is     *)
(* what they say after every one: the two markings agree.                  *)
EvaluationKeepsCards == [][pc \notin {"apply", "mark"} => card' = card]_vars

=============================================================================
