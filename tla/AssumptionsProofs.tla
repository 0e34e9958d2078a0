-------------------------- MODULE AssumptionsProofs --------------------------
(***************************************************************************)
(* For every deck of cards: only an override displaces a value, no         *)
(* overridden boundary leaves its variable unconstrained, and what the     *)
(* cards report before an evaluation is what they report after it.         *)
(***************************************************************************)
EXTENDS Assumptions, TLAPS

IsVariableCard(i) == deck[i].type = "variable"
Constrains(i) == IsVariableCard(i) /\ IsActive(i) /\ ~Preferred(i)
Applied(p) == {i \in Index : deck[i].type = "parameter" /\ deck[i].target = p /\ card[i].applied}

(* The body of OnlyOverridesDisplace, which holds while cards are applied. *)
Displaced(p) ==
  /\ \A i \in Applied(p) : (p \in given \/ \E j \in Applied(p) : j < i) => deck[i].override
  /\ IF Applied(p) = {} THEN params[p] = IF p \in given THEN Explicit ELSE Missing
     ELSE params[p] \in Applied(p) /\ \A i \in Applied(p) : i <= params[p]

Waiting == pc = "apply" => \A j \in Index : j >= next => ~card[j].applied

(* What the marking of the variable cards has reached.                     *)
Marked ==
  \A j \in Index : IsVariableCard(j) =>
    ((pc = "mark" /\ j < next) \/ pc \in {"built", "specify", "emit", "evaluated"}
       => card[j] = VariableReport(j))

(* What an evaluation has collected.                                       *)
Collected ==
  /\ pc = "specify" => specs = {j \in Index : j < next /\ Constrains(j)}
  /\ pc \in {"emit", "evaluated"} => specs = {j \in Index : Constrains(j)}
  /\ pc \in {"specify", "emit"} => records = {<<v, Explicit>> : v \in Kept}
  /\ pc = "evaluated" => records = {<<v, Explicit>> : v \in Kept}
                                   \cup {<<deck[j].target, j>> : j \in specs}
  /\ pc \in {"apply", "mark", "built"} => specs = {}
  /\ pc = "built" => next = 1

IInv ==
  /\ TypeOK
  /\ \A p \in Parameter : Displaced(p)
  /\ Waiting
  /\ Marked
  /\ Collected

LEMMA InitInv == Init => IInv
  <1> SUFFICES ASSUME Init PROVE IInv  OBVIOUS
  <1>1. TypeOK
    <2>1. card \in [Index -> [applied : BOOLEAN, application : Applications]]
      BY DEF Init, Report, Inactive, Applications
    <2>2. params \in [Parameter -> {Missing, Explicit} \cup Index]
      BY DEF Init
    <2>3. given \subseteq Parameter /\ boundaries \subseteq Variable
      BY DEF Init
    <2>4. /\ deck \in Decks /\ specs \subseteq Index /\ next \in Nat \ {0}
          /\ records \subseteq Variable \X ({Explicit} \cup Index)
      BY DEF Init
    <2>5. pc \in {"apply", "mark", "built", "specify", "emit", "evaluated", "failed"}
      BY DEF Init
    <2> QED  BY <2>1, <2>2, <2>3, <2>4, <2>5 DEF TypeOK
  <1>2. \A j \in Index : ~card[j].applied
    BY DEF Init, Report, Inactive
  <1>3. \A p \in Parameter : Displaced(p)
    BY <1>2 DEF Init, Displaced, Applied
  <1> QED  BY <1>1, <1>2, <1>3 DEF Init, IInv, Waiting, Marked, Collected

(* The steps that only look at a card of another kind, or end a loop.      *)
LEMMA DeckFacts ==
  ASSUME IInv
  PROVE  /\ Len(deck) \in Nat
         /\ \A i \in Index : /\ deck[i].type \in {"parameter", "variable", "context"}
                             /\ deck[i].status \in {"active", "rejected", "proposed"}
                             /\ deck[i].override \in BOOLEAN
                             /\ IsVariableCard(i) => deck[i].target \in Variable
                             /\ deck[i].type = "parameter" => deck[i].target \in Parameter
  <1>1. deck \in Decks /\ deck \in Seq(Card)
    BY DeckAssumption DEF IInv, TypeOK
  <1>2. Len(deck) \in Nat /\ \A i \in Index : deck[i] \in Card
    BY <1>1 DEF Index
  <1>3. \A i \in Index : /\ IsVariableCard(i) => deck[i].target \in Variable
                         /\ deck[i].type = "parameter" => deck[i].target \in Parameter
    BY <1>1, DeckAssumption DEF Index, IsVariableCard
  <1> QED  BY <1>2, <1>3 DEF Card

LEMMA ReportType ==
  /\ Report(TRUE, "parameter_override") \in [applied : BOOLEAN, application : Applications]
  /\ Report(TRUE, "parameter_fill") \in [applied : BOOLEAN, application : Applications]
  /\ Report(TRUE, "context_only") \in [applied : BOOLEAN, application : Applications]
  /\ Report(FALSE, "not_applied_existing_parameter") \in [applied : BOOLEAN, application : Applications]
  /\ \A i : Inactive(i) \in [applied : BOOLEAN, application : Applications]
  /\ \A i : VariableReport(i) \in [applied : BOOLEAN, application : Applications]
  BY DEF Report, Inactive, VariableReport, Applications

(* A step that keeps the parameters and the cards of parameters keeps what *)
(* was displaced; one that keeps the problem keeps what cards report.      *)
LEMMA KeepsDisplaced ==
  ASSUME IInv, UNCHANGED <<problem, params>>,
         \A i \in Index : deck[i].type = "parameter" => card'[i].applied = card[i].applied
  PROVE  \A p \in Parameter : Displaced(p)'
  <1> TAKE p \in Parameter
  <1>1. Index' = Index  BY DEF Index, problem
  <1>2. Applied(p)' = Applied(p)
    BY <1>1 DEF Applied, problem
  <1>3. Displaced(p)
    BY DEF IInv
  <1> QED  BY <1>2, <1>3 DEF Displaced, problem

LEMMA SameProblem ==
  ASSUME UNCHANGED problem
  PROVE  /\ UNCHANGED <<deck, given, boundaries, Index, Kept>>
         /\ \A i : /\ IsActive(i)' = IsActive(i)
                   /\ IsVariableCard(i)' = IsVariableCard(i)
                   /\ Constrains(i)' = Constrains(i)
                   /\ VariableReport(i)' = VariableReport(i)
  BY DEF problem, Index, IsActive, IsVariableCard, Constrains, Preferred,
         VariableReport, Inactive, Kept, ShouldSkip, Report

(* While the parameter cards are applied nothing else has happened.        *)
LEMMA ApplyingKeeps ==
  ASSUME IInv, pc = "apply", pc' = "apply", UNCHANGED <<problem, records, specs>>
  PROVE  Marked' /\ Collected'
  BY DEF IInv, Marked, Collected

LEMMA SkipStep ==
  ASSUME IInv, NEW i \in Index, SkipCard(i)
  PROVE  IInv'
  <1>1. /\ pc = "apply" /\ pc' = "apply" /\ i = next /\ next' = next + 1
        /\ UNCHANGED <<problem, params, records, specs>>
    BY DEF SkipCard, Take
  <1>2. next \in Nat \ {0} /\ card \in [Index -> [applied : BOOLEAN, application : Applications]]
    BY DEF IInv, TypeOK
  <1>3. card' = card \/ card' = [card EXCEPT ![i] = Inactive(i)]
    BY DEF SkipCard, Set
  <1>4. card' \in [Index -> [applied : BOOLEAN, application : Applications]]
    BY <1>2, <1>3, ReportType
  <1>5. card[i].applied = FALSE
    <2>1. ~card[next].applied /\ card[next].applied \in BOOLEAN
      BY <1>1, <1>2 DEF IInv, Waiting
    <2> QED  BY <1>1, <2>1
  <1>6. \A j \in Index : card'[j].applied = card[j].applied
    <2>1. Inactive(i).applied = FALSE
      BY DEF Inactive, Report
    <2>2. CASE card' = card  BY <2>2
    <2>3. CASE card' = [card EXCEPT ![i] = Inactive(i)]
      <3> TAKE j \in Index
      <3>1. CASE j = i
        <4>1. card'[i] = Inactive(i)  BY <1>2, <2>3
        <4> QED  BY <1>5, <2>1, <3>1, <4>1
      <3>2. CASE j # i
        <4>1. card'[j] = card[j]  BY <1>2, <2>3, <3>2
        <4> QED  BY <4>1
      <3> QED  BY <3>1, <3>2
    <2> QED  BY <1>3, <2>2, <2>3
  <1>7. TypeOK'
    BY <1>1, <1>2, <1>4 DEF IInv, TypeOK, problem, Index
  <1>8. \A p \in Parameter : Displaced(p)'
    BY <1>1, <1>6, KeepsDisplaced
  <1>9. Waiting'
    BY <1>1, <1>2, <1>6 DEF IInv, Waiting, Index, problem
  <1> QED  BY <1>1, <1>7, <1>8, <1>9, ApplyingKeeps DEF IInv

LEMMA ApplyStep ==
  ASSUME IInv, NEW i \in Index, ApplyCard(i)
  PROVE  IInv'
  <1> DEFINE p == deck[i].target
  <1>1. /\ pc = "apply" /\ pc' = "apply" /\ i = next /\ next' = next + 1
        /\ deck[i].type = "parameter"
        /\ UNCHANGED <<problem, records, specs>>
    BY DEF ApplyCard, Take, IsParameterCard
  <1>2. /\ next \in Nat \ {0} /\ p \in Parameter
        /\ card \in [Index -> [applied : BOOLEAN, application : Applications]]
        /\ params \in [Parameter -> {Missing, Explicit} \cup Index]
    <2>1. deck[i].target \in Parameter
      BY <1>1, DeckFacts
    <2> QED  BY <2>1 DEF IInv, TypeOK
  <1>3. UNCHANGED Index /\ Index \subseteq Nat \ {0}
    BY <1>1, DeckFacts DEF problem, Index
  <1>4. card[i].applied = FALSE /\ \A j \in Index : card[j].applied => j < i
    <2>1. \A j \in Index : j >= i => ~card[j].applied
      BY <1>1 DEF IInv, Waiting
    <2>2. card[i].applied \in BOOLEAN /\ i \in Nat
      BY <1>2, <1>3
    <2>3. ~card[i].applied
      BY <2>1, <2>2
    <2>4. \A j \in Index : card[j].applied => j < i
      BY <1>3, <2>1, <2>2
    <2> QED  BY <2>2, <2>3, <2>4
  <1>5. CASE Present(p) /\ ~deck[i].override
    <2>1. card' = [card EXCEPT ![i] = Report(FALSE, "not_applied_existing_parameter")] /\ params' = params
      BY <1>5 DEF ApplyCard, Set
    <2>2. card' \in [Index -> [applied : BOOLEAN, application : Applications]]
      BY <1>2, <2>1, ReportType
    <2>3. \A j \in Index : card'[j].applied = card[j].applied
      <3> TAKE j \in Index
      <3>1. CASE j = i
        <4>1. card'[i].applied = FALSE  BY <1>2, <2>1 DEF Report
        <4> QED  BY <1>4, <3>1, <4>1
      <3>2. CASE j # i
        <4>1. card'[j] = card[j]  BY <1>2, <2>1, <3>2
        <4> QED  BY <4>1
      <3> QED  BY <3>1, <3>2
    <2>4. TypeOK'
      <3>1. params' \in [Parameter -> {Missing, Explicit} \cup Index]
        BY <1>2, <2>1
      <3> QED  BY <1>1, <1>2, <1>3, <2>2, <3>1 DEF IInv, TypeOK, problem
    <2>5. \A q \in Parameter : Displaced(q)'
      BY <1>1, <2>1, <2>3, KeepsDisplaced
    <2>6. Waiting'
      BY <1>1, <1>2, <1>3, <2>3 DEF IInv, Waiting
    <2> QED  BY <1>1, <2>4, <2>5, <2>6, ApplyingKeeps DEF IInv
  <1>6. CASE ~ (Present(p) /\ ~deck[i].override)
    <2>1. /\ card' = [card EXCEPT ![i] =
               Report(TRUE, IF Present(p) THEN "parameter_override" ELSE "parameter_fill")]
          /\ params' = [params EXCEPT ![p] = i]
      BY <1>6 DEF ApplyCard, Set
    <2>2. card' \in [Index -> [applied : BOOLEAN, application : Applications]]
      BY <1>2, <2>1, ReportType
    <2>3. /\ card'[i].applied
          /\ \A j \in Index \ {i} : card'[j] = card[j]
      BY <1>2, <2>1 DEF Report
    <2>4. TypeOK'
      <3>1. params' \in [Parameter -> {Missing, Explicit} \cup Index]
        BY <1>2, <2>1
      <3> QED  BY <1>1, <1>2, <1>3, <2>2, <3>1 DEF IInv, TypeOK, problem
    <2>5. ASSUME NEW q \in Parameter  PROVE Displaced(q)'
      <3>1. CASE q = p
        <4>1. Applied(p)' = Applied(p) \cup {i}
          BY <1>1, <1>3, <2>3 DEF Applied, problem
        <4>2. \A j \in Applied(p) : j < i /\ j \in Nat
          BY <1>3, <1>4 DEF Applied
        <4>3. Displaced(p) /\ i \in Nat
          BY <1>2, <1>3 DEF IInv
        <4>4. params'[p] = i
          BY <1>2, <2>1
        <4>5. p \in given \/ Applied(p) # {} => Present(p)
          <5>1. CASE Applied(p) # {}
            <6>1. params[p] \in Index
              BY <4>3, <5>1 DEF Displaced, Applied
            <6> QED  BY <1>3, <6>1, DeckAssumption DEF Present
          <5>2. CASE Applied(p) = {} /\ p \in given
            BY <4>3, <5>2, DeckAssumption DEF Displaced, Present, Explicit
          <5> QED  BY <5>1, <5>2
        <4>6. p \in given \/ Applied(p) # {} => deck[i].override
          BY <1>6, <4>5
        <4>7. \A j \in Applied(p) : (p \in given \/ \E k \in Applied(p) : k < j) => deck[j].override
          BY <4>3 DEF Displaced
        <4>8. \A j \in Applied(p)' : (p \in given \/ \E k \in Applied(p)' : k < j) => deck[j].override
          BY <4>1, <4>2, <4>3, <4>6, <4>7
        <4>9. params'[p] \in Applied(p)' /\ \A j \in Applied(p)' : j <= params'[p]
          BY <4>1, <4>2, <4>3, <4>4
        <4> QED  BY <1>1, <3>1, <4>8, <4>9 DEF Displaced, problem
      <3>2. CASE q # p
        <4>1. Applied(q)' = Applied(q)
          BY <1>1, <1>3, <2>3, <3>2 DEF Applied, problem
        <4>2. params'[q] = params[q] /\ Displaced(q)
          BY <1>2, <2>1, <3>2 DEF IInv
        <4> QED  BY <1>1, <4>1, <4>2 DEF Displaced, problem
      <3> QED  BY <3>1, <3>2
    <2>6. Waiting'
      BY <1>1, <1>2, <1>3, <2>3 DEF IInv, Waiting
    <2> QED  BY <1>1, <2>4, <2>5, <2>6, ApplyingKeeps DEF IInv
  <1> QED  BY <1>5, <1>6

(* After the parameters: a step that keeps the problem, the parameters and *)
(* the reports of the parameter cards owes the rest of the invariant.      *)
LEMMA LaterStep ==
  ASSUME IInv, UNCHANGED <<problem, params>>, pc' # "apply",
         card' \in [Index -> [applied : BOOLEAN, application : Applications]],
         \A j \in Index : deck[j].type = "parameter" => card'[j] = card[j],
         records' \subseteq Variable \X ({Explicit} \cup Index),
         specs' \subseteq Index,
         pc' \in {"mark", "built", "specify", "emit", "evaluated", "failed"},
         next' \in Nat \ {0},
         Marked', Collected'
  PROVE  IInv'
  <1>1. UNCHANGED Index
    BY DEF problem, Index
  <1>2. TypeOK'
    BY <1>1 DEF IInv, TypeOK, problem
  <1>3. \A p \in Parameter : Displaced(p)'
    BY KeepsDisplaced
  <1> QED  BY <1>2, <1>3 DEF IInv, Waiting

LEMMA UnknownStep ==
  ASSUME IInv, NEW i \in Index, UnknownComponent(i)
  PROVE  IInv'
  <1>1. pc' = "failed" /\ UNCHANGED <<problem, params, card, records, specs, next>>
    BY DEF UnknownComponent
  <1>2. Marked' /\ Collected'
    BY <1>1 DEF Marked, Collected
  <1> QED  BY <1>1, <1>2, LaterStep DEF IInv, TypeOK

LEMMA MarkStep ==
  ASSUME IInv, NEW i \in Index, MarkCard(i)
  PROVE  IInv'
  <1> DEFINE Reports == [applied : BOOLEAN, application : Applications]
  <1>1. /\ pc = "mark" /\ pc' = "mark" /\ i = next /\ next' = next + 1
        /\ UNCHANGED <<problem, params, records, specs>>
    BY DEF MarkCard, Take
  <1>2. next \in Nat \ {0} /\ card \in [Index -> Reports]
    BY DEF IInv, TypeOK
  <1>3. UNCHANGED Index /\ Index \subseteq Nat \ {0}
    BY <1>1, DeckFacts DEF problem, Index
  <1>4. \/ ~IsVariableCard(i) /\ deck[i].type = "parameter" /\ card' = card
        \/ IsVariableCard(i) /\ card' = [card EXCEPT ![i] = VariableReport(i)]
        \/ /\ ~IsVariableCard(i) /\ deck[i].type = "context"
           /\ \/ card' = [card EXCEPT ![i] = Report(TRUE, "context_only")]
              \/ card' = [card EXCEPT ![i] = Inactive(i)]
    BY DEF MarkCard, Set, IsVariableCard
  <1>5. card' \in [Index -> Reports]
    <2>1. card' = card \/ \E r \in Reports : card' = [card EXCEPT ![i] = r]
      BY <1>4, ReportType
    <2> QED  BY <1>2, <2>1
  <1>6. \A j \in Index \ {i} : card'[j] = card[j]
    BY <1>2, <1>4
  <1>7. IsVariableCard(i) => card'[i] = VariableReport(i)
    BY <1>2, <1>4
  <1>8. \A j \in Index : deck[j].type = "parameter" => card'[j] = card[j]
    BY <1>4, <1>6 DEF IsVariableCard
  <1>9. Marked'
    <2> SUFFICES ASSUME NEW j \in Index, IsVariableCard(j), j < next'
                 PROVE  card'[j] = VariableReport(j)
      BY <1>1, <1>3, SameProblem DEF Marked
    <2>1. CASE j = i  BY <1>7, <2>1
    <2>2. CASE j # i
      <3>1. j < next
        BY <1>1, <1>2, <1>3, <2>2
      <3> QED  BY <1>1, <1>6, <2>2, <3>1 DEF IInv, Marked
    <2> QED  BY <2>1, <2>2
  <1>10. Collected'
    BY <1>1 DEF IInv, Collected
  <1>11. /\ records' \subseteq Variable \X ({Explicit} \cup Index)
         /\ specs' \subseteq Index /\ next' \in Nat \ {0}
    BY <1>1, <1>2 DEF IInv, TypeOK
  <1> QED  BY <1>1, <1>5, <1>8, <1>9, <1>10, <1>11, LaterStep

(* The loops over the cards end when every card has been looked at.        *)
LEMMA Finished ==
  ASSUME IInv, next \notin Index
  PROVE  \A j \in Index : j < next
  <1>1. next \in Nat \ {0}
    BY DEF IInv, TypeOK
  <1> QED  BY <1>1, DeckFacts DEF Index

LEMMA PassStep ==
  ASSUME IInv, Pass("apply", "mark") \/ Pass("mark", "built") \/ Pass("specify", "emit")
  PROVE  IInv'
  <1>1. /\ \/ pc = "apply" /\ pc' = "mark"
           \/ pc = "mark" /\ pc' = "built"
           \/ pc = "specify" /\ pc' = "emit"
        /\ next \notin Index /\ next' = 1
        /\ UNCHANGED <<problem, params, card, records, specs>>
    BY DEF Pass
  <1>2. \A j \in Index : j < next
    BY <1>1, Finished
  <1>3. UNCHANGED Index /\ Index \subseteq Nat \ {0}
    BY <1>1, DeckFacts DEF problem, Index
  <1>4. Marked'
    <2> SUFFICES ASSUME NEW j \in Index, IsVariableCard(j), pc' # "mark"
                 PROVE  card[j] = VariableReport(j)
      BY <1>1, <1>3, SameProblem DEF Marked
    <2> QED  BY <1>1, <1>2 DEF IInv, Marked
  <1>5. Collected'
    <2>1. CASE pc' = "emit"
      BY <1>1, <1>2, <2>1, SameProblem DEF IInv, Collected
    <2>2. CASE pc' # "emit"
      BY <1>1, <2>2 DEF IInv, Collected
    <2> QED  BY <2>1, <2>2
  <1>6. /\ card' \in [Index -> [applied : BOOLEAN, application : Applications]]
        /\ records' \subseteq Variable \X ({Explicit} \cup Index)
        /\ specs' \subseteq Index
    BY <1>1 DEF IInv, TypeOK
  <1> QED  BY <1>1, <1>4, <1>5, <1>6, LaterStep

LEMMA EvaluateStep ==
  ASSUME IInv, Evaluate
  PROVE  IInv'
  <1>1. /\ pc = "built"
        /\ \/ records' = {<<v, Explicit>> : v \in Kept} /\ pc' = "specify"
           \/ UNCHANGED records /\ pc' = "failed"
        /\ UNCHANGED <<problem, params, card, specs, next>>
    BY DEF Evaluate
  <1>2. Kept \subseteq Variable
    BY DEF IInv, TypeOK, Kept
  <1>3. records' \subseteq Variable \X ({Explicit} \cup Index)
    BY <1>1, <1>2 DEF IInv, TypeOK
  <1>4. Marked'
    BY <1>1, SameProblem DEF IInv, Marked
  <1>5. specs = {} /\ next = 1
    BY <1>1 DEF IInv, Collected
  <1>6. Index \subseteq Nat \ {0}
    BY DeckFacts DEF Index
  <1>7. Collected'
    <2>1. CASE pc' = "specify"
      <3>1. {j \in Index : j < next /\ Constrains(j)} = {}
        <4>1. \A j \in Index : ~(j < next)
          BY <1>5, <1>6
        <4> QED  BY <4>1
      <3> QED  BY <1>1, <1>5, <2>1, <3>1, SameProblem DEF Collected
    <2>2. CASE pc' = "failed"
      BY <2>2 DEF Collected
    <2> QED  BY <1>1, <2>1, <2>2
  <1>8. /\ card' \in [Index -> [applied : BOOLEAN, application : Applications]]
        /\ specs' \subseteq Index /\ next' \in Nat \ {0}
    BY <1>1 DEF IInv, TypeOK
  <1> QED  BY <1>1, <1>3, <1>4, <1>7, <1>8, LaterStep

(* An evaluation sets a card to what the construction made it report.      *)
LEMMA SpecifyKeepsCard ==
  ASSUME IInv, NEW i \in Index, SpecifyCard(i)
  PROVE  card' = card
  <1>1. pc = "specify"
    BY DEF SpecifyCard
  <1>2. card \in [Index -> [applied : BOOLEAN, application : Applications]]
    BY DEF IInv, TypeOK
  <1>3. \/ card' = card
        \/ IsVariableCard(i) /\ card' = [card EXCEPT ![i] = VariableReport(i)]
    BY DEF SpecifyCard, Set, IsVariableCard
  <1>4. IsVariableCard(i) => card[i] = VariableReport(i)
    BY <1>1 DEF IInv, Marked
  <1> QED  BY <1>2, <1>3, <1>4

LEMMA SpecifyStep ==
  ASSUME IInv, NEW i \in Index, SpecifyCard(i)
  PROVE  IInv'
  <1>1. pc = "specify" /\ i = next /\ card' = card
        /\ UNCHANGED <<problem, params, records>>
    BY SpecifyKeepsCard DEF SpecifyCard, Take
  <1>2. \/ pc' = "failed" /\ UNCHANGED <<specs, next>>
        \/ /\ pc' = "specify" /\ next' = next + 1
           /\ specs' = IF Constrains(i) THEN specs \cup {i} ELSE specs
    BY <1>1 DEF SpecifyCard, Take, Constrains, IsVariableCard
  <1>3. UNCHANGED Index /\ Index \subseteq Nat \ {0}
    BY <1>1, DeckFacts DEF problem, Index
  <1>4. specs = {j \in Index : j < next /\ Constrains(j)} /\ next \in Nat \ {0}
    BY <1>1 DEF IInv, Collected, TypeOK
  <1>5. Marked'
    BY <1>1, <1>2, SameProblem DEF IInv, Marked
  <1>6. Collected'
    <2>1. CASE pc' = "failed"
      BY <2>1 DEF Collected
    <2>2. CASE pc' # "failed"
      <3>1. specs' = {j \in Index : j < next' /\ Constrains(j)}
        BY <1>1, <1>2, <1>3, <1>4, <2>2
      <3> QED  BY <1>1, <1>2, <2>2, <3>1, SameProblem DEF IInv, Collected
    <2> QED  BY <2>1, <2>2
  <1>7. /\ card' \in [Index -> [applied : BOOLEAN, application : Applications]]
        /\ records' \subseteq Variable \X ({Explicit} \cup Index)
        /\ specs' \subseteq Index /\ next' \in Nat \ {0}
    BY <1>1, <1>2, <1>4 DEF IInv, TypeOK
  <1> QED  BY <1>1, <1>2, <1>5, <1>6, <1>7, LaterStep

LEMMA EmitStep ==
  ASSUME IInv, Emit
  PROVE  IInv'
  <1>1. /\ pc = "emit"
        /\ \/ records' = records \cup {<<deck[j].target, j>> : j \in specs} /\ pc' = "evaluated"
           \/ UNCHANGED records /\ pc' = "failed"
        /\ UNCHANGED <<problem, params, card, specs, next>>
    BY DEF Emit
  <1>2. /\ specs = {j \in Index : Constrains(j)}
        /\ records = {<<v, Explicit>> : v \in Kept}
    BY <1>1 DEF IInv, Collected
  <1>3. \A j \in specs : deck[j].target \in Variable /\ j \in Index
    BY <1>2, DeckFacts DEF Constrains
  <1>4. records' \subseteq Variable \X ({Explicit} \cup Index)
    BY <1>1, <1>3 DEF IInv, TypeOK
  <1>5. Marked'
    BY <1>1, SameProblem DEF IInv, Marked
  <1>6. Collected'
    <2>1. CASE pc' = "failed"
      BY <2>1 DEF Collected
    <2>2. CASE pc' = "evaluated"
      BY <1>1, <1>2, <2>2, SameProblem DEF Collected
    <2> QED  BY <1>1, <2>1, <2>2
  <1>7. /\ card' \in [Index -> [applied : BOOLEAN, application : Applications]]
        /\ specs' \subseteq Index /\ next' \in Nat \ {0}
    BY <1>1 DEF IInv, TypeOK
  <1> QED  BY <1>1, <1>4, <1>5, <1>6, <1>7, LaterStep

LEMMA AgainStep ==
  ASSUME IInv, Again
  PROVE  IInv'
  <1>1. /\ pc = "evaluated" /\ pc' = "built" /\ next' = 1
        /\ records' = {} /\ specs' = {}
        /\ UNCHANGED <<problem, params, card>>
    BY DEF Again
  <1>2. Marked' /\ Collected'
    BY <1>1, SameProblem DEF IInv, Marked, Collected
  <1>3. card' \in [Index -> [applied : BOOLEAN, application : Applications]]
    BY <1>1 DEF IInv, TypeOK
  <1> QED  BY <1>1, <1>2, <1>3, LaterStep

LEMMA NextInv == IInv /\ [Next]_vars => IInv'
  <1> SUFFICES ASSUME IInv, [Next]_vars PROVE IInv'  OBVIOUS
  <1>1. ASSUME NEW i \in Index,
               SkipCard(i) \/ UnknownComponent(i) \/ ApplyCard(i) \/ MarkCard(i) \/ SpecifyCard(i)
        PROVE  IInv'
    BY <1>1, SkipStep, UnknownStep, ApplyStep, MarkStep, SpecifyStep
  <1>2. CASE Pass("apply", "mark") \/ Pass("mark", "built") \/ Pass("specify", "emit")
    BY <1>2, PassStep
  <1>3. CASE Evaluate  BY <1>3, EvaluateStep
  <1>4. CASE Emit      BY <1>4, EmitStep
  <1>5. CASE Again     BY <1>5, AgainStep
  <1>6. CASE UNCHANGED vars
    <2>1. UNCHANGED <<Index, params, card, records, specs, pc, next, problem>>
      BY <1>6 DEF vars, problem, Index
    <2>2. TypeOK'
      BY <2>1 DEF IInv, TypeOK, problem
    <2>3. \A p \in Parameter : Displaced(p)'
      BY <2>1, KeepsDisplaced
    <2>4. Waiting' /\ Marked' /\ Collected'
      BY <2>1, SameProblem DEF IInv, Waiting, Marked, Collected
    <2> QED  BY <2>2, <2>3, <2>4 DEF IInv
  <1> QED  BY <1>1, <1>2, <1>3, <1>4, <1>5, <1>6 DEF Next

LEMMA Invariant == Spec => []IInv
  BY InitInv, NextInv, PTL DEF Spec

-----------------------------------------------------------------------------
(* Cards, reports and constraints keep their shape for any deck.           *)
THEOREM TypeCorrect == Spec => []TypeOK
  <1>1. IInv => TypeOK
    BY DEF IInv
  <1> QED  BY Invariant, <1>1, PTL

(* Only a card with allow_override displaces the model's parameter or that *)
(* of an earlier card, and the last card that reports itself applied is    *)
(* the one in effect.                                                      *)
THEOREM OverridesOnly == Spec => []OnlyOverridesDisplace
  <1>1. IInv => OnlyOverridesDisplace
    BY DEF IInv, OnlyOverridesDisplace, Displaced, Applied
  <1> QED  BY Invariant, <1>1, PTL

(* should_skip_explicit_boundary leaves out a boundary only when one of    *)
(* the cards that may override it constrains the variable instead.         *)
THEOREM ConstraintsRemain == Spec => []NoConstraintIsLost
  <1>1. IInv => NoConstraintIsLost
    <2> SUFFICES ASSUME IInv, pc = "evaluated", NEW v \in boundaries
                 PROVE  \E by \in {Explicit} \cup Index : <<v, by>> \in records
      BY DEF NoConstraintIsLost
    <2>1. /\ specs = {j \in Index : Constrains(j)}
          /\ records = {<<u, Explicit>> : u \in Kept} \cup {<<deck[j].target, j>> : j \in specs}
      BY DEF IInv, Collected
    <2>2. CASE v \in Kept
      BY <2>1, <2>2
    <2>3. CASE v \notin Kept
      <3>1. PICK i \in Index : /\ deck[i].type = "variable" /\ IsActive(i)
                               /\ deck[i].override /\ deck[i].target = v
        BY <2>3 DEF Kept, ShouldSkip
      <3>2. i \in specs
        BY <2>1, <3>1 DEF Constrains, IsVariableCard, Preferred
      <3> QED  BY <2>1, <3>1, <3>2
    <2> QED  BY <2>2, <2>3
  <1> QED  BY Invariant, <1>1, PTL

(* A variable card reports that it was applied exactly when the evaluation *)
(* has a constraint of its own.                                            *)
THEOREM CardsAgree == Spec => []CardsTellRecords
  <1>1. IInv => CardsTellRecords
    <2> SUFFICES ASSUME IInv, pc = "evaluated", NEW i \in Index, deck[i].type = "variable"
                 PROVE  card[i].applied <=> <<deck[i].target, i>> \in records
      BY DEF CardsTellRecords
    <2>1. /\ specs = {j \in Index : Constrains(j)}
          /\ records = {<<v, Explicit>> : v \in Kept} \cup {<<deck[j].target, j>> : j \in specs}
      BY DEF IInv, Collected
    <2>2. card[i] = VariableReport(i)
      BY DEF IInv, Marked, IsVariableCard
    <2>3. VariableReport(i).applied <=> Constrains(i)
      BY DEF VariableReport, Inactive, Report, Constrains, IsVariableCard
    <2>4. i # Explicit
      BY DeckFacts DEF Index, Explicit
    <2>5. <<deck[i].target, i>> \in records <=> Constrains(i)
      BY <2>1, <2>4
    <2> QED  BY <2>2, <2>3, <2>5
  <1> QED  BY Invariant, <1>1, PTL

(* The marking of an evaluation is that of the construction: an inspection *)
(* without an evaluation reports what an evaluation would.                 *)
THEOREM CardsAreStable == Spec => EvaluationKeepsCards
  <1>1. IInv /\ [Next]_vars => [pc \notin {"apply", "mark"} => card' = card]_vars
    <2> SUFFICES ASSUME IInv, Next, pc \notin {"apply", "mark"}  PROVE card' = card
      OBVIOUS
    <2>1. ASSUME NEW i \in Index, SpecifyCard(i)  PROVE card' = card
      BY <2>1, SpecifyKeepsCard
    <2>2. ASSUME NEW i \in Index, SkipCard(i) \/ UnknownComponent(i) \/ ApplyCard(i) \/ MarkCard(i)
          PROVE  card' = card
      BY <2>2 DEF SkipCard, UnknownComponent, ApplyCard, MarkCard
    <2> QED  BY <2>1, <2>2 DEF Next, Pass, Evaluate, Emit, Again
  <1> QED  BY Invariant, <1>1, PTL DEF Spec, EvaluationKeepsCards

=============================================================================
