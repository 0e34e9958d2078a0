------------------------- MODULE SourceReportProofs -------------------------
(***************************************************************************)
(* Proofs about BlockRollup for every block tree and every scoring method, *)
(* and then about SourceReport, which evaluates such a tree, for every     *)
(* document as well.                                                       *)
(*                                                                         *)
(* What makes the roll-up right is that a block below another is deeper,   *)
(* so that all children are final when their parent is visited.  Of the    *)
(* source report:                                                          *)
(* the report evaluates the block tree as BlockRollup does, green is       *)
(* earned from originals, no disagreement with an original is lost, and    *)
(* inlets stay apart.                                                      *)
(***************************************************************************)
EXTENDS SourceReport, TLAPS, WellFoundedInduction

LEMMA SubtreeInBlock ==
  ASSUME NEW b \in Block
  PROVE  Subtree(b) \subseteq Block /\ b \in Subtree(b)
BY DEF Subtree

(* A subtree is its top and the subtrees of the top's children.            *)
LEMMA SubtreeSplits ==
  ASSUME NEW b \in Block
  PROVE  Subtree(b) = {b} \cup UNION {Subtree(c) : c \in Children(b)}
<1> DEFINE Parts == {b} \cup UNION {Subtree(c) : c \in Children(b)}
<1>1. Parts \in SUBSET Block /\ b \in Parts
  BY SubtreeInBlock DEF Children
<1>2. Closed(Parts)
  <2> SUFFICES ASSUME NEW d \in Block, hierarchy.parent[d] \in Parts
               PROVE  d \in Parts
    BY DEF Closed
  <2>1. CASE hierarchy.parent[d] = b
    <3>1. d \in Children(b) /\ d \in Subtree(d)
      BY <2>1, SubtreeInBlock DEF Children
    <3>2. QED
      BY <3>1
  <2>2. CASE hierarchy.parent[d] # b
    <3>1. PICK c \in Children(b) : hierarchy.parent[d] \in Subtree(c)
      BY <2>2
    <3>2. d \in Subtree(c)
      BY <3>1 DEF Subtree, Closed
    <3>3. QED
      BY <3>1, <3>2
  <2>3. QED
    BY <2>1, <2>2
<1>3. Subtree(b) \subseteq Parts
  BY <1>1, <1>2 DEF Subtree
<1>4. ASSUME NEW c \in Children(b)
      PROVE  Subtree(c) \subseteq Subtree(b)
  <2>1. \A S \in SUBSET Block : b \in S /\ Closed(S) => c \in S
    BY DEF Closed, Children
  <2>2. QED
    BY <2>1 DEF Subtree, Children
<1>5. b \in Subtree(b)
  BY SubtreeInBlock
<1>6. QED
  BY <1>3, <1>4, <1>5

-----------------------------------------------------------------------------
(* The blocks whose subtree verdict is final.                              *)
Visited == IF pc = "rollup" THEN Block \ pending ELSE IF RolledUp THEN Block ELSE {}

VerdictOf(b) == passes[b] <=> \A d \in Subtree(b) : OwnPass(d)
ScoreOf(b) ==
  /\ \A d \in Subtree(b) : score[d] <= subtree[b]
  /\ \E d \in Subtree(b) : subtree[b] = score[d]
RowsSoFar ==
  /\ pc = "compare" => \A p \in Block \ pending : rows[p] = Row(p)
  /\ pc = "done" => \A p \in Block : rows[p] = Row(p)

Inductive ==
  /\ TypeOK
  /\ \A b \in Visited : VerdictOf(b) /\ ScoreOf(b)
  /\ SmallestHome
  /\ RowsSoFar

(* Under the problem the tree and the occurrences stay what they are.      *)
LEMMA HierarchyType ==
  ASSUME TypeOK
  PROVE  /\ hierarchy.parent \in [Block -> Block \cup {None}]
         /\ hierarchy.level \in [Block -> Nat]
         /\ hierarchy.owner \in [Component -> Block \cup {None}]
         /\ hierarchy.refines \in [Block -> SUBSET Component]
         /\ \A b \in Block : hierarchy.parent[b] # None =>
              hierarchy.level[hierarchy.parent[b]] < hierarchy.level[b]
         /\ \A S \in (SUBSET Block) \ {{}} :
              \E b \in S : \A a \in S : hierarchy.level[a] <= hierarchy.level[b]
BY HierarchyAssumption DEF TypeOK

LEMMA RecordType ==
  ASSUME TypeOK, NEW i \in Index
  PROVE  /\ records[i].size \in Nat
         /\ records[i].ends[1] \in Component
         /\ records[i].ends[2] \in Component
<1>1. records[i] \in Occurrence
  BY RecordAssumption DEF TypeOK, Index
<1>2. QED
  BY <1>1 DEF Occurrence

LEMMA ChildIsDeeper ==
  ASSUME TypeOK, NEW b \in Block, NEW c \in Children(b)
  PROVE  /\ c \in Block
         /\ hierarchy.level[b] \in Nat
         /\ hierarchy.level[c] \in Nat
         /\ hierarchy.level[b] < hierarchy.level[c]
BY HierarchyType, HierarchyAssumption DEF Children

(* Reading the tree and the occurrences is not disturbed by a step.        *)
LEMMA ReadingsKept ==
  ASSUME UNCHANGED problem
  PROVE  /\ hierarchy' = hierarchy /\ records' = records /\ Checked' = Checked
         /\ \A b : Children(b)' = Children(b)
         /\ \A b : Subtree(b)' = Subtree(b)
         /\ \A b, i : Holds(b, i)' = Holds(b, i)
<1>1. hierarchy' = hierarchy /\ records' = records
  BY DEF problem
<1>2. \A b : Children(b)' = Children(b)
  BY <1>1 DEF Children
<1>3. \A S : Closed(S)' = Closed(S)
  BY <1>1 DEF Closed
<1>4. \A b : Subtree(b)' = Subtree(b)
  BY <1>3 DEF Subtree
<1>5. \A b, i : Holds(b, i)' = Holds(b, i)
  BY <1>1, <1>4 DEF Holds
<1>6. Checked' = Checked
  BY <1>1 DEF Checked, Index
<1>7. QED
  BY <1>1, <1>2, <1>4, <1>5, <1>6

LEMMA HomesKept ==
  ASSUME SmallestHome, UNCHANGED <<problem, home>>, pc # "assign" \/ pc' = pc
  PROVE  SmallestHome'
BY ReadingsKept DEF SmallestHome

LEMMA RowsKept ==
  ASSUME UNCHANGED <<problem, passes>>, NEW p
  PROVE  Row(p)' = Row(p)
<1>1. Refining(p)' = Refining(p)
  BY ReadingsKept DEF Refining
<1>2. Coarse(p)' = Coarse(p)
  BY <1>1, ReadingsKept DEF Coarse
<1>3. Scored' = Scored
  BY ReadingsKept DEF Scored
<1>4. CoarseChecks(p)' = CoarseChecks(p)
  BY <1>2, <1>3, ReadingsKept DEF CoarseChecks, IsOwnRelation
<1>5. QED
  BY <1>1, <1>4, ReadingsKept DEF Row

LEMMA VerdictsKept ==
  ASSUME UNCHANGED <<problem, score, passes, subtree>>, NEW b, VerdictOf(b), ScoreOf(b)
  PROVE  VerdictOf(b)' /\ ScoreOf(b)'
<1>1. Subtree(b)' = Subtree(b)
  BY ReadingsKept
<1>2. \A d : OwnPass(d)' = OwnPass(d)
  BY DEF OwnPass
<1>3. QED
  BY <1>1, <1>2 DEF VerdictOf, ScoreOf

(* The meeting block of two owners is a lowest one that holds both.        *)
LEMMA MeetIsSmallest ==
  ASSUME TypeOK, NEW i \in Index, records[i].kind = "connection"
  PROVE  /\ HomeOf(i) \in Block \cup {None}
         /\ IF \E b \in Block : Holds(b, i)
            THEN /\ HomeOf(i) # None /\ Holds(HomeOf(i), i)
                 /\ \A c \in Children(HomeOf(i)) : ~Holds(c, i)
            ELSE HomeOf(i) = Interblock
<1> DEFINE l == hierarchy.owner[records[i].ends[1]]
           r == hierarchy.owner[records[i].ends[2]]
<1>1. HomeOf(i) = Meet(l, r)
  BY DEF HomeOf
<1>2. l \in Block \cup {None} /\ r \in Block \cup {None}
  BY RecordType, HierarchyType
<1>3. \A b \in Block : Holds(b, i) <=> b \in Shared(l, r)
  BY SubtreeInBlock, HierarchyAssumption DEF Holds, Shared, Path
<1>4. Shared(l, r) \subseteq Block
  BY DEF Shared, Path
<1>5. CASE Shared(l, r) = {}
  <2>1. HomeOf(i) = Interblock
    BY <1>1, <1>5 DEF Meet
  <2>2. QED
    BY <2>1, <1>3, <1>5, HierarchyAssumption
<1>6. CASE Shared(l, r) # {}
  <2>1. \E b \in Shared(l, r) : \A a \in Shared(l, r) : hierarchy.level[a] <= hierarchy.level[b]
    BY <1>4, <1>6, HierarchyType
  <2>2. /\ HomeOf(i) \in Shared(l, r)
        /\ \A a \in Shared(l, r) : hierarchy.level[a] <= hierarchy.level[HomeOf(i)]
    BY <1>1, <1>6, <2>1 DEF Meet
  <2>3. HomeOf(i) \in Block /\ Holds(HomeOf(i), i) /\ HomeOf(i) # None
    BY <1>3, <1>4, <2>2, HierarchyAssumption
  <2>4. ASSUME NEW c \in Children(HomeOf(i)), Holds(c, i)
        PROVE  FALSE
    <3>1. c \in Shared(l, r)
      BY <1>3, <2>4, <2>3, ChildIsDeeper
    <3>2. QED
      BY <3>1, <2>2, <2>3, ChildIsDeeper
  <2>5. QED
    BY <2>3, <2>4
<1>7. QED
  BY <1>5, <1>6

LEMMA HomeType ==
  ASSUME TypeOK, NEW i \in Index
  PROVE  HomeOf(i) \in Block \cup {None}
<1>1. CASE records[i].kind = "connection"
  BY <1>1, MeetIsSmallest
<1>2. CASE records[i].kind # "connection"
  BY <1>2, RecordType, HierarchyType DEF HomeOf
<1>3. QED
  BY <1>1, <1>2

-----------------------------------------------------------------------------
(* When a block is visited its children are final, so its verdict and its  *)
(* score become those of its whole subtree.                                *)
LEMMA VisitIsFinal ==
  ASSUME Inductive, NEW b \in Block, RollUp(b)
  PROVE  /\ passes'[b] <=> \A d \in Subtree(b) : OwnPass(d)
         /\ \A d \in Subtree(b) : score[d] <= subtree'[b]
         /\ \E d \in Subtree(b) : subtree'[b] = score[d]
         /\ subtree'[b] \in Nat
<1>1. ASSUME NEW c \in Children(b)
      PROVE  VerdictOf(c) /\ ScoreOf(c)
  <2>1. c \in Block /\ c \notin pending
    BY ChildIsDeeper DEF Inductive, RollUp, NextUpward
  <2>2. QED
    BY <2>1 DEF Inductive, Visited, RollUp
<1>2. Subtree(b) = {b} \cup UNION {Subtree(c) : c \in Children(b)}
  BY SubtreeSplits
<1>3. passes'[b] <=> OwnPass(b) /\ \A c \in Children(b) : passes[c]
  BY DEF RollUp, Inductive, TypeOK, PassesWithin
<1>4. passes'[b] <=> \A d \in Subtree(b) : OwnPass(d)
  BY <1>1, <1>2, <1>3 DEF VerdictOf
<1>5. PICK s \in ScoresAt(b) :
        (\A t \in ScoresAt(b) : t <= s) /\ subtree' = [subtree EXCEPT ![b] = s]
  BY DEF RollUp
<1>6. subtree'[b] = s
  BY <1>5 DEF Inductive, TypeOK
<1>7. score[b] \in Nat /\ \A c \in Children(b) : subtree[c] \in Nat
  BY DEF Inductive, TypeOK, Children
<1>8. s \in Nat
  BY <1>5, <1>7 DEF ScoresAt
<1>9. \A d \in Subtree(b) : score[d] <= s
  <2>1. score[b] <= s
    BY <1>5 DEF ScoresAt
  <2>2. ASSUME NEW c \in Children(b), NEW d \in Subtree(c)
        PROVE  score[d] <= s
    <3>1. subtree[c] <= s
      BY <1>5 DEF ScoresAt
    <3>2. score[d] <= subtree[c]
      BY <1>1 DEF ScoreOf
    <3>3. d \in Block /\ score[d] \in Nat
      BY SubtreeInBlock DEF Inductive, TypeOK, Children
    <3>4. QED
      BY <3>1, <3>2, <3>3, <1>7, <1>8
  <2>3. QED
    BY <1>2, <2>1, <2>2
<1>10. \E d \in Subtree(b) : s = score[d]
  <2>1. CASE s = score[b]
    BY <2>1, <1>2
  <2>2. CASE s # score[b]
    <3>1. PICK c \in Children(b) : s = subtree[c]
      BY <1>5, <2>2 DEF ScoresAt
    <3>2. PICK d \in Subtree(c) : subtree[c] = score[d]
      BY <1>1 DEF ScoreOf
    <3>3. QED
      BY <1>2, <3>1, <3>2
  <2>3. QED
    BY <2>1, <2>2
<1>11. QED
  BY <1>4, <1>6, <1>8, <1>9, <1>10

LEMMA InitInductive == Init => Inductive
<1> SUFFICES ASSUME Init PROVE Inductive
  OBVIOUS
<1>1. TypeOK
  BY DEF Init, TypeOK, Outcomes
<1>2. QED
  BY <1>1 DEF Init, Inductive, Visited, RolledUp, SmallestHome, RowsSoFar

LEMMA StepInductive == Inductive /\ [Next]_vars => Inductive'
<1> SUFFICES ASSUME Inductive, [Next]_vars
             PROVE  Inductive'
  OBVIOUS
<1> USE DEF Index, Checked
<1>1. CASE Assign
  <2>1. home' \in [Index' -> Block \cup {None}]
    BY <1>1, HomeType DEF Inductive, Assign, problem
  <2>2. TypeOK'
    BY <1>1, <2>1 DEF Inductive, TypeOK, Assign, problem, Outcomes
  <2>3. SmallestHome'
    <3> SUFFICES ASSUME NEW i \in Checked, records[i].kind = "connection"
                 PROVE  IF \E b \in Block : Holds(b, i)
                        THEN /\ home'[i] # None /\ Holds(home'[i], i)
                             /\ \A c \in Children(home'[i]) : ~Holds(c, i)
                        ELSE home'[i] = Interblock
      BY <1>1, ReadingsKept DEF SmallestHome, Assign
    <3>1. home'[i] = HomeOf(i)
      BY <1>1 DEF Assign
    <3>2. QED
      BY <3>1, MeetIsSmallest DEF Inductive
  <2>4. Visited' = {} /\ RowsSoFar'
    BY <1>1 DEF Assign, Visited, RolledUp, RowsSoFar
  <2>5. QED
    BY <2>2, <2>3, <2>4 DEF Inductive
<1>2. CASE ScoreBlocks
  <2>1. score' \in [Block -> Nat]
    <3>1. \A b \in Block : ScoredIn(b) \in SUBSET DOMAIN records
      BY DEF ScoredIn, Scored
    <3>2. \A b \in Block : Score([i \in ScoredIn(b) |-> records[i].size]) \in Nat
      BY <3>1, RecordAssumption DEF Inductive, TypeOK
    <3>3. QED
      BY <1>2, <3>2 DEF ScoreBlocks
  <2>2. TypeOK'
    <3>1. passes' \in [Block -> BOOLEAN]
      BY <1>2 DEF ScoreBlocks
    <3>2. subtree' \in [Block -> Nat]
      BY <1>2, <2>1 DEF ScoreBlocks
    <3>3. QED
      BY <1>2, <2>1, <3>1, <3>2 DEF Inductive, TypeOK, ScoreBlocks, problem
  <2>3. SmallestHome'
    BY <1>2, HomesKept DEF Inductive, ScoreBlocks
  <2>4. Visited' = {} /\ RowsSoFar'
    BY <1>2 DEF ScoreBlocks, Visited, RowsSoFar
  <2>5. QED
    BY <2>2, <2>3, <2>4 DEF Inductive
<1>3. ASSUME NEW b \in Block, RollUp(b)
      PROVE  Inductive'
  <2>1. TypeOK'
    <3>1. subtree' \in [Block -> Nat]
      BY <1>3, VisitIsFinal DEF Inductive, TypeOK, RollUp
    <3>2. passes' \in [Block -> BOOLEAN]
      BY <1>3 DEF Inductive, TypeOK, RollUp, PassesWithin, OwnPass
    <3>3. QED
      BY <1>3, <3>1, <3>2 DEF Inductive, TypeOK, RollUp, problem
  <2>2. ASSUME NEW a \in Visited'
        PROVE  VerdictOf(a)' /\ ScoreOf(a)'
    <3>1. a \in Block /\ (a = b \/ a \in Visited)
      BY <1>3 DEF RollUp, Visited, Inductive, TypeOK, RolledUp
    <3>2. Subtree(a)' = Subtree(a) /\ score' = score
      BY <1>3, ReadingsKept DEF RollUp
    <3>3. CASE a = b
      BY <1>3, <3>2, <3>3, VisitIsFinal DEF VerdictOf, ScoreOf, OwnPass
    <3>4. CASE a # b
      <4>1. passes'[a] = passes[a] /\ subtree'[a] = subtree[a]
        BY <1>3, <3>1, <3>4 DEF RollUp, Inductive, TypeOK
      <4>2. VerdictOf(a) /\ ScoreOf(a)
        BY <3>1, <3>4 DEF Inductive
      <4>3. QED
        BY <3>2, <4>1, <4>2 DEF VerdictOf, ScoreOf, OwnPass
    <3>5. QED
      BY <3>3, <3>4
  <2>3. SmallestHome'
    BY <1>3, HomesKept DEF Inductive, RollUp
  <2>4. RowsSoFar'
    BY <1>3 DEF RollUp, RowsSoFar
  <2>5. QED
    BY <2>1, <2>2, <2>3, <2>4 DEF Inductive
<1>4. CASE StartComparing
  <2>1. TypeOK'
    BY <1>4 DEF Inductive, TypeOK, StartComparing, problem
  <2>2. \A b \in Block : VerdictOf(b) /\ ScoreOf(b)
    BY <1>4 DEF Inductive, StartComparing, Visited
  <2>3. \A b \in Visited' : VerdictOf(b)' /\ ScoreOf(b)'
    BY <1>4, <2>2, VerdictsKept DEF StartComparing, Visited, RolledUp
  <2>4. SmallestHome'
    BY <1>4, HomesKept DEF Inductive, StartComparing
  <2>5. RowsSoFar'
    BY <1>4 DEF StartComparing, RowsSoFar
  <2>6. QED
    BY <2>1, <2>3, <2>4, <2>5 DEF Inductive
<1>5. ASSUME NEW p \in Block, Compare(p)
      PROVE  Inductive'
  <2>1. TypeOK'
    <3>1. rows' \in [Block -> Outcomes]
      BY <1>5 DEF Inductive, TypeOK, Compare, Row, Outcomes
    <3>2. QED
      BY <1>5, <3>1 DEF Inductive, TypeOK, Compare, problem
  <2>2. \A b \in Visited' : VerdictOf(b)' /\ ScoreOf(b)'
    BY <1>5, VerdictsKept DEF Inductive, Compare, Visited, RolledUp
  <2>3. SmallestHome'
    BY <1>5, HomesKept DEF Inductive, Compare
  <2>4. RowsSoFar'
    <3>1. \A q \in Block : Row(q)' = Row(q)
      BY <1>5, RowsKept DEF Compare
    <3>2. QED
      BY <1>5, <3>1 DEF Inductive, TypeOK, Compare, RowsSoFar
  <2>5. QED
    BY <2>1, <2>2, <2>3, <2>4 DEF Inductive
<1>6. CASE Finish
  <2>1. TypeOK'
    BY <1>6 DEF Inductive, TypeOK, Finish, problem
  <2>2. \A b \in Visited' : VerdictOf(b)' /\ ScoreOf(b)'
    BY <1>6, VerdictsKept DEF Inductive, Finish, Visited, RolledUp
  <2>3. SmallestHome'
    BY <1>6, HomesKept DEF Inductive, Finish
  <2>4. RowsSoFar'
    <3>1. \A q \in Block : Row(q)' = Row(q)
      BY <1>6, RowsKept DEF Finish
    <3>2. QED
      BY <1>6, <3>1 DEF Inductive, Finish, RowsSoFar
  <2>5. QED
    BY <2>1, <2>2, <2>3, <2>4 DEF Inductive
<1>7. CASE UNCHANGED vars
  <2>1. TypeOK'
    BY <1>7 DEF Inductive, TypeOK, vars, problem
  <2>6. SmallestHome'
    BY <1>7, HomesKept DEF Inductive, vars
  <2>2. \A b \in Visited' : VerdictOf(b)' /\ ScoreOf(b)'
    BY <1>7, VerdictsKept DEF Inductive, vars, Visited, RolledUp
  <2>3. \A q \in Block : Row(q)' = Row(q)
    BY <1>7, RowsKept DEF vars
  <2>4. RowsSoFar'
    BY <1>7, <2>3 DEF Inductive, vars, RowsSoFar
  <2>5. QED
    BY <2>1, <2>2, <2>4, <2>6 DEF Inductive
<1>8. QED
  BY <1>1, <1>2, <1>3, <1>4, <1>5, <1>6, <1>7 DEF Next

(* What the rows say, read through the verdicts of whole subtrees.         *)
LEMMA RowsAreReal == Inductive => InconsistencyIsReal
<1> SUFFICES ASSUME Inductive, pc = "done", NEW p \in Block
             PROVE  rows[p] = "inconsistent" <=>
                      /\ \E c \in Block : hierarchy.parent[c] = p /\ hierarchy.refines[c] # {}
                      /\ \A c \in Block : hierarchy.parent[c] = p /\ hierarchy.refines[c] # {} =>
                           \A d \in Subtree(c) : OwnPass(d)
                      /\ \E i \in Checked, c \in Block :
                           /\ hierarchy.parent[c] = p
                           /\ records[i].ends[1] \in hierarchy.refines[c]
                           /\ records[i].kind \in ScoredRoles \ {"connection", "boundary", "assumption"}
                           /\ records[i].size > Threshold
  BY DEF InconsistencyIsReal
<1>1. rows[p] = Row(p)
  BY DEF Inductive, RowsSoFar
<1>2. \A c \in Refining(p) : passes[c] <=> \A d \in Subtree(c) : OwnPass(d)
  BY DEF Inductive, Visited, RolledUp, VerdictOf, Refining, Children
<1>3. \A i \in CoarseChecks(p) :
        records[i].size \in Nat /\ (records[i].size <= Threshold <=> ~(records[i].size > Threshold))
  BY RecordType, RecordAssumption DEF Inductive, CoarseChecks, Scored, Checked
<1>4. (\E i \in CoarseChecks(p) : records[i].size > Threshold) <=>
        \E i \in Checked, c \in Block :
          /\ hierarchy.parent[c] = p
          /\ records[i].ends[1] \in hierarchy.refines[c]
          /\ records[i].kind \in ScoredRoles \ {"connection", "boundary", "assumption"}
          /\ records[i].size > Threshold
  BY DEF CoarseChecks, Scored, IsOwnRelation, Coarse, Refining, Children
<1>5. rows[p] = "inconsistent" <=>
        /\ Refining(p) # {}
        /\ \A c \in Refining(p) : passes[c]
        /\ \E i \in CoarseChecks(p) : records[i].size > Threshold
  BY <1>1, <1>3 DEF Row
<1>6. QED
  BY <1>2, <1>4, <1>5 DEF Refining, Children

-----------------------------------------------------------------------------
LEMMA Invariance == Spec => []Inductive
BY InitInductive, StepInductive, PTL DEF Spec

(* Type correctness.                                                       *)
THEOREM TypeCorrect == Spec => []TypeOK
<1>1. Inductive => TypeOK
  BY DEF Inductive
<1>2. QED
  BY <1>1, Invariance, PTL

(* For every tree, once rolled up a block passes exactly when every block  *)
(* below it passes on its own, and its subtree score is the largest own    *)
(* score below it.                                                         *)
THEOREM VerdictsCoverSubtrees == Spec => []SubtreeVerdict
<1>1. Inductive => SubtreeVerdict
  BY DEF Inductive, SubtreeVerdict, Visited, RolledUp, VerdictOf, ScoreOf
<1>2. QED
  BY <1>1, Invariance, PTL

(* For every tree, a connection belongs to a smallest block that holds     *)
(* both its ends.                                                          *)
THEOREM ConnectionsStaySmall == Spec => []SmallestHome
<1>1. Inductive => SmallestHome
  BY DEF Inductive
<1>2. QED
  BY <1>1, Invariance, PTL

(* For every tree, an inconsistency is reported exactly when a checked     *)
(* coarse relation fails over passing detail.                              *)
THEOREM InconsistenciesAreReal == Spec => []InconsistencyIsReal
BY RowsAreReal, Invariance, PTL

-----------------------------------------------------------------------------
(* Levels fall from child to parent, so every block is below some root.    *)
Less == {ss \in Nat \X Nat : ss[1] < ss[2]}

LEMMA LessIsWellFounded == IsWellFoundedOn(Less, Nat)
BY NatLessThanWellFounded DEF OpToRel, Less

LEMMA SomeLeast ==
  ASSUME NEW S, S \subseteq Nat, S # {}
  PROVE  \E n \in S : \A m \in S : n <= m
<1>1. PICK n \in S : \A m \in S : ~(<<m, n>> \in Less)
  BY LessIsWellFounded, WFMin
<1>2. ASSUME NEW m \in S PROVE n <= m
  <2>1. n \in Nat /\ m \in Nat
    BY <1>1
  <2>2. <<m, n>> \in Nat \X Nat
    BY <2>1
  <2>3. ~(<<m, n>>[1] < <<m, n>>[2])
    BY <1>1, <2>2 DEF Less
  <2>4. ~(m < n)
    BY <2>3
  <2>5. QED
    BY <2>1, <2>4
<1>3. QED
  BY <1>1, <1>2

LEMMA UnderSomeRoot ==
  ASSUME TypeOK, NEW b \in Block
  PROVE  \E r \in Block : hierarchy.parent[r] = None /\ b \in Subtree(r)
<1> DEFINE Under(d) == \E r \in Block : hierarchy.parent[r] = None /\ d \in Subtree(r)
           Lost == {d \in Block : ~Under(d)}
           Levels == {hierarchy.level[d] : d \in Lost}
<1>1. SUFFICES ASSUME Lost # {} PROVE FALSE
  OBVIOUS
<1>2. Levels \subseteq Nat /\ Levels # {}
  BY <1>1, HierarchyType
<1>3. PICK d \in Lost : \A a \in Lost : hierarchy.level[d] <= hierarchy.level[a]
  <2>1. PICK n \in Levels : \A m \in Levels : n <= m
    BY <1>2, SomeLeast
  <2>2. PICK d \in Lost : n = hierarchy.level[d]
    BY <2>1
  <2>3. QED
    BY <2>1, <2>2
<1>4. hierarchy.parent[d] # None
  BY SubtreeInBlock
<1> DEFINE p == hierarchy.parent[d]
<1>5. p \in Block /\ hierarchy.level[p] < hierarchy.level[d]
  BY <1>4, HierarchyType
<1>6. p \in Lost
  <2>1. ASSUME NEW r \in Block, p \in Subtree(r) PROVE d \in Subtree(r)
    BY <2>1 DEF Subtree, Closed
  <2>2. QED
    BY <1>5, <2>1
<1>7. hierarchy.level[p] \in Nat /\ hierarchy.level[d] \in Nat
  BY <1>5, HierarchyType
<1>8. QED
  BY <1>3, <1>5, <1>6, <1>7

(* Scores are those of the blocks' own residuals from when they are made.  *)
OwnScores ==
  pc \in {"rollup", "compare", "done"} =>
    score = [b \in Block |-> Score([i \in ScoredIn(b) |-> records[i].size])]

LEMMA OwnScoresKept == OwnScores /\ [Next]_vars => OwnScores'
<1> SUFFICES ASSUME OwnScores, [Next]_vars PROVE OwnScores'
  OBVIOUS
<1>1. ASSUME UNCHANGED <<problem, home>>, NEW b PROVE ScoredIn(b)' = ScoredIn(b)
  BY <1>1, ReadingsKept DEF ScoredIn, Scored
<1>2. CASE ScoreBlocks
  <2>1. UNCHANGED <<problem, home>> /\ records' = records
    BY <1>2 DEF ScoreBlocks, problem
  <2>2. score' = [b \in Block |-> Score([i \in ScoredIn(b) |-> records[i].size])]
    BY <1>2 DEF ScoreBlocks
  <2>3. QED
    BY <1>1, <2>1, <2>2 DEF OwnScores
<1>3. CASE Assign
  BY <1>3 DEF Assign, OwnScores
<1>4. CASE \/ \E b \in Block : RollUp(b) \/ Compare(b)
           \/ StartComparing \/ Finish \/ UNCHANGED vars
  <2>1. /\ UNCHANGED <<problem, home, score>> /\ records' = records
        /\ pc' \in {"rollup", "compare", "done"} => pc \in {"rollup", "compare", "done"}
    BY <1>4 DEF RollUp, Compare, StartComparing, Finish, vars, problem
  <2>2. QED
    BY <1>1, <2>1 DEF OwnScores
<1>5. QED
  BY <1>2, <1>3, <1>4 DEF Next

-----------------------------------------------------------------------------
(* A scoring method that passes exactly when every residual does, as the   *)
(* largest residual is.                                                    *)
FairScoring ==
  \A t \in Trails : \A I \in SUBSET DOMAIN t :
    Score([i \in I |-> t[i].size]) <= Threshold <=> \A i \in I : t[i].size <= Threshold

LEMMA BlockFails ==
  ASSUME FairScoring, Inductive, OwnScores, RolledUp, NEW b \in Block
  PROVE  ~OwnPass(b) <=> \E i \in Scored : home[i] = b /\ records[i].size > Threshold
<1>1. score[b] = Score([i \in ScoredIn(b) |-> records[i].size])
  BY DEF OwnScores, RolledUp
<1>2. records \in Trails /\ ScoredIn(b) \in SUBSET DOMAIN records
  BY DEF Inductive, TypeOK, ScoredIn, Scored, Checked, Index
<1>3. score[b] <= Threshold <=> \A i \in ScoredIn(b) : records[i].size <= Threshold
  BY <1>1, <1>2 DEF FairScoring
<1>4. \A i \in ScoredIn(b) : ~(records[i].size <= Threshold) <=> records[i].size > Threshold
  BY <1>2, RecordType, RecordAssumption DEF Inductive, Index
<1>5. QED
  BY <1>3, <1>4 DEF OwnPass, ScoredIn

LEMMA RootsMirror ==
  ASSUME FairScoring, Inductive, OwnScores PROVE RootsMirrorRecords
<1> SUFFICES ASSUME RolledUp
             PROVE  (\E b \in Block : hierarchy.parent[b] = None /\ ~passes[b])
                      <=> \E i \in Scored : home[i] # None /\ records[i].size > Threshold
  BY DEF RootsMirrorRecords
<1>1. \A b \in Block : VerdictOf(b)
  BY DEF Inductive, Visited, RolledUp
<1>2. ASSUME NEW b \in Block, hierarchy.parent[b] = None, ~passes[b]
      PROVE  \E i \in Scored : home[i] # None /\ records[i].size > Threshold
  <2>1. PICK d \in Subtree(b) : ~OwnPass(d)
    BY <1>1, <1>2 DEF VerdictOf
  <2>2. d \in Block /\ d # None
    BY SubtreeInBlock, HierarchyAssumption
  <2>3. QED
    BY <2>1, <2>2, BlockFails
<1>3. ASSUME NEW i \in Scored, home[i] # None, records[i].size > Threshold
      PROVE  \E b \in Block : hierarchy.parent[b] = None /\ ~passes[b]
  <2>1. home[i] \in Block
    BY <1>3 DEF Inductive, TypeOK, Scored, Checked
  <2>2. ~OwnPass(home[i])
    BY <1>3, <2>1, BlockFails
  <2>3. PICK r \in Block : hierarchy.parent[r] = None /\ home[i] \in Subtree(r)
    BY <2>1, UnderSomeRoot DEF Inductive
  <2>4. QED
    BY <1>1, <2>2, <2>3 DEF VerdictOf
<1>4. QED
  BY <1>2, <1>3

LEMMA DisagreementsExplained ==
  ASSUME FairScoring, Inductive, OwnScores PROVE DisagreementsAreExplained
<1> SUFFICES ASSUME RolledUp, AuditPass # TreePass
             PROVE  \E i \in Checked :
                      /\ records[i].size > Threshold
                      /\ IF TreePass
                         THEN home[i] = None \/ records[i].kind \notin ScoredRoles
                         ELSE ~Participates(records[i])
  BY DEF DisagreementsAreExplained
<1>1. ~TreePass <=> \E i \in Scored : home[i] # None /\ records[i].size > Threshold
  BY RootsMirror DEF RootsMirrorRecords, TreePass
<1>2. \A i \in Checked : ~(records[i].size <= Threshold) <=> records[i].size > Threshold
  BY RecordType, RecordAssumption DEF Inductive, Checked
<1>3. CASE TreePass
  <2>1. PICK i \in Checked : Participates(records[i]) /\ records[i].size > Threshold
    BY <1>2, <1>3 DEF AuditPass
  <2>2. ~(i \in Scored /\ home[i] # None)
    BY <1>1, <1>3, <2>1
  <2>3. QED
    BY <1>3, <2>1, <2>2 DEF Scored
<1>4. CASE ~TreePass
  <2>1. PICK i \in Scored : records[i].size > Threshold
    BY <1>1, <1>4
  <2>2. AuditPass
    BY <1>4 DEF AuditPass, TreePass
  <2>3. i \in Checked /\ ~Participates(records[i])
    BY <1>2, <2>1, <2>2 DEF AuditPass, Scored
  <2>4. QED
    BY <1>4, <2>1, <2>3
<1>5. QED
  BY <1>3, <1>4

LEMMA FairInvariance == Spec => [](Inductive /\ OwnScores)
<1>1. Init => OwnScores
  BY DEF Init, OwnScores
<1>2. QED
  BY <1>1, OwnScoresKept, Invariance, PTL DEF Spec

(* Under such a method no failure is lost or invented on its way up: for   *)
(* every tree some root fails exactly when a checked residual of a scored  *)
(* role and an assigned block does (_include_descendants).                 *)
THEOREM FailuresReachRoots ==
  ASSUME FairScoring PROVE Spec => []RootsMirrorRecords
<1>1. Inductive /\ OwnScores => RootsMirrorRecords
  BY RootsMirror
<1>2. QED
  BY <1>1, FairInvariance, PTL

(* Under such a method the verdicts of the audit and of the tree differ    *)
(* only over residuals that one of them does not look at (audit_pass of    *)
(* _build_report).                                                         *)
THEOREM VerdictsDifferForReasons ==
  ASSUME FairScoring PROVE Spec => []DisagreementsAreExplained
<1>1. Inductive /\ OwnScores => DisagreementsAreExplained
  BY DisagreementsExplained
<1>2. QED
  BY <1>1, FairInvariance, PTL

-----------------------------------------------------------------------------
(* The source report.                                                      *)

(* Every step of the report makes a step of the evaluation or leaves it    *)
(* alone.                                                                  *)
LEMMA ProceedEvaluates ==
  ASSUME [Proceed]_everything
  PROVE  [Next]_vars /\ doc' = doc
BY DEF Proceed, everything, sources, Step, ReadProperties, ReadTables, RecheckCells,
       ReadSignals, ReadParameters, Evaluate, BindInlets, Spread, EndSpread, ColourBlocks,
       ReadClaims, Conclude

(* The report has the block tree of an evaluation, so that what is proved  *)
(* of BlockRollup holds of it as well.                                     *)
THEOREM ReportEvaluates == ReportSpec => Spec
<1>1. Begin => Init
  BY DEF Begin
<1>2. [Proceed]_everything => [Next]_vars
  BY ProceedEvaluates
<1>3. QED
  BY <1>1, <1>2, PTL DEF ReportSpec, Spec

LEMMA ProblemKept ==
  ASSUME [Next]_vars
  PROVE  UNCHANGED problem
BY DEF Next, vars, Assign, ScoreBlocks, RollUp, StartComparing, Compare, Finish

-----------------------------------------------------------------------------
(* What a document says of itself, and the rows made of it.                *)
Sound ==
  /\ WellFormed(doc)
  /\ doc.reads \in [DOMAIN records -> SUBSET (Signal \cup Parameter)]
  /\ \A c \in DOMAIN doc.claims : doc.claims[c].about \in Component

LEMMA DocumentsAreSound ==
  ASSUME TypeOK, doc \in Documents(hierarchy, records)
  PROVE  Sound
BY DocumentAssumption DEF TypeOK, Sound

LEMMA RowTypes ==
  ASSUME Sound
  PROVE  /\ \A q \in Quote : QuoteRow(doc, q) \in Reading
         /\ \A t : TableRow(doc, t) \in Reading \/ t \notin File
         /\ \A v \in DOMAIN doc.signals : doc.signals[v].quote \in Quote
         /\ \A v \in DOMAIN doc.signals : doc.signals[v].cells # {} =>
              /\ CellOf(doc, v) \in doc.signals[v].cells /\ CellOf(doc, v) \in Cell
              /\ CellOf(doc, v).table \in DOMAIN doc.tables
              /\ doc.signals[v].cells = {CellOf(doc, v)}
              /\ CellOf(doc, v).hasUnit \/ CellOf(doc, v).sameUnit
         /\ \A c \in Cell : CellRow(doc, c) \in Reading
<1>1. \A q \in Quote : QuoteRow(doc, q) \in Reading
  BY DEF QuoteRow, Reading, Colours, Quote, MissingQuote
<1>2. \A t \in File : TableRow(doc, t) \in Reading
  BY DEF TableRow, NoReading, Reading, Colours
<1>3. \A v \in DOMAIN doc.signals : doc.signals[v] \in Binding
  BY DEF Sound, WellFormed
<1>4. \A v \in DOMAIN doc.signals : doc.signals[v].quote \in Quote
  BY <1>3 DEF Binding
<1>5. \A v \in DOMAIN doc.signals : doc.signals[v].cells # {} =>
        /\ CellOf(doc, v) \in doc.signals[v].cells /\ CellOf(doc, v) \in Cell
        /\ CellOf(doc, v).table \in DOMAIN doc.tables
        /\ doc.signals[v].cells = {CellOf(doc, v)}
        /\ CellOf(doc, v).hasUnit \/ CellOf(doc, v).sameUnit
  <2> SUFFICES ASSUME NEW v \in DOMAIN doc.signals, doc.signals[v].cells # {}
               PROVE  /\ CellOf(doc, v) \in doc.signals[v].cells /\ CellOf(doc, v) \in Cell
                      /\ CellOf(doc, v).table \in DOMAIN doc.tables
                      /\ doc.signals[v].cells = {CellOf(doc, v)}
                      /\ CellOf(doc, v).hasUnit \/ CellOf(doc, v).sameUnit
    OBVIOUS
  <2>1. CellOf(doc, v) \in doc.signals[v].cells
    BY DEF CellOf
  <2>2. CellOf(doc, v) \in Cell
    BY <1>3, <2>1 DEF Binding
  <2>3. \A c, e \in doc.signals[v].cells :
          c = e /\ c.table \in DOMAIN doc.tables /\ (c.hasUnit \/ c.sameUnit)
    BY DEF Sound, WellFormed
  <2>4. QED
    BY <2>1, <2>2, <2>3
<1>6. \A c \in Cell : CellRow(doc, c) \in Reading
  BY DEF CellRow, Cell, Reading, Colours
<1>7. QED
  BY <1>1, <1>2, <1>4, <1>5, <1>6

LEMMA ChangedRowTypes ==
  /\ \A row \in Reading : \A c \in Colours : [row EXCEPT !.colour = c] \in Reading
  /\ \A c \in Cell, row \in Reading : Recheck(doc, c, row) \in Reading
<1>1. \A row \in Reading : \A c \in Colours : [row EXCEPT !.colour = c] \in Reading
  BY DEF Reading
<1>2. {"red", "grey", "green", "none"} = Colours
  BY DEF Colours
<1>3. ASSUME NEW c \in Cell, NEW row \in Reading
      PROVE  Recheck(doc, c, row) \in Reading
  <2> DEFINE slipped == IF c.slips /\ doc.tables[c.table].there THEN [row EXCEPT !.colour = "red"] ELSE row
  <2>1. slipped \in Reading
    BY <1>1, <1>2
  <2>2. QED
    BY <1>1, <1>2, <2>1 DEF Recheck
<1>4. QED
  BY <1>1, <1>3
LEMMA MembersOfSequence ==
  ASSUME NEW S, NEW s \in Seq(S)
  PROVE  \A k \in DOMAIN s : s[k] \in S
OBVIOUS

LEMMA KindsInId ==
  ASSUME Sound
  PROVE  /\ DOMAIN doc.properties \subseteq Property /\ DOMAIN doc.tables \subseteq File
         /\ DOMAIN doc.signals \subseteq Signal /\ DOMAIN doc.claims \subseteq Claim
         /\ \A p \in DOMAIN doc.properties : doc.properties[p] \in Quote
         /\ \A p \in Parameter : doc.parameters[p] \in Quote
         /\ \A c \in DOMAIN doc.claims : doc.claims[c].quote \in Quote
         /\ \A k \in DOMAIN doc.derived : doc.derived[k].var \in Signal \ DOMAIN doc.signals
         /\ DOMAIN doc.derived = 1 .. Len(doc.derived) /\ Len(doc.derived) \in Nat
         /\ \A k \in DOMAIN doc.derived : doc.derived[k].deps \subseteq Signal
<1>1. doc.derived \in Seq([var : Signal, deps : SUBSET Signal])
  BY DEF Sound, WellFormed
<1>2. \A k \in DOMAIN doc.derived : doc.derived[k] \in [var : Signal, deps : SUBSET Signal]
  BY <1>1, MembersOfSequence
<1>3. \A k \in DOMAIN doc.derived : doc.derived[k].deps \in SUBSET Signal
  BY <1>2
<1>4. DOMAIN doc.derived = 1 .. Len(doc.derived) /\ Len(doc.derived) \in Nat
  BY <1>1
<1>5. QED
  BY <1>3, <1>4 DEF Sound, WellFormed, WellQuoted, WellOrdered

LEMMA InletTypes ==
  ASSUME NEW rs \in [Id -> Reading]
  PROVE  /\ \A S : Worst(S) \in Colours
         /\ \A v \in Signal : BoundRow(doc, rs, v) \in Reading
         /\ \A c : RoleOf(doc, rs, c) \in Colours
<1>1. \A S : Worst(S) \in Colours
  BY DEF Worst, Colours
<1>2. \A c : RoleOf(doc, rs, c) \in Colours
  BY <1>1 DEF RoleOf
<1>3. ASSUME NEW v \in Signal
      PROVE  BoundRow(doc, rs, v) \in Reading
  <2>1. rs[v] \in Reading
    BY DEF Id
  <2>2. QED
    BY <1>1, <2>1, ChangedRowTypes DEF BoundRow
<1>4. QED
  BY <1>1, <1>2, <1>3

LEMMA BlockColourType ==
  ASSUME NEW b
  PROVE  BlockColour(b) \in Colours
BY DEF BlockColour, Worst, Colours

LEMMA ReportTypesKept ==
  ASSUME TypeOK, TypeOK', ReportTypeOK, Sound, [Proceed]_everything
  PROVE  ReportTypeOK'
<1> USE DEF ReportTypeOK
<1>1. doc' \in Documents(hierarchy', records')
  BY ProceedEvaluates, ProblemKept DEF problem
<1>2. doc' = doc
  BY ProceedEvaluates
<1>3. CASE ReadProperties
  <2>1. \A id \in DOMAIN doc.properties : QuoteRow(doc, doc.properties[id]) \in Reading
    BY KindsInId, RowTypes
  <2>2. readings' \in [Id -> Reading]
    BY <1>3, <2>1 DEF ReadProperties
  <2>3. QED
    BY <1>1, <1>2, <1>3, <2>2 DEF ReadProperties, Step, Stages
<1>4. CASE ReadTables
  <2>1. \A id \in DOMAIN doc.tables : TableRow(doc, id) \in Reading
    BY KindsInId, RowTypes
  <2>2. \A id \in DOMAIN doc.signals : doc.signals[id].cells # {} =>
          CellRow(doc, CellOf(doc, id)) \in Reading
    BY RowTypes
  <2>3. readings' \in [Id -> Reading]
    BY <1>4, <2>1, <2>2 DEF ReadTables
  <2>4. QED
    BY <1>1, <1>2, <1>4, <2>3 DEF ReadTables, Step, Stages
<1>5. CASE RecheckCells
  <2>1. \A id \in Id : id \in DOMAIN doc.signals /\ doc.signals[id].cells # {} =>
          Recheck(doc, CellOf(doc, id), readings[id]) \in Reading
    BY RowTypes, ChangedRowTypes
  <2>2. readings' \in [Id -> Reading]
    BY <1>5, <2>1 DEF RecheckCells
  <2>3. QED
    BY <1>1, <1>2, <1>5, <2>2 DEF RecheckCells, Step, Stages
<1>6. CASE ReadSignals
  <2>1. \A id \in DOMAIN doc.signals : SignalRow(doc, id, readings) \in Reading
    <3> SUFFICES ASSUME NEW id \in DOMAIN doc.signals
                 PROVE  SignalRow(doc, id, readings) \in Reading
      OBVIOUS
    <3>1. QuoteRow(doc, doc.signals[id].quote) \in Reading
      BY RowTypes
    <3>2. "grey" \in Colours
      BY DEF Colours
    <3>3. QED
      BY <3>1, <3>2, ChangedRowTypes DEF SignalRow
  <2>2. readings' \in [Id -> Reading]
    BY <1>6, <2>1 DEF ReadSignals
  <2>3. QED
    BY <1>1, <1>2, <1>6, <2>2 DEF ReadSignals, Step, Stages
<1>7. CASE ReadParameters
  <2>1. readings' \in [Id -> Reading]
    BY <1>7, KindsInId, RowTypes DEF ReadParameters
  <2>2. QED
    BY <1>1, <1>2, <1>7, <2>1 DEF ReadParameters, Step, Stages
<1>8. CASE Evaluate
  BY <1>1, <1>2, <1>8 DEF Evaluate, Stages
<1>9. CASE BindInlets
  <2>1. readings' \in [Id -> Reading]
    BY <1>9, InletTypes DEF BindInlets
  <2>2. roles' \in [Component -> Colours]
    BY <1>9, InletTypes DEF BindInlets
  <2>3. backed' \subseteq Id
    BY <1>9 DEF BindInlets, Spoken
  <2>4. QED
    BY <1>1, <1>2, <1>9, <2>1, <2>2, <2>3 DEF BindInlets, Step, Stages
<1>10. CASE Spread
  <2> DEFINE next == doc.derived[position + 1]
             row == [colour |-> IF AllGreen(next.deps) THEN "green" ELSE "grey",
                     from |-> UNION {readings[v].from : v \in next.deps}, located |-> TRUE]
  <2>1. position + 1 \in DOMAIN doc.derived /\ position + 1 \in 0 .. Len(doc.derived)
    BY <1>10, KindsInId DEF Spread
  <2>2. next.var \in Signal /\ next.deps \subseteq Signal
    BY <2>1, KindsInId
  <2>3. \A v \in next.deps : readings[v].from \subseteq File
    BY <2>2 DEF Reading, Id
  <2>4. row \in Reading
    BY <2>3 DEF Reading, Colours
  <2>5. readings' = [readings EXCEPT ![next.var] = row]
    BY <1>10 DEF Spread
  <2>6. readings' \in [Id -> Reading]
    BY <2>4, <2>5
  <2>7. backed' \subseteq Id
    BY <1>10, <2>2 DEF Spread, Id
  <2>8. QED
    BY <1>1, <1>2, <1>10, <2>1, <2>6, <2>7 DEF Spread
<1>11. CASE EndSpread
  BY <1>1, <1>2, <1>11 DEF EndSpread, Stages
<1>12. CASE ColourBlocks
  <2>1. colour' \in [Block -> Colours]
    BY <1>12, BlockColourType DEF ColourBlocks
  <2>2. QED
    BY <1>1, <1>2, <1>12, <2>1 DEF ColourBlocks, Stages
<1>13. CASE ReadClaims
  <2>1. \A id \in DOMAIN doc.claims : ClaimRow(doc.claims[id]) \in Reading
    BY KindsInId DEF ClaimRow, Reading, Colours, MissingQuote, Quote
  <2>2. readings' \in [Id -> Reading]
    BY <1>13, <2>1 DEF ReadClaims
  <2>3. QED
    BY <1>1, <1>2, <1>13, <2>2 DEF ReadClaims, Step, Stages
<1>14. CASE Conclude
  BY <1>1, <1>2, <1>14 DEF Conclude, Stages
<1>15. CASE UNCHANGED everything
  BY <1>1, <1>2, <1>15 DEF everything, sources
<1>16. QED
  BY <1>3, <1>4, <1>5, <1>6, <1>7, <1>8, <1>9, <1>10, <1>11, <1>12, <1>13, <1>14, <1>15
     DEF Proceed
(* Every report is well typed, for every document and tree.                *)
THEOREM ReportTypeCorrect == ReportSpec => []ReportTypeOK
<1>1. Begin /\ TypeOK => ReportTypeOK
  <2> SUFFICES ASSUME Begin, TypeOK
               PROVE  ReportTypeOK
    OBVIOUS
  <2>1. Len(doc.derived) \in Nat
    BY DocumentsAreSound, KindsInId DEF Begin
  <2>2. NoReading \in Reading /\ "none" \in Colours /\ "properties" \in Stages
    BY DEF NoReading, Reading, Colours, Stages
  <2>3. readings \in [Id -> Reading] /\ roles \in [Component -> Colours]
        /\ colour \in [Block -> Colours] /\ position \in 0 .. Len(doc.derived)
    BY <2>1, <2>2 DEF Begin
  <2>4. QED
    BY <2>2, <2>3 DEF Begin, ReportTypeOK
<1>2. TypeOK /\ TypeOK' /\ ReportTypeOK /\ [Proceed]_everything => ReportTypeOK'
  BY ReportTypesKept, DocumentsAreSound DEF ReportTypeOK
<1>3. QED
  BY <1>1, <1>2, ReportEvaluates, TypeCorrect, PTL DEF ReportSpec

-----------------------------------------------------------------------------
(* What the document says stays what it is.                                *)
LEMMA DocumentKept ==
  ASSUME doc' = doc
  PROVE  /\ \A x : Ground(x)' = Ground(x) /\ Found(x)' = Found(x) /\ Proven(x)' = Proven(x)
         /\ \A x : StandsAt(x)' = StandsAt(x) /\ Apart(x)' = Apart(x)
         /\ Sound /\ UNCHANGED problem => Sound'
<1>1. \A x : Ground(x)' = Ground(x)
  BY DEF Ground, Backwards
<1>2. \A q : Stands(q)' = Stands(q) /\ Agrees(q)' = Agrees(q)
  BY DEF Stands, Agrees
<1>3. \A x : Found(x)' = Found(x)
  BY DEF Found
<1>4. \A x : Proven(x)' = Proven(x)
  BY <1>2 DEF Proven
<1>5. \A x : StandsAt(x)' = StandsAt(x)
  BY <1>2 DEF StandsAt
<1>6. \A v : Described(v)' = Described(v)
  BY DEF Described
<1>7. \A n : Apart(n)' = Apart(n)
  BY <1>6 DEF Apart
<1>8. Sound /\ UNCHANGED problem => Sound'
  BY DEF Sound, problem
<1>9. QED
  BY <1>1, <1>3, <1>4, <1>5, <1>7, <1>8

(* A row is honest if it is green on proof only, points at a source that   *)
(* speaks, and is red when the source says something else.                 *)
HonestRow(x, row) ==
  /\ row.colour = "green" => Proven(x)
  /\ row.from # {} /\ row.located => Found(x)
  /\ ~StandsAt(x) => row.colour = "red"

LEMMA QuotesAreHonest ==
  ASSUME NEW q \in Quote
  PROVE  /\ QuoteRow(doc, q).colour = "green" => Agrees(q)
         /\ QuoteRow(doc, q).from # {} /\ QuoteRow(doc, q).located => ~MissingQuote(doc, q)
         /\ ~Stands(q) => QuoteRow(doc, q).colour = "red"
         /\ QuoteRow(doc, q).from \subseteq doc.sources
BY DEF QuoteRow, MissingQuote, Agrees, Stands

LEMMA CellsAreHonest ==
  ASSUME Sound, NEW v \in DOMAIN doc.signals, doc.signals[v].cells # {}
  PROVE  HonestRow(v, Recheck(doc, CellOf(doc, v), CellRow(doc, CellOf(doc, v))))
<1> DEFINE c == CellOf(doc, v)
           there == doc.tables[c.table].there
           row == CellRow(doc, c)
           slipped == IF c.slips /\ there THEN [row EXCEPT !.colour = "red"] ELSE row
           final == Recheck(doc, c, row)
<1>1. v \notin Parameter
  BY KindsInId, SourceAssumption
<1>2. c \in Cell /\ (c.hasUnit \/ c.sameUnit) /\ row \in Reading
  BY RowTypes
<1>3. c.calibrated \in BOOLEAN /\ c.equal \in BOOLEAN /\ c.sameUnit \in BOOLEAN
      /\ c.hasUnit \in BOOLEAN /\ c.slips \in BOOLEAN /\ c.checked \in BOOLEAN
  BY <1>2 DEF Cell
<1>4. final = IF ~c.checked /\ slipped.colour = "green" THEN [slipped EXCEPT !.colour = "grey"] ELSE slipped
  BY DEF Recheck
<1>5. /\ slipped.from = row.from
      /\ slipped.colour = IF c.slips /\ there THEN "red" ELSE row.colour
      /\ slipped \in Reading
  BY <1>2 DEF Reading, Colours
<1>6. /\ final.from = row.from
      /\ final.colour = IF ~c.checked /\ slipped.colour = "green" THEN "grey" ELSE slipped.colour
  BY <1>4, <1>5 DEF Reading
<1> HIDE DEF final
<1>c. there => row.colour = IF c.calibrated /\ c.equal THEN "grey"
                            ELSE IF ~c.sameUnit \/ ~c.equal THEN "red"
                            ELSE IF c.hasUnit THEN "green" ELSE "grey"
  BY DEF CellRow
<1>7. row.colour = "green" => there /\ c.sameUnit /\ c.equal /\ c.hasUnit
  BY <1>3, <1>c DEF CellRow
<1>8. row.from # {} => there
  BY DEF CellRow
<1>9. there /\ ~(c.equal /\ (c.sameUnit \/ c.calibrated)) => row.colour = "red"
  BY <1>3, <1>c
<1>10. final.colour = "green" => Proven(v)
  BY <1>1, <1>5, <1>6, <1>7 DEF Proven
<1>11. final.from # {} => Found(v)
  BY <1>1, <1>6, <1>8 DEF Found
<1>12. ~StandsAt(v) => final.colour = "red"
  BY <1>1, <1>5, <1>6, <1>9 DEF StandsAt
<1>13. QED
  BY <1>10, <1>11, <1>12 DEF HonestRow, final

LEMMA SignalsAreHonest ==
  ASSUME Sound, NEW v \in DOMAIN doc.signals, doc.signals[v].cells = {}, NEW rs,
         \A p \in DOMAIN doc.properties : rs[p] = QuoteRow(doc, doc.properties[p])
  PROVE  HonestRow(v, SignalRow(doc, v, rs)) /\ SignalRow(doc, v, rs).from \subseteq doc.sources
<1> DEFINE q == doc.signals[v].quote
           row == QuoteRow(doc, q)
<1>1. v \notin Parameter
  BY KindsInId, SourceAssumption
<1>2. q \in Quote /\ row \in Reading
  BY RowTypes
<1>3. doc.signals[v].via \subseteq DOMAIN doc.properties
  BY DEF Sound, WellFormed
<1>4. /\ SignalRow(doc, v, rs).colour =
           IF row.colour = "green" /\ ~Confirmed(doc.signals[v], rs) THEN "grey" ELSE row.colour
      /\ SignalRow(doc, v, rs).from = row.from
      /\ SignalRow(doc, v, rs).located = row.located
  BY <1>2 DEF SignalRow, Reading
<1>5. Confirmed(doc.signals[v], rs) =>
        (doc.signals[v].linked =>
           doc.signals[v].via # {} /\ \A p \in doc.signals[v].via : Agrees(doc.properties[p]))
  BY <1>3, KindsInId, QuotesAreHonest DEF Confirmed
<1>6. SignalRow(doc, v, rs).colour = "green" => Proven(v)
  BY <1>1, <1>2, <1>4, <1>5, QuotesAreHonest DEF Proven
<1>7. SignalRow(doc, v, rs).from # {} /\ SignalRow(doc, v, rs).located => Found(v)
  BY <1>1, <1>2, <1>4, QuotesAreHonest DEF Found
<1>8. ~StandsAt(v) => SignalRow(doc, v, rs).colour = "red"
  BY <1>1, <1>2, <1>4, QuotesAreHonest DEF StandsAt
<1>9. QED
  BY <1>2, <1>4, <1>6, <1>7, <1>8, QuotesAreHonest DEF HonestRow

LEMMA ParametersAreHonest ==
  ASSUME Sound, NEW p \in Parameter
  PROVE  HonestRow(p, QuoteRow(doc, doc.parameters[p]))
BY KindsInId, QuotesAreHonest DEF HonestRow, Proven, Found, StandsAt

(* Looking at the inlets takes green away and gives none.                  *)
LEMMA BindingIsHonest ==
  ASSUME NEW rs \in [Id -> Reading], NEW v \in Signal
  PROVE  /\ HonestRow(v, rs[v]) => HonestRow(v, BoundRow(doc, rs, v))
         /\ rs[v] = NoReading => BoundRow(doc, rs, v) = NoReading
         /\ BoundRow(doc, rs, v).from = rs[v].from
<1>1. rs[v] \in Reading
  BY DEF Id
<1>2. /\ BoundRow(doc, rs, v).from = rs[v].from
      /\ BoundRow(doc, rs, v).located = rs[v].located
      /\ BoundRow(doc, rs, v).colour = "green" => rs[v].colour = "green"
      /\ rs[v].colour = "red" => BoundRow(doc, rs, v).colour = "red"
  BY <1>1 DEF BoundRow, Reading
<1>3. rs[v] = NoReading => BoundRow(doc, rs, v) = NoReading
  BY DEF BoundRow, NoReading
<1>4. QED
  BY <1>2, <1>3 DEF HonestRow
-----------------------------------------------------------------------------
(* What the rows of the snapshot are, from the stage that makes them on.   *)
CellSignals == {v \in DOMAIN doc.signals : doc.signals[v].cells # {}}
HonestAt(S) == \A x \in S : HonestRow(x, readings[x])
PropertiesRead == \A p \in DOMAIN doc.properties : readings[p] = QuoteRow(doc, doc.properties[p])
TablesRead == \A t \in DOMAIN doc.tables : readings[t] = TableRow(doc, t)
CellsRead == \A v \in CellSignals : readings[v] = CellRow(doc, CellOf(doc, v))

Honest ==
  /\ stage # "properties" => PropertiesRead
  /\ stage \notin {"properties", "tables"} => TablesRead
  /\ stage = "cells" => CellsRead
  /\ stage \notin {"properties", "tables", "cells"} => HonestAt(CellSignals)
  /\ stage \notin {"properties", "tables", "cells", "signals"} => HonestAt(DOMAIN doc.signals)
  /\ stage \notin {"properties", "tables", "cells", "signals", "parameters"} => HonestAt(Parameter)

(* The rows of a step that leaves some readings alone.                     *)
LEMMA HonestKept ==
  ASSUME doc' = doc, NEW S, \A x \in S : HonestRow(x, readings'[x])
  PROVE  HonestAt(S)'
<1>1. \A x : HonestRow(x, readings[x])' <=> HonestRow(x, readings'[x])
  BY DocumentKept DEF HonestRow
<1>2. QED
  BY <1>1 DEF HonestAt

LEMMA RowsUnchanged ==
  ASSUME doc' = doc, NEW S, \A x \in S : readings'[x] = readings[x]
  PROVE  /\ DOMAIN doc.properties \subseteq S /\ PropertiesRead => PropertiesRead'
         /\ DOMAIN doc.tables \subseteq S /\ TablesRead => TablesRead'
         /\ CellSignals' = CellSignals
         /\ CellSignals \subseteq S /\ CellsRead => CellsRead'
         /\ \A T : T \subseteq S /\ HonestAt(T) => HonestAt(T)'
<1>1. \A T : T \subseteq S /\ HonestAt(T) => \A x \in T : HonestRow(x, readings'[x])
  BY DEF HonestAt
<1>2. \A T : T \subseteq S /\ HonestAt(T) => HonestAt(T)'
  BY <1>1, HonestKept
<1>3. CellSignals' = CellSignals
  BY DEF CellSignals
<1>4. QED
  BY <1>2, <1>3 DEF PropertiesRead, TablesRead, CellsRead

LEMMA KindsInId2 ==
  ASSUME Sound
  PROVE  /\ DOMAIN doc.properties \subseteq Id /\ DOMAIN doc.tables \subseteq Id
         /\ DOMAIN doc.signals \subseteq Id /\ DOMAIN doc.claims \subseteq Id
         /\ Parameter \subseteq Id /\ Signal \subseteq Id /\ CellSignals \subseteq DOMAIN doc.signals
BY KindsInId DEF Id, CellSignals
LEMMA HonestStep ==
  ASSUME ReportTypeOK, Sound, Honest, [Proceed]_everything
  PROVE  Honest'
<1>1. doc' = doc
  BY ProceedEvaluates
<1>2. readings \in [Id -> Reading]
  BY DEF ReportTypeOK
<1>3. CASE ReadProperties
  <2>1. stage = "properties" /\ stage' = "tables"
    BY <1>3 DEF ReadProperties, Step
  <2>2. \A p \in DOMAIN doc.properties : readings'[p] = QuoteRow(doc, doc.properties[p])
    BY <1>3, KindsInId2 DEF ReadProperties
  <2>3. PropertiesRead'
    BY <1>1, <2>2 DEF PropertiesRead
  <2>4. QED
    BY <2>1, <2>3 DEF Honest
<1>4. CASE ReadTables
  <2>1. stage = "tables" /\ stage' = "cells"
    BY <1>4 DEF ReadTables, Step
  <2>2. \A t \in DOMAIN doc.tables : readings'[t] = TableRow(doc, t)
    BY <1>4, KindsInId2 DEF ReadTables
  <2>3. \A v \in CellSignals : v \in DOMAIN doc.signals /\ v \in Id /\ v \notin DOMAIN doc.tables
    BY KindsInId, KindsInId2, SourceAssumption
  <2>4. \A v \in CellSignals : readings'[v] = CellRow(doc, CellOf(doc, v))
    BY <1>4, <2>3 DEF ReadTables, CellSignals
  <2>5. \A p \in DOMAIN doc.properties : readings'[p] = readings[p]
    BY <1>4, KindsInId, KindsInId2, SourceAssumption DEF ReadTables
  <2>6. PropertiesRead'
    BY <1>1, <2>1, <2>5, RowsUnchanged DEF Honest
  <2>7. TablesRead' /\ CellsRead'
    BY <1>1, <2>2, <2>4 DEF TablesRead, CellsRead, CellSignals
  <2>8. QED
    BY <2>1, <2>6, <2>7 DEF Honest
<1>5. CASE RecheckCells
  <2>1. stage = "cells" /\ stage' = "signals"
    BY <1>5 DEF RecheckCells, Step
  <2> DEFINE Others == DOMAIN doc.properties \cup DOMAIN doc.tables
  <2>2. \A x \in Others : readings'[x] = readings[x]
    BY <1>5, KindsInId, KindsInId2, SourceAssumption DEF RecheckCells
  <2>3. PropertiesRead' /\ TablesRead'
    BY <1>1, <2>1, <2>2, RowsUnchanged DEF Honest
  <2>4. \A v \in CellSignals : readings'[v] = Recheck(doc, CellOf(doc, v), CellRow(doc, CellOf(doc, v)))
    BY <1>5, <2>1, KindsInId2 DEF RecheckCells, Honest, CellsRead, CellSignals
  <2>5. \A v \in CellSignals : HonestRow(v, readings'[v])
    BY <2>4, CellsAreHonest DEF CellSignals
  <2>6. CellSignals' = CellSignals
    BY <1>1 DEF CellSignals
  <2>7. HonestAt(CellSignals)'
    BY <1>1, <2>5, <2>6, HonestKept
  <2>8. QED
    BY <2>1, <2>3, <2>7 DEF Honest
<1>6. CASE ReadSignals
  <2>1. stage = "signals" /\ stage' = "parameters"
    BY <1>6 DEF ReadSignals, Step
  <2> DEFINE Others == DOMAIN doc.properties \cup DOMAIN doc.tables \cup CellSignals
  <2>2. \A x \in Others : readings'[x] = readings[x]
    BY <1>6, KindsInId, KindsInId2, SourceAssumption DEF ReadSignals, CellSignals
  <2>3. PropertiesRead' /\ TablesRead'
    BY <1>1, <2>1, <2>2, RowsUnchanged DEF Honest
  <2>4. \A v \in CellSignals : HonestRow(v, readings'[v])
    BY <2>1, <2>2 DEF Honest, HonestAt
  <2>5. \A v \in DOMAIN doc.signals \ CellSignals : HonestRow(v, readings'[v])
    <3> SUFFICES ASSUME NEW v \in DOMAIN doc.signals, doc.signals[v].cells = {}
                 PROVE  HonestRow(v, readings'[v])
      BY DEF CellSignals
    <3>1. readings'[v] = SignalRow(doc, v, readings)
      BY <1>6, KindsInId2 DEF ReadSignals
    <3>2. \A p \in DOMAIN doc.properties : readings[p] = QuoteRow(doc, doc.properties[p])
      BY <2>1 DEF Honest, PropertiesRead
    <3>3. QED
      BY <3>1, <3>2, SignalsAreHonest
  <2>6. \A v \in DOMAIN doc.signals : HonestRow(v, readings'[v])
    BY <2>4, <2>5
  <2>7. CellSignals' = CellSignals
    BY <1>1 DEF CellSignals
  <2>8. HonestAt(CellSignals)' /\ HonestAt(DOMAIN doc.signals)'
    BY <1>1, <2>4, <2>6, <2>7, HonestKept
  <2>9. QED
    BY <2>1, <2>3, <2>8 DEF Honest
<1>7. CASE ReadParameters
  <2>1. stage = "parameters" /\ stage' = "tree"
    BY <1>7 DEF ReadParameters, Step
  <2> DEFINE Others == DOMAIN doc.properties \cup DOMAIN doc.tables \cup DOMAIN doc.signals
  <2>2. \A x \in Others : readings'[x] = readings[x]
    BY <1>7, KindsInId, KindsInId2, SourceAssumption DEF ReadParameters
  <2>3. PropertiesRead' /\ TablesRead'
    BY <1>1, <2>1, <2>2, RowsUnchanged DEF Honest
  <2>4. \A v \in DOMAIN doc.signals : HonestRow(v, readings'[v])
    BY <2>1, <2>2 DEF Honest, HonestAt
  <2>5. \A p \in Parameter : HonestRow(p, readings'[p])
    BY <1>7, KindsInId2, ParametersAreHonest DEF ReadParameters
  <2>6. CellSignals' = CellSignals /\ CellSignals \subseteq DOMAIN doc.signals
    BY <1>1 DEF CellSignals
  <2>7. HonestAt(CellSignals)' /\ HonestAt(DOMAIN doc.signals)' /\ HonestAt(Parameter)'
    BY <1>1, <2>4, <2>5, <2>6, HonestKept
  <2>8. QED
    BY <2>1, <2>3, <2>7 DEF Honest
<1>8. CASE BindInlets
  <2>1. stage = "inlets" /\ stage' = "derived"
    BY <1>8 DEF BindInlets, Step
  <2> DEFINE Others == DOMAIN doc.properties \cup DOMAIN doc.tables \cup Parameter
  <2>2. \A x \in Others : readings'[x] = readings[x]
    BY <1>8, KindsInId, KindsInId2, SourceAssumption DEF BindInlets
  <2>3. PropertiesRead' /\ TablesRead'
    BY <1>1, <2>1, <2>2, RowsUnchanged DEF Honest
  <2>4. \A v \in DOMAIN doc.signals : readings'[v] = BoundRow(doc, readings, v)
    BY <1>8, KindsInId, KindsInId2 DEF BindInlets
  <2>5. \A v \in DOMAIN doc.signals : HonestRow(v, readings'[v])
    BY <1>2, <2>1, <2>4, KindsInId, BindingIsHonest DEF Honest, HonestAt
  <2>6. \A p \in Parameter : HonestRow(p, readings'[p])
    BY <2>1, <2>2 DEF Honest, HonestAt
  <2>7. CellSignals' = CellSignals /\ CellSignals \subseteq DOMAIN doc.signals
    BY <1>1 DEF CellSignals
  <2>8. HonestAt(CellSignals)' /\ HonestAt(DOMAIN doc.signals)' /\ HonestAt(Parameter)'
    BY <1>1, <2>5, <2>6, <2>7, HonestKept
  <2>9. QED
    BY <2>1, <2>3, <2>8 DEF Honest
<1>9. CASE Spread \/ ReadClaims
  <2> DEFINE Others == DOMAIN doc.properties \cup DOMAIN doc.tables \cup DOMAIN doc.signals \cup Parameter
  <2>1. \A x \in Others : readings'[x] = readings[x]
    <3>1. CASE Spread
      <4>1. position + 1 \in DOMAIN doc.derived
        BY <3>1, KindsInId DEF Spread, ReportTypeOK
      <4>2. doc.derived[position + 1].var \in Signal \ DOMAIN doc.signals
        BY <4>1, KindsInId
      <4>3. doc.derived[position + 1].var \notin Others
        BY <4>2, KindsInId, SourceAssumption
      <4>4. \A x : x # doc.derived[position + 1].var /\ x \in Id => readings'[x] = readings[x]
        BY <1>2, <3>1 DEF Spread
      <4>5. QED
        BY <4>3, <4>4, KindsInId2
    <3>2. CASE ReadClaims
      BY <3>2, KindsInId, KindsInId2, SourceAssumption DEF ReadClaims
    <3>3. QED
      BY <1>9, <3>1, <3>2
  <2>2. /\ stage \notin {"properties", "tables", "cells", "signals", "parameters"}
        /\ stage' \notin {"properties", "tables", "cells", "signals", "parameters"}
    BY <1>9 DEF Spread, ReadClaims, Step
  <2>3. PropertiesRead /\ TablesRead /\ HonestAt(DOMAIN doc.signals) /\ HonestAt(Parameter)
    BY <2>2 DEF Honest
  <2>4. PropertiesRead' /\ TablesRead'
    BY <1>1, <2>1, <2>3, RowsUnchanged
  <2>5. /\ \A v \in DOMAIN doc.signals : HonestRow(v, readings'[v])
        /\ \A p \in Parameter : HonestRow(p, readings'[p])
    BY <2>1, <2>3 DEF HonestAt
  <2>6. CellSignals' = CellSignals /\ CellSignals \subseteq DOMAIN doc.signals
    BY <1>1 DEF CellSignals
  <2>7. HonestAt(CellSignals)' /\ HonestAt(DOMAIN doc.signals)' /\ HonestAt(Parameter)'
    BY <1>1, <2>5, <2>6, HonestKept
  <2>8. stage' # "cells"
    BY <1>9 DEF Spread, ReadClaims, Step
  <2>9. QED
    BY <2>4, <2>7, <2>8 DEF Honest
<1>10. CASE Evaluate \/ EndSpread \/ ColourBlocks \/ Conclude \/ UNCHANGED everything
  <2>1. readings' = readings
    BY <1>10 DEF Evaluate, EndSpread, ColourBlocks, Conclude, everything, sources
  <2>2. \/ stage' = stage
        \/ /\ stage \notin {"properties", "tables", "cells", "signals", "parameters"}
           /\ stage' \notin {"properties", "tables", "cells", "signals", "parameters"}
    BY <1>10 DEF Evaluate, EndSpread, ColourBlocks, Conclude, everything, sources
  <2>3. /\ PropertiesRead => PropertiesRead'
        /\ TablesRead => TablesRead'
    BY <1>1, <2>1 DEF PropertiesRead, TablesRead
  <2>4. CellSignals' = CellSignals
    BY <1>1 DEF CellSignals
  <2>5. CellsRead => CellsRead'
    BY <1>1, <2>1, <2>4 DEF CellsRead
  <2>6. \A T : HonestAt(T) => \A x \in T : HonestRow(x, readings'[x])
    BY <2>1 DEF HonestAt
  <2>7. /\ HonestAt(CellSignals) => HonestAt(CellSignals)'
        /\ HonestAt(DOMAIN doc.signals) => HonestAt(DOMAIN doc.signals)'
        /\ HonestAt(Parameter) => HonestAt(Parameter)'
    BY <1>1, <2>4, <2>6, HonestKept
  <2>8. stage \notin {"properties", "tables", "cells", "signals", "parameters"} =>
          /\ PropertiesRead /\ TablesRead /\ HonestAt(CellSignals)
          /\ HonestAt(DOMAIN doc.signals) /\ HonestAt(Parameter)
    BY DEF Honest
  <2>9. CASE stage' = stage
    BY <2>3, <2>5, <2>7, <2>9 DEF Honest
  <2>10. CASE /\ stage \notin {"properties", "tables", "cells", "signals", "parameters"}
              /\ stage' \notin {"properties", "tables", "cells", "signals", "parameters"}
    BY <2>3, <2>5, <2>7, <2>8, <2>10 DEF Honest
  <2>11. QED
    BY <2>2, <2>9, <2>10
<1>11. QED
  BY <1>3, <1>4, <1>5, <1>6, <1>7, <1>8, <1>9, <1>10 DEF Proceed
-----------------------------------------------------------------------------
(* Until the inlets are bound nothing is derived, and rows name the files  *)
(* there are.                                                              *)
Early == {"properties", "tables", "cells", "signals", "parameters", "tree", "inlets"}
Available == doc.sources \cup {t \in DOMAIN doc.tables : doc.tables[t].there}

Fresh ==
  /\ stage \in Early => /\ position = 0
                        /\ \A id \in Id : readings[id].from \subseteq Available
                        /\ \A v \in Signal \ DOMAIN doc.signals : readings[v] = NoReading
  /\ stage \in {"blocks", "claims", "verdict", "done"} => position = Len(doc.derived)

LEMMA RowsNameFiles ==
  ASSUME Sound
  PROVE  /\ \A q \in Quote : QuoteRow(doc, q).from \subseteq Available
         /\ \A t \in DOMAIN doc.tables : TableRow(doc, t).from \subseteq Available
         /\ \A v \in CellSignals : CellRow(doc, CellOf(doc, v)).from \subseteq Available
         /\ \A c \in Cell, row \in Reading : Recheck(doc, c, row).from = row.from
<1>1. \A q \in Quote : QuoteRow(doc, q).from \subseteq Available
  BY QuotesAreHonest DEF Available
<1>2. \A t \in DOMAIN doc.tables : TableRow(doc, t).from \subseteq Available
  BY DEF TableRow, NoReading, Available
<1>3. \A v \in CellSignals : CellRow(doc, CellOf(doc, v)).from \subseteq Available
  BY RowTypes DEF CellRow, Available, CellSignals
<1>4. ASSUME NEW c \in Cell, NEW row \in Reading
      PROVE  Recheck(doc, c, row).from = row.from
  <2> DEFINE slipped == IF c.slips /\ doc.tables[c.table].there THEN [row EXCEPT !.colour = "red"] ELSE row
  <2>1. slipped.from = row.from /\ slipped \in Reading
    BY DEF Reading, Colours
  <2>2. QED
    BY <2>1 DEF Recheck, Reading
<1>5. QED
  BY <1>1, <1>2, <1>3, <1>4

LEMMA FreshStep ==
  ASSUME ReportTypeOK, Sound, Honest, Fresh, [Proceed]_everything
  PROVE  Fresh'
<1>1. doc' = doc /\ Available' = Available
  BY ProceedEvaluates DEF Available
<1>2. readings \in [Id -> Reading] /\ position \in 0 .. Len(doc.derived) /\ Len(doc.derived) \in Nat
  BY KindsInId DEF ReportTypeOK
<1>3. CASE ReadProperties \/ ReadTables \/ RecheckCells \/ ReadSignals \/ ReadParameters
  <2>1. /\ stage \in Early /\ stage' \in Early /\ position' = position
    BY <1>3 DEF ReadProperties, ReadTables, RecheckCells, ReadSignals, ReadParameters, Step, Early
  <2>2. \A v \in Signal \ DOMAIN doc.signals : readings'[v] = readings[v]
    BY <1>3, KindsInId, KindsInId2, SourceAssumption
       DEF ReadProperties, ReadTables, RecheckCells, ReadSignals, ReadParameters
  <2>3. \A id \in Id : readings'[id].from \subseteq Available
    <3> SUFFICES ASSUME NEW id \in Id
                 PROVE  readings'[id].from \subseteq Available
      OBVIOUS
    <3>1. readings[id].from \subseteq Available
      BY <2>1 DEF Fresh
    <3>2. CASE ReadProperties
      BY <3>1, <3>2, KindsInId, RowsNameFiles DEF ReadProperties
    <3>3. CASE ReadTables
      BY <3>1, <3>3, KindsInId, RowsNameFiles DEF ReadTables, CellSignals
    <3>4. CASE RecheckCells
      <4>1. id \in CellSignals => CellOf(doc, id) \in Cell
        BY RowTypes DEF CellSignals
      <4>2. QED
        BY <1>2, <3>1, <3>4, <4>1, RowsNameFiles DEF RecheckCells, CellSignals
    <3>5. CASE ReadSignals
      <4>1. \A p \in DOMAIN doc.properties : readings[p] = QuoteRow(doc, doc.properties[p])
        BY <3>5 DEF Honest, PropertiesRead, ReadSignals, Step
      <4>2. \A v \in DOMAIN doc.signals : doc.signals[v].cells = {} =>
              SignalRow(doc, v, readings).from \subseteq Available
        BY <4>1, SignalsAreHonest DEF Available
      <4>3. QED
        BY <3>1, <3>5, <4>2 DEF ReadSignals
    <3>6. CASE ReadParameters
      BY <3>1, <3>6, KindsInId, RowsNameFiles DEF ReadParameters
    <3>7. QED
      BY <1>3, <3>2, <3>3, <3>4, <3>5, <3>6
  <2>4. stage' \notin {"blocks", "claims", "verdict", "done"}
    BY <2>1 DEF Early
  <2>5. QED
    BY <1>1, <2>1, <2>2, <2>3, <2>4 DEF Fresh
<1>4. CASE Evaluate
  <2>1. stage \in Early /\ stage' \in Early /\ position' = position /\ readings' = readings
    BY <1>4 DEF Evaluate, Early
  <2>2. stage' \notin {"blocks", "claims", "verdict", "done"}
    BY <2>1 DEF Early
  <2>3. QED
    BY <1>1, <2>1, <2>2 DEF Fresh
<1>5. CASE BindInlets \/ Spread
  <2>1. stage' = "derived"
    BY <1>5 DEF BindInlets, Spread, Step
  <2>2. QED
    BY <2>1 DEF Fresh, Early
<1>6. CASE EndSpread
  BY <1>1, <1>6 DEF EndSpread, Fresh, Early
<1>7. CASE ColourBlocks \/ ReadClaims \/ Conclude
  <2>1. /\ stage \in {"blocks", "claims", "verdict"} /\ stage' \in {"claims", "verdict", "done"}
        /\ position' = position
    BY <1>7 DEF ColourBlocks, ReadClaims, Conclude, Step
  <2>2. QED
    BY <1>1, <2>1 DEF Fresh, Early
<1>8. CASE UNCHANGED everything
  BY <1>1, <1>8 DEF everything, sources, Fresh
<1>9. QED
  BY <1>3, <1>4, <1>5, <1>6, <1>7, <1>8 DEF Proceed

-----------------------------------------------------------------------------
(* What a value goes back to.                                              *)
LEMMA GroundOfObserved ==
  ASSUME Sound
  PROVE  /\ \A p \in Parameter : Ground(p) = {p}
         /\ \A v \in DOMAIN doc.signals : Ground(v) = {v}
         /\ \A v : v \notin Parameter => Ground(v) \subseteq DOMAIN doc.signals
<1>1. \A p \in Parameter : Ground(p) = {p}
  BY DEF Ground
<1>2. \A v : v \notin Parameter => Ground(v) \subseteq DOMAIN doc.signals
  BY DEF Ground
<1>3. ASSUME NEW v \in DOMAIN doc.signals
      PROVE  Ground(v) = {v}
  <2>1. v \notin Parameter /\ v \in Signal
    BY KindsInId, SourceAssumption
  <2>2. {v} \in Backwards
    BY <2>1, KindsInId DEF Backwards
  <2>3. QED
    BY <2>1, <2>2 DEF Ground
<1>4. QED
  BY <1>1, <1>2, <1>3

LEMMA DerivedOnce ==
  ASSUME Sound, NEW j \in DOMAIN doc.derived, NEW k \in DOMAIN doc.derived,
         doc.derived[j].var = doc.derived[k].var
  PROVE  j = k
<1>1. j \in Nat /\ k \in Nat /\ j >= 1 /\ k >= 1
  BY KindsInId
<1>2. \A m \in DOMAIN doc.derived : \A i \in 1 .. m - 1 : doc.derived[i].var # doc.derived[m].var
  BY DEF Sound, WellFormed, WellOrdered
<1>3. ~(j < k) /\ ~(k < j)
  BY <1>1, <1>2
<1>4. QED
  BY <1>1, <1>3

LEMMA GroundOfDerived ==
  ASSUME Sound, NEW k \in DOMAIN doc.derived
  PROVE  /\ \A d \in doc.derived[k].deps : Ground(d) \subseteq Ground(doc.derived[k].var)
         /\ \A x \in Ground(doc.derived[k].var) : \E d \in doc.derived[k].deps : x \in Ground(d)
<1> DEFINE v == doc.derived[k].var
           deps == doc.derived[k].deps
<1>1. v \in Signal \ DOMAIN doc.signals /\ v \notin Parameter
  BY KindsInId, SourceAssumption
<1>2. deps \subseteq Signal /\ \A d \in deps : d \notin Parameter
  BY KindsInId, SourceAssumption
<1>3. \A S \in Backwards : v \in S => deps \subseteq S
  BY DEF Backwards
<1>4. \A d \in deps : Ground(d) \subseteq Ground(v)
  BY <1>1, <1>2, <1>3 DEF Ground
<1>5. ASSUME NEW x \in Ground(v), \A d \in deps : x \notin Ground(d)
      PROVE  FALSE
  <2> DEFINE Without == {y \in Signal : \E S \in Backwards : y \in S /\ x \notin S} \cup {v}
  <2>1. x \in DOMAIN doc.signals /\ x # v
    BY <1>1, <1>5 DEF Ground
  <2>2. deps \subseteq Without
    BY <1>2, <1>5, <2>1 DEF Ground
  <2>3. ASSUME NEW m \in DOMAIN doc.derived, doc.derived[m].var \in Without
        PROVE  doc.derived[m].deps \subseteq Without
    <3>1. CASE doc.derived[m].var = v
      BY <2>2, <3>1, DerivedOnce
    <3>2. CASE doc.derived[m].var # v
      <4>1. PICK S \in Backwards : doc.derived[m].var \in S /\ x \notin S
        BY <2>3, <3>2
      <4>2. doc.derived[m].deps \subseteq S
        BY <4>1 DEF Backwards
      <4>3. QED
        BY <4>1, <4>2, KindsInId
    <3>3. QED
      BY <3>1, <3>2
  <2>4. Without \in Backwards
    BY <1>1, <2>3 DEF Backwards
  <2>5. x \in Without
    BY <1>1, <1>5, <2>4 DEF Ground
  <2>6. QED
    BY <2>1, <2>5
<1>6. QED
  BY <1>4, <1>5
-----------------------------------------------------------------------------
(* Derived values made so far: green on proof, backed by what is found.    *)
GreenIsProven ==
  \A j \in 1 .. position : readings[doc.derived[j].var].colour = "green" =>
    /\ Ground(doc.derived[j].var) # {}
    /\ \A x \in Ground(doc.derived[j].var) : Proven(x)
Told(x) == Found(x) /\ readings[x].colour \in {"green", "red"}
BackedIsTold == \A v \in backed \cap (Signal \cup Parameter) : \E x \in Ground(v) : Told(x)
Grounded == stage \notin Early => GreenIsProven /\ BackedIsTold

LEMMA GroundedKept ==
  ASSUME doc' = doc, UNCHANGED <<backed, position>>, Sound, position \in 0 .. Len(doc.derived),
         \A v \in Signal \cup Parameter : readings'[v] = readings[v],
         GreenIsProven, BackedIsTold
  PROVE  GreenIsProven' /\ BackedIsTold'
<1>1. \A j \in 1 .. position : j \in DOMAIN doc.derived /\ doc.derived[j].var \in Signal
  BY KindsInId
<1>2. \A v \in Signal \cup Parameter : Ground(v) \subseteq Signal \cup Parameter
  BY GroundOfObserved, KindsInId
<1>3. GreenIsProven'
  BY <1>1, DocumentKept DEF GreenIsProven
<1>4. \A v \in Signal \cup Parameter : \A x \in Ground(v) : Told(x) => Told(x)'
  BY <1>2, DocumentKept DEF Told
<1>5. BackedIsTold'
  BY <1>4, DocumentKept DEF BackedIsTold
<1>6. QED
  BY <1>3, <1>5

LEMMA GroundedByInlets ==
  ASSUME ReportTypeOK, Sound, Honest, Honest', Fresh, BindInlets, doc' = doc
  PROVE  GreenIsProven' /\ BackedIsTold'
<1>1. /\ readings \in [Id -> Reading] /\ stage = "inlets" /\ stage' = "derived"
      /\ position = 0 /\ position' = 0
  BY DEF ReportTypeOK, BindInlets, Step, Fresh, Early
<1>2. GreenIsProven'
  BY <1>1 DEF GreenIsProven
<1>3. ASSUME NEW v \in Signal \cup Parameter, v \in Spoken(readings')
      PROVE  \E x \in Ground(v) : Told(x)'
  <2>1. readings'[v].from # {} /\ readings'[v].located /\ readings'[v].colour \in {"green", "red"}
    BY <1>3 DEF Spoken
  <2>2. v \in Parameter \/ v \in DOMAIN doc.signals
    <3> SUFFICES ASSUME v \in Signal \ DOMAIN doc.signals
                 PROVE  FALSE
      OBVIOUS
    <3>1. readings[v] = NoReading
      BY <1>1 DEF Fresh, Early
    <3>2. readings'[v] = NoReading
      BY <1>1, <3>1, BindingIsHonest, KindsInId2 DEF BindInlets
    <3>3. QED
      BY <2>1, <3>2 DEF NoReading
  <2>3. HonestAt(DOMAIN doc.signals)' /\ HonestAt(Parameter)'
    BY <1>1 DEF Honest
  <2>4. HonestRow(v, readings[v])'
    BY <2>2, <2>3 DEF HonestAt
  <2>5. HonestRow(v, readings[v])' => (readings'[v].from # {} /\ readings'[v].located => Found(v))
    BY DocumentKept DEF HonestRow
  <2>6. Told(v)'
    BY <2>1, <2>4, <2>5, DocumentKept DEF Told
  <2>7. v \in Ground(v)
    BY <2>2, GroundOfObserved
  <2>8. QED
    BY <2>6, <2>7
<1>4. backed' = Spoken(readings')
  BY DEF BindInlets
<1>5. BackedIsTold'
  BY <1>3, <1>4, DocumentKept DEF BackedIsTold
<1>6. QED
  BY <1>2, <1>5

LEMMA GroundedBySpread ==
  ASSUME ReportTypeOK, Sound, Honest, GreenIsProven, BackedIsTold, Spread, doc' = doc
  PROVE  GreenIsProven' /\ BackedIsTold'
<1> DEFINE k == position + 1
           v == doc.derived[k].var
           deps == doc.derived[k].deps
           row == [colour |-> IF AllGreen(deps) THEN "green" ELSE "grey",
                   from |-> UNION {readings[d].from : d \in deps}, located |-> TRUE]
<1>1. /\ readings \in [Id -> Reading] /\ stage = "derived"
      /\ position \in Nat /\ k \in DOMAIN doc.derived /\ position' = k
  BY KindsInId DEF ReportTypeOK, Spread
<1>2. v \in Signal \ DOMAIN doc.signals /\ v \in Id /\ v \notin Parameter
  BY <1>1, KindsInId, SourceAssumption DEF Id
<1>3. readings' = [readings EXCEPT ![v] = row]
  BY DEF Spread
<1>4. backed' = backed \cup {u \in {v} : deps \cap backed # {}}
  BY DEF Spread
<1> HIDE DEF k, v, deps
<1>5. readings'[v].colour = IF AllGreen(deps) THEN "green" ELSE "grey"
  BY <1>1, <1>2, <1>3
<1>6. \A x \in Id : x # v => readings'[x] = readings[x]
  BY <1>1, <1>3
<1>7. deps \subseteq DOMAIN doc.signals \cup {doc.derived[j].var : j \in 1 .. position}
  BY <1>1 DEF k, deps, Sound, WellFormed, WellOrdered
<1>8. /\ \A d \in deps : Ground(d) \subseteq Ground(v)
      /\ \A x \in Ground(v) : \E d \in deps : x \in Ground(d)
  BY <1>1, GroundOfDerived DEF v, deps
<1>9. ASSUME NEW d \in deps, readings[d].colour = "green"
      PROVE  Ground(d) # {} /\ \A x \in Ground(d) : Proven(x)
  <2>1. CASE d \in DOMAIN doc.signals
    <3>1. HonestAt(DOMAIN doc.signals)
      BY <1>1 DEF Honest
    <3>2. Proven(d)
      BY <1>9, <2>1, <3>1 DEF HonestAt, HonestRow
    <3>3. QED
      BY <2>1, <3>2, GroundOfObserved
  <2>2. CASE d \notin DOMAIN doc.signals
    BY <1>7, <1>9, <2>2 DEF GreenIsProven
  <2>3. QED
    BY <2>1, <2>2
<1>10. AllGreen(deps) => Ground(v) # {} /\ \A x \in Ground(v) : Proven(x)
  BY <1>8, <1>9 DEF AllGreen
<1>11. \A j \in 1 .. position : doc.derived[j].var \in Id /\ doc.derived[j].var # v
  <2> SUFFICES ASSUME NEW j \in 1 .. position
               PROVE  doc.derived[j].var \in Id /\ doc.derived[j].var # v
    OBVIOUS
  <2>1. j \in DOMAIN doc.derived /\ j # k
    BY <1>1, KindsInId DEF k
  <2>2. QED
    BY <1>1, <2>1, KindsInId, KindsInId2, DerivedOnce DEF v
<1>12. \A j \in 1 .. k : j \in 1 .. position \/ j = k
  BY <1>1 DEF k
<1>13. GreenIsProven'
  <2> SUFFICES ASSUME NEW j \in 1 .. k, readings'[doc.derived[j].var].colour = "green"
               PROVE  /\ Ground(doc.derived[j].var) # {}
                      /\ \A x \in Ground(doc.derived[j].var) : Proven(x)
    BY <1>1, DocumentKept DEF GreenIsProven
  <2>1. CASE j = k
    BY <1>5, <1>10, <2>1 DEF v
  <2>2. CASE j \in 1 .. position
    BY <1>6, <1>11, <2>2 DEF GreenIsProven
  <2>3. QED
    BY <1>12, <2>1, <2>2
<1>14. \A u \in Signal \cup Parameter : \A x \in Ground(u) : x \in Id /\ x # v
  BY <1>2, GroundOfObserved, KindsInId, KindsInId2
<1>15. \A u \in Signal \cup Parameter : \A x \in Ground(u) : Told(x) => Told(x)'
  BY <1>6, <1>14, DocumentKept DEF Told
<1>16. \A u \in backed' \cap (Signal \cup Parameter) : \E x \in Ground(u) : Told(x)'
  <2> SUFFICES ASSUME NEW u \in backed', u \in Signal \cup Parameter
               PROVE  \E x \in Ground(u) : Told(x)'
    OBVIOUS
  <2>1. CASE u \in backed
    BY <1>15, <2>1 DEF BackedIsTold
  <2>2. CASE u \notin backed
    <3>1. u = v /\ deps \cap backed # {}
      BY <1>4, <2>2
    <3>2. PICK d \in deps \cap backed : d \in Signal
      BY <1>1, <3>1, KindsInId DEF deps
    <3>3. PICK x \in Ground(d) : Told(x)
      BY <3>2 DEF BackedIsTold
    <3>4. x \in Ground(v) /\ Told(x)'
      BY <1>8, <1>15, <3>2, <3>3
    <3>5. QED
      BY <3>1, <3>4
  <2>3. QED
    BY <2>1, <2>2
<1>17. BackedIsTold'
  BY <1>16, DocumentKept DEF BackedIsTold
<1>18. QED
  BY <1>13, <1>17

LEMMA GroundedStep ==
  ASSUME ReportTypeOK, Sound, Honest, Honest', Fresh, Grounded, [Proceed]_everything
  PROVE  Grounded'
<1>1. doc' = doc /\ position \in 0 .. Len(doc.derived)
  BY ProceedEvaluates DEF ReportTypeOK
<1>2. CASE ReadProperties \/ ReadTables \/ RecheckCells \/ ReadSignals \/ ReadParameters \/ Evaluate
  <2>1. stage' \in Early
    BY <1>2 DEF ReadProperties, ReadTables, RecheckCells, ReadSignals, ReadParameters, Step,
                Evaluate, Early
  <2>2. QED
    BY <2>1 DEF Grounded, Early
<1>3. CASE BindInlets
  BY <1>1, <1>3, GroundedByInlets DEF Grounded
<1>4. CASE Spread
  <2>1. stage \notin Early
    BY <1>4 DEF Spread, Early
  <2>2. QED
    BY <1>1, <1>4, <2>1, GroundedBySpread DEF Grounded
<1>5. CASE EndSpread \/ ColourBlocks \/ ReadClaims \/ Conclude
  <2>1. stage \notin Early /\ UNCHANGED <<backed, position>>
    BY <1>5 DEF EndSpread, ColourBlocks, ReadClaims, Conclude, Step, Early
  <2>2. \A v \in Signal \cup Parameter : readings'[v] = readings[v]
    BY <1>5, KindsInId, KindsInId2, SourceAssumption
       DEF EndSpread, ColourBlocks, ReadClaims, Conclude
  <2>3. QED
    BY <1>1, <2>1, <2>2, GroundedKept DEF Grounded
<1>6. CASE UNCHANGED everything
  <2>1. UNCHANGED <<stage, backed, position, readings>>
    BY <1>6 DEF everything, sources
  <2>2. Early' = Early
    BY DEF Early
  <2>3. QED
    BY <1>1, <2>1, <2>2, GroundedKept DEF Grounded
<1>7. QED
  BY <1>2, <1>3, <1>4, <1>5, <1>6 DEF Proceed
-----------------------------------------------------------------------------
(* A reading with an identity is described by one clause, and the clause   *)
(* has that identity.                                                      *)
Names(c) == <<doc.clauses[c].from, doc.clauses[c].entity>>

LEMMA IdentifiedByClause ==
  ASSUME Sound, NEW v, Identity(doc, v) # NoEntity
  PROVE  \E c \in Clause : /\ Described(v) = {c} /\ Identity(doc, v) = Names(c)
                           /\ \A e \in Clause : doc.clauses[e] = doc.clauses[c] => e = c
<1> DEFINE q == doc.signals[v].quote
           found == IF v \in DOMAIN doc.signals THEN Entities(doc, q) ELSE {}
           within == {c \in UNION q.spots : \A e \in Clause : doc.clauses[e] = doc.clauses[c] => e = c}
<1>1. PICK e \in found : found = {e}
  BY DEF Identity
<1>2. v \in DOMAIN doc.signals /\ e \in Entities(doc, q) /\ Entities(doc, q) = {e}
  BY <1>1
<1>3. Identity(doc, v) = e
  BY <1>1, <1>2 DEF Identity
<1>4. Entities(doc, q) = {<<q.from, doc.clauses[c].entity>> : c \in within}
  BY <1>2 DEF Entities
<1>5. within = Described(v)
  BY <1>2 DEF Described
<1>6. q \in Quote /\ \A s \in q.spots : \A c \in s : doc.clauses[c].from = q.from
  BY <1>2 DEF Sound, WellFormed, WellQuoted
<1>7. \A c \in within : c \in Clause /\ doc.clauses[c].from = q.from
  BY <1>6 DEF Quote
<1>8. doc.clauses \in [Clause -> [from : File, entity : Entity]]
  BY DEF Sound, WellFormed
<1>9. PICK c \in within : e = <<q.from, doc.clauses[c].entity>>
  BY <1>2, <1>4
<1>10. \A a \in within : a = c
  <2> SUFFICES ASSUME NEW a \in within
               PROVE  a = c
    OBVIOUS
  <2>1. <<q.from, doc.clauses[a].entity>> = e
    BY <1>2, <1>4
  <2>2. doc.clauses[a].entity = doc.clauses[c].entity /\ doc.clauses[a].from = doc.clauses[c].from
    BY <1>7, <1>9, <2>1
  <2>3. doc.clauses[a] = doc.clauses[c]
    BY <1>7, <1>8, <2>2
  <2>4. QED
    BY <1>7, <2>3
<1>11. Described(v) = {c}
  BY <1>5, <1>9, <1>10
<1>12. e = Names(c)
  BY <1>7, <1>9 DEF Names
<1>13. QED
  BY <1>3, <1>7, <1>9, <1>11, <1>12

LEMMA GreenInletsStayApart ==
  ASSUME Sound, NEW rs, NEW n \in Inlets, AnyFile(doc), RoleOf(doc, rs, n.of) \notin {"red", "grey"}
  PROVE  Apart(n)
<1> DEFINE Fellows == {m \in Inlets : m.of = n.of}
<1>1. \A m \in Fellows : InletColour(doc, rs, m) \notin {"red", "grey"}
  BY DEF RoleOf, Worst
<1>2. \A m \in Fellows : Bound(doc, rs, m) = "green"
  BY <1>1 DEF InletColour, Bound
<1>3. \A m \in Fellows : \A v \in m.reads :
        /\ Identity(doc, v) # NoEntity
        /\ \A w \in m.reads : Identity(doc, v) = Identity(doc, w)
  <2> SUFFICES ASSUME NEW m \in Fellows
               PROVE  \A v \in m.reads : /\ Identity(doc, v) # NoEntity
                                         /\ \A w \in m.reads : Identity(doc, v) = Identity(doc, w)
    OBVIOUS
  <2> DEFINE identities == {Identity(doc, v) : v \in m.reads}
  <2>1. NoEntity \notin identities /\ \A a, b \in identities : a = b
    BY <1>2 DEF Bound
  <2>2. QED
    BY <2>1
<1>4. \A m \in Fellows \ {n} : \A v \in n.reads, w \in m.reads : Identity(doc, v) # Identity(doc, w)
  BY <1>1, <1>2 DEF InletColour
<1>5. PICK first \in n.reads : TRUE
  BY SourceAssumption
<1>6. PICK c \in Clause : /\ Described(first) = {c} /\ Identity(doc, first) = Names(c)
                          /\ \A e \in Clause : doc.clauses[e] = doc.clauses[c] => e = c
  BY <1>3, IdentifiedByClause
<1>7. doc.clauses \in [Clause -> [from : File, entity : Entity]]
  BY DEF Sound, WellFormed
<1>8. \A a, b \in Clause : Names(a) = Names(b) => doc.clauses[a] = doc.clauses[b]
  BY <1>7 DEF Names
<1>9. ASSUME NEW v \in n.reads
      PROVE  Described(v) = {c}
  <2>1. Identity(doc, v) # NoEntity /\ Identity(doc, v) = Identity(doc, first)
    BY <1>3, <1>5
  <2>2. PICK a \in Clause : Described(v) = {a} /\ Identity(doc, v) = Names(a)
    BY <2>1, IdentifiedByClause
  <2>3. a = c
    BY <1>6, <1>8, <2>1, <2>2
  <2>4. QED
    BY <2>2, <2>3
<1>10. ASSUME NEW m \in Inlets \ {n}, m.of = n.of, NEW w \in m.reads
       PROVE  Described(w) # {c}
  <2>1. Identity(doc, w) # NoEntity /\ Identity(doc, first) # Identity(doc, w)
    BY <1>3, <1>4, <1>5, <1>10
  <2>2. PICK a \in Clause : Described(w) = {a} /\ Identity(doc, w) = Names(a)
    BY <2>1, IdentifiedByClause
  <2>3. QED
    BY <1>6, <2>1, <2>2
<1>11. QED
  BY <1>9, <1>10 DEF Apart

-----------------------------------------------------------------------------
(* What the colours of inlets, blocks and claims and the verdict are worth. *)
RolesEarned ==
  stage \notin Early /\ backed # {} =>
    \A n \in Inlets : n.of \in Component /\ roles[n.of] \notin {"red", "grey"} => Apart(n)
ColoursEarned ==
  stage \in {"claims", "verdict", "done"} => \A b \in Block : colour[b] = "green" =>
    /\ \E i \in ChecksIn(b) : doc.reads[i] \cap backed # {}
    /\ \A i \in ChecksIn(b) : IsOwnRelation(i) => roles[records[i].ends[1]] \notin {"red", "grey"}
ClaimsEarned ==
  stage \in {"verdict", "done"} =>
    \A c \in DOMAIN doc.claims :
      MissingQuote(doc, doc.claims[c].quote) => readings[c].colour = "red"
VerdictEarned == stage = "done" /\ verdict => \A id \in Id : readings[id].colour # "red"
Earned == RolesEarned /\ ColoursEarned /\ ClaimsEarned /\ VerdictEarned

LEMMA RolesEarnedByInlets ==
  ASSUME ReportTypeOK, Sound, Fresh, BindInlets, doc' = doc
  PROVE  RolesEarned'
<1>1. readings \in [Id -> Reading] /\ stage = "inlets"
  BY DEF ReportTypeOK, BindInlets, Step
<1>2. \A id \in Id : readings'[id].from = readings[id].from
  BY <1>1, BindingIsHonest DEF BindInlets
<1>3. backed' = Spoken(readings')
  BY DEF BindInlets
<1>4. backed' # {} => AnyFile(doc)
  <2> SUFFICES ASSUME NEW id \in Spoken(readings')
               PROVE  AnyFile(doc)
    BY <1>3
  <2>1. id \in Id /\ readings[id].from # {}
    BY <1>2 DEF Spoken
  <2>2. readings[id].from \subseteq Available
    BY <1>1, <2>1 DEF Fresh, Early
  <2>3. Available # {}
    BY <2>1, <2>2
  <2>4. QED
    BY <2>3 DEF Available, AnyFile
<1>5. ASSUME NEW n \in Inlets, n.of \in Component, roles'[n.of] \notin {"red", "grey"}, backed' # {}
      PROVE  Apart(n)
  <2>1. roles'[n.of] = RoleOf(doc, readings, n.of)
    BY <1>5 DEF BindInlets
  <2>2. QED
    BY <1>4, <1>5, <2>1, GreenInletsStayApart
<1>6. QED
  BY <1>5, DocumentKept DEF RolesEarned

LEMMA ColoursEarnedByBlocks ==
  ASSUME ColourBlocks, doc' = doc
  PROVE  ColoursEarned'
<1>1. UNCHANGED <<vars, roles, backed>> /\ \A b \in Block : colour'[b] = BlockColour(b)
  BY DEF ColourBlocks
<1>2. ASSUME NEW b \in Block, BlockColour(b) = "green"
      PROVE  /\ \E i \in ChecksIn(b) : doc.reads[i] \cap backed # {}
             /\ \A i \in ChecksIn(b) : IsOwnRelation(i) => roles[records[i].ends[1]] \notin {"red", "grey"}
  <2>1. RolesIn(b) \cap {"red", "grey"} = {} /\ \E i \in TracedIn(b) : doc.reads[i] \cap backed # {}
    BY <1>2 DEF BlockColour, Worst
  <2>2. TracedIn(b) = ChecksIn(b)
    BY <2>1 DEF TracedIn
  <2>3. QED
    BY <2>1, <2>2 DEF RolesIn
<1>3. \A b : ChecksIn(b)' = ChecksIn(b)
  BY <1>1 DEF ChecksIn, Checked, Index, vars, problem
<1>4. \A i : IsOwnRelation(i)' = IsOwnRelation(i)
  BY <1>1 DEF IsOwnRelation, vars, problem
<1>5. records' = records
  BY <1>1 DEF vars, problem
<1>6. QED
  BY <1>1, <1>2, <1>3, <1>4, <1>5 DEF ColoursEarned

LEMMA EarnedStep ==
  ASSUME ReportTypeOK, Sound, Fresh, Earned, [Proceed]_everything
  PROVE  Earned'
<1>1. doc' = doc /\ readings \in [Id -> Reading]
  BY ProceedEvaluates DEF ReportTypeOK
<1>2. CASE ReadProperties \/ ReadTables \/ RecheckCells \/ ReadSignals \/ ReadParameters \/ Evaluate
  <2>1. stage' \in Early
    BY <1>2 DEF ReadProperties, ReadTables, RecheckCells, ReadSignals, ReadParameters, Step,
                Evaluate, Early
  <2>2. QED
    BY <2>1 DEF Earned, RolesEarned, ColoursEarned, ClaimsEarned, VerdictEarned, Early
<1>3. CASE BindInlets
  <2>1. stage' = "derived"
    BY <1>3 DEF BindInlets, Step
  <2>2. QED
    BY <1>1, <1>3, <2>1, RolesEarnedByInlets DEF Earned, ColoursEarned, ClaimsEarned, VerdictEarned
<1>4. CASE Spread \/ EndSpread \/ ColourBlocks \/ ReadClaims \/ Conclude \/ UNCHANGED everything
  <2>1. UNCHANGED roles /\ (backed' # {} => backed # {})
    BY <1>4 DEF Spread, EndSpread, ColourBlocks, ReadClaims, Conclude, Step, everything, sources
  <2>2. stage' \notin Early => stage \notin Early
    BY <1>4 DEF Spread, EndSpread, ColourBlocks, ReadClaims, Conclude, Step, everything, sources,
                Early
  <2>3. RolesEarned'
    BY <1>1, <2>1, <2>2, DocumentKept DEF Earned, RolesEarned, Early
  <2>4. CASE Spread \/ EndSpread
    <3>1. stage' \in {"derived", "blocks"}
      BY <2>4 DEF Spread, EndSpread
    <3>2. QED
      BY <2>3, <3>1 DEF Earned, ColoursEarned, ClaimsEarned, VerdictEarned
  <2>5. CASE ColourBlocks
    <3>1. stage' = "claims"
      BY <2>5 DEF ColourBlocks
    <3>2. QED
      BY <1>1, <2>3, <2>5, <3>1, ColoursEarnedByBlocks DEF Earned, ClaimsEarned, VerdictEarned
  <2>6. CASE ReadClaims \/ Conclude \/ UNCHANGED everything
    <3>1. UNCHANGED <<vars, roles, backed, colour>>
      BY <2>6 DEF ReadClaims, Conclude, Step, everything, sources
    <3>2. \/ stage' = stage
          \/ stage \in {"claims", "verdict"}
      BY <2>6 DEF ReadClaims, Conclude, Step, everything, sources
    <3>3. ColoursEarned'
      <4>1. \A b : ChecksIn(b)' = ChecksIn(b)
        BY <3>1 DEF ChecksIn, Checked, Index, vars, problem
      <4>2. (\A i : IsOwnRelation(i)' = IsOwnRelation(i)) /\ records' = records
        BY <3>1 DEF IsOwnRelation, vars, problem
      <4>3. QED
        BY <1>1, <3>1, <3>2, <4>1, <4>2 DEF Earned, ColoursEarned
    <3>4. CASE ReadClaims
      <4>1. stage' = "verdict"
        BY <3>4 DEF ReadClaims, Step
      <4>2. \A c \in DOMAIN doc.claims : c \in Id => readings'[c] = ClaimRow(doc.claims[c])
        BY <3>4 DEF ReadClaims
      <4>3. DOMAIN doc.claims \subseteq Id
        BY KindsInId2
      <4>4. \A c \in DOMAIN doc.claims :
              MissingQuote(doc, doc.claims[c].quote) => readings'[c].colour = "red"
        <5>1. SUFFICES ASSUME NEW c \in DOMAIN doc.claims, MissingQuote(doc, doc.claims[c].quote)
                       PROVE  readings'[c].colour = "red"
          OBVIOUS
        <5>2. readings'[c] = ClaimRow(doc.claims[c])
          BY <4>2, <4>3
        <5>3. ClaimRow(doc.claims[c]).colour = "red"
          BY <5>1 DEF ClaimRow
        <5>4. QED
          BY <5>2, <5>3
      <4>5. ClaimsEarned' /\ VerdictEarned'
        BY <1>1, <4>1, <4>4 DEF ClaimsEarned, VerdictEarned
      <4>6. QED
        BY <2>3, <3>3, <4>5 DEF Earned
    <3>5. CASE Conclude
      <4>1. readings' = readings /\ stage = "verdict" /\ verdict' = (AuditPass /\ \A id \in Id : readings[id].colour # "red")
        BY <3>5 DEF Conclude
      <4>2. QED
        BY <1>1, <2>3, <3>3, <4>1 DEF Earned, ClaimsEarned, VerdictEarned
    <3>6. CASE UNCHANGED everything
      BY <1>1, <2>3, <3>3, <3>6 DEF Earned, ClaimsEarned, VerdictEarned, everything, sources
    <3>7. QED
      BY <2>6, <3>4, <3>5, <3>6
  <2>7. QED
    BY <1>4, <2>4, <2>5, <2>6
<1>5. QED
  BY <1>2, <1>3, <1>4 DEF Proceed

-----------------------------------------------------------------------------
Invariant == Honest /\ Fresh /\ Grounded /\ Earned

LEMMA BeginInvariant == Begin => Invariant
BY DEF Begin, Invariant, Honest, Fresh, Grounded, Earned, RolesEarned, ColoursEarned, ClaimsEarned,
       VerdictEarned, Early, NoReading, Id

LEMMA InvariantHolds == ReportSpec => []Invariant
<1>1. ReportTypeOK /\ Invariant /\ [Proceed]_everything => Invariant'
  <2> SUFFICES ASSUME ReportTypeOK, Invariant, [Proceed]_everything
               PROVE  Invariant'
    OBVIOUS
  <2>1. Sound
    BY DocumentsAreSound DEF ReportTypeOK
  <2>2. Honest' /\ Fresh' /\ Earned'
    BY <2>1, HonestStep, FreshStep, EarnedStep DEF Invariant
  <2>3. Grounded'
    BY <2>1, <2>2, GroundedStep DEF Invariant
  <2>4. QED
    BY <2>2, <2>3 DEF Invariant
<1>2. QED
  BY <1>1, BeginInvariant, ReportTypeCorrect, PTL DEF ReportSpec

(* For every document and tree, a green derived value goes back to         *)
(* confirmed observations only, and a green block reads a value that goes  *)
(* back to something an original speaks of, in an accepted report          *)
(* something it confirms.                                                  *)
THEOREM GreenIsEarned == ReportSpec => []GreenIsSourced
<1>1. ReportTypeOK /\ Invariant => GreenIsSourced
  <2> SUFFICES ASSUME ReportTypeOK, Invariant, stage = "done"
               PROVE  GreenIsSourced
    BY DEF GreenIsSourced
  <2>1. Sound
    BY DocumentsAreSound DEF ReportTypeOK
  <2>2. GreenIsProven /\ BackedIsTold /\ position = Len(doc.derived)
    BY DEF Invariant, Grounded, Fresh, Early
  <2>3. \A k \in DOMAIN doc.derived : readings[doc.derived[k].var].colour = "green" =>
          Ground(doc.derived[k].var) # {} /\ \A x \in Ground(doc.derived[k].var) : Proven(x)
    BY <2>1, <2>2, KindsInId DEF GreenIsProven
  <2>4. ASSUME NEW b \in Block, colour[b] = "green"
        PROVE  \E i \in Checked :
                 /\ home[i] = b
                 /\ \E r \in doc.reads[i] : \E x \in Ground(r) : Found(x) /\ (verdict => Proven(x))
    <3>1. PICK i \in ChecksIn(b) : doc.reads[i] \cap backed # {}
      BY <2>4 DEF Invariant, Earned, ColoursEarned
    <3>2. i \in Checked /\ home[i] = b /\ i \in DOMAIN records
      BY <3>1 DEF ChecksIn, Checked, Index
    <3>3. PICK r \in doc.reads[i] \cap backed : r \in Signal \cup Parameter
      BY <2>1, <3>1, <3>2 DEF Sound
    <3>4. PICK x \in Ground(r) : Told(x)
      BY <2>2, <3>3 DEF BackedIsTold
    <3>5. x \in DOMAIN doc.signals \/ x \in Parameter
      BY <2>1, <3>4, GroundOfObserved
    <3>6. HonestRow(x, readings[x]) /\ x \in Id
      BY <2>1, <3>5, KindsInId2 DEF Invariant, Honest, HonestAt
    <3>7. verdict => Proven(x)
      BY <3>4, <3>6 DEF Told, HonestRow, Invariant, Earned, VerdictEarned
    <3>8. QED
      BY <3>2, <3>3, <3>4, <3>7 DEF Told
  <2>5. QED
    BY <2>3, <2>4 DEF GreenIsSourced
<1>2. QED
  BY <1>1, InvariantHolds, ReportTypeCorrect, PTL

(* For every document and tree, an accepted report has no quote, cell or   *)
(* row of a table that its original contradicts.                           *)
THEOREM DisagreementsReachVerdict == ReportSpec => []NoDisagreementIsLost
<1>1. ReportTypeOK /\ Invariant => NoDisagreementIsLost
  <2> SUFFICES ASSUME ReportTypeOK, Invariant, stage = "done", verdict
               PROVE  NoDisagreementIsLost
    BY DEF NoDisagreementIsLost
  <2>1. Sound
    BY DocumentsAreSound DEF ReportTypeOK
  <2>2. \A id \in Id : readings[id].colour # "red"
    BY DEF Invariant, Earned, VerdictEarned
  <2>3. \A p \in DOMAIN doc.properties : Stands(doc.properties[p])
    BY <2>1, <2>2, KindsInId, KindsInId2, QuotesAreHonest DEF Invariant, Honest, PropertiesRead
  <2>4. \A t \in DOMAIN doc.tables : doc.tables[t].there => doc.tables[t].key # "strays"
    <3>1. \A t \in DOMAIN doc.tables : TableRow(doc, t).colour # "red"
      BY <2>1, <2>2, KindsInId2 DEF Invariant, Honest, TablesRead
    <3>2. QED
      BY <3>1 DEF TableRow
  <2>5. \A x \in Parameter \cup DOMAIN doc.signals : StandsAt(x)
    BY <2>1, <2>2, KindsInId2 DEF Invariant, Honest, HonestAt, HonestRow
  <2>6. \A c \in DOMAIN doc.claims : ~MissingQuote(doc, doc.claims[c].quote)
    BY <2>1, <2>2, KindsInId2 DEF Invariant, Earned, ClaimsEarned
  <2>7. QED
    BY <2>3, <2>4, <2>5, <2>6 DEF NoDisagreementIsLost
<1>2. QED
  BY <1>1, InvariantHolds, ReportTypeCorrect, PTL

(* For every document and tree, the inlets of the checked components of a  *)
(* green block have a description each.                                    *)
THEOREM DescriptionsStayApart == ReportSpec => []InletsStayApart
<1>1. ReportTypeOK /\ Invariant => InletsStayApart
  <2> SUFFICES ASSUME ReportTypeOK, Invariant, stage = "done",
                      NEW b \in Block, colour[b] = "green", NEW i \in ChecksIn(b), NEW n \in Inlets,
                      IsOwnRelation(i), n.of = records[i].ends[1]
               PROVE  Apart(n)
    BY DEF InletsStayApart
  <2>1. roles[n.of] \notin {"red", "grey"} /\ backed # {}
    BY DEF Invariant, Earned, ColoursEarned
  <2>2. n.of \in Component
    BY RecordType DEF ReportTypeOK, ChecksIn, Checked
  <2>3. QED
    BY <2>1, <2>2 DEF Invariant, Earned, RolesEarned, Early
<1>2. QED
  BY <1>1, InvariantHolds, ReportTypeCorrect, PTL
=============================================================================
