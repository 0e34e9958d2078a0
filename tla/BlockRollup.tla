---------------------------- MODULE BlockRollup ----------------------------
(***************************************************************************)
(* The block tree of a report: HierarchicalAuditRunner._build_report with  *)
(* BlockIndex, BlockScorer, _include_descendants and _refinement_checks    *)
(* (core/hierarchy.py).  Each checked residual is assigned to one block,   *)
(* each block is scored on its own residuals, verdicts and scores are      *)
(* rolled up from the deepest level, and coarse relations are compared     *)
(* with the blocks that refine them.                                       *)
(***************************************************************************)
EXTENDS Records

CONSTANTS
  Block, Component,
  None,          \* no block: no parent, no owner, unassigned
  Interblock,    \* the block named "interblock", or None
  Hierarchies,   \* the block trees considered
  Trails,        \* the sequences of residual occurrences considered
  ScoredRoles,   \* scoring.include_roles without scoring.exclude_roles
  Threshold,     \* solver.audit_threshold
  Score(_)       \* the scoring method, on the sizes of a block's residuals

(* What HierarchySpec validates: levels grow from parent to child, and a   *)
(* block refines only components its parent owns.  A tree is finite, so a  *)
(* set of its blocks has a deepest one.                                    *)
ASSUME HierarchyAssumption ==
  /\ None \notin Block
  /\ Interblock \in Block \cup {None}
  /\ \A h \in Hierarchies :
       /\ h.parent \in [Block -> Block \cup {None}]
       /\ h.level \in [Block -> Nat]
       /\ h.owner \in [Component -> Block \cup {None}]
       /\ h.refines \in [Block -> SUBSET Component]
       /\ \A S \in (SUBSET Block) \ {{}} :
            \E b \in S : \A a \in S : h.level[a] <= h.level[b]
       /\ \A b \in Block :
            /\ h.parent[b] = None => h.refines[b] = {}
            /\ h.parent[b] # None =>
                 /\ h.level[h.parent[b]] < h.level[b]
                 /\ \A c \in h.refines[b] : h.owner[c] = h.parent[b]

(* An occurrence names one component, or the two ends of a connection.     *)
Occurrence ==
  [kind : Kinds, inSolver : BOOLEAN, size : Nat, ends : Component \X Component,
   status : {"checked", "used", "gap"}]

ASSUME RecordAssumption ==
  /\ Threshold \in Nat
  /\ ScoredRoles \subseteq Kinds
  /\ Trails \subseteq Seq(Occurrence)
  /\ \A t \in Trails : \A I \in SUBSET DOMAIN t : Score([i \in I |-> t[i].size]) \in Nat

VARIABLES
  hierarchy,  \* the block tree
  records,    \* the residual occurrences, as the derivation left them
  home,       \* the block of each checked occurrence
  score,      \* the own score of each block
  passes,     \* audit_pass of each block
  subtree,    \* subtree_score of each block
  pending,    \* the blocks the running loop has not visited
  rows,       \* the refinement check of each parent
  pc

problem == <<hierarchy, records>>
vars == <<problem, home, score, passes, subtree, pending, rows, pc>>

Index == DOMAIN records
Checked == {i \in Index : records[i].status = "checked"}
Scored == {i \in Checked : records[i].kind \in ScoredRoles}
Children(b) == {c \in Block : hierarchy.parent[c] = b}
OwnPass(b) == score[b] <= Threshold
Outcomes == {"no row", "unavailable", "consistent", "inconsistent"}

(* The blocks under b, b included: the least set with b and the children   *)
(* of its members.                                                         *)
Closed(S) == \A c \in Block : hierarchy.parent[c] \in S => c \in S
Subtree(b) == {d \in Block : \A S \in SUBSET Block : b \in S /\ Closed(S) => d \in S}
Path(b) == {a \in Block : b \in Subtree(a)}

-----------------------------------------------------------------------------
TypeOK ==
  /\ hierarchy \in Hierarchies
  /\ records \in Trails
  /\ home \in [Index -> Block \cup {None}]
  /\ score \in [Block -> Nat]
  /\ passes \in [Block -> BOOLEAN]
  /\ subtree \in [Block -> Nat]
  /\ pending \subseteq Block
  /\ rows \in [Block -> Outcomes]
  /\ pc \in {"assign", "score", "rollup", "compare", "done"}

Init ==
  /\ hierarchy \in Hierarchies
  /\ records \in Trails
  /\ home = [i \in Index |-> None]
  /\ score = [b \in Block |-> 0]
  /\ passes = [b \in Block |-> TRUE]
  /\ subtree = [b \in Block |-> 0]
  /\ pending = {}
  /\ rows = [b \in Block |-> "no row"]
  /\ pc = "assign"

(* The block of a connection between blocks l and r: their lowest common   *)
(* ancestor, and the block named "interblock" when there is none.          *)
Shared(l, r) == IF None \in {l, r} THEN {} ELSE Path(l) \cap Path(r)

(* Mutant: the highest common ancestor.                                    *)
MeetAtTop(l, r) ==
  IF Shared(l, r) = {} THEN Interblock
  ELSE CHOOSE b \in Shared(l, r) :
         \A a \in Shared(l, r) : hierarchy.level[b] <= hierarchy.level[a]

Meet(l, r) ==
  IF Shared(l, r) = {} THEN Interblock
  ELSE CHOOSE b \in Shared(l, r) :
         \A a \in Shared(l, r) : hierarchy.level[a] <= hierarchy.level[b]

HomeOf(i) ==
  LET end == records[i].ends
  IN  IF records[i].kind = "connection"
      THEN Meet(hierarchy.owner[end[1]], hierarchy.owner[end[2]])
      ELSE hierarchy.owner[end[1]]

Assign ==
  /\ pc = "assign"
  /\ home' = [i \in Index |-> IF i \in Checked THEN HomeOf(i) ELSE None]
  /\ pc' = "score"
  /\ UNCHANGED <<problem, score, passes, subtree, pending, rows>>

(* A block is scored on its own checked residuals of the scored roles; its *)
(* verdict is about itself until its descendants are included.             *)
ScoredIn(b) == {i \in Scored : home[i] = b}

ScoreBlocks ==
  /\ pc = "score"
  /\ score' = [b \in Block |-> Score([i \in ScoredIn(b) |-> records[i].size])]
  /\ passes' = [b \in Block |-> score'[b] <= Threshold]
  /\ subtree' = score'
  /\ pending' = Block
  /\ pc' = "rollup"
  /\ UNCHANGED <<problem, home, rows>>

(* The deepest blocks first.  Mutant: the highest first.                   *)
NextUpwardLast(b) == b \in pending /\ \A c \in pending : hierarchy.level[b] <= hierarchy.level[c]

NextUpward(b) == b \in pending /\ \A c \in pending : hierarchy.level[c] <= hierarchy.level[b]

(* Mutant: the children decide for a block that has any.                   *)
PassesBelow(b) ==
  IF Children(b) = {} THEN OwnPass(b) ELSE \A c \in Children(b) : passes[c]

PassesWithin(b) == OwnPass(b) /\ \A c \in Children(b) : passes[c]

(* Mutant: own scores of the children instead of their subtree scores.     *)
OwnScoresAt(b) == {score[c] : c \in Children(b) \cup {b}}

ScoresAt(b) == {score[b]} \cup {subtree[c] : c \in Children(b)}

RollUp(b) ==
  /\ pc = "rollup"
  /\ NextUpward(b)
  /\ passes' = [passes EXCEPT ![b] = PassesWithin(b)]
  /\ \E s \in ScoresAt(b) :
       /\ \A t \in ScoresAt(b) : t <= s
       /\ subtree' = [subtree EXCEPT ![b] = s]
  /\ pending' = pending \ {b}
  /\ UNCHANGED <<problem, home, score, rows, pc>>

StartComparing ==
  /\ pc = "rollup"
  /\ pending = {}
  /\ pending' = Block
  /\ pc' = "compare"
  /\ UNCHANGED <<problem, home, score, passes, subtree, rows>>

(* The coarse relations a parent's children refine, as far as checked.     *)
Refining(p) == {c \in Children(p) : hierarchy.refines[c] # {}}
Coarse(p) == UNION {hierarchy.refines[c] : c \in Refining(p)}
IsOwnRelation(i) == records[i].kind \notin {"connection", "boundary", "assumption"}

(* Mutant of CoarseChecks: consumed relations are compared too.            *)
CoarseRelations(p) ==
  {i \in Index : /\ records[i].kind \in ScoredRoles
                 /\ IsOwnRelation(i) /\ records[i].ends[1] \in Coarse(p)}

CoarseChecks(p) == {i \in Scored : IsOwnRelation(i) /\ records[i].ends[1] \in Coarse(p)}

Row(p) ==
  LET coarsePass == \A i \in CoarseChecks(p) : records[i].size <= Threshold
      childrenPass == \A c \in Refining(p) : passes[c]
  IN  IF Refining(p) = {} THEN "no row"
      ELSE IF CoarseChecks(p) = {} THEN "unavailable"
      ELSE IF coarsePass \/ ~childrenPass THEN "consistent" ELSE "inconsistent"

Compare(p) ==
  /\ pc = "compare"
  /\ p \in pending
  /\ rows' = [rows EXCEPT ![p] = Row(p)]
  /\ pending' = pending \ {p}
  /\ UNCHANGED <<problem, home, score, passes, subtree, pc>>

Finish ==
  /\ pc = "compare"
  /\ pending = {}
  /\ pc' = "done"
  /\ UNCHANGED <<problem, home, score, passes, subtree, pending, rows>>

Next ==
  \/ Assign
  \/ ScoreBlocks
  \/ \E b \in Block : RollUp(b)
  \/ StartComparing
  \/ \E p \in Block : Compare(p)
  \/ Finish

Spec == Init /\ [][Next]_vars

-----------------------------------------------------------------------------
RolledUp == pc \in {"compare", "done"}

(* The verdict of a block is its own and that of every block below it, at  *)
(* any depth and whatever levels the tree skips, and its subtree_score is  *)
(* the largest own score found there.                                      *)
SubtreeVerdict ==
  RolledUp => \A b \in Block :
    /\ passes[b] <=> \A d \in Subtree(b) : OwnPass(d)
    /\ \A d \in Subtree(b) : score[d] <= subtree[b]
    /\ \E d \in Subtree(b) : subtree[b] = score[d]

(* A connection belongs to the smallest subtree that holds both its ends;  *)
(* it leaves the tree only when no subtree does.                           *)
Holds(b, i) ==
  LET end == records[i].ends
  IN  hierarchy.owner[end[1]] \in Subtree(b) /\ hierarchy.owner[end[2]] \in Subtree(b)
SmallestHome ==
  pc # "assign" => \A i \in Checked : records[i].kind = "connection" =>
    IF \E b \in Block : Holds(b, i)
    THEN home[i] # None /\ Holds(home[i], i) /\ \A c \in Children(home[i]) : ~Holds(c, i)
    ELSE home[i] = Interblock

(* No failure is lost or invented on its way up: under a scoring method    *)
(* that passes exactly when every residual does, a root fails when and     *)
(* only when a checked residual of a scored role and an assigned block is  *)
(* beyond the threshold.                                                   *)
RootsMirrorRecords ==
  RolledUp =>
    ((\E b \in Block : hierarchy.parent[b] = None /\ ~passes[b])
       <=> \E i \in Scored : home[i] # None /\ records[i].size > Threshold)

(* The tree and the audit may disagree, and only for these reasons: a      *)
(* passing tree does not show residuals that no block owns or scores, a    *)
(* passing audit does not show residuals outside the solver roles.         *)
AuditPass == \A i \in Checked : Participates(records[i]) => records[i].size <= Threshold
TreePass == \A b \in Block : hierarchy.parent[b] = None => passes[b]
DisagreementsAreExplained ==
  RolledUp /\ AuditPass # TreePass =>
    \E i \in Checked : /\ records[i].size > Threshold
                       /\ IF TreePass
                          THEN home[i] = None \/ records[i].kind \notin ScoredRoles
                          ELSE ~Participates(records[i])

(* A refinement is called inconsistent exactly when a checked coarse       *)
(* relation fails while nothing below any refining child does; a relation  *)
(* consumed by the derivation is no evidence for or against it.            *)
InconsistencyIsReal ==
  pc = "done" => \A p \in Block :
    rows[p] = "inconsistent" <=>
      /\ \E c \in Block : hierarchy.parent[c] = p /\ hierarchy.refines[c] # {}
      /\ \A c \in Block : hierarchy.parent[c] = p /\ hierarchy.refines[c] # {} =>
           \A d \in Subtree(c) : OwnPass(d)
      /\ \E i \in Checked, c \in Block :
           /\ hierarchy.parent[c] = p
           /\ records[i].ends[1] \in hierarchy.refines[c]
           /\ records[i].kind \in ScoredRoles \ {"connection", "boundary", "assumption"}
           /\ records[i].size > Threshold

=============================================================================
