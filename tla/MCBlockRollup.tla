--------------------------- MODULE MCBlockRollup ---------------------------
(***************************************************************************)
(* Instances of BlockRollup for TLC: trees over four blocks with levels     *)
(* that may skip, two owned components and a stray one.                    *)
(***************************************************************************)
EXTENDS BlockRollup, FiniteSetsExt, TLC

CONSTANTS top, left, right, deep, x, y, stray

MCBlock == {top, left, right, deep}
MCComponent == {x, y, stray}
MCScoredRoles == Kinds \ {"post_check", "assumption"}

(* A chain, forks whose levels skip, and second roots; listed by the       *)
(* parents and the levels of left, right and deep.                         *)
Tree(p, l) ==
  [parent |-> top :> None @@ left :> p[1] @@ right :> p[2] @@ deep :> p[3],
   level |-> top :> 0 @@ left :> l[1] @@ right :> l[2] @@ deep :> l[3]]
Trees == {Tree(<<top, left, right>>, <<1, 2, 3>>),
          Tree(<<top, top, left>>, <<1, 3, 2>>),
          Tree(<<top, top, right>>, <<3, 1, 2>>),
          Tree(<<top, None, left>>, <<1, 0, 3>>),
          Tree(<<None, top, right>>, <<0, 1, 2>>)}
Owners == {o \in [MCComponent -> MCBlock \cup {None}] :
             o[x] \in {top, left} /\ o[y] \in {left, right, deep} /\ o[stray] = None}
Refines(t, o) ==
  [b \in MCBlock |-> IF t.parent[b] = None THEN {} ELSE {c \in MCComponent : o[c] = t.parent[b]}]
MCHierarchies ==
  {[parent |-> t.parent, level |-> t.level, owner |-> o, refines |-> Refines(t, o)] :
     t \in Trees, o \in Owners}

Of(kind, component, size) ==
  [kind |-> kind, inSolver |-> kind = "equation", size |-> size,
   ends |-> <<component, component>>, status |-> "checked"]
Join(from, to, size) ==
  [kind |-> "connection", inSolver |-> TRUE, size |-> size,
   ends |-> <<from, to>>, status |-> "checked"]
Left(record, status) == [record EXCEPT !.status = status]

(* One coarse relation in any state, one connection, and one record that   *)
(* tests a role, an owner or a second failure.                             *)
First == {Of("equation", x, 0), Of("equation", x, 2), Left(Of("equation", x, 2), "used")}
Second == {Join(x, y, 0), Join(x, y, 2), Join(y, stray, 2), Left(Join(x, y, 2), "gap")}
Third == {Of("equation", y, 1), Of("equation", y, 3), Of("soft_check", y, 2),
          Of("post_check", y, 2), Of("assumption", y, 2), Of("boundary", stray, 2)}
MCTrails == {<<p, q, r>> : p \in First, q \in Second, r \in Third}

MCScore(sizes) == IF DOMAIN sizes = {} THEN 0 ELSE Max({sizes[i] : i \in DOMAIN sizes})

=============================================================================
