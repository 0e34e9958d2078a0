---------------------------- MODULE SourceReport ----------------------------
(***************************************************************************)
(* The report of an observed evaluation with its sources: readings are     *)
(* checked while the snapshot is loaded (io/source_reading.py), the block  *)
(* tree is made (BlockRollup), and then the blocks get a colour from what  *)
(* their checked relations read (_attach_source_report in                  *)
(* core/hierarchy.py).                                                     *)
(*                                                                         *)
(* The derivation is taken at its word: derived values come from observed  *)
(* and earlier derived ones (Provenance of Derivation).                    *)
(***************************************************************************)
EXTENDS BlockRollup, SourceReading

CONSTANT
  Documents(_, _)  \* the snapshots considered for a tree and its records

(* A document also says what each occurrence reads at the final values,    *)
(* as far as that was traced, and the component a claim is about.          *)
ASSUME DocumentAssumption ==
  /\ \A h \in Hierarchies, t \in Trails : \A d \in Documents(h, t) :
       /\ WellFormed(d)
       /\ d.reads \in [DOMAIN t -> SUBSET (Signal \cup Parameter)]
       /\ \A c \in DOMAIN d.claims : d.claims[c].about \in Component

VARIABLES
  doc,      \* the snapshot
  readings, \* the row of each reading
  roles,    \* the colour of each component's inlets
  backed,   \* what a source says, or what is derived from that
  position, \* the derivations whose rows are made
  colour,   \* the colour of each block
  verdict,  \* audit_pass of the report
  stage

sources == <<doc, readings, roles, backed, position, colour, verdict, stage>>
everything == <<vars, sources>>

Stages == {"properties", "tables", "cells", "signals", "parameters", "tree", "inlets",
           "derived", "blocks", "claims", "verdict", "done"}

ReportTypeOK ==
  /\ TypeOK
  /\ doc \in Documents(hierarchy, records)
  /\ readings \in [Id -> Reading]
  /\ roles \in [Component -> Colours]
  /\ backed \subseteq Id
  /\ position \in 0 .. Len(doc.derived)
  /\ colour \in [Block -> Colours]
  /\ verdict \in BOOLEAN
  /\ stage \in Stages

Begin ==
  /\ Init
  /\ doc \in Documents(hierarchy, records)
  /\ readings = [id \in Id |-> NoReading]
  /\ roles = [c \in Component |-> "none"]
  /\ backed = {}
  /\ position = 0
  /\ colour = [b \in Block |-> "none"]
  /\ verdict = FALSE
  /\ stage = "properties"

(* A part of the report is made and the next one begins.                   *)
Step(at, then) ==
  /\ stage = at
  /\ stage' = then
  /\ UNCHANGED <<vars, doc, position, colour, verdict>>

-----------------------------------------------------------------------------
(* Loading.  Rows of properties come first, as readings are converted by   *)
(* them; then those of the CSV files and their cells, which are judged     *)
(* again after the conversion; then those of all other variables.          *)
ReadProperties ==
  /\ Step("properties", "tables")
  /\ readings' = [id \in Id |->
       IF id \in DOMAIN doc.properties THEN QuoteRow(doc, doc.properties[id]) ELSE readings[id]]
  /\ UNCHANGED <<roles, backed>>

ReadTables ==
  /\ Step("tables", "cells")
  /\ readings' = [id \in Id |->
       IF id \in DOMAIN doc.tables THEN TableRow(doc, id)
       ELSE IF id \in DOMAIN doc.signals /\ doc.signals[id].cells # {}
            THEN CellRow(doc, CellOf(doc, id)) ELSE readings[id]]
  /\ UNCHANGED <<roles, backed>>

RecheckCells ==
  /\ Step("cells", "signals")
  /\ readings' = [id \in Id |->
       IF id \in DOMAIN doc.signals /\ doc.signals[id].cells # {}
       THEN Recheck(doc, CellOf(doc, id), readings[id]) ELSE readings[id]]
  /\ UNCHANGED <<roles, backed>>

ReadSignals ==
  /\ Step("signals", "parameters")
  /\ readings' = [id \in Id |->
       IF id \in DOMAIN doc.signals /\ doc.signals[id].cells = {}
       THEN SignalRow(doc, id, readings) ELSE readings[id]]
  /\ UNCHANGED <<roles, backed>>

(* The parameters of the model, quoted or not.                             *)
ReadParameters ==
  /\ Step("parameters", "tree")
  /\ readings' = [id \in Id |->
       IF id \in Parameter THEN QuoteRow(doc, doc.parameters[id]) ELSE readings[id]]
  /\ UNCHANGED <<roles, backed>>

(* The evaluation of the block tree.                                       *)
Evaluate ==
  /\ stage = "tree"
  /\ Next
  /\ stage' = IF pc' = "done" THEN "inlets" ELSE stage
  /\ UNCHANGED <<doc, readings, roles, backed, position, colour, verdict>>

-----------------------------------------------------------------------------
(* What a file says, be it what the snapshot says or not.                  *)
(* Mutant: any row is evidence.                                            *)
Shown(rs) == {id \in Id : rs[id].colour # "none"}

Spoken(rs) == {id \in Id : rs[id].colour \in {"green", "red"} /\ rs[id].from # {} /\ rs[id].located}

BindInlets ==
  /\ Step("inlets", "derived")
  /\ readings' = [id \in Id |->
       IF id \in Signal THEN BoundRow(doc, readings, id) ELSE readings[id]]
  /\ roles' = [c \in Component |-> RoleOf(doc, readings, c)]
  /\ backed' = Spoken(readings')

(* The next derived value: evidence when one of the values it was derived  *)
(* from is, green when all of them are.                                    *)
(* Mutant: green when one of them is.                                      *)
AnyGreen(deps) == \E v \in deps : readings[v].colour = "green"

AllGreen(deps) ==
  /\ \A v \in deps : readings[v].colour = "green"
  /\ \E v \in deps : readings[v].from # {}

Spread ==
  /\ stage = "derived"
  /\ position < Len(doc.derived)
  /\ LET next == doc.derived[position + 1]
         row == [colour |-> IF AllGreen(next.deps) THEN "green" ELSE "grey",
                 from |-> UNION {readings[v].from : v \in next.deps}, located |-> TRUE]
     IN  /\ readings' = [readings EXCEPT ![next.var] = row]
         /\ backed' = backed \cup {v \in {next.var} : next.deps \cap backed # {}}
  /\ position' = position + 1
  /\ UNCHANGED <<vars, doc, roles, colour, verdict, stage>>

EndSpread ==
  /\ stage = "derived"
  /\ position = Len(doc.derived)
  /\ stage' = "blocks"
  /\ UNCHANGED <<vars, doc, readings, roles, backed, position, colour, verdict>>

(* The colour of a block: physics first, then the inlets of its checked    *)
(* components, then whether a checked relation reads evidence.  Nothing is *)
(* traced when there is no evidence.  The code looks checked residuals up  *)
(* by name.  Only a connection or a boundary declared twice repeats one,   *)
(* with the same ends, so the same home and the same reads as its double.  *)
ChecksIn(b) == {i \in Checked : home[i] = b}
TracedIn(b) == IF backed = {} THEN {} ELSE ChecksIn(b)
RolesIn(b) == {roles[records[i].ends[1]] : i \in {i \in TracedIn(b) : IsOwnRelation(i)}}

(* Mutant: inlets do not matter when a relation reads evidence.            *)
BlockByReads(b) ==
  IF ChecksIn(b) # {} /\ ~OwnPass(b) THEN "red"
  ELSE IF \E i \in TracedIn(b) : doc.reads[i] \cap backed # {} THEN "green"
  ELSE Worst(RolesIn(b) \cup {"grey"})

BlockColour(b) ==
  IF ChecksIn(b) # {} /\ ~OwnPass(b) THEN "red"
  ELSE IF RolesIn(b) \cap {"red", "grey"} # {} THEN Worst(RolesIn(b))
  ELSE IF \E i \in TracedIn(b) : doc.reads[i] \cap backed # {} THEN "green"
  ELSE "grey"

ColourBlocks ==
  /\ stage = "blocks"
  /\ colour' = [b \in Block |-> BlockColour(b)]
  /\ stage' = "claims"
  /\ UNCHANGED <<vars, doc, readings, roles, backed, position, verdict>>

(* A claim is a reference: wrong when its quote or its block is, and never *)
(* right.                                                                  *)
ClaimRow(claim) ==
  LET block == hierarchy.owner[claim.about]
  IN  [colour |-> IF MissingQuote(doc, claim.quote) \/ (block # None /\ colour[block] = "red")
                  THEN "red" ELSE "grey",
       from |-> {claim.quote.from} \cap doc.sources, located |-> ~MissingQuote(doc, claim.quote)]

ReadClaims ==
  /\ Step("claims", "verdict")
  /\ readings' = [id \in Id |->
       IF id \in DOMAIN doc.claims THEN ClaimRow(doc.claims[id]) ELSE readings[id]]
  /\ UNCHANGED <<roles, backed>>

Conclude ==
  /\ stage = "verdict"
  /\ verdict' = (AuditPass /\ \A id \in Id : readings[id].colour # "red")
  /\ stage' = "done"
  /\ UNCHANGED <<vars, doc, readings, roles, backed, position, colour>>

Proceed ==
  \/ ReadProperties
  \/ ReadTables
  \/ RecheckCells
  \/ ReadSignals
  \/ ReadParameters
  \/ Evaluate
  \/ BindInlets
  \/ Spread
  \/ EndSpread
  \/ ColourBlocks
  \/ ReadClaims
  \/ Conclude

ReportSpec == Begin /\ [][Proceed]_everything

-----------------------------------------------------------------------------
(* What a value goes back to: the least set with the value and whatever    *)
(* the derived ones among its members were derived from, as far as it was  *)
(* observed or is a parameter.                                             *)
Backwards ==
  {S \in SUBSET Signal :
     \A k \in DOMAIN doc.derived : doc.derived[k].var \in S => doc.derived[k].deps \subseteq S}
Ground(x) ==
  IF x \in Parameter THEN {x}
  ELSE {v \in DOMAIN doc.signals : \A S \in Backwards : x \in S => v \in S}

(* What the originals have for a reading, and whether it is the same.      *)
Agrees(q) == q.from \in doc.sources /\ q.text = "agrees"
Found(x) ==
  IF x \in Parameter THEN ~MissingQuote(doc, doc.parameters[x])
  ELSE IF doc.signals[x].cells # {} THEN doc.tables[CellOf(doc, x).table].there
  ELSE ~MissingQuote(doc, doc.signals[x].quote)
Proven(x) ==
  IF x \in Parameter THEN Agrees(doc.parameters[x])
  ELSE IF doc.signals[x].cells # {}
       THEN LET c == CellOf(doc, x)
            IN  /\ doc.tables[c.table].there
                /\ c.sameUnit /\ c.equal /\ c.hasUnit /\ c.checked /\ ~c.slips
       ELSE /\ Agrees(doc.signals[x].quote)
            /\ doc.signals[x].linked =>
                 /\ doc.signals[x].via # {}
                 /\ \A p \in doc.signals[x].via : Agrees(doc.properties[p])

(* Green is earned from originals.  A derived value is green only when     *)
(* every observation it goes back to, through any number of derivations,   *)
(* was found in an original that says the same.  A green block has a       *)
(* checked relation that reads a value which goes back to something an     *)
(* original speaks of, in an accepted report something it confirms.        *)
GreenIsSourced ==
  stage = "done" =>
    /\ \A k \in DOMAIN doc.derived :
         LET v == doc.derived[k].var
         IN  readings[v].colour = "green" => Ground(v) # {} /\ \A x \in Ground(v) : Proven(x)
    /\ \A b \in Block : colour[b] = "green" =>
         \E i \in Checked :
           /\ home[i] = b
           /\ \E r \in doc.reads[i] : \E x \in Ground(r) : Found(x) /\ (verdict => Proven(x))

(* No disagreement with an original is lost on the way to the verdict: an  *)
(* accepted report has no quote that is missing or says something else, no *)
(* cell and no row of a table that is not the one asserted.                *)
Stands(q) == q.text = "none" \/ (q.from \in doc.sources /\ q.text \in {"unreadable", "agrees"})
StandsAt(x) ==
  IF x \in Parameter THEN Stands(doc.parameters[x])
  ELSE IF doc.signals[x].cells = {} THEN Stands(doc.signals[x].quote)
  ELSE LET c == CellOf(doc, x)
       IN  doc.tables[c.table].there => c.equal /\ ~c.slips /\ (c.sameUnit \/ c.calibrated)
NoDisagreementIsLost ==
  stage = "done" /\ verdict =>
    /\ \A p \in DOMAIN doc.properties : Stands(doc.properties[p])
    /\ \A t \in DOMAIN doc.tables : doc.tables[t].there => doc.tables[t].key # "strays"
    /\ \A x \in Parameter \cup DOMAIN doc.signals : StandsAt(x)
    /\ \A c \in DOMAIN doc.claims : ~MissingQuote(doc, doc.claims[c].quote)

(* A green block mixes what the text describes: the readings of each inlet *)
(* of its checked components are from one description, the only one of its *)
(* name, and those of another inlet are not.                               *)
Described(v) ==
  IF v \notin DOMAIN doc.signals THEN {}
  ELSE {c \in UNION doc.signals[v].quote.spots :
          \A e \in Clause : doc.clauses[e] = doc.clauses[c] => e = c}
Apart(n) ==
  \E c \in Clause :
    /\ \A v \in n.reads : Described(v) = {c}
    /\ \A m \in Inlets \ {n} : m.of = n.of => \A w \in m.reads : Described(w) # {c}
InletsStayApart ==
  stage = "done" => \A b \in Block : colour[b] = "green" =>
    \A i \in ChecksIn(b) : \A n \in Inlets :
      IsOwnRelation(i) /\ n.of = records[i].ends[1] => Apart(n)

=============================================================================
