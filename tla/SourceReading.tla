---------------------------- MODULE SourceReading ----------------------------
(***************************************************************************)
(* What a snapshot says of its sources, and what rereading them shows      *)
(* (io/source_reading.py).  Properties, variables and parameters quote an  *)
(* original file, or name a cell of a CSV file.  Each gets a row: green    *)
(* when the original says the same, red when it does not or has no such    *)
(* quote, grey when nothing can be told.  Inlets of a mixer are bound to   *)
(* the clauses of the text that describe them.                             *)
(*                                                                         *)
(* A number is what comparing it with the original shows, a text is the    *)
(* clauses it has and where a quote occurs in them.  A row of a quoted     *)
(* table is a clause of its own.                                           *)
(***************************************************************************)
EXTENDS Naturals, Sequences, FiniteSets

CONSTANTS
  File,      \* originals and CSV files, each also the row of its row key
  Property,  \* declared physical properties
  Signal,    \* variables of the model
  Parameter, \* numeric parameters of the model
  Claim,     \* references of the question
  Clause,    \* clauses of the originals that describe an inlet
  Entity,    \* names of inlets
  NoEntity,  \* no name, or more than one
  Inlets     \* the inlets of the model: which component reads which variables

Id == File \cup Property \cup Signal \cup Parameter \cup Claim

Colours == {"none", "grey", "green", "red"}  \* "none": no row
Reading == [colour : Colours, from : SUBSET File, located : BOOLEAN]
NoReading == [colour |-> "none", from |-> {}, located |-> FALSE]

Texts == {"none", "absent", "unreadable", "agrees", "disagrees"}
Quote == [from : File, text : Texts, spots : SUBSET SUBSET Clause]
Cell == [table : File, calibrated : BOOLEAN, sameUnit : BOOLEAN, equal : BOOLEAN,
         hasUnit : BOOLEAN, slips : BOOLEAN, checked : BOOLEAN]
Binding == [quote : Quote, linked : BOOLEAN, via : SUBSET Property, cells : SUBSET Cell]
Table == [there : BOOLEAN, key : {"none", "fits", "strays"}]

(* Derivations in their order, as Derivation leaves them: from observed    *)
(* and earlier derived values (Provenance), each variable once.            *)
WellOrdered(derived, observed) ==
  \A k \in DOMAIN derived :
    /\ derived[k].var \in Signal \ observed
    /\ derived[k].deps \subseteq observed \cup {derived[j].var : j \in 1 .. k - 1}
    /\ \A j \in 1 .. k - 1 : derived[j].var # derived[k].var

WellQuoted(d, q) ==
  q \in Quote /\ \A s \in q.spots : \A c \in s : d.clauses[c].from = q.from

WellFormed(d) ==
  /\ d.sources \subseteq File
  /\ \A t \in DOMAIN d.tables : t \in File \ d.sources /\ d.tables[t] \in Table
  /\ \A p \in DOMAIN d.properties : p \in Property /\ WellQuoted(d, d.properties[p])
  /\ \A v \in DOMAIN d.signals :
       /\ v \in Signal /\ d.signals[v] \in Binding
       /\ WellQuoted(d, d.signals[v].quote)
       /\ d.signals[v].via \subseteq DOMAIN d.properties
       /\ \A c, e \in d.signals[v].cells :
            c = e /\ c.table \in DOMAIN d.tables /\ (c.hasUnit \/ c.sameUnit)
  /\ d.parameters \in [Parameter -> Quote]
  /\ d.clauses \in [Clause -> [from : File, entity : Entity]]
  /\ \A c \in DOMAIN d.claims : c \in Claim /\ WellQuoted(d, d.claims[c].quote)
  /\ d.derived \in Seq([var : Signal, deps : SUBSET Signal])
  /\ WellOrdered(d.derived, DOMAIN d.signals)

ASSUME SourceAssumption ==
  /\ NoEntity \notin File \X Entity
  /\ File \cap (Property \cup Signal \cup Parameter \cup Claim) = {}
  /\ Property \cap (Signal \cup Parameter \cup Claim) = {}
  /\ Signal \cap (Parameter \cup Claim) = {} /\ Parameter \cap Claim = {}
  /\ \A n \in Inlets : n.reads \in (SUBSET Signal) \ {{}}
  /\ \A n, m \in Inlets : n = m \/ n.reads \cap m.reads = {}

-----------------------------------------------------------------------------
(* A quote is missing when its source is not declared or has no such span. *)
MissingQuote(d, q) == q.from \notin d.sources \/ q.text \in {"none", "absent"}

QuoteRow(d, q) ==
  IF q.text = "none" THEN [colour |-> "grey", from |-> {}, located |-> TRUE]
  ELSE [colour |-> IF ~MissingQuote(d, q) /\ q.text = "unreadable" THEN "grey"
                   ELSE IF ~MissingQuote(d, q) /\ q.text = "agrees" THEN "green"
                   ELSE "red",
        from |-> {q.from} \cap d.sources,
        located |-> ~MissingQuote(d, q)]

(* A reading of another quantity is converted by declared properties; one  *)
(* that no original confirms makes it no evidence.                         *)
Confirmed(binding, readings) ==
  \/ ~binding.linked
  \/ binding.via # {} /\ \A p \in binding.via : readings[p].colour = "green"

SignalRow(d, v, readings) ==
  LET row == QuoteRow(d, d.signals[v].quote)
  IN  IF row.colour = "green" /\ ~Confirmed(d.signals[v], readings)
      THEN [row EXCEPT !.colour = "grey"] ELSE row

(* The row of a CSV file, and of a cell read again from it.                *)
TableRow(d, t) ==
  IF ~d.tables[t].there THEN NoReading
  ELSE [colour |-> CASE d.tables[t].key = "none" -> "grey"
                     [] d.tables[t].key = "fits" -> "green"
                     [] OTHER -> "red",
        from |-> {t}, located |-> TRUE]

CellOf(d, v) == CHOOSE c \in d.signals[v].cells : TRUE

CellRow(d, c) ==
  IF ~d.tables[c.table].there THEN [colour |-> "grey", from |-> {}, located |-> TRUE]
  ELSE [colour |-> IF c.calibrated /\ c.equal THEN "grey"
                   ELSE IF ~c.sameUnit \/ ~c.equal THEN "red"
                   ELSE IF c.hasUnit THEN "green" ELSE "grey",
        from |-> {c.table}, located |-> TRUE]

(* After the conversion: the value asserted for the cell may be another    *)
(* one, and a conversion that was not checked is no evidence.              *)
(* Mutant: the unchecked conversion also excuses what disagrees.           *)
RecheckLeniently(d, c, row) ==
  LET slipped == IF c.slips /\ d.tables[c.table].there THEN [row EXCEPT !.colour = "red"] ELSE row
  IN  IF ~c.checked THEN [slipped EXCEPT !.colour = "grey"] ELSE slipped

Recheck(d, c, row) ==
  LET slipped == IF c.slips /\ d.tables[c.table].there THEN [row EXCEPT !.colour = "red"] ELSE row
  IN  IF ~c.checked /\ slipped.colour = "green" THEN [slipped EXCEPT !.colour = "grey"] ELSE slipped

-----------------------------------------------------------------------------
(* The inlets a quote can be about.  Wherever it occurs it must be within  *)
(* one clause, and no second clause may describe an inlet of that name.    *)
Entities(d, q) ==
  LET within == {c \in UNION q.spots : \A e \in Clause : d.clauses[e] = d.clauses[c] => e = c}
  IN  IF MissingQuote(d, q) \/ \E s \in q.spots : Cardinality(s) # 1 THEN {}
      ELSE {<<q.from, d.clauses[c].entity>> : c \in within}

Identity(d, v) ==
  LET found == IF v \in DOMAIN d.signals THEN Entities(d, d.signals[v].quote) ELSE {}
  IN  IF \E e \in found : found = {e} THEN CHOOSE e \in found : TRUE ELSE NoEntity

(* One inlet: its readings agree and belong to one description.            *)
Bound(d, readings, inlet) ==
  LET identities == {Identity(d, v) : v \in inlet.reads}
  IN  IF \E v \in inlet.reads : readings[v].colour = "red" THEN "red"
      ELSE IF NoEntity \in identities \/ \E a, b \in identities : a[1] # b[1] THEN "grey"
      ELSE IF \E a, b \in identities : a # b THEN "red"
      ELSE "green"

(* Two inlets of a component: no description is counted twice.             *)
(* Mutant: inlets are judged one by one.                                   *)
InletAlone(d, readings, inlet) == Bound(d, readings, inlet)

InletColour(d, readings, inlet) ==
  IF /\ Bound(d, readings, inlet) = "green"
     /\ \E other \in Inlets \ {inlet} :
          /\ other.of = inlet.of /\ Bound(d, readings, other) = "green"
          /\ \E v \in inlet.reads, w \in other.reads : Identity(d, v) = Identity(d, w)
  THEN "red" ELSE Bound(d, readings, inlet)

Worst(colours) ==
  IF "red" \in colours THEN "red"
  ELSE IF "grey" \in colours THEN "grey"
  ELSE IF "green" \in colours THEN "green" ELSE "none"

(* Roles are looked at when any file was read.                             *)
AnyFile(d) == d.sources # {} \/ \E t \in DOMAIN d.tables : d.tables[t].there

RoleOf(d, readings, component) ==
  Worst({InletColour(d, readings, n) : n \in {n \in Inlets : n.of = component /\ AnyFile(d)}})

(* The row of a reading after its inlet has been looked at.                *)
BoundRow(d, readings, v) ==
  LET role == Worst({InletColour(d, readings, n) : n \in {n \in Inlets : v \in n.reads /\ AnyFile(d)}})
  IN  IF role \in {"red", "grey"} /\ readings[v].colour \notin {"none", "red"}
      THEN [readings[v] EXCEPT !.colour = role] ELSE readings[v]

=============================================================================
