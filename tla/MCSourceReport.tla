--------------------------- MODULE MCSourceReport ---------------------------
(***************************************************************************)
(* Instances of SourceReport for TLC: the trees and records of             *)
(* MCBlockRollup.  Component x has two inlets of two readings each; the    *)
(* other values are derived from them in one and two steps, and from a     *)
(* cell.  One tree has every document that is off in at most two parts,    *)
(* the others the document in which all is well.                           *)
(***************************************************************************)
EXTENDS SourceReport, MCBlockRollup

MCFile == {"text", "other", "table"}
MCProperty == {"density"}
Readings == {"m1", "t1", "m2", "t2", "cell"}
MCSignal == Readings \cup {"sum", "far"}
MCParameter == {"k"}
MCClaim == {"claim"}
MCClause == {"A", "B", "C"}
MCEntity == {"a", "b", "c"}
MCInlets == {[of |-> x, reads |-> {"m1", "t1"}], [of |-> x, reads |-> {"m2", "t2"}]}

Says(text, spots) == [from |-> "text", text |-> text, spots |-> spots]
Unquoted == Says("none", {})
In(clause) == Says("agrees", {{clause}})
Direct(quote) == [quote |-> quote, linked |-> FALSE, via |-> {}, cells |-> {}]
Clean ==
  [table |-> "table", calibrated |-> FALSE, sameUnit |-> TRUE, equal |-> TRUE,
   hasUnit |-> TRUE, slips |-> FALSE, checked |-> TRUE]

Well ==
  [sources |-> {"text", "other"},
   tables |-> "table" :> [there |-> TRUE, key |-> "fits"],
   properties |-> "density" :> Says("agrees", {}),
   signals |-> "m1" :> [Direct(In("A")) EXCEPT !.linked = TRUE, !.via = {"density"}]
               @@ "t1" :> Direct(In("A")) @@ "m2" :> Direct(In("B")) @@ "t2" :> Direct(In("B"))
               @@ "cell" :> [Direct(Unquoted) EXCEPT !.cells = {Clean}],
   parameters |-> "k" :> Unquoted,
   clauses |-> "A" :> [from |-> "text", entity |-> "a"] @@ "B" :> [from |-> "text", entity |-> "b"]
               @@ "C" :> [from |-> "text", entity |-> "c"],
   claims |-> "claim" :> [quote |-> Says("agrees", {}), about |-> y],
   derived |-> <<[var |-> "sum", deps |-> {"m1", "m2"}], [var |-> "far", deps |-> {"sum", "cell"}]>>,
   reads |-> <<{"m1", "t1", "m2", "t2", "sum"}, {"sum", "far"}, {"far", "k"}>>]

(* The ways each part can be off.                                          *)
Quoted(d, v, q) == [d EXCEPT !.signals[v].quote = q]
OffQuote(d) ==
  {Quoted(d, "m1", Says(t, IF t \in {"none", "absent"} THEN {} ELSE {{"A"}})) :
     t \in Texts \ {"agrees"}}
  \cup {Quoted(d, "m1", [In("A") EXCEPT !.from = "table", !.text = "absent", !.spots = {}])}
OffPlace(d) ==
  {Quoted(d, "t1", Says("agrees", s)) :
     s \in {{}, {{"B"}}, {{"A"}, {"B"}}, {{"A"}, {"C"}}, {{"A", "C"}}, {{"A"}, {}}}}
  \cup {[d EXCEPT !.clauses["C"] = [from |-> "text", entity |-> "a"]],
        [Quoted(d, "t1", [In("C") EXCEPT !.from = "other"])
           EXCEPT !.clauses["C"] = [from |-> "other", entity |-> "a"]],
        Quoted(Quoted(d, "m2", In("A")), "t2", In("A"))}
OffProperty(d) ==
  {[d EXCEPT !.properties["density"].text = t] : t \in {"none", "disagrees"}}
  \cup {[d EXCEPT !.signals["m1"].via = {}], [d EXCEPT !.signals["m1"].linked = FALSE]}
OffCell(d) ==
  {[d EXCEPT !.signals["cell"].cells = {c}] : c \in
     {[Clean EXCEPT !.calibrated = TRUE, !.checked = FALSE],
      [Clean EXCEPT !.calibrated = TRUE, !.checked = FALSE, !.equal = FALSE],
      [Clean EXCEPT !.sameUnit = FALSE], [Clean EXCEPT !.equal = FALSE],
      [Clean EXCEPT !.hasUnit = FALSE], [Clean EXCEPT !.slips = TRUE],
      [Clean EXCEPT !.slips = TRUE, !.checked = FALSE], [Clean EXCEPT !.checked = FALSE]}}
OffTable(d) ==
  {[d EXCEPT !.tables["table"] = t] : t \in Table \ {d.tables["table"]}}
OffRest(d) ==
  {[d EXCEPT !.parameters["k"].text = t] : t \in {"agrees", "disagrees", "unreadable"}}
  \cup {[d EXCEPT !.claims["claim"].quote.text = "absent"],
        [d EXCEPT !.claims["claim"].about = stray],
        [d EXCEPT !.sources = {}]}
OffDerivation(d) ==
  {[d EXCEPT !.derived = s] : s \in
     {<<>>, <<[var |-> "far", deps |-> {}]>>,
      <<[var |-> "far", deps |-> {"cell"}], [var |-> "sum", deps |-> {"far"}]>>,
      <<[var |-> "far", deps |-> {"t1", "cell"}], [var |-> "sum", deps |-> {"far"}]>>}}
Off(d) ==
  UNION {OffQuote(d), OffPlace(d), OffProperty(d), OffCell(d), OffTable(d), OffRest(d),
         OffDerivation(d)}

(* All is quoted, nothing is, or only a cell or a parameter.               *)
Nothing == [Well EXCEPT !.sources = {}, !.tables["table"].there = FALSE,
              !.signals = [v \in Readings |-> [Well.signals[v] EXCEPT !.quote = Unquoted]]]
Alone == [Nothing EXCEPT !.sources = {"text"}, !.parameters["k"].text = "agrees"]
Combined == UNION {Off(d) : d \in Off(Well)} \cup Off(Nothing) \cup Off(Alone)
AllDocuments == {d \in Combined : WellFormed(d)}

Varied(h, t) ==
  /\ h.level[deep] = 3 /\ h.parent[deep] = right /\ h.owner[x] = left /\ h.owner[y] = deep
  /\ t[1].status = "checked" /\ t[2] = Join(x, y, 0) /\ t[3].kind = "equation"
MCDocuments(h, t) == IF Varied(h, t) THEN AllDocuments ELSE {Well}

=============================================================================
