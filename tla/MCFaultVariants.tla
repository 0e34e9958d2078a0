--------------------------- MODULE MCFaultVariants ---------------------------
(***************************************************************************)
(* A device of three components in a row: a holds signal 1 at its target,  *)
(* b adds its own to it (signal 2), c adds its own to that (signal 3), and *)
(* signal 4 is the target of b times three.  A signal outside 0 .. 9 is    *)
(* not derived.  Signals 1 and 2 are measured, 3 in some tasks.            *)
(* Every choice of up to three of its variants, in order.                  *)
(***************************************************************************)
EXTENDS FaultVariants

Block(name) == CASE name = 1 -> "A" [] name = 2 -> "B" [] name = 3 -> "C" [] name = 4 -> "D"
Of(name) == CASE name = 1 -> <<"a", "t">> [] name = 2 -> <<"b", "t">>
              [] name = 3 -> <<"c", "t">> [] name = 4 -> <<"b", "t">>

Law(device, values, name) ==
  CASE name = 1 -> device[Of(1)]
    [] name = 4 -> 3 * device[Of(4)]
    [] OTHER -> values[name - 1] + device[Of(name)]

(* A law that lacks its input has no value.                                *)
Has(values, name) == name \in {1, 4} \/ name - 1 \in DOMAIN values

With(device, values, name) ==
  IF name \in DOMAIN values \/ ~Has(values, name) \/ Law(device, values, name) \notin 0 .. 9 THEN values
  ELSE values @@ (name :> Law(device, values, name))

AllValues(device, data) ==
  FoldLeft(LAMBDA values, name : With(device, values, name), data, <<1, 2, 3, 4>>)

(* No device has a negative target.                                        *)
Constructed(device) == \A p \in DOMAIN device : device[p] >= 0

(* A block is checked if its signal is measured, with a tolerance of 1; a  *)
(* device that cannot be built is refused, and data beyond 12.             *)
ReportOn(device, data) ==
  LET values == AllValues(device, data)
      checked == {n \in DOMAIN data : Has(values, n)}
      off(n) == data[n] - Law(device, values, n)
  IN
  [state |-> IF ~Constructed(device) \/ \E n \in DOMAIN data : data[n] > 12
             THEN "refused"
             ELSE IF checked = {} THEN "nothing" ELSE "fine",
   pass |-> \A n \in checked : Size(off(n)) <= 1,
   blocks |-> [b \in {Block(n) : n \in checked} |->
     LET n == CHOOSE x \in checked : Block(x) = b
     IN  [pass |-> Size(off(n)) <= 1, residuals |-> <<off(n), 0>>]],
   derived |-> [n \in DOMAIN values \ DOMAIN data |-> values[n]]]

Weights(name) == IF name = 3 THEN 2 ELSE 1

-----------------------------------------------------------------------------
V(id, kind, parameters, changes, rederive, expect) ==
  [id |-> id, kind |-> kind, parameters |-> parameters, changes |-> changes,
   rederive |-> rederive, expect |-> expect]

Change(name, how, by) == <<[variable |-> name, how |-> how, by |-> by]>>

Palette ==
  {V("hot", "fault", <<"a", "t">> :> 5, <<>>, {1, 2}, {"A"}),
   V("drift", "fault", <<>>, Change(1, "offset", 3), {}, {"A", "B"}),
   V("droop", "fault", <<>>, Change(1, "offset", -2), {}, {"A"}),
   V("gain", "fault", <<>>, Change(2, "scale", 2), {}, {"B"}),
   V("boost", "fault", <<>>, Change(2, "scale", 3), {}, {"B"}),
   V("swap", "fault", <<>>, Change(2, "flip", 0), {}, {"B"}),
   V("step", "fault", <<"b", "t">> :> 4, <<>>, {2}, {"B"}),
   V("lift", "fault", <<"b", "t">> :> 4 @@ <<"c", "t">> :> 2, <<>>, {2}, {"B"}),
   V("wide", "fault", <<"b", "t">> :> 9, <<>>, {2}, {"B"}),
   V("lost", "fault", <<"c", "t">> :> 3, <<>>, {}, {"C"}),
   V("round", "benign", <<>>, Change(2, "offset", 1), {}, {}),
   V("far", "benign", <<>>, Change(1, "set", 9), {}, {})}

Bad ==
  {V("who", "fault", <<"z", "t">> :> 1, <<>>, {}, {"A"}),
   V("which", "fault", <<>>, Change(1, "offset", 3), {}, {"Z"}),
   V("none", "fault", <<>>, Change(4, "offset", 3), {}, {"A"}),
   V("minus", "fault", <<"a", "t">> :> -1, <<>>, {1}, {"A"}),
   V("moot", "fault", <<"a", "t">> :> -1, <<>>, {1, 2}, {"A"})}

Base ==
  [device |-> (<<"a", "t">> :> 2 @@ <<"b", "t">> :> 1 @@ <<"c", "t">> :> 1),
   components |-> {"a", "b", "c"}, blocks |-> {"A", "B", "C", "D"}, nominal |-> (1 :> 2 @@ 2 :> 3),
   variants |-> <<>>, pairs |-> TRUE, compose |-> FALSE, selected |-> <<>>, observed |-> <<>>]

Lists(S, n) == {s \in [1 .. n -> S] : \A i, j \in 1 .. n : i # j => s[i].id # s[j].id}

Observations == {<<>>, 1 :> 5 @@ 2 :> 6, 1 :> 5 @@ 2 :> 3, 1 :> 2 @@ 2 :> 3, 1 :> 2 @@ 2 :> 6, 3 :> 4, 1 :> 20}

Tasks ==
  {[Base EXCEPT !.variants = s] : s \in UNION {Lists(Palette, n) : n \in 0 .. 3}}
    \cup {[Base EXCEPT !.variants = s, !.observed = o, !.nominal = d] :
            s \in Lists(Palette, 2), o \in Observations,
            d \in {1 :> 2 @@ 2 :> 3, 1 :> 2 @@ 2 :> 3 @@ 3 :> 4, 1 :> 5 @@ 2 :> 3, 2 :> 3}}
    \cup {[Base EXCEPT !.variants = <<u, v>>, !.pairs = b] : u \in Palette, v \in Bad, b \in BOOLEAN}
    \cup {[Base EXCEPT !.variants = s, !.compose = TRUE, !.selected = q] :
            s \in Lists(Palette, 2),
            q \in {<<>>, <<"hot">>, <<"drift", "gain">>, <<"hot", "hot">>, <<"nobody">>}}
    \cup {[Base EXCEPT !.device[<<"a", "t">>] = -1]}

=============================================================================
