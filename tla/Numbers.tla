------------------------------ MODULE Numbers ------------------------------
(* The larger and the smaller of two integers, a quotient rounded up.      *)
EXTENDS Integers

Larger(a, b) == IF a > b THEN a ELSE b
Smaller(a, b) == IF a < b THEN a ELSE b
Ceiling(a, b) == (a + b - 1) \div b

=============================================================================
