---------------------------- MODULE FloatCompare ----------------------------
(***************************************************************************)
(* How the tests compare floating-point numbers                            *)
(* (src/src/main/helpers.cpp).                                             *)
(*                                                                         *)
(* A number is an integer, in units of which `One' make 1.0, or NaN or one *)
(* of the infinities. The arithmetic is exact: quotients are compared by   *)
(* multiplication, so that rounding is left out.                           *)
(***************************************************************************)
EXTENDS Integers

CONSTANTS One, NaN, PosInf, NegInf

ASSUME FloatAssumption ==
  /\ One \in Nat \ {0}
  /\ {NaN, PosInf, NegInf} \cap Int = {}

Infinities == {PosInf, NegInf}
Number == Int \cup Infinities \cup {NaN}
Finite(x) == x \notin Infinities \cup {NaN}

\* fabsf() of a number that is finite
Fabs(x) == IF x < 0 THEN -x ELSE x

\* a < b, with the rules for NaN and the infinities
Less(a, b) ==
  /\ NaN \notin {a, b} /\ a # b
  /\ \/ a = NegInf \/ b = PosInf
     \/ Finite(a) /\ Finite(b) /\ a < b

\* fabsf(x) < t, for a finite t
Within(x, t) == Finite(x) /\ Fabs(x) < t

\* Slip: not far from one, which NaN is not.
QuotientNearOne_NotFar(p, q, t) ==
  \/ NaN \in {p, q} \/ (p \in Infinities /\ q \in Infinities)
  \/ /\ p \notin Infinities
     /\ IF q \in Infinities THEN One < t
        ELSE Fabs(Fabs(q) - Fabs(p)) * One < t * Fabs(q)

\* fabsf(1.0f - fabsf(p/q)) < t, where neither is zero: an infinite p gives an
\* infinite quotient, an infinite q gives zero, and both give NaN.
QuotientNearOne(p, q, t) ==
  /\ p # NaN /\ q # NaN /\ p \notin Infinities
  /\ IF q \in Infinities THEN One < t
     ELSE Fabs(Fabs(q) - Fabs(p)) * One < t * Fabs(q)

\* Slip: the quotient is always that of the first by the second.
float_equals_relative_OneWay(a, b, t) ==
  IF a = 0 THEN Within(b, t)
  ELSE IF b = 0 THEN Within(a, t)
  ELSE QuotientNearOne(a, b, t)

float_equals_relative(a, b, t) ==
  IF a = 0 THEN Within(b, t)
  ELSE IF b = 0 THEN Within(a, t)
  ELSE IF Less(b, a) THEN QuotientNearOne(a, b, t)
  ELSE QuotientNearOne(b, a, t)

float_equals_absolute(a, b, t) == Finite(a) /\ Finite(b) /\ Fabs(a - b) <= t

\* The first number alone decides how they are compared.
float_equals_adaptive(a, b, t) ==
  IF a \in Infinities \/ (a # NaN /\ Fabs(a) > One)
  THEN float_equals_relative(a, b, t)
  ELSE float_equals_absolute(a, b, t)
=============================================================================
