------------------------------ MODULE Rational ------------------------------
(***************************************************************************)
(* The search of rational::approximate for a simple fraction near a number *)
(* d between 0 and 1, which becomes the fractional part of the divider of  *)
(* the synthesizer.  It keeps two fractions around d and moves one of them *)
(* towards d by as many mediants at a time as fit (K).  d is the fraction  *)
(* target; the code computes with doubles, the model with integers, so     *)
(* that every comparison below is one in the code multiplied out.          *)
(***************************************************************************)
EXTENDS Integers

CONSTANT MaxDenom                     \* max_denom, 65535 in the code
ASSUME MaxDenomAssumption == MaxDenom \in Nat /\ MaxDenom >= 2

VARIABLES target, low, high, result   \* fractions [num, den]
searchVars == <<target, low, high, result>>

Fraction == [num : Nat, den : Nat]
None == [num |-> 0, den |-> 0]        \* rational(), the initial result

Mediant(a, b) == [num |-> a.num + b.num, den |-> a.den + b.den]

\* d < r, for the number d the search is for.
Below(d, r) == d.num * r.den < r.num * d.den

\* The numerators of d - a and of b - d over the common denominator d.den:
\* n1 and n2 of the code.
Over(d, a) == d.num * a.den - a.num * d.den
Under(d, b) == b.num * d.den - d.num * b.den

\* Mutant: the tolerance 1/max_denom is a quotient of integers, zero.
CloseEnoughNever(d, r) == Over(d, r) < 0 /\ Under(d, r) < 0
\* |d - r| < 1 / MaxDenom.
CloseEnough(d, r) == /\ Over(d, r) * MaxDenom < d.den * r.den
                     /\ Under(d, r) * MaxDenom < d.den * r.den

Searching == target # None /\ result = None

SearchInit == target = None /\ low = None /\ high = None /\ result = None

StartSearch(d) ==
  /\ target' = d
  /\ low' = [num |-> 0, den |-> 1]
  /\ high' = [num |-> 1, den |-> 1]
  /\ result' = None

\* The denominators are used up, and the nearer of the two has to do.
UsedUp == low.den + high.den > MaxDenom
Nearer == IF Over(target, low) * high.den < Under(target, high) * low.den
            THEN low ELSE high

\* Mutant: the absolute value is forgotten.
StopOneSided ==
  UsedUp \/ LET m == Mediant(low, high) IN Over(target, m) * MaxDenom < target.den * m.den
Stop == UsedUp \/ CloseEnough(target, Mediant(low, high))

TakeMediant ==
  /\ Searching /\ Stop
  /\ result' = IF UsedUp THEN Nearer ELSE Mediant(low, high)
  /\ UNCHANGED <<target, low, high>>

\* a moved K times towards b.
Jump(a, b, K) == [num |-> a.num + K * b.num, den |-> a.den + K * b.den]
Times(n, m) == n \div m

TooFar == Searching /\ ~Stop

LowerHigh ==
  /\ TooFar
  /\ Below(target, Mediant(low, high))
  /\ high' = Jump(high, low, Times(Under(target, high), Over(target, low)))
  /\ result' = IF CloseEnough(target, high') THEN high' ELSE None
  /\ UNCHANGED <<target, low>>

RaiseLow ==
  /\ TooFar
  /\ ~Below(target, Mediant(low, high))
  /\ low' = Jump(low, high, Times(Over(target, low), Under(target, high)))
  /\ result' = IF CloseEnough(target, low') THEN low' ELSE None
  /\ UNCHANGED <<target, high>>

Search == TakeMediant \/ LowerHigh \/ RaiseLow

\* What update_PLL asks for: a remainder of a division, neither 0 nor 1.
Remainders == {d \in Fraction : 0 < d.num /\ d.num < d.den}

SearchSpec ==
  SearchInit /\ [][(\E d \in Remainders : StartSearch(d)) \/ Search]_searchVars

(***************************************************************************)
(* Properties                                                              *)
(***************************************************************************)

\* The two fractions stay on either side of d, so that the quotients K have
\* a positive divisor (rational.hpp:43 and :51 divide without a test), and
\* stay neighbours: nothing between them has a smaller denominator.
Bracketed ==
  Searching => /\ Over(target, low) > 0
               /\ Under(target, high) > 0
               /\ high.num * low.den - low.num * high.den = 1

\* What the search returns is as near to d as the resolution of the divider:
\* it always finds a fraction before the denominators are used up, and never
\* takes the nearer of two that are both too far (rational.hpp:27-33).  A jump
\* may pass max_denom, but the denominator stays below max_denom plus that of
\* d, far from the 32 bits of the register.
FractionIsClose ==
  /\ Searching => ~UsedUp
  /\ result # None => /\ CloseEnough(target, result)
                      /\ result.den < MaxDenom + target.den
=============================================================================
