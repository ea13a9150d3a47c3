-------------------------- MODULE RationalProofs --------------------------
(***************************************************************************)
(* The search of Rational, for every number and every MaxDenom: it always  *)
(* ends close to the number, never divides by zero and never runs out of   *)
(* denominators.                                                           *)
(*                                                                         *)
(* With low = a/b, high = c/e, d = p/q and the distances n1 = pb - aq and  *)
(* n2 = cq - pe, everything follows from n1*e + n2*b = q, which holds      *)
(* because cb - ae = 1.                                                    *)
(***************************************************************************)
EXTENDS Rational, TLAPS

\* The distances weigh the denominators of the other end.
LEMMA Identity ==
  ASSUME NEW p \in Int, NEW q \in Int, NEW a \in Int, NEW b \in Int, NEW c \in Int, NEW e \in Int,
         c * b - a * e = 1
  PROVE  (p * b - a * q) * e + (c * q - p * e) * b = q
<1>1. (p * b - a * q) * e + (c * q - p * e) * b = q * (c * b - a * e)
  OBVIOUS
<1> QED BY <1>1

\* What a jump leaves of a distance is the remainder of the division.
LEMMA Remainder ==
  ASSUME NEW n \in Nat, NEW m \in Nat, m > 0, n >= m
  PROVE  /\ n \div m \in Nat /\ n \div m >= 1
         /\ n - (n \div m) * m \in Nat
         /\ n - (n \div m) * m < m
<1>1. n \div m \in Int /\ n % m \in 0 .. m - 1 /\ n = m * (n \div m) + (n % m)
  OBVIOUS
<1> DEFINE K == n \div m
           r == n % m
<1> HIDE DEF K, r
<1>2. K \in Int /\ r \in 0 .. m - 1 /\ n = m * K + r
  BY <1>1 DEF K, r
<1>3. K >= 1
  <2> SUFFICES ASSUME K <= 0 PROVE FALSE
    BY <1>2
  <2>1. m * K <= 0
    BY <1>2
  <2> QED BY <2>1, <1>2
<1>4. K * m = m * K
  BY <1>2
<1>5. n - K * m = r
  BY <1>2, <1>4
<1>6. K \in Nat /\ K >= 1 /\ n - K * m \in Nat /\ n - K * m < m
  BY <1>2, <1>3, <1>5
<1> QED BY <1>6 DEF K

\* One end moved K times towards the other: the new distance, the
\* determinant and the denominator.
LEMMA Moved ==
  ASSUME NEW p \in Int, NEW q \in Int, NEW a \in Int, NEW b \in Int, NEW c \in Int, NEW e \in Int,
         NEW K \in Int, c * b - a * e = 1
  PROVE  /\ (c + K * a) * q - p * (e + K * b) = (c * q - p * e) - K * (p * b - a * q)
         /\ (c + K * a) * b - a * (e + K * b) = 1
         /\ p * (b + K * e) - (a + K * c) * q = (p * b - a * q) - K * (c * q - p * e)
         /\ c * (b + K * e) - (a + K * c) * e = 1
<1>1. (c + K * a) * q - p * (e + K * b) = (c * q - p * e) - K * (p * b - a * q)
  OBVIOUS
<1>2. (c + K * a) * b - a * (e + K * b) = c * b - a * e
  OBVIOUS
<1>3. p * (b + K * e) - (a + K * c) * q = (p * b - a * q) - K * (c * q - p * e)
  OBVIOUS
<1>4. c * (b + K * e) - (a + K * c) * e = c * b - a * e
  OBVIOUS
<1> QED BY <1>1, <1>2, <1>3, <1>4

\* m is the distance of the end that stays, of denominator x, and r that of
\* the end that was moved, of denominator y.  The new denominator is no
\* larger than q, and an end that is not close to d leaves room for another
\* mediant.
LEMMA Room ==
  ASSUME NEW q \in Nat, NEW m \in Nat, NEW r \in Nat, NEW x \in Nat, NEW y \in Nat,
         NEW M \in Nat, m > 0, y > 0, x > 0, r < m, m * y + r * x = q
  PROVE  /\ y <= q
         /\ r > 0 /\ r * M >= q * y => x + y <= M
<1>1. m * y >= y
  OBVIOUS
<1>2. r * x \in Nat
  OBVIOUS
<1>3. y <= q
  BY <1>1, <1>2
<1>4. ASSUME r > 0, r * M >= q * y, x + y >= M + 1 PROVE FALSE
  <2>1. m * y >= (r + 1) * y
    OBVIOUS
  <2>2. (r + 1) * y = r * y + y
    OBVIOUS
  <2>3. r * (x + y) = r * y + r * x
    OBVIOUS
  <2>4. r * (x + y) >= r * (M + 1)
    BY <1>4
  <2>5. r * (M + 1) = r * M + r
    OBVIOUS
  <2>6. q * y >= q
    OBVIOUS
  <2>7. r * y \in Nat /\ r * M \in Nat /\ q * y \in Nat /\ m * y \in Nat
    OBVIOUS
  <2> QED BY <1>2, <1>4, <2>1, <2>2, <2>3, <2>4, <2>5, <2>6, <2>7
<1> QED BY <1>3, <1>4

-----------------------------------------------------------------------------
(* The invariant: between two moves there is always room for a mediant.    *)

SearchTypeOK == \A x \in {target, low, high, result} : x \in Fraction

SearchInv ==
  /\ SearchTypeOK
  /\ result # None => /\ CloseEnough(target, result)
                      /\ result.den < MaxDenom + target.den
  /\ Searching => /\ target \in Remainders
                  /\ low.den > 0 /\ high.den > 0
                  /\ low.den + high.den <= MaxDenom
                  /\ Bracketed

LEMMA SearchStarts == SearchInit => SearchInv
  BY DEF SearchInit, SearchInv, SearchTypeOK, Searching, None, Fraction

LEMMA StartKeepsInv ==
  ASSUME NEW d \in Remainders, StartSearch(d)
  PROVE  SearchInv'
<1>1. d \in Fraction /\ 0 < d.num /\ d.num < d.den
  BY DEF Remainders
<1>2. d.num \in Nat /\ d.den \in Nat
  BY <1>1 DEF Fraction
<1>3. /\ target' = d /\ low' = [num |-> 0, den |-> 1] /\ high' = [num |-> 1, den |-> 1]
      /\ result' = None
  BY DEF StartSearch
<1>4. SearchTypeOK'
  BY <1>1, <1>3 DEF SearchTypeOK, Fraction, None
<1>5. Over(target, low)' = d.num /\ Under(target, high)' = d.den - d.num
  BY <1>2, <1>3 DEF Over, Under
<1>6. Bracketed'
  BY <1>1, <1>2, <1>3, <1>5 DEF Bracketed
<1> QED BY <1>3, <1>4, <1>6, MaxDenomAssumption DEF SearchInv

\* What every move of the search starts from.
LEMMA Between ==
  ASSUME SearchInv, Searching
  PROVE  /\ target.num \in Nat /\ target.den \in Nat /\ target.den > 0
         /\ low.num \in Nat /\ low.den \in Nat /\ low.den > 0
         /\ high.num \in Nat /\ high.den \in Nat /\ high.den > 0
         /\ Over(target, low) \in Nat /\ Over(target, low) > 0
         /\ Under(target, high) \in Nat /\ Under(target, high) > 0
         /\ high.num * low.den - low.num * high.den = 1
         /\ Over(target, low) * high.den + Under(target, high) * low.den = target.den
         /\ ~UsedUp
<1>1. /\ target \in Fraction /\ low \in Fraction /\ high \in Fraction
      /\ 0 < target.num /\ target.num < target.den
  BY DEF SearchInv, SearchTypeOK, Remainders
<1>2. /\ target.num \in Nat /\ target.den \in Nat /\ target.den > 0
      /\ low.num \in Nat /\ low.den \in Nat /\ high.num \in Nat /\ high.den \in Nat
  BY <1>1 DEF Fraction
<1>3. /\ low.den > 0 /\ high.den > 0
      /\ Over(target, low) > 0 /\ Under(target, high) > 0
      /\ high.num * low.den - low.num * high.den = 1
  BY DEF SearchInv, Bracketed
<1>4. Over(target, low) \in Int /\ Under(target, high) \in Int
  BY <1>2 DEF Over, Under
<1>5. Over(target, low) * high.den + Under(target, high) * low.den = target.den
  <2> DEFINE p == target.num  q == target.den
             a == low.num     b == low.den
             c == high.num    e == high.den
  <2>1. /\ p \in Int /\ q \in Int /\ a \in Int /\ b \in Int /\ c \in Int /\ e \in Int
        /\ c * b - a * e = 1
    BY <1>2, <1>3
  <2>2. Over(target, low) = p * b - a * q /\ Under(target, high) = c * q - p * e
    BY DEF Over, Under
  <2> HIDE DEF p, q, a, b, c, e
  <2>3. (p * b - a * q) * e + (c * q - p * e) * b = q
    BY <2>1, Identity
  <2> QED BY <2>2, <2>3 DEF p, q, a, b, c, e
<1>6. ~UsedUp
  BY <1>2, MaxDenomAssumption DEF SearchInv, UsedUp
<1> QED BY <1>2, <1>3, <1>4, <1>5, <1>6

LEMMA TakeMediantKeepsInv ==
  ASSUME SearchInv, TakeMediant
  PROVE  SearchInv'
<1>1. Searching /\ UNCHANGED <<target, low, high>>
  BY DEF TakeMediant
<1>2. /\ result' = Mediant(low, high) /\ CloseEnough(target, Mediant(low, high))
  BY <1>1, Between DEF TakeMediant, Stop
<1>3. /\ Mediant(low, high) \in Fraction
      /\ Mediant(low, high).den = low.den + high.den
      /\ Mediant(low, high).den < MaxDenom + target.den
      /\ Mediant(low, high).den > 0
  BY <1>1, Between, MaxDenomAssumption DEF Mediant, Fraction, UsedUp
<1>4. result' # None
  BY <1>2, <1>3 DEF None
<1>5. SearchTypeOK'
  BY <1>1, <1>2, <1>3 DEF SearchInv, SearchTypeOK
<1> QED BY <1>1, <1>2, <1>3, <1>4, <1>5 DEF SearchInv, Searching, CloseEnough, Over, Under

LEMMA LowerHighKeepsInv ==
  ASSUME SearchInv, LowerHigh
  PROVE  SearchInv'
<1> DEFINE p == target.num  q == target.den
           a == low.num     b == low.den
           c == high.num    e == high.den
           n1 == Over(target, low)   n2 == Under(target, high)
           K == n2 \div n1
<1>1. /\ Searching /\ ~Stop /\ Below(target, Mediant(low, high))
      /\ high' = Jump(high, low, Times(Under(target, high), Over(target, low)))
      /\ result' = IF CloseEnough(target, high') THEN high' ELSE None
      /\ UNCHANGED <<target, low>>
  BY DEF LowerHigh, TooFar
<1>2. /\ p \in Nat /\ q \in Nat /\ q > 0 /\ a \in Nat /\ b \in Nat /\ b > 0
      /\ c \in Nat /\ e \in Nat /\ e > 0
      /\ n1 \in Nat /\ n1 > 0 /\ n2 \in Nat /\ n2 > 0
      /\ c * b - a * e = 1
      /\ n1 = p * b - a * q /\ n2 = c * q - p * e
  BY <1>1, Between DEF Over, Under
<1>3. n1 <= n2
  <2>1. p * (b + e) < (a + c) * q
    BY <1>1 DEF Below, Mediant
  <2>2. p * (b + e) = p * b + p * e /\ (a + c) * q = a * q + c * q
    BY <1>2
  <2> HIDE DEF p, q, a, b, c, e, n1, n2
  <2> QED BY <1>2, <2>1, <2>2
<1>4. K \in Nat /\ K >= 1 /\ n2 - K * n1 \in Nat /\ n2 - K * n1 < n1
  <2> HIDE DEF n1, n2
  <2> QED BY <1>2, <1>3, Remainder
<1>5. high' = [num |-> c + K * a, den |-> e + K * b]
  BY <1>1 DEF Jump, Times
<1> DEFINE c2 == c + K * a   e2 == e + K * b   r == n2 - K * n1
<1>6. c2 \in Nat /\ e2 \in Nat /\ e2 > 0
  <2> HIDE DEF p, q, a, b, c, e, n1, n2, K
  <2>1. K * a \in Nat /\ K * b \in Nat
    BY <1>2, <1>4
  <2> QED BY <1>2, <2>1
<1>7. c2 * q - p * e2 = r /\ c2 * b - a * e2 = 1
  <2> HIDE DEF p, q, a, b, c, e, n1, n2, K
  <2> QED BY <1>2, <1>4, Moved
<1>8. n1 * e2 + r * b = q
  <2> HIDE DEF p, q, a, b, c, e, n1, n2, K, c2, e2, r
  <2> QED BY <1>2, <1>6, <1>7, Identity
<1>9. e2 <= q /\ (r > 0 /\ r * MaxDenom >= q * e2 => b + e2 <= MaxDenom)
  <2> HIDE DEF p, q, a, b, c, e, n1, n2, K, c2, e2
  <2>1. r \in Nat /\ r < n1
    BY <1>4
  <2> HIDE DEF r
  <2> QED BY <1>2, <1>6, <1>8, <2>1, Room, MaxDenomAssumption
<1>10. high' \in Fraction /\ high'.num = c2 /\ high'.den = e2 /\ high' # None
  BY <1>5, <1>6 DEF Fraction, None
<1>11. Over(target, high') = - r /\ Under(target, high') = r
  <2>1. Over(target, high') = p * e2 - c2 * q /\ Under(target, high') = c2 * q - p * e2
    BY <1>10 DEF Over, Under
  <2> HIDE DEF p, q, a, b, c, e, n1, n2, K, c2, e2
  <2> QED BY <1>2, <1>4, <1>6, <1>7, <2>1
<1>12. CloseEnough(target, high') <=> r * MaxDenom < q * e2
  <2>1. CloseEnough(target, high') <=> /\ (- r) * MaxDenom < q * e2
                                       /\ r * MaxDenom < q * e2
    BY <1>10, <1>11 DEF CloseEnough
  <2>2. r \in Nat
    BY <1>4
  <2> HIDE DEF p, q, a, b, c, e, n1, n2, K, c2, e2, r
  <2>3. q * e2 \in Nat /\ q * e2 > 0
    BY <1>2, <1>6
  <2>4. r * MaxDenom \in Nat /\ (- r) * MaxDenom = - (r * MaxDenom)
    BY <2>2, MaxDenomAssumption
  <2> QED BY <2>1, <2>3, <2>4
<1>13. SearchTypeOK'
  BY <1>1, <1>10 DEF SearchInv, SearchTypeOK, None, Fraction
<1>14. CASE CloseEnough(target, high')
  <2>1. result' = high' /\ result'.den < MaxDenom + target.den
    BY <1>1, <1>2, <1>6, <1>9, <1>10, <1>14, MaxDenomAssumption
  <2>2. ~Searching'
    BY <1>10, <2>1 DEF Searching
  <2>3. CloseEnough(target, result)'
    BY <1>1, <1>14, <2>1 DEF CloseEnough, Over, Under
  <2> QED BY <1>1, <1>13, <2>1, <2>2, <2>3 DEF SearchInv
<1>15. CASE ~CloseEnough(target, high')
  <2>1. result' = None
    BY <1>1, <1>15
  <2>2. r * MaxDenom >= q * e2 /\ r > 0
    <3>1. ~(r * MaxDenom < q * e2) /\ r \in Nat
      BY <1>4, <1>12, <1>15
    <3> HIDE DEF p, q, a, b, c, e, n1, n2, K, c2, e2, r
    <3>2. q * e2 \in Nat /\ q * e2 > 0 /\ r * MaxDenom \in Nat
      BY <1>2, <1>6, <3>1, MaxDenomAssumption
    <3> QED BY <3>1, <3>2, MaxDenomAssumption
  <2>3. low'.den + high'.den <= MaxDenom
    BY <1>1, <1>9, <1>10, <2>2
  <2>4. Over(target, low)' > 0 /\ Under(target, high)' > 0
    <3>1. Over(target, low)' = n1 /\ Under(target, high)' = r
      BY <1>1, <1>11 DEF Over, Under
    <3> QED BY <3>1, <1>2, <2>2
  <2>5. high'.num * low'.den - low'.num * high'.den = 1
    BY <1>1, <1>7, <1>10
  <2>6. target' \in Remainders /\ low'.den > 0 /\ high'.den > 0
    BY <1>1, <1>2, <1>6, <1>10 DEF SearchInv
  <2>7. Bracketed'
    BY <2>4, <2>5 DEF Bracketed
  <2> QED BY <1>13, <2>1, <2>3, <2>6, <2>7 DEF SearchInv
<1> QED BY <1>14, <1>15

LEMMA RaiseLowKeepsInv ==
  ASSUME SearchInv, RaiseLow
  PROVE  SearchInv'
<1> DEFINE p == target.num  q == target.den
           a == low.num     b == low.den
           c == high.num    e == high.den
           n1 == Over(target, low)   n2 == Under(target, high)
           K == n1 \div n2
<1>1. /\ Searching /\ ~Stop /\ ~Below(target, Mediant(low, high))
      /\ low' = Jump(low, high, Times(Over(target, low), Under(target, high)))
      /\ result' = IF CloseEnough(target, low') THEN low' ELSE None
      /\ UNCHANGED <<target, high>>
  BY DEF RaiseLow, TooFar
<1>2. /\ p \in Nat /\ q \in Nat /\ q > 0 /\ a \in Nat /\ b \in Nat /\ b > 0
      /\ c \in Nat /\ e \in Nat /\ e > 0
      /\ n1 \in Nat /\ n1 > 0 /\ n2 \in Nat /\ n2 > 0
      /\ c * b - a * e = 1
      /\ n1 = p * b - a * q /\ n2 = c * q - p * e
  BY <1>1, Between DEF Over, Under
<1>3. n2 <= n1
  <2>1. ~(p * (b + e) < (a + c) * q)
    BY <1>1 DEF Below, Mediant
  <2>2. p * (b + e) = p * b + p * e /\ (a + c) * q = a * q + c * q
    BY <1>2
  <2> HIDE DEF p, q, a, b, c, e, n1, n2
  <2> QED BY <1>2, <2>1, <2>2
<1>4. K \in Nat /\ K >= 1 /\ n1 - K * n2 \in Nat /\ n1 - K * n2 < n2
  <2> HIDE DEF n1, n2
  <2> QED BY <1>2, <1>3, Remainder
<1>5. low' = [num |-> a + K * c, den |-> b + K * e]
  BY <1>1 DEF Jump, Times
<1> DEFINE a2 == a + K * c   b2 == b + K * e   r == n1 - K * n2
<1>6. a2 \in Nat /\ b2 \in Nat /\ b2 > 0
  <2> HIDE DEF p, q, a, b, c, e, n1, n2, K
  <2>1. K * c \in Nat /\ K * e \in Nat
    BY <1>2, <1>4
  <2> QED BY <1>2, <2>1
<1>7. p * b2 - a2 * q = r /\ c * b2 - a2 * e = 1
  <2> HIDE DEF p, q, a, b, c, e, n1, n2, K
  <2> QED BY <1>2, <1>4, Moved
<1>8. r * e + n2 * b2 = q
  <2> HIDE DEF p, q, a, b, c, e, n1, n2, K, a2, b2, r
  <2> QED BY <1>2, <1>6, <1>7, Identity
<1>9. b2 <= q /\ (r > 0 /\ r * MaxDenom >= q * b2 => e + b2 <= MaxDenom)
  <2> HIDE DEF p, q, a, b, c, e, n1, n2, K, a2, b2
  <2>1. r \in Nat /\ r < n2
    BY <1>4
  <2> HIDE DEF r
  <2> QED BY <1>2, <1>6, <1>8, <2>1, Room, MaxDenomAssumption
<1>10. low' \in Fraction /\ low'.num = a2 /\ low'.den = b2 /\ low' # None
  BY <1>5, <1>6 DEF Fraction, None
<1>11. Over(target, low') = r /\ Under(target, low') = - r
  <2>1. Over(target, low') = p * b2 - a2 * q /\ Under(target, low') = a2 * q - p * b2
    BY <1>10 DEF Over, Under
  <2> HIDE DEF p, q, a, b, c, e, n1, n2, K, a2, b2
  <2> QED BY <1>2, <1>4, <1>6, <1>7, <2>1
<1>12. CloseEnough(target, low') <=> r * MaxDenom < q * b2
  <2>1. CloseEnough(target, low') <=> /\ r * MaxDenom < q * b2
                                      /\ (- r) * MaxDenom < q * b2
    BY <1>10, <1>11 DEF CloseEnough
  <2>2. r \in Nat
    BY <1>4
  <2> HIDE DEF p, q, a, b, c, e, n1, n2, K, a2, b2, r
  <2>3. q * b2 \in Nat /\ q * b2 > 0
    BY <1>2, <1>6
  <2>4. r * MaxDenom \in Nat /\ (- r) * MaxDenom = - (r * MaxDenom)
    BY <2>2, MaxDenomAssumption
  <2> QED BY <2>1, <2>3, <2>4
<1>13. SearchTypeOK'
  BY <1>1, <1>10 DEF SearchInv, SearchTypeOK, None, Fraction
<1>14. CASE CloseEnough(target, low')
  <2>1. result' = low' /\ result'.den < MaxDenom + target.den
    BY <1>1, <1>2, <1>6, <1>9, <1>10, <1>14, MaxDenomAssumption
  <2>2. ~Searching'
    BY <1>10, <2>1 DEF Searching
  <2>3. CloseEnough(target, result)'
    BY <1>1, <1>14, <2>1 DEF CloseEnough, Over, Under
  <2> QED BY <1>1, <1>13, <2>1, <2>2, <2>3 DEF SearchInv
<1>15. CASE ~CloseEnough(target, low')
  <2>1. result' = None
    BY <1>1, <1>15
  <2>2. r * MaxDenom >= q * b2 /\ r > 0
    <3>1. ~(r * MaxDenom < q * b2) /\ r \in Nat
      BY <1>4, <1>12, <1>15
    <3> HIDE DEF p, q, a, b, c, e, n1, n2, K, a2, b2, r
    <3>2. q * b2 \in Nat /\ q * b2 > 0 /\ r * MaxDenom \in Nat
      BY <1>2, <1>6, <3>1, MaxDenomAssumption
    <3> QED BY <3>1, <3>2, MaxDenomAssumption
  <2>3. low'.den + high'.den <= MaxDenom
    <3>1. low'.den = b2 /\ high'.den = e /\ e + b2 <= MaxDenom
      BY <1>1, <1>9, <1>10, <2>2
    <3>2. e + b2 = b2 + e
      <4> HIDE DEF e, b2
      <4> QED BY <1>2, <1>6
    <3> QED BY <3>1, <3>2
  <2>4. Over(target, low)' > 0 /\ Under(target, high)' > 0
    <3>1. Over(target, low)' = r /\ Under(target, high)' = n2
      BY <1>1, <1>11 DEF Over, Under
    <3> QED BY <3>1, <1>2, <2>2
  <2>5. high'.num * low'.den - low'.num * high'.den = 1
    BY <1>1, <1>7, <1>10
  <2>6. target' \in Remainders /\ low'.den > 0 /\ high'.den > 0
    BY <1>1, <1>2, <1>6, <1>10 DEF SearchInv
  <2>7. Bracketed'
    BY <2>4, <2>5 DEF Bracketed
  <2> QED BY <1>13, <2>1, <2>3, <2>6, <2>7 DEF SearchInv
<1> QED BY <1>14, <1>15

LEMMA SearchKeepsInv ==
  ASSUME SearchInv, Search
  PROVE  SearchInv'
BY TakeMediantKeepsInv, LowerHighKeepsInv, RaiseLowKeepsInv DEF Search

LEMMA SearchStutterKeepsInv ==
  ASSUME SearchInv, UNCHANGED searchVars
  PROVE  SearchInv'
BY DEF SearchInv, SearchTypeOK, searchVars, Searching, Bracketed, CloseEnough, Over, Under

LEMMA SearchInvHolds == SearchSpec => []SearchInv
<1>1. SearchInit => SearchInv
  BY SearchStarts
<1>2. SearchInv /\ [(\E d \in Remainders : StartSearch(d)) \/ Search]_searchVars => SearchInv'
  BY StartKeepsInv, SearchKeepsInv, SearchStutterKeepsInv
<1> QED BY <1>1, <1>2, PTL DEF SearchSpec

LEMMA SearchInvGives == SearchInv => Bracketed /\ FractionIsClose
<1> SUFFICES ASSUME SearchInv PROVE Bracketed /\ FractionIsClose
  OBVIOUS
<1>1. Bracketed
  BY DEF SearchInv, Bracketed
<1>2. Searching => ~UsedUp
  BY MaxDenomAssumption DEF SearchInv, SearchTypeOK, Fraction, UsedUp
<1>3. result # None => CloseEnough(target, result) /\ result.den < MaxDenom + target.den
  BY DEF SearchInv
<1> QED BY <1>1, <1>2, <1>3 DEF FractionIsClose

\* While the search runs, the number lies strictly between two neighbouring
\* fractions: the divisors n1 and n2 at rational.hpp:43 and :51 are positive.
THEOREM SearchIsBracketed == SearchSpec => []Bracketed
BY SearchInvHolds, SearchInvGives, PTL

\* Whatever the number and the resolution, the search never runs out of
\* denominators (so that the fallback at rational.hpp:27-33 is not reached),
\* what it returns is within the resolution of the number, and its denominator
\* is below MaxDenom plus that of the number.
THEOREM SearchFindsClose == SearchSpec => []FractionIsClose
BY SearchInvHolds, SearchInvGives, PTL
=============================================================================
