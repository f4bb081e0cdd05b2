------------------------------- MODULE Money -------------------------------
(***************************************************************************)
(* Integer paise arithmetic (packages/domain/src/money.ts): every result   *)
(* that could be a fraction is rounded once, half up, and a total is       *)
(* shared out so that the parts add up to it.  Amounts stay far below      *)
(* 2^53, where JavaScript's numbers are exact integers.                    *)
(***************************************************************************)
EXTENDS FiniteSets, Functions, Integers

\* The sum of a function over a set of its arguments.
Total(f, S) == FoldFunctionOnSet(LAMBDA x, y : x + y, 0, f, S)

\* The quotient of a / b, for b of either sign, rounded down.
FloorDiv(a, b) == IF b > 0 THEN a \div b ELSE (-a) \div (-b)

\* a / b to the nearest integer, halves away from zero.
RoundPaise(a, b) == IF a >= 0 THEN (2 * a + b) \div (2 * b) ELSE -((b - 2 * a) \div (2 * b))

ApplyPercentage(amount, percentage) == RoundPaise(amount * percentage, 100)

\* The tax contained in an amount that includes it.
TaxFromInclusive(amount, rate) == IF rate = 0 THEN 0 ELSE RoundPaise(amount * rate, 100 + rate)

\* Mutant: the second half is what the first leaves.
MutSplitGst(tax, intra) ==
  IF intra THEN LET half == RoundPaise(tax, 2) IN [cgst |-> half, sgst |-> tax - half, igst |-> 0]
  ELSE [cgst |-> 0, sgst |-> 0, igst |-> tax]

\* Two equal halves within a state; with an odd tax they make a paisa more than it.
SplitGst(tax, intra) ==
  IF intra THEN LET half == RoundPaise(tax, 2) IN [cgst |-> half, sgst |-> half, igst |-> 0]
  ELSE [cgst |-> 0, sgst |-> 0, igst |-> tax]

\* Every way in which total may be shared out over the line numbers S by weight: each line has
\* its share rounded down, and the paise left over go to the largest remainders, one each.
\* Equal remainders of lines of equal weight go by line number; those of different weights are
\* compared as floating point numbers, which may say either.  Without any weight the first
\* line has it all.
Shares(total, weight, S) ==
  LET sum == Total(weight, S)
      floor == [i \in S |-> FloorDiv(total * weight[i], sum)]
      rest == [i \in S |-> (total * weight[i] - floor[i] * sum) * (IF sum > 0 THEN 1 ELSE -1)]
      left == total - Total(floor, S)
      before(i, j) == \/ rest[i] > rest[j]
                      \/ rest[i] = rest[j] /\ (weight[i] # weight[j] \/ i < j)
  IN IF sum = 0
     THEN {[i \in S |-> IF \A j \in S : i <= j THEN total ELSE 0]}
     ELSE {[i \in S |-> IF i \in E THEN floor[i] + 1 ELSE floor[i]] :
             E \in {E \in SUBSET S : /\ Cardinality(E) = left
                                     /\ \A i \in E, j \in S \ E : before(i, j)}}
=============================================================================
