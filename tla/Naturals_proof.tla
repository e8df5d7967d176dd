--------------------------- MODULE Naturals_proof ---------------------------
(***************************************************************************)
(* The natural numbers, for the proofs of the other modules: least and     *)
(* greatest numbers of a set, for the models that choose one; quotient and *)
(* remainder, for what is counted in frames; and induction, for what must  *)
(* happen in the end.                                                      *)
(***************************************************************************)
EXTENDS Integers, WellFoundedInduction, TLAPS

CONSTANT P(_)

\* What is true of 0, and of n + 1 when it is true of n, is true of all numbers.
\* A module that needs it of a statement about behaviours, which cannot be
\* substituted for P, names it as a hypothesis.
InductionFor(Q(_)) ==
    Q(0) /\ (\A n \in Nat : Q(n) => Q(n + 1)) => \A n \in Nat : Q(n)

\* The order of the naturals as a relation.
LEMMA LessThan == OpToRel(<, Nat) = {ss \in Nat \X Nat : ss[1] < ss[2]}
  BY SMT DEF OpToRel

\* A set of naturals that is not empty has a least element.
LEMMA LeastElement ==
    ASSUME NEW S \in SUBSET Nat, S # {}
    PROVE  \E n \in S : \A m \in S : n <= m
<1> DEFINE R == OpToRel(<, Nat)
<1>1. IsWellFoundedOn(R, Nat)
  BY NatLessThanWellFounded
<1>2. R = {ss \in Nat \X Nat : ss[1] < ss[2]}
  BY LessThan
<1> HIDE DEF R
<1>3. PICK n \in S : \A m \in S : ~(<<m, n>> \in R)
  BY <1>1, WFMin
<1>4. ASSUME NEW m \in S
      PROVE  n <= m
  <2>1. n \in Nat /\ m \in Nat /\ ~(<<m, n>> \in R)
    BY <1>3
  <2>2. m < n => <<m, n>> \in R
    BY <1>2, <2>1
  <2> QED BY <2>1, <2>2
<1> QED BY <1>4

\* A set of naturals that is bounded and not empty has a greatest element.
LEMMA GreatestElement ==
    ASSUME NEW b \in Nat, NEW S \in SUBSET (0 .. b), S # {}
    PROVE  \E n \in S : \A m \in S : n >= m
<1> DEFINE D == {b - m : m \in S}
<1>1. D \in SUBSET Nat /\ D # {}
  OBVIOUS
<1>2. PICK d \in D : \A e \in D : d <= e
  BY <1>1, LeastElement
<1>3. PICK n \in S : d = b - n
  BY <1>2
<1>4. \A m \in S : n >= m
  <2> SUFFICES ASSUME NEW m \in S
               PROVE  n >= m
    OBVIOUS
  <2>1. b - m \in D
    OBVIOUS
  <2>2. b - n <= b - m
    BY <1>2, <1>3, <2>1
  <2> QED BY <2>2
<1> QED BY <1>4

\* Induction, for any P: were it not true of every number, it would be false of a
\* least one.
LEMMA Induction == InductionFor(P)
<1> SUFFICES ASSUME P(0), \A n \in Nat : P(n) => P(n + 1), NEW k \in Nat, ~P(k)
             PROVE  FALSE
  BY DEF InductionFor
<1>1. PICK n \in {m \in Nat : ~P(m)} : \A m \in {m \in Nat : ~P(m)} : n <= m
  <2>1. k \in {m \in Nat : ~P(m)}
    OBVIOUS
  <2> QED BY <2>1, LeastElement
<1>2. n # 0 /\ n \in Nat /\ ~P(n)
  BY <1>1
<1>3. n - 1 \in Nat /\ P(n - 1)
  BY <1>1, <1>2
<1>4. n - 1 + 1 = n
  BY <1>2
<1> QED BY <1>2, <1>3, <1>4
-----------------------------------------------------------------------------
\* A product grows with its factor.
LEMMA ProductGrows ==
    ASSUME NEW a \in Nat, NEW b \in Nat, NEW f \in Nat, a <= b
    PROVE  a * f <= b * f
  OBVIOUS

\* One frame more.
LEMMA OneFrameMore ==
    ASSUME NEW a \in Nat, NEW f \in Nat
    PROVE  (a + 1) * f = a * f + f /\ a * f \in Nat
  OBVIOUS

\* What quotient and remainder are.
LEMMA Division ==
    ASSUME NEW a \in Nat, NEW f \in Nat, f > 0
    PROVE  /\ a = (a \div f) * f + (a % f)
           /\ a % f \in 0 .. f - 1
           /\ a \div f \in Nat
  OBVIOUS

\* There is one quotient and one remainder.
LEMMA DivisionUnique ==
    ASSUME NEW q \in Nat, NEW f \in Nat, f > 0, NEW r \in 0 .. f - 1
    PROVE  (q * f + r) \div f = q /\ (q * f + r) % f = r
<1> DEFINE a == q * f + r
<1>1. a \in Nat
  OBVIOUS
<1>2. PICK d \in Nat : d = a \div f
  BY <1>1, Division
<1>3. PICK m \in 0 .. f - 1 : m = a % f
  BY <1>1, Division
<1>4. d * f + m = q * f + r
  BY <1>1, <1>2, <1>3, Division
<1>5. ~(d < q)
  <2> SUFFICES ASSUME d + 1 <= q
               PROVE  FALSE
    OBVIOUS
  <2>1. (d + 1) * f <= q * f
    BY ProductGrows
  <2>2. d * f + f <= q * f /\ d * f \in Nat /\ q * f \in Nat
    BY <2>1, OneFrameMore
  <2> QED BY <1>4, <2>2
<1>6. ~(q < d)
  <2> SUFFICES ASSUME q + 1 <= d
               PROVE  FALSE
    OBVIOUS
  <2>1. (q + 1) * f <= d * f
    BY ProductGrows
  <2>2. q * f + f <= d * f /\ d * f \in Nat /\ q * f \in Nat
    BY <2>1, OneFrameMore
  <2> QED BY <1>4, <2>2
<1>7. d = q
  BY <1>5, <1>6
<1>8. m = r
  BY <1>4, <1>7
<1> QED BY <1>2, <1>3, <1>7, <1>8
=============================================================================
