---------------------------- MODULE LedgerProofs ----------------------------
(***************************************************************************)
(* Facts about one posting and about sums of amounts, for every service.    *)
(***************************************************************************)
EXTENDS Ledger, FiniteSetTheorems, TLAPS

BalanceType == balance \in [Accounts -> Int]

\* A two-legged posting between two accounts of the chart changes those two
\* and no other, each by the amount.
LEMMA MovementApplied ==
  ASSUME NEW debit \in Accounts, NEW credit \in Accounts, debit # credit,
         NEW a \in Int, BalanceType
  PROVE  /\ Applied(Movement(debit, credit, a)) \in [Accounts -> Int]
         /\ \A x \in Accounts :
              /\ x = debit =>
                   Applied(Movement(debit, credit, a))[x]
                     = IF DebitNormal(x) THEN balance[x] + a ELSE balance[x] - a
              /\ x = credit =>
                   Applied(Movement(debit, credit, a))[x]
                     = IF DebitNormal(x) THEN balance[x] - a ELSE balance[x] + a
              /\ x \notin {debit, credit} =>
                   Applied(Movement(debit, credit, a))[x] = balance[x]
  BY DEF Applied, Movement, Delta, BalanceType

\* Seen from a liability account, as a merchant's are: a debit takes from it,
\* a credit gives to it, and the other accounts but the counterpart keep theirs.
LEMMA LiabilityDebited ==
  ASSUME NEW x \in Accounts, NEW other \in Accounts, x # other, ~DebitNormal(x),
         NEW a \in Int, BalanceType, NEW legs, legs = Movement(x, other, a)
  PROVE  \A y \in Accounts : y # other =>
           Applied(legs)[y] = IF y = x THEN balance[x] - a ELSE balance[y]
<1>1. Applied(Movement(x, other, a))[x] = balance[x] - a
  BY MovementApplied
<1>2. \A y \in Accounts : y \notin {x, other} => Applied(Movement(x, other, a))[y] = balance[y]
  BY MovementApplied
<1>3. QED
  BY <1>1, <1>2

\* The same for an account that is credited.
LEMMA LiabilityCredited ==
  ASSUME NEW x \in Accounts, NEW other \in Accounts, x # other, ~DebitNormal(x),
         NEW a \in Int, BalanceType, NEW legs, legs = Movement(other, x, a)
  PROVE  \A y \in Accounts : y # other =>
           Applied(legs)[y] = IF y = x THEN balance[x] + a ELSE balance[y]
<1>1. Applied(Movement(other, x, a))[x] = balance[x] + a
  BY MovementApplied
<1>2. \A y \in Accounts : y \notin {x, other} => Applied(Movement(other, x, a))[y] = balance[y]
  BY MovementApplied
<1>3. QED
  BY <1>1, <1>2

\* The guard of the engine keeps every guarded account from going below zero.
LEMMA CoveredPosting ==
  ASSUME NEW debit \in Accounts, NEW credit \in Accounts, debit # credit,
         NEW a \in Int, BalanceType, NoOverdraft,
         Covered(Movement(debit, credit, a)),
         balance' = Applied(Movement(debit, credit, a))
  PROVE  BalanceType' /\ NoOverdraft'
<1> DEFINE legs == Movement(debit, credit, a)
<1>1. DOMAIN legs = {debit, credit} /\ \A x \in {debit, credit} : legs[x] \in Int
  BY DEF Movement
<1>2. BalanceType'
  BY MovementApplied DEF BalanceType
<1>3. ASSUME NEW x \in Accounts, ~Transitory(x)
      PROVE  balance'[x] >= 0
  <2>1. CASE x \notin {debit, credit}
    <3>1. Applied(legs)[x] = balance[x]
      BY <2>1, MovementApplied
    <3>2. balance[x] >= 0
      BY <1>3 DEF NoOverdraft
    <3>3. QED
      BY <3>1, <3>2
  <2>2. CASE x \in {debit, credit} /\ Delta(legs, x) < 0
    <3>1. x \in Guarded(legs)
      BY <1>1, <1>3, <2>2 DEF Guarded
    <3>2. QED
      BY <3>1 DEF Covered
  <2>3. CASE x \in {debit, credit} /\ ~(Delta(legs, x) < 0)
    <3>1. Delta(legs, x) \in Int
      BY <1>1, <2>3 DEF Delta
    <3>2. balance'[x] = balance[x] + Delta(legs, x)
      BY <1>1, <2>3 DEF Applied
    <3>3. balance[x] \in Int /\ balance[x] >= 0
      BY <1>3 DEF BalanceType, NoOverdraft
    <3>4. QED
      BY <2>3, <3>1, <3>2, <3>3
  <2>4. QED
    BY <2>1, <2>2, <2>3
<1>4. QED
  BY <1>2, <1>3 DEF NoOverdraft
\* A capture grows three accounts, by what was paid, what the merchant gets of
\* it and what the platform keeps.
LEMMA CaptureApplied ==
  ASSUME NEW m \in Merchants, NEW a \in Int, NEW fee \in Int, BalanceType
  PROVE  /\ Applied(CapturePayment(m, a, fee)) \in [Accounts -> Int]
         /\ \A x \in Accounts :
              Applied(CapturePayment(m, a, fee))[x]
                = CASE x = Platform("provider.clearing") -> balance[x] + a
                    [] x = Of("merchant.pending", m) -> balance[x] + a - fee
                    [] x = Platform("platform.fees") -> balance[x] + fee
                    [] OTHER -> balance[x]
<1> DEFINE legs == CapturePayment(m, a, fee)
           C == Platform("provider.clearing")
           P == Of("merchant.pending", m)
           F == Platform("platform.fees")
<1>1. C # P /\ C # F /\ P # F /\ DebitNormal(C) /\ ~DebitNormal(P) /\ ~DebitNormal(F)
  BY DEF Platform, Of, DebitNormal, DebitNormalCodes
<1>2. DOMAIN legs = {C, P, F} /\ legs[C] = a /\ legs[P] = fee - a /\ legs[F] = -fee
  BY <1>1 DEF CapturePayment
<1>3. Delta(legs, C) = a /\ Delta(legs, P) = -(fee - a) /\ Delta(legs, F) = -(-fee)
  BY <1>1, <1>2 DEF Delta
<1> HIDE DEF legs, C, P, F
<1>4. \A x \in Accounts : balance[x] \in Int
  BY DEF BalanceType
<1>5. \A x \in Accounts :
        Applied(legs)[x] = CASE x = C -> balance[x] + a
                             [] x = P -> balance[x] + a - fee
                             [] x = F -> balance[x] + fee
                             [] OTHER -> balance[x]
  BY <1>1, <1>2, <1>3, <1>4 DEF Applied
<1>6. Applied(legs) \in [Accounts -> Int]
  BY <1>2, <1>3, <1>4 DEF Applied
<1>7. QED
  BY <1>5, <1>6 DEF legs, C, P, F

-----------------------------------------------------------------------------
\* One row stands for as many units as its amount.
LEMMA UnitsOfOne ==
  ASSUME NEW i, NEW n \in Nat
  PROVE  IsFiniteSet({i} \X (1 .. n)) /\ Cardinality({i} \X (1 .. n)) = n
<1> DEFINE T == {i} \X (1 .. n)
<1> DEFINE f == [k \in 1 .. n |-> <<i, k>>]
<1>1. f \in Bijection(1 .. n, T)
  <2>1. f \in [1 .. n -> T]
    OBVIOUS
  <2>2. \A a, b \in 1 .. n : f[a] = f[b] => a = b
    OBVIOUS
  <2>3. \A t \in T : \E k \in 1 .. n : f[k] = t
    OBVIOUS
  <2>4. QED
    BY <2>1, <2>2, <2>3, Zenon DEF Bijection, Injection, Surjection, IsInjective
<1>2. IsFiniteSet(1 .. n) /\ Cardinality(1 .. n) = n
  BY FS_Interval
<1>3. ExistsBijection(1 .. n, T)
  BY <1>1, Zenon DEF ExistsBijection
<1>4. QED
  BY <1>2, <1>3, FS_Bijection, Zenon

\* Finitely many rows stand for finitely many units.
LEMMA UnitsFinite ==
  ASSUME NEW S, IsFiniteSet(S), NEW f, \A i \in S : f[i] \in Nat
  PROVE  IsFiniteSet(Units(f, S))
<1> DEFINE Parts == {{i} \X (1 .. f[i]) : i \in S}
<1> DEFINE g == [i \in S |-> {i} \X (1 .. f[i])]
<1>1. g \in Surjection(S, Parts)
  BY Zenon DEF Surjection
<1>2. IsFiniteSet(Parts)
  BY <1>1, FS_Surjection, Zenon
<1>3. ASSUME NEW P \in Parts PROVE IsFiniteSet(P)
  <2>1. PICK i \in S : P = {i} \X (1 .. f[i])
    OBVIOUS
  <2>2. QED
    BY <2>1, UnitsOfOne
<1>4. QED
  BY <1>2, <1>3, FS_UNION, Zenon DEF Units

\* A sum of amounts is a natural number, ...
LEMMA TotalType ==
  ASSUME NEW S, IsFiniteSet(S), NEW f, \A i \in S : f[i] \in Nat
  PROVE  Total(f, S) \in Nat
  BY UnitsFinite, FS_CardinalityType, Zenon DEF Total

\* ... it is zero for no rows, ...
LEMMA TotalOfNone == \A f : Total(f, {}) = 0
<1>1. \A f : Units(f, {}) = {}
  BY DEF Units
<1>2. QED
  BY <1>1, FS_EmptySet, Zenon DEF Total

\* ... a further row adds its amount, ...
LEMMA TotalAdd ==
  ASSUME NEW S, IsFiniteSet(S), NEW f, \A i \in S : f[i] \in Nat,
         NEW x, x \notin S, f[x] \in Nat
  PROVE  Total(f, S \cup {x}) = Total(f, S) + f[x]
<1> DEFINE A == Units(f, S)
<1> DEFINE B == {x} \X (1 .. f[x])
<1>1. Units(f, S \cup {x}) = A \cup B
  BY DEF Units
<1>2. A \cap B = {}
  BY DEF Units
<1>3. IsFiniteSet(A) /\ IsFiniteSet(B) /\ Cardinality(B) = f[x]
  BY UnitsFinite, UnitsOfOne
<1>4. Cardinality(A \cup B) = Cardinality(A) + Cardinality(B) - Cardinality({})
  BY <1>2, <1>3, FS_Union
<1>5. Cardinality(A) \in Nat
  BY <1>3, FS_CardinalityType, Zenon
<1>6. Cardinality({}) = 0
  BY FS_EmptySet
<1>7. Total(f, S) = Cardinality(A) /\ Total(f, S \cup {x}) = Cardinality(A \cup B)
  BY <1>1 DEF Total
<1> HIDE DEF A, B
<1>8. QED
  BY <1>3, <1>4, <1>5, <1>6, <1>7

\* ... a row that leaves takes its amount with it, ...
LEMMA TotalRemove ==
  ASSUME NEW S, IsFiniteSet(S), NEW f, \A i \in S : f[i] \in Nat,
         NEW x \in S
  PROVE  Total(f, S \ {x}) = Total(f, S) - f[x]
<1> DEFINE R == S \ {x}
<1>1. IsFiniteSet(R)
  BY FS_RemoveElement
<1>2. R \cup {x} = S /\ x \notin R
  OBVIOUS
<1>3. Total(f, R \cup {x}) = Total(f, R) + f[x]
  <2> HIDE DEF R
  <2>1. \A i \in R : f[i] \in Nat
     BY DEF R
  <2> QED
  BY <1>1, <1>2, <2>1, TotalAdd
<1>4. Total(f, R) \in Nat
  BY <1>1, TotalType
<1>5. f[x] \in Nat
  OBVIOUS
<1> HIDE DEF R
<1>6. Total(f, S) = Total(f, R) + f[x]
  BY <1>2, <1>3
<1>7. QED
  BY <1>4, <1>5, <1>6 DEF R

\* ... it depends on the amounts of the rows it counts only, ...
LEMMA TotalCongruence ==
  ASSUME NEW S, NEW f, NEW g, \A i \in S : f[i] = g[i]
  PROVE  Total(f, S) = Total(g, S)
<1>1. {{i} \X (1 .. f[i]) : i \in S} = {{i} \X (1 .. g[i]) : i \in S}
  OBVIOUS
<1>2. QED
  BY <1>1 DEF Total, Units

\* ... and fewer rows sum up to less.
LEMMA TotalMonotone ==
  ASSUME NEW S, IsFiniteSet(S), NEW f, \A i \in S : f[i] \in Nat, NEW T \in SUBSET S
  PROVE  Total(f, T) <= Total(f, S)
<1>1. Units(f, T) \in SUBSET Units(f, S)
  BY DEF Units
<1>2. QED
  BY <1>1, UnitsFinite, FS_Subset DEF Total

\* One row's amount changes and the others' do not.
LEMMA TotalUpdate ==
  ASSUME NEW S, IsFiniteSet(S), NEW f, \A i \in S : f[i] \in Nat,
         NEW g, \A i \in S : g[i] \in Nat,
         NEW x \in S, \A i \in S \ {x} : g[i] = f[i]
  PROVE  Total(g, S) = Total(f, S) - f[x] + g[x]
<1>1. Total(g, S \ {x}) = Total(f, S \ {x})
  BY TotalCongruence
<1>2. Total(g, S \ {x}) = Total(g, S) - g[x] /\ Total(f, S \ {x}) = Total(f, S) - f[x]
  BY TotalRemove
<1>3. Total(g, S) \in Nat /\ Total(f, S) \in Nat /\ g[x] \in Nat /\ f[x] \in Nat
  BY TotalType
<1>4. QED
  BY <1>1, <1>2, <1>3
=============================================================================
