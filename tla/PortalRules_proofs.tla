-------------------------- MODULE PortalRules_proofs -------------------------
(***************************************************************************)
(* What the parts of PortalRules promise, for any number of users,         *)
(* contracts, instalments, forms, requests and addresses.  Each part has   *)
(* an inductive invariant of its own:                                      *)
(*                                                                         *)
(*   - the quota of e-mail checks: the array of a user holds every request *)
(*     accepted in the last window (LimiterInv);                           *)
(*   - who sees whom: the types are enough, for the recursion behind       *)
(*     Subtree ends in the least set closed under "works for";             *)
(*   - the screens over the contracts: what the payments leave behind      *)
(*     (PortfolioInv), from which the sums, the counts and the order of    *)
(*     the lines agree;                                                    *)
(*   - the history of an execution: the row of a form that was accepted    *)
(*     (LastIsAccepted);                                                   *)
(*   - the fields of the wizard: the columns are what was saved, and       *)
(*     nothing of it is dropped when it is read (WizardInv);               *)
(*   - the sessions: how long ago what a token or a request carries still  *)
(*     held (SessionInv);                                                  *)
(*   - the place of a visit: the answer is the one a check would give now  *)
(*     (VisitCurrent).                                                     *)
(*                                                                         *)
(* What a recursive function computes is proved without an induction       *)
(* principle, from the least element of a set of naturals or of parts of a *)
(* finite set that would be a counterexample; that there is such a         *)
(* function, from a closed form (the ends of chains of managers, the       *)
(* number of tokens of a sum).                                             *)
(***************************************************************************)
EXTENDS PortalRules, FiniteSetTheorems, WellFoundedInduction, TLAPS
-----------------------------------------------------------------------------
(***************************************************************************)
(* Natural numbers, finite sets and sums.                                  *)
(***************************************************************************)

\* A set of naturals that is not empty has a least member.
LEMMA NatMin ==
  ASSUME NEW T, T \subseteq Nat, T # {}
  PROVE \E n \in T : \A m \in T : n <= m
<1> DEFINE R == OpToRel(<, Nat)
<1>1. \E n \in T : \A m \in T : ~(<<m, n>> \in R)
  BY NatLessThanWellFounded, WFMin
<1>2. \A m, n \in Nat : m < n => <<m, n>> \in R
  BY DEF OpToRel
<1> HIDE DEF R
<1>3. PICK n \in T : \A m \in T : ~(<<m, n>> \in R) BY <1>1
<1>4. \A m \in T : m \in Nat /\ n \in Nat OBVIOUS
<1>5. \A m \in T : ~(m < n) BY <1>2, <1>3, <1>4
<1> QED BY <1>5, <1>4

\* Induction, over a set of naturals.
LEMMA NatSetInduction ==
  ASSUME NEW T, 0 \in T, \A n \in T : n \in Nat => n + 1 \in T
  PROVE Nat \subseteq T
<1> SUFFICES ASSUME Nat \ T # {} PROVE FALSE OBVIOUS
<1>1. PICK n \in Nat \ T : \A m \in Nat \ T : n <= m BY NatMin
<1>2. n # 0 BY <1>1
<1>3. n - 1 \in Nat /\ n - 1 + 1 = n BY <1>1, <1>2
<1>4. n - 1 \in T BY <1>1, <1>3
<1> QED BY <1>1, <1>3, <1>4

\* The greatest and the least of two integers.
LEMMA MaxOfTwo ==
  ASSUME NEW a \in Int, NEW b \in Int
  PROVE /\ Max({a, b}) \in {a, b} /\ Max({a, b}) >= a /\ Max({a, b}) >= b
        /\ Min({a, b}) \in {a, b} /\ Min({a, b}) <= a /\ Min({a, b}) <= b
<1>1. \E x \in {a, b} : \A y \in {a, b} : x >= y BY SMT
<1>2. \E x \in {a, b} : \A y \in {a, b} : x =< y BY SMT
<1>3. Max({a, b}) \in {a, b} /\ \A y \in {a, b} : Max({a, b}) >= y BY <1>1 DEF Max
<1>4. Min({a, b}) \in {a, b} /\ \A y \in {a, b} : Min({a, b}) <= y BY <1>2 DEF Min
<1> QED BY <1>3, <1>4

\* A set of parts of a finite set that is not empty has a least one, by inclusion.
LEMMA SubsetMin ==
  ASSUME NEW S, IsFiniteSet(S), NEW T, T \subseteq SUBSET S, T # {}
  PROVE \E s \in T : \A t \in T : t \subseteq s => t = s
<1>1. IsWellFoundedOn(StrictSubsetOrdering(S), SUBSET S)
  BY FS_StrictSubsetOrderingWellFounded, FS_FiniteSubsetsOfFinite
<1>2. \E s \in T : \A t \in T : ~(<<t, s>> \in StrictSubsetOrdering(S)) BY <1>1, WFMin
<1> QED BY <1>2 DEF StrictSubsetOrdering

\* What holds of the empty set, and of a set when it holds of all but one of its
\* elements, holds of every part of a finite set.
LEMMA SubsetInduction ==
  ASSUME NEW S, IsFiniteSet(S), NEW T, {} \in T,
         \A s \in SUBSET S : \A x \in s : s \ {x} \in T => s \in T
  PROVE SUBSET S \subseteq T
<1> SUFFICES ASSUME (SUBSET S) \ T # {} PROVE FALSE OBVIOUS
<1>1. PICK s \in (SUBSET S) \ T : \A t \in (SUBSET S) \ T : t \subseteq s => t = s
  <2> DEFINE B == (SUBSET S) \ T
  <2>1. B \subseteq SUBSET S /\ B # {} OBVIOUS
  <2> HIDE DEF B
  <2>2. \E s \in B : \A t \in B : t \subseteq s => t = s BY <2>1, SubsetMin
  <2> QED BY <2>2 DEF B
<1>2. PICK x \in s : TRUE
  <2>1. s # {} BY <1>1
  <2> QED BY <2>1
<1>3. s \ {x} \in SUBSET S /\ s \ {x} \subseteq s /\ s \ {x} # s BY <1>1, <1>2
<1>4. s \ {x} \in T BY <1>1, <1>3
<1> QED BY <1>1, <1>2, <1>4

\* f[x] tokens for each x.
Tokens(f, S) == {t \in S \X Nat : 1 <= t[2] /\ t[2] <= f[t[1]]}

\* The recursion FoldFunction is defined by, for sums.
IsSum(iter, f) ==
  iter = [s \in SUBSET DOMAIN f |->
            IF s = {} THEN 0
            ELSE LET x == CHOOSE x \in s : TRUE IN f[x] + iter[s \ {x}]]

\* f[x] is the number of the tokens of x.
LEMMA TokensOfOne ==
  ASSUME NEW f, NEW x, f[x] \in Nat
  PROVE IsFiniteSet(Tokens(f, {x})) /\ Cardinality(Tokens(f, {x})) = f[x]
<1> DEFINE tag == [k \in 1 .. f[x] |-> <<x, k>>]
<1>1. IsFiniteSet(1 .. f[x]) /\ Cardinality(1 .. f[x]) = f[x]
  <2>1. 1 \in Int /\ f[x] \in Int OBVIOUS
  <2>2. IsFiniteSet(1 .. f[x]) /\ Cardinality(1 .. f[x]) = IF 1 > f[x] THEN 0 ELSE f[x] - 1 + 1
    BY <2>1, FS_Interval, Zenon
  <2> QED BY <2>2
<1>2. tag \in Bijection(1 .. f[x], Tokens(f, {x}))
  <2>1. \A k \in 1 .. f[x] : tag[k] = <<x, k>> /\ <<x, k>> \in Tokens(f, {x}) BY DEF Tokens
  <2>2. \A t \in Tokens(f, {x}) : t[2] \in 1 .. f[x] /\ t = <<x, t[2]>> BY DEF Tokens
  <2>3. tag \in [1 .. f[x] -> Tokens(f, {x})] BY <2>1
  <2>4. tag \in Injection(1 .. f[x], Tokens(f, {x}))
    BY <2>1, <2>3 DEF Injection, IsInjective
  <2>5. \A t \in Tokens(f, {x}) : \E k \in 1 .. f[x] : tag[k] = t BY <2>1, <2>2
  <2>6. tag \in Surjection(1 .. f[x], Tokens(f, {x})) BY <2>3, <2>5 DEF Surjection
  <2> QED BY <2>4, <2>6 DEF Bijection
<1> HIDE DEF tag
<1>3. ExistsBijection(1 .. f[x], Tokens(f, {x})) BY <1>2 DEF ExistsBijection
<1> QED BY <1>1, <1>3, FS_Bijection

\* The tokens of disjoint sets add up.
LEMMA TokensOfUnion ==
  ASSUME NEW f, NEW A, NEW B, IsFiniteSet(Tokens(f, A)), IsFiniteSet(Tokens(f, B)), A \cap B = {}
  PROVE /\ IsFiniteSet(Tokens(f, A \cup B))
        /\ Cardinality(Tokens(f, A \cup B)) = Cardinality(Tokens(f, A)) + Cardinality(Tokens(f, B))
<1>1. Tokens(f, A \cup B) = Tokens(f, A) \cup Tokens(f, B) BY DEF Tokens
<1>2. Tokens(f, A) \cap Tokens(f, B) = {} BY DEF Tokens
<1>3. Cardinality({}) = 0 BY FS_EmptySet
<1>4. Cardinality(Tokens(f, A)) \in Nat /\ Cardinality(Tokens(f, B)) \in Nat BY FS_CardinalityType
<1> DEFINE P == Tokens(f, A)
           Q == Tokens(f, B)
<1> HIDE DEF P, Q
<1>5. IsFiniteSet(P) /\ IsFiniteSet(Q) BY DEF P, Q
<1>6. /\ IsFiniteSet(P \cup Q)
      /\ Cardinality(P \cup Q) = Cardinality(P) + Cardinality(Q) - Cardinality(P \cap Q)
  BY <1>5, FS_Union
<1>7. Tokens(f, A \cup B) = P \cup Q /\ P \cap Q = {} /\ Cardinality(P) \in Nat
      /\ Cardinality(Q) \in Nat
  BY <1>1, <1>2, <1>4 DEF P, Q
<1>8. Cardinality(P \cap Q) = 0 BY <1>3, <1>7
<1>9. Cardinality(P \cup Q) = Cardinality(P) + Cardinality(Q) BY <1>6, <1>7, <1>8
<1> QED BY <1>6, <1>7, <1>9 DEF P, Q

\* The recursion of SumFunction counts the tokens.
LEMMA SumCounts ==
  ASSUME NEW S, IsFiniteSet(S), NEW f \in [S -> Nat]
  PROVE /\ IsFiniteSet(Tokens(f, S))
        /\ SumFunction(f) = Cardinality(Tokens(f, S))
<1> DEFINE T == {s \in SUBSET S : IsFiniteSet(Tokens(f, s))}
           counts == [s \in SUBSET S |-> Cardinality(Tokens(f, s))]
<1>1. Tokens(f, {}) = {} BY DEF Tokens
<1>2. ASSUME NEW s \in SUBSET S, NEW x \in s, IsFiniteSet(Tokens(f, s \ {x}))
      PROVE /\ IsFiniteSet(Tokens(f, s))
            /\ Cardinality(Tokens(f, s)) = f[x] + Cardinality(Tokens(f, s \ {x}))
  <2>1. f[x] \in Nat /\ s = {x} \cup (s \ {x}) /\ {x} \cap (s \ {x}) = {} OBVIOUS
  <2>2. IsFiniteSet(Tokens(f, {x})) /\ Cardinality(Tokens(f, {x})) = f[x]
    BY <2>1, TokensOfOne
  <2> DEFINE rest == s \ {x}
  <2>3. IsFiniteSet(Tokens(f, rest)) /\ {x} \cap rest = {} /\ s = {x} \cup rest BY <1>2, <2>1
  <2> HIDE DEF rest
  <2>4. /\ IsFiniteSet(Tokens(f, {x} \cup rest))
        /\ Cardinality(Tokens(f, {x} \cup rest))
             = Cardinality(Tokens(f, {x})) + Cardinality(Tokens(f, rest))
    BY <2>2, <2>3, TokensOfUnion
  <2> QED BY <2>2, <2>3, <2>4 DEF rest
<1>3. SUBSET S \subseteq T
  <2>1. {} \in T BY <1>1, FS_EmptySet
  <2>2. \A s \in SUBSET S : \A x \in s : s \ {x} \in T => s \in T BY <1>2
  <2> HIDE DEF T
  <2> QED BY <2>1, <2>2, SubsetInduction
<1>4. \A s \in SUBSET S : \A x \in s :
        Cardinality(Tokens(f, s)) = f[x] + Cardinality(Tokens(f, s \ {x}))
  BY <1>2, <1>3
<1>5. IsSum(counts, f)
  <2>1. DOMAIN f = S OBVIOUS
  <2>2. ASSUME NEW s \in SUBSET S
        PROVE counts[s] = IF s = {} THEN 0
                          ELSE LET x == CHOOSE x \in s : TRUE IN f[x] + counts[s \ {x}]
    <3>1. CASE s = {} BY <1>1, <3>1, FS_EmptySet
    <3>2. CASE s # {}
      <4> DEFINE x == CHOOSE x \in s : TRUE
      <4>1. x \in s BY <3>2
      <4> HIDE DEF x
      <4>2. counts[s] = f[x] + counts[s \ {x}] BY <1>4, <4>1
      <4> QED BY <3>2, <4>2 DEF x
    <3> QED BY <3>1, <3>2
  <2>3. counts = [s \in SUBSET S |-> counts[s]] OBVIOUS
  <2> HIDE DEF counts
  <2> QED BY <2>1, <2>2, <2>3 DEF IsSum
<1>6. PICK iter : IsSum(iter, f) /\ SumFunction(f) = iter[S]
  <2> DEFINE chosen == CHOOSE g : IsSum(g, f)
  <2>1. DOMAIN f = S OBVIOUS
  <2>2. SumFunction(f) = chosen[DOMAIN f]
    BY DEF SumFunction, SumFunctionOnSet, FoldFunctionOnSet, MapThenFoldSet, IsSum
  <2> HIDE DEF counts
  <2>3. IsSum(chosen, f) BY <1>5
  <2> HIDE DEF chosen
  <2> QED BY <2>1, <2>2, <2>3
<1> DEFINE U == {s \in SUBSET S : iter[s] = Cardinality(Tokens(f, s))}
<1>7. SUBSET S \subseteq U
  <2>1. \A s \in SUBSET S : iter[s] = IF s = {} THEN 0
                          ELSE LET x == CHOOSE x \in s : TRUE IN f[x] + iter[s \ {x}]
    <3>1. DOMAIN f = S OBVIOUS
    <3> QED BY <1>6, <3>1, Zenon DEF IsSum
  <2>2. {} \in U BY <1>1, <2>1, FS_EmptySet
  <2>3. ASSUME NEW s \in SUBSET S, \A x \in s : s \ {x} \in U PROVE s \in U
    <3>1. CASE s = {} BY <2>2, <3>1
    <3>2. CASE s # {}
      <4> DEFINE x == CHOOSE x \in s : TRUE
      <4>1. x \in s /\ iter[s] = f[x] + iter[s \ {x}] BY <2>1, <3>2
      <4> HIDE DEF x
      <4>2. iter[s \ {x}] = Cardinality(Tokens(f, s \ {x})) BY <2>3, <4>1
      <4> QED BY <1>4, <4>1, <4>2
    <3> QED BY <3>1, <3>2
  <2> HIDE DEF U
  <2> SUFFICES ASSUME (SUBSET S) \ U # {} PROVE FALSE OBVIOUS
  <2> DEFINE B == (SUBSET S) \ U
  <2>4. B \subseteq SUBSET S /\ B # {} OBVIOUS
  <2> HIDE DEF B
  <2>5. PICK s \in B : \A t \in B : t \subseteq s => t = s BY <2>4, SubsetMin
  <2>6. s \in SUBSET S /\ s \notin U BY <2>5 DEF B
  <2>7. ASSUME NEW x \in s PROVE s \ {x} \in U
    <3>1. s \ {x} \in SUBSET S /\ s \ {x} \subseteq s /\ s \ {x} # s BY <2>6, <2>7
    <3> QED BY <2>5, <3>1 DEF B
  <2> QED BY <2>3, <2>6, <2>7
<1> QED BY <1>3, <1>6, <1>7

\* Terms that are zero add nothing.
LEMMA SumOfPart ==
  ASSUME NEW S, IsFiniteSet(S), NEW T, T \subseteq S, NEW f \in [S -> Nat], NEW g \in [T -> Nat],
         \A x \in T : f[x] = g[x], \A x \in S \ T : f[x] = 0
  PROVE SumFunction(f) = SumFunction(g)
<1>1. IsFiniteSet(T) BY FS_Subset
<1>2. Tokens(f, S) = Tokens(g, T)
  <2>1. ASSUME NEW t \in Tokens(f, S) PROVE t \in Tokens(g, T)
    <3>1. t \in S \X Nat /\ 1 <= t[2] /\ t[2] <= f[t[1]] BY DEF Tokens
    <3>2. t[1] \in S /\ t[2] \in Nat /\ t = <<t[1], t[2]>> BY <3>1
    <3>3. t[1] \in T BY <3>1, <3>2
    <3>4. t \in T \X Nat BY <3>2, <3>3
    <3> QED BY <3>1, <3>3, <3>4 DEF Tokens
  <2>2. ASSUME NEW t \in Tokens(g, T) PROVE t \in Tokens(f, S)
    <3>1. t \in T \X Nat /\ 1 <= t[2] /\ t[2] <= g[t[1]] BY DEF Tokens
    <3>2. t[1] \in T /\ t[2] \in Nat /\ t = <<t[1], t[2]>> BY <3>1
    <3>4. t \in S \X Nat BY <3>2
    <3> QED BY <3>1, <3>2, <3>4 DEF Tokens
  <2> QED BY <2>1, <2>2
<1> QED BY <1>1, <1>2, SumCounts

\* A sum over S is the sum over the owners of what each of them adds up to.
LEMMA SumByOwner ==
  ASSUME NEW S, IsFiniteSet(S), NEW C, IsFiniteSet(C), NEW f \in [S -> Nat], NEW own \in [S -> C],
         NEW g \in [C -> Nat],
         \A c \in C : g[c] = SumFunction([x \in {y \in S : own[y] = c} |-> f[x]])
  PROVE SumFunction(f) = SumFunction(g)
<1> DEFINE owned(K) == {y \in S : own[y] \in K}
           T == {K \in SUBSET C : /\ IsFiniteSet(Tokens(g, K)) /\ IsFiniteSet(Tokens(f, owned(K)))
                                  /\ Cardinality(Tokens(f, owned(K))) = Cardinality(Tokens(g, K))}
<1>1. {} \in T
  <2>1. owned({}) = {} /\ Tokens(f, {}) = {} /\ Tokens(g, {}) = {} BY DEF Tokens
  <2> HIDE DEF owned
  <2> QED BY <2>1, FS_EmptySet
<1>2. ASSUME NEW K \in SUBSET C, NEW c \in K, K \ {c} \in T PROVE K \in T
  <2> DEFINE mine == {y \in S : own[y] = c}
             rest == owned(K \ {c})
             h == [x \in mine |-> f[x]]
             L == K \ {c}
  <2>1. owned(K) = mine \cup rest /\ mine \cap rest = {} /\ K = {c} \cup L /\ {c} \cap L = {}
    OBVIOUS
  <2>2. /\ IsFiniteSet(Tokens(g, L)) /\ IsFiniteSet(Tokens(f, rest))
        /\ Cardinality(Tokens(f, rest)) = Cardinality(Tokens(g, L))
    BY <1>2
  <2>3. mine \subseteq S /\ h \in [mine -> Nat] OBVIOUS
  <2>4. IsFiniteSet(mine) BY <2>3, FS_Subset
  <2>5. Tokens(h, mine) = Tokens(f, mine)
    <3>1. \A x \in mine : h[x] = f[x] OBVIOUS
    <3> HIDE DEF h, mine
    <3>2. \A t \in mine \X Nat : t[1] \in mine OBVIOUS
    <3> QED BY <3>1, <3>2 DEF Tokens
  <2>6. g[c] = SumFunction(h) /\ g[c] \in Nat OBVIOUS
  <2> HIDE DEF mine, rest, h, L, owned
  <2>7. IsFiniteSet(Tokens(f, mine)) /\ Cardinality(Tokens(f, mine)) = g[c]
    BY <2>3, <2>4, <2>5, <2>6, SumCounts
  <2>8. IsFiniteSet(Tokens(g, {c})) /\ Cardinality(Tokens(g, {c})) = g[c]
    BY <2>6, TokensOfOne
  <2>9. /\ IsFiniteSet(Tokens(f, mine \cup rest))
        /\ Cardinality(Tokens(f, mine \cup rest)) = g[c] + Cardinality(Tokens(g, L))
    BY <2>1, <2>2, <2>7, TokensOfUnion
  <2>10. /\ IsFiniteSet(Tokens(g, {c} \cup L))
         /\ Cardinality(Tokens(g, {c} \cup L)) = g[c] + Cardinality(Tokens(g, L))
    <3> DEFINE one == {c}
    <3> HIDE DEF one
    <3>1. IsFiniteSet(Tokens(g, one)) /\ one \cap L = {} BY <2>1, <2>8 DEF one
    <3>2. /\ IsFiniteSet(Tokens(g, one \cup L))
          /\ Cardinality(Tokens(g, one \cup L)) = Cardinality(Tokens(g, one)) + Cardinality(Tokens(g, L))
      BY <2>2, <3>1, TokensOfUnion
    <3> QED BY <2>8, <3>2 DEF one
  <2> QED BY <2>1, <2>9, <2>10
<1>3. SUBSET C \subseteq T
  <2> HIDE DEF T
  <2> QED BY <1>1, <1>2, SubsetInduction
<1>4. owned(C) = S OBVIOUS
<1>5. Cardinality(Tokens(f, S)) = Cardinality(Tokens(g, C)) BY <1>3, <1>4
<1> HIDE DEF owned, T
<1> QED BY <1>5, SumCounts

\* A finite set of integers has a greatest element.
LEMMA MaxIs ==
  ASSUME NEW S, IsFiniteSet(S), S \subseteq Int, S # {}
  PROVE Max(S) \in S /\ \A y \in S : Max(S) >= y
<1> DEFINE top(s) == \E x \in s : \A y \in s : x >= y
           T == {s \in SUBSET S : s = {} \/ top(s)}
<1>1. {} \in T OBVIOUS
<1>2. ASSUME NEW s \in SUBSET S, NEW x \in s, s \ {x} \in T PROVE s \in T
  <2>1. CASE s \ {x} = {} BY <2>1
  <2>2. CASE s \ {x} # {}
    <3>1. PICK z \in s \ {x} : \A y \in s \ {x} : z >= y BY <1>2, <2>2
    <3>2. \A y \in s : y \in Int OBVIOUS
    <3>3. CASE z >= x
      <4>1. \A y \in s : z >= y BY <3>1, <3>3
      <4> QED BY <3>1, <4>1
    <3>4. CASE ~(z >= x)
      <4>1. \A y \in s : x >= y BY <3>1, <3>2, <3>4
      <4> QED BY <4>1
    <3> QED BY <3>3, <3>4
  <2> QED BY <2>1, <2>2
<1>3. SUBSET S \subseteq T
  <2> HIDE DEF T
  <2> QED BY <1>1, <1>2, SubsetInduction
<1>4. top(S) BY <1>3
<1> QED BY <1>4 DEF Max

\* The values of a function on a finite set are finitely many.
LEMMA RangeIsFinite ==
  ASSUME NEW f, IsFiniteSet(DOMAIN f)
  PROVE IsFiniteSet({f[x] : x \in DOMAIN f})
<1> DEFINE R == {f[x] : x \in DOMAIN f}
           g == [x \in DOMAIN f |-> f[x]]
<1>1. g \in [DOMAIN f -> R] /\ \A y \in R : \E x \in DOMAIN f : g[x] = y OBVIOUS
<1>2. g \in Surjection(DOMAIN f, R) BY <1>1 DEF Surjection
<1> HIDE DEF g, R
<1> QED BY <1>2, FS_Surjection DEF R

\* The order of the integers is total.
LEMMA LessIfNotEqual ==
  ASSUME NEW a \in Int, NEW b \in Int, a <= b, a # b
  PROVE a < b
  OBVIOUS

\* Multiplication by a natural number keeps the order.
LEMMA MultMono ==
  ASSUME NEW a \in Int, NEW b \in Int, NEW m \in Nat, a <= b
  PROVE a * m <= b * m
<1>1. (b - a) * m = b * m - a * m OBVIOUS
<1>2. b - a \in Nat /\ (b - a) * m \in Nat OBVIOUS
<1>3. a * m \in Int /\ b * m \in Int OBVIOUS
<1> QED BY <1>1, <1>2, <1>3

\* What a division with remainder leaves.
LEMMA Quotient ==
  ASSUME NEW d \in Nat, NEW m \in Nat \ {0}
  PROVE d \div m \in Nat /\ (d \div m) * m <= d /\ d < ((d \div m) + 1) * m
<1> DEFINE q == d \div m
<1>1. q \in Int /\ d = m * q + (d % m) /\ d % m \in 0 .. m - 1 OBVIOUS
<1>2. q \in Nat OBVIOUS
<1>3. m * q = q * m /\ (q + 1) * m = q * m + m BY <1>1
<1> HIDE DEF q
<1>4. q * m \in Int BY <1>2
<1>5. q * m <= d /\ d < (q + 1) * m BY <1>1, <1>3, <1>4
<1> QED BY <1>2, <1>5 DEF q

\* A day falls in the months p .. p + r - 1 exactly when it is not before the
\* first day of the one nor after the last of the other.
LEMMA MonthWindow ==
  ASSUME NEW d \in Nat, NEW m \in Nat \ {0}, NEW p \in Nat, NEW r \in Nat
  PROVE d \div m \in p .. p + r - 1 <=> (d >= p * m /\ d < (p + r) * m)
<1> DEFINE q == d \div m
<1>1. q \in Nat /\ q * m <= d /\ d < (q + 1) * m BY Quotient
<1> HIDE DEF q
<1>2. q * m \in Int /\ (q + 1) * m \in Int /\ p * m \in Int /\ (p + r) * m \in Int BY <1>1
<1>3. p <= q => p * m <= q * m BY <1>1, MultMono
<1>4. q + 1 <= p + r => (q + 1) * m <= (p + r) * m BY <1>1, MultMono
<1>5. ~(p <= q) => (q + 1) * m <= p * m
  <2>1. ~(p <= q) => q + 1 <= p BY <1>1
  <2> QED BY <1>1, <2>1, MultMono
<1>6. ~(q + 1 <= p + r) => (p + r) * m <= q * m
  <2>1. ~(q + 1 <= p + r) => p + r <= q BY <1>1
  <2> QED BY <1>1, <2>1, MultMono
<1>7. q \in p .. p + r - 1 <=> (p <= q /\ q + 1 <= p + r) BY <1>1
<1>8. q \in p .. p + r - 1 <=> (d >= p * m /\ d < (p + r) * m)
  BY <1>1, <1>2, <1>3, <1>4, <1>5, <1>6, <1>7
<1> QED BY <1>8 DEF q
-----------------------------------------------------------------------------
(***************************************************************************)
(* The quota of e-mail checks (EmailLimiter).                              *)
(***************************************************************************)

\* The requests of u accepted in the window that ends at t.
AcceptedIn(u, t) ==
  {r \in Accepted : UserOf[r] = u /\ t - Window < at[r] /\ at[r] <= t}

\* What is accepted is in the past, and in the array while the window lasts.
Kept == \A r \in Accepted : at[r] <= clock /\ (at[r] > clock - Window => r \in hits)

\* A call leaves within ReadTime.
Prompt ==
  \A r \in Checks :
    /\ stage[r] = "reading" => clock <= at[r] + ReadTime
    /\ stage[r] = "called" => at[r] <= called[r] /\ called[r] <= at[r] + ReadTime

WindowsHold ==
  \A u \in {UserOf[r] : r \in Checks}, t \in Int :
    Cardinality(AcceptedIn(u, t)) <= MaxPerWindow

LimiterInv == LimiterTypeOK /\ Kept /\ Prompt /\ WindowsHold

\* One more member: at most one more to count.
LEMMA OneMore ==
  ASSUME NEW T, IsFiniteSet(T), NEW x
  PROVE IsFiniteSet(T \cup {x}) /\ Cardinality(T \cup {x}) <= Cardinality(T) + 1
<1>1. IsFiniteSet(T \cup {x}) BY FS_AddElement
<1>2. Cardinality(T) \in Nat BY FS_CardinalityType
<1>3. CASE x \in T
  <2>1. Cardinality(T \cup {x}) = Cardinality(T) BY <1>3, FS_AddElement
  <2>2. Cardinality(T \cup {x}) <= Cardinality(T) + 1 BY <1>2, <2>1
  <2> QED BY <1>1, <2>2
<1>4. CASE x \notin T
  <2>1. Cardinality(T \cup {x}) = Cardinality(T) + 1 BY <1>4, FS_AddElement
  <2>2. Cardinality(T \cup {x}) <= Cardinality(T) + 1 BY <1>2, <2>1
  <2> QED BY <1>1, <2>2
<1> QED BY <1>3, <1>4

LEMMA AcceptedFinite ==
  ASSUME NEW u, NEW t
  PROVE IsFiniteSet(AcceptedIn(u, t))
<1>1. AcceptedIn(u, t) \subseteq Checks BY DEF AcceptedIn, Accepted
<1> QED BY <1>1, FS_Subset, LimiterAssumption

LEMMA LimiterInitInv == LimiterInit => LimiterInv
<1> SUFFICES ASSUME LimiterInit PROVE LimiterInv OBVIOUS
<1> USE LimiterAssumption DEF LimiterInit
<1>1. LimiterTypeOK BY DEF LimiterTypeOK
<1>2. Accepted = {} BY DEF Accepted
<1>3. Kept BY <1>2 DEF Kept
<1>4. Prompt BY DEF Prompt
<1>5. \A u, t : AcceptedIn(u, t) = {} BY <1>2 DEF AcceptedIn
<1>6. WindowsHold BY <1>5, FS_EmptySet DEF WindowsHold
<1> QED BY <1>1, <1>3, <1>4, <1>6 DEF LimiterInv

\* A step that accepts nothing new leaves every window as it is.
LEMMA NothingAccepted ==
  ASSUME WindowsHold, Accepted' = Accepted, \A r \in Accepted : at'[r] = at[r]
  PROVE WindowsHold'
<1>1. \A u, t : AcceptedIn(u, t)' = AcceptedIn(u, t) BY DEF AcceptedIn
<1> QED BY <1>1 DEF WindowsHold

LEMMA ConsumeInv ==
  ASSUME LimiterInv, NEW r \in Checks, Consume(r)
  PROVE LimiterInv'
<1> DEFINE u == UserOf[r]
           pruned == {q \in hits : UserOf[q] # u} \cup RecentHits(u)
<1> USE LimiterAssumption
<1>t. LimiterTypeOK /\ Kept /\ Prompt /\ WindowsHold BY DEF LimiterInv
<1>c. /\ stage[r] = "new" /\ clock' = clock /\ called' = called
      /\ at' = [at EXCEPT ![r] = clock]
  BY DEF Consume
<1>n. r \notin Accepted BY <1>c DEF Accepted
<1>r. RecentHits(u) \subseteq hits BY DEF RecentHits
<1>1. CASE /\ Cardinality(RecentHits(u)) < MaxPerWindow
           /\ hits' = pruned \cup {r} /\ stage' = [stage EXCEPT ![r] = "reading"]
  <2>1. LimiterTypeOK' BY <1>t, <1>c, <1>1, <1>r DEF LimiterTypeOK
  <2>2. Accepted' = Accepted \cup {r} BY <1>t, <1>1, <1>c DEF Accepted, LimiterTypeOK
  <2>3. Kept'
    BY <1>t, <1>c, <1>1, <1>n, <2>2 DEF Kept, RecentHits, LimiterTypeOK, Accepted
  <2>4. Prompt' BY <1>t, <1>c, <1>1 DEF Prompt, LimiterTypeOK
  <2>5. WindowsHold'
    <3> SUFFICES ASSUME NEW v \in {UserOf[q] : q \in Checks}, NEW t \in Int
                 PROVE Cardinality(AcceptedIn(v, t)') <= MaxPerWindow
      BY DEF WindowsHold
    <3>1. Cardinality(AcceptedIn(v, t)) <= MaxPerWindow BY <1>t DEF WindowsHold
    <3>2. CASE v = u /\ t - Window < clock /\ clock <= t
      <4>1. AcceptedIn(v, t)' \subseteq RecentHits(u) \cup {r}
        <5> SUFFICES ASSUME NEW q \in AcceptedIn(v, t)', q # r
                     PROVE q \in RecentHits(u)
          OBVIOUS
        <5>1. q \in Accepted /\ UserOf[q] = u /\ at[q] > t - Window
          BY <2>2, <1>c, <1>t, <3>2 DEF AcceptedIn, LimiterTypeOK, Accepted
        <5>2. at[q] > clock - Window
          BY <5>1, <3>2, <1>t DEF LimiterTypeOK, Accepted
        <5> QED BY <5>1, <5>2, <1>t DEF Kept, RecentHits
      <4>2. IsFiniteSet(RecentHits(u)) BY <1>t, <1>r, FS_Subset DEF LimiterTypeOK
      <4>3. /\ IsFiniteSet(RecentHits(u) \cup {r})
            /\ Cardinality(RecentHits(u) \cup {r}) <= Cardinality(RecentHits(u)) + 1
        BY <4>2, OneMore
      <4>4. Cardinality(AcceptedIn(v, t)') <= Cardinality(RecentHits(u) \cup {r})
        BY <4>1, <4>3, FS_Subset
      <4>5. Cardinality(AcceptedIn(v, t)') \in Nat /\ Cardinality(RecentHits(u)) \in Nat
            /\ Cardinality(RecentHits(u) \cup {r}) \in Nat
        BY <4>1, <4>2, <4>3, FS_Subset, FS_CardinalityType
      <4> QED BY <4>3, <4>4, <4>5, <1>1
    <3>3. CASE ~(v = u /\ t - Window < clock /\ clock <= t)
      <4>1. AcceptedIn(v, t)' = AcceptedIn(v, t)
        BY <2>2, <1>c, <1>t, <1>n, <3>3 DEF AcceptedIn, LimiterTypeOK, Accepted
      <4> QED BY <4>1, <3>1
    <3> QED BY <3>2, <3>3
  <2> QED BY <2>1, <2>3, <2>4, <2>5 DEF LimiterInv
<1>2. CASE hits' = pruned /\ stage' = [stage EXCEPT ![r] = "refused"]
  <2>1. LimiterTypeOK' BY <1>t, <1>c, <1>2, <1>r DEF LimiterTypeOK
  <2>2. Accepted' = Accepted BY <1>t, <1>2, <1>c DEF Accepted, LimiterTypeOK
  <2>3. Kept'
    BY <1>t, <1>c, <1>2, <1>n, <2>2 DEF Kept, RecentHits, LimiterTypeOK, Accepted
  <2>4. Prompt' BY <1>t, <1>c, <1>2 DEF Prompt, LimiterTypeOK
  <2>5. WindowsHold'
    BY <1>t, <1>c, <1>n, <2>2, NothingAccepted DEF LimiterTypeOK, Accepted
  <2> QED BY <2>1, <2>3, <2>4, <2>5 DEF LimiterInv
<1> QED BY <1>1, <1>2 DEF Consume

LEMMA LimiterStepInv == LimiterInv /\ [LimiterNext]_limiterVars => LimiterInv'
<1> SUFFICES ASSUME LimiterInv, [LimiterNext]_limiterVars PROVE LimiterInv' OBVIOUS
<1> USE LimiterAssumption
<1>t. LimiterTypeOK /\ Kept /\ Prompt /\ WindowsHold BY DEF LimiterInv
<1>1. ASSUME NEW r \in Checks, Consume(r) PROVE LimiterInv' BY <1>1, ConsumeInv
<1>2. ASSUME NEW r \in Checks, CallZeroBounce(r) PROVE LimiterInv'
  <2>1. LimiterTypeOK' BY <1>t, <1>2 DEF LimiterTypeOK, CallZeroBounce
  <2>2. Accepted' = Accepted BY <1>t, <1>2 DEF CallZeroBounce, LimiterTypeOK, Accepted
  <2>3. Kept' BY <1>t, <1>2, <2>2 DEF Kept, CallZeroBounce
  <2>4. r \in Accepted BY <1>2 DEF CallZeroBounce, Accepted
  <2>5. Prompt' BY <1>t, <1>2, <2>4 DEF Prompt, Kept, CallZeroBounce, LimiterTypeOK
  <2>6. WindowsHold' BY <1>t, <1>2, <2>2, NothingAccepted DEF CallZeroBounce
  <2> QED BY <2>1, <2>3, <2>5, <2>6 DEF LimiterInv
<1>3. ASSUME NEW r \in Checks, NoCall(r) PROVE LimiterInv'
  <2>1. LimiterTypeOK' BY <1>t, <1>3 DEF LimiterTypeOK, NoCall
  <2>2. Accepted' = Accepted BY <1>t, <1>3 DEF NoCall, LimiterTypeOK, Accepted
  <2>3. Kept' BY <1>t, <1>3, <2>2 DEF Kept, NoCall
  <2>4. Prompt' BY <1>t, <1>3 DEF Prompt, NoCall, LimiterTypeOK
  <2>5. WindowsHold' BY <1>t, <1>3, <2>2, NothingAccepted DEF NoCall
  <2> QED BY <2>1, <2>3, <2>4, <2>5 DEF LimiterInv
<1>4. CASE LimiterTick
  <2>1. LimiterTypeOK' BY <1>t, <1>4 DEF LimiterTypeOK, LimiterTick
  <2>2. Accepted' = Accepted BY <1>4 DEF LimiterTick, Accepted
  <2>3. Kept' BY <1>t, <1>4, <2>2 DEF Kept, LimiterTick, LimiterTypeOK, Accepted
  <2>4. Prompt' BY <1>t, <1>4 DEF Prompt, LimiterTick, LimiterTypeOK
  <2>5. WindowsHold' BY <1>t, <1>4, <2>2, NothingAccepted DEF LimiterTick
  <2> QED BY <2>1, <2>3, <2>4, <2>5 DEF LimiterInv
<1>5. CASE UNCHANGED limiterVars
  <2>1. Accepted' = Accepted BY <1>5 DEF limiterVars, Accepted
  <2>2. LimiterTypeOK' /\ Kept' /\ Prompt'
    BY <1>t, <1>5, <2>1 DEF limiterVars, LimiterTypeOK, Kept, Prompt
  <2>3. WindowsHold' BY <1>t, <1>5, <2>1, NothingAccepted DEF limiterVars
  <2> QED BY <2>2, <2>3 DEF LimiterInv
<1> QED BY <1>1, <1>2, <1>3, <1>4, <1>5 DEF LimiterNext

\* The calls of a window that is ReadTime shorter were accepted in one window.
LEMMA CallsWithinWindows == LimiterInv => QuotaRespected
<1> SUFFICES ASSUME LimiterInv, NEW u \in {UserOf[r] : r \in Checks},
                    NEW t \in 0 .. MaxClock
             PROVE Cardinality(CallsIn(u, t, Window - ReadTime)) <= MaxPerWindow
  BY DEF QuotaRespected
<1> DEFINE S == CallsIn(u, t, Window - ReadTime)
<1> USE LimiterAssumption
<1>1. S \subseteq AcceptedIn(u, t)
  BY DEF CallsIn, AcceptedIn, Accepted, LimiterInv, LimiterTypeOK, Prompt
<1>2. IsFiniteSet(AcceptedIn(u, t)) BY AcceptedFinite
<1>3. Cardinality(S) <= Cardinality(AcceptedIn(u, t)) BY <1>1, <1>2, FS_Subset
<1>4. Cardinality(S) \in Nat /\ Cardinality(AcceptedIn(u, t)) \in Nat
  BY <1>1, <1>2, FS_Subset, FS_CardinalityType
<1>5. Cardinality(AcceptedIn(u, t)) <= MaxPerWindow BY DEF LimiterInv, WindowsHold
<1> QED BY <1>3, <1>4, <1>5

(***************************************************************************)
(* A replica calls ZeroBounce for one user at most MaxPerWindow times      *)
(* within a window less the reading time: consume() and the call that      *)
(* follows it (email-validation-rate-limiter.service.ts, 24-39).           *)
(***************************************************************************)
THEOREM QuotaIsRespected == LimiterSpec => []QuotaRespected
<1>1. LimiterSpec => []LimiterInv
  BY LimiterInitInv, LimiterStepInv, PTL DEF LimiterSpec
<1> QED BY <1>1, CallsWithinWindows, PTL
-----------------------------------------------------------------------------
(***************************************************************************)
(* Who sees whom (People, Hierarchy).                                      *)
(***************************************************************************)

\* The rounds of the recursive query.
IsRounds(rows, roots, m, S) ==
  rows = [n \in Nat |-> IF n = 0 THEN roots \cap S ELSE rows[n - 1] \cup Workers(rows[n - 1], m, S)]

\* A chain of n managers from a root down, some of them standing still.
Chain(p, n, roots, m, S) ==
  /\ p \in [0 .. n -> S] /\ p[0] \in roots
  /\ \A i \in 1 .. n : p[i] = p[i - 1] \/ (m[p[i]] = p[i - 1] /\ p[i - 1] # p[i])

\* There are such rounds: the n-th holds the ends of the chains of length n.
LEMMA RoundsExist ==
  ASSUME NEW roots, NEW m, NEW S
  PROVE \E rows : IsRounds(rows, roots, m, S)
<1> DEFINE ends(n) == {u \in S : \E p : Chain(p, n, roots, m, S) /\ p[n] = u}
           rows == [n \in Nat |-> ends(n)]
<1>1. ends(0) = roots \cap S
  <2>1. ASSUME NEW u \in ends(0) PROVE u \in roots \cap S BY <2>1 DEF Chain
  <2>2. ASSUME NEW u \in roots \cap S PROVE u \in ends(0)
    <3> DEFINE p == [i \in 0 .. 0 |-> u]
    <3>1. p \in [0 .. 0 -> S] /\ p[0] = u OBVIOUS
    <3>2. \A i \in 1 .. 0 : FALSE OBVIOUS
    <3> HIDE DEF p
    <3>3. Chain(p, 0, roots, m, S) BY <3>1, <3>2 DEF Chain
    <3> QED BY <3>1, <3>3
  <2> HIDE DEF ends
  <2> QED BY <2>1, <2>2
<1>2. ASSUME NEW n \in Nat \ {0}
      PROVE ends(n) = ends(n - 1) \cup Workers(ends(n - 1), m, S)
  <2>1. ASSUME NEW u \in ends(n) PROVE u \in ends(n - 1) \cup Workers(ends(n - 1), m, S)
    <3>1. PICK p : Chain(p, n, roots, m, S) /\ p[n] = u BY <2>1
    <3> DEFINE q == [i \in 0 .. n - 1 |-> p[i]]
    <3>2. n - 1 \in Nat /\ 0 .. n - 1 \subseteq 0 .. n /\ n - 1 \in 0 .. n - 1 /\ n \in 1 .. n
          /\ 1 .. n - 1 \subseteq 1 .. n /\ n \in 0 .. n /\ 0 \in 0 .. n - 1
          /\ \A i \in 1 .. n - 1 : i \in 0 .. n - 1 /\ i - 1 \in 0 .. n - 1
      OBVIOUS
    <3>3. /\ q \in [0 .. n - 1 -> S] /\ \A i \in 0 .. n - 1 : q[i] = p[i]
      BY <3>1, <3>2 DEF Chain
    <3> HIDE DEF q
    <3>4. Chain(q, n - 1, roots, m, S) BY <3>1, <3>2, <3>3 DEF Chain
    <3>5. q[n - 1] \in S BY <3>2, <3>3
    <3>6. q[n - 1] \in ends(n - 1) BY <3>4, <3>5
    <3>7. p[n] = q[n - 1] \/ (m[p[n]] = q[n - 1] /\ q[n - 1] # p[n])
      BY <3>1, <3>2, <3>3 DEF Chain
    <3>8. u \in S OBVIOUS
    <3> HIDE DEF ends
    <3> QED BY <3>1, <3>6, <3>7, <3>8 DEF Workers
  <2>2. ASSUME NEW u \in ends(n - 1) \cup Workers(ends(n - 1), m, S) PROVE u \in ends(n)
    <3>1. PICK w \in ends(n - 1) : u \in S /\ (u = w \/ (m[u] = w /\ w # u))
      <4>1. ends(n - 1) \subseteq S OBVIOUS
      <4> HIDE DEF ends
      <4> QED BY <4>1 DEF Workers
    <3>2. PICK q : Chain(q, n - 1, roots, m, S) /\ q[n - 1] = w BY <3>1
    <3> DEFINE p == [i \in 0 .. n |-> IF i = n THEN u ELSE q[i]]
    <3>3. /\ n \in 0 .. n /\ 0 \in 0 .. n - 1 /\ 0 \in 0 .. n /\ n # 0 /\ n - 1 # n /\ n - 1 \in 0 .. n
          /\ \A i \in 0 .. n : i = n \/ i \in 0 .. n - 1
          /\ \A i \in 1 .. n : i \in 0 .. n /\ i - 1 \in 0 .. n /\ i - 1 # n
                               /\ (i = n \/ i \in 1 .. n - 1)
      OBVIOUS
    <3>4. p \in [0 .. n -> S] /\ p[n] = u /\ p[0] = q[0] /\ p[n - 1] = w
          /\ \A i \in 0 .. n : i # n => p[i] = q[i]
      BY <3>1, <3>2, <3>3 DEF Chain
    <3> HIDE DEF p
    <3>5. \A i \in 1 .. n : p[i] = p[i - 1] \/ (m[p[i]] = p[i - 1] /\ p[i - 1] # p[i])
      <4> TAKE i \in 1 .. n
      <4>1. CASE i = n BY <4>1, <3>1, <3>4
      <4>2. CASE i # n BY <4>2, <3>2, <3>3, <3>4 DEF Chain
      <4> QED BY <4>1, <4>2
    <3>6. Chain(p, n, roots, m, S) BY <3>2, <3>4, <3>5 DEF Chain
    <3> QED BY <3>1, <3>4, <3>6
  <2> HIDE DEF ends
  <2> QED BY <2>1, <2>2
<1> HIDE DEF ends
<1>3. \A n \in Nat : n # 0 => n - 1 \in Nat OBVIOUS
<1>4. rows = [n \in Nat |-> IF n = 0 THEN roots \cap S
                            ELSE rows[n - 1] \cup Workers(rows[n - 1], m, S)]
  BY <1>1, <1>2, <1>3
<1> QED BY <1>4 DEF IsRounds

\* T is the least set that holds the roots and the workers of its members.
IsLeast(T, roots, m, S) ==
  /\ T \subseteq S /\ roots \cap S \subseteq T /\ Workers(T, m, S) \subseteq T
  /\ \A C : roots \cap S \subseteq C /\ Workers(C, m, S) \subseteq C => T \subseteq C

\* The round after as many as there are users adds nobody: it is that set.
LEMMA RoundsEnd ==
  ASSUME NEW roots, NEW m, NEW S, IsFiniteSet(S), NEW rows, IsRounds(rows, roots, m, S)
  PROVE IsLeast(rows[Cardinality(S)], roots, m, S)
<1>1. /\ rows[0] = roots \cap S
      /\ \A n \in Nat : rows[n + 1] = rows[n] \cup Workers(rows[n], m, S)
  <2>2. \A n \in Nat : rows[n] = IF n = 0 THEN roots \cap S
                                 ELSE rows[n - 1] \cup Workers(rows[n - 1], m, S)
    BY Zenon DEF IsRounds
  <2>3. rows[0] = roots \cap S BY <2>2
  <2>4. ASSUME NEW n \in Nat PROVE rows[n + 1] = rows[n] \cup Workers(rows[n], m, S)
    <3> DEFINE k == n + 1
    <3>1. k \in Nat /\ k # 0 /\ k - 1 = n OBVIOUS
    <3> HIDE DEF k
    <3>2. rows[k] = rows[k - 1] \cup Workers(rows[k - 1], m, S) BY <2>2, <3>1
    <3> QED BY <3>1, <3>2 DEF k
  <2> QED BY <2>3, <2>4
<1>2. Cardinality(S) \in Nat BY FS_CardinalityType
<1>3. \A n \in Nat : rows[n] \subseteq S /\ roots \cap S \subseteq rows[n]
  <2> DEFINE T == {n \in Nat : rows[n] \subseteq S /\ roots \cap S \subseteq rows[n]}
  <2>1. 0 \in T BY <1>1
  <2>2. \A n \in T : n + 1 \in T BY <1>1 DEF Workers
  <2> HIDE DEF T
  <2>3. Nat \subseteq T BY <2>1, <2>2, NatSetInduction
  <2> QED BY <2>3 DEF T
<1>4. ASSUME NEW C, roots \cap S \subseteq C, Workers(C, m, S) \subseteq C
      PROVE \A n \in Nat : rows[n] \subseteq C
  <2> DEFINE T == {n \in Nat : rows[n] \subseteq C}
  <2>1. 0 \in T BY <1>1, <1>4
  <2>2. \A n \in T : n + 1 \in T BY <1>1, <1>4 DEF Workers
  <2> HIDE DEF T
  <2>3. Nat \subseteq T BY <2>1, <2>2, NatSetInduction
  <2> QED BY <2>3 DEF T
<1>5. \A n \in Nat : Workers(rows[n], m, S) \subseteq rows[n] \/ Cardinality(rows[n]) >= n + 1
  <2> DEFINE open(n) == ~(Workers(rows[n], m, S) \subseteq rows[n])
             T == {n \in Nat : open(n) => Cardinality(rows[n]) >= n + 1}
  <2>1. \A n \in Nat : IsFiniteSet(rows[n]) /\ Cardinality(rows[n]) \in Nat
    BY <1>3, FS_Subset, FS_CardinalityType
  <2>2. 0 \in T
    <3> SUFFICES ASSUME open(0) PROVE Cardinality(rows[0]) >= 1 OBVIOUS
    <3>1. rows[0] # {} BY DEF Workers
    <3>2. Cardinality(rows[0]) # 0 BY <2>1, <3>1, FS_EmptySet
    <3> QED BY <2>1, <3>2
  <2>3. ASSUME NEW n \in T PROVE n + 1 \in T
    <3> SUFFICES ASSUME open(n + 1) PROVE Cardinality(rows[n + 1]) >= n + 1 + 1 OBVIOUS
    <3>1. rows[n + 1] # rows[n]
      <4>1. ASSUME rows[n + 1] = rows[n] PROVE FALSE
        <5>1. Workers(rows[n], m, S) \subseteq rows[n + 1] BY <1>1
        <5> QED BY <4>1, <5>1
      <4> QED BY <4>1
    <3>2. rows[n] \subseteq rows[n + 1] BY <1>1
    <3>3. open(n) BY <1>1, <3>1
    <3>4. Cardinality(rows[n]) >= n + 1 BY <3>3
    <3>5. IsFiniteSet(rows[n + 1]) /\ Cardinality(rows[n + 1]) \in Nat
          /\ Cardinality(rows[n]) \in Nat /\ n \in Nat
      BY <2>1
    <3>6. /\ Cardinality(rows[n]) <= Cardinality(rows[n + 1])
          /\ Cardinality(rows[n]) # Cardinality(rows[n + 1])
      BY <3>1, <3>2, <3>5, FS_Subset
    <3> QED BY <3>4, <3>5, <3>6
  <2> HIDE DEF T
  <2>4. Nat \subseteq T BY <2>2, <2>3, NatSetInduction
  <2> QED BY <2>4 DEF T
<1> DEFINE N == Cardinality(S)
<1> DEFINE final == rows[N]
<1>6. Cardinality(final) \in Nat /\ Cardinality(final) <= N
  BY <1>2, <1>3, FS_Subset, FS_CardinalityType
<1>7. Workers(final, m, S) \subseteq final BY <1>2, <1>5, <1>6
<1> QED BY <1>2, <1>3, <1>4, <1>7 DEF IsLeast

\* Subtree is that least set.
LEMMA SubtreeIsLeast ==
  ASSUME NEW roots, NEW m, NEW S, IsFiniteSet(S)
  PROVE IsLeast(Subtree(roots, m, S), roots, m, S)
<1>1. PICK rows : IsRounds(rows, roots, m, S) /\ Subtree(roots, m, S) = rows[Cardinality(S)]
  <2> DEFINE chosen == CHOOSE f : IsRounds(f, roots, m, S)
  <2>1. Subtree(roots, m, S) = chosen[Cardinality(S)] BY DEF Subtree, IsRounds
  <2>2. IsRounds(chosen, roots, m, S) BY RoundsExist
  <2> HIDE DEF chosen
  <2> QED BY <2>1, <2>2
<1>2. IsLeast(rows[Cardinality(S)], roots, m, S) BY <1>1, RoundsEnd
<1> QED BY <1>1, <1>2

\* At the start everybody is live and without a manager.
LEMMA PeopleInitInv == PeopleInit => PeopleTypeOK
  BY PeopleAssumption DEF PeopleInit, PeopleTypeOK

\* Every change of the registry keeps its types.
LEMMA PeopleStepInv == PeopleTypeOK /\ [PeopleNext]_peopleVars => PeopleTypeOK'
<1> SUFFICES ASSUME PeopleTypeOK, [PeopleNext]_peopleVars PROVE PeopleTypeOK' OBVIOUS
<1>1. ASSUME NEW u \in Users, NEW m \in Users \cup {NoManager}, SetManager(u, m)
      PROVE PeopleTypeOK'
  BY <1>1 DEF SetManager, PeopleTypeOK
<1>2. ASSUME NEW u \in Users, DeleteOrRestore(u) PROVE PeopleTypeOK'
  BY <1>2 DEF DeleteOrRestore, PeopleTypeOK
<1>3. ASSUME NEW u \in Users, PassOn(u) PROVE PeopleTypeOK' BY <1>3 DEF PassOn, PeopleTypeOK
<1>4. CASE LeaveDraft BY <1>4 DEF LeaveDraft, PeopleTypeOK
<1>5. CASE UNCHANGED peopleVars BY <1>5 DEF peopleVars, PeopleTypeOK
<1> QED BY <1>1, <1>2, <1>3, <1>4, <1>5 DEF PeopleNext

\* Whatever the hierarchy is, the answers of the routes agree.
LEMMA TypedSeesWhom == PeopleTypeOK => WhoSeesWhom
<1> SUFFICES ASSUME PeopleTypeOK PROVE WhoSeesWhom OBVIOUS
<1>1. IsFiniteSet(live) BY PeopleAssumption, FS_Subset DEF PeopleTypeOK
<1>2. \A v : /\ Below(v) \subseteq live /\ {v} \cap live \subseteq Below(v)
             /\ Workers(Below(v), manager, live) \subseteq Below(v)
             /\ \A C : {v} \cap live \subseteq C /\ Workers(C, manager, live) \subseteq C
                         => Below(v) \subseteq C
  BY <1>1, SubtreeIsLeast DEF Below, IsLeast
<1>3. SubtreeIsClosure
  <2> SUFFICES ASSUME NEW v \in Users
               PROVE Below(v) = LET closed == {S \in SUBSET live : {v} \cap live \subseteq S
                                               /\ Workers(S, manager, live) \subseteq S}
                                IN {u \in live : \A S \in closed : u \in S}
    BY DEF SubtreeIsClosure
  <2> DEFINE closed == {S \in SUBSET live : {v} \cap live \subseteq S
                                            /\ Workers(S, manager, live) \subseteq S}
             all == {u \in live : \A S \in closed : u \in S}
  <2>1. Below(v) \in closed BY <1>2
  <2>2. \A S \in closed : Below(v) \subseteq S BY <1>2
  <2> HIDE DEF closed
  <2>3. Below(v) = all BY <1>2, <2>1, <2>2
  <2> QED BY <2>3 DEF closed
<1>4. \A v : \A w \in Below(v) : Below(w) \subseteq Below(v)
  BY <1>2
<1>5. \A v : v \notin live => Below(v) = {}
  <2> SUFFICES ASSUME NEW v, v \notin live PROVE Below(v) = {} OBVIOUS
  <2>1. {v} \cap live \subseteq {} /\ Workers({}, manager, live) \subseteq {} BY DEF Workers
  <2>2. Below(v) \subseteq {} BY <1>2, <2>1
  <2> QED BY <2>2
<1>6. ManagersSeeMore BY <1>4, <1>5 DEF ManagersSeeMore
<1>7. OfferedOpens
  <2> SUFFICES ASSUME NEW v \in Users, NEW p \in Profiles, NEW u \in PartnersOffered(v, p)
               PROVE /\ PartnerOpens(v, p, u)
                     /\ Observer(p) \/ Team(u) \subseteq Below(v) \cup SnapshotTeam[u]
    BY DEF OfferedOpens
  <2>1. /\ PerformanceGuard(p)
        /\ u = v \/ (CanSelectPartners(p) /\ u \in Options(p, v, Below(v), RolloutPartners \cap live))
    BY DEF PartnersOffered, AllowedPartners
  <2>2. PartnerOpens(v, p, u) BY <2>1 DEF PartnerOpens, Options, CanSelect
  <2>3. ~Observer(p) => Below(u) \subseteq Below(v)
    BY <2>1, <1>4 DEF Options
  <2> QED BY <2>2, <2>3 DEF Team
<1>8. EditableIsSavable
  <2> SUFFICES ASSUME NEW v \in live, NEW p \in Profiles
               PROVE /\ Listed(v, p) => (ShownEditable(v, p) <=> SaveAccepted(v, p))
                     /\ SaveAccepted(v, p) => Listed(v, p)
    BY DEF EditableIsSavable
  <2>1. v \in Below(v) BY <1>2
  <2>2. Admin \in p => SeesAll(p, {"QUOTE_VIEW_ALL"}) BY DEF SeesAll
  <2>3. /\ WriteGuard(p) <=> ("QUOTE_NEW_ORIGINATION_FLOW" \in p
                               /\ ("QUOTE_CREATE" \in p \/ Admin \in p))
        /\ WriteGuard(p) => ReadGuard(p)
        /\ ReadGuard(p) => "QUOTE_NEW_ORIGINATION_FLOW" \in p
    BY DEF WriteGuard, ReadGuard, GuardPasses
  <2> QED BY <2>1, <2>2, <2>3 DEF ShownEditable, SaveAccepted, Listed
<1> QED BY <1>3, <1>6, <1>7, <1>8 DEF WhoSeesWhom
-----------------------------------------------------------------------------
(***************************************************************************)
(* The screens over the contracts (Portfolio).                             *)
(***************************************************************************)

\* The statuses of an instalment.
SlipStatuses == {"not_paid", "partially_paid", "paid", "renegotiated"}

\* What is in the portfolio has been disbursed, what is pending has not, and a
\* contract is closed when nothing of it is open.
StatusesKept ==
  \A c \in Contracts : /\ status[c] \in PortfolioStatuses => c \in disbursed
                       /\ status[c] = "pending" => c \notin disbursed
                       /\ status[c] = "closed" => \A i \in Of(c) : ~Open(i)

\* That, and what a payment and a renegotiation leave behind.
PortfolioInv ==
  /\ PortfolioTypeOK
  /\ slip \in [Installments -> [status : SlipStatuses, paid : Nat, clearing : BOOLEAN]]
  /\ \A i \in Installments : slip[i].clearing => Open(i)
  /\ StatusesKept

\* At the start nothing is paid and nothing disbursed.
LEMMA PortfolioInitInv == PortfolioInit => PortfolioInv
<1> SUFFICES ASSUME PortfolioInit PROVE PortfolioInv OBVIOUS
<1> USE PortfolioAssumption, SizesAssumption
<1>1. \A i \in Installments :
        /\ slip[i] = [status |-> "not_paid", paid |-> 0, clearing |-> FALSE]
        /\ Amount[i] \in Nat \ {0}
  BY DEF PortfolioInit
<1>2. slip \in [Installments -> [status : SlipStatuses, paid : Nat, clearing : BOOLEAN]]
  BY DEF PortfolioInit, SlipStatuses
<1>3. \A i \in Installments : /\ slip[i].paid \in 0 .. Amount[i] /\ ~slip[i].clearing
                              /\ Open(i) /\ slip[i].paid < Amount[i]
                              /\ slip[i].status # "renegotiated"
  BY <1>1 DEF Open, OpenStatuses
<1>4. PortfolioTypeOK
  BY <1>3 DEF PortfolioInit, PortfolioTypeOK
<1>5. StatusesKept
  BY DEF PortfolioInit, PortfolioStatuses, StatusesKept
<1> QED BY <1>2, <1>3, <1>4, <1>5 DEF PortfolioInv

\* A step that leaves the instalments alone.
LEMMA SlipsUntouched ==
  ASSUME PortfolioInv, slip' = slip,
         today' \in 0 .. Days, overhauled' \subseteq Contracts, disbursed' \subseteq Contracts,
         status' \in [Contracts -> {"pending", "disbursed", "active", "closed", "cancelled"}],
         agent' \in [Contracts -> Partners \cup {NoAgent}],
         StatusesKept'
  PROVE PortfolioInv'
  BY DEF PortfolioInv, PortfolioTypeOK, Open

\* A step that changes the instalments, each into one that is well kept.
WellKept(i, row) ==
  /\ row \in [status : SlipStatuses, paid : Nat, clearing : BOOLEAN]
  /\ row.paid \in 0 .. Amount[i]
  /\ row.status \in OpenStatuses <=> (row.paid < Amount[i] /\ row.status # "renegotiated")
  /\ row.clearing => row.status \in OpenStatuses

\* Such a step keeps the invariant.
LEMMA SlipsWellKept ==
  ASSUME PortfolioInv, UNCHANGED <<today, status, agent, disbursed>>, overhauled' \subseteq Contracts,
         slip' = [i \in Installments |-> slip'[i]], \A i \in Installments : WellKept(i, slip'[i]),
         \A i \in Installments : slip'[i].status \in OpenStatuses => Open(i)
  PROVE PortfolioInv'
<1>1. slip' \in [Installments -> [status : SlipStatuses, paid : Nat, clearing : BOOLEAN]]
  BY DEF WellKept
<1>2. PortfolioTypeOK' BY DEF PortfolioInv, PortfolioTypeOK, WellKept, Open
<1>3. StatusesKept' BY DEF PortfolioInv, StatusesKept, Open, Of
<1> QED BY <1>1, <1>2, <1>3 DEF PortfolioInv, WellKept, Open

\* Before the step every instalment is well kept.
LEMMA SlipIsWellKept ==
  ASSUME PortfolioInv, NEW i \in Installments
  PROVE /\ WellKept(i, slip[i]) /\ slip = [j \in Installments |-> slip[j]]
        /\ Amount[i] \in Nat \ {0} /\ (slip[i].clearing => Open(i))
  BY PortfolioAssumption DEF PortfolioInv, PortfolioTypeOK, WellKept, Open

\* Payments, renegotiations and what happens to the contracts keep the invariant.
LEMMA PortfolioStepInv == PortfolioInv /\ [PortfolioNext]_portfolioVars => PortfolioInv'
<1> SUFFICES ASSUME PortfolioInv, [PortfolioNext]_portfolioVars PROVE PortfolioInv' OBVIOUS
<1> USE PortfolioAssumption, SizesAssumption
<1>0. /\ today \in 0 .. Days /\ overhauled \subseteq Contracts /\ disbursed \subseteq Contracts
      /\ status \in [Contracts -> {"pending", "disbursed", "active", "closed", "cancelled"}]
      /\ agent \in [Contracts -> Partners \cup {NoAgent}]
      /\ StatusesKept
  BY DEF PortfolioInv, PortfolioTypeOK
<1>k. ASSUME UNCHANGED <<status, disbursed, slip>> PROVE StatusesKept'
  BY <1>0, <1>k DEF StatusesKept, Open, Of
<1>1. ASSUME NEW c \in Contracts, Disburse(c) PROVE PortfolioInv'
  <2>1. DisbursedAs[c] \in PortfolioStatuses /\ DisbursedAs[c] \notin {"pending", "closed"}
    BY DEF PortfolioStatuses
  <2>2. StatusesKept' BY <1>0, <1>1, <2>1 DEF Disburse, StatusesKept, Open, Of
  <2> QED BY <1>0, <1>1, <2>2, SlipsUntouched DEF Disburse
<1>2. ASSUME NEW c \in Contracts, NEW s \in {"closed", "cancelled"}, EndContract(c, s)
      PROVE PortfolioInv'
  <2>1. StatusesKept'
    BY <1>0, <1>2 DEF EndContract, StatusesKept, PortfolioStatuses, Open, Of
  <2> QED BY <1>0, <1>2, <2>1, SlipsUntouched DEF EndContract
<1>3. ASSUME NEW c \in Contracts, NEW a \in Partners \cup {NoAgent}, Reassign(c, a)
      PROVE PortfolioInv'
  BY <1>0, <1>k, <1>3, SlipsUntouched DEF Reassign
<1>4. ASSUME NextDay PROVE PortfolioInv'
  BY <1>0, <1>k, <1>4, SlipsUntouched DEF NextDay
<1>5. ASSUME NEW i \in Installments, StartPayment(i) PROVE PortfolioInv'
  <2>1. slip' = [slip EXCEPT ![i].clearing = TRUE] /\ slip[i].status \in OpenStatuses
        /\ UNCHANGED <<today, status, agent, disbursed, overhauled>>
    BY <1>5 DEF StartPayment
  <2>2. slip' = [j \in Installments |-> slip'[j]] BY <2>1, SlipIsWellKept
  <2>3. ASSUME NEW j \in Installments PROVE WellKept(j, slip'[j])
    <3>1. WellKept(j, slip[j]) /\ slip = [k \in Installments |-> slip[k]] BY SlipIsWellKept
    <3>2. CASE j # i BY <2>1, <3>1, <3>2
    <3>3. CASE j = i
      <4> DEFINE r == slip[i]
      <4>1. slip'[j] = [r EXCEPT !.clearing = TRUE] BY <2>1, <3>1, <3>3
      <4>2. WellKept(i, r) /\ r.status \in OpenStatuses BY <2>1, <3>1, <3>3
      <4> HIDE DEF r
      <4>3. WellKept(i, [r EXCEPT !.clearing = TRUE]) BY <4>2 DEF WellKept
      <4> QED BY <3>3, <4>1, <4>3
    <3> QED BY <3>2, <3>3
  <2>4. \A j \in Installments : slip'[j].status \in OpenStatuses => Open(j)
    <3> SUFFICES ASSUME NEW j \in Installments, slip'[j].status \in OpenStatuses PROVE Open(j)
      OBVIOUS
    <3>1. slip = [k \in Installments |-> slip[k]] BY SlipIsWellKept
    <3>2. CASE j # i BY <2>1, <3>1, <3>2 DEF Open
    <3>3. CASE j = i BY <2>1, <3>3 DEF Open
    <3> QED BY <3>2, <3>3
  <2> QED BY <1>0, <2>1, <2>2, <2>3, <2>4, SlipsWellKept
<1>6. ASSUME NEW i \in Installments, NEW p \in 1 .. Amount[i], Credit(i, p) PROVE PortfolioInv'
  <2> DEFINE row == [status |-> IF slip[i].paid + p = Amount[i] THEN "paid" ELSE "partially_paid",
                     paid |-> slip[i].paid + p, clearing |-> FALSE]
  <2>1. slip' = [slip EXCEPT ![i] = row] /\ slip[i].paid + p <= Amount[i]
        /\ UNCHANGED <<today, status, agent, disbursed, overhauled>>
    BY <1>6 DEF Credit
  <2>2. slip[i].paid \in Nat /\ Amount[i] \in Nat /\ p \in Nat BY SlipIsWellKept DEF WellKept
  <2>3. WellKept(i, row)
    <3> DEFINE total == slip[i].paid + p
    <3>1. total \in Nat /\ total <= Amount[i] /\ Amount[i] \in Nat BY <2>1, <2>2
    <3>l. total # Amount[i] => total < Amount[i]
      <4>1. total \in Int /\ Amount[i] \in Int /\ total <= Amount[i] BY <3>1
      <4> HIDE DEF total
      <4> QED BY <4>1, LessIfNotEqual, Zenon
    <3>2. row.paid = total /\ ~row.clearing OBVIOUS
    <3>s. row.status = IF total = Amount[i] THEN "paid" ELSE "partially_paid" OBVIOUS
    <3>r. row = [status |-> row.status, paid |-> total, clearing |-> FALSE] OBVIOUS
    <3> HIDE DEF total, row
    <3>3. row \in [status : SlipStatuses, paid : Nat, clearing : BOOLEAN]
      <4>1. row.status \in SlipStatuses BY <3>s DEF SlipStatuses
      <4>2. \A st \in SlipStatuses : [status |-> st, paid |-> total, clearing |-> FALSE]
                                       \in [status : SlipStatuses, paid : Nat, clearing : BOOLEAN]
        BY <3>1
      <4> QED BY <3>r, <4>1, <4>2
    <3>4. row.status \in OpenStatuses <=> (row.paid < Amount[i] /\ row.status # "renegotiated")
      <4>1. CASE total = Amount[i]
        <5>1. row.status = "paid" BY <3>s, <4>1
        <5>2. ~(row.paid < Amount[i]) BY <3>1, <3>2, <4>1
        <5> QED BY <5>1, <5>2 DEF OpenStatuses
      <4>2. CASE total # Amount[i]
        <5>1. row.status = "partially_paid" BY <3>s, <4>2
        <5>2. row.paid < Amount[i] BY <3>l, <3>2, <4>2, Zenon
        <5> QED BY <5>1, <5>2 DEF OpenStatuses
      <4> QED BY <4>1, <4>2
    <3> QED BY <3>1, <3>2, <3>3, <3>4 DEF WellKept
  <2> HIDE DEF row
  <2>4. slip = [k \in Installments |-> slip[k]] /\ \A j \in Installments : WellKept(j, slip[j])
    BY SlipIsWellKept
  <2>5. slip' = [j \in Installments |-> slip'[j]] BY <2>1, <2>4
  <2>6. \A j \in Installments : WellKept(j, slip'[j]) BY <2>1, <2>3, <2>4
  <2>7. Open(i) BY <1>6, SlipIsWellKept DEF Credit
  <2>8. \A j \in Installments : slip'[j].status \in OpenStatuses => Open(j)
    BY <2>1, <2>4, <2>7 DEF Open
  <2> QED BY <1>0, <2>1, <2>5, <2>6, <2>8, SlipsWellKept
<1>7. ASSUME NEW c \in Contracts, NEW S \in SUBSET Of(c), Renegotiate(c, S) PROVE PortfolioInv'
  <2>1. /\ slip' = [i \in Installments |->
                      IF i \in S THEN [slip[i] EXCEPT !.status = "renegotiated"] ELSE slip[i]]
        /\ overhauled' = overhauled \cup {c} /\ UNCHANGED <<today, status, agent, disbursed>>
        /\ \A i \in S : ~slip[i].clearing
    BY <1>7 DEF Renegotiate
  <2>2. slip' = [j \in Installments |-> slip'[j]] BY <2>1
  <2>3. ASSUME NEW j \in Installments
        PROVE WellKept(j, slip'[j]) /\ (slip'[j].status \in OpenStatuses => Open(j))
    <3>1. WellKept(j, slip[j]) BY SlipIsWellKept
    <3>2. CASE j \notin S BY <2>1, <3>1, <3>2 DEF Open
    <3>3. CASE j \in S
      <4> DEFINE r == slip[j]
      <4>1. slip'[j] = [r EXCEPT !.status = "renegotiated"] BY <2>1, <3>3
      <4>2. WellKept(j, r) /\ ~r.clearing BY <2>1, <3>1, <3>3
      <4> HIDE DEF r
      <4>3. WellKept(j, [r EXCEPT !.status = "renegotiated"])
        BY <4>2 DEF WellKept, SlipStatuses, OpenStatuses
      <4>4. slip'[j].status = "renegotiated" BY <4>1, <4>2 DEF WellKept
      <4> QED BY <4>1, <4>3, <4>4 DEF OpenStatuses
    <3> QED BY <3>2, <3>3
  <2>4. overhauled' \subseteq Contracts BY <1>0, <2>1
  <2> QED BY <2>1, <2>2, <2>3, <2>4, SlipsWellKept
<1>8. CASE UNCHANGED portfolioVars
  BY <1>0, <1>k, <1>8, SlipsUntouched DEF portfolioVars
<1> QED BY <1>1, <1>2, <1>3, <1>4, <1>5, <1>6, <1>7, <1>8 DEF PortfolioNext

\* An instalment, its money and its contract.
LEMMA InstallmentFacts ==
  ASSUME PortfolioInv, NEW i \in Installments
  PROVE /\ Due[i] \in Nat /\ today \in Nat /\ Delay(i) \in Int
        /\ i.contract \in Contracts /\ i.number \in Nat /\ i \in Of(i.contract)
        /\ Balance(i) \in Nat /\ Pending(i) \in Nat
        /\ Open(i) => Balance(i) > 0 /\ slip[i].status # "renegotiated" /\ slip[i].status # "paid"
        /\ ~Open(i) /\ slip[i].status # "renegotiated" => Pending(i) = 0
        /\ Late(i) => Open(i) /\ Delay(i) >= 1
        /\ \A j \in Installments : j.contract = i.contract /\ j.number = i.number => j = i
<1> USE PortfolioAssumption, SizesAssumption
<1>1. WellKept(i, slip[i]) /\ Amount[i] \in Nat \ {0} BY SlipIsWellKept
<1>2. /\ Due[i] \in Nat /\ today \in Nat /\ i.contract \in Contracts /\ i.number \in Nat
      /\ \A j \in Installments : j.contract = i.contract /\ j.number = i.number => j = i
  <2>1. \A j \in Installments : /\ j = [contract |-> j.contract, number |-> j.number]
                               /\ j.contract \in Contracts /\ j.number \in Nat
    <3> TAKE j \in Installments
    <3>1. j \in [contract : Contracts, number : Nat] BY PortfolioAssumption
    <3> QED BY <3>1
  <2>2. \A j \in Installments : j.contract = i.contract /\ j.number = i.number => j = i
    BY <2>1
  <2>3. Due[i] \in Nat /\ today \in Nat BY DEF PortfolioInv, PortfolioTypeOK
  <2> QED BY <2>1, <2>2, <2>3
<1>3. Delay(i) \in Int /\ (Late(i) => Open(i) /\ Delay(i) >= 1) /\ i \in Of(i.contract)
  BY <1>2 DEF Delay, Late, Of
<1>4. slip[i].paid \in 0 .. Amount[i] /\ (slip[i].clearing => Open(i))
      /\ (Open(i) <=> (slip[i].paid < Amount[i] /\ slip[i].status # "renegotiated"))
  BY <1>1 DEF WellKept, Open
<1>5. Open(i) => slip[i].status # "paid" BY DEF Open, OpenStatuses
<1>6. /\ Balance(i) \in Nat /\ (Open(i) => Balance(i) > 0)
      /\ ~Open(i) /\ slip[i].status # "renegotiated" => Balance(i) = 0
  BY <1>1, <1>4 DEF Balance
<1>7. Pending(i) \in Nat /\ (~Open(i) /\ slip[i].status # "renegotiated" => Pending(i) = 0)
  BY <1>4, <1>6 DEF Pending
<1> QED BY <1>2, <1>3, <1>4, <1>5, <1>6, <1>7

\* Only an open instalment counts as delinquent.
LEMMA ContributionIsNat ==
  ASSUME PortfolioInv, NEW i \in Installments
  PROVE Contribution(i) \in Nat /\ (Contribution(i) > 0 => Open(i))
  BY InstallmentFacts DEF Contribution

\* The longest of the delays of some late instalments, 0 without one.
Delays(D) == {0} \cup {Delay(i) : i \in D}

\* The longest delay of late instalments is that of one of them.
LEMMA LongestOf ==
  ASSUME PortfolioInv, NEW D, D \subseteq Installments, \A i \in D : Late(i)
  PROVE /\ Max(Delays(D)) \in Nat
        /\ \A i \in D : Delay(i) \in Int /\ Max(Delays(D)) >= Delay(i) /\ Delay(i) >= 1
        /\ Max(Delays(D)) > 0 => D # {}
<1> DEFINE f == [i \in D |-> Delay(i)]
<1>1. IsFiniteSet(D) BY SizesAssumption, FS_Subset
<1>2. DOMAIN f = D /\ {f[i] : i \in DOMAIN f} = {Delay(i) : i \in D} OBVIOUS
<1> HIDE DEF f
<1>3. IsFiniteSet({Delay(i) : i \in D}) BY <1>1, <1>2, RangeIsFinite
<1>4. IsFiniteSet({0}) BY FS_Singleton
<1>5. IsFiniteSet(Delays(D)) BY <1>3, <1>4, FS_Union DEF Delays
<1>6. \A i \in D : Delay(i) \in Int /\ Delay(i) >= 1 BY InstallmentFacts
<1>7. Delays(D) \subseteq Int /\ Delays(D) # {} /\ 0 \in Delays(D) BY <1>6 DEF Delays
<1>8. /\ Max(Delays(D)) \in Delays(D) /\ \A y \in Delays(D) : Max(Delays(D)) >= y
  BY <1>5, <1>7, MaxIs
<1>9. \A i \in D : Delay(i) \in Delays(D) BY DEF Delays
<1>10. Max(Delays(D)) > 0 => D # {} BY <1>8 DEF Delays
<1> QED BY <1>6, <1>7, <1>8, <1>9, <1>10

\* The drag of the Home is that of the view, contract by contract the view shows.
LEMMA DelinquencyOfOne ==
  ASSUME PortfolioInv, NEW c \in Contracts \ Internal, InPortfolio(c)
  PROVE HomeDelinquency(c) = Total(FactRows \cap Of(c), Contribution)
<1> USE SizesAssumption
<1> DEFINE F == FactRows \cap Of(c)
           O == {i \in Of(c) : Open(i)}
           L == {i \in Of(c) : Late(i)}
           f == [i \in F |-> Contribution(i)]
           o == [i \in O |-> Balance(i)]
           l == [i \in L |-> Balance(i)]
           aging == Max(Delays(L))
<1>1. Of(c) \subseteq Installments /\ \A i \in Of(c) : i.contract = c BY DEF Of
<1>2. c \in disbursed \ Internal /\ status[c] # "cancelled"
  BY DEF InPortfolio, PortfolioInv, PortfolioStatuses, StatusesKept
<1>3. O \subseteq F /\ L \subseteq O
  <2>1. \A i \in Of(c) : Open(i) => i \in F
    BY <1>1, <1>2, InstallmentFacts DEF FactRows
  <2>2. \A i \in L : Open(i) BY DEF Late
  <2> QED BY <2>1, <2>2
<1>4. {i \in F : Late(i)} = L BY <1>3
<1>5. LongestDelay(c) = aging BY <1>4 DEF LongestDelay, Delays
<1>6. aging \in Nat /\ (\A i \in L : Delay(i) \in Int /\ aging >= Delay(i) /\ Delay(i) >= 1)
      /\ (aging > 0 => L # {})
  <2>1. L \subseteq Installments /\ \A i \in L : Late(i) BY <1>1
  <2> HIDE DEF L
  <2> QED BY <2>1, LongestOf
<1>7. HomeDelinquency(c) = CASE aging > DragAfter -> SumFunction(o)
                             [] aging \in 1 .. DragAfter -> SumFunction(l)
                             [] OTHER -> 0
  BY DEF HomeDelinquency, Delays, Total
<1>8. Total(F, Contribution) = SumFunction(f) BY DEF Total
<1>9. IsFiniteSet(F) BY <1>1, FS_Subset
<1>10. /\ \A i \in F : /\ i \in Of(c) /\ Contribution(i) \in Nat /\ Balance(i) \in Nat
                       /\ Contribution(i) = IF Open(i) /\ (aging > DragAfter \/ Due[i] < today)
                                            THEN Balance(i) ELSE 0
       /\ \A i \in Of(c) : Balance(i) \in Nat
  BY <1>1, <1>5, InstallmentFacts, ContributionIsNat DEF Contribution
<1>11. \A i \in F : (i \in O <=> Open(i)) /\ (i \in L <=> Open(i) /\ Due[i] < today)
  BY <1>10 DEF Late
<1>12. f \in [F -> Nat] /\ o \in [O -> Nat] /\ l \in [L -> Nat]
  BY <1>10
<1>13. /\ \A i \in F : f[i] = Contribution(i)
       /\ \A i \in O : o[i] = Balance(i)
       /\ \A i \in L : l[i] = Balance(i)
  OBVIOUS
<1> HIDE DEF F, O, L, f, o, l, aging
<1>14. CASE aging > DragAfter
  <2>1. \A i \in O : f[i] = o[i] BY <1>3, <1>10, <1>11, <1>13, <1>14
  <2>2. \A i \in F \ O : f[i] = 0 BY <1>10, <1>11, <1>13
  <2>3. SumFunction(f) = SumFunction(o) BY <1>3, <1>9, <1>12, <2>1, <2>2, SumOfPart
  <2> QED BY <1>7, <1>8, <1>14, <2>3 DEF F
<1>15. CASE aging \in 1 .. DragAfter
  <2>1. L \subseteq F /\ ~(aging > DragAfter) BY <1>3, <1>6, <1>15
  <2>2. \A i \in L : f[i] = l[i] BY <1>10, <1>11, <1>13, <2>1
  <2>3. \A i \in F \ L : f[i] = 0 BY <1>10, <1>11, <1>13, <2>1
  <2>4. SumFunction(f) = SumFunction(l) BY <1>9, <1>12, <2>1, <2>2, <2>3, SumOfPart
  <2> QED BY <1>7, <1>8, <1>15, <2>1, <2>4 DEF F
<1>16. CASE ~(aging > DragAfter) /\ aging \notin 1 .. DragAfter
  <2>1. L = {} BY <1>6, <1>16
  <2>2. \A i \in F : f[i] = 0 BY <1>10, <1>11, <1>13, <1>16, <2>1
  <2>3. Tokens(f, F) = {} BY <2>2 DEF Tokens
  <2>4. SumFunction(f) = 0 BY <1>9, <1>12, <2>3, SumCounts, FS_EmptySet
  <2> QED BY <1>7, <1>8, <1>16, <2>4 DEF F
<1> QED BY <1>14, <1>15, <1>16

\* A fact row with a contribution is that of a contract with a late instalment.
LEMMA DelinquentIsLate ==
  ASSUME PortfolioInv, NEW c \in Contracts
  PROVE /\ \A i \in FactRows \cap Of(c) : Late(i) => Contribution(i) > 0
        /\ (\E i \in FactRows \cap Of(c) : Contribution(i) > 0) => \E i \in Of(c) : Late(i)
<1>1. Of(c) \subseteq Installments /\ \A i \in Of(c) : i.contract = c BY DEF Of
<1>2. ASSUME NEW i \in FactRows \cap Of(c), Late(i) PROVE Contribution(i) > 0
  <2>1. Open(i) /\ Due[i] < today BY <1>2 DEF Late
  <2>2. Contribution(i) = Balance(i) BY <2>1 DEF Contribution
  <2> QED BY <1>1, <2>1, <2>2, InstallmentFacts
<1>3. ASSUME NEW i \in FactRows \cap Of(c), Contribution(i) > 0 PROVE \E j \in Of(c) : Late(j)
  <2> DEFINE L == {j \in FactRows \cap Of(c) : Late(j)}
  <2>1. L \subseteq Installments /\ \A j \in L : Late(j) BY <1>1
  <2>2. LongestDelay(c) = Max(Delays(L)) BY DEF LongestDelay, Delays
  <2> HIDE DEF L
  <2>3. LongestDelay(c) \in Nat /\ (LongestDelay(c) > 0 => L # {}) BY <2>1, <2>2, LongestOf
  <2>4. Open(i) /\ (LongestDelay(c) > DragAfter \/ Due[i] < today)
    <3>1. Contribution(i) = IF Open(i) /\ (LongestDelay(c) > DragAfter \/ Due[i] < today)
                            THEN Balance(i) ELSE 0
      BY <1>1 DEF Contribution
    <3> QED BY <1>3, <3>1
  <2>5. CASE Due[i] < today BY <2>4, <2>5 DEF Late
  <2>6. CASE LongestDelay(c) > DragAfter
    <3>1. L # {} BY <2>3, <2>6, SizesAssumption
    <3> QED BY <3>1 DEF L
  <2> QED BY <2>4, <2>5, <2>6
<1> QED BY <1>2, <1>3

\* Of a contract of an internal company the view has no row.
LEMMA NothingInternal ==
  ASSUME NEW c \in Internal
  PROVE Total(FactRows \cap Of(c), Contribution) = 0
<1> DEFINE f == [i \in FactRows \cap Of(c) |-> Contribution(i)]
<1>1. FactRows \cap Of(c) = {} BY DEF FactRows, Of
<1>2. f \in [{} -> Nat] BY <1>1
<1>3. Tokens(f, {}) = {} BY DEF Tokens
<1>4. Total(FactRows \cap Of(c), Contribution) = SumFunction(f) BY DEF Total
<1> HIDE DEF f
<1>5. SumFunction(f) = 0 BY <1>2, <1>3, SumCounts, FS_EmptySet
<1> QED BY <1>4, <1>5

\* The Home and the view count the same delinquency.
LEMMA InvDelinquencyAgrees == PortfolioInv => DelinquencyAgrees
<1> SUFFICES ASSUME PortfolioInv, NEW u \in Partners
             PROVE /\ \A c \in HomeContracts(u) :
                        Total(FactRows \cap Of(c), Contribution)
                          = IF c \in Internal THEN 0 ELSE HomeDelinquency(c)
                   /\ HomeOverdue(u) \cap Celcoin
                        = {c \in Filtered(u, "onlyDelinquency") : InPortfolio(c)}
  BY DEF DelinquencyAgrees
<1>1. ASSUME NEW c \in HomeContracts(u)
      PROVE Total(FactRows \cap Of(c), Contribution)
              = IF c \in Internal THEN 0 ELSE HomeDelinquency(c)
  <2>1. c \in Contracts /\ InPortfolio(c) BY DEF HomeContracts, Mine
  <2>2. CASE c \in Internal BY <2>2, NothingInternal
  <2>3. CASE c \notin Internal BY <2>1, <2>3, DelinquencyOfOne
  <2> QED BY <2>2, <2>3
<1>2. Filtered(u, "onlyDelinquency")
        = {c \in Listable(u) : \E i \in FactRows \cap Of(c) : Contribution(i) > 0}
  BY DEF Filtered
<1>3. ASSUME NEW c \in Contracts \ Internal, InPortfolio(c), NEW i \in Of(c), Late(i)
      PROVE i \in FactRows \cap Of(c)
  <2>1. i \in Installments /\ i.contract = c BY DEF Of
  <2>2. c \in disbursed /\ status[c] # "cancelled"
    BY <1>3 DEF InPortfolio, PortfolioInv, PortfolioStatuses, StatusesKept
  <2>3. slip[i].status # "renegotiated" BY <1>3, <2>1, InstallmentFacts
  <2> QED BY <2>1, <2>2, <2>3 DEF FactRows
<1>4. \A c \in Contracts \ Internal : InPortfolio(c) =>
        ((\E i \in Of(c) : Late(i)) <=> \E i \in FactRows \cap Of(c) : Contribution(i) > 0)
  BY <1>3, DelinquentIsLate
<1>5. HomeOverdue(u) \cap Celcoin = {c \in Filtered(u, "onlyDelinquency") : InPortfolio(c)}
  <2>1. HomeOverdue(u) = {c \in Mine(u) : InPortfolio(c) /\ \E i \in Of(c) : Late(i)}
    BY DEF HomeOverdue, HomeContracts
  <2>2. Mine(u) \subseteq Contracts BY DEF Mine
  <2>3. Listable(u) = Mine(u) \cap Celcoin /\ Celcoin \cap Internal = {}
    BY PortfolioAssumption DEF Listable
  <2> QED BY <1>2, <1>4, <2>1, <2>2, <2>3
<1> QED BY <1>1, <1>5

\* The last due date of a contract is the due date of one of its instalments.
LEMMA LastDueIsNat ==
  ASSUME PortfolioInv, NEW c \in Contracts
  PROVE LastDue(c) \in Nat
<1> USE PortfolioAssumption, SizesAssumption
<1> DEFINE f == [i \in Of(c) |-> Due[i]]
           D == {Due[i] : i \in Of(c)}
<1>1. Of(c) \subseteq Installments /\ \A i \in Of(c) : Due[i] \in Nat BY DEF Of
<1>2. IsFiniteSet(Of(c)) BY <1>1, FS_Subset
<1>3. DOMAIN f = Of(c) /\ {f[i] : i \in DOMAIN f} = D OBVIOUS
<1>4. D \subseteq Nat /\ D # {}
  <2>1. PICK i \in Installments : i.contract = c OBVIOUS
  <2>2. i \in Of(c) BY <2>1 DEF Of
  <2> QED BY <1>1, <2>2
<1> HIDE DEF f, D
<1>5. IsFiniteSet(D) BY <1>2, <1>3, RangeIsFinite
<1>6. Max(D) \in D BY <1>4, <1>5, MaxIs
<1> QED BY <1>4, <1>6 DEF LastDue, D

\* What a card adds up over the contracts of a set is what the list shows of them,
\* line by line.
LEMMA OutstandingIsListed ==
  ASSUME PortfolioInv, NEW u \in Partners, NEW K
  PROVE Total({i \in SummaryRows(u) : i.contract \in K}, Pending)
          = Total(Filtered(u, "onlyActive") \cap K, OutstandingBalance)
<1> USE SizesAssumption
<1> DEFINE Q == Listable(u) \cap K
           R == {i \in SummaryRows(u) : i.contract \in K}
           C == Filtered(u, "onlyActive") \cap K
           S == {i \in R : i.contract \in C}
           r == [i \in R |-> Pending(i)]
           f == [i \in S |-> Pending(i)]
           g == [c \in C |-> OutstandingBalance(c)]
           own == [i \in S |-> i.contract]
<1>1. R \subseteq Installments /\ R = {i \in FactRows : i.contract \in Q}
  BY DEF SummaryRows, FactRows, Listable
<1>2. C = {c \in Q : \E i \in FactRows \cap Of(c) : Pending(i) > 0} BY DEF Filtered
<1>3. C \subseteq Contracts BY <1>2 DEF Listable, Mine
<1>4. IsFiniteSet(R) /\ IsFiniteSet(C) BY <1>1, <1>3, FS_Subset
<1>5. S \subseteq R /\ IsFiniteSet(S)
  <2>1. S \subseteq R OBVIOUS
  <2> HIDE DEF S, R
  <2> QED BY <1>4, <2>1, FS_Subset
<1>6. \A i \in R : Pending(i) \in Nat BY <1>1, InstallmentFacts
<1>7. r \in [R -> Nat] /\ f \in [S -> Nat] /\ own \in [S -> C] BY <1>5, <1>6
<1>8. \A i \in R \ S : Pending(i) = 0
  <2> SUFFICES ASSUME NEW i \in R, i \notin S PROVE Pending(i) = 0 OBVIOUS
  <2>1. i \in FactRows \cap Of(i.contract) /\ i.contract \in Q BY <1>1, InstallmentFacts
  <2>2. ~(Pending(i) > 0) BY <1>2, <2>1
  <2> QED BY <1>6, <2>2
<1>9. SumFunction(r) = SumFunction(f)
  <2>1. \A i \in S : r[i] = f[i] BY <1>5
  <2>2. \A i \in R \ S : r[i] = 0 BY <1>8
  <2> HIDE DEF R, S, r, f
  <2> QED BY <1>4, <1>5, <1>7, <2>1, <2>2, SumOfPart
<1>10. ASSUME NEW c \in C
       PROVE /\ OutstandingBalance(c) = SumFunction([x \in {y \in S : own[y] = c} |-> f[x]])
             /\ OutstandingBalance(c) \in Nat
  <2> DEFINE F == {y \in S : own[y] = c}
             O == {i \in Of(c) : Open(i)}
             h == [x \in F |-> f[x]]
             o == [i \in O |-> Pending(i)]
  <2>1. F = FactRows \cap Of(c)
    <3>1. \A i \in S : own[i] = i.contract OBVIOUS
    <3>2. F = {i \in R : i.contract = c} BY <3>1
    <3>3. c \in Q BY <1>2
    <3>4. F = {i \in FactRows : i.contract = c} BY <1>1, <3>2, <3>3
    <3> QED BY <3>4 DEF FactRows, Of
  <2>2. c \in disbursed \ Internal /\ status[c] # "cancelled"
    <3>1. PICK i \in FactRows \cap Of(c) : TRUE BY <1>2
    <3> QED BY <3>1 DEF FactRows, Of
  <2>3. Of(c) \subseteq Installments /\ \A i \in Of(c) : i.contract = c BY DEF Of
  <2>4. O \subseteq F
    <3>1. \A i \in Of(c) : Open(i) => i \in FactRows
      BY <2>2, <2>3, InstallmentFacts DEF FactRows
    <3> QED BY <2>1, <3>1
  <2>5. F \subseteq S /\ IsFiniteSet(F)
    <3>1. F \subseteq S OBVIOUS
    <3> HIDE DEF F, S
    <3> QED BY <1>5, <3>1, FS_Subset
  <2>6. \A i \in F \ O : Pending(i) = 0
    <3> SUFFICES ASSUME NEW i \in F, i \notin O PROVE Pending(i) = 0 OBVIOUS
    <3>1. i \in Of(c) /\ i \in FactRows /\ ~Open(i) BY <2>1
    <3>2. slip[i].status # "renegotiated" BY <3>1 DEF FactRows
    <3> QED BY <2>3, <3>1, <3>2, InstallmentFacts
  <2>7. /\ h \in [F -> Nat] /\ o \in [O -> Nat]
        /\ \A i \in O : h[i] = o[i]
        /\ \A i \in F \ O : h[i] = 0
    <3>1. \A i \in F : h[i] = Pending(i) /\ Pending(i) \in Nat BY <1>5, <1>6, <2>5
    <3>2. \A i \in O : o[i] = Pending(i) OBVIOUS
    <3>3. h \in [F -> Nat] BY <3>1
    <3>4. o \in [O -> Nat] BY <2>4, <3>1
    <3> HIDE DEF F, O, h, o
    <3> QED BY <2>4, <2>6, <3>1, <3>2, <3>3, <3>4
  <2>8. OutstandingBalance(c) = SumFunction(o) BY DEF OutstandingBalance, Total
  <2>9. IsFiniteSet(O)
    <3> HIDE DEF F, O
    <3> QED BY <2>4, <2>5, FS_Subset
  <2>10. SumFunction(h) = SumFunction(o) /\ SumFunction(o) \in Nat
    <3> HIDE DEF F, O, h, o
    <3>1. SumFunction(h) = SumFunction(o)
      <4>1. IsFiniteSet(F) BY <2>5
      <4>2. \A x \in O : h[x] = o[x] BY <2>7
      <4>3. \A x \in F \ O : h[x] = 0 BY <2>7
      <4>4. h \in [F -> Nat] /\ o \in [O -> Nat] BY <2>7
      <4> QED BY <2>4, <4>1, <4>2, <4>3, <4>4, SumOfPart
    <3>2. SumFunction(o) = Cardinality(Tokens(o, O)) /\ IsFiniteSet(Tokens(o, O))
      BY <2>7, <2>9, SumCounts
    <3> QED BY <3>1, <3>2, FS_CardinalityType
  <2> QED BY <2>8, <2>10
<1>11. g \in [C -> Nat] /\ \A c \in C : g[c] = OutstandingBalance(c) BY <1>10
<1>12. Total(R, Pending) = SumFunction(r) BY DEF Total
<1>13. Total(C, OutstandingBalance) = SumFunction(g) BY DEF Total
<1> HIDE DEF Q, R, C, S, r, f, g, own
<1>14. \A c \in C : g[c] = SumFunction([x \in {y \in S : own[y] = c} |-> f[x]])
  BY <1>10, <1>11
<1>15. SumFunction(f) = SumFunction(g) BY <1>4, <1>5, <1>7, <1>11, <1>14, SumByOwner
<1> QED BY <1>9, <1>12, <1>13, <1>15 DEF C, R

\* Each card of the summary counts and adds up what its filter lists.
LEMMA InvCardsOpenTheirList == PortfolioInv => CardsOpenTheirList
<1> SUFFICES ASSUME PortfolioInv, NEW u \in Partners
             PROVE /\ Summary(u).active = Cardinality(Filtered(u, "onlyActive"))
                   /\ Summary(u).delinquent = Cardinality(Filtered(u, "onlyDelinquency"))
                   /\ Summary(u).outstanding = Total(Filtered(u, "onlyActive"), OutstandingBalance)
                   /\ Summary(u).renegotiated
                        = Total(Filtered(u, "onlyActive") \cap Filtered(u, "onlyRenegotiated"),
                                OutstandingBalance)
                   /\ Filtered(u, "onlyActive")
                        = {c \in HomeActive(u) \cap Celcoin :
                             \E i \in Of(c) : Open(i) /\ ~slip[i].clearing}
                   /\ HomeDueToday(u) \cap Celcoin = Filtered(u, "onlyDueToday")
                   /\ HomeRenewals(u) \cap Celcoin = Filtered(u, "onlyUpcomingRenewal")
  BY DEF CardsOpenTheirList
<1> USE PortfolioAssumption, SizesAssumption
<1>1. /\ Listable(u) = Mine(u) \cap Celcoin /\ Mine(u) \subseteq Contracts
      /\ HomeContracts(u) = {c \in Mine(u) : InPortfolio(c)}
  BY DEF Listable, Mine, HomeContracts
<1>2. /\ SummaryRows(u) = {i \in FactRows : i.contract \in Listable(u)}
      /\ \A i \in FactRows : i \in Of(i.contract)
      /\ \A c : \A i \in FactRows \cap Of(c) : i.contract = c
  BY DEF SummaryRows, Listable, FactRows, Of
<1>3. Summary(u).active = Cardinality(Filtered(u, "onlyActive"))
  <2>1. Filtered(u, "onlyActive") = {c \in Listable(u) : \E i \in FactRows \cap Of(c) : Pending(i) > 0}
    BY DEF Filtered
  <2>2. {i.contract : i \in {j \in SummaryRows(u) : Pending(j) > 0}} = Filtered(u, "onlyActive")
    BY <1>2, <2>1
  <2> QED BY <2>2 DEF Summary
<1>4. Summary(u).delinquent = Cardinality(Filtered(u, "onlyDelinquency"))
  <2>1. Filtered(u, "onlyDelinquency")
          = {c \in Listable(u) : \E i \in FactRows \cap Of(c) : Contribution(i) > 0}
    BY DEF Filtered
  <2>2. {i.contract : i \in {j \in SummaryRows(u) : Contribution(j) > 0}}
          = Filtered(u, "onlyDelinquency")
    BY <1>2, <2>1
  <2> QED BY <2>2 DEF Summary
<1>5. HomeDueToday(u) \cap Celcoin = Filtered(u, "onlyDueToday")
  <2>1. Filtered(u, "onlyDueToday")
          = {c \in Listable(u) : InPortfolio(c) /\ \E i \in Of(c) : Open(i) /\ Due[i] = today}
    BY DEF Filtered
  <2> QED BY <1>1, <2>1 DEF HomeDueToday
<1>6. HomeRenewals(u) \cap Celcoin = Filtered(u, "onlyUpcomingRenewal")
  <2> DEFINE p == Month(today)
  <2>1. Filtered(u, "onlyUpcomingRenewal")
          = {c \in Listable(u) : /\ InPortfolio(c)
                                 /\ LastDue(c) >= p * MonthDays
                                 /\ LastDue(c) < (p + RenewalMonths) * MonthDays}
    BY DEF Filtered
  <2>2. p \in Nat BY Quotient DEF Month, PortfolioInv, PortfolioTypeOK
  <2> HIDE DEF p
  <2>3. ASSUME NEW c \in Contracts
        PROVE Month(LastDue(c)) \in p .. p + RenewalMonths - 1
                <=> (LastDue(c) >= p * MonthDays /\ LastDue(c) < (p + RenewalMonths) * MonthDays)
    <3>1. LastDue(c) \in Nat BY LastDueIsNat
    <3> QED BY <2>2, <3>1, MonthWindow DEF Month
  <2>4. HomeRenewals(u) = {c \in HomeContracts(u) : Month(LastDue(c)) \in p .. p + RenewalMonths - 1}
    BY DEF HomeRenewals, p
  <2> QED BY <1>1, <2>1, <2>3, <2>4
<1>7. Summary(u).outstanding = Total(Filtered(u, "onlyActive"), OutstandingBalance)
  <2>1. {i \in SummaryRows(u) : i.contract \in Contracts} = SummaryRows(u)
        /\ Filtered(u, "onlyActive") \cap Contracts = Filtered(u, "onlyActive")
    BY <1>1, <1>2 DEF Filtered
  <2>2. Summary(u).outstanding = Total(SummaryRows(u), Pending) BY DEF Summary
  <2>3. Total({i \in SummaryRows(u) : i.contract \in Contracts}, Pending)
          = Total(Filtered(u, "onlyActive") \cap Contracts, OutstandingBalance)
    BY OutstandingIsListed
  <2> QED BY <2>1, <2>2, <2>3
<1>8. Summary(u).renegotiated
        = Total(Filtered(u, "onlyActive") \cap Filtered(u, "onlyRenegotiated"), OutstandingBalance)
  <2>1. Filtered(u, "onlyActive") \cap Filtered(u, "onlyRenegotiated")
          = Filtered(u, "onlyActive") \cap overhauled
    BY DEF Filtered
  <2>2. Summary(u).renegotiated = Total({i \in SummaryRows(u) : i.contract \in overhauled}, Pending)
    BY DEF Summary
  <2> QED BY <2>1, <2>2, OutstandingIsListed
<1>9. Filtered(u, "onlyActive")
        = {c \in HomeActive(u) \cap Celcoin : \E i \in Of(c) : Open(i) /\ ~slip[i].clearing}
  <2>1. Filtered(u, "onlyActive") = {c \in Listable(u) : \E i \in FactRows \cap Of(c) : Pending(i) > 0}
    BY DEF Filtered
  <2>2. ASSUME NEW c \in Contracts, NEW i \in FactRows \cap Of(c), Pending(i) > 0
        PROVE InPortfolio(c) /\ Open(i) /\ ~slip[i].clearing
    <3>1. i \in Installments /\ i.contract = c /\ slip[i].status # "renegotiated"
          /\ c \in disbursed /\ status[c] # "cancelled"
      BY DEF FactRows, Of
    <3>2. Open(i) BY <2>2, <3>1, InstallmentFacts
    <3>3. ~slip[i].clearing BY <2>2 DEF Pending
    <3>4. status[c] # "pending" /\ status[c] # "closed"
      BY <3>1, <3>2 DEF PortfolioInv, StatusesKept
    <3>5. status[c] \in {"pending", "disbursed", "active", "closed", "cancelled"}
      BY DEF PortfolioInv, PortfolioTypeOK
    <3> QED BY <3>1, <3>2, <3>3, <3>4, <3>5 DEF InPortfolio, PortfolioStatuses
  <2>3. ASSUME NEW c \in Contracts \ Internal, InPortfolio(c), NEW i \in Of(c),
               Open(i), ~slip[i].clearing
        PROVE i \in FactRows \cap Of(c) /\ Pending(i) > 0
    <3>1. i \in Installments /\ i.contract = c BY DEF Of
    <3>2. c \in disbursed /\ status[c] # "cancelled"
      BY <2>3 DEF InPortfolio, PortfolioInv, PortfolioStatuses, StatusesKept
    <3>3. slip[i].status # "renegotiated" /\ Balance(i) > 0 BY <2>3, <3>1, InstallmentFacts
    <3>4. Pending(i) = Balance(i) BY <2>3 DEF Pending
    <3> QED BY <3>1, <3>2, <3>3, <3>4 DEF FactRows
  <2>4. HomeActive(u) = {c \in Mine(u) : InPortfolio(c) /\ \E i \in Of(c) : Open(i)}
    BY <1>1 DEF HomeActive
  <2>5. Celcoin \cap Internal = {} BY PortfolioAssumption
  <2> QED BY <1>1, <2>1, <2>2, <2>3, <2>4, <2>5
<1> QED BY <1>3, <1>4, <1>5, <1>6, <1>7, <1>8, <1>9

\* The tabs of Cobrança divide what is open and due within the window.
LEMMA InvTabsCover == PortfolioInv => TabsCover
<1> SUFFICES ASSUME PortfolioInv, NEW u \in Partners
             PROVE /\ Overdue(u) \cap Preventive(u) = {}
                   /\ Overdue(u) \cup Preventive(u) =
                        {i \in Installments : /\ Open(i) /\ i.contract \in HomeContracts(u)
                                              /\ Due[i] <= today + WithinDays}
                   /\ {i.contract : i \in Overdue(u)} = HomeOverdue(u)
  BY DEF TabsCover
<1>1. \A i \in Installments : Due[i] \in Nat /\ today \in Nat /\ WithinDays \in Nat
                              /\ i.contract \in Contracts /\ i \in Of(i.contract)
  BY InstallmentFacts, SizesAssumption
<1>2. /\ \A c : c \in HomeContracts(u) <=> (c \in Mine(u) /\ InPortfolio(c))
      /\ \A i \in Overdue(u) \cup Preventive(u) : i \in Installments
  BY DEF HomeContracts, Overdue, Preventive
<1>3. \A i \in Installments :
        /\ i \in Overdue(u) <=> (Open(i) /\ Due[i] < today /\ i.contract \in HomeContracts(u))
        /\ i \in Preventive(u) <=> (/\ Open(i) /\ i.contract \in HomeContracts(u)
                                   /\ Due[i] >= today /\ Due[i] <= today + WithinDays)
  BY <1>2 DEF Overdue, Preventive, Late
<1>4. Overdue(u) \cap Preventive(u) = {} BY <1>1, <1>2, <1>3
<1>5. \A i \in Installments : i \in Overdue(u) \cup Preventive(u)
        <=> (Open(i) /\ i.contract \in HomeContracts(u) /\ Due[i] <= today + WithinDays)
  BY <1>1, <1>3
<1>6. {i.contract : i \in Overdue(u)} = HomeOverdue(u)
  <2>1. HomeOverdue(u) = {c \in HomeContracts(u) : \E i \in Of(c) : Open(i) /\ Due[i] < today}
    BY DEF HomeOverdue, Late
  <2>2. \A c : \A i \in Of(c) : i \in Installments /\ i.contract = c BY DEF Of
  <2> QED BY <1>1, <1>2, <1>3, <2>1, <2>2
<1> QED BY <1>2, <1>4, <1>5, <1>6

\* Of some instalments of a contract one comes before all the others, and one only.
LEMMA FirstOfContract ==
  ASSUME PortfolioInv, NEW c \in Contracts, NEW S, S \subseteq Of(c), S # {}
  PROVE /\ First(S) \in S /\ \A j \in S : Before(First(S), j)
        /\ \A i \in S : (\A j \in S : Before(i, j)) => i = First(S)
<1>1. \A i \in S : /\ i \in Installments /\ i.contract = c /\ Due[i] \in Nat /\ i.number \in Nat
                   /\ \A j \in S : j.number = i.number => j = i
  BY InstallmentFacts DEF Of
<1> DEFINE D == {Due[i] : i \in S}
<1>2. PICK d \in D : \A e \in D : d <= e
  <2>1. D \subseteq Nat /\ D # {} BY <1>1
  <2> HIDE DEF D
  <2> QED BY <2>1, NatMin
<1> DEFINE E == {i \in S : Due[i] = d}
           N == {i.number : i \in E}
<1>3. PICK n \in N : \A m \in N : n <= m
  <2>1. N \subseteq Nat /\ N # {} BY <1>1
  <2> HIDE DEF N
  <2> QED BY <2>1, NatMin
<1>4. PICK i \in E : n = i.number BY <1>3
<1>5. \A j \in S : Before(i, j)
  <2> TAKE j \in S
  <2>1. d <= Due[j] /\ Due[i] = d BY <1>2, <1>4
  <2>2. Due[j] = d => i.number <= j.number BY <1>3, <1>4
  <2>3. i \in S BY <1>4
  <2> QED BY <1>1, <2>1, <2>2, <2>3 DEF Before
<1>6. i \in S BY <1>4
<1> HIDE DEF D, E, N
<1>7. First(S) \in S /\ \A j \in S : Before(First(S), j)
  <2>1. \E k \in S : \A j \in S : Before(k, j) BY <1>5, <1>6
  <2> QED BY <2>1 DEF First
<1>8. ASSUME NEW k \in S, \A j \in S : Before(k, j) PROVE k = First(S)
  <2> DEFINE f == First(S)
  <2>1. f \in S /\ Before(f, k) BY <1>7
  <2> HIDE DEF f
  <2>2. Before(k, f) BY <1>8, <2>1
  <2>3. k.number = f.number BY <1>1, <2>1, <2>2 DEF Before
  <2>4. k = f BY <1>1, <2>1, <2>3
  <2> QED BY <2>4 DEF f
<1> QED BY <1>7, <1>8

\* The line of a contract shows one of its instalments, the first open one if any.
LEMMA DisplayedOf ==
  ASSUME PortfolioInv, NEW c \in Contracts
  PROVE /\ Displayed(c) \in Of(c)
        /\ (\E i \in Of(c) : Open(i)) =>
             /\ Open(Displayed(c)) /\ NextOpen(c) = {Displayed(c)}
             /\ \A j \in Of(c) : Open(j) => Before(Displayed(c), j)
<1> USE SizesAssumption
<1>1. \A i \in Of(c) : i \in Installments /\ i.contract = c /\ i.number \in Nat
  BY InstallmentFacts DEF Of
<1>2. CASE \E i \in Of(c) : Open(i)
  <2> DEFINE O == {i \in Of(c) : Open(i)}
  <2>1. O \subseteq Of(c) /\ O # {} BY <1>2
  <2>2. Displayed(c) = First(O) BY <1>2 DEF Displayed
  <2>3. \A j : j \in O <=> (j \in Of(c) /\ Open(j)) OBVIOUS
  <2>4. NextOpen(c) = {i \in O : \A j \in O : Before(i, j)} BY DEF NextOpen
  <2> HIDE DEF O
  <2>5. /\ First(O) \in O /\ \A j \in O : Before(First(O), j)
        /\ \A i \in O : (\A j \in O : Before(i, j)) => i = First(O)
    BY <2>1, FirstOfContract
  <2>6. NextOpen(c) = {First(O)} BY <2>4, <2>5
  <2> QED BY <2>2, <2>3, <2>5, <2>6
<1>3. CASE ~ \E i \in Of(c) : Open(i)
  <2> DEFINE f == [i \in Of(c) |-> i.number]
             N == {i.number : i \in Of(c)}
  <2>1. IsFiniteSet(Of(c)) BY <1>1, FS_Subset
  <2>2. DOMAIN f = Of(c) /\ {f[i] : i \in DOMAIN f} = N OBVIOUS
  <2>3. N \subseteq Int /\ N # {}
    <3>1. PICK i \in Installments : i.contract = c OBVIOUS
    <3>2. i \in Of(c) BY <3>1 DEF Of
    <3> QED BY <1>1, <3>2
  <2> HIDE DEF f, N
  <2>4. IsFiniteSet(N) BY <2>1, <2>2, RangeIsFinite
  <2>5. Max(N) \in N /\ \A n \in N : Max(N) >= n BY <2>3, <2>4, MaxIs
  <2>6. PICK i \in Of(c) : Max(N) = i.number BY <2>5 DEF N
  <2>7. \A j \in Of(c) : j.number <= i.number
    <3> TAKE j \in Of(c)
    <3>1. j.number \in N BY DEF N
    <3> QED BY <1>1, <2>5, <2>6, <3>1
  <2>8. Displayed(c) = CHOOSE x \in Of(c) : \A j \in Of(c) : j.number <= x.number
    BY <1>3 DEF Displayed
  <2>9. Displayed(c) \in Of(c) BY <2>7, <2>8
  <2> QED BY <1>3, <2>9
<1> QED BY <1>2, <1>3

\* The detail of an instalment of a contract of the partner is that instalment's.
LEMMA DetailOf ==
  ASSUME PortfolioInv, NEW u, NEW i \in Installments, i.contract \in Mine(u)
  PROVE Detail(u, i.contract, i.number)
          = [found |-> TRUE, installment |-> i, pending |-> Pending(i),
             endDate |-> LastDue(i.contract),
             responsible |-> IF agent[i.contract] # NoAgent THEN agent[i.contract]
                             ELSE Consultant[i.contract]]
<1> DEFINE c == i.contract
           rows == {j \in Of(c) : j.number = i.number}
<1>1. rows = {i} BY InstallmentFacts DEF Of
<1>2. First({i}) = i
  <2>1. i.number \in Nat BY InstallmentFacts
  <2>2. Before(i, i) BY <2>1 DEF Before
  <2> QED BY <2>2 DEF First
<1>3. First(rows) = i /\ rows # {} BY <1>1, <1>2
<1> HIDE DEF rows
<1> QED BY <1>3 DEF Detail, rows

\* A line of a tab opens on its instalment, and the list of instalments agrees.
LEMMA InvTabsOpen == PortfolioInv => TabsOpen
<1> SUFFICES ASSUME PortfolioInv, NEW u \in Partners
             PROVE /\ \A i \in Overdue(u) \cup Preventive(u) :
                        /\ Detail(u, i.contract, i.number).found
                        /\ \A k \in {"installment", "pending", "responsible"} :
                             Detail(u, i.contract, i.number)[k] = TabRow(i)[k]
                        /\ i \in Overdue(u)
                             <=> Line(i) = [status |-> "overdue", days |-> TabRow(i).days]
                   /\ \A c \in Listable(u) :
                        /\ NextOpen(c) # {} => NextOpen(c) = {Displayed(c)}
                        /\ Detail(u, c, Displayed(c).number).found
                        /\ (\E i \in Of(c) : i \in Overdue(u)) => Displayed(c) \in Overdue(u)
  BY DEF TabsOpen
<1>1. ASSUME NEW i \in Overdue(u) \cup Preventive(u)
      PROVE /\ Detail(u, i.contract, i.number).found
            /\ \A k \in {"installment", "pending", "responsible"} :
                 Detail(u, i.contract, i.number)[k] = TabRow(i)[k]
            /\ i \in Overdue(u) <=> Line(i) = [status |-> "overdue", days |-> TabRow(i).days]
  <2>1. i \in Installments /\ i.contract \in Mine(u) /\ Open(i) /\ InPortfolio(i.contract)
        /\ (i \in Overdue(u) <=> Due[i] < today)
    BY InstallmentFacts DEF Overdue, Preventive, Late
  <2> DEFINE detail == Detail(u, i.contract, i.number)
  <2>2. /\ detail.found /\ detail.installment = i /\ detail.pending = Pending(i)
        /\ detail.responsible = IF agent[i.contract] # NoAgent THEN agent[i.contract]
                                ELSE Consultant[i.contract]
    <3> DEFINE full == [found |-> TRUE, installment |-> i, pending |-> Pending(i),
                        endDate |-> LastDue(i.contract),
                        responsible |-> IF agent[i.contract] # NoAgent THEN agent[i.contract]
                                        ELSE Consultant[i.contract]]
    <3>1. detail = full BY <2>1, DetailOf
    <3> HIDE DEF detail
    <3> QED BY <3>1
  <2> HIDE DEF detail
  <2>3. /\ TabRow(i).installment = i /\ TabRow(i).pending = Pending(i)
        /\ TabRow(i).responsible = IF agent[i.contract] = NoAgent THEN Consultant[i.contract]
                                   ELSE agent[i.contract]
        /\ TabRow(i).days = Delay(i)
    BY DEF TabRow
  <2>4. slip[i].status # "paid" BY <2>1, InstallmentFacts
  <2>5. CASE Due[i] < today
    <3> DEFINE st == slip[i].status
    <3>0. DisplayStatus(i) = CASE st = "paid" -> "paid"
                               [] st # "paid" /\ Due[i] < today -> "overdue"
                               [] st # "paid" /\ Due[i] = today -> "due_today"
                               [] OTHER -> "upcoming"
      BY DEF DisplayStatus
    <3>i. Due[i] # today BY <2>1, <2>5, InstallmentFacts
    <3>s. st # "paid" BY <2>4
    <3> HIDE DEF st
    <3>1. DisplayStatus(i) = "overdue" BY <2>5, <3>0, <3>i, <3>s
    <3>2. Line(i) = [status |-> "overdue", days |-> Delay(i)] BY <3>1 DEF Line
    <3> QED BY <2>1, <2>2, <2>3, <2>5, <3>2 DEF detail
  <2>6. CASE ~(Due[i] < today)
    <3>1. DisplayStatus(i) # "overdue"
      <4>1. CASE Due[i] = today BY <2>4, <2>6, <4>1 DEF DisplayStatus
      <4>2. CASE Due[i] # today BY <2>4, <2>6, <4>2 DEF DisplayStatus
      <4> QED BY <4>1, <4>2
    <3>2. Line(i).status # "overdue" BY <3>1 DEF Line
    <3> QED BY <2>1, <2>2, <2>3, <2>6, <3>2 DEF detail
  <2> QED BY <2>5, <2>6
<1>2. ASSUME NEW c \in Listable(u)
      PROVE /\ NextOpen(c) # {} => NextOpen(c) = {Displayed(c)}
            /\ Detail(u, c, Displayed(c).number).found
            /\ (\E i \in Of(c) : i \in Overdue(u)) => Displayed(c) \in Overdue(u)
  <2>1. c \in Contracts /\ c \in Mine(u) BY DEF Listable, Mine
  <2> DEFINE d == Displayed(c)
  <2>2. /\ d \in Of(c)
        /\ (\E i \in Of(c) : Open(i)) =>
             /\ Open(d) /\ NextOpen(c) = {d} /\ \A j \in Of(c) : Open(j) => Before(d, j)
    BY <2>1, DisplayedOf
  <2> HIDE DEF d
  <2>3. d \in Installments /\ d.contract = c /\ Of(c) \subseteq Installments BY <2>2 DEF Of
  <2>4. Detail(u, c, d.number).found
    <3>1. d.contract \in Mine(u) BY <2>1, <2>3
    <3> DEFINE full == [found |-> TRUE, installment |-> d, pending |-> Pending(d),
                        endDate |-> LastDue(d.contract),
                        responsible |-> IF agent[d.contract] # NoAgent THEN agent[d.contract]
                                        ELSE Consultant[d.contract]]
    <3>2. Detail(u, d.contract, d.number) = full BY <2>3, <3>1, DetailOf
    <3>3. Detail(u, d.contract, d.number).found BY <3>2
    <3> QED BY <2>3, <3>3
  <2>5. NextOpen(c) # {} => \E i \in Of(c) : Open(i) BY DEF NextOpen
  <2>6. ASSUME NEW i \in Of(c), i \in Overdue(u) PROVE d \in Overdue(u)
    <3>1. Open(i) /\ Due[i] < today /\ InPortfolio(c) /\ i \in Installments
      BY <2>6 DEF Overdue, Late, Of
    <3>2. Open(d) /\ Before(d, i) BY <2>2, <3>1
    <3>3. Due[d] \in Nat /\ Due[i] \in Nat /\ today \in Nat BY <2>3, <3>1, InstallmentFacts
    <3>4. Due[d] < today BY <3>1, <3>2, <3>3 DEF Before
    <3> QED BY <2>1, <2>3, <3>1, <3>2, <3>4 DEF Overdue, Late
  <2> QED BY <2>2, <2>4, <2>5, <2>6 DEF d
<1> QED BY <1>1, <1>2

\* What the payments leave behind is all the screens need to agree.
LEMMA InvViewsAgree == PortfolioInv => ViewsAgree
  BY InvDelinquencyAgrees, InvCardsOpenTheirList, InvTabsCover, InvTabsOpen
     DEF ViewsAgree, PortfolioInv
-----------------------------------------------------------------------------
(***************************************************************************)
(* What the history keeps of an execution (Interactions).                  *)
(***************************************************************************)

\* The status a row stores for a form of the newer kind.
LEMMA StatusIsTelling ==
  ASSUME NEW type \in Types, NEW party \in Parties,
         NEW action \in {Unsaid} \cup AutomaticActions,
         (action # Unsaid) <=> (type = "automatic"), action = "renegotiation" => party = "client"
  PROVE /\ LegacyStatus(type, party, action) # Unsaid
        /\ StatusTells(LegacyStatus(type, party, action), type, party)
<1> USE InteractionsAssumption DEF Parties, Types, AutomaticActions, LegacyStatuses, LegacyStatus, StatusTells
<1>1. CASE type = "call" BY <1>1
<1>2. CASE type = "message" BY <1>2
<1>3. CASE type = "visit" BY <1>3
<1>4. CASE type = "automatic"
  <2>1. action \in AutomaticActions BY <1>4
  <2> QED BY <1>4, <2>1
<1> QED BY <1>1, <1>2, <1>3, <1>4

\* No two results are translated to one, and none but a promise to will_pay_on_date.
LEMMA ResultsAreKeptApart ==
  ASSUME NEW result \in Results
  PROVE /\ {x \in Results : ExpectedResult(x) = ExpectedResult(result)} = {result}
        /\ ExpectedResult(result) = "will_pay_on_date" <=> result = "payment_promise"
<1>1. \A x \in Results :
        /\ x = "no_response" => ExpectedResult(x) = "no_return"
        /\ x = "payment_promise" => ExpectedResult(x) = "will_pay_on_date"
        /\ x = "renegotiation" => ExpectedResult(x) = "wants_renegotiation"
        /\ x \notin {"no_response", "payment_promise", "renegotiation"} => ExpectedResult(x) = x
  BY DEF ExpectedResult
<1>2. \A x \in Results : ExpectedResult(x) = ExpectedResult(result) => x = result
  BY <1>1 DEF Results
<1> QED BY <1>1, <1>2 DEF Results

\* What a form of an execution turns into.
LEMMA MappedForm ==
  ASSUME NEW f \in Forms, DtoAccepts(f), TaskAccepts(f), f.recipient # "other"
  PROVE /\ FollowUpAccepts(Mapped(f))
        /\ f.recipient \in Parties /\ f.result \in Results
        /\ Mapped(f).type \in {"call", "message", "visit"} /\ Mapped(f).action = Unsaid
        /\ Mapped(f).status = Unsaid /\ Mapped(f).party = f.recipient
        /\ Mapped(f).result = ExpectedResult(f.result)
        /\ f.result = "payment_promise" => Mapped(f).forecast \in 0 .. PromiseMaxDays
        /\ f.result # "payment_promise" => Mapped(f).forecast = Unsaid
<1> USE InteractionsAssumption
<1>1. /\ f.channel \in Channels /\ f.recipient \in Parties /\ f.result \in Results
  BY DEF Forms, Parties
<1>2. FollowUpType(f.channel) \in {"call", "message", "visit"}
  BY <1>1 DEF Channels, FollowUpType
<1>3. f.result = "payment_promise" => f.promise \in 0 .. PromiseMaxDays
  BY DEF TaskAccepts
<1>4. /\ Mapped(f).type \in {"call", "message", "visit"} /\ Mapped(f).action = Unsaid
      /\ Mapped(f).status = Unsaid /\ Mapped(f).party = f.recipient
      /\ Mapped(f).result = ExpectedResult(f.result)
      /\ f.result = "payment_promise" => Mapped(f).forecast \in 0 .. PromiseMaxDays
      /\ f.result # "payment_promise" => Mapped(f).forecast = Unsaid
  BY <1>2, <1>3 DEF Mapped
<1>5. FollowUpAccepts(Mapped(f))
  BY <1>1, <1>4 DEF FollowUpAccepts, Legacy, Parties, Types, AutomaticActions
<1> QED BY <1>1, <1>4, <1>5

\* The row of an accepted form, but for its status, is the form.
LEMMA StoredForm ==
  ASSUME NEW d, d = [status |-> d.status, type |-> d.type, party |-> d.party, action |-> d.action,
                     result |-> d.result, forecast |-> d.forecast],
         d.type \in {Unsaid} \cup Types, d.party \in {Unsaid} \cup Parties,
         d.action \in {Unsaid} \cup AutomaticActions, FollowUpAccepts(d)
  PROVE LET r == Stored(d) IN
        /\ r.status # Unsaid
        /\ r.type # Unsaid => StatusTells(r.status, r.type, r.party)
        /\ r.type = d.type /\ r.party = d.party /\ r.result = d.result /\ r.forecast = d.forecast
<1>1. /\ Stored(d).type = d.type /\ Stored(d).party = d.party /\ Stored(d).result = d.result
      /\ Stored(d).forecast = d.forecast
      /\ Stored(d).status = IF Legacy(d) THEN d.status ELSE LegacyStatus(d.type, d.party, d.action)
  BY DEF Stored
<1>2. CASE Legacy(d) BY <1>1, <1>2 DEF FollowUpAccepts, Legacy
<1>3. CASE ~Legacy(d)
  <2>1. /\ d.type \in Types /\ d.party \in Parties
        /\ d.action \in {Unsaid} \cup AutomaticActions
        /\ (d.action # Unsaid) <=> (d.type = "automatic")
        /\ d.action = "renegotiation" => d.party = "client"
    BY <1>3 DEF FollowUpAccepts, Legacy, Types
  <2>2. /\ LegacyStatus(d.type, d.party, d.action) # Unsaid
        /\ StatusTells(LegacyStatus(d.type, d.party, d.action), d.type, d.party)
    BY <2>1, StatusIsTelling
  <2> QED BY <1>1, <1>3, <2>2
<1> QED BY <1>2, <1>3

\* The history is the row of a form that was accepted.
LastIsAccepted ==
  last # Unsaid =>
    \/ \E f \in Forms : /\ DtoAccepts(f) /\ TaskAccepts(f) /\ f.recipient # "other"
                        /\ last = [asked |-> f, row |-> Stored(Mapped(f)), direct |-> FALSE]
    \/ \E d \in DirectForms : /\ FollowUpAccepts(d)
                              /\ last = [asked |-> d, row |-> Stored(d), direct |-> TRUE]

\* There is no history at the start.
LEMMA LastInitInv == InteractionsInit => LastIsAccepted
  BY Zenon DEF InteractionsInit, LastIsAccepted

\* Only an accepted form is written to the history.
LEMMA LastStepInv == LastIsAccepted /\ [InteractionsNext]_interactionVars => LastIsAccepted'
<1> SUFFICES ASSUME LastIsAccepted, [InteractionsNext]_interactionVars PROVE LastIsAccepted'
  OBVIOUS
<1>1. ASSUME NEW f \in Forms, Register(f) PROVE LastIsAccepted'
  <2>1. /\ DtoAccepts(f) /\ TaskAccepts(f) /\ f.recipient # "other"
        /\ last' = [asked |-> f, row |-> Stored(Mapped(f)), direct |-> FALSE]
    BY <1>1 DEF Register, FollowUpTakes, Parties
  <2> QED BY <2>1, Zenon DEF LastIsAccepted
<1>2. ASSUME NEW d \in DirectForms, CreateFollowUp(d) PROVE LastIsAccepted'
  BY <1>2, Zenon DEF CreateFollowUp, LastIsAccepted
<1>3. CASE UNCHANGED interactionVars
  BY <1>3, Zenon DEF interactionVars, LastIsAccepted
<1> QED BY <1>1, <1>2, <1>3 DEF InteractionsNext

\* The row of an accepted form tells what the form said.
LEMMA AcceptedTells == LastIsAccepted => FollowUpTells
<1>1. OnlyOtherIsRefused BY MappedForm DEF OnlyOtherIsRefused, FollowUpTakes, Forms, Parties
<1>2. ASSUME NEW f \in Forms, DtoAccepts(f), TaskAccepts(f), f.recipient # "other",
             last = [asked |-> f, row |-> Stored(Mapped(f)), direct |-> FALSE]
      PROVE HistoryTells
  <2> DEFINE m == Mapped(f)
             r == Stored(m)
  <2>1. /\ FollowUpAccepts(m) /\ f.recipient \in Parties /\ f.result \in Results
        /\ m.type \in {"call", "message", "visit"} /\ m.party = f.recipient
        /\ m.result = ExpectedResult(f.result)
        /\ f.result = "payment_promise" => m.forecast \in 0 .. PromiseMaxDays
        /\ f.result # "payment_promise" => m.forecast = Unsaid
    BY <1>2, MappedForm
  <2>2. /\ m = [status |-> m.status, type |-> m.type, party |-> m.party, action |-> m.action,
                result |-> m.result, forecast |-> m.forecast]
        /\ m.type \in {Unsaid} \cup Types /\ m.party \in {Unsaid} \cup Parties
        /\ m.action \in {Unsaid} \cup AutomaticActions
    BY <2>1 DEF Mapped, Types
  <2> HIDE DEF m
  <2>3. /\ r.status # Unsaid /\ (r.type # Unsaid => StatusTells(r.status, r.type, r.party))
        /\ r.type = m.type /\ r.party = m.party /\ r.result = m.result /\ r.forecast = m.forecast
    BY <2>1, <2>2, StoredForm
  <2>4. /\ {x \in Results : ExpectedResult(x) = ExpectedResult(f.result)} = {f.result}
        /\ ExpectedResult(f.result) = "will_pay_on_date" <=> f.result = "payment_promise"
    BY <2>1, ResultsAreKeptApart
  <2>5. last.asked = f /\ last.row = r BY <1>2 DEF m
  <2> HIDE DEF r
  <2>6. r.party = f.recipient /\ r.result = ExpectedResult(f.result) BY <2>1, <2>3
  <2>7. {x \in Results : ExpectedResult(x) = r.result} = {f.result} BY <2>4, <2>6
  <2>8. (r.forecast # Unsaid <=> r.result = "will_pay_on_date")
        /\ (r.forecast # Unsaid => r.forecast \in 0 .. PromiseMaxDays)
    BY <2>1, <2>3, <2>4, <2>6, InteractionsAssumption
  <2> QED BY <2>3, <2>5, <2>6, <2>7, <2>8 DEF HistoryTells
<1>3. ASSUME NEW d \in DirectForms, FollowUpAccepts(d),
             last = [asked |-> d, row |-> Stored(d), direct |-> TRUE]
      PROVE HistoryTells
  <2> DEFINE r == Stored(d)
  <2>1. /\ d = [status |-> d.status, type |-> d.type, party |-> d.party, action |-> d.action,
                result |-> d.result, forecast |-> d.forecast]
        /\ d.type \in {Unsaid} \cup Types /\ d.party \in {Unsaid} \cup Parties
        /\ d.action \in {Unsaid} \cup AutomaticActions
    BY DEF DirectForms
  <2>2. r.status # Unsaid /\ (r.type # Unsaid => StatusTells(r.status, r.type, r.party))
    BY <1>3, <2>1, StoredForm
  <2>3. last.row = r /\ last.direct BY <1>3
  <2> HIDE DEF r
  <2> QED BY <2>2, <2>3 DEF HistoryTells
<1>4. last = Unsaid => HistoryTells BY DEF HistoryTells
<1> QED BY <1>1, <1>2, <1>3, <1>4 DEF LastIsAccepted, FollowUpTells
-----------------------------------------------------------------------------
(***************************************************************************)
(* The steps of the wizard (WizardFields).                                 *)
(***************************************************************************)

\* A filter that keeps every element gives the sequence it was given.
LEMMA AllSelected ==
  ASSUME NEW s, s \in Seq(Range(s))
  PROVE Selected(s, DOMAIN s) = s
<1> DEFINE n == Len(s)
           upTo(k) == {j \in 1 .. n : j <= k}
<1>1. n \in Nat /\ DOMAIN s = 1 .. n OBVIOUS
<1> HIDE DEF n
<1>2. Cardinality(1 .. n) = n BY <1>1, FS_Interval
<1>3. ASSUME NEW k \in 1 .. n PROVE Cardinality(upTo(k)) = k
  <2>1. upTo(k) = 1 .. k BY <1>1
  <2>2. k \in Int /\ 1 \in Int /\ 1 <= k BY <1>1
  <2>3. Cardinality(1 .. k) = k
    <3>1. Cardinality(1 .. k) = IF 1 > k THEN 0 ELSE k - 1 + 1 BY <2>2, FS_Interval, Zenon
    <3> QED BY <2>2, <3>1
  <2> QED BY <2>1, <2>3
<1> DEFINE position(m) == CHOOSE k \in 1 .. n : Cardinality(upTo(k)) = m
<1>4. ASSUME NEW m \in 1 .. n PROVE position(m) = m
  <2>1. \A k \in 1 .. n : Cardinality(upTo(k)) = m <=> k = m BY <1>3
  <2> HIDE DEF upTo
  <2>2. \E k \in 1 .. n : Cardinality(upTo(k)) = m BY <2>1
  <2> QED BY <2>1, <2>2
<1>5. Selected(s, DOMAIN s) = [m \in 1 .. n |-> s[position(m)]]
  BY <1>1, <1>2 DEF Selected
<1> HIDE DEF position
<1>6. [m \in 1 .. n |-> s[position(m)]] = [m \in 1 .. n |-> s[m]] BY <1>4
<1>7. s = [m \in 1 .. n |-> s[m]] BY <1>1
<1> QED BY <1>5, <1>6, <1>7

\* A function on 1 .. n is a sequence of its values.
LEMMA SequenceOf ==
  ASSUME NEW n \in Nat, NEW s, s = [k \in 1 .. n |-> s[k]]
  PROVE s \in Seq(Range(s))
<1>1. DOMAIN s = 1 .. n OBVIOUS
<1>2. \A k \in 1 .. n : s[k] \in Range(s) BY <1>1 DEF Range
<1> QED BY <1>2

\* The groups of columns of a proposal.
Columns == {"registration", "income", "mirrors", "address", "geolocation", "opinion",
            "guarantor", "financial"}

\* The columns a copy leaves to the proposal it copies to.
Sums == {"activityIncome", "familiarIncome"}

\* Nothing of what was saved is left out when it is read.
Whole ==
  /\ entered.income # Absent =>
       /\ entered.income \in Seq(Range(entered.income))
       /\ \A k \in DOMAIN entered.income : EntryShown(entered.income[k])
  /\ entered.guarantor # Absent =>
       Absent \notin {entered.guarantor.name, entered.guarantor.document,
                      entered.guarantor.telephone}
  /\ entered.financial # Absent =>
       /\ entered.financial = [expenses |-> entered.financial.expenses,
                               loans |-> entered.financial.loans,
                               pixCode |-> entered.financial.pixCode]
       /\ entered.financial.expenses \in Seq(Range(entered.financial.expenses))
       /\ entered.financial.loans \in Seq(Range(entered.financial.loans))
       /\ \A k \in DOMAIN entered.financial.expenses :
            entered.financial.expenses[k].category # Absent
       /\ \A k \in DOMAIN entered.financial.loans :
            Absent \notin {entered.financial.loans[k].category,
                           entered.financial.loans[k].institution}

\* The columns are what was saved, and the older ones are made of the entries.
Agree ==
  /\ DOMAIN columns = Columns /\ DOMAIN entered = Columns
  /\ \A k \in Columns \ {"mirrors"} : entered[k] # Absent => columns[k] = entered[k]
  /\ entered.income \notin {Absent, <<>>} =>
       \A k \in DOMAIN columns.mirrors \ (IF entered.mirrors = Absent THEN Sums ELSE {}) :
         columns.mirrors[k] = Mirrors(entered.income)[k]

\* The inductive invariant of the wizard.
WizardInv == Agree /\ Whole

\* A proposal just created has nothing to disagree on.
LEMMA WizardInitInv == WizardInit => WizardInv
<1> SUFFICES ASSUME WizardInit PROVE WizardInv OBVIOUS
<1>1. /\ DOMAIN columns = Columns /\ DOMAIN entered = Columns
      /\ \A k \in Columns \ {"mirrors"} : columns[k] = entered[k]
      /\ entered.income = <<>> /\ entered.guarantor = Absent /\ entered.financial = Absent
  BY DEF WizardInit, Created, Columns
<1>2. <<>> \in Seq(Range(<<>>)) /\ \A k \in DOMAIN <<>> : EntryShown(<<>>[k]) OBVIOUS
<1>3. Agree BY <1>1 DEF Agree
<1>4. Whole BY <1>1, <1>2 DEF Whole
<1> QED BY <1>3, <1>4 DEF WizardInv

\* A save changes its columns and nothing else, and claims what it wrote.
LEMMA SaveWrites ==
  ASSUME NEW values, Agree, Save(values)
  PROVE /\ DOMAIN columns' = Columns /\ DOMAIN entered' = Columns
        /\ \A k \in Columns \ {"mirrors"} : entered'[k] # Absent => columns'[k] = entered'[k]
        /\ \A k \in Columns : /\ k \in DOMAIN values => columns'[k] = values[k]
                                                        /\ entered'[k] = values[k]
                              /\ k \notin DOMAIN values => columns'[k] = columns[k]
                                                           /\ entered'[k] = entered[k]
<1>1. /\ columns' = [k \in Columns |-> IF k \in DOMAIN values THEN values[k] ELSE columns[k]]
      /\ entered' = [k \in Columns |-> IF k \in DOMAIN values THEN values[k] ELSE entered[k]]
  BY DEF Save, With, Agree
<1> QED BY <1>1 DEF Agree

\* The saves of the steps other than Renda, Avalista and Financeiro.
LEMMA PlainSave ==
  ASSUME NEW values, WizardInv, Save(values),
         DOMAIN values \cap {"income", "mirrors", "guarantor", "financial"} = {}
  PROVE WizardInv'
<1>1. /\ columns'.income = columns.income /\ entered'.income = entered.income
      /\ columns'.mirrors = columns.mirrors /\ entered'.mirrors = entered.mirrors
      /\ entered'.guarantor = entered.guarantor /\ entered'.financial = entered.financial
  BY SaveWrites DEF Columns, WizardInv
<1>2. Agree' BY <1>1, SaveWrites DEF Agree, WizardInv
<1>3. Whole' BY <1>1 DEF Whole, WizardInv
<1> QED BY <1>2, <1>3 DEF WizardInv

\* An entry the Renda step accepts is one the reading does not drop.
LEMMA EntriesAreShown ==
  ASSUME NEW f \in IncomeForms, ~IncomesInvalid(f), ~IncomesRefused(f), NEW k \in DOMAIN f
  PROVE EntryShown(Entry(f[k]))
<1> USE WizardAssumption
<1>1. DOMAIN f[k] = EntryFields /\ f[k].amount \in Int OBVIOUS
<1>2. ~EntryInvalid(f[k]) BY DEF IncomesInvalid
<1> DEFINE e == f[k]
<1> HIDE DEF e
<1>3. ~EntryInvalid(e) /\ DOMAIN e = EntryFields /\ e.amount \in Int BY <1>1, <1>2 DEF e
<1>4. /\ Entry(e).activity = e.activity /\ Entry(e).duration = e.duration
      /\ Entry(e).source = e.source /\ Entry(e).amount = e.amount
      /\ Entry(e).branch = IF ~RequiresProfession(e.activity) THEN e.branch ELSE Absent
      /\ Entry(e).subcategory = IF ~RequiresProfession(e.activity) THEN e.subcategory ELSE Absent
  BY <1>3 DEF Entry, EntryFields
<1>5. e.branch = Absent => RequiresProfession(e.activity)
  BY <1>3, BranchAssumption DEF EntryInvalid
<1>6. EntryShown(Entry(e)) BY <1>3, <1>4, <1>5 DEF EntryInvalid, EntryShown
<1> QED BY <1>6 DEF e

\* The Renda step writes the entries and the older columns made of them.
LEMMA SaveIncomeInv ==
  ASSUME NEW f \in IncomeForms, WizardInv, SaveIncome(f)
  PROVE WizardInv'
<1> DEFINE entries == [k \in DOMAIN f |-> Entry(f[k])]
           values == [income |-> entries, mirrors |-> Mirrors(entries)]
<1>1. ~IncomesInvalid(f) /\ ~IncomesRefused(f) /\ Save(values) BY DEF SaveIncome
<1>2. entries \in Seq(Range(entries)) BY WizardAssumption DEF Range
<1>3. \A k \in DOMAIN entries : EntryShown(entries[k]) BY <1>1, EntriesAreShown
<1> HIDE DEF entries
<1> DEFINE m == Mirrors(entries)
<1>4. values = [income |-> entries, mirrors |-> m] OBVIOUS
<1> HIDE DEF m, values
<1>5. /\ entered'.income = entries /\ columns'.mirrors = m
      /\ entered'.guarantor = entered.guarantor /\ entered'.financial = entered.financial
      /\ DOMAIN columns' = Columns /\ DOMAIN entered' = Columns
      /\ \A k \in Columns \ {"mirrors"} : entered'[k] # Absent => columns'[k] = entered'[k]
  BY <1>1, <1>4, SaveWrites DEF Columns, WizardInv
<1>6. Agree' BY <1>5 DEF Agree, m
<1>7. Whole' BY <1>2, <1>3, <1>5 DEF Whole, WizardInv
<1> QED BY <1>6, <1>7 DEF WizardInv

\* The Avalista step keeps a guarantor with a name, a document and a telephone.
LEMMA SaveGuarantorInv ==
  ASSUME NEW f \in GuarantorForms, WizardInv, SaveGuarantor(f)
  PROVE WizardInv'
<1> DEFINE g == Guarantor(f)
           values == [guarantor |-> g]
<1>1. Absent \notin {g.name, g.document, g.telephone} /\ Save(values)
  BY DEF SaveGuarantor, GuarantorInvalid, GuarantorRefused, Guarantor
<1> HIDE DEF g
<1>2. /\ entered'.guarantor = g /\ entered'.mirrors = entered.mirrors
      /\ columns'.mirrors = columns.mirrors
      /\ entered'.income = entered.income /\ entered'.financial = entered.financial
      /\ DOMAIN columns' = Columns /\ DOMAIN entered' = Columns
      /\ \A k \in Columns \ {"mirrors"} : entered'[k] # Absent => columns'[k] = entered'[k]
  BY <1>1, SaveWrites DEF Columns, WizardInv
<1>3. Agree' BY <1>2 DEF Agree, WizardInv
<1>4. Whole' BY <1>1, <1>2 DEF Whole, WizardInv
<1> QED BY <1>3, <1>4 DEF WizardInv

\* The Financeiro step keeps expenses and loans with a category.
LEMMA SaveFinancialInv ==
  ASSUME NEW f \in FinancialForms, WizardInv, SaveFinancial(f)
  PROVE WizardInv'
<1> DEFINE new == Financial(f)
           values == [financial |-> new]
<1>1. ~FinancialInvalid(f) /\ Save(values) BY DEF SaveFinancial
<1>2. new.expenses \in Seq(Range(new.expenses)) /\ new.loans \in Seq(Range(new.loans))
  <2>1. f.expenses \in Seq(Range(f.expenses)) /\ f.loans \in Seq(Range(f.loans))
    BY WizardAssumption
  <2>2. /\ Len(f.expenses) \in Nat /\ DOMAIN f.expenses = 1 .. Len(f.expenses)
        /\ Len(f.loans) \in Nat /\ DOMAIN f.loans = 1 .. Len(f.loans)
    BY <2>1
  <2>3. new.expenses = [k \in 1 .. Len(f.expenses) |-> new.expenses[k]]
    BY <2>2 DEF Financial
  <2>4. new.loans = [k \in 1 .. Len(f.loans) |-> new.loans[k]]
    BY <2>2 DEF Financial
  <2> HIDE DEF new
  <2> QED BY <2>2, <2>3, <2>4, SequenceOf
<1>3. \A k \in DOMAIN new.expenses : new.expenses[k].category # Absent
  BY <1>1, WizardAssumption DEF Financial, FinancialInvalid
<1>4. \A k \in DOMAIN new.loans : Absent \notin {new.loans[k].category, new.loans[k].institution}
  BY <1>1, WizardAssumption DEF Financial, FinancialInvalid
<1>5. new = [expenses |-> new.expenses, loans |-> new.loans, pixCode |-> new.pixCode]
  BY DEF Financial
<1> HIDE DEF new
<1>6. /\ entered'.financial = new /\ entered'.mirrors = entered.mirrors
      /\ columns'.mirrors = columns.mirrors
      /\ entered'.income = entered.income /\ entered'.guarantor = entered.guarantor
      /\ DOMAIN columns' = Columns /\ DOMAIN entered' = Columns
      /\ \A k \in Columns \ {"mirrors"} : entered'[k] # Absent => columns'[k] = entered'[k]
  BY <1>1, SaveWrites DEF Columns, WizardInv
<1>7. Agree' BY <1>6 DEF Agree, WizardInv
<1>8. Whole' BY <1>2, <1>3, <1>4, <1>5, <1>6 DEF Whole, WizardInv
<1> QED BY <1>7, <1>8 DEF WizardInv

\* A renewal copies entries that are shown, and all the older columns but the two sums.
LEMMA PrefillInv ==
  ASSUME NEW source \in Sources, WizardInv, Prefill(source)
  PROVE WizardInv'
<1> DEFINE new == CopiedRegistration(source)
           address == CopiedAddress(source)
           entries == RenewalEntries(source)
           copied == source.modelled /\ source.income # <<>>
           mirrors == [source.mirrors EXCEPT !.activityIncome = columns.mirrors.activityIncome,
                                             !.familiarIncome = columns.mirrors.familiarIncome]
<1>1. copied => /\ entries = source.income /\ source.income \in Seq(Range(source.income))
                /\ \A k \in DOMAIN source.income : EntryShown(source.income[k])
                /\ \A k \in DOMAIN source.mirrors \ Sums :
                     source.mirrors[k] = Mirrors(source.income)[k]
  BY SourcesAssumption DEF RenewalEntries, Sums
<1>2. /\ DOMAIN mirrors = DOMAIN source.mirrors
      /\ \A k \in DOMAIN mirrors \ Sums : mirrors[k] = source.mirrors[k]
  BY DEF Sums
<1>3. /\ columns' = [columns EXCEPT !.registration = new, !.income = entries,
                                    !.mirrors = mirrors, !.address = address]
      /\ entered' = [entered EXCEPT !.registration = new,
                                    !.income = IF copied THEN source.income ELSE Absent,
                                    !.mirrors = Absent, !.address = address]
  BY DEF Prefill
<1> HIDE DEF new, address, entries, copied, mirrors
<1>4. /\ DOMAIN columns' = Columns /\ DOMAIN entered' = Columns
      /\ entered'.income = IF copied THEN source.income ELSE Absent
      /\ entered'.mirrors = Absent /\ columns'.mirrors = mirrors /\ columns'.income = entries
      /\ entered'.guarantor = entered.guarantor /\ entered'.financial = entered.financial
      /\ \A k \in Columns \ {"mirrors", "income"} : entered'[k] # Absent => columns'[k] = entered'[k]
  BY <1>3 DEF Agree, WizardInv, Columns
<1>5. Agree'
  <2>1. \A k \in Columns \ {"mirrors"} : entered'[k] # Absent => columns'[k] = entered'[k]
    BY <1>1, <1>4
  <2>2. entered'.income \notin {Absent, <<>>} =>
          \A k \in DOMAIN columns'.mirrors \ Sums : columns'.mirrors[k] = Mirrors(entered'.income)[k]
    BY <1>1, <1>2, <1>4
  <2> QED BY <1>4, <2>1, <2>2 DEF Agree
<1>6. Whole' BY <1>1, <1>4 DEF Whole, WizardInv
<1> QED BY <1>5, <1>6 DEF WizardInv

\* Every save and every copy keeps the invariant.
LEMMA WizardStepInv == WizardInv /\ [WizardNext]_wizardVars => WizardInv'
<1> SUFFICES ASSUME WizardInv, [WizardNext]_wizardVars PROVE WizardInv'
  OBVIOUS
<1>1. ASSUME NEW f \in RegistrationForms, SaveRegistration(f) PROVE WizardInv'
  <2> DEFINE values == [registration |-> Registration(f)]
  <2>1. DOMAIN values = {"registration"} OBVIOUS
  <2>2. Save(values) BY <1>1 DEF SaveRegistration
  <2> HIDE DEF values
  <2> QED BY <2>1, <2>2, PlainSave
<1>2. ASSUME NEW f \in AddressForms, SaveAddress(f) PROVE WizardInv'
  <2> DEFINE values == [address |-> Address(f), geolocation |-> f.geolocation]
  <2>1. DOMAIN values = {"address", "geolocation"} OBVIOUS
  <2>2. Save(values) BY <1>2 DEF SaveAddress
  <2> HIDE DEF values
  <2> QED BY <2>1, <2>2, PlainSave
<1>3. ASSUME NEW f \in OpinionForms, SaveOpinion(f) PROVE WizardInv'
  <2> DEFINE values == [opinion |-> Opinion(f)]
  <2>1. DOMAIN values = {"opinion"} OBVIOUS
  <2>2. Save(values) BY <1>3 DEF SaveOpinion
  <2> HIDE DEF values
  <2> QED BY <2>1, <2>2, PlainSave
<1>4. CASE UNCHANGED wizardVars
  BY <1>4 DEF wizardVars, WizardInv, Agree, Whole
<1> QED BY <1>1, <1>2, <1>3, <1>4, SaveIncomeInv, SaveGuarantorInv, SaveFinancialInv, PrefillInv
        DEF WizardNext

\* What is read of an entry list, of a guarantor and of the finances is what is kept.
LEMMA ReadWhole ==
  ASSUME WizardInv
  PROVE /\ entered.income # Absent => ReadIncome(columns.income) = entered.income
        /\ entered.guarantor # Absent => ReadGuarantor(columns.guarantor) = entered.guarantor
        /\ entered.financial # Absent => ReadFinancial(columns.financial) = entered.financial
<1>1. ASSUME entered.income # Absent PROVE ReadIncome(columns.income) = entered.income
  <2> DEFINE s == entered.income
  <2>1. /\ s \in Seq(Range(s)) /\ columns.income = s
        /\ \A k \in DOMAIN s : EntryShown(s[k])
    BY <1>1 DEF WizardInv, Agree, Whole, Columns
  <2> HIDE DEF s
  <2>2. {k \in DOMAIN s : EntryShown(s[k])} = DOMAIN s BY <2>1
  <2> QED BY <2>1, <2>2, AllSelected DEF ReadIncome, s
<1>2. ASSUME entered.guarantor # Absent
      PROVE ReadGuarantor(columns.guarantor) = entered.guarantor
  BY <1>2 DEF WizardInv, Agree, Whole, Columns, ReadGuarantor
<1>3. ASSUME entered.financial # Absent
      PROVE ReadFinancial(columns.financial) = entered.financial
  <2> DEFINE s == entered.financial
  <2>1. /\ s = [expenses |-> s.expenses, loans |-> s.loans, pixCode |-> s.pixCode]
        /\ s.expenses \in Seq(Range(s.expenses)) /\ s.loans \in Seq(Range(s.loans))
        /\ \A k \in DOMAIN s.expenses : s.expenses[k].category # Absent
        /\ \A k \in DOMAIN s.loans : Absent \notin {s.loans[k].category, s.loans[k].institution}
        /\ columns.financial = s /\ s # Absent
    BY <1>3 DEF WizardInv, Agree, Whole, Columns
  <2> HIDE DEF s
  <2>2. ReadExpenses(s.expenses) = s.expenses
    <3>1. {k \in DOMAIN s.expenses : s.expenses[k].category # Absent} = DOMAIN s.expenses BY <2>1
    <3> QED BY <2>1, <3>1, AllSelected DEF ReadExpenses
  <2>3. ReadLoans(s.loans) = s.loans
    <3>1. {k \in DOMAIN s.loans : Absent \notin {s.loans[k].category, s.loans[k].institution}}
            = DOMAIN s.loans
      BY <2>1
    <3> QED BY <2>1, <3>1, AllSelected DEF ReadLoans
  <2>4. ReadFinancial(s) = [s EXCEPT !.expenses = s.expenses, !.loans = s.loans]
    BY <2>1, <2>2, <2>3 DEF ReadFinancial
  <2>5. [s EXCEPT !.expenses = s.expenses, !.loans = s.loans] = s BY <2>1
  <2> QED BY <2>1, <2>4, <2>5 DEF s
<1> QED BY <1>1, <1>2, <1>3

\* The form opened again shows what was saved.
LEMMA AgreeShows == WizardInv => ShownAsSaved
<1> SUFFICES ASSUME WizardInv PROVE ShownAsSaved OBVIOUS
<1> DEFINE shown == ToDetail
<1>1. /\ DOMAIN shown = {"registration", "income", "address", "geolocation", "opinion",
                         "guarantor", "financial"}
      /\ shown.registration = columns.registration /\ shown.address = columns.address
      /\ shown.geolocation = columns.geolocation /\ shown.opinion = columns.opinion
      /\ shown.income = ReadIncome(columns.income)
      /\ shown.guarantor = ReadGuarantor(columns.guarantor)
      /\ shown.financial = ReadFinancial(columns.financial)
  BY DEF ToDetail
<1> HIDE DEF shown
<1>2. \A k \in DOMAIN shown : entered[k] # Absent => shown[k] = entered[k]
  BY <1>1, ReadWhole DEF WizardInv, Agree, Columns
<1>3. FormShowsWhatWasSaved BY <1>2 DEF FormShowsWhatWasSaved, shown
<1>4. entered.income # Absent => shown.income = entered.income BY <1>1, ReadWhole
<1>5. MirrorsDescribeTheForm
  BY <1>4 DEF MirrorsDescribeTheForm, WizardInv, Agree, Sums, shown
<1> QED BY <1>3, <1>5 DEF ShownAsSaved
-----------------------------------------------------------------------------
(***************************************************************************)
(* The permissions a session carries (Sessions).                           *)
(***************************************************************************)

\* What the variables of a session hold.
SessionTypeOK ==
  /\ enabled \in BOOLEAN /\ blocked \in BOOLEAN /\ keys \in Keysets
  /\ token = NoToken \/ token \in [keys : Keysets, age : Nat]
  /\ call \in [Calls -> [step : {"idle", "login", "refresh", "sign", "gate", "create"},
                         keys : Keysets \cup {{}}, age : 0 .. RequestTime]]
  /\ since \in [enabled : Nat, clear : Nat, held : [Keysets -> Nat]]

\* The history of what holds now.
NowHeld ==
  /\ since.held[keys] = 0
  /\ enabled => since.enabled = 0
  /\ ~blocked => since.clear = 0

\* The permissions of a token that still opens requests were held when they were
\* read, and the user was enabled when it was asked for.
TokenBacked ==
  token # NoToken /\ token.age < AccessLife =>
    /\ since.held[token.keys] <= token.age + RequestTime
    /\ since.enabled <= token.age + RequestTime

\* So with the permissions a request carries since it was accepted, which pass the
\* guard; a login or a refresh found the user enabled and read what it signs; a
\* creation found no blocking task.
CallsBacked ==
  \A q \in Calls :
    /\ call[q].step \in {"login", "refresh", "sign"} => since.enabled <= call[q].age
    /\ call[q].step = "sign" => /\ call[q].keys \in Keysets
                                /\ since.held[call[q].keys] <= call[q].age
    /\ call[q].step \in {"gate", "create"} =>
         /\ call[q].keys \in Keysets /\ WriteGuard(call[q].keys)
         /\ since.held[call[q].keys] < AccessLife + RequestTime + call[q].age
         /\ since.enabled < AccessLife + RequestTime + call[q].age
    /\ call[q].step = "create" /\ Gated(call[q].keys) => since.clear <= call[q].age

\* The inductive invariant of the sessions.
SessionInv ==
  SessionTypeOK /\ NowHeld /\ TokenBacked /\ CallsBacked /\ DraftsOnLiveAuthority

\* At the start nobody has a token.
LEMMA SessionInitInv == SessionInit => SessionInv
<1> SUFFICES ASSUME SessionInit PROVE SessionInv OBVIOUS
<1> USE SessionsAssumption DEF SessionInit, Idle, Forget
<1>1. Idle \in [step : {"idle", "login", "refresh", "sign", "gate", "create"},
                keys : Keysets \cup {{}}, age : 0 .. RequestTime]
  OBVIOUS
<1>h. [k \in Keysets |-> IF k = keys THEN 0 ELSE Forget] \in [Keysets -> Nat] OBVIOUS
<1>2. SessionTypeOK BY <1>1, <1>h DEF SessionTypeOK
<1>3. NowHeld /\ TokenBacked BY DEF NowHeld, TokenBacked
<1>4. CallsBacked BY DEF CallsBacked
<1>5. DraftsOnLiveAuthority BY DEF DraftsOnLiveAuthority
<1> QED BY <1>2, <1>3, <1>4, <1>5 DEF SessionInv

\* Another program changes the registry: nothing in the history gets older.
LEMMA RegistryChangeInv ==
  ASSUME SessionInv, NEW nowEnabled \in BOOLEAN, NEW nowKeys \in Keysets, NEW nowBlocked \in BOOLEAN,
         enabled' = nowEnabled, keys' = nowKeys, blocked' = nowBlocked, made' = {},
         Record(nowEnabled, nowKeys, nowBlocked), UNCHANGED <<token, call>>
  PROVE SessionInv'
<1> USE SessionsAssumption
<1>t. SessionTypeOK /\ NowHeld /\ TokenBacked /\ CallsBacked BY DEF SessionInv
<1>1. since' = [enabled |-> IF nowEnabled THEN 0 ELSE since.enabled,
                clear |-> IF nowBlocked THEN since.clear ELSE 0,
                held |-> [since.held EXCEPT ![nowKeys] = 0]]
  BY DEF Record
<1>2. /\ since.enabled \in Nat /\ since.clear \in Nat /\ since.held \in [Keysets -> Nat]
  BY <1>t DEF SessionTypeOK
<1>3. /\ since'.enabled \in Nat /\ since'.clear \in Nat /\ since'.held \in [Keysets -> Nat]
      /\ since'.enabled <= since.enabled /\ since'.clear <= since.clear
      /\ \A k \in Keysets : since'.held[k] <= since.held[k]
      /\ since'.held[nowKeys] = 0 /\ (nowEnabled => since'.enabled = 0)
      /\ (~nowBlocked => since'.clear = 0)
      /\ since' \in [enabled : Nat, clear : Nat, held : [Keysets -> Nat]]
  BY <1>1, <1>2
<1>4. SessionTypeOK' BY <1>t, <1>3 DEF SessionTypeOK
<1>5. NowHeld' BY <1>3 DEF NowHeld
<1>6. TokenBacked' BY <1>t, <1>2, <1>3 DEF TokenBacked, SessionTypeOK
<1>7. CallsBacked' BY <1>t, <1>2, <1>3 DEF CallsBacked, SessionTypeOK
<1>8. DraftsOnLiveAuthority' BY DEF DraftsOnLiveAuthority
<1> QED BY <1>4, <1>5, <1>6, <1>7, <1>8 DEF SessionInv

\* Time passes for all ages alike.
LEMMA SessionTickInv ==
  ASSUME SessionInv, SessionTick
  PROVE SessionInv'
<1> USE SessionsAssumption
<1>t. SessionTypeOK /\ NowHeld /\ TokenBacked /\ CallsBacked BY DEF SessionInv
<1>0. \A a \in Nat, e \in Nat : Older(a, e) \in Nat /\ Older(a, e) <= a + 1 BY DEF Older
<1>e. Forget \in Nat BY DEF Forget
<1>1. since' = [enabled |-> IF enabled THEN 0 ELSE Older(since.enabled, Forget),
                clear |-> IF blocked THEN Older(since.clear, RequestTime + 1) ELSE 0,
                held |-> [k \in Keysets |-> IF k = keys THEN 0 ELSE Older(since.held[k], Forget)]]
  BY DEF SessionTick
<1>2. /\ since.enabled \in Nat /\ since.clear \in Nat /\ since.held \in [Keysets -> Nat]
  BY <1>t DEF SessionTypeOK
<1>b. RequestTime + 1 \in Nat /\ keys \in Keysets BY <1>t DEF SessionTypeOK
<1>a. \A k \in Keysets :
        Older(since.held[k], Forget) \in Nat /\ Older(since.held[k], Forget) <= since.held[k] + 1
  BY <1>0, <1>e, <1>2
<1>c. /\ Older(since.enabled, Forget) \in Nat /\ Older(since.enabled, Forget) <= since.enabled + 1
      /\ Older(since.clear, RequestTime + 1) \in Nat
      /\ Older(since.clear, RequestTime + 1) <= since.clear + 1
  BY <1>0, <1>e, <1>b, <1>2
<1>3. /\ since'.enabled \in Nat /\ since'.clear \in Nat /\ since'.held \in [Keysets -> Nat]
      /\ since'.enabled <= since.enabled + 1 /\ since'.clear <= since.clear + 1
      /\ \A k \in Keysets : since'.held[k] <= since.held[k] + 1
      /\ since'.held[keys] = 0 /\ (enabled => since'.enabled = 0)
      /\ (~blocked => since'.clear = 0)
      /\ since' \in [enabled : Nat, clear : Nat, held : [Keysets -> Nat]]
  BY <1>1, <1>2, <1>a, <1>b, <1>c
<1>4. UNCHANGED <<enabled, keys, blocked>> /\ made' = {} BY DEF SessionTick
<1>5. ASSUME NEW q \in Calls
      PROVE /\ call'[q] \in [step : {"idle", "login", "refresh", "sign", "gate", "create"},
                             keys : Keysets \cup {{}}, age : 0 .. RequestTime]
            /\ call'[q].step = call[q].step /\ call'[q].keys = call[q].keys
            /\ call[q].step # "idle" => call'[q].age = call[q].age + 1
  <2>1. call[q] \in [step : {"idle", "login", "refresh", "sign", "gate", "create"},
                     keys : Keysets \cup {{}}, age : 0 .. RequestTime]
    BY <1>t DEF SessionTypeOK
  <2>2. CASE call[q] = Idle
    <3>1. call'[q] = Idle BY <2>2 DEF SessionTick
    <3> QED BY <2>1, <2>2, <3>1 DEF Idle
  <2>3. CASE call[q] # Idle
    <3>1. call'[q] = [call[q] EXCEPT !.age = @ + 1] /\ call[q].age < RequestTime
      BY <2>3 DEF SessionTick
    <3> QED BY <2>1, <3>1
  <2> QED BY <2>2, <2>3
<1>6. call' \in [Calls -> [step : {"idle", "login", "refresh", "sign", "gate", "create"},
                           keys : Keysets \cup {{}}, age : 0 .. RequestTime]]
  <2>1. call' = [q \in Calls |-> IF call[q] = Idle THEN Idle ELSE [call[q] EXCEPT !.age = @ + 1]]
    BY DEF SessionTick
  <2>2. DOMAIN call' = Calls /\ call' = [q \in Calls |-> call'[q]] BY <2>1
  <2> QED BY <1>5, <2>2
<1>7. token' = IF token = NoToken THEN NoToken ELSE [token EXCEPT !.age = Older(@, RefreshLife)]
  BY DEF SessionTick
<1>8. token # NoToken =>
        /\ token' \in [keys : Keysets, age : Nat] /\ token'.keys = token.keys
        /\ token.keys \in Keysets /\ token.age \in Nat
        /\ token'.age < AccessLife => token'.age = token.age + 1
  BY <1>7, <1>t DEF SessionTypeOK, Older
<1>9. SessionTypeOK' BY <1>t, <1>3, <1>4, <1>6, <1>7, <1>8 DEF SessionTypeOK
<1>10. NowHeld' BY <1>3, <1>4 DEF NowHeld
<1>11. TokenBacked' BY <1>t, <1>2, <1>3, <1>7, <1>8 DEF TokenBacked
<1>12. CallsBacked'
  <2> SUFFICES ASSUME NEW q \in Calls
      PROVE /\ call'[q].step \in {"login", "refresh", "sign"} => since'.enabled <= call'[q].age
            /\ call'[q].step = "sign" => /\ call'[q].keys \in Keysets
                                         /\ since'.held[call'[q].keys] <= call'[q].age
            /\ call'[q].step \in {"gate", "create"} =>
                 /\ call'[q].keys \in Keysets /\ WriteGuard(call'[q].keys)
                 /\ since'.held[call'[q].keys] < AccessLife + RequestTime + call'[q].age
                 /\ since'.enabled < AccessLife + RequestTime + call'[q].age
            /\ call'[q].step = "create" /\ Gated(call'[q].keys) => since'.clear <= call'[q].age
    BY DEF CallsBacked
  <2>1. call[q].age \in Nat BY <1>t DEF SessionTypeOK
  <2> QED BY <1>t, <1>2, <1>3, <1>5, <2>1 DEF CallsBacked
<1>13. DraftsOnLiveAuthority' BY <1>4 DEF DraftsOnLiveAuthority
<1> QED BY <1>9, <1>10, <1>11, <1>12, <1>13 DEF SessionInv

\* A request of q begins, moves on or ends; the registry stays as it is.
LEMMA CallStepInv ==
  ASSUME SessionInv, NEW q \in Calls, UNCHANGED Registry, UNCHANGED token, made' = {},
         NEW c \in [step : {"idle", "login", "refresh", "sign", "gate", "create"},
                    keys : Keysets \cup {{}}, age : 0 .. RequestTime],
         call' = [call EXCEPT ![q] = c],
         c.step \in {"login", "refresh", "sign"} => since.enabled <= c.age,
         c.step = "sign" => c.keys \in Keysets /\ since.held[c.keys] <= c.age,
         c.step \in {"gate", "create"} =>
           /\ c.keys \in Keysets /\ WriteGuard(c.keys)
           /\ since.held[c.keys] < AccessLife + RequestTime + c.age
           /\ since.enabled < AccessLife + RequestTime + c.age,
         c.step = "create" /\ Gated(c.keys) => since.clear <= c.age
  PROVE SessionInv'
<1>t. SessionTypeOK /\ NowHeld /\ TokenBacked /\ CallsBacked BY DEF SessionInv
<1>1. UNCHANGED <<enabled, keys, blocked, since, token>> BY DEF Registry
<1>2. SessionTypeOK' BY <1>t, <1>1 DEF SessionTypeOK
<1>3. NowHeld' /\ TokenBacked' BY <1>t, <1>1 DEF NowHeld, TokenBacked
<1>4. \A p \in Calls : call'[p] = IF p = q THEN c ELSE call[p] BY <1>t DEF SessionTypeOK
<1>5. CallsBacked' BY <1>t, <1>1, <1>4 DEF CallsBacked
<1>6. DraftsOnLiveAuthority' BY DEF DraftsOnLiveAuthority
<1> QED BY <1>2, <1>3, <1>5, <1>6 DEF SessionInv

\* Tokens, requests, the registry and time keep the invariant.
LEMMA SessionStepInv == SessionInv /\ [SessionNext]_sessionVars => SessionInv'
<1> SUFFICES ASSUME SessionInv, [SessionNext]_sessionVars PROVE SessionInv' OBVIOUS
<1> USE SessionsAssumption
<1>t. SessionTypeOK /\ NowHeld /\ TokenBacked /\ CallsBacked BY DEF SessionInv
<1>i. Idle \in [step : {"idle", "login", "refresh", "sign", "gate", "create"},
                keys : Keysets \cup {{}}, age : 0 .. RequestTime] /\ Idle.step = "idle"
  BY DEF Idle
<1>h. since.enabled \in Nat /\ since.clear \in Nat /\ since.held \in [Keysets -> Nat]
  BY <1>t DEF SessionTypeOK
<1>1. ASSUME NEW b \in BOOLEAN, SetEnabled(b) PROVE SessionInv'
  BY <1>1, <1>t, RegistryChangeInv DEF SetEnabled, SessionTypeOK
<1>2. ASSUME NEW b \in BOOLEAN, SetBlocked(b) PROVE SessionInv'
  BY <1>2, <1>t, RegistryChangeInv DEF SetBlocked, SessionTypeOK
<1>3. ASSUME NEW k \in Keysets, SetKeys(k) PROVE SessionInv'
  BY <1>3, <1>t, RegistryChangeInv DEF SetKeys, SessionTypeOK
<1>4. CASE SessionTick BY <1>4, SessionTickInv
<1>5. ASSUME NEW q \in Calls, Login(q) \/ Refresh(q) PROVE SessionInv'
  <2>1. PICK step \in {"login", "refresh"} : enabled /\ Start(q, step, {})
    BY <1>5 DEF Login, Refresh
  <2> DEFINE c == [step |-> step, keys |-> {}, age |-> 0]
  <2>2. c \in [step : {"idle", "login", "refresh", "sign", "gate", "create"},
               keys : Keysets \cup {{}}, age : 0 .. RequestTime]
        /\ c.step = step /\ c.age = 0
    OBVIOUS
  <2>3. /\ call' = [call EXCEPT ![q] = c] /\ made' = {} /\ UNCHANGED Registry /\ UNCHANGED token
    BY <2>1 DEF Start
  <2>4. since.enabled <= 0 BY <2>1, <1>t DEF NowHeld
  <2> HIDE DEF c
  <2> QED BY <2>2, <2>3, <2>4, CallStepInv
<1>6. ASSUME NEW q \in Calls, ReadKeys(q) PROVE SessionInv'
  <2> DEFINE c == [call[q] EXCEPT !.step = "sign", !.keys = keys]
  <2>1. call[q].step \in {"login", "refresh"} /\ call' = [call EXCEPT ![q] = c]
        /\ made' = {} /\ UNCHANGED Registry /\ UNCHANGED token
    BY <1>6 DEF ReadKeys
  <2>2. c \in [step : {"idle", "login", "refresh", "sign", "gate", "create"},
               keys : Keysets \cup {{}}, age : 0 .. RequestTime]
        /\ c.step = "sign" /\ c.age = call[q].age /\ c.keys = keys
        /\ call[q].age \in Nat /\ keys \in Keysets
    <3> DEFINE row == call[q]
    <3>1. row \in [step : {"idle", "login", "refresh", "sign", "gate", "create"},
                   keys : Keysets \cup {{}}, age : 0 .. RequestTime] /\ keys \in Keysets
      BY <1>t DEF SessionTypeOK
    <3>2. c = [row EXCEPT !.step = "sign", !.keys = keys] OBVIOUS
    <3> HIDE DEF row, c
    <3>3. c = [step |-> "sign", keys |-> keys, age |-> row.age] BY <3>1, <3>2
    <3>4. row.age \in 0 .. RequestTime BY <3>1
    <3>5. c \in [step : {"idle", "login", "refresh", "sign", "gate", "create"},
                 keys : Keysets \cup {{}}, age : 0 .. RequestTime]
          /\ c.step = "sign" /\ c.age = row.age /\ c.keys = keys /\ row.age \in Nat
      BY <3>1, <3>3, <3>4
    <3> QED BY <3>1, <3>5 DEF row
  <2>3. since.enabled <= call[q].age /\ since.held[keys] = 0
    BY <1>t, <2>1 DEF CallsBacked, NowHeld
  <2> HIDE DEF c
  <2>4. since.enabled <= c.age /\ c.keys \in Keysets /\ since.held[c.keys] <= c.age
    BY <2>2, <2>3
  <2> QED BY <2>1, <2>2, <2>4, CallStepInv
<1>s. ASSUME NEW q \in Calls, Issue(q) PROVE SessionInv'
  <2>1. /\ call[q].step = "sign" /\ made' = {}
        /\ token' = [keys |-> call[q].keys, age |-> 0] /\ call' = [call EXCEPT ![q] = Idle]
        /\ UNCHANGED <<enabled, keys, blocked, since>>
    BY <1>s DEF Issue, Registry
  <2>2. call[q].keys \in Keysets /\ call[q].age \in 0 .. RequestTime
        /\ since.enabled <= call[q].age /\ since.held[call[q].keys] <= call[q].age
    BY <1>t, <2>1 DEF CallsBacked, SessionTypeOK
  <2>3. SessionTypeOK' BY <1>t, <1>i, <2>1, <2>2 DEF SessionTypeOK
  <2>4. NowHeld' BY <1>t, <2>1 DEF NowHeld
  <2>5. since.enabled <= RequestTime /\ since.held[call[q].keys] <= RequestTime
    BY <1>h, <2>2
  <2>6. TokenBacked' BY <2>1, <2>5 DEF TokenBacked
  <2>7. \A p \in Calls : call'[p] = IF p = q THEN Idle ELSE call[p]
    BY <1>t, <2>1 DEF SessionTypeOK
  <2>8. CallsBacked' BY <1>t, <1>i, <2>1, <2>7 DEF CallsBacked
  <2>9. DraftsOnLiveAuthority' BY <2>1 DEF DraftsOnLiveAuthority
  <2> QED BY <2>3, <2>4, <2>6, <2>8, <2>9 DEF SessionInv
<1>7. ASSUME NEW q \in Calls, Ask(q) PROVE SessionInv'
  <2>1. token # NoToken /\ token.age < AccessLife /\ WriteGuard(token.keys)
        /\ Start(q, "gate", token.keys)
    BY <1>7 DEF Ask
  <2>2. token.keys \in Keysets /\ token.age \in Nat BY <1>t, <2>1 DEF SessionTypeOK
  <2>3. since.held[token.keys] <= token.age + RequestTime /\ since.enabled <= token.age + RequestTime
    BY <1>t, <2>1 DEF TokenBacked
  <2> DEFINE c == [step |-> "gate", keys |-> token.keys, age |-> 0]
  <2>4. c \in [step : {"idle", "login", "refresh", "sign", "gate", "create"},
               keys : Keysets \cup {{}}, age : 0 .. RequestTime]
        /\ c.step = "gate" /\ c.age = 0 /\ c.keys = token.keys
    BY <2>2
  <2>5. /\ call' = [call EXCEPT ![q] = c] /\ made' = {} /\ UNCHANGED Registry /\ UNCHANGED token
    BY <2>1 DEF Start
  <2>6. /\ since.held[token.keys] < AccessLife + RequestTime + 0
        /\ since.enabled < AccessLife + RequestTime + 0
    BY <1>h, <2>1, <2>2, <2>3
  <2> HIDE DEF c
  <2> QED BY <2>1, <2>2, <2>4, <2>5, <2>6, CallStepInv
<1>8. ASSUME NEW q \in Calls, PassGate(q) PROVE SessionInv'
  <2> DEFINE c == [call[q] EXCEPT !.step = "create"]
  <2>1. call[q].step = "gate" /\ (Gated(call[q].keys) => ~blocked)
        /\ call' = [call EXCEPT ![q] = c] /\ made' = {} /\ UNCHANGED Registry /\ UNCHANGED token
    BY <1>8 DEF PassGate
  <2>2. c \in [step : {"idle", "login", "refresh", "sign", "gate", "create"},
               keys : Keysets \cup {{}}, age : 0 .. RequestTime]
        /\ c.step = "create" /\ c.age = call[q].age /\ c.keys = call[q].keys
        /\ call[q].age \in Nat
    BY <1>t DEF SessionTypeOK
  <2>3. /\ call[q].keys \in Keysets /\ WriteGuard(call[q].keys)
        /\ since.held[call[q].keys] < AccessLife + RequestTime + call[q].age
        /\ since.enabled < AccessLife + RequestTime + call[q].age
    BY <1>t, <2>1 DEF CallsBacked
  <2>4. Gated(c.keys) => since.clear <= c.age BY <1>t, <2>1, <2>2 DEF NowHeld
  <2> HIDE DEF c
  <2> QED BY <2>1, <2>2, <2>3, <2>4, CallStepInv
<1>9. ASSUME NEW q \in Calls, Forbidden(q) PROVE SessionInv'
  BY <1>9, <1>i, CallStepInv DEF Forbidden
<1>10. ASSUME NEW q \in Calls, CreateDraft(q) PROVE SessionInv'
  <2> DEFINE x == [keys |-> call[q].keys, age |-> call[q].age, since |-> since]
  <2>1. /\ call[q].step = "create" /\ made' = {x}
        /\ call' = [call EXCEPT ![q] = Idle] /\ UNCHANGED <<enabled, keys, blocked, since, token>>
    BY <1>10 DEF CreateDraft, Registry
  <2>2. SessionTypeOK' BY <1>t, <1>i, <2>1 DEF SessionTypeOK
  <2>3. NowHeld' /\ TokenBacked' BY <1>t, <2>1 DEF NowHeld, TokenBacked
  <2>4. \A p \in Calls : call'[p] = IF p = q THEN Idle ELSE call[p]
    BY <1>t, <2>1 DEF SessionTypeOK
  <2>5. CallsBacked' BY <1>t, <1>i, <2>1, <2>4 DEF CallsBacked
  <2>6. /\ call[q].keys \in Keysets /\ WriteGuard(call[q].keys)
        /\ since.held[call[q].keys] < AccessLife + RequestTime + call[q].age
        /\ since.enabled < AccessLife + RequestTime + call[q].age
        /\ Gated(call[q].keys) => since.clear <= call[q].age
    BY <1>t, <2>1 DEF CallsBacked
  <2>7. call[q].age \in 0 .. RequestTime BY <1>t DEF SessionTypeOK
  <2>8. since.held[call[q].keys] \in Nat BY <1>h, <2>6
  <2>9. /\ since.held[call[q].keys] < AccessLife + RequestTime + RequestTime
        /\ since.enabled < AccessLife + RequestTime + RequestTime
    BY <1>h, <2>6, <2>7, <2>8
  <2>10. /\ "QUOTE_NEW_ORIGINATION_FLOW" \in call[q].keys
         /\ call[q].keys \cap {"QUOTE_CREATE", Admin} # {}
    BY <2>6 DEF WriteGuard, GuardPasses
  <2>11. DraftsOnLiveAuthority' BY <2>1, <2>6, <2>9, <2>10 DEF DraftsOnLiveAuthority
  <2> QED BY <2>2, <2>3, <2>5, <2>11 DEF SessionInv
<1>11. CASE UNCHANGED sessionVars
  BY <1>11 DEF SessionInv, SessionTypeOK, NowHeld, TokenBacked, CallsBacked, DraftsOnLiveAuthority,
    sessionVars
<1> QED BY <1>1, <1>2, <1>3, <1>4, <1>5, <1>6, <1>7, <1>8, <1>9, <1>10, <1>11, <1>s
  DEF SessionNext
-----------------------------------------------------------------------------
(***************************************************************************)
(* The place of a visit (VisitLocation).                                   *)
(***************************************************************************)

\* What the table of addresses may hold.
AddressRows == [home : Homes, primary : {"yes", "no", "null"}]

\* The registry holds addresses of that kind.
VisitTypeOK == addresses \in Seq(AddressRows) /\ guarantor \in Homes \cup {Nowhere}

\* The address a check of the party would start from.
AddressOf(party) == IF party = "guarantor" THEN guarantor ELSE FindClientAddress(addresses)

\* The last check is what the check would answer now: an address that is added
\* later makes the answer old, and it is forgotten.
VisitCurrent ==
  visit # Nowhere =>
    \E party \in {"client", "guarantor"}, place \in Places,
       settings \in [radius : Radii, proximity : Radii], accuracy \in -1 .. MaxBonus + 1 :
      /\ AddressOf(party) # Nowhere
      /\ visit = [party |-> party, place |-> place, settings |-> settings,
                  result |-> Result(AddressOf(party), place, settings, accuracy)]

\* Some row comes first in the order of the query.
LEMMA FirstAddressExists ==
  ASSUME NEW rows \in Seq(AddressRows), rows # <<>>
  PROVE \E i \in DOMAIN rows : \A j \in DOMAIN rows \ {i} :
          \/ Rank(rows[j]) < Rank(rows[i])
          \/ Rank(rows[j]) = Rank(rows[i]) /\ j < i
<1> DEFINE D(r) == {i \in DOMAIN rows : Rank(rows[i]) = r}
<1>1. \A i \in DOMAIN rows : Rank(rows[i]) \in {0, 1, 2} BY DEF Rank
<1>2. Len(rows) \in Nat \ {0} /\ DOMAIN rows = 1 .. Len(rows) OBVIOUS
<1>3. \E top \in {0, 1, 2} : D(top) # {} /\ \A i \in DOMAIN rows : Rank(rows[i]) <= top
  <2>1. CASE D(2) # {} BY <1>1, <2>1
  <2>2. CASE D(2) = {} /\ D(1) # {}
    <3>1. \A i \in DOMAIN rows : Rank(rows[i]) <= 1 BY <1>1, <2>2
    <3> QED BY <3>1, <2>2
  <2>3. CASE D(2) = {} /\ D(1) = {}
    <3>1. \A i \in DOMAIN rows : Rank(rows[i]) = 0 BY <1>1, <2>3
    <3>2. 1 \in D(0) BY <1>2, <3>1
    <3> QED BY <3>1, <3>2
  <2> QED BY <2>1, <2>2, <2>3
<1>4. PICK top \in {0, 1, 2} : D(top) # {} /\ \A i \in DOMAIN rows : Rank(rows[i]) <= top
  BY <1>3
<1> DEFINE B == {Len(rows) - i : i \in D(top)}
<1>5. B \subseteq Nat /\ B # {} BY <1>2, <1>4
<1>6. PICK b \in B : \A c \in B : b <= c BY <1>5, NatMin
<1>7. PICK i \in D(top) : b = Len(rows) - i BY <1>6
<1>8. ASSUME NEW j \in DOMAIN rows \ {i}
      PROVE Rank(rows[j]) < Rank(rows[i]) \/ (Rank(rows[j]) = Rank(rows[i]) /\ j < i)
  <2>1. Rank(rows[i]) = top /\ Rank(rows[j]) <= top /\ Rank(rows[j]) \in {0, 1, 2}
    BY <1>1, <1>4, <1>7
  <2>2. CASE Rank(rows[j]) = top
    <3>1. Len(rows) - j \in B BY <2>2
    <3>2. Len(rows) - i <= Len(rows) - j BY <3>1, <1>6, <1>7
    <3>3. i \in Nat /\ j \in Nat /\ j # i BY <1>2
    <3>4. j < i BY <3>2, <3>3, <1>2
    <3> QED BY <2>1, <2>2, <3>4
  <2>3. CASE Rank(rows[j]) # top BY <2>1, <2>3
  <2> QED BY <2>2, <2>3
<1> QED BY <1>7, <1>8

\* The address the query finds may be measured from.
LEMMA FoundIsRegistered ==
  ASSUME NEW rows \in Seq(AddressRows), FindClientAddress(rows) # Nowhere
  PROVE FindClientAddress(rows) \in Registered(rows) /\ FindClientAddress(rows) \in Homes
<1>1. rows # <<>> BY DEF FindClientAddress
<1> DEFINE best(i) == \A j \in DOMAIN rows \ {i} :
             \/ Rank(rows[j]) < Rank(rows[i])
             \/ Rank(rows[j]) = Rank(rows[i]) /\ j < i
           i == CHOOSE i \in DOMAIN rows : best(i)
<1>2. i \in DOMAIN rows /\ best(i)
  <2>1. \E k \in DOMAIN rows : best(k) BY <1>1, FirstAddressExists
  <2> HIDE DEF best
  <2> QED BY <2>1
<1>3. FindClientAddress(rows) = rows[i].home BY <1>1 DEF FindClientAddress
<1> HIDE DEF i
<1>4. \A j \in DOMAIN rows : rows[j] \in AddressRows /\ j \in Nat OBVIOUS
<1>5. rows[i].primary = "yes" \/ \A j \in DOMAIN rows : rows[j].primary # "yes"
  BY <1>2, <1>4 DEF Rank, AddressRows
<1>6. \A j \in DOMAIN rows : j > i => rows[j].primary # rows[i].primary
  BY <1>2, <1>4 DEF Rank, AddressRows
<1>7. rows[i].home \in Homes BY <1>2, <1>4 DEF AddressRows
<1> QED BY <1>2, <1>3, <1>5, <1>6, <1>7 DEF Registered

\* Before a check, and once it is forgotten, there is no answer to be old.
LEMMA NoVisitIsCurrent == (visit = Nowhere => VisitCurrent) /\ (visit' = Nowhere => VisitCurrent')
  BY Zenon DEF VisitCurrent

\* No check was made at the start.
LEMMA VisitInitInv == VisitInit => VisitTypeOK /\ VisitCurrent
<1>1. VisitInit => VisitTypeOK BY DEF VisitInit, VisitTypeOK
<1> QED BY <1>1, NoVisitIsCurrent DEF VisitInit

\* Every step keeps the registry typed and the last answer current.
LEMMA VisitStepInv ==
  VisitTypeOK /\ VisitCurrent /\ [VisitNext]_visitVars => VisitTypeOK' /\ VisitCurrent'
<1> SUFFICES ASSUME VisitTypeOK, VisitCurrent, [VisitNext]_visitVars
             PROVE VisitTypeOK' /\ VisitCurrent'
  OBVIOUS
<1> USE VisitAssumption
<1>1. ASSUME NEW home \in Homes, NEW primary \in {"yes", "no", "null"}, AddAddress(home, primary)
      PROVE VisitTypeOK' /\ VisitCurrent'
  <2>1. [home |-> home, primary |-> primary] \in AddressRows BY DEF AddressRows
  <2>2. VisitTypeOK' BY <1>1, <2>1 DEF AddAddress, VisitTypeOK
  <2> QED BY <1>1, <2>2, NoVisitIsCurrent DEF AddAddress
<1>2. ASSUME NEW home \in Homes, NameGuarantor(home) PROVE VisitTypeOK' /\ VisitCurrent'
  <2>1. VisitTypeOK' BY <1>2 DEF NameGuarantor, VisitTypeOK
  <2> QED BY <1>2, <2>1, NoVisitIsCurrent DEF NameGuarantor
<1>3. ASSUME NEW party \in {"client", "guarantor"}, NEW place \in Places,
             NEW settings \in [radius : Radii, proximity : Radii], NEW accuracy \in -1 .. MaxBonus + 1,
             Verify(party, place, settings, accuracy)
      PROVE VisitTypeOK' /\ VisitCurrent'
  <2>1. /\ AddressOf(party) # Nowhere /\ UNCHANGED <<addresses, guarantor>>
        /\ visit' = [party |-> party, place |-> place, settings |-> settings,
                     result |-> Result(AddressOf(party), place, settings, accuracy)]
    BY <1>3 DEF Verify, AddressOf
  <2>2. AddressOf(party)' = AddressOf(party) BY <2>1 DEF AddressOf
  <2>3. VisitTypeOK' BY <2>1 DEF VisitTypeOK
  <2>4. VisitCurrent' BY <1>3, <2>1, <2>2, Zenon DEF VisitCurrent
  <2> QED BY <2>3, <2>4
<1>4. CASE UNCHANGED visitVars
  <2>1. VisitTypeOK' BY <1>4 DEF visitVars, VisitTypeOK
  <2>2. VisitCurrent' BY <1>4, Zenon DEF visitVars, VisitCurrent, AddressOf
  <2> QED BY <2>1, <2>2
<1> QED BY <1>1, <1>2, <1>3, <1>4 DEF VisitNext

\* The two radii: the effective one is at least the configured one, at most the
\* configured one and the bonus, and never beyond the proximity band.
LEMMA Radius ==
  ASSUME NEW settings \in [radius : Radii, proximity : Radii], NEW accuracy \in Int
  PROVE /\ ProximityRadius(settings) \in Nat
        /\ EffectiveRadius(settings, accuracy) \in Nat
        /\ EffectiveRadius(settings, accuracy) <= ProximityRadius(settings)
        /\ EffectiveRadius(settings, accuracy) <= settings.radius + MaxBonus
        /\ \A other \in Int : other >= MaxBonus =>
             EffectiveRadius(settings, accuracy) <= EffectiveRadius(settings, other)
<1> USE VisitAssumption
<1> DEFINE positive(a) == Max({a, 0})
           bonus(a) == Min({positive(a), MaxBonus})
<1>1. settings.radius \in Nat /\ settings.proximity \in Nat OBVIOUS
<1>2. /\ ProximityRadius(settings) \in Nat /\ ProximityRadius(settings) >= settings.radius
  <2>1. settings.proximity \in Int /\ settings.radius \in Int BY <1>1
  <2>2. /\ Max({settings.proximity, settings.radius}) \in {settings.proximity, settings.radius}
        /\ Max({settings.proximity, settings.radius}) >= settings.radius
    BY <2>1, MaxOfTwo, Zenon
  <2> QED BY <1>1, <2>2 DEF ProximityRadius
<1>3. ASSUME NEW a \in Int
      PROVE /\ bonus(a) \in Nat /\ bonus(a) <= MaxBonus /\ (a >= MaxBonus => bonus(a) = MaxBonus)
            /\ EffectiveRadius(settings, a) \in Int
            /\ EffectiveRadius(settings, a) \in {settings.radius + bonus(a), ProximityRadius(settings)}
            /\ EffectiveRadius(settings, a) <= settings.radius + bonus(a)
            /\ EffectiveRadius(settings, a) <= ProximityRadius(settings)
  <2>1. positive(a) \in {a, 0} /\ positive(a) >= a /\ positive(a) >= 0
    <3>1. 0 \in Int OBVIOUS
    <3> QED BY <3>1, MaxOfTwo, Zenon
  <2> HIDE DEF positive
  <2>2. bonus(a) \in {positive(a), MaxBonus} /\ bonus(a) <= positive(a) /\ bonus(a) <= MaxBonus
    <3>1. positive(a) \in Int /\ MaxBonus \in Int BY <2>1
    <3> QED BY <3>1, MaxOfTwo, Zenon
  <2>3. EffectiveRadius(settings, a) = Min({settings.radius + bonus(a), ProximityRadius(settings)})
    BY DEF EffectiveRadius, positive
  <2> HIDE DEF bonus
  <2>4. bonus(a) \in Nat /\ (a >= MaxBonus => bonus(a) = MaxBonus) BY <2>1, <2>2
  <2>5. settings.radius + bonus(a) \in Int /\ ProximityRadius(settings) \in Int
    BY <1>1, <1>2, <2>4
  <2> DEFINE reach == settings.radius + bonus(a)
             band == ProximityRadius(settings)
  <2> HIDE DEF reach, band
  <2>6. reach \in Int /\ band \in Int BY <2>5 DEF reach, band
  <2>7. Min({reach, band}) \in {reach, band} /\ Min({reach, band}) <= reach
        /\ Min({reach, band}) <= band
    BY <2>6, MaxOfTwo, Zenon
  <2>8. EffectiveRadius(settings, a) = Min({reach, band}) BY <2>3 DEF reach, band
  <2> QED BY <2>2, <2>4, <2>6, <2>7, <2>8 DEF reach, band
<1> HIDE DEF positive, bonus
<1>4. \A other \in Int : other >= MaxBonus =>
        EffectiveRadius(settings, accuracy) <= EffectiveRadius(settings, other)
  <2> SUFFICES ASSUME NEW other \in Int, other >= MaxBonus
               PROVE EffectiveRadius(settings, accuracy) <= EffectiveRadius(settings, other)
    OBVIOUS
  <2> QED BY <1>1, <1>2, <1>3
<1> QED BY <1>1, <1>2, <1>3, <1>4

\* A distance is an integer.
LEMMA DistanceIsInt ==
  ASSUME NEW a \in Int, NEW b \in Int
  PROVE Distance(a, b) \in Int
<1>1. a - b \in Int /\ b - a \in Int OBVIOUS
<1>2. Max({a - b, b - a}) \in {a - b, b - a} BY <1>1, MaxOfTwo, Zenon
<1> QED BY <1>1, <1>2 DEF Distance

\* Only what is near a trusted point is confirmed, and exactly so within the
\* effective radius.
LEMMA LevelOf ==
  ASSUME NEW home \in Homes, NEW place \in Places,
         NEW settings \in [radius : Radii, proximity : Radii], NEW accuracy \in Int
  PROVE LET level == Result(home, place, settings, accuracy).level
            distance == Distance(home.at, place)
        IN /\ level # "none" => /\ home.at \in Int /\ home.rooftop /\ (home.city => home.cited)
                                /\ distance <= ProximityRadius(settings)
           /\ level = "exact" => distance <= EffectiveRadius(settings, accuracy)
           /\ home.at \in Int /\ home.rooftop /\ (home.city => home.cited) =>
                /\ distance <= ProximityRadius(settings) => level # "none"
                /\ distance <= EffectiveRadius(settings, accuracy) => level = "exact"
<1> USE VisitAssumption
<1>1. home.at \in Int \cup {Nowhere} /\ home.rooftop \in BOOLEAN /\ home.city \in BOOLEAN
      /\ home.cited \in BOOLEAN
  OBVIOUS
<1>2. /\ ProximityRadius(settings) \in Nat /\ EffectiveRadius(settings, accuracy) \in Nat
      /\ EffectiveRadius(settings, accuracy) <= ProximityRadius(settings)
  BY Radius
<1>3. CASE home.at = Nowhere
  <2>1. Result(home, place, settings, accuracy).level = "none" BY <1>3 DEF Result
  <2> QED BY <1>3, <2>1
<1>4. CASE home.at # Nowhere
  <2>1. Distance(home.at, place) \in Int BY <1>1, <1>4, DistanceIsInt
  <2>2. Result(home, place, settings, accuracy).level =
          IF AddressLikelyWrong(home) THEN "none"
          ELSE ConfirmationLevel(Distance(home.at, place), EffectiveRadius(settings, accuracy),
                                 ProximityRadius(settings))
    BY <1>4 DEF Result
  <2>3. AddressLikelyWrong(home) <=> ~(home.rooftop /\ (home.city => home.cited))
    BY <1>1 DEF AddressLikelyWrong
  <2> QED BY <1>1, <1>2, <1>4, <2>1, <2>2, <2>3 DEF ConfirmationLevel
<1> QED BY <1>3, <1>4

\* An answer that is current says what VisitConfirmed asks of it.
LEMMA CurrentIsConfirmed == VisitTypeOK /\ VisitCurrent => VisitConfirmed
<1> SUFFICES ASSUME VisitTypeOK, VisitCurrent, visit # Nowhere, visit.result.level # "none"
             PROVE \E home \in IF visit.party = "guarantor" THEN {guarantor} ELSE Registered(addresses) :
      LET distance == Distance(home.at, visit.place)
      IN /\ home.at # Nowhere /\ home.rooftop /\ (home.city => home.cited)
         /\ distance <= ProximityRadius(visit.settings)
         /\ visit.result.level = "exact" => distance <= visit.settings.radius + MaxBonus
         /\ \A other \in -1 .. MaxBonus + 1 :
              /\ Result(home, visit.place, visit.settings, other).level # "none"
              /\ \A place \in Places : Distance(home.at, place) <= distance =>
                   /\ Result(home, place, visit.settings, other).level # "none"
                   /\ visit.result.level = "exact" /\ other >= MaxBonus =>
                        Result(home, place, visit.settings, other).level = "exact"
  BY DEF VisitConfirmed
<1> USE VisitAssumption
<1>1. PICK party \in {"client", "guarantor"}, place \in Places,
           settings \in [radius : Radii, proximity : Radii], accuracy \in -1 .. MaxBonus + 1 :
        /\ AddressOf(party) # Nowhere
        /\ visit = [party |-> party, place |-> place, settings |-> settings,
                    result |-> Result(AddressOf(party), place, settings, accuracy)]
  BY DEF VisitCurrent
<1> DEFINE home == AddressOf(party)
           level == Result(home, place, settings, accuracy).level
           distance == Distance(home.at, place)
<1>2. visit.party = party /\ visit.place = place /\ visit.settings = settings
      /\ visit.result.level = level
  BY <1>1
<1>3. /\ home \in Homes
      /\ home \in IF visit.party = "guarantor" THEN {guarantor} ELSE Registered(addresses)
  BY <1>1, <1>2, FoundIsRegistered DEF AddressOf, VisitTypeOK
<1> HIDE DEF home
<1>4. accuracy \in Int /\ \A other \in -1 .. MaxBonus + 1 : other \in Int OBVIOUS
<1>5. /\ home.at \in Int /\ home.rooftop /\ (home.city => home.cited)
      /\ distance <= ProximityRadius(settings)
      /\ level = "exact" => distance <= EffectiveRadius(settings, accuracy)
  BY <1>2, <1>3, <1>4, LevelOf
<1>6. /\ ProximityRadius(settings) \in Nat /\ EffectiveRadius(settings, accuracy) \in Nat
      /\ EffectiveRadius(settings, accuracy) <= settings.radius + MaxBonus
      /\ \A other \in Int : /\ EffectiveRadius(settings, other) \in Nat
                            /\ other >= MaxBonus => EffectiveRadius(settings, accuracy)
                                                      <= EffectiveRadius(settings, other)
  BY <1>4, Radius
<1>7. distance \in Int /\ settings.radius \in Nat BY <1>5, DistanceIsInt
<1>8. level = "exact" => distance <= settings.radius + MaxBonus BY <1>5, <1>6, <1>7
<1>9. ASSUME NEW other \in -1 .. MaxBonus + 1, NEW near \in Places,
             Distance(home.at, near) <= distance
      PROVE /\ Result(home, near, settings, other).level # "none"
            /\ level = "exact" /\ other >= MaxBonus =>
                 Result(home, near, settings, other).level = "exact"
  <2>0. home.at \in Int /\ near \in Int BY <1>5
  <2>1. other \in Int /\ Distance(home.at, near) \in Int
    <3>1. other \in Int OBVIOUS
    <3> QED BY <2>0, <3>1, DistanceIsInt, Zenon
  <2>2. Distance(home.at, near) <= ProximityRadius(settings) BY <1>5, <1>6, <1>7, <1>9, <2>1
  <2>3. level = "exact" /\ other >= MaxBonus =>
          Distance(home.at, near) <= EffectiveRadius(settings, other)
    BY <1>5, <1>6, <1>7, <1>9, <2>1
  <2> HIDE DEF level, distance
  <2> QED BY <1>3, <1>5, <2>1, <2>2, <2>3, LevelOf
<1>10. ASSUME NEW other \in -1 .. MaxBonus + 1
       PROVE Result(home, place, settings, other).level # "none"
  BY <1>7, <1>9
<1>11. home.at # Nowhere BY <1>5
<1> HIDE DEF level, distance
<1>12. /\ home.at # Nowhere /\ home.rooftop /\ (home.city => home.cited)
       /\ Distance(home.at, visit.place) <= ProximityRadius(visit.settings)
       /\ visit.result.level = "exact" =>
            Distance(home.at, visit.place) <= visit.settings.radius + MaxBonus
       /\ \A other \in -1 .. MaxBonus + 1 :
            /\ Result(home, visit.place, visit.settings, other).level # "none"
            /\ \A near \in Places : Distance(home.at, near) <= Distance(home.at, visit.place) =>
                 /\ Result(home, near, visit.settings, other).level # "none"
                 /\ visit.result.level = "exact" /\ other >= MaxBonus =>
                      Result(home, near, visit.settings, other).level = "exact"
  BY <1>2, <1>5, <1>8, <1>9, <1>10, <1>11 DEF distance
<1> QED BY <1>3, <1>12
-----------------------------------------------------------------------------
(***************************************************************************)
(* The parts together.                                                     *)
(***************************************************************************)

\* A behaviour of the portal is one of each part.
LEMMA PortalIsItsParts ==
  PortalSpec => /\ LimiterSpec /\ PeopleSpec /\ PortfolioSpec /\ InteractionsSpec
                /\ WizardSpec /\ SessionSpec /\ VisitSpec
<1>1. PortalInit => /\ LimiterInit /\ PeopleInit /\ PortfolioInit /\ InteractionsInit
                    /\ WizardInit /\ SessionInit /\ VisitInit
  BY DEF PortalInit
<1>2. ASSUME [PortalNext]_portalVars
      PROVE /\ [LimiterNext]_limiterVars /\ [PeopleNext]_peopleVars
            /\ [PortfolioNext]_portfolioVars /\ [InteractionsNext]_interactionVars
            /\ [WizardNext]_wizardVars /\ [SessionNext]_sessionVars /\ [VisitNext]_visitVars
  <2>1. CASE LimiterStep BY <2>1 DEF LimiterStep
  <2>2. CASE PeopleStep BY <2>2 DEF PeopleStep
  <2>3. CASE PortfolioStep BY <2>3 DEF PortfolioStep
  <2>4. CASE InteractionsStep BY <2>4 DEF InteractionsStep
  <2>5. CASE WizardStep BY <2>5 DEF WizardStep
  <2>6. CASE SessionStep BY <2>6 DEF SessionStep
  <2>7. CASE VisitStep BY <2>7 DEF VisitStep
  <2>8. CASE UNCHANGED portalVars BY <2>8 DEF portalVars
  <2> QED BY <1>2, <2>1, <2>2, <2>3, <2>4, <2>5, <2>6, <2>7, <2>8 DEF PortalNext
<1> QED BY <1>1, <1>2, PTL DEF PortalSpec, LimiterSpec, PeopleSpec, PortfolioSpec,
          InteractionsSpec, WizardSpec, SessionSpec, VisitSpec

(***************************************************************************)
(* Whom a user sees is the live hierarchy below him; behind the guards of  *)
(* the routes a partner who is offered opens, and a proposal the viewer    *)
(* finds is editable exactly when its save is accepted                     *)
(* (scope.service.ts, 74-91; performance.service.ts, 88-152;               *)
(* quotes.controller.ts, 72-310).                                          *)
(***************************************************************************)
THEOREM UsersSeeTheirPeople == PeopleSpec => []WhoSeesWhom
<1>1. PeopleSpec => []PeopleTypeOK BY PeopleInitInv, PeopleStepInv, PTL DEF PeopleSpec
<1> QED BY <1>1, TypedSeesWhom, PTL

(***************************************************************************)
(* A draft is owed to permissions and to an account that were in force no  *)
(* longer ago than an access token and the requests around it last, and    *)
(* the permission of the new flow was among them, an administrator's       *)
(* included (auth.service.ts, 35-79; permissions.guard.ts, 26-52).         *)
(***************************************************************************)
THEOREM DraftsOweLiveAuthority == SessionSpec => []DraftsOnLiveAuthority
<1>1. SessionSpec => []SessionInv BY SessionInitInv, SessionStepInv, PTL DEF SessionSpec
<1>2. SessionInv => DraftsOnLiveAuthority BY DEF SessionInv
<1> QED BY <1>1, <1>2, PTL

(***************************************************************************)
(* What a user may see and do follows the registry, whichever part of the  *)
(* portal moves (scope.service.ts, 74-91; auth.service.ts, 70-79).         *)
(***************************************************************************)
THEOREM AccessIsWithinRegistry == PortalSpec => []AccessFollowsRegistry
<1>1. WhoSeesWhom /\ DraftsOnLiveAuthority => AccessFollowsRegistry
  BY DEF AccessFollowsRegistry
<1> QED BY <1>1, PortalIsItsParts, UsersSeeTheirPeople, DraftsOweLiveAuthority, PTL

(***************************************************************************)
(* The Home, the summary, the list of contracts and Cobrança agree on the  *)
(* contracts they share, whatever is paid, renegotiated, reassigned or     *)
(* closed on whatever day: the Home and the tabs show every company, the   *)
(* list and the summary CELCOIN alone, and of an internal company the view *)
(* counts nothing (dashboard.service.ts, 67-246;                           *)
(* portfolio.service.ts, 41-69; contracts.service.ts, 267-366;             *)
(* collections.service.ts, 166-444; vw_fato_parcela.sql, 27-42).           *)
(***************************************************************************)
THEOREM ScreensAgree == PortfolioSpec => []ViewsAgree
<1>1. PortfolioSpec => []PortfolioInv
  BY PortfolioInitInv, PortfolioStepInv, PTL DEF PortfolioSpec
<1> QED BY <1>1, InvViewsAgree, PTL

(***************************************************************************)
(* A step of the wizard opened again shows what the last save or copy left *)
(* there (quote-read.service.ts, 262-350 and 470-535).                     *)
(***************************************************************************)
THEOREM WizardShowsWhatWasSaved == WizardSpec => []ShownAsSaved
<1>1. WizardSpec => []WizardInv BY WizardInitInv, WizardStepInv, PTL DEF WizardSpec
<1> QED BY <1>1, AgreeShows, PTL

(***************************************************************************)
(* Of the executions a task accepts its follow-up refuses those that       *)
(* reached "other" and no other one; of those that are kept the row of the *)
(* history tells whom it reached, how and with what result                 *)
(* (activities.service.ts, 795-860; follow-up.service.ts, 98-196).         *)
(***************************************************************************)
THEOREM HistoryTellsWhatWasDone == InteractionsSpec => []FollowUpTells
<1>1. InteractionsSpec => []LastIsAccepted
  BY LastInitInv, LastStepInv, PTL DEF InteractionsSpec
<1> QED BY <1>1, AcceptedTells, PTL

(***************************************************************************)
(* A visit is confirmed only near a trusted address of whom was visited    *)
(* (location-check.service.ts, 71-138 and 219-225).                        *)
(***************************************************************************)
THEOREM VisitsAreConfirmedNearby == VisitSpec => []VisitConfirmed
<1>1. VisitSpec => [](VisitTypeOK /\ VisitCurrent)
  BY VisitInitInv, VisitStepInv, PTL DEF VisitSpec
<1> QED BY <1>1, CurrentIsConfirmed, PTL

(***************************************************************************)
(* A form opened again shows what was entered, a follow-up tells what was  *)
(* done, and a visit is confirmed as it should, whichever part of the      *)
(* portal moves.                                                           *)
(***************************************************************************)
THEOREM FormsShowWhatWasEntered == PortalSpec => []ShownAsEntered
<1>1. ShownAsSaved /\ FollowUpTells /\ VisitConfirmed => ShownAsEntered
  BY DEF ShownAsEntered
<1> QED BY <1>1, PortalIsItsParts, WizardShowsWhatWasSaved, HistoryTellsWhatWasDone,
          VisitsAreConfirmedNearby, PTL

(***************************************************************************)
(* PortalSpec draws one part and lets it take all the steps.  Nothing is   *)
(* lost: what it promises holds as well of parts that move in any order,   *)
(* one at a time or together.                                              *)
(***************************************************************************)
THEOREM PartsInAnyOrder ==
  LimiterSpec /\ PeopleSpec /\ PortfolioSpec /\ InteractionsSpec
    /\ WizardSpec /\ SessionSpec /\ VisitSpec
  => [](QuotaRespected /\ AccessFollowsRegistry /\ ViewsAgree /\ ShownAsEntered)
<1>1. WhoSeesWhom /\ DraftsOnLiveAuthority => AccessFollowsRegistry
  BY DEF AccessFollowsRegistry
<1>2. ShownAsSaved /\ FollowUpTells /\ VisitConfirmed => ShownAsEntered
  BY DEF ShownAsEntered
<1> QED BY <1>1, <1>2, QuotaIsRespected, UsersSeeTheirPeople, DraftsOweLiveAuthority,
          ScreensAgree, WizardShowsWhatWasSaved, HistoryTellsWhatWasDone,
          VisitsAreConfirmedNearby, PTL
=============================================================================
