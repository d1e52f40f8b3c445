----------------------------- MODULE SumsProofs -----------------------------
(***************************************************************************)
(* Facts about Sum, for every number of summands, and about the sums over  *)
(* finite sets of the community modules.  The induction over the index or  *)
(* the size is carried out with a least counterexample, which exists       *)
(* because < is well-founded on Nat.                                       *)
(***************************************************************************)
EXTENDS Sums, TLAPS, WellFoundedInduction, Functions, FiniteSetTheorems

\* A non-empty set of naturals has a least member.
LEMMA LeastNat ==
  ASSUME NEW T, T \subseteq Nat, T # {}
  PROVE  \E x \in T : \A y \in T : x <= y
<1>1. PICK x \in T : \A y \in T : ~(<<y, x>> \in OpToRel(<, Nat))
  BY WFMin, NatLessThanWellFounded
<1>2. \A y \in T : ~(y < x)
  BY <1>1 DEF OpToRel
<1>3. QED BY <1>2

\* Induction up to n, on a set rather than a predicate.
LEMMA InductionTo ==
  ASSUME NEW n \in Nat, NEW G, 0 \in G, \A i \in 1..n : i-1 \in G => i \in G
  PROVE  \A i \in 0..n : i \in G
<1> DEFINE Bad == {i \in 0..n : i \notin G}
<1>1. SUFFICES ASSUME Bad # {} PROVE FALSE
  OBVIOUS
<1>2. Bad \subseteq Nat
  OBVIOUS
<1>3. PICK m \in Bad : \A k \in Bad : m <= k
  BY <1>1, <1>2, LeastNat
<1>4. m \in 1..n
  BY <1>3
<1>5. m - 1 \in 0..n /\ m - 1 \notin Bad
  BY <1>3, <1>4
<1>6. QED BY <1>3, <1>4, <1>5

\* f gives a natural number for each of 1..n.
NatOn(f, n) == \A i \in 1..n : f[i] \in Nat

\* s solves the recursion that defines Prefix(f, m).
Solves(s, f, m) == /\ s = [i \in 0..m |-> IF i = 0 THEN 0 ELSE s[i-1] + f[i]]
                   /\ s \in [0..m -> Nat]

\* p holds the prefix sums of f.
Prefixes(p, f, n) == /\ \A i \in 0..n : p[i] \in Nat
                     /\ p[0] = 0
                     /\ \A i \in 1..n : p[i] = p[i-1] + f[i]

\* The recursion that defines Prefix has a solution.
LEMMA PrefixExists ==
  ASSUME NEW n \in Nat, NEW f, NatOn(f, n)
  PROVE  \E s : Solves(s, f, n)
<1> DEFINE G == {m \in 0..n : \E s : Solves(s, f, m)}
<1>1. 0 \in G
  <2>1. Solves([i \in 0..0 |-> 0], f, 0)
    BY DEF Solves
  <2> QED BY <2>1
<1>2. ASSUME NEW m \in 1..n, m-1 \in G PROVE m \in G
  <2>1. PICK s : Solves(s, f, m-1)
    BY <1>2
  <2> DEFINE t == [i \in 0..m |-> IF i = m THEN s[m-1] + f[m] ELSE s[i]]
  <2>2. t \in [0..m -> Nat]
    BY <2>1 DEF Solves, NatOn
  <2>3. ASSUME NEW i \in 0..m PROVE t[i] = IF i = 0 THEN 0 ELSE t[i-1] + f[i]
    BY <2>1 DEF Solves
  <2>4. t = [i \in 0..m |-> IF i = 0 THEN 0 ELSE t[i-1] + f[i]]
    BY <2>2, <2>3
  <2>5. Solves(t, f, m)
    BY <2>2, <2>4 DEF Solves
  <2> QED BY <2>5
<1>3. n \in G
  <2> HIDE DEF G
  <2> QED BY <1>1, <1>2, InductionTo
<1>4. QED BY <1>3

\* Prefix satisfies its recursion.
LEMMA PrefixDef ==
  ASSUME NEW n \in Nat, NEW f, NatOn(f, n)
  PROVE  Prefixes(Prefix(f, n), f, n)
<1>1. PICK s : Solves(s, f, n)
  BY PrefixExists
<1> DEFINE P == CHOOSE p : p = [i \in 0..n |-> IF i = 0 THEN 0 ELSE p[i-1] + f[i]]
<1>2. P = [i \in 0..n |-> IF i = 0 THEN 0 ELSE P[i-1] + f[i]]
  BY <1>1 DEF Solves
<1>3. Prefix(f, n) = P
  BY DEF Prefix
<1> HIDE DEF P
<1> DEFINE G == {i \in 0..n : P[i] = s[i]}
<1>4. \A i \in 0..n : i \in G
  <2>1. 0 \in G
    BY <1>1, <1>2 DEF Solves
  <2>2. \A i \in 1..n : i-1 \in G => i \in G
    BY <1>1, <1>2 DEF Solves
  <2> HIDE DEF G
  <2> QED BY <2>1, <2>2, InductionTo
<1>5. P = s
  BY <1>1, <1>2, <1>4 DEF Solves
<1>6. QED BY <1>1, <1>3, <1>5 DEF Solves, Prefixes

\* Sums of naturals are naturals.
LEMMA SumNat ==
  ASSUME NEW n \in Nat, NEW f, NatOn(f, n)
  PROVE  Sum(f, n) \in Nat
BY PrefixDef DEF Sum, Prefixes

\* Two sums whose summands agree except at k differ by the difference there.
LEMMA SumUpdate ==
  ASSUME NEW n \in Nat, NEW f, NEW g, NatOn(f, n), NatOn(g, n), NEW k \in 1..n,
         \A i \in 1..n : i # k => g[i] = f[i]
  PROVE  Sum(g, n) + f[k] = Sum(f, n) + g[k]
<1>1. PICK F : F = Prefix(f, n) /\ Prefixes(F, f, n)
  BY PrefixDef
<1>2. PICK H : H = Prefix(g, n) /\ Prefixes(H, g, n)
  BY PrefixDef
<1> DEFINE G == {i \in 0..n : H[i] + (IF k <= i THEN f[k] ELSE 0)
                              = F[i] + (IF k <= i THEN g[k] ELSE 0)}
<1>3. 0 \in G
  BY <1>1, <1>2 DEF Prefixes
<1>4. ASSUME NEW i \in 1..n, i-1 \in G PROVE i \in G
  <2>1. /\ H[i-1] \in Nat /\ F[i-1] \in Nat /\ f[i] \in Nat /\ g[i] \in Nat
        /\ f[k] \in Nat /\ g[k] \in Nat
    BY <1>1, <1>2 DEF Prefixes, NatOn
  <2>2. H[i] = H[i-1] + g[i] /\ F[i] = F[i-1] + f[i]
    BY <1>1, <1>2 DEF Prefixes
  <2>3. i # k => g[i] = f[i]
    OBVIOUS
  <2>4. QED BY <1>4, <2>1, <2>2, <2>3
<1>5. n \in G
  <2> HIDE DEF G
  <2>1. \A i \in 0..n : i \in G
    BY <1>3, <1>4, InductionTo
  <2> QED BY <2>1
<1>6. QED BY <1>1, <1>2, <1>5 DEF Sum

\* Equal summands, equal sums.
LEMMA SumEqual ==
  ASSUME NEW n \in Nat, NEW f, NEW g, NatOn(f, n),
         \A i \in 1..n : g[i] = f[i]
  PROVE  Sum(g, n) = Sum(f, n)
<1>1. NatOn(g, n)
  BY DEF NatOn
<1>2. CASE n = 0
  BY <1>1, <1>2, PrefixDef DEF Sum, Prefixes
<1>3. CASE n # 0
  <2>1. 1 \in 1..n /\ g[1] = f[1] /\ f[1] \in Nat
    BY <1>3 DEF NatOn
  <2>2. Sum(g, n) + f[1] = Sum(f, n) + g[1]
    BY <1>1, <2>1, SumUpdate
  <2>3. Sum(g, n) \in Nat /\ Sum(f, n) \in Nat
    BY <1>1, SumNat
  <2> QED BY <2>1, <2>2, <2>3
<1> QED BY <1>2, <1>3

\* A sum of zeros is zero.
LEMMA SumZero ==
  ASSUME NEW n \in Nat, NEW f, \A i \in 1..n : f[i] = 0
  PROVE  Sum(f, n) = 0
<1>1. NatOn(f, n)
  BY DEF NatOn
<1>2. PICK F : F = Prefix(f, n) /\ Prefixes(F, f, n)
  BY <1>1, PrefixDef
<1> DEFINE G == {i \in 0..n : F[i] = 0}
<1>3. 0 \in G /\ \A i \in 1..n : i-1 \in G => i \in G
  BY <1>2 DEF Prefixes
<1>4. n \in G
  <2> HIDE DEF G
  <2>1. \A i \in 0..n : i \in G
    BY <1>3, InductionTo
  <2> QED BY <2>1
<1>5. QED BY <1>2, <1>4 DEF Sum

\* Sums add up pointwise.
LEMMA SumAdd ==
  ASSUME NEW n \in Nat, NEW f, NEW g, NEW h, NatOn(f, n), NatOn(g, n),
         \A i \in 1..n : h[i] = f[i] + g[i]
  PROVE  Sum(h, n) = Sum(f, n) + Sum(g, n)
<1>1. NatOn(h, n)
  BY DEF NatOn
<1>2. PICK F : F = Prefix(f, n) /\ Prefixes(F, f, n)
  BY PrefixDef
<1>3. PICK K : K = Prefix(g, n) /\ Prefixes(K, g, n)
  BY PrefixDef
<1>4. PICK H : H = Prefix(h, n) /\ Prefixes(H, h, n)
  BY <1>1, PrefixDef
<1> DEFINE G == {i \in 0..n : H[i] = F[i] + K[i]}
<1>5. 0 \in G
  BY <1>2, <1>3, <1>4 DEF Prefixes
<1>6. ASSUME NEW i \in 1..n, i-1 \in G PROVE i \in G
  <2>1. F[i-1] \in Nat /\ K[i-1] \in Nat /\ f[i] \in Nat /\ g[i] \in Nat
    BY <1>2, <1>3 DEF Prefixes, NatOn
  <2>2. F[i] = F[i-1] + f[i] /\ K[i] = K[i-1] + g[i] /\ H[i] = H[i-1] + h[i]
    BY <1>2, <1>3, <1>4 DEF Prefixes
  <2>3. h[i] = f[i] + g[i] /\ H[i-1] = F[i-1] + K[i-1]
    BY <1>6
  <2> QED BY <2>1, <2>2, <2>3
<1>7. n \in G
  <2> HIDE DEF G
  <2>1. \A i \in 0..n : i \in G
    BY <1>5, <1>6, InductionTo
  <2> QED BY <2>1
<1>8. QED BY <1>2, <1>3, <1>4, <1>7 DEF Sum

\* A summand is at most the sum.
LEMMA SumMember ==
  ASSUME NEW n \in Nat, NEW f, NatOn(f, n), NEW k \in 1..n
  PROVE  f[k] <= Sum(f, n)
<1>1. PICK g : g = [i \in 1..n |-> IF i = k THEN 0 ELSE f[i]]
  OBVIOUS
<1>2. NatOn(g, n) /\ g[k] = 0
  BY <1>1 DEF NatOn
<1>3. \A i \in 1..n : i # k => g[i] = f[i]
  BY <1>1
<1>4. Sum(g, n) + f[k] = Sum(f, n) + g[k]
  BY <1>2, <1>3, SumUpdate
<1>5. Sum(g, n) \in Nat /\ Sum(f, n) \in Nat /\ f[k] \in Nat
  BY <1>2, SumNat DEF NatOn
<1>6. QED BY <1>2, <1>4, <1>5

\* A sum is at most another when its summands are.
LEMMA SumLE ==
  ASSUME NEW n \in Nat, NEW f, NEW g, NatOn(f, n), NatOn(g, n),
         \A i \in 1..n : f[i] <= g[i]
  PROVE  Sum(f, n) <= Sum(g, n)
<1>1. PICK d : d = [i \in 1..n |-> g[i] - f[i]]
  OBVIOUS
<1>2. NatOn(d, n) /\ \A i \in 1..n : g[i] = f[i] + d[i]
  BY <1>1 DEF NatOn
<1>3. Sum(g, n) = Sum(f, n) + Sum(d, n)
  BY <1>2, SumAdd
<1>4. Sum(f, n) \in Nat /\ Sum(d, n) \in Nat
  BY <1>2, SumNat
<1>5. QED BY <1>3, <1>4

-----------------------------------------------------------------------------
(* Sums over a set of indices. *)

\* The summands of SumOn are naturals.
LEMMA SumOnSummands ==
  ASSUME NEW n \in Nat, NEW f, NatOn(f, n), NEW S
  PROVE  NatOn([i \in 1..n |-> IF i \in S THEN f[i] ELSE 0], n)
BY DEF NatOn

LEMMA SumOnIsNat ==
  ASSUME NEW n \in Nat, NEW f, NatOn(f, n), NEW S
  PROVE  SumOn(S, f, n) \in Nat
BY SumOnSummands, SumNat DEF SumOn

\* The sum depends on nothing outside the set.
LEMMA SumOnSame ==
  ASSUME NEW n \in Nat, NEW f, NEW g, NatOn(f, n), NEW S, NEW T,
         \A i \in 1..n : /\ i \in S <=> i \in T
                         /\ i \in S => g[i] = f[i]
  PROVE  SumOn(T, g, n) = SumOn(S, f, n)
<1> DEFINE F == [i \in 1..n |-> IF i \in S THEN f[i] ELSE 0]
           G == [i \in 1..n |-> IF i \in T THEN g[i] ELSE 0]
<1>1. NatOn(F, n)
  BY SumOnSummands
<1>2. \A i \in 1..n : G[i] = F[i]
  OBVIOUS
<1> HIDE DEF F, G
<1>3. Sum(G, n) = Sum(F, n)
  BY <1>1, <1>2, SumEqual
<1>4. QED BY <1>3 DEF F, G, SumOn

\* One index enters, leaves or changes its summand.
LEMMA SumOnMoves ==
  ASSUME NEW n \in Nat, NEW f, NEW g, NatOn(f, n), NatOn(g, n), NEW S, NEW T, NEW k \in 1..n,
         \A i \in 1..n : i # k => /\ i \in S <=> i \in T
                                  /\ i \in S => g[i] = f[i]
  PROVE  SumOn(T, g, n) + (IF k \in S THEN f[k] ELSE 0)
           = SumOn(S, f, n) + (IF k \in T THEN g[k] ELSE 0)
<1> DEFINE F == [i \in 1..n |-> IF i \in S THEN f[i] ELSE 0]
           G == [i \in 1..n |-> IF i \in T THEN g[i] ELSE 0]
<1>1. NatOn(F, n) /\ NatOn(G, n)
  BY SumOnSummands
<1>2. \A i \in 1..n : i # k => G[i] = F[i]
  OBVIOUS
<1>3. /\ F[k] = (IF k \in S THEN f[k] ELSE 0)
      /\ G[k] = (IF k \in T THEN g[k] ELSE 0)
  OBVIOUS
<1> HIDE DEF F, G
<1>4. Sum(G, n) + F[k] = Sum(F, n) + G[k]
  BY <1>1, <1>2, SumUpdate
<1>5. SumOn(S, f, n) = Sum(F, n) /\ SumOn(T, g, n) = Sum(G, n)
  BY DEF F, G, SumOn
<1>6. QED BY <1>3, <1>4, <1>5

\* The sum over a set and a disjoint one is the sum over both.
LEMMA SumOnUnion ==
  ASSUME NEW n \in Nat, NEW f, NatOn(f, n), NEW S, NEW T, NEW U,
         \A i \in 1..n : /\ i \in U <=> i \in S \/ i \in T
                         /\ ~(i \in S /\ i \in T)
  PROVE  SumOn(U, f, n) = SumOn(S, f, n) + SumOn(T, f, n)
<1> DEFINE F == [i \in 1..n |-> IF i \in S THEN f[i] ELSE 0]
           G == [i \in 1..n |-> IF i \in T THEN f[i] ELSE 0]
           H == [i \in 1..n |-> IF i \in U THEN f[i] ELSE 0]
<1>1. NatOn(F, n) /\ NatOn(G, n)
  BY SumOnSummands
<1>2. \A i \in 1..n : H[i] = F[i] + G[i]
  BY DEF NatOn
<1> HIDE DEF F, G, H
<1>3. Sum(H, n) = Sum(F, n) + Sum(G, n)
  BY <1>1, <1>2, SumAdd
<1>4. QED BY <1>3 DEF F, G, H, SumOn

\* More indices, or larger summands, make no smaller sum.
LEMMA SumOnLE ==
  ASSUME NEW n \in Nat, NEW f, NEW g, NatOn(f, n), NatOn(g, n), NEW S, NEW T,
         \A i \in 1..n : i \in S => i \in T /\ f[i] <= g[i]
  PROVE  SumOn(S, f, n) <= SumOn(T, g, n)
<1> DEFINE F == [i \in 1..n |-> IF i \in S THEN f[i] ELSE 0]
           G == [i \in 1..n |-> IF i \in T THEN g[i] ELSE 0]
<1>1. NatOn(F, n) /\ NatOn(G, n)
  BY SumOnSummands
<1>2. \A i \in 1..n : F[i] <= G[i]
  BY DEF NatOn
<1> HIDE DEF F, G
<1>3. Sum(F, n) <= Sum(G, n)
  BY <1>1, <1>2, SumLE
<1>4. QED BY <1>3 DEF F, G, SumOn

\* Nothing adds up to nothing.
LEMMA SumOnEmpty ==
  ASSUME NEW n \in Nat, NEW f, NEW S, \A i \in 1..n : i \notin S
  PROVE  SumOn(S, f, n) = 0
<1> DEFINE F == [i \in 1..n |-> IF i \in S THEN f[i] ELSE 0]
<1>1. \A i \in 1..n : F[i] = 0
  OBVIOUS
<1> HIDE DEF F
<1>2. Sum(F, n) = 0
  BY <1>1, SumZero
<1>3. QED BY <1>2 DEF F, SumOn

\* The summand of a member is at most the sum.
LEMMA SumOnMember ==
  ASSUME NEW n \in Nat, NEW f, NatOn(f, n), NEW S, NEW k \in 1..n, k \in S
  PROVE  f[k] <= SumOn(S, f, n)
<1> DEFINE F == [i \in 1..n |-> IF i \in S THEN f[i] ELSE 0]
<1>1. NatOn(F, n) /\ F[k] = f[k]
  BY SumOnSummands
<1> HIDE DEF F
<1>2. F[k] <= Sum(F, n)
  BY <1>1, SumMember
<1>3. QED BY <1>1, <1>2 DEF F, SumOn

\* Multiplication by a constant.
LEMMA SumScale ==
  ASSUME NEW n \in Nat, NEW c \in Nat, NEW f, NEW g, NatOn(f, n),
         \A i \in 1..n : g[i] = f[i] * c
  PROVE  Sum(g, n) = Sum(f, n) * c
<1>1. NatOn(g, n)
  BY DEF NatOn
<1>2. PICK F : F = Prefix(f, n) /\ Prefixes(F, f, n)
  BY PrefixDef
<1>3. PICK H : H = Prefix(g, n) /\ Prefixes(H, g, n)
  BY <1>1, PrefixDef
<1> DEFINE G == {i \in 0..n : H[i] = F[i] * c}
<1>4. 0 \in G
  BY <1>2, <1>3 DEF Prefixes
<1>5. ASSUME NEW i \in 1..n, i-1 \in G PROVE i \in G
  <2>1. PICK x \in Nat, y \in Nat : x = F[i-1] /\ y = f[i]
    BY <1>2 DEF Prefixes, NatOn
  <2>2. F[i] = x + y /\ H[i] = x * c + y * c
    BY <1>2, <1>3, <1>5, <2>1 DEF Prefixes
  <2>3. (x + y) * c = x * c + y * c
    OBVIOUS
  <2> QED BY <2>2, <2>3
<1>6. n \in G
  <2> HIDE DEF G
  <2>1. \A i \in 0..n : i \in G
    BY <1>4, <1>5, InductionTo
  <2> QED BY <2>1
<1>7. QED BY <1>2, <1>3, <1>6 DEF Sum

LEMMA SumOnScale ==
  ASSUME NEW n \in Nat, NEW c \in Nat, NEW f, NEW g, NatOn(f, n), NEW S,
         \A i \in 1..n : i \in S => g[i] = f[i] * c
  PROVE  SumOn(S, g, n) = SumOn(S, f, n) * c
<1> DEFINE F == [i \in 1..n |-> IF i \in S THEN f[i] ELSE 0]
           G == [i \in 1..n |-> IF i \in S THEN g[i] ELSE 0]
<1>1. NatOn(F, n)
  BY SumOnSummands
<1>2. \A i \in 1..n : G[i] = F[i] * c
  OBVIOUS
<1> HIDE DEF F, G
<1>3. Sum(G, n) = Sum(F, n) * c
  BY <1>1, <1>2, SumScale
<1>4. QED BY <1>3 DEF F, G, SumOn

\* u[r], one of 1..n, is the owner of r, and O[a] is the part of T that a owns.
OwnedBy(O, u, T, n, m) ==
  /\ \A r \in 1..m : r \in T => u[r] \in 1..n
  /\ \A a \in 1..n : \A r \in 1..m : r \in O[a] <=> r \in T /\ u[r] = a
SumsOf(g, O, f, n, m) == \A a \in 1..n : g[a] = SumOn(O[a], f, m)

\* What T adds up to is what its parts add up to, owner by owner.
LEMMA SumByOwner ==
  ASSUME NEW n \in Nat, NEW m \in Nat, NEW f, NatOn(f, m), NEW u, NEW T, NEW O, NEW g,
         OwnedBy(O, u, T, n, m), SumsOf(g, O, f, n, m)
  PROVE  NatOn(g, n) /\ Sum(g, n) = SumOn(T, f, m)
<1> USE DEF OwnedBy, SumsOf
<1>1. ASSUME NEW a \in 1..n PROVE g[a] \in Nat
  <2>1. SumOn(O[a], f, m) \in Nat
    BY SumOnIsNat
  <2> QED BY <2>1
<1>2. PICK H : H = Prefix(g, n) /\ Prefixes(H, g, n)
  BY <1>1, PrefixDef DEF NatOn
<1> DEFINE Upto(i) == {r \in T : u[r] \in 1..i}
           G == {i \in 0..n : H[i] = SumOn(Upto(i), f, m)}
<1>3. 0 \in G
  <2>1. \A r \in 1..m : r \notin Upto(0)
    OBVIOUS
  <2>2. SumOn(Upto(0), f, m) = 0
    BY <2>1, SumOnEmpty
  <2>3. H[0] = 0
    BY <1>2 DEF Prefixes
  <2> QED BY <2>2, <2>3
<1>4. ASSUME NEW i \in 1..n, i-1 \in G PROVE i \in G
  <2> DEFINE Own == O[i]
  <2>1. \A r \in 1..m : /\ r \in Upto(i) <=> r \in Upto(i-1) \/ r \in Own
                        /\ ~(r \in Upto(i-1) /\ r \in Own)
    <3>1. \A r \in 1..m : r \in Own <=> r \in T /\ u[r] = i
      BY <1>4
    <3>2. ASSUME NEW r, r \in T PROVE u[r] \in 1..i <=> u[r] \in 1..(i-1) \/ u[r] = i
      BY <1>4
    <3> HIDE DEF Own
    <3>3. QED BY <3>1, <3>2, <1>4
  <2> HIDE DEF Upto, Own
  <2>2. SumOn(Upto(i), f, m) = SumOn(Upto(i-1), f, m) + SumOn(Own, f, m)
    BY <2>1, SumOnUnion
  <2>3. H[i] = H[i-1] + g[i] /\ g[i] = SumOn(Own, f, m) /\ H[i-1] = SumOn(Upto(i-1), f, m)
    BY <1>2, <1>4 DEF Prefixes, Own
  <2> QED BY <2>2, <2>3
<1>5. n \in G
  <2> HIDE DEF G
  <2>1. \A i \in 0..n : i \in G
    BY <1>3, <1>4, InductionTo
  <2> QED BY <2>1
<1>6. SumOn(T, f, m) = SumOn(Upto(n), f, m)
  <2>1. \A r \in 1..m : /\ r \in Upto(n) <=> r \in T
                        /\ r \in Upto(n) => f[r] = f[r]
    OBVIOUS
  <2> HIDE DEF Upto
  <2> QED BY <2>1, SumOnSame
<1>7. QED BY <1>1, <1>2, <1>5, <1>6 DEF Sum, NatOn

\* Two summands change.
LEMMA SumUpdateTwo ==
  ASSUME NEW n \in Nat, NEW f, NEW g, NatOn(f, n), NatOn(g, n),
         NEW k \in 1..n, NEW l \in 1..n, k # l,
         \A i \in 1..n : i # k /\ i # l => g[i] = f[i]
  PROVE  Sum(g, n) + f[k] + f[l] = Sum(f, n) + g[k] + g[l]
<1> DEFINE h == [i \in 1..n |-> IF i = k THEN g[k] ELSE f[i]]
<1>1. NatOn(h, n)
  BY DEF NatOn
<1>2. h[k] = g[k] /\ h[l] = f[l] /\ \A i \in 1..n : i # k => h[i] = f[i]
  OBVIOUS
<1>3. \A i \in 1..n : i # l => g[i] = h[i]
  OBVIOUS
<1> HIDE DEF h
<1>4. Sum(h, n) + f[k] = Sum(f, n) + h[k]
  BY <1>1, <1>2, SumUpdate
<1>5. Sum(g, n) + h[l] = Sum(h, n) + g[l]
  BY <1>1, <1>3, SumUpdate
<1>6. Sum(f, n) \in Nat /\ Sum(g, n) \in Nat /\ Sum(h, n) \in Nat
  BY <1>1, SumNat
<1>7. f[k] \in Nat /\ f[l] \in Nat /\ g[k] \in Nat /\ g[l] \in Nat
  BY DEF NatOn
<1>8. QED BY <1>2, <1>4, <1>5, <1>6, <1>7

-----------------------------------------------------------------------------
\* Sums over finite sets: SumFunctionOnSet is a recursive function over the subsets.

\* A set that has every subset all of whose smaller ones it has, has all of them.
LEMMA SubsetInduction ==
  ASSUME NEW S, IsFiniteSet(S), NEW G,
         \A s \in SUBSET S : (\A x \in s : s \ {x} \in G) => s \in G
  PROVE  \A s \in SUBSET S : s \in G
<1> DEFINE H == {m \in 0..Cardinality(S) : \A s \in SUBSET S : Cardinality(s) = m => s \in G}
<1>1. \A s \in SUBSET S : IsFiniteSet(s) /\ Cardinality(s) \in 0..Cardinality(S)
  BY FS_Subset, FS_CardinalityType
<1>2. 0 \in H
  <2>1. ASSUME NEW s \in SUBSET S, Cardinality(s) = 0 PROVE s \in G
    BY <1>1, <2>1, FS_EmptySet
  <2>2. Cardinality(S) \in Nat
    BY FS_CardinalityType
  <2>3. QED BY <2>1, <2>2
<1>3. ASSUME NEW m \in 1..Cardinality(S), m - 1 \in H PROVE m \in H
  <2>1. ASSUME NEW s \in SUBSET S, Cardinality(s) = m PROVE s \in G
    <3>1. ASSUME NEW x \in s PROVE s \ {x} \in G
      <4>1. Cardinality(s \ {x}) = m - 1
        BY <1>1, <2>1, FS_RemoveElement
      <4>2. s \ {x} \in SUBSET S
        OBVIOUS
      <4>3. QED BY <1>3, <4>1, <4>2
    <3>2. QED BY <3>1
  <2>2. QED BY <2>1
<1>4. \A m \in 0..Cardinality(S) : m \in H
  <2>1. Cardinality(S) \in Nat
    BY FS_CardinalityType
  <2> HIDE DEF H
  <2>2. QED BY <1>2, <1>3, <2>1, InductionTo
<1>5. QED BY <1>1, <1>4

LEMMA FiniteImage ==
  ASSUME NEW S, IsFiniteSet(S), NEW f
  PROVE  IsFiniteSet({f[x] : x \in S})
<1> DEFINE Image(s) == {f[x] : x \in s}
           G == {s \in SUBSET S : IsFiniteSet(Image(s))}
<1>1. ASSUME NEW s \in SUBSET S, \A x \in s : s \ {x} \in G PROVE s \in G
  <2>1. CASE s = {}
    <3>1. Image(s) = {}
      BY <2>1
    <3>2. QED BY <2>1, <3>1, FS_EmptySet
  <2>2. CASE s # {}
    <3>1. PICK c \in s : TRUE
      BY <2>2
    <3>2. IsFiniteSet(Image(s \ {c}))
      BY <1>1, <3>1
    <3>3. Image(s) = Image(s \ {c}) \cup {f[c]}
      BY <3>1
    <3>4. IsFiniteSet(Image(s))
      <4>1. PICK a, b : a = Image(s \ {c}) /\ b = Image(s)
        OBVIOUS
      <4> HIDE DEF Image
      <4>2. IsFiniteSet(a) /\ b = a \cup {f[c]}
        BY <3>2, <3>3, <4>1
      <4>3. IsFiniteSet(a \cup {f[c]})
        BY <4>2, FS_AddElement
      <4>4. QED BY <4>1, <4>2, <4>3
    <3>5. QED BY <3>4
  <2>3. QED BY <2>1, <2>2
<1>2. \A s \in SUBSET S : s \in G
  <2> HIDE DEF G
  <2>1. QED BY <1>1, SubsetInduction
<1>3. QED BY <1>2

Chosen(s) == CHOOSE x \in s : TRUE

\* p has the sum of f over every subset of S.
SumTable(p, f, S) ==
  p = [s \in SUBSET S |-> IF s = {} THEN 0 ELSE f[Chosen(s)] + p[s \ {Chosen(s)}]]

LEMMA ChosenIn ==
  ASSUME NEW s, s # {}
  PROVE  Chosen(s) \in s
BY DEF Chosen

\* The recursion has a solution.
LEMMA TableExists ==
  ASSUME NEW S, IsFiniteSet(S), NEW f
  PROVE  \E p : SumTable(p, f, S)
<1> DEFINE Part(p, m) ==
      p = [s \in SUBSET S |-> IF s = {} \/ Cardinality(s) > m THEN 0
                              ELSE f[Chosen(s)] + p[s \ {Chosen(s)}]]
           G == {m \in 0..Cardinality(S) : \E p : Part(p, m)}
<1>1. /\ Cardinality(S) \in Nat
      /\ \A s \in SUBSET S : IsFiniteSet(s) /\ Cardinality(s) \in 0..Cardinality(S)
  BY FS_Subset, FS_CardinalityType
<1>2. \A s \in SUBSET S : s # {} => s \ {Chosen(s)} \in SUBSET S
                                  /\ Cardinality(s \ {Chosen(s)}) = Cardinality(s) - 1
  BY <1>1, ChosenIn, FS_RemoveElement
<1>3. 0 \in G
  <2>1. \A s \in SUBSET S : s = {} \/ Cardinality(s) > 0
    BY <1>1, FS_EmptySet
  <2>2. PICK p : p = [s \in SUBSET S |-> 0]
    OBVIOUS
  <2>3. Part(p, 0)
    BY <2>1, <2>2
  <2>4. QED BY <1>1, <2>3
<1>4. ASSUME NEW m \in 1..Cardinality(S), m - 1 \in G PROVE m \in G
  <2>1. PICK p : Part(p, m - 1)
    BY <1>4
  <2>2. PICK q : q = [s \in SUBSET S |-> IF s = {} \/ Cardinality(s) > m THEN 0
                                         ELSE f[Chosen(s)] + p[s \ {Chosen(s)}]]
    OBVIOUS
  <2>3. ASSUME NEW s \in SUBSET S, s # {}, ~(Cardinality(s) > m)
        PROVE  q[s \ {Chosen(s)}] = p[s \ {Chosen(s)}]
    <3>1. PICK u : u = s \ {Chosen(s)}
      OBVIOUS
    <3>2. u \in SUBSET S /\ Cardinality(u) = Cardinality(s) - 1 /\ Cardinality(s) \in Nat
      BY <1>1, <1>2, <2>3, <3>1
    <3>3. ~(Cardinality(u) > m) /\ ~(Cardinality(u) > m - 1)
      BY <1>1, <2>3, <3>2
    <3>4. q[u] = IF u = {} THEN 0 ELSE f[Chosen(u)] + p[u \ {Chosen(u)}]
      BY <2>2, <3>2, <3>3
    <3>5. p[u] = IF u = {} THEN 0 ELSE f[Chosen(u)] + p[u \ {Chosen(u)}]
      BY <2>1, <3>2, <3>3
    <3>6. QED BY <3>1, <3>4, <3>5
  <2>4. Part(q, m)
    <3>1. \A s \in SUBSET S : (IF s = {} \/ Cardinality(s) > m THEN 0
                               ELSE f[Chosen(s)] + p[s \ {Chosen(s)}])
                              = (IF s = {} \/ Cardinality(s) > m THEN 0
                                 ELSE f[Chosen(s)] + q[s \ {Chosen(s)}])
      BY <2>3
    <3>2. QED BY <2>2, <3>1
  <2>5. QED BY <2>4, SMTT(30)
<1>5. Cardinality(S) \in G
  <2> HIDE DEF G
  <2>1. \A m \in 0..Cardinality(S) : m \in G
    BY <1>1, <1>3, <1>4, InductionTo
  <2>2. QED BY <1>1, <2>1
<1>6. PICK p : Part(p, Cardinality(S))
  BY <1>5
<1>7. \A s \in SUBSET S : ~(Cardinality(s) > Cardinality(S))
  BY <1>1
<1>8. SumTable(p, f, S)
  BY <1>6, <1>7 DEF SumTable
<1>9. QED BY <1>8

\* Two solutions agree on what both cover.
LEMMA TableUnique ==
  ASSUME NEW S, IsFiniteSet(S), NEW T, T \subseteq S, NEW f, NEW g, NEW p, NEW q,
         \A x \in T : f[x] = g[x],
         SumTable(p, f, S), SumTable(q, g, T)
  PROVE  p[T] = q[T]
<1> DEFINE G == {s \in SUBSET T : p[s] = q[s]}
<1>1. ASSUME NEW s \in SUBSET T, \A x \in s : s \ {x} \in G PROVE s \in G
  <2>1. CASE s = {}
    BY <2>1 DEF SumTable
  <2>2. CASE s # {}
    <3>1. Chosen(s) \in s /\ s \in SUBSET S /\ f[Chosen(s)] = g[Chosen(s)]
      BY <2>2, ChosenIn
    <3>2. p[s \ {Chosen(s)}] = q[s \ {Chosen(s)}]
      BY <1>1, <3>1
    <3>3. p[s] = f[Chosen(s)] + p[s \ {Chosen(s)}]
      BY <2>2, <3>1 DEF SumTable
    <3>4. q[s] = g[Chosen(s)] + q[s \ {Chosen(s)}]
      BY <2>2, <3>1 DEF SumTable
    <3>5. QED BY <3>1, <3>2, <3>3, <3>4
  <2>3. QED BY <2>1, <2>2
<1>2. IsFiniteSet(T)
  BY FS_Subset
<1>3. \A s \in SUBSET T : s \in G
  <2> HIDE DEF G
  <2>1. QED BY <1>1, <1>2, SubsetInduction
<1>4. QED BY <1>3

LEMMA SumIsTable ==
  ASSUME NEW S, IsFiniteSet(S), NEW f
  PROVE  \E p : SumTable(p, f, S) /\ SumFunctionOnSet(f, S) = p[S]
<1> DEFINE P == CHOOSE p : p = [s \in SUBSET S |-> IF s = {} THEN 0
                                ELSE f[CHOOSE x \in s : TRUE] + p[s \ {CHOOSE x \in s : TRUE}]]
<1>1. \E p : p = [s \in SUBSET S |-> IF s = {} THEN 0
                  ELSE f[CHOOSE x \in s : TRUE] + p[s \ {CHOOSE x \in s : TRUE}]]
  <2>1. PICK p : SumTable(p, f, S)
    BY TableExists
  <2>2. QED BY <2>1, Zenon DEF SumTable, Chosen
<1>2. P = [s \in SUBSET S |-> IF s = {} THEN 0
           ELSE f[CHOOSE x \in s : TRUE] + P[s \ {CHOOSE x \in s : TRUE}]]
  BY <1>1
<1>3. SumTable(P, f, S)
  BY <1>2, Zenon DEF SumTable, Chosen
<1>4. SumFunctionOnSet(f, S) = P[S]
  BY DEF SumFunctionOnSet, FoldFunctionOnSet, MapThenFoldSet
<1> HIDE DEF P
<1>5. QED BY <1>3, <1>4
LEMMA SumSetEmpty ==
  ASSUME NEW f
  PROVE  SumFunctionOnSet(f, {}) = 0
<1>1. IsFiniteSet({})
  BY FS_EmptySet
<1>2. PICK p : SumTable(p, f, {}) /\ SumFunctionOnSet(f, {}) = p[{}]
  BY <1>1, SumIsTable
<1>3. QED BY <1>2 DEF SumTable

LEMMA SumSetSame ==
  ASSUME NEW S, IsFiniteSet(S), NEW f, NEW g, \A x \in S : f[x] = g[x]
  PROVE  SumFunctionOnSet(f, S) = SumFunctionOnSet(g, S)
<1>1. PICK p : SumTable(p, f, S) /\ SumFunctionOnSet(f, S) = p[S]
  BY SumIsTable
<1>2. PICK q : SumTable(q, g, S) /\ SumFunctionOnSet(g, S) = q[S]
  BY SumIsTable
<1>3. p[S] = q[S]
  BY <1>1, <1>2, TableUnique
<1>4. QED BY <1>1, <1>2, <1>3

\* The element that the recursion takes first.
LEMMA SumSetFirst ==
  ASSUME NEW S, IsFiniteSet(S), S # {}, NEW f
  PROVE  SumFunctionOnSet(f, S) = f[Chosen(S)] + SumFunctionOnSet(f, S \ {Chosen(S)})
<1>1. PICK p : SumTable(p, f, S) /\ SumFunctionOnSet(f, S) = p[S]
  BY SumIsTable
<1>2. PICK T : T = S \ {Chosen(S)}
  OBVIOUS
<1>3. T \subseteq S /\ IsFiniteSet(T)
  BY <1>2, FS_RemoveElement
<1>4. PICK q : SumTable(q, f, T) /\ SumFunctionOnSet(f, T) = q[T]
  BY <1>3, SumIsTable
<1>5. p[T] = q[T]
  BY <1>1, <1>3, <1>4, TableUnique
<1>6. p[S] = f[Chosen(S)] + p[T]
  BY <1>1, <1>2 DEF SumTable
<1>7. QED BY <1>1, <1>2, <1>4, <1>5, <1>6

LEMMA SumSetNat ==
  ASSUME NEW S, IsFiniteSet(S), NEW f, \A x \in S : f[x] \in Nat
  PROVE  SumFunctionOnSet(f, S) \in Nat
<1> DEFINE G == {s \in SUBSET S : SumFunctionOnSet(f, s) \in Nat}
<1>1. ASSUME NEW s \in SUBSET S, \A x \in s : s \ {x} \in G PROVE s \in G
  <2>1. CASE s = {}
    BY <2>1, SumSetEmpty
  <2>2. CASE s # {}
    <3>1. IsFiniteSet(s) /\ Chosen(s) \in s
      BY <2>2, FS_Subset, ChosenIn
    <3>2. SumFunctionOnSet(f, s \ {Chosen(s)}) \in Nat /\ f[Chosen(s)] \in Nat
      BY <1>1, <3>1
    <3>3. SumFunctionOnSet(f, s) = f[Chosen(s)] + SumFunctionOnSet(f, s \ {Chosen(s)})
      BY <2>2, <3>1, SumSetFirst
    <3>4. QED BY <3>2, <3>3
  <2>3. QED BY <2>1, <2>2
<1>2. \A s \in SUBSET S : s \in G
  <2> HIDE DEF G
  <2>1. QED BY <1>1, SubsetInduction
<1>3. QED BY <1>2

\* Any element may be taken first.
LEMMA SumSetRemove ==
  ASSUME NEW S, IsFiniteSet(S), NEW f, \A x \in S : f[x] \in Nat, NEW k \in S
  PROVE  SumFunctionOnSet(f, S) = SumFunctionOnSet(f, S \ {k}) + f[k]
<1> DEFINE G == {s \in SUBSET S : \A x \in s :
                   SumFunctionOnSet(f, s) = SumFunctionOnSet(f, s \ {x}) + f[x]}
<1>1. ASSUME NEW s \in SUBSET S, \A x \in s : s \ {x} \in G PROVE s \in G
  <2>1. ASSUME NEW x \in s
        PROVE SumFunctionOnSet(f, s) = SumFunctionOnSet(f, s \ {x}) + f[x]
    <3>1. PICK c : c = Chosen(s)
      OBVIOUS
    <3>2. IsFiniteSet(s) /\ c \in s
      BY <2>1, <3>1, FS_Subset, ChosenIn
    <3>3. SumFunctionOnSet(f, s) = f[c] + SumFunctionOnSet(f, s \ {c})
      BY <3>1, <3>2, SumSetFirst
    <3>4. \A y \in s : SumFunctionOnSet(f, s \ {y}) \in Nat /\ f[y] \in Nat
      <4>1. \A y \in s : IsFiniteSet(s \ {y})
        BY <3>2, FS_RemoveElement
      <4>2. QED BY <4>1, SumSetNat
    <3>5. CASE x = c
      BY <3>2, <3>3, <3>4, <3>5
    <3>6. CASE x # c
      <4>1. x \in s \ {c} /\ c \in s \ {x}
        BY <2>1, <3>2, <3>6
      <4>2. s \ {c} \in G /\ s \ {x} \in G
        BY <1>1, <2>1, <3>2
      <4>3. SumFunctionOnSet(f, s \ {c}) = SumFunctionOnSet(f, (s \ {c}) \ {x}) + f[x]
        BY <4>1, <4>2
      <4>4. SumFunctionOnSet(f, s \ {x}) = SumFunctionOnSet(f, (s \ {x}) \ {c}) + f[c]
        BY <4>1, <4>2
      <4>5. (s \ {c}) \ {x} = (s \ {x}) \ {c}
        OBVIOUS
      <4>6. SumFunctionOnSet(f, (s \ {x}) \ {c}) \in Nat
        <5>1. IsFiniteSet((s \ {x}) \ {c})
          BY <3>2, FS_RemoveElement
        <5>2. QED BY <5>1, SumSetNat
      <4>7. f[x] \in Nat /\ f[c] \in Nat
        BY <2>1, <3>2, <3>4
      <4>8. QED BY <3>3, <4>3, <4>4, <4>5, <4>6, <4>7
    <3>7. QED BY <3>5, <3>6
  <2>2. QED BY <2>1
<1>2. \A s \in SUBSET S : s \in G
  <2> HIDE DEF G
  <2>1. QED BY <1>1, SubsetInduction
<1>3. S \in G
  BY <1>2
<1>4. QED BY <1>3

LEMMA SumSetInsert ==
  ASSUME NEW S, IsFiniteSet(S), NEW f, \A x \in S : f[x] \in Nat, NEW k, k \notin S, f[k] \in Nat
  PROVE  SumFunctionOnSet(f, S \cup {k}) = SumFunctionOnSet(f, S) + f[k]
<1>1. PICK T : T = S \cup {k}
  OBVIOUS
<1>2. IsFiniteSet(T) /\ k \in T /\ T \ {k} = S /\ \A x \in T : f[x] \in Nat
  BY <1>1, FS_AddElement
<1>3. SumFunctionOnSet(f, T) = SumFunctionOnSet(f, T \ {k}) + f[k]
  BY <1>2, SumSetRemove
<1>4. QED BY <1>1, <1>2, <1>3

\* One summand changes.
LEMMA SumSetOne ==
  ASSUME NEW f, NEW k, f[k] \in Nat
  PROVE  SumFunctionOnSet(f, {k}) = f[k]
<1>1. PICK e : e = {}
  OBVIOUS
<1>2. IsFiniteSet(e) /\ k \notin e /\ e \cup {k} = {k} /\ \A x \in e : f[x] \in Nat
  BY <1>1, FS_EmptySet
<1>3. SumFunctionOnSet(f, e \cup {k}) = SumFunctionOnSet(f, e) + f[k]
  BY <1>2, SumSetInsert
<1>4. SumFunctionOnSet(f, {k}) = SumFunctionOnSet(f, e) + f[k]
  BY <1>2, <1>3
<1>5. SumFunctionOnSet(f, {k}) = 0 + f[k]
  BY <1>1, <1>4, SumSetEmpty
<1>6. QED BY <1>5

LEMMA SumSetUpdate ==
  ASSUME NEW S, IsFiniteSet(S), NEW f, NEW g, NEW k \in S,
         \A x \in S : f[x] \in Nat /\ g[x] \in Nat /\ (x # k => g[x] = f[x])
  PROVE  SumFunctionOnSet(g, S) + f[k] = SumFunctionOnSet(f, S) + g[k]
<1>1. IsFiniteSet(S \ {k})
  BY FS_RemoveElement
<1>2. SumFunctionOnSet(f, S) = SumFunctionOnSet(f, S \ {k}) + f[k]
  BY SumSetRemove
<1>3. SumFunctionOnSet(g, S) = SumFunctionOnSet(g, S \ {k}) + g[k]
  BY SumSetRemove
<1>4. SumFunctionOnSet(g, S \ {k}) = SumFunctionOnSet(f, S \ {k})
  BY <1>1, SumSetSame
<1>5. SumFunctionOnSet(f, S \ {k}) \in Nat
  BY <1>1, SumSetNat
<1>6. QED BY <1>2, <1>3, <1>4, <1>5

\* Sums add up pointwise.
LEMMA SumSetPlus ==
  ASSUME NEW S, IsFiniteSet(S), NEW f, NEW g, NEW h,
         \A x \in S : f[x] \in Nat /\ g[x] \in Nat /\ h[x] = f[x] + g[x]
  PROVE  SumFunctionOnSet(h, S) = SumFunctionOnSet(f, S) + SumFunctionOnSet(g, S)
<1> DEFINE G == {s \in SUBSET S :
                   SumFunctionOnSet(h, s) = SumFunctionOnSet(f, s) + SumFunctionOnSet(g, s)}
<1>1. ASSUME NEW s \in SUBSET S, \A x \in s : s \ {x} \in G PROVE s \in G
  <2>1. CASE s = {}
    BY <2>1, SumSetEmpty
  <2>2. CASE s # {}
    <3>1. PICK c \in s : TRUE
      BY <2>2
    <3>2. IsFiniteSet(s) /\ IsFiniteSet(s \ {c})
      BY FS_Subset, FS_RemoveElement
    <3>3. \A x \in s : f[x] \in Nat /\ g[x] \in Nat /\ h[x] \in Nat
      OBVIOUS
    <3>4. /\ SumFunctionOnSet(h, s) = SumFunctionOnSet(h, s \ {c}) + h[c]
          /\ SumFunctionOnSet(f, s) = SumFunctionOnSet(f, s \ {c}) + f[c]
          /\ SumFunctionOnSet(g, s) = SumFunctionOnSet(g, s \ {c}) + g[c]
      BY <3>1, <3>2, <3>3, SumSetRemove
    <3>5. SumFunctionOnSet(f, s \ {c}) \in Nat /\ SumFunctionOnSet(g, s \ {c}) \in Nat
      BY <3>2, <3>3, SumSetNat
    <3>6. SumFunctionOnSet(h, s \ {c}) = SumFunctionOnSet(f, s \ {c}) + SumFunctionOnSet(g, s \ {c})
      BY <1>1, <3>1
    <3>7. f[c] \in Nat /\ g[c] \in Nat /\ h[c] = f[c] + g[c]
      BY <3>1
    <3>8. QED BY <3>4, <3>5, <3>6, <3>7
  <2>3. QED BY <2>1, <2>2
<1>2. \A s \in SUBSET S : s \in G
  <2> HIDE DEF G
  <2>1. QED BY <1>1, SubsetInduction
<1>3. S \in G
  BY <1>2
<1>4. QED BY <1>3

LEMMA SumSetZero ==
  ASSUME NEW S, IsFiniteSet(S), NEW f, \A x \in S : f[x] = 0
  PROVE  SumFunctionOnSet(f, S) = 0
<1>1. \A x \in S : f[x] \in Nat /\ f[x] = f[x] + f[x]
  OBVIOUS
<1>2. SumFunctionOnSet(f, S) = SumFunctionOnSet(f, S) + SumFunctionOnSet(f, S)
  BY <1>1, SumSetPlus
<1>3. SumFunctionOnSet(f, S) \in Nat
  BY <1>1, SumSetNat
<1>4. PICK n \in Nat : n = SumFunctionOnSet(f, S)
  BY <1>3
<1>5. n = n + n
  BY <1>2, <1>4
<1>6. \A m \in Nat : m = m + m => m = 0
  OBVIOUS
<1>7. n = 0
  BY <1>5, <1>6
<1>8. QED BY <1>4, <1>7

\* A set and the rest.
LEMMA SumSetSplit ==
  ASSUME NEW S, IsFiniteSet(S), NEW f, \A x \in S : f[x] \in Nat, NEW T \in SUBSET S
  PROVE  SumFunctionOnSet(f, S) = SumFunctionOnSet(f, T) + SumFunctionOnSet(f, S \ T)
<1> DEFINE G == {s \in SUBSET S :
                   SumFunctionOnSet(f, S) = SumFunctionOnSet(f, s) + SumFunctionOnSet(f, S \ s)}
<1>1. ASSUME NEW s \in SUBSET S, \A x \in s : s \ {x} \in G PROVE s \in G
  <2>1. CASE s = {}
    <3>1. SumFunctionOnSet(f, S) \in Nat
      BY SumSetNat
    <3>2. S \ s = S /\ SumFunctionOnSet(f, s) = 0
      BY <2>1, SumSetEmpty
    <3>3. QED BY <3>1, <3>2
  <2>2. CASE s # {}
    <3>1. PICK c \in s : TRUE
      BY <2>2
    <3>2. PICK r : r = S \ (s \ {c})
      OBVIOUS
    <3>3. IsFiniteSet(s) /\ IsFiniteSet(s \ {c}) /\ IsFiniteSet(S \ s) /\ IsFiniteSet(r)
      BY <3>2, FS_Subset, FS_RemoveElement
    <3>4. c \in r /\ r \ {c} = S \ s /\ r \subseteq S
      BY <3>1, <3>2
    <3>5. SumFunctionOnSet(f, s) = SumFunctionOnSet(f, s \ {c}) + f[c]
      BY <3>1, <3>3, SumSetRemove
    <3>6. SumFunctionOnSet(f, r) = SumFunctionOnSet(f, r \ {c}) + f[c]
      BY <3>3, <3>4, SumSetRemove
    <3>7. SumFunctionOnSet(f, s \ {c}) \in Nat /\ SumFunctionOnSet(f, S \ s) \in Nat /\ f[c] \in Nat
      BY <3>1, <3>3, SumSetNat
    <3>8. SumFunctionOnSet(f, S) = SumFunctionOnSet(f, s \ {c}) + SumFunctionOnSet(f, r)
      BY <1>1, <3>1, <3>2
    <3>9. QED BY <3>4, <3>5, <3>6, <3>7, <3>8
  <2>3. QED BY <2>1, <2>2
<1>2. \A s \in SUBSET S : s \in G
  <2> HIDE DEF G
  <2>1. QED BY <1>1, SubsetInduction
<1>3. T \in G
  BY <1>2
<1>4. QED BY <1>3

\* What every owner has adds up to what there is.
LEMMA SumSetByOwner ==
  ASSUME NEW A, IsFiniteSet(A), NEW S, IsFiniteSet(S), NEW f, \A x \in S : f[x] \in Nat,
         NEW o, \A x \in S : o[x] \in A,
         NEW P, \A a \in A : P[a] \subseteq S, \A a \in A : \A x \in S : x \in P[a] <=> o[x] = a,
         NEW g, \A a \in A : g[a] = SumFunctionOnSet(f, P[a])
  PROVE  SumFunctionOnSet(g, A) = SumFunctionOnSet(f, S)
<1> DEFINE Own(s) == [a \in A |-> SumFunctionOnSet(f, {x \in s : o[x] = a})]
           G == {s \in SUBSET S : SumFunctionOnSet(Own(s), A) = SumFunctionOnSet(f, s)}
<1>1. ASSUME NEW s \in SUBSET S, \A x \in s : s \ {x} \in G PROVE s \in G
  <2>1. CASE s = {}
    <3>1. \A a \in A : Own(s)[a] = 0
      <4>1. \A a \in A : {x \in s : o[x] = a} = {}
        BY <2>1
      <4>2. QED BY <4>1, SumSetEmpty
    <3>2. SumFunctionOnSet(Own(s), A) = 0
      <4> HIDE DEF Own
      <4>1. QED BY <3>1, SumSetZero
    <3>3. QED BY <2>1, <3>2, SumSetEmpty
  <2>2. CASE s # {}
    <3>1. PICK c \in s : TRUE
      BY <2>2
    <3>2. PICK r : r = s \ {c}
      OBVIOUS
    <3>3. IsFiniteSet(s) /\ IsFiniteSet(r)
      BY <3>2, FS_Subset, FS_RemoveElement
    <3>4. \A a \in A : /\ IsFiniteSet({x \in s : o[x] = a}) /\ IsFiniteSet({x \in r : o[x] = a})
      BY <3>3, FS_Subset
    <3>5. \A a \in A : Own(s)[a] \in Nat /\ Own(r)[a] \in Nat
      BY <3>2, <3>4, SumSetNat
    <3>6. \A a \in A : a # o[c] => Own(s)[a] = Own(r)[a]
      <4>1. \A a \in A : a # o[c] => {x \in s : o[x] = a} = {x \in r : o[x] = a}
        BY <3>2
      <4>2. QED BY <4>1
    <3>7. Own(s)[o[c]] = Own(r)[o[c]] + f[c]
      <4>1. o[c] \in A /\ c \in {x \in s : o[x] = o[c]}
            /\ {x \in s : o[x] = o[c]} \ {c} = {x \in r : o[x] = o[c]}
        BY <3>1, <3>2
      <4>2. PICK u : u = {x \in s : o[x] = o[c]}
        OBVIOUS
      <4>3. IsFiniteSet(u) /\ c \in u /\ \A x \in u : f[x] \in Nat
        BY <3>4, <4>1, <4>2
      <4>4. SumFunctionOnSet(f, u) = SumFunctionOnSet(f, u \ {c}) + f[c]
        BY <4>3, SumSetRemove
      <4>5. QED BY <4>1, <4>2, <4>4
    <3>8. o[c] \in A
      BY <3>1
    <3>9. SumFunctionOnSet(Own(s), A) + Own(r)[o[c]] = SumFunctionOnSet(Own(r), A) + Own(s)[o[c]]
      <4> HIDE DEF Own
      <4>1. QED BY <3>5, <3>6, <3>8, SumSetUpdate
    <3>10. SumFunctionOnSet(f, s) = SumFunctionOnSet(f, r) + f[c]
      BY <3>1, <3>2, <3>3, SumSetRemove, SMTT(30)
    <3>11. SumFunctionOnSet(Own(r), A) = SumFunctionOnSet(f, r)
      BY <1>1, <3>1, <3>2
    <3>12. /\ SumFunctionOnSet(f, r) \in Nat /\ f[c] \in Nat /\ Own(r)[o[c]] \in Nat
           /\ SumFunctionOnSet(Own(s), A) \in Nat
      <4> HIDE DEF Own
      <4>1. r \subseteq S /\ c \in S
        BY <3>1, <3>2
      <4>2. QED BY <3>3, <3>5, <3>8, <4>1, SumSetNat
    <3>13. SumFunctionOnSet(Own(s), A) = SumFunctionOnSet(f, s)
      <4> HIDE DEF Own
      <4>1. QED BY <3>7, <3>9, <3>10, <3>11, <3>12
    <3>14. QED BY <3>13
  <2>3. QED BY <2>1, <2>2
<1>2. \A s \in SUBSET S : s \in G
  <2> HIDE DEF G
  <2>1. QED BY <1>1, SubsetInduction
<1>3. SumFunctionOnSet(Own(S), A) = SumFunctionOnSet(f, S)
  <2>1. S \in G
    BY <1>2
  <2>2. QED BY <2>1
<1>4. SumFunctionOnSet(g, A) = SumFunctionOnSet(Own(S), A)
  <2>1. \A a \in A : g[a] = Own(S)[a]
    <3>1. \A a \in A : P[a] = {x \in S : o[x] = a}
      OBVIOUS
    <3>2. QED BY <3>1
  <2> HIDE DEF Own
  <2>2. QED BY <2>1, SumSetSame
<1>5. QED BY <1>3, <1>4
=============================================================================
