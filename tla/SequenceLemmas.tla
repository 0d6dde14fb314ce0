--------------------------- MODULE SequenceLemmas ---------------------------
(* Lemmas about natural numbers, least and greatest members, and folds     *)
(* over sequences, that the proofs about several components cite.          *)
EXTENDS FiniteSetsExt, Integers, SequencesExt, WellFoundedInduction, TLAPS

-----------------------------------------------------------------------------
(* Induction over the natural numbers, for sets; least and greatest        *)
(* members.                                                                *)

LEMMA LeastNatural ==
  ASSUME NEW S \in SUBSET Nat, S # {}
  PROVE  \E x \in S : \A y \in S : x <= y
<1>1. \E x \in S : \A y \in S : ~ (<<y, x>> \in OpToRel(<, Nat))
  BY NatLessThanWellFounded, WFMin, Zenon
<1>2. PICK x \in S : \A y \in S : ~ (y < x)
  BY <1>1 DEF OpToRel
<1>3. \A y \in S : x <= y
  BY <1>2
<1> QED BY <1>3

LEMMA NatSet ==
  ASSUME NEW S, 0 \in S, \A n \in Nat : n \in S => n + 1 \in S
  PROVE  Nat \subseteq S
<1> DEFINE T == Nat \ S
<1> SUFFICES ASSUME T # {} PROVE FALSE
  OBVIOUS
<1>1. PICK x \in T : \A y \in T : x <= y
  <2> HIDE DEF T
  <2>1. T \in SUBSET Nat
    BY DEF T
  <2> QED BY <2>1, LeastNatural
<1>2. x \in Nat /\ x \notin S /\ x # 0
  OBVIOUS
<1>3. x - 1 \in Nat /\ (x - 1) + 1 = x /\ x - 1 < x
  BY <1>2
<1>4. x - 1 \in S
  BY <1>1, <1>3
<1> QED BY <1>2, <1>3, <1>4

LEMMA GreatestOf ==
  ASSUME NEW k \in Nat, NEW f, NEW D \in SUBSET (1..k), D # {}, \A m \in D : f[m] \in Nat
  PROVE  \E m \in D : \A n \in D : f[n] <= f[m]
<1> DEFINE Has(E) == \E m \in E : \A n \in E : f[n] <= f[m]
           S == {j \in Nat : \A E \in SUBSET (1..j) :
                                E # {} /\ (\A m \in E : f[m] \in Nat) => Has(E)}
<1>1. 0 \in S
  <2>1. \A E \in SUBSET (1..0) : E = {}
    OBVIOUS
  <2> HIDE DEF Has
  <2> QED BY <2>1
<1>2. ASSUME NEW j \in Nat, j \in S PROVE j + 1 \in S
  <2> SUFFICES ASSUME NEW E \in SUBSET (1..j + 1), E # {}, \A m \in E : f[m] \in Nat
      PROVE  Has(E)
    OBVIOUS
  <2> DEFINE R == E \ {j + 1}
  <2>1. R \in SUBSET (1..j) /\ \A m \in R : f[m] \in Nat
    OBVIOUS
  <2>2. CASE R = {}
    <3>1. E = {j + 1}
      BY <2>2
    <3> QED BY <3>1
  <2>3. CASE R # {} /\ j + 1 \notin E
    BY <1>2, <2>1, <2>3
  <2>4. CASE R # {} /\ j + 1 \in E
    <3>1. PICK m \in R : \A n \in R : f[n] <= f[m]
      BY <1>2, <2>1, <2>4
    <3>2. f[m] \in Nat /\ f[j + 1] \in Nat /\ m \in E /\ E = R \union {j + 1}
      BY <2>4
    <3>3. CASE f[m] <= f[j + 1]
      <4>1. \A n \in E : f[n] <= f[j + 1]
        BY <2>1, <3>1, <3>2, <3>3
      <4> QED BY <2>4, <4>1
    <3>4. CASE f[j + 1] <= f[m]
      <4>1. \A n \in E : f[n] <= f[m]
        BY <2>1, <3>1, <3>2, <3>4
      <4> QED BY <3>2, <4>1
    <3> QED BY <3>2, <3>3, <3>4
  <2> QED BY <2>2, <2>3, <2>4
<1> HIDE DEF Has
<1>3. Nat \subseteq S
  <2> HIDE DEF S
  <2> QED BY <1>1, <1>2, NatSet
<1>4. Has(D)
  BY <1>3
<1> QED BY <1>4 DEF Has

LEMMA LeastIs ==
  ASSUME NEW S \in SUBSET Nat, S # {}
  PROVE  Min(S) \in S
<1>1. \E x \in S : \A y \in S : x <= y
  BY LeastNatural
<1> QED BY <1>1 DEF Min

LEMMA GreatestIs ==
  ASSUME NEW k \in Nat, NEW D \in SUBSET (1..k), D # {}
  PROVE  Max(D) \in D /\ \A y \in D : Max(D) >= y
<1> DEFINE f == [i \in 1..k |-> i]
<1>1. \A m \in D : f[m] \in Nat /\ f[m] = m
  OBVIOUS
<1> HIDE DEF f
<1>2. \E m \in D : \A n \in D : f[n] <= f[m]
  BY <1>1, GreatestOf
<1>3. \E m \in D : \A n \in D : m >= n
  BY <1>1, <1>2
<1> QED BY <1>3 DEF Max

LEMMA MinOfTwo ==
  ASSUME NEW a \in Int, NEW b \in Int
  PROVE  Min({a, b}) = IF a <= b THEN a ELSE b
  BY DEF Min

LEMMA MaxOfTwo ==
  ASSUME NEW a \in Int, NEW b \in Int
  PROVE  Max({a, b}) = IF a >= b THEN a ELSE b
  BY DEF Max

-----------------------------------------------------------------------------
(* A fold with a step that is a function, through all its intermediate     *)
(* values.                                                                 *)

LEMMA GreatestLast ==
  ASSUME NEW k \in Nat
  PROVE  /\ \A t \in SUBSET (1..k + 1) : k + 1 \in t => Max(t) = k + 1
         /\ Max(1..k + 1) = k + 1 /\ (1..k + 1) \ {k + 1} = 1..k
<1>1. \A t \in SUBSET (1..k + 1) : k + 1 \in t => Max(t) = k + 1
  <2> SUFFICES ASSUME NEW t \in SUBSET (1..k + 1), k + 1 \in t PROVE Max(t) = k + 1
    OBVIOUS
  <2>1. Max(t) \in t /\ \A y \in t : Max(t) >= y
    <3> DEFINE n == k + 1
    <3>1. n \in Nat /\ t \in SUBSET (1..n) /\ t # {}
      OBVIOUS
    <3> HIDE DEF n
    <3> QED BY <3>1, GreatestIs
  <2>2. Max(t) \in 1..k + 1 /\ Max(t) >= k + 1
    BY <2>1
  <2> QED BY <2>2
<1> QED BY <1>1

(* g steps from b through the first n members of s.                        *)
Steps(S, A, g, b, s, n) ==
    g \in [S \X A -> S] /\ b \in S /\ n \in Nat /\ \A i \in 1..n : s[i] \in A

(* The recursive function of a fold over the first n members.              *)
Iterates(f, S, g, b, s, n) ==
    /\ f \in [SUBSET (1..n) -> S]
    /\ \A t \in SUBSET (1..n) :
          f[t] = IF t = {} THEN b ELSE g[<<f[t \ {Max(t)}], s[Max(t)]>>]

LEMMA IterExists ==
  ASSUME NEW S, NEW A, NEW g, NEW b, NEW s, NEW n, Steps(S, A, g, b, s, n)
  PROVE  \E f : Iterates(f, S, g, b, s, n)
<1> USE DEF Steps
<1> DEFINE Iter(f, k) == \A t \in SUBSET (1..k) :
              f[t] = IF t = {} THEN b ELSE g[<<f[t \ {Max(t)}], s[Max(t)]>>]
           Some(k) == \E f \in [SUBSET (1..k) -> S] : Iter(f, k)
           N == {k \in Nat : k <= n => Some(k)}
<1>1. 0 \in N
  <2> DEFINE f == [t \in SUBSET (1..0) |-> b]
  <2>1. SUBSET (1..0) = {{}}
    OBVIOUS
  <2>2. f \in [SUBSET (1..0) -> S] /\ Iter(f, 0)
    BY <2>1
  <2> HIDE DEF Iter, f
  <2>3. Some(0)
    BY <2>2
  <2> HIDE DEF Some
  <2> QED BY <2>3
<1>2. ASSUME NEW k \in Nat, k \in N PROVE k + 1 \in N
  <2>a. CASE ~(k + 1 <= n)
    <3> HIDE DEF Some
    <3> QED BY <2>a
  <2> SUFFICES ASSUME k + 1 <= n PROVE Some(k + 1)
    <3> HIDE DEF Some
    <3> QED BY <2>a
  <2>b. Some(k)
    <3> HIDE DEF Some
    <3> QED BY <1>2
  <2>1. PICK e \in [SUBSET (1..k) -> S] : Iter(e, k)
    <3> HIDE DEF Iter
    <3> QED BY <2>b
  <2> DEFINE f == [t \in SUBSET (1..k + 1) |->
                     IF k + 1 \in t THEN g[<<e[t \ {k + 1}], s[k + 1]>>] ELSE e[t]]
  <2>2. s[k + 1] \in A
    OBVIOUS
  <2>3. \A t \in SUBSET (1..k + 1) : t \ {k + 1} \in SUBSET (1..k)
                                    /\ (k + 1 \notin t => t \in SUBSET (1..k))
    OBVIOUS
  <2>4. \A t \in SUBSET (1..k + 1) : f[t] \in S
    BY <2>2, <2>3
  <2>5. Iter(f, k + 1)
    <3> SUFFICES ASSUME NEW t \in SUBSET (1..k + 1)
        PROVE  f[t] = IF t = {} THEN b ELSE g[<<f[t \ {Max(t)}], s[Max(t)]>>]
      OBVIOUS
    <3>1. CASE k + 1 \in t
      <4>1. Max(t) = k + 1
        BY <3>1, GreatestLast
      <4>2. f[t \ {k + 1}] = e[t \ {k + 1}]
        BY <2>3
      <4>3. f[t] = g[<<e[t \ {k + 1}], s[k + 1]>>] /\ t # {}
        BY <3>1
      <4> HIDE DEF f
      <4> QED BY <4>1, <4>2, <4>3
    <3>2. CASE k + 1 \notin t
      <4>1. f[t] = e[t] /\ t \in SUBSET (1..k)
        BY <2>3, <3>2
      <4>2. f[t \ {Max(t)}] = e[t \ {Max(t)}]
        BY <3>2
      <4>3. e[t] = IF t = {} THEN b ELSE g[<<e[t \ {Max(t)}], s[Max(t)]>>]
        BY <2>1, <4>1
      <4> HIDE DEF f, Iter
      <4> QED BY <4>1, <4>2, <4>3
    <3> QED BY <3>1, <3>2
  <2>6. f \in [SUBSET (1..k + 1) -> S]
    BY <2>4
  <2> HIDE DEF f, Iter
  <2> QED BY <2>5, <2>6
<1>3. n \in N
  <2> HIDE DEF N
  <2> QED BY <1>1, <1>2, NatSet
<1>4. Some(n)
  <2> HIDE DEF Some
  <2> QED BY <1>3
<1> QED BY <1>4 DEF Iterates

(* The recursive function of a fold, as far as its values are in S.        *)
FoldsBy(c, S, g, b, s, n) ==
    /\ c[{}] = b
    /\ \A t \in SUBSET (1..n) : t # {} /\ c[t \ {Max(t)}] \in S
          => c[t] = g[<<c[t \ {Max(t)}], s[Max(t)]>>]

(* h runs from b by steps of g to z.                                       *)
RunsTo(h, S, g, b, s, n, z) ==
    /\ h \in [0..n -> S] /\ h[0] = b /\ z = h[n]
    /\ \A i \in 1..n : h[i] = g[<<h[i - 1], s[i]>>]

LEMMA RunOfIter ==
  ASSUME NEW S, NEW A, NEW g, NEW b, NEW s, NEW n, Steps(S, A, g, b, s, n),
         NEW c, FoldsBy(c, S, g, b, s, n)
  PROVE  \E h : RunsTo(h, S, g, b, s, n, c[1..n])
<1> USE DEF Steps, FoldsBy
<1> DEFINE N == {k \in Nat : k <= n => c[1..k] \in S}
<1>1. ASSUME NEW k \in Nat, k + 1 <= n, c[1..k] \in S
      PROVE  c[1..k + 1] \in S /\ c[1..k + 1] = g[<<c[1..k], s[k + 1]>>]
  <2> DEFINE t == 1..k + 1
  <2>1. t \in SUBSET (1..n) /\ t # {} /\ Max(t) = k + 1 /\ t \ {Max(t)} = 1..k
    <3>1. Max(t) = k + 1 /\ t \ {k + 1} = 1..k
      BY GreatestLast
    <3> QED BY <1>1, <3>1
  <2>2. s[k + 1] \in A
    BY <1>1
  <2> HIDE DEF t
  <2>3. c[t] = g[<<c[1..k], s[k + 1]>>]
    BY <1>1, <2>1
  <2>4. g[<<c[1..k], s[k + 1]>>] \in S
    BY <1>1, <2>2
  <2> QED BY <2>3, <2>4 DEF t
<1>2. 0 \in N
  <2>1. 1..0 = {}
    OBVIOUS
  <2> QED BY <2>1
<1>3. ASSUME NEW k \in Nat, k \in N PROVE k + 1 \in N
  <2> SUFFICES ASSUME k + 1 <= n PROVE c[1..k + 1] \in S
    OBVIOUS
  <2>1. c[1..k] \in S
    BY <1>3
  <2> QED BY <1>1, <2>1
<1>4. Nat \subseteq N
  <2> HIDE DEF N
  <2> QED BY <1>2, <1>3, NatSet
<1>5. \A k \in 0..n : c[1..k] \in S
  BY <1>4
<1> DEFINE h == [i \in 0..n |-> c[1..i]]
<1>6. h \in [0..n -> S]
  BY <1>5
<1>7. h[0] = b
  <2>1. 1..0 = {}
    OBVIOUS
  <2> QED BY <2>1
<1>8. ASSUME NEW i \in 1..n PROVE h[i] = g[<<h[i - 1], s[i]>>]
  <2>1. i - 1 \in Nat /\ (i - 1) + 1 = i /\ i <= n /\ c[1..i - 1] \in S
    BY <1>5
  <2>2. c[1..i] = g[<<c[1..i - 1], s[i]>>]
    BY <1>1, <2>1
  <2>3. h[i] = c[1..i] /\ h[i - 1] = c[1..i - 1]
    BY <2>1
  <2> HIDE DEF h
  <2> QED BY <2>2, <2>3
<1>9. c[1..n] = h[n]
  OBVIOUS
<1> HIDE DEF h
<1>10. RunsTo(h, S, g, b, s, n, c[1..n])
  BY <1>6, <1>7, <1>8, <1>9 DEF RunsTo
<1> QED BY <1>10

(* Two runs over sequences that begin alike begin alike.                   *)
Alike(h, k, g, s, z, n) ==
    /\ n \in Nat /\ h[0] = k[0]
    /\ \A i \in 1..n : /\ s[i] = z[i]
                       /\ h[i] = g[<<h[i - 1], s[i]>>]
                       /\ k[i] = g[<<k[i - 1], z[i]>>]

LEMMA RunsAgree ==
  ASSUME NEW h, NEW k, NEW g, NEW s, NEW z, NEW n, Alike(h, k, g, s, z, n)
  PROVE  \A i \in 0..n : h[i] = k[i]
<1> USE DEF Alike
<1> DEFINE N == {j \in Nat : j <= n => h[j] = k[j]}
<1>1. 0 \in N
  OBVIOUS
<1>2. ASSUME NEW j \in Nat, j \in N PROVE j + 1 \in N
  <2> SUFFICES ASSUME j + 1 <= n PROVE h[j + 1] = k[j + 1]
    OBVIOUS
  <2>1. n \in Nat /\ j + 1 \in 1..n /\ (j + 1) - 1 = j /\ h[j] = k[j]
    BY <1>2
  <2>2. /\ s[j + 1] = z[j + 1]
        /\ h[j + 1] = g[<<h[j], s[j + 1]>>] /\ k[j + 1] = g[<<k[j], z[j + 1]>>]
    BY <2>1
  <2> QED BY <2>1, <2>2
<1>3. Nat \subseteq N
  <2> HIDE DEF N
  <2> QED BY <1>1, <1>2, NatSet
<1> QED BY <1>3
=============================================================================
