---------------------------- MODULE GatewayProofs ----------------------------
(***************************************************************************)
(* Proofs about GatewayAdmission, for any finite set of servers, any       *)
(* tenants, limits, number of snapshots and size of a page.                *)
(*                                                                         *)
(* The admission loop is a recursive function over the sorted servers.     *)
(* What it computes is proved by induction over its turns, in the form the *)
(* provers take: the set of the turns a fact holds after is all of them,   *)
(* since otherwise it would miss a least one.                              *)
(***************************************************************************)
EXTENDS GatewayAdmission, FiniteSetTheorems, WellFoundedInduction, TLAPS

-----------------------------------------------------------------------------
(* Numbers and orders. *)

\* A set of numbers has a least one.
LEMMA LeastNumber ==
  ASSUME NEW T \in SUBSET Nat, T # {}
  PROVE  \E m \in T : \A n \in T : m <= n
  <1>1. \E m \in T : \A n \in T : ~ (<<n, m>> \in OpToRel(<, Nat))
    BY NatLessThanWellFounded, WFMin
  <1>2. \E m \in T : \A n \in T : ~ (n < m)
    BY <1>1 DEF OpToRel
  <1> QED  BY <1>2

\* Induction up to n, for the set of the numbers a fact holds of.
LEMMA UpTo ==
  ASSUME NEW n \in Nat, NEW T, 0 \in T, \A i \in 0..n : i \in T /\ i < n => i + 1 \in T
  PROVE  \A i \in 0..n : i \in T
  <1> DEFINE U == {i \in 0..n : i \notin T}
  <1> SUFFICES ASSUME U # {} PROVE FALSE
    OBVIOUS
  <1>0. U \in SUBSET Nat
    OBVIOUS
  <1>1. PICK m \in U : \A k \in U : m <= k
    <2> HIDE DEF U
    <2> QED  BY <1>0, LeastNumber
  <1>2. m - 1 \in 0..n /\ m - 1 < n /\ m - 1 < m /\ m \in Nat
    BY <1>1
  <1>3. m - 1 \in T
    BY <1>1, <1>2
  <1>4. (m - 1) + 1 \in T
    BY <1>2, <1>3
  <1> QED  BY <1>2, <1>4

\* order is a strict linear order of S.
Linear(S, order) ==
  /\ \A a \in S : <<a, a>> \notin order
  /\ \A a, b \in S : a # b => <<a, b>> \in order \/ <<b, a>> \in order
  /\ \A a, b, c \in S : <<a, b>> \in order /\ <<b, c>> \in order => <<a, c>> \in order

\* InOrder lists every member once, and in order.  The number of members before one
\* is an injection into 0..(n - 1), a set of the same size, hence onto.
LEMMA InOrderSorts ==
  ASSUME NEW S, IsFiniteSet(S), NEW order, Linear(S, order),
         NEW s, s = InOrder(S, order)
  PROVE  /\ Cardinality(S) \in Nat /\ s \in [1..Cardinality(S) -> S]
         /\ \A c \in S : \E i \in 1..Cardinality(S) : s[i] = c
         /\ \A i, j \in 1..Cardinality(S) : s[i] = s[j] => i = j
         /\ \A i, j \in 1..Cardinality(S) : <<s[i], s[j]>> \in order => i < j
  <1> DEFINE n == Cardinality(S)
             before(c) == {d \in S : <<d, c>> \in order}
             rank == [c \in S |-> Cardinality(before(c))]
  <1>1. n \in Nat
    BY FS_CardinalityType
  <1>2. \A c \in S : IsFiniteSet(before(c)) /\ Cardinality(before(c)) \in Nat
    <2> SUFFICES ASSUME NEW c \in S PROVE IsFiniteSet(before(c)) /\ Cardinality(before(c)) \in Nat
      OBVIOUS
    <2>1. before(c) \in SUBSET S
      OBVIOUS
    <2> QED  BY <2>1, FS_Subset, FS_CardinalityType
  <1>3. \A a, b \in S : <<a, b>> \in order => rank[a] < rank[b]
    <2> SUFFICES ASSUME NEW a \in S, NEW b \in S, <<a, b>> \in order
                 PROVE  Cardinality(before(a)) < Cardinality(before(b))
      OBVIOUS
    <2>1. before(a) \subseteq before(b) /\ a \in before(b) /\ a \notin before(a)
      BY DEF Linear
    <2>2. /\ Cardinality(before(a)) <= Cardinality(before(b))
          /\ Cardinality(before(b)) = Cardinality(before(a)) => before(b) = before(a)
      <3> HIDE DEF before
      <3> QED  BY <1>2, <2>1, FS_Subset
    <2>3. Cardinality(before(a)) # Cardinality(before(b))
      <3> HIDE DEF before
      <3> QED  BY <2>1, <2>2
    <2> QED  BY <1>2, <2>2, <2>3
  <1>4. \A c \in S : rank[c] \in 0..(n - 1)
    <2> SUFFICES ASSUME NEW c \in S PROVE Cardinality(before(c)) \in 0..(n - 1)
      OBVIOUS
    <2>1. before(c) \in SUBSET S /\ c \notin before(c)
      BY DEF Linear
    <2>2. Cardinality(before(c)) <= n /\ (n = Cardinality(before(c)) => S = before(c))
      <3> HIDE DEF before
      <3> QED  BY <2>1, FS_Subset
    <2>3. Cardinality(before(c)) # n
      <3> HIDE DEF before
      <3> QED  BY <2>1, <2>2
    <2> QED  BY <1>1, <1>2, <2>2, <2>3
  <1>5. rank \in [S -> 0..(n - 1)]
    BY <1>4
  <1>6. \A a, b \in S : rank[a] = rank[b] => a = b
    <2> SUFFICES ASSUME NEW a \in S, NEW b \in S, rank[a] = rank[b], a # b PROVE FALSE
      OBVIOUS
    <2>1. rank[a] < rank[b] \/ rank[b] < rank[a]
      BY <1>3 DEF Linear
    <2>2. rank[a] \in Int /\ rank[b] \in Int
      BY <1>4
    <2> HIDE DEF rank
    <2> QED  BY <2>1, <2>2
  <1> HIDE DEF rank
  <1>7. \A k \in 0..(n - 1) : \E c \in S : rank[c] = k
    <2>1. rank \in Injection(S, 0..(n - 1))
      BY <1>5, <1>6 DEF Injection, IsInjective
    <2>2. IsFiniteSet(0..(n - 1)) /\ Cardinality(0..(n - 1)) = n
      BY <1>1, FS_Interval
    <2>3. rank \in Surjection(S, 0..(n - 1))
      BY <2>1, <2>2, FS_Injection
    <2> QED  BY <2>3 DEF Surjection
  <1>8. \A i \in 1..n : s[i] \in S /\ rank[s[i]] = i - 1
    <2> SUFFICES ASSUME NEW i \in 1..n PROVE s[i] \in S /\ rank[s[i]] = i - 1
      OBVIOUS
    <2>1. \E c \in S : rank[c] = i - 1
      BY <1>1, <1>7
    <2>2. \E c \in S : Cardinality({d \in S : <<d, c>> \in order}) = i - 1
      BY <2>1 DEF rank
    <2>3. s[i] = CHOOSE c \in S : Cardinality({d \in S : <<d, c>> \in order}) = i - 1
      BY DEF InOrder
    <2>4. s[i] \in S /\ Cardinality({d \in S : <<d, s[i]>> \in order}) = i - 1
      BY <2>2, <2>3
    <2> QED  BY <2>4 DEF rank
  <1>9. s \in [1..n -> S]
    BY <1>8 DEF InOrder
  <1>10. \A c \in S : \E i \in 1..n : s[i] = c
    <2> SUFFICES ASSUME NEW c \in S PROVE \E i \in 1..n : s[i] = c
      OBVIOUS
    <2>1. rank[c] + 1 \in 1..n /\ rank[c] \in Int
      BY <1>1, <1>5
    <2>2. rank[s[rank[c] + 1]] = rank[c] /\ s[rank[c] + 1] \in S
      BY <1>8, <2>1
    <2> QED  BY <1>6, <2>1, <2>2
  <1>11. \A i, j \in 1..n : s[i] = s[j] => i = j
    BY <1>8
  <1>12. \A i, j \in 1..n : <<s[i], s[j]>> \in order => i < j
    BY <1>3, <1>8
  <1> QED  BY <1>1, <1>9, <1>10, <1>11, <1>12

\* Both orders are linear.
LEMMA OrdersLinear ==
  ASSUME NEW S \in SUBSET Candidates
  PROVE  Linear(S, ByNumber(S)) /\ Linear(S, ByAge(S))
  <1>1. \A c \in S : c \in Nat /\ PublishedAt[c] \in Nat
    BY GatewayAssumptions
  <1>2. \A a, b \in S : <<a, b>> \in ByNumber(S) <=> a < b
    BY DEF ByNumber
  <1>3. \A a, b \in S : <<a, b>> \in ByAge(S) <=>
           PublishedAt[a] < PublishedAt[b] \/ (PublishedAt[a] = PublishedAt[b] /\ a < b)
    BY DEF ByAge
  <1> QED  BY <1>1, <1>2, <1>3 DEF Linear
-----------------------------------------------------------------------------
(* The admission loop. *)

Kept == Eligible \cap Routed

\* g holds what is admitted after each of the first n turns of the loop.
Loop(policy, g, n) ==
  g = [i \in 0..n |-> IF i = 0 THEN Kept ELSE Admit(policy, g[i - 1], Waiting[i])]

\* The servers that wait are listed once each, the older first.
LEMMA WaitingSorted ==
  /\ Len(Waiting) \in Nat /\ Waiting \in [1..Len(Waiting) -> Eligible \ Routed]
  /\ \A c \in Eligible \ Routed : \E i \in 1..Len(Waiting) : Waiting[i] = c
  /\ \A i, j \in 1..Len(Waiting) : Waiting[i] = Waiting[j] => i = j
  /\ \A i, j \in 1..Len(Waiting) :
       PublishedAt[Waiting[i]] < PublishedAt[Waiting[j]] => i < j
  <1> DEFINE S == Eligible \ Routed
             n == Cardinality(S)
  <1>1. S \in SUBSET Candidates /\ IsFiniteSet(S)
    <2>1. S \in SUBSET Candidates
      BY DEF Eligible
    <2> HIDE DEF S
    <2> QED  BY <2>1, FS_Subset, GatewayAssumptions
  <1>2. Waiting = InOrder(S, ByAge(S)) /\ Linear(S, ByAge(S))
    BY <1>1, OrdersLinear DEF Waiting
  <1>3. /\ n \in Nat /\ Waiting \in [1..n -> S]
        /\ \A c \in S : \E i \in 1..n : Waiting[i] = c
        /\ \A i, j \in 1..n : Waiting[i] = Waiting[j] => i = j
        /\ \A i, j \in 1..n : <<Waiting[i], Waiting[j]>> \in ByAge(S) => i < j
    <2> HIDE DEF S
    <2> QED  BY <1>1, <1>2, InOrderSorts
  <1>4. Len(Waiting) = n
    <2>1. Waiting \in Seq(S)
      <3> HIDE DEF S
      <3> QED  BY <1>3
    <2> HIDE DEF S, n
    <2> QED  BY <1>3, <2>1
  <1>5. \A a, b \in S : PublishedAt[a] < PublishedAt[b] => <<a, b>> \in ByAge(S)
    BY DEF ByAge
  <1> HIDE DEF S, n
  <1>6. \A i, j \in 1..n : PublishedAt[Waiting[i]] < PublishedAt[Waiting[j]] => i < j
    BY <1>3, <1>5
  <1> QED  BY <1>3, <1>4, <1>6 DEF S

\* The loop runs to its end.
LEMMA LoopRuns ==
  ASSUME NEW policy
  PROVE  \E g : Loop(policy, g, Len(Waiting)) /\ Admitted(policy) = g[Len(Waiting)]
  <1> DEFINE T == {m \in 0..Len(Waiting) : \E g : Loop(policy, g, m)}
  <1>0. Len(Waiting) \in Nat
    BY WaitingSorted
  <1>1. 0 \in T
    <2> DEFINE g == [i \in 0..0 |-> Kept]
    <2>1. Loop(policy, g, 0)
      BY DEF Loop
    <2> QED  BY <1>0, <2>1
  <1>2. \A m \in 0..Len(Waiting) : m \in T /\ m < Len(Waiting) => m + 1 \in T
    <2> SUFFICES ASSUME NEW m \in 0..Len(Waiting), m \in T, m < Len(Waiting)
                 PROVE  \E h : Loop(policy, h, m + 1)
      BY <1>0
    <2>1. PICK g : Loop(policy, g, m)
      OBVIOUS
    <2> DEFINE h == [i \in 0..(m + 1) |->
                       IF i = m + 1 THEN Admit(policy, g[m], Waiting[m + 1]) ELSE g[i]]
    <2>2. \A i \in 0..m : g[i] = IF i = 0 THEN Kept ELSE Admit(policy, g[i - 1], Waiting[i])
      BY <2>1 DEF Loop
    <2>3. \A i \in 0..(m + 1) :
            h[i] = IF i = 0 THEN Kept ELSE Admit(policy, h[i - 1], Waiting[i])
      <3> SUFFICES ASSUME NEW i \in 0..(m + 1)
                   PROVE  h[i] = IF i = 0 THEN Kept ELSE Admit(policy, h[i - 1], Waiting[i])
        OBVIOUS
      <3>1. CASE i = m + 1
        <4>1. i # 0 /\ i - 1 \in 0..(m + 1) /\ i - 1 # m + 1 /\ i - 1 = m
          BY <1>0, <3>1
        <4>2. h[i - 1] = g[m] /\ h[i] = Admit(policy, g[m], Waiting[m + 1])
          BY <3>1, <4>1
        <4> HIDE DEF h
        <4> QED  BY <3>1, <4>1, <4>2
      <3>2. CASE i # m + 1
        <4>1. i \in 0..m /\ (i # 0 => i - 1 \in 0..(m + 1) /\ i - 1 # m + 1)
          BY <1>0, <3>2
        <4>2. h[i] = g[i] /\ (i # 0 => h[i - 1] = g[i - 1])
          BY <3>2, <4>1
        <4> HIDE DEF h
        <4> QED  BY <2>2, <4>1, <4>2
      <3> QED  BY <3>1, <3>2
    <2>4. DOMAIN h = 0..(m + 1) /\ h = [i \in 0..(m + 1) |-> h[i]]
      OBVIOUS
    <2> HIDE DEF h
    <2>5. h = [i \in 0..(m + 1) |-> IF i = 0 THEN Kept ELSE Admit(policy, h[i - 1], Waiting[i])]
      BY <2>3, <2>4
    <2> QED  BY <2>5 DEF Loop
  <1>3. Len(Waiting) \in T
    <2> HIDE DEF T
    <2>1. \A i \in 0..Len(Waiting) : i \in T
      BY <1>0, <1>1, <1>2, UpTo
    <2> QED  BY <1>0, <2>1
  <1> DEFINE after == CHOOSE g : Loop(policy, g, Len(Waiting))
  <1>4. Loop(policy, after, Len(Waiting))
    BY <1>3
  <1>5. Admitted(policy) = after[Len(Waiting)]
    BY DEF Admitted, Loop, Kept
  <1> QED  BY <1>4, <1>5

\* What the loop has decided after m turns: no route is taken away, nothing is added
\* but those whose turn it was, and what is added fits the limits.
SoFar(policy, g, m) ==
  /\ Kept \subseteq g[m] /\ g[m] \subseteq Eligible
  /\ \A k \in 0..m : g[k] \subseteq g[m]
  /\ \A k \in 0..m : \A c \in g[m] \ g[k] : \E l \in (k + 1)..m : c = Waiting[l]
  /\ \A t \in Tenants : \/ OfTenant(g[m], t) \subseteq Kept
                        \/ Cardinality(OfTenant(g[m], t)) <= policy.tenant
  /\ g[m] = Kept \/ Cardinality(g[m]) <= policy.global

\* Sets of servers are finite, and larger ones count more.
LEMMA ServersCount ==
  ASSUME NEW A \in SUBSET Candidates, NEW B \in SUBSET A, NEW t
  PROVE  /\ IsFiniteSet(A) /\ Cardinality(A) \in Nat /\ Cardinality(OfTenant(A, t)) \in Nat
         /\ IsFiniteSet(OfTenant(A, t))
         /\ Cardinality(B) <= Cardinality(A)
         /\ Cardinality(OfTenant(B, t)) <= Cardinality(OfTenant(A, t))
  <1>1. OfTenant(A, t) \subseteq A /\ OfTenant(B, t) \subseteq OfTenant(A, t)
    BY DEF OfTenant
  <1>2. IsFiniteSet(A)
    BY FS_Subset, GatewayAssumptions
  <1>3. IsFiniteSet(OfTenant(A, t))
    BY <1>1, <1>2, FS_Subset
  <1> QED  BY <1>1, <1>2, <1>3, FS_Subset, FS_CardinalityType

\* A turn admits the next server, or leaves it waiting for a quota.
LEMMA TurnAdmits ==
  ASSUME NEW policy \in Policies, NEW n \in Nat, NEW g, Loop(policy, g, n), NEW i \in 1..n,
         g[i - 1] \in SUBSET Candidates
  PROVE  \/ /\ g[i] = g[i - 1]
            /\ \/ Cardinality(OfTenant(g[i - 1], TenantOf[Waiting[i]])) >= policy.tenant
               \/ Cardinality(g[i - 1]) >= policy.global
         \/ /\ g[i] = g[i - 1] \cup {Waiting[i]}
            /\ Cardinality(OfTenant(g[i - 1], TenantOf[Waiting[i]])) < policy.tenant
            /\ Cardinality(g[i - 1]) < policy.global
  <1>1. g[i] = Admit(policy, g[i - 1], Waiting[i])
    BY DEF Loop
  <1>2. policy.tenant \in Int /\ policy.global \in Int
    BY GatewayAssumptions DEF GatewayEligibilityPolicy
  <1>3. /\ Cardinality(OfTenant(g[i - 1], TenantOf[Waiting[i]])) \in Nat
        /\ Cardinality(g[i - 1]) \in Nat
    BY ServersCount
  <1> QED  BY <1>1, <1>2, <1>3 DEF Admit

\* One more turn.
LEMMA TurnKeepsSoFar ==
  ASSUME NEW policy \in Policies, NEW n \in Nat, n = Len(Waiting), NEW g, Loop(policy, g, n),
         NEW m \in 0..n, m < n, SoFar(policy, g, m)
  PROVE  SoFar(policy, g, m + 1)
  <1> DEFINE c == Waiting[m + 1]
  <1>1. m + 1 \in 1..n /\ (m + 1) - 1 = m /\ m \in Nat
    OBVIOUS
  <1>2. c \in Eligible /\ c \in Candidates /\ g[m] \in SUBSET Candidates /\ Eligible \subseteq Candidates
    BY <1>1, WaitingSorted DEF SoFar, Eligible
  <1>3. CASE g[m + 1] = g[m]
    <2>1. \A k \in 0..(m + 1) : k \in 0..m \/ k = m + 1
      BY <1>1
    <2>2. \A k \in 0..m : \A l \in (k + 1)..m : l \in (k + 1)..(m + 1)
      BY <1>1
    <2> QED  BY <1>3, <2>1, <2>2 DEF SoFar
  <1>4. CASE /\ g[m + 1] = g[m] \cup {c}
             /\ Cardinality(OfTenant(g[m], TenantOf[c])) < policy.tenant
             /\ Cardinality(g[m]) < policy.global
    <2>1. Kept \subseteq g[m + 1] /\ g[m + 1] \subseteq Eligible
      BY <1>2, <1>4 DEF SoFar
    <2>2. \A k \in 0..(m + 1) : g[k] \subseteq g[m + 1]
      <3>1. \A k \in 0..(m + 1) : k \in 0..m \/ k = m + 1
        BY <1>1
      <3> QED  BY <1>4, <3>1 DEF SoFar
    <2>3. \A k \in 0..(m + 1) : \A d \in g[m + 1] \ g[k] : \E l \in (k + 1)..(m + 1) : d = Waiting[l]
      <3> SUFFICES ASSUME NEW k \in 0..(m + 1), NEW d \in g[m + 1] \ g[k]
                   PROVE  \E l \in (k + 1)..(m + 1) : d = Waiting[l]
        OBVIOUS
      <3>1. k \in 0..m
        BY <1>1
      <3>2. CASE d = c
        BY <1>1, <3>1, <3>2
      <3>3. CASE d # c
        <4>1. PICK l \in (k + 1)..m : d = Waiting[l]
          BY <1>4, <3>1, <3>3 DEF SoFar
        <4> QED  BY <1>1, <4>1
      <3> QED  BY <3>2, <3>3
    <2>4. /\ policy.tenant \in Int /\ policy.global \in Int
          /\ IsFiniteSet(g[m]) /\ Cardinality(g[m]) \in Nat
      <3>1. policy.tenant \in Int /\ policy.global \in Int
        BY GatewayAssumptions DEF GatewayEligibilityPolicy
      <3>2. IsFiniteSet(g[m]) /\ Cardinality(g[m]) \in Nat
        BY <1>2, ServersCount
      <3> QED  BY <3>1, <3>2
    <2>5. Cardinality(g[m + 1]) <= policy.global
      <3>1. Cardinality(g[m + 1]) = Cardinality(g[m]) \/ Cardinality(g[m + 1]) = Cardinality(g[m]) + 1
        BY <1>4, <2>4, FS_AddElement
      <3> QED  BY <1>4, <2>4, <3>1
    <2>6. ASSUME NEW t \in Tenants
          PROVE  \/ OfTenant(g[m + 1], t) \subseteq Kept
                 \/ Cardinality(OfTenant(g[m + 1], t)) <= policy.tenant
      <3>1. CASE t # TenantOf[c]
        <4>1. OfTenant(g[m + 1], t) = OfTenant(g[m], t)
          BY <1>4, <3>1 DEF OfTenant
        <4> QED  BY <4>1 DEF SoFar
      <3>2. CASE t = TenantOf[c]
        <4>1. OfTenant(g[m + 1], t) = OfTenant(g[m], t) \cup {c}
          BY <1>4, <3>2 DEF OfTenant
        <4>2. IsFiniteSet(OfTenant(g[m], t)) /\ Cardinality(OfTenant(g[m], t)) \in Nat
          BY <1>2, ServersCount
        <4>3. \/ Cardinality(OfTenant(g[m + 1], t)) = Cardinality(OfTenant(g[m], t))
              \/ Cardinality(OfTenant(g[m + 1], t)) = Cardinality(OfTenant(g[m], t)) + 1
          BY <4>1, <4>2, FS_AddElement
        <4> QED  BY <1>4, <2>4, <3>2, <4>2, <4>3
      <3> QED  BY <3>1, <3>2
    <2> QED  BY <2>1, <2>2, <2>3, <2>5, <2>6 DEF SoFar
  <1> QED  BY <1>1, <1>2, <1>3, <1>4, TurnAdmits

\* After any number of turns.
LEMMA LoopKeepsSoFar ==
  ASSUME NEW policy \in Policies, NEW n \in Nat, n = Len(Waiting), NEW g, Loop(policy, g, n)
  PROVE  \A m \in 0..n : SoFar(policy, g, m)
  <1> DEFINE T == {m \in 0..n : SoFar(policy, g, m)}
  <1>1. 0 \in T
    <2>1. g[0] = Kept
      BY DEF Loop
    <2>2. \A t : OfTenant(Kept, t) \subseteq Kept
      BY DEF OfTenant
    <2>3. Kept \subseteq Eligible
      BY DEF Kept
    <2> QED  BY <2>1, <2>2, <2>3 DEF SoFar
  <1>2. \A i \in 0..n : i \in T /\ i < n => i + 1 \in T
    BY TurnKeepsSoFar
  <1> HIDE DEF T
  <1>3. \A i \in 0..n : i \in T
    BY <1>1, <1>2, UpTo
  <1> QED  BY <1>3 DEF T

\* The outcome of the loop, as AdmissionIsFair states it.
Fair(policy, new) ==
  /\ Kept \subseteq new /\ new \subseteq Eligible
  /\ \A t \in Tenants : \/ OfTenant(new, t) \subseteq Kept
                        \/ Cardinality(OfTenant(new, t)) <= policy.tenant
  /\ new = Kept \/ Cardinality(new) <= policy.global
  /\ \A waits \in Eligible \ new :
       /\ \/ Cardinality(OfTenant(new, TenantOf[waits])) >= policy.tenant
          \/ Cardinality(new) >= policy.global
       /\ \A c \in new \ Kept : PublishedAt[waits] < PublishedAt[c] =>
            /\ TenantOf[c] # TenantOf[waits]
            /\ Cardinality(OfTenant(new, TenantOf[waits])) >= policy.tenant

\* A server that still waits was refused in its turn, when a quota was full; quotas
\* only fill up.  One admitted later found the global quota open, so it was the
\* refused one's own tenant that was full.
LEMMA AdmittedFairly ==
  ASSUME NEW policy \in Policies
  PROVE  Fair(policy, Admitted(policy))
  <1> DEFINE n == Len(Waiting)
  <1>1. n \in Nat
    BY WaitingSorted
  <1>2. PICK g : Loop(policy, g, n) /\ Admitted(policy) = g[n]
    BY LoopRuns
  <1>3. \A m \in 0..n : SoFar(policy, g, m)
    BY <1>1, <1>2, LoopKeepsSoFar
  <1>4. /\ Waiting \in [1..n -> Eligible \ Routed]
        /\ \A c \in Eligible \ Routed : \E i \in 1..n : Waiting[i] = c
        /\ \A i, j \in 1..n : Waiting[i] = Waiting[j] => i = j
        /\ \A i, j \in 1..n : PublishedAt[Waiting[i]] < PublishedAt[Waiting[j]] => i < j
    BY WaitingSorted
  <1> HIDE DEF n
  <1>5. \A m \in 0..n : g[m] \in SUBSET Candidates
    BY <1>3 DEF SoFar, Eligible
  <1>6. policy.tenant \in Int /\ policy.global \in Int
    BY GatewayAssumptions DEF GatewayEligibilityPolicy
  <1>7. \A m, k \in 0..n : \A t :
          k <= m => /\ Cardinality(g[k]) \in Nat /\ Cardinality(g[m]) \in Nat
                    /\ Cardinality(OfTenant(g[k], t)) \in Nat
                    /\ Cardinality(OfTenant(g[m], t)) \in Nat
                    /\ Cardinality(g[k]) <= Cardinality(g[m])
                    /\ Cardinality(OfTenant(g[k], t)) <= Cardinality(OfTenant(g[m], t))
    <2> SUFFICES ASSUME NEW m \in 0..n, NEW k \in 0..n, NEW t, k <= m
                 PROVE  /\ Cardinality(g[k]) \in Nat /\ Cardinality(g[m]) \in Nat
                        /\ Cardinality(OfTenant(g[k], t)) \in Nat
                        /\ Cardinality(OfTenant(g[m], t)) \in Nat
                        /\ Cardinality(g[k]) <= Cardinality(g[m])
                        /\ Cardinality(OfTenant(g[k], t)) <= Cardinality(OfTenant(g[m], t))
      OBVIOUS
    <2>1. g[k] \in SUBSET g[m]
      BY <1>1, <1>3 DEF SoFar
    <2> QED  BY <1>5, <2>1, ServersCount
  <1>8. ASSUME NEW k \in 1..n, Waiting[k] \notin g[n]
        PROVE  \/ Cardinality(OfTenant(g[k - 1], TenantOf[Waiting[k]])) >= policy.tenant
               \/ Cardinality(g[k - 1]) >= policy.global
    <2>1. k - 1 \in 0..n /\ k \in 0..n /\ n \in 0..n /\ k <= n
      BY <1>1
    <2>2. g[k] \subseteq g[n]
      BY <1>3, <2>1 DEF SoFar
    <2> QED  BY <1>1, <1>2, <1>5, <1>8, <2>1, <2>2, TurnAdmits
  <1>9. ASSUME NEW k \in 1..n, Waiting[k] \in g[n]
        PROVE  /\ Cardinality(OfTenant(g[k - 1], TenantOf[Waiting[k]])) < policy.tenant
               /\ Cardinality(g[k - 1]) < policy.global
    <2>1. k - 1 \in 0..n /\ k \in 0..n /\ n \in 0..n /\ 0 \in 0..n /\ k \in 0..n
      BY <1>1
    <2>2. g[0] = Kept /\ Waiting[k] \notin Kept
      BY <1>2, <1>4, <2>1 DEF Loop, Kept
    <2>3. Waiting[k] \notin g[k - 1]
      <3> SUFFICES ASSUME Waiting[k] \in g[k - 1] PROVE FALSE
        OBVIOUS
      <3>1. 0 \in 0..(k - 1)
        BY <1>1
      <3>2. PICK l \in (0 + 1)..(k - 1) : Waiting[k] = Waiting[l]
        BY <1>3, <2>1, <2>2, <3>1 DEF SoFar
      <3>3. l \in 1..n /\ l # k
        BY <1>1, <3>2
      <3> QED  BY <1>4, <3>2, <3>3
    <2>4. Waiting[k] \in g[k]
      <3> SUFFICES ASSUME Waiting[k] \notin g[k] PROVE FALSE
        OBVIOUS
      <3>1. PICK l \in (k + 1)..n : Waiting[k] = Waiting[l]
        BY <1>3, <1>9, <2>1 DEF SoFar
      <3>2. l \in 1..n /\ l # k
        BY <1>1, <3>1
      <3> QED  BY <1>4, <3>1, <3>2
    <2> QED  BY <1>1, <1>2, <1>5, <2>1, <2>3, <2>4, TurnAdmits
  <1>10. ASSUME NEW waits \in Eligible \ g[n]
         PROVE  /\ \/ Cardinality(OfTenant(g[n], TenantOf[waits])) >= policy.tenant
                   \/ Cardinality(g[n]) >= policy.global
                /\ \A c \in g[n] \ Kept : PublishedAt[waits] < PublishedAt[c] =>
                     /\ TenantOf[c] # TenantOf[waits]
                     /\ Cardinality(OfTenant(g[n], TenantOf[waits])) >= policy.tenant
    <2>1. n \in 0..n /\ \A i \in 1..n : i - 1 \in 0..n /\ i - 1 <= n
      BY <1>1
    <2>2. waits \notin Routed
      BY <1>3, <1>10, <2>1 DEF SoFar, Kept
    <2>3. PICK k \in 1..n : Waiting[k] = waits
      BY <1>4, <1>10, <2>2
    <2>4. \/ Cardinality(OfTenant(g[k - 1], TenantOf[waits])) >= policy.tenant
          \/ Cardinality(g[k - 1]) >= policy.global
      BY <1>8, <1>10, <2>3
    <2>5. \/ Cardinality(OfTenant(g[n], TenantOf[waits])) >= policy.tenant
          \/ Cardinality(g[n]) >= policy.global
      BY <1>6, <1>7, <2>1, <2>4
    <2>6. ASSUME NEW c \in g[n] \ Kept, PublishedAt[waits] < PublishedAt[c]
          PROVE  /\ TenantOf[c] # TenantOf[waits]
                 /\ Cardinality(OfTenant(g[n], TenantOf[waits])) >= policy.tenant
      <3>1. c \in Eligible \ Routed
        BY <1>3, <2>1, <2>6 DEF SoFar, Kept
      <3>2. PICK l \in 1..n : Waiting[l] = c
        BY <1>4, <3>1
      <3>3. k < l
        BY <1>4, <2>3, <2>6, <3>2
      <3>4. k - 1 \in 0..n /\ l - 1 \in 0..n /\ k - 1 <= l - 1
        BY <1>1, <3>3
      <3>5. /\ Cardinality(OfTenant(g[l - 1], TenantOf[c])) < policy.tenant
            /\ Cardinality(g[l - 1]) < policy.global
        BY <1>9, <2>6, <3>2
      <3>6. Cardinality(g[k - 1]) < policy.global
        BY <1>6, <1>7, <3>4, <3>5
      <3>7. Cardinality(OfTenant(g[k - 1], TenantOf[waits])) >= policy.tenant
        BY <1>6, <1>7, <2>4, <3>4, <3>6
      <3>8. /\ Cardinality(OfTenant(g[l - 1], TenantOf[waits])) >= policy.tenant
            /\ Cardinality(OfTenant(g[n], TenantOf[waits])) >= policy.tenant
        BY <1>6, <1>7, <2>1, <3>4, <3>7
      <3>9. TenantOf[c] # TenantOf[waits]
        BY <1>6, <1>7, <3>4, <3>5, <3>8
      <3> QED  BY <3>8, <3>9
    <2> QED  BY <2>5, <2>6
  <1>11. SoFar(policy, g, n)
    BY <1>1, <1>3
  <1> QED  BY <1>2, <1>10, <1>11 DEF Fair, SoFar
-----------------------------------------------------------------------------
(* Snapshots.                                                                  *)
(*                                                                             *)
(* Every page carries the digest of a snapshot the Registry made, and a digest *)
(* determines its snapshot: what the digest of the first page matches is that  *)
(* snapshot, whatever the pages say.                                           *)

GateInv ==
  /\ snapshots \in Seq(Range(snapshots)) /\ pages \in Seq(Range(pages))
  /\ \A i \in DOMAIN pages : pages[i].digest \in Range(snapshots)
  /\ AppliedIsWhole

\* Append adds its element and loses none.
LEMMA AppendedRange ==
  ASSUME NEW s, s \in Seq(Range(s)), NEW e
  PROVE  /\ Append(s, e) \in Seq(Range(Append(s, e)))
         /\ Range(Append(s, e)) = Range(s) \cup {e}
  <1>1. /\ DOMAIN s = 1..Len(s) /\ Len(s) \in Nat
        /\ DOMAIN Append(s, e) = 1..(Len(s) + 1)
        /\ Append(s, e)[Len(s) + 1] = e
        /\ \A i \in 1..Len(s) : Append(s, e)[i] = s[i]
    OBVIOUS
  <1>2. Range(Append(s, e)) = Range(s) \cup {e}
    BY <1>1 DEF Range
  <1>3. Append(s, e) \in Seq(Range(s) \cup {e})
    <2>1. e \in Range(s) \cup {e} /\ s \in Seq(Range(s) \cup {e})
      OBVIOUS
    <2> QED  BY <2>1
  <1> QED  BY <1>2, <1>3

\* Nothing is evaluated, read or applied.
LEMMA InitGateInv == GateInit => GateInv
  BY DEF GateInit, GateInv, AppliedIsWhole, Range

\* Every step keeps the invariant.
LEMMA NextGateInv == GateInv /\ [GateNext]_gateVars => GateInv'
  <1> SUFFICES ASSUME GateInv, [GateNext]_gateVars PROVE GateInv'
    OBVIOUS
  <1>1. CASE FactChanges \/ UNCHANGED gateVars
    BY <1>1 DEF FactChanges, gateVars, GateInv, AppliedIsWhole
  <1>2. CASE Evaluate
    <2>1. PICK e : snapshots' = Append(snapshots, e)
      BY <1>2 DEF Evaluate
    <2>2. pages' = pages /\ applied' = applied
      BY <1>2 DEF Evaluate
    <2>3. snapshots' \in Seq(Range(snapshots')) /\ Range(snapshots) \subseteq Range(snapshots')
      BY <2>1, AppendedRange DEF GateInv
    <2> QED  BY <2>2, <2>3 DEF GateInv, AppliedIsWhole
  <1>3. CASE ReadPage
    <2>1. PICK g, h \in DOMAIN snapshots : \E index :
            pages' = Append(pages, Page(snapshots[g], index, snapshots[h]))
      BY <1>3 DEF ReadPage
    <2>2. PICK index : pages' = Append(pages, Page(snapshots[g], index, snapshots[h]))
      BY <2>1
    <2> DEFINE p == Page(snapshots[g], index, snapshots[h])
    <2>3. p.digest = snapshots[g]
      BY DEF Page, Digest
    <2>4. p.digest \in Range(snapshots)
      BY <2>3 DEF Range
    <2> HIDE DEF p
    <2>5. pages' = Append(pages, p) /\ snapshots' = snapshots /\ applied' = applied
      BY <1>3, <2>2 DEF ReadPage, p
    <2>6. pages' \in Seq(Range(pages'))
      BY <2>5, AppendedRange DEF GateInv
    <2>7. \A i \in DOMAIN pages' : pages'[i] = p \/ (i \in DOMAIN pages /\ pages'[i] = pages[i])
      BY <2>5 DEF GateInv
    <2> QED  BY <2>4, <2>5, <2>6, <2>7 DEF GateInv, AppliedIsWhole
  <1>4. CASE Reconcile
    <2>1. snapshots' = snapshots /\ pages # <<>> /\ pages' = <<>>
      BY <1>4 DEF Reconcile
    <2>2. applied' = applied \/ (Assembles(pages, Joined(pages)) /\ applied' = Joined(pages))
      BY <1>4 DEF Reconcile
    <2>3. ASSUME Assembles(pages, Joined(pages)) PROVE Joined(pages) \in Range(snapshots)
      <3>1. Joined(pages) = pages[1].digest
        BY <2>3 DEF Assembles, Digest
      <3>2. 1 \in DOMAIN pages
        BY <2>1 DEF GateInv
      <3> QED  BY <3>1, <3>2 DEF GateInv
    <2>4. AppliedIsWhole'
      BY <2>1, <2>2, <2>3 DEF GateInv, AppliedIsWhole
    <2>5. pages' \in Seq(Range(pages')) /\ DOMAIN pages' = {}
      BY <2>1
    <2> QED  BY <2>1, <2>4, <2>5 DEF GateInv
  <1> QED  BY <1>1, <1>2, <1>3, <1>4 DEF GateNext

\* What the Gateway runs is one whole snapshot of the Registry, for any number of
\* servers, tenants and snapshots, any page size, and pages that come in any order,
\* from any generation, more than once or with another generation's content.
THEOREM GatewayRunsWholeSnapshots == GateSpec => []AppliedIsWhole
  <1>1. GateInv => AppliedIsWhole
    BY DEF GateInv
  <1> QED  BY <1>1, InitGateInv, NextGateInv, PTL DEF GateSpec

-----------------------------------------------------------------------------
(* Evaluations. *)

\* A snapshot lists the routes it is made of.
LEMMA SnapshotRoutes ==
  ASSUME NEW routes \in SUBSET Candidates, NEW generation
  PROVE  Range(Snapshot(generation, routes).routes) = routes
  <1>1. IsFiniteSet(routes) /\ Linear(routes, ByNumber(routes))
    BY FS_Subset, GatewayAssumptions, OrdersLinear
  <1>2. Snapshot(generation, routes).routes = InOrder(routes, ByNumber(routes))
    BY DEF Snapshot, Sorted
  <1> DEFINE s == InOrder(routes, ByNumber(routes))
  <1>3. /\ s \in [1..Cardinality(routes) -> routes]
        /\ \A c \in routes : \E i \in 1..Cardinality(routes) : s[i] = c
    BY <1>1, InOrderSorts
  <1> HIDE DEF s
  <1>4. Range(s) = routes
    BY <1>3 DEF Range
  <1> QED  BY <1>2, <1>4 DEF s

\* AdmissionIsFair for any servers, tenants, dates and limits: an evaluation takes no
\* route for a quota, adds within the limits, and keeps a server waiting only for a
\* full quota and never for the sake of a newer server of its own tenant, nor of
\* another tenant while its own has room.
THEOREM AdmissionsAreFair == GateSpec => AdmissionIsFair
  <1>1. GateInv /\ [GateNext]_gateVars => [FairAdmission]_gateVars
    <2> SUFFICES ASSUME GateInv, GateNext PROVE FairAdmission
      BY DEF gateVars
    <2>1. CASE FactChanges \/ ReadPage \/ Reconcile
      BY <2>1 DEF FactChanges, ReadPage, Reconcile, FairAdmission
    <2>2. CASE Evaluate
      <3>1. PICK policy \in Policies :
              /\ limits' = policy
              /\ snapshots' = Append(snapshots, Snapshot(Len(snapshots) + 1, Admitted(policy)))
        BY <2>2 DEF Evaluate
      <3> DEFINE new == Admitted(policy)
                 made == Snapshot(Len(snapshots) + 1, new)
      <3>2. Fair(policy, new) /\ new \in SUBSET Candidates
        BY AdmittedFairly DEF Fair, Eligible
      <3>3. Range(made.routes) = new
        BY <3>2, SnapshotRoutes
      <3>4. Last(snapshots') = made
        <4> HIDE DEF made
        <4>1. snapshots' = Append(snapshots, made) /\ snapshots \in Seq(Range(snapshots))
          BY <3>1 DEF GateInv, made
        <4> QED  BY <4>1 DEF Last
      <3>5. Range(Last(snapshots').routes) = new /\ Kept = Routed \cap Eligible
        BY <3>3, <3>4 DEF Kept
      <3> HIDE DEF new
      <3> QED  BY <3>1, <3>2, <3>5 DEF Fair, FairAdmission
    <2> QED  BY <2>1, <2>2 DEF GateNext
  <1> QED  BY <1>1, InitGateInv, NextGateInv, PTL DEF GateSpec, AdmissionIsFair
=============================================================================
