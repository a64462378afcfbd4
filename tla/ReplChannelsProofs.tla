------------------------- MODULE ReplChannelsProofs --------------------------
(***************************************************************************)
(* Proofs about ReplChannels for any nodes, any links and any number of    *)
(* passes, redraws, faults and writes: replicaApplyOrder places every      *)
(* replica once, and nothing that reached a source over a kept channel is  *)
(* marked as executed without having been received.                        *)
(***************************************************************************)
EXTENDS ReplChannels, FiniteSetTheorems, WellFoundedInduction, TLAPS

-----------------------------------------------------------------------------
(* Least numbers and greedy sequences *)

\* A set of numbers that is not empty has a least one.
LEMMA LeastNat ==
    ASSUME NEW T \in SUBSET Nat, T # {}
    PROVE  \E i \in T : \A j \in T : i <= j
<1> DEFINE R == OpToRel(<, Nat)
<1>1. IsWellFoundedOn(R, Nat)
  BY NatLessThanWellFounded
<1>2. \A i, j \in Nat : i < j => <<i, j>> \in R
  BY DEF OpToRel
<1> HIDE DEF R
<1>3. PICK i \in T : \A j \in T : ~(<<j, i>> \in R)
  BY <1>1, WFMin
<1>4. ASSUME NEW j \in T PROVE i <= j
  <2>1. i \in Nat /\ j \in Nat
    OBVIOUS
  <2>2. ~(j < i)
    BY <2>1, <1>2, <1>3
  <2> QED
    BY <2>1, <2>2
<1> QED
  BY <1>4

\* Fewer than i nodes come before the i-th.
LEMMA BeforeIsSmall ==
    ASSUME NEW S, IsFiniteSet(S), NEW k \in Nat, NEW s \in [1..k -> S],
           NEW i \in 1..(k + 1), i <= Cardinality(S)
    PROVE  Before(s, i) \in SUBSET S /\ Before(s, i) # S
<1> DEFINE B == Before(s, i)
           g == [j \in 1..(i - 1) |-> s[j]]
<1>1. B \in SUBSET S
  BY DEF Before
<1>2. g \in Surjection(1..(i - 1), B)
  BY DEF Before, Surjection
<1>3. IsFiniteSet(1..(i - 1)) /\ Cardinality(1..(i - 1)) = i - 1
  BY FS_Interval
<1>4. Cardinality(B) <= i - 1
  <2> HIDE DEF B, g
  <2> QED
    BY <1>2, <1>3, FS_Surjection
<1>5. Cardinality(S) \in Nat
  BY FS_CardinalityType
<1> QED
  BY <1>1, <1>4, <1>5

\* Picking one more again and again from a finite set until all are placed works out.
LEMMA GreedyExists ==
    ASSUME NEW S, IsFiniteSet(S), NEW pick,
           \A P \in SUBSET S : P # S => pick[P] \in S \ P
    PROVE  \E s \in [1..Cardinality(S) -> S] :
              \A i \in 1..Cardinality(S) : s[i] = pick[Before(s, i)]
<1> DEFINE N == Cardinality(S)
           Works(k) == \E s \in [1..k -> S] : \A i \in 1..k : s[i] = pick[Before(s, i)]
           T == {k \in 0..N : ~Works(k)}
<1>1. N \in Nat
  BY FS_CardinalityType
<1>2. Works(0)
  <2>1. [i \in 1..0 |-> i] \in [1..0 -> S]
    OBVIOUS
  <2>2. \A i \in 1..0 : FALSE
    OBVIOUS
  <2>3. \A s : \A i \in 1..0 : s[i] = pick[Before(s, i)]
    BY <2>2
  <2> QED
    BY <2>1, <2>3
<1>3. ASSUME NEW k \in Nat, k < N, Works(k) PROVE Works(k + 1)
  <2>1. PICK s \in [1..k -> S] : \A i \in 1..k : s[i] = pick[Before(s, i)]
    BY <1>3
  <2> DEFINE x == pick[Before(s, k + 1)]
             t == [i \in 1..(k + 1) |-> IF i = k + 1 THEN x ELSE s[i]]
  <2>2. x \in S
    BY <1>1, <1>3, BeforeIsSmall
  <2>3. t \in [1..(k + 1) -> S]
    BY <2>2
  <2>4. ASSUME NEW i \in 1..(k + 1) PROVE Before(t, i) = Before(s, i)
    <3>1. \A j \in 1..(i - 1) : t[j] = s[j]
      OBVIOUS
    <3> HIDE DEF t
    <3> QED
      BY <3>1 DEF Before
  <2>5. \A i \in 1..(k + 1) : t[i] = pick[Before(t, i)]
    <3>1. ASSUME NEW i \in 1..k PROVE t[i] = pick[Before(t, i)]
      <4>1. i \in 1..(k + 1) /\ i # k + 1
        OBVIOUS
      <4> QED
        BY <2>1, <2>4, <4>1
    <3>2. t[k + 1] = pick[Before(t, k + 1)]
      BY <2>4
    <3> QED
      BY <3>1, <3>2
  <2> HIDE DEF t
  <2> QED
    BY <2>3, <2>5
<1>4. T = {}
  <2>1. SUFFICES ASSUME T # {} PROVE FALSE
    OBVIOUS
  <2>2. T \in SUBSET Nat
    BY <1>1
  <2>3. PICK k \in T : \A j \in T : k <= j
    BY <2>1, <2>2, LeastNat
  <2>4. k # 0 /\ k \in 0..N
    BY <1>2, <2>3
  <2>5. k - 1 \in 0..N /\ k - 1 \in Nat /\ k - 1 < N /\ k - 1 < k
    BY <1>1, <2>4
  <2>6. Works(k - 1)
    BY <2>2, <2>3, <2>5
  <2>7. Works((k - 1) + 1)
    BY <1>3, <2>5, <2>6
  <2> QED
    BY <2>3, <2>4, <2>7
<1>5. N \in 0..N
  BY <1>1
<1> QED
  BY <1>4, <1>5

\* ... and places every element exactly once.
LEMMA GreedyIsBijection ==
    ASSUME NEW S, IsFiniteSet(S), NEW s \in [1..Cardinality(S) -> S],
           \A i \in 1..Cardinality(S) : s[i] \notin Before(s, i)
    PROVE  s \in Bijection(1..Cardinality(S), S)
<1> DEFINE N == Cardinality(S)
<1>1. N \in Nat
  BY FS_CardinalityType
<1>2. ASSUME NEW i \in 1..N, NEW j \in 1..N, i < j PROVE s[i] # s[j]
  <2>1. i \in 1..(j - 1)
    BY <1>1, <1>2
  <2>2. s[i] \in Before(s, j)
    BY <2>1 DEF Before
  <2> QED
    BY <2>2
<1>3. s \in Injection(1..N, S)
  <2>1. \A i, j \in 1..N : s[i] = s[j] => i = j
    BY <1>1, <1>2
  <2> QED
    BY <2>1 DEF Injection, IsInjective
<1>4. IsFiniteSet(1..N) /\ Cardinality(1..N) = N
  BY <1>1, FS_Interval
<1>5. s \in Surjection(1..N, S)
  BY <1>3, <1>4, FS_Injection
<1> QED
  BY <1>3, <1>5 DEF Bijection

-----------------------------------------------------------------------------
(* replicaApplyOrder *)

\* Replicas are nodes, and there are finitely many of them.
LEMMA ReplicasFinite ==
    ASSUME NEW L
    PROVE  /\ Replicas(L) \in SUBSET Nodes /\ IsFiniteSet(Replicas(L))
           /\ Nodes \ Replicas(L) \in SUBSET Nodes /\ IsFiniteSet(Nodes \ Replicas(L))
<1>1. Replicas(L) \in SUBSET Nodes /\ Nodes \ Replicas(L) \in SUBSET Nodes
  BY DEF Replicas
<1> QED
  BY <1>1, FS_Subset, ReplAssumption

\* As long as a replica is left there is a candidate, and it is one of those left.
LEMMA CandidateIsLeft ==
    ASSUME NEW L, NEW P \in SUBSET Replicas(L), P # Replicas(L)
    PROVE  /\ Candidate(L, P) \in Replicas(L) \ P
           /\ \A n \in Replicas(L) \ P : Indegree(L, P, Candidate(L, P)) <= Indegree(L, P, n)
<1> DEFINE U == Replicas(L) \ P
           D(n) == Indegree(L, P, n)
           V == {D(n) : n \in U}
<1>1. U # {} /\ U \in SUBSET Nat
  BY ReplicasFinite, ReplAssumption
<1>2. ASSUME NEW n \in U PROVE D(n) \in Nat
  <2> DEFINE W == (Sources(L, n) \cap Replicas(L)) \ P
  <2>1. W \in SUBSET Nodes
    BY ReplicasFinite
  <2>2. IsFiniteSet(W)
    BY <2>1, FS_Subset, ReplAssumption
  <2>3. Cardinality(W) \in Nat
    BY <2>2, FS_CardinalityType
  <2> QED
    BY <2>3 DEF Indegree
<1> HIDE DEF D
<1>3. V # {} /\ V \in SUBSET Nat
  BY <1>1, <1>2
<1>4. PICK v \in V : \A w \in V : v <= w
  BY <1>3, LeastNat
<1> DEFINE W == {n \in U : D(n) = v}
<1>5. W # {} /\ W \in SUBSET Nat
  BY <1>1, <1>4
<1>6. PICK c \in W : \A n \in W : c <= n
  BY <1>5, LeastNat
<1>7. ASSUME NEW n \in U PROVE D(c) < D(n) \/ (D(c) = D(n) /\ c <= n)
  <2>1. D(c) = v /\ D(n) \in V /\ v \in Nat /\ D(n) \in Nat
    BY <1>2, <1>3, <1>4, <1>6
  <2>2. v <= D(n)
    BY <1>4, <2>1
  <2>3. CASE D(n) = v
    BY <1>6, <2>1, <2>3
  <2>4. CASE D(n) # v
    BY <2>1, <2>2, <2>4
  <2> QED
    BY <2>3, <2>4
<1>8. \E b \in Replicas(L) \ P : \A n \in Replicas(L) \ P :
         \/ Indegree(L, P, b) < Indegree(L, P, n)
         \/ Indegree(L, P, b) = Indegree(L, P, n) /\ b <= n
  BY <1>6, <1>7 DEF D
<1>9. /\ Candidate(L, P) \in Replicas(L) \ P
      /\ \A n \in Replicas(L) \ P :
            \/ Indegree(L, P, Candidate(L, P)) < Indegree(L, P, n)
            \/ Indegree(L, P, Candidate(L, P)) = Indegree(L, P, n) /\ Candidate(L, P) <= n
  BY <1>8 DEF Candidate
<1> QED
  BY <1>2, <1>9 DEF D

\* A set of nodes that is not empty has a smallest one.
LEMMA SmallestIsIn ==
    ASSUME NEW S \in SUBSET Nodes, S # {}
    PROVE  Smallest(S) \in S
<1>1. \E c \in S : \A n \in S : c <= n
  BY LeastNat, ReplAssumption
<1> QED
  BY <1>1 DEF Smallest

\* replicaApplyOrder places every replica exactly once, each time one that depends on as few
\* unplaced replicas as any.
THEOREM ApplyOrderPlacesAll ==
    ASSUME NEW L
    PROVE  LET s == replicaApplyOrder(L)
               N == Cardinality(Replicas(L))
           IN  /\ s \in Bijection(1..N, Replicas(L))
               /\ \A i \in 1..N : \A n \in Replicas(L) \ Before(s, i) :
                     Indegree(L, Before(s, i), s[i]) <= Indegree(L, Before(s, i), n)
<1> DEFINE R == Replicas(L)
           N == Cardinality(R)
           pick == [P \in SUBSET R |-> Candidate(L, P)]
           Greedy(s) == \A i \in DOMAIN s : s[i] = Candidate(L, Before(s, i))
<1>1. IsFiniteSet(R) /\ N \in Nat
  BY ReplicasFinite, FS_CardinalityType
<1>2. \A P \in SUBSET R : P # R => pick[P] \in R \ P /\ pick[P] = Candidate(L, P)
  BY CandidateIsLeft
<1> HIDE DEF R, pick
<1>3. PICK s \in [1..N -> R] : \A i \in 1..N : s[i] = pick[Before(s, i)]
  <2>1. \A P \in SUBSET R : P # R => pick[P] \in R \ P
    BY <1>2
  <2> QED
    BY <1>1, <2>1, GreedyExists
<1>4. ASSUME NEW r \in [1..N -> R], NEW i \in 1..N
      PROVE  Before(r, i) \in SUBSET R /\ Before(r, i) # R
  BY <1>1, BeforeIsSmall
<1>5. Greedy(s)
  BY <1>2, <1>3, <1>4
<1> DEFINE t == replicaApplyOrder(L)
<1>6. t \in [1..N -> R] /\ Greedy(t)
  <2>1. t = CHOOSE r \in [1..N -> R] : Greedy(r)
    BY DEF replicaApplyOrder, R
  <2> HIDE DEF t, Greedy
  <2> QED
    BY <1>3, <1>5, <2>1
<1> HIDE DEF t
<1>7. ASSUME NEW i \in 1..N
      PROVE  /\ t[i] \notin Before(t, i)
             /\ \A n \in R \ Before(t, i) :
                   Indegree(L, Before(t, i), t[i]) <= Indegree(L, Before(t, i), n)
  <2>1. Before(t, i) \in SUBSET R /\ Before(t, i) # R /\ t[i] = Candidate(L, Before(t, i))
    BY <1>4, <1>6
  <2> QED
    BY <2>1, CandidateIsLeft DEF R
<1>8. t \in Bijection(1..N, R)
  BY <1>1, <1>6, <1>7, GreedyIsBijection
<1> QED
  BY <1>7, <1>8 DEF t, R

\* The other members are all visited too, once each.
LEMMA RestPlacesAll ==
    ASSUME NEW L
    PROVE  Rest(L) \in Bijection(1..Cardinality(Nodes \ Replicas(L)), Nodes \ Replicas(L))
<1> DEFINE R == Nodes \ Replicas(L)
           N == Cardinality(R)
           pick == [P \in SUBSET R |-> Smallest(R \ P)]
           Greedy(s) == \A i \in DOMAIN s : s[i] = Smallest(R \ Before(s, i))
<1>1. IsFiniteSet(R) /\ N \in Nat
  BY ReplicasFinite, FS_CardinalityType
<1>2. \A P \in SUBSET R : P # R => pick[P] \in R \ P /\ pick[P] = Smallest(R \ P)
  BY SmallestIsIn
<1> HIDE DEF R, pick
<1>3. PICK s \in [1..N -> R] : \A i \in 1..N : s[i] = pick[Before(s, i)]
  <2>1. \A P \in SUBSET R : P # R => pick[P] \in R \ P
    BY <1>2
  <2> QED
    BY <1>1, <2>1, GreedyExists
<1>4. ASSUME NEW r \in [1..N -> R], NEW i \in 1..N
      PROVE  Before(r, i) \in SUBSET R /\ Before(r, i) # R
  BY <1>1, BeforeIsSmall
<1>5. Greedy(s)
  BY <1>2, <1>3, <1>4
<1> DEFINE t == Rest(L)
<1>6. t \in [1..N -> R] /\ Greedy(t)
  <2>1. t = CHOOSE r \in [1..N -> R] : Greedy(r)
    BY DEF Rest, R
  <2> HIDE DEF t, Greedy
  <2> QED
    BY <1>3, <1>5, <2>1
<1> HIDE DEF t
<1>7. ASSUME NEW i \in 1..N PROVE t[i] \notin Before(t, i)
  BY <1>2, <1>4, <1>6
<1>8. t \in Bijection(1..N, R)
  BY <1>1, <1>6, <1>7, GreedyIsBijection
<1> QED
  BY <1>8 DEF t, R

\* The order visits members only.
LEMMA OrderType == \A L : replicaApplyOrder(L) \o Rest(L) \in Seq(Nodes)
<1> TAKE L
<1> DEFINE M == Cardinality(Replicas(L))
           N == Cardinality(Nodes \ Replicas(L))
<1>1. M \in Nat /\ N \in Nat
  BY ReplicasFinite, FS_CardinalityType
<1>2. replicaApplyOrder(L) \in [1..M -> Replicas(L)] /\ Rest(L) \in [1..N -> Nodes \ Replicas(L)]
  BY ApplyOrderPlacesAll, RestPlacesAll DEF Bijection, Injection
<1>3. replicaApplyOrder(L) \in [1..M -> Nodes] /\ Rest(L) \in [1..N -> Nodes]
  BY <1>2, ReplicasFinite
<1>4. \A k \in Nat : \A s \in [1..k -> Nodes] : s \in Seq(Nodes)
  OBVIOUS
<1> HIDE DEF M, N
<1>5. replicaApplyOrder(L) \in Seq(Nodes) /\ Rest(L) \in Seq(Nodes)
  BY <1>1, <1>3, <1>4
<1> QED
  BY <1>5

\* On acyclic links the candidate depends on no unplaced replica.
LEMMA CandidateIsFree ==
    ASSUME NEW L \in SUBSET Links, Acyclic(L), NEW i \in 1..Cardinality(Replicas(L))
    PROVE  Sources(L, replicaApplyOrder(L)[i]) \cap Replicas(L) \subseteq Before(replicaApplyOrder(L), i)
<1> DEFINE R == Replicas(L)
           N == Cardinality(R)
           s == replicaApplyOrder(L)
           P == Before(s, i)
           D(n) == Indegree(L, P, n)
<1>1. IsFiniteSet(R) /\ R \in SUBSET Nodes /\ N \in Nat
  BY ReplicasFinite, FS_CardinalityType
<1>2. s \in [1..N -> R] /\ \A n \in R \ P : D(s[i]) <= D(n)
  BY ApplyOrderPlacesAll DEF Bijection, Injection
<1>3. P \in SUBSET R /\ P # R
  <2>1. i \in 1..(N + 1) /\ i <= Cardinality(R)
    BY <1>1
  <2>2. N \in Nat /\ s \in [1..N -> R]
    BY <1>1, <1>2
  <2> HIDE DEF s, R, N
  <2> QED
    BY <1>1, <2>1, <2>2, BeforeIsSmall
<1>4. PICK layer \in [Nodes -> 1..Cardinality(Nodes)] : \A l \in L : layer[l[1]] < layer[l[2]]
  BY DEF Acyclic
<1> DEFINE V == {layer[n] : n \in R \ P}
<1>5. V \in SUBSET Nat /\ V # {}
  <2>1. \A n \in Nodes : layer[n] \in Nat
    OBVIOUS
  <2>2. R \ P \subseteq Nodes /\ R \ P # {}
    BY <1>1, <1>3
  <2> QED
    BY <2>1, <2>2
<1>6. PICK v \in V : \A w \in V : v <= w
  BY <1>5, LeastNat
<1>7. PICK n \in R \ P : layer[n] = v
  BY <1>6
<1>8. (Sources(L, n) \cap R) \ P = {}
  <2> SUFFICES ASSUME NEW m \in (Sources(L, n) \cap R) \ P PROVE FALSE
    OBVIOUS
  <2>1. layer[m] < layer[n]
    BY <1>4 DEF Sources
  <2>2. layer[m] \in V /\ layer[m] \in Nat /\ v \in Nat
    BY <1>5
  <2> QED
    BY <1>6, <1>7, <2>1, <2>2
<1>9. D(n) = 0
  BY <1>8, FS_EmptySet DEF Indegree
<1> DEFINE W == (Sources(L, s[i]) \cap R) \ P
<1>10. IsFiniteSet(W) /\ Cardinality(W) \in Nat
  <2>1. W \in SUBSET Nodes
    BY <1>1
  <2>2. IsFiniteSet(W)
    BY <2>1, FS_Subset, ReplAssumption
  <2> QED
    BY <2>2, FS_CardinalityType
<1>11. Cardinality(W) = 0
  <2>1. D(s[i]) <= 0
    BY <1>2, <1>9
  <2>2. D(s[i]) = Cardinality(W)
    BY DEF Indegree
  <2> HIDE DEF W, D
  <2> QED
    BY <1>10, <2>1, <2>2
<1>12. W = {}
  <2> HIDE DEF W
  <2> QED
    BY <1>10, <1>11, FS_EmptySet
<1> QED
  BY <1>12

\* replicaApplyOrder: on acyclic links every member is visited once, and a replica that is itself a
\* source before the replicas it feeds.
THEOREM ApplyOrderIsTopological ==
    ASSUME NEW L \in SUBSET Links, Acyclic(L)
    PROVE  LET s == replicaApplyOrder(L) \o Rest(L)
           IN  Ordered(s, L) /\ \A n \in Replicas(L) : \E i \in 1..Len(s) : s[i] = n
<1> DEFINE R == Replicas(L)
           Q == Nodes \ R
           M == Cardinality(R)
           N == Cardinality(Q)
           a == replicaApplyOrder(L)
           b == Rest(L)
           s == a \o b
<1>1. M \in Nat /\ N \in Nat
  BY ReplicasFinite, FS_CardinalityType
<1>2. /\ a \in [1..M -> R] /\ b \in [1..N -> Q]
      /\ \A i, j \in 1..M : a[i] = a[j] => i = j
      /\ \A i, j \in 1..N : b[i] = b[j] => i = j
      /\ \A n \in R : \E i \in 1..M : a[i] = n
  <2>1. a \in Bijection(1..M, R)
    BY ApplyOrderPlacesAll
  <2>2. b \in Bijection(1..N, Q)
    BY RestPlacesAll
  <2> HIDE DEF a, b, M, N, R, Q
  <2> QED
    BY <2>1, <2>2 DEF Bijection, Injection, Surjection, IsInjective
<1>3. \A i \in 1..M : Sources(L, a[i]) \cap R \subseteq Before(a, i)
  BY CandidateIsFree
<1>4. R \in SUBSET Nodes
  BY ReplicasFinite
<1> HIDE DEF a, b, M, N
<1>5. /\ a \in Seq(Nodes) /\ Len(a) = M
      /\ b \in Seq(Nodes) /\ Len(b) = N
  <2>1. a \in [1..M -> Nodes] /\ b \in [1..N -> Nodes]
    BY <1>2, <1>4
  <2>2. \A k \in Nat : \A q \in [1..k -> Nodes] : q \in Seq(Nodes) /\ Len(q) = k
    OBVIOUS
  <2> QED
    BY <1>1, <2>1, <2>2
<1>6. /\ Len(s) = M + N
      /\ \A i \in 1..M : s[i] = a[i]
      /\ \A i \in (M + 1)..(M + N) : s[i] = b[i - M]
  BY <1>1, <1>5
<1>7. \A i \in (M + 1)..(M + N) : i - M \in 1..N /\ s[i] \notin R
  BY <1>1, <1>2, <1>6
<1>8. \A i \in 1..Len(s) : i \in 1..M \/ i \in (M + 1)..(M + N)
  BY <1>1, <1>6
<1> HIDE DEF s, R, Q
<1>9. \A i, j \in 1..Len(s) : s[i] = s[j] => i = j
  <2> SUFFICES ASSUME NEW i \in 1..Len(s), NEW j \in 1..Len(s), s[i] = s[j] PROVE i = j
    OBVIOUS
  <2>1. CASE i \in 1..M
    <3>1. j \in 1..M
      BY <1>2, <1>6, <1>7, <1>8, <2>1
    <3> QED
      BY <1>2, <1>6, <2>1, <3>1
  <2>2. CASE i \in (M + 1)..(M + N)
    <3>1. j \in (M + 1)..(M + N)
      BY <1>2, <1>6, <1>7, <1>8, <2>2
    <3>2. i - M = j - M
      BY <1>2, <1>6, <1>7, <2>2, <3>1
    <3> QED
      BY <1>1, <2>2, <3>1, <3>2
  <2> QED
    BY <1>8, <2>1, <2>2
<1>10. ASSUME NEW i \in 1..Len(s), NEW r \in Nodes, s[i] \in R, <<s[i], r>> \in L
       PROVE  \E j \in (i + 1)..Len(s) : s[j] = r
  <2>1. i \in 1..M /\ s[i] = a[i]
    BY <1>6, <1>7, <1>8, <1>10
  <2>2. s[i] \in Nodes
    BY <1>4, <1>10
  <2>3. s[i] \in Sources(L, r) /\ r \in R
    BY <1>10, <2>2 DEF Sources, Replicas, R
  <2>4. PICK j \in 1..M : a[j] = r
    BY <1>2, <2>3
  <2>5. a[i] \in Before(a, j)
    BY <1>3, <1>10, <2>1, <2>3, <2>4
  <2>6. PICK k \in 1..(j - 1) : a[k] = a[i]
    BY <2>5 DEF Before
  <2>7. k = i /\ k < j
    <3>1. k \in 1..M /\ k < j
      BY <1>1
    <3> QED
      BY <1>2, <2>1, <2>6, <3>1
  <2>8. j \in (i + 1)..Len(s) /\ s[j] = r
    BY <1>1, <1>6, <2>4, <2>7
  <2> QED
    BY <2>8
<1>11. \A n \in R : \E i \in 1..Len(s) : s[i] = n
  <2> SUFFICES ASSUME NEW n \in R PROVE \E i \in 1..Len(s) : s[i] = n
    OBVIOUS
  <2>1. PICK i \in 1..M : a[i] = n
    BY <1>2
  <2>2. i \in 1..Len(s) /\ s[i] = n
    BY <1>1, <1>6, <2>1
  <2> QED
    BY <2>2
<1>12. Ordered(s, L)
  BY <1>9, <1>10 DEF Ordered, R
<1> QED
  BY <1>11, <1>12 DEF s, a, b, R

-----------------------------------------------------------------------------
(* The invariant *)

\* SetPurged marks transactions as executed, and notes the other channels of the server.
LEMMA SetPurgedGives ==
    ASSUME TypeOK, PurgedInv, NEW n \in Nodes, NEW S \in SUBSET Txns, SetPurged(n, S)
    PROVE  /\ executed' \in [Nodes -> SUBSET Txns] /\ purged' \in [Nodes -> SUBSET Txns]
           /\ crossed' \in SUBSET Links
           /\ PurgedInv'
           /\ crossed \subseteq crossed'
           /\ \A r \in Nodes : r # n => purged'[r] = purged[r]
           /\ purged'[n] = purged[n] \cup S
           /\ \A l \in chan : S # {} /\ l[2] = n /\ l[1] # src => l \in crossed'
<1> USE DEF SetPurged
<1>1. executed' \in [Nodes -> SUBSET Txns] /\ purged' \in [Nodes -> SUBSET Txns]
  BY DEF TypeOK
<1>2. \A r \in Nodes :
         /\ purged'[r] = IF r = n THEN purged[r] \cup S ELSE purged[r]
         /\ executed'[r] = IF r = n THEN executed[r] \cup S ELSE executed[r]
  BY DEF TypeOK
<1>3. crossed' \in SUBSET Links /\ crossed \subseteq crossed'
  BY DEF TypeOK
<1>4. PurgedInv'
  BY <1>2 DEF PurgedInv
<1>5. \A l \in chan : S # {} /\ l[2] = n /\ l[1] # src => l \in crossed'
  OBVIOUS
<1> QED
  BY <1>1, <1>2, <1>3, <1>4, <1>5

\* Seeding over a new channel passes over nothing that is owed, but what it crosses.
LEMMA SeedingSkipsNothing ==
    ASSUME IndInv, NEW n \in Nodes, NEW S \in SUBSET Seed(n), SetPurged(n, S),
           pos \in SUBSET Txns, UNCHANGED <<links, owed, lost>>, chan \subseteq chan'
    PROVE  OwedInv' /\ NothingSkippedOnKeptChannels' /\ PurgedInv'
<1>1. S \in SUBSET Txns
  BY DEF Seed
<1>2. /\ PurgedInv' /\ crossed \subseteq crossed'
      /\ \A r \in Nodes : r # n => purged'[r] = purged[r]
      /\ purged'[n] = purged[n] \cup S
      /\ \A l \in chan : S # {} /\ l[2] = n /\ l[1] # src => l \in crossed'
  BY <1>1, SetPurgedGives DEF IndInv
<1>3. OwedInv'
  BY DEF IndInv, OwedInv
<1>4. ASSUME NEW o \in owed, <<o[1], o[2]>> \notin Excepted'
      PROVE  o[3] \notin purged'[o[2]]
  <2> DEFINE l == <<o[1], o[2]>>
  <2>1. o[1] \in Nodes /\ o[2] \in Nodes /\ l[1] = o[1] /\ l[2] = o[2]
    BY DEF IndInv, TypeOK
  <2>2. l \notin Excepted /\ l \notin lost /\ l \notin crossed'
    BY <1>2, <1>4 DEF Excepted
  <2>3. o[3] \notin purged[o[2]]
    BY <2>2 DEF IndInv, NothingSkippedOnKeptChannels
  <2>4. l \in chan
    BY <2>2 DEF IndInv, OwedInv
  <2> HIDE DEF l
  <2>5. CASE o[2] # n
    BY <1>2, <2>1, <2>3, <2>5
  <2>6. CASE o[2] = n
    <3>1. CASE S = {}
      BY <1>2, <2>3, <2>6, <3>1
    <3>2. CASE S # {}
      <4>1. l[1] = src
        BY <1>2, <2>1, <2>2, <2>4, <2>6, <3>2
      <4>2. <<src, n>> = l
        BY <2>1, <2>6, <4>1 DEF l
      <4>3. Seed(n) = {}
        BY <2>4, <4>2 DEF Seed
      <4> QED
        BY <3>2, <4>3
    <3> QED
      BY <3>1, <3>2
  <2> QED
    BY <2>5, <2>6
<1> QED
  BY <1>2, <1>3, <1>4 DEF NothingSkippedOnKeptChannels

\* A transaction that is logged is owed over the channels of the server, to replicas that have not
\* got it.
LEMMA LoggingSkipsNothing ==
    ASSUME IndInv, NEW n \in Nodes, NEW t \in Txns, Logged(n, t),
           UNCHANGED <<net, purged, chan, lost, crossed>>
    PROVE  /\ executed' \in [Nodes -> SUBSET Txns] /\ owed' \in SUBSET (Nodes \X Nodes \X Txns)
           /\ OwedInv' /\ NothingSkippedOnKeptChannels' /\ PurgedInv'
<1> DEFINE K == {k \in chan \cap links : k[1] = n /\ t \notin executed[k[2]]}
<1>1. executed' \in [Nodes -> SUBSET Txns] /\ PurgedInv'
  BY DEF Logged, IndInv, TypeOK, PurgedInv
<1>2. /\ owed' = owed \cup {<<n, k[2], t>> : k \in K}
      /\ links' = links
  BY DEF Logged, net
<1>3. ASSUME NEW o \in owed', o \notin owed
      PROVE  /\ o \in Nodes \X Nodes \X Txns
             /\ <<o[1], o[2]>> \in links /\ <<o[1], o[2]>> \in chan
             /\ o[3] \notin purged[o[2]]
  <2>1. PICK k \in K : o = <<n, k[2], t>>
    BY <1>2, <1>3
  <2>2. k \in Nodes \X Nodes /\ k = <<n, k[2]>> /\ k[2] \in Nodes
    BY <2>1 DEF IndInv, TypeOK, Links
  <2>3. o[1] = n /\ o[2] = k[2] /\ o[3] = t
    BY <2>1
  <2>4. t \notin purged[k[2]]
    BY <2>2 DEF IndInv, PurgedInv
  <2> QED
    BY <2>1, <2>2, <2>3, <2>4
<1>4. owed' \in SUBSET (Nodes \X Nodes \X Txns)
  BY <1>3 DEF IndInv, TypeOK
<1>5. OwedInv'
  BY <1>2, <1>3 DEF OwedInv, IndInv
<1>6. NothingSkippedOnKeptChannels'
  BY <1>3 DEF NothingSkippedOnKeptChannels, Excepted, IndInv
<1> QED
  BY <1>1, <1>4, <1>5, <1>6

\* Init establishes the invariant.
LEMMA InitInv == Init => IndInv
<1> SUFFICES ASSUME Init PROVE IndInv
  OBVIOUS
<1>1. (CHOOSE n \in Nodes : TRUE) \in Nodes
  BY ReplAssumption
<1>2. TypeOK
  BY <1>1, ReplAssumption DEF Init, TypeOK, Links, Txns
<1> QED
  BY <1>2 DEF Init, IndInv, JobInv, PurgedInv, OwedInv, NothingSkippedOnKeptChannels

\* A fault is counted.
LEMMA FaultType == TypeOK /\ (Fault \/ UNCHANGED faults) => faults' \in 0..MaxFaults
  BY ReplAssumption DEF TypeOK, Fault

\* Every step keeps the invariant.
LEMMA IndStep == IndInv /\ [Next]_vars => IndInv'
<1> SUFFICES ASSUME IndInv, [Next]_vars PROVE IndInv'
  OBVIOUS
<1> USE DEF net, gtid, job, cnt, hist
<1>t. TypeOK
  BY DEF IndInv
\* What a step that leaves the servers, the links and the histories alone still has to keep.
<1>s. ASSUME UNCHANGED <<links, gtid, chan, hist>>, TypeOK', JobInv' PROVE IndInv'
  BY <1>s DEF IndInv, PurgedInv, OwedInv, NothingSkippedOnKeptChannels, Excepted
\* Where the job stays at its member.
<1>j. ASSUME order' = order, rpc' \in {"link", "apply"} => rpc \in {"link", "apply"} PROVE JobInv'
  BY <1>j DEF IndInv, JobInv
<1>1. CASE Reconcile
  <2>1. order' \in Seq(Nodes)
    BY <1>1, OrderType DEF Reconcile
  <2>2. TypeOK'
    BY <1>1, <1>t, <2>1, ReplAssumption DEF Reconcile, TypeOK
  <2> QED
    BY <1>1, <1>s, <2>2 DEF Reconcile, JobInv
<1>2. CASE SkipMember
  <2>1. TypeOK'
    BY <1>2, <1>t DEF SkipMember, TypeOK
  <2> QED
    BY <1>2, <1>s, <2>1 DEF SkipMember, JobInv
<1>3. CASE VisitMember
  <2>1. TypeOK'
    BY <1>3, <1>t DEF VisitMember, TypeOK, Sources
  <2> QED
    BY <1>3, <1>s, <2>1 DEF VisitMember, JobInv
<1>4. ASSUME NEW s \in Nodes, ReadPosition(s) PROVE IndInv'
  <2>1. TypeOK'
    BY <1>4, <1>t, ReplAssumption DEF ReadPosition, TypeOK, Fault
  <2> QED
    BY <1>4, <1>s, <1>j, <2>1 DEF ReadPosition
<1>5. CASE ApplyChannel
  <2> DEFINE n == Head(order)
  <2>1. n \in Nodes /\ SetPurged(n, Seed(n)) /\ Seed(n) \in SUBSET Txns
    BY <1>5, <1>t DEF ApplyChannel, TypeOK, Seed
  <2>2. chan' = chan \cup {<<src, n>>} /\ UNCHANGED <<links, owed, lost>>
    BY <1>5 DEF ApplyChannel
  <2>3. OwedInv' /\ NothingSkippedOnKeptChannels' /\ PurgedInv'
    BY <1>t, <2>1, <2>2, SeedingSkipsNothing DEF TypeOK
  <2>4. /\ executed' \in [Nodes -> SUBSET Txns] /\ purged' \in [Nodes -> SUBSET Txns]
        /\ crossed' \in SUBSET Links
    BY <1>t, <2>1, SetPurgedGives DEF IndInv
  <2>5. keep' \in SUBSET Nodes /\ faults' \in 0..MaxFaults
    <3>1. \/ keep' = keep \cup {src} /\ UNCHANGED faults
          \/ UNCHANGED keep /\ (Fault \/ UNCHANGED faults)
      BY <1>5 DEF ApplyChannel
    <3> QED
      BY <1>t, <3>1, FaultType DEF TypeOK
  <2>6. TypeOK'
    BY <1>5, <1>t, <2>1, <2>2, <2>4, <2>5 DEF ApplyChannel, TypeOK, Links
  <2>7. JobInv'
    BY <1>5, <1>j DEF ApplyChannel
  <2> QED
    BY <2>3, <2>6, <2>7 DEF IndInv
<1>6. CASE ApplyFails
  <2>1. TypeOK'
    BY <1>6, <1>t DEF ApplyFails, TypeOK
  <2> QED
    BY <1>6, <1>s, <1>j, <2>1 DEF ApplyFails
<1>7. CASE ApplyBreaks
  <2> DEFINE n == Head(order)
  <2>1. PICK S \in {{}, Seed(n)} : SetPurged(n, S)
    BY <1>7 DEF ApplyBreaks
  <2>2. n \in Nodes /\ S \in SUBSET Seed(n) /\ S \in SUBSET Txns
    BY <1>7, <1>t, <2>1 DEF ApplyBreaks, TypeOK, Seed
  <2>3. UNCHANGED <<links, owed, lost, chan>>
    BY <1>7 DEF ApplyBreaks
  <2>4. OwedInv' /\ NothingSkippedOnKeptChannels' /\ PurgedInv'
    BY <1>t, <2>1, <2>2, <2>3, SeedingSkipsNothing DEF TypeOK
  <2>5. /\ executed' \in [Nodes -> SUBSET Txns] /\ purged' \in [Nodes -> SUBSET Txns]
        /\ crossed' \in SUBSET Links
    BY <1>t, <2>1, <2>2, SetPurgedGives DEF IndInv
  <2>6. TypeOK'
    BY <1>7, <1>t, <2>3, <2>5, ReplAssumption DEF ApplyBreaks, TypeOK, Fault
  <2>7. JobInv'
    BY <1>7, <1>j DEF ApplyBreaks
  <2> QED
    BY <2>4, <2>6, <2>7 DEF IndInv
<1>8. CASE Prune
  <2> DEFINE n == Head(order)
  <2>1. TypeOK' /\ JobInv'
    <3>1. order # <<>>
      BY <1>8 DEF IndInv, JobInv, Prune
    <3>2. order' \in Seq(Nodes)
      BY <1>8, <1>t, <3>1 DEF Prune, TypeOK
    <3>3. faults' \in 0..MaxFaults
      BY <1>8, <1>t, FaultType DEF Prune
    <3>4. chan' \in SUBSET Links /\ lost' \in SUBSET Links
      BY <1>8, <1>t DEF Prune, TypeOK
    <3> QED
      BY <1>8, <1>t, <3>2, <3>3, <3>4 DEF Prune, TypeOK, JobInv
  <2>2. /\ UNCHANGED <<links, gtid, owed, crossed>>
        /\ \/ chan' = chan \ Pruned(n) /\ lost' = lost \cup (Pruned(n) \cap links)
           \/ UNCHANGED <<chan, lost>>
    BY <1>8 DEF Prune
  <2>3. OwedInv'
    BY <2>2 DEF IndInv, OwedInv
  <2>4. PurgedInv' /\ NothingSkippedOnKeptChannels'
    BY <2>2 DEF IndInv, PurgedInv, NothingSkippedOnKeptChannels, Excepted
  <2> QED
    BY <2>1, <2>3, <2>4 DEF IndInv
<1>9. CASE PassDone
  <2>1. TypeOK'
    BY <1>9, <1>t DEF PassDone, TypeOK
  <2> QED
    BY <1>9, <1>s, <2>1 DEF PassDone, JobInv
<1>10. ASSUME NEW n \in Nodes, Write(n) PROVE IndInv'
  <2>1. PICK k \in 1..MaxWrites : Logged(n, <<n, k>>)
    BY <1>10 DEF Write
  <2>2. <<n, k>> \in Txns
    BY DEF Txns
  <2>3. UNCHANGED <<net, purged, chan, job, cnt, lost, crossed>>
    BY <1>10 DEF Write
  <2>4. /\ executed' \in [Nodes -> SUBSET Txns] /\ owed' \in SUBSET (Nodes \X Nodes \X Txns)
        /\ OwedInv' /\ NothingSkippedOnKeptChannels' /\ PurgedInv'
    BY <2>1, <2>2, <2>3, LoggingSkipsNothing
  <2> QED
    BY <1>t, <1>j, <2>3, <2>4 DEF IndInv, TypeOK
<1>11. ASSUME NEW s \in Nodes, NEW n \in Nodes, Fetch(s, n) PROVE IndInv'
  <2>1. PICK t \in executed[s] \ executed[n] : Logged(n, t)
    BY <1>11 DEF Fetch
  <2>2. t \in Txns
    BY <1>t DEF TypeOK
  <2>3. UNCHANGED <<net, purged, chan, job, cnt, lost, crossed>>
    BY <1>11 DEF Fetch
  <2>4. /\ executed' \in [Nodes -> SUBSET Txns] /\ owed' \in SUBSET (Nodes \X Nodes \X Txns)
        /\ OwedInv' /\ NothingSkippedOnKeptChannels' /\ PurgedInv'
    BY <2>1, <2>2, <2>3, LoggingSkipsNothing
  <2> QED
    BY <1>t, <1>j, <2>3, <2>4 DEF IndInv, TypeOK
<1>12. ASSUME NEW n \in Nodes, Stop(n) \/ StartNode(n) PROVE IndInv'
  <2>1. UNCHANGED <<links, gtid, chan, job, passes, redraws, hist>> /\ (Fault \/ UNCHANGED faults)
    BY <1>12 DEF Stop, StartNode
  <2>2. up' \in SUBSET Nodes
    BY <1>12, <1>t DEF Stop, StartNode, TypeOK
  <2>3. TypeOK'
    BY <1>t, <2>1, <2>2, FaultType DEF TypeOK
  <2> QED
    BY <1>s, <1>j, <2>1, <2>3
<1>13. ASSUME NEW L \in Topologies, Redraw(L) PROVE IndInv'
  <2>1. TypeOK'
    BY <1>13, <1>t, ReplAssumption DEF Redraw, TypeOK, Links
  <2>2. /\ UNCHANGED <<gtid, chan, lost, crossed>>
        /\ links' = L /\ owed' = {o \in owed : <<o[1], o[2]>> \in L}
    BY <1>13 DEF Redraw
  <2>3. PurgedInv' /\ OwedInv' /\ NothingSkippedOnKeptChannels'
    BY <2>2 DEF IndInv, PurgedInv, OwedInv, NothingSkippedOnKeptChannels, Excepted
  <2>4. JobInv'
    BY <1>13, <1>j DEF Redraw
  <2> QED
    BY <2>1, <2>3, <2>4 DEF IndInv
<1>14. CASE UNCHANGED vars
  BY <1>14, <1>t, <1>s, <1>j DEF vars, TypeOK
<1> QED
  BY <1>1, <1>2, <1>3, <1>4, <1>5, <1>6, <1>7, <1>8, <1>9, <1>10, <1>11, <1>12, <1>13, <1>14
     DEF Next, JobStep

-----------------------------------------------------------------------------
(* The theorems *)

\* The inductive invariant holds in every state.
THEOREM IndInvHolds == Spec => []IndInv
  BY InitInv, IndStep, PTL DEF Spec

\* Every variable of the servers, the job and the bookkeeping keeps its type; in particular the job
\* visits members only.
THEOREM TypeCorrect == Spec => []TypeOK
<1>1. IndInv => TypeOK
  BY DEF IndInv
<1> QED
  BY <1>1, IndInvHolds, PTL

\* replChannelApply: for any links, cyclic ones included, and any faults, what reached a source while
\* its channel was up is never marked as executed on the replica, unless the channel was removed
\* although it was drawn or a second source seeded the replica.
THEOREM NothingIsSkipped == Spec => []NothingSkippedOnKeptChannels
<1>1. IndInv => NothingSkippedOnKeptChannels
  BY DEF IndInv
<1> QED
  BY <1>1, IndInvHolds, PTL

-----------------------------------------------------------------------------
(* No fatal gap on acyclic links *)

\* The rest of the order after its head.
LEMMA TailFacts ==
    ASSUME NEW s \in Seq(Nodes), s # <<>>, NEW L
    PROVE  /\ Tail(s) \in Seq(Nodes)
           /\ {Tail(s)[i] : i \in 1..Len(Tail(s))} = {s[i] : i \in 2..Len(s)}
           /\ {s[i] : i \in 1..Len(s)} = {Head(s)} \cup {s[i] : i \in 2..Len(s)}
           /\ Ordered(s, L) => /\ Ordered(Tail(s), L)
                               /\ Head(s) \notin {s[i] : i \in 2..Len(s)}
<1>1. /\ Tail(s) \in Seq(Nodes) /\ Len(s) \in Nat /\ Len(s) >= 1 /\ Head(s) = s[1]
      /\ Len(Tail(s)) = Len(s) - 1
      /\ \A i \in 1..(Len(s) - 1) : Tail(s)[i] = s[i + 1]
  OBVIOUS
<1> DEFINE t == Tail(s)
           n == Len(s)
<1>2. /\ n \in Nat /\ n >= 1 /\ Len(t) = n - 1
      /\ \A i \in 1..(n - 1) : t[i] = s[i + 1]
  BY <1>1
<1> HIDE DEF t, n
<1>3. {t[i] : i \in 1..Len(t)} = {s[i] : i \in 2..n}
  <2>1. ASSUME NEW i \in 1..Len(t) PROVE t[i] \in {s[j] : j \in 2..n}
    <3>1. i + 1 \in 2..n /\ t[i] = s[i + 1]
      BY <1>2
    <3> QED
      BY <3>1
  <2>2. ASSUME NEW j \in 2..n PROVE s[j] \in {t[i] : i \in 1..Len(t)}
    <3>1. j - 1 \in 1..Len(t) /\ t[j - 1] = s[j]
      BY <1>2
    <3> QED
      BY <3>1
  <2> QED
    BY <2>1, <2>2
<1>4. {s[i] : i \in 1..n} = {s[1]} \cup {s[i] : i \in 2..n}
  <2>1. 1..n = {1} \cup 2..n
    BY <1>2
  <2> QED
    BY <2>1
<1>5. ASSUME Ordered(s, L) PROVE Ordered(t, L) /\ s[1] \notin {s[i] : i \in 2..n}
  <2>1. \A i, j \in 1..n : s[i] = s[j] => i = j
    BY <1>5 DEF Ordered, n
  <2>2. s[1] \notin {s[i] : i \in 2..n}
    BY <1>2, <2>1
  <2>3. ASSUME NEW i \in 1..Len(t), NEW j \in 1..Len(t), t[i] = t[j] PROVE i = j
    <3>1. i + 1 \in 1..n /\ j + 1 \in 1..n /\ s[i + 1] = s[j + 1]
      BY <1>2, <2>3
    <3>2. i + 1 = j + 1
      BY <2>1, <3>1
    <3> QED
      BY <1>2, <3>2
  <2>4. ASSUME NEW i \in 1..Len(t), NEW r \in Nodes, t[i] \in Replicas(L), <<t[i], r>> \in L
        PROVE  \E j \in (i + 1)..Len(t) : t[j] = r
    <3>1. i + 1 \in 1..n /\ t[i] = s[i + 1]
      BY <1>2
    <3>2. PICK j \in ((i + 1) + 1)..n : s[j] = r
      BY <1>5, <2>4, <3>1 DEF Ordered, n
    <3>3. j - 1 \in (i + 1)..Len(t) /\ t[j - 1] = r
      BY <1>2, <3>1, <3>2
    <3> QED
      BY <3>3
  <2> QED
    BY <2>2, <2>3, <2>4 DEF Ordered
<1> QED
  BY <1>1, <1>3, <1>4, <1>5 DEF t, n

\* Faults and redraws are only counted up.
LEMMA Calm ==
    ASSUME TypeOK, Undisturbed', Next
    PROVE  Undisturbed /\ ~Fault /\ \A L \in Topologies : ~Redraw(L)
<1>1. faults \in Nat /\ redraws \in Nat /\ faults' = 0 /\ redraws' = 0
  BY DEF TypeOK, Undisturbed
<1>2. ~Fault /\ \A L \in Topologies : ~Redraw(L)
  BY <1>1 DEF Fault, Redraw
<1>3. faults' = faults /\ redraws' = redraws
  BY <1>2 DEF Next, JobStep, Reconcile, SkipMember, VisitMember, ReadPosition, ApplyChannel,
     ApplyFails, ApplyBreaks, Prune, PassDone, Write, Fetch, Stop, StartNode, cnt
<1> QED
  BY <1>1, <1>2, <1>3 DEF Undisturbed

\* A channel that is applied leaves no gap behind it or before it.
LEMMA ApplyCovers ==
    ASSUME IndInv, StageInv, MadeInv, CoveredInv, ApplyChannel, ~Fault
    PROVE  CoveredInv' /\ keep' = keep \cup {src}
<1> DEFINE n == Head(order)
<1>1. /\ order \in Seq(Nodes) /\ order # <<>> /\ n \in Nodes /\ src \in Nodes
      /\ executed \in [Nodes -> SUBSET Txns] /\ purged \in [Nodes -> SUBSET Txns]
      /\ pos \in SUBSET Txns /\ passes \in Nat /\ chan \in SUBSET Links
  BY DEF IndInv, TypeOK, JobInv, ApplyChannel
<1>2. /\ rpc = "apply" /\ rpc' = "link" /\ AtMember /\ src \in up
      /\ SetPurged(n, Seed(n)) /\ chan' = chan \cup {<<src, n>>}
  BY <1>1 DEF ApplyChannel, AtMember, StageInv
<1>3. <<src, n>> \in links /\ src \in todo
  BY <1>2 DEF StageInv, Sources
<1>4. src # n /\ n \in Replicas(links)
  <2>1. PICK layer \in [Nodes -> 1..Cardinality(Nodes)] :
           \A l \in links : layer[l[1]] < layer[l[2]]
    BY DEF StageInv, Acyclic
  <2>2. layer[src] < layer[n] /\ layer[src] \in Nat /\ layer[n] \in Nat
    BY <1>1, <1>3, <2>1
  <2>3. src # n
    BY <2>2
  <2> QED
    BY <1>1, <1>3, <2>3 DEF Replicas, Sources
<1> DEFINE E == Seed(n)
<1>5. E \in SUBSET Txns /\ PurgedInv /\ TypeOK
  BY <1>1 DEF IndInv, Seed
<1>6. \A m \in Nodes : /\ purged'[m] = IF m = n THEN purged[m] \cup E ELSE purged[m]
                       /\ executed'[m] = IF m = n THEN executed[m] \cup E ELSE executed[m]
  BY <1>1, <1>2 DEF SetPurged
<1>7. purged[src] \subseteq executed[n] \cup E
  <2>1. CASE <<src, n>> \in chan
    BY <1>1, <2>1 DEF CoveredInv
  <2>2. CASE <<src, n>> \notin chan
    <3>1. E = pos \ executed[n]
      BY <2>2 DEF Seed
    <3>2. purged[src] \subseteq pos
      BY <1>2 DEF CoveredInv
    <3> QED
      BY <3>1, <3>2
  <2> QED
    BY <2>1, <2>2
<1>8. ~FatalFor(src, executed[n] \cup E)
  BY <1>7 DEF FatalFor
<1>9. keep' = keep \cup {src}
  BY <1>2, <1>8 DEF ApplyChannel
<1>10. ASSUME NEW l \in chan, l[1] = n PROVE E = {}
  <2> SUFFICES ASSUME E # {} PROVE FALSE
    OBVIOUS
  <2>1. <<src, n>> \notin chan
    BY DEF Seed
  <2>2. Pending(<<src, n>>)
    BY <1>3, <2>1 DEF MadeInv
  <2>3. passes = 1
    BY <1>2, <1>1, <2>2 DEF Pending, StageInv
  <2>4. l \in links /\ l = <<n, l[2]>> /\ l[2] \in Nodes
    BY <1>1, <1>10 DEF MadeInv, Links
  <2>5. n = order[1] /\ 1 \in 1..Len(order)
    BY <1>1
  <2>6. PICK j \in (1 + 1)..Len(order) : order[j] = l[2]
    BY <1>4, <2>4, <2>5 DEF StageInv, Ordered
  <2>7. l[2] \in Unvisited
    BY <1>2, <2>6 DEF Unvisited
  <2> QED
    BY <2>3, <2>7 DEF MadeInv
<1> HIDE DEF E, n
<1>11. ASSUME NEW l \in chan' PROVE purged'[l[1]] \subseteq executed'[l[2]]
  <2>1. CASE l = <<src, n>>
    BY <1>1, <1>4, <1>6, <1>7, <2>1
  <2>2. CASE l \in chan
    <3>1. l[1] \in Nodes /\ l[2] \in Nodes /\ purged[l[1]] \subseteq executed[l[2]]
      BY <1>1, <2>2 DEF CoveredInv, Links
    <3>2. executed[l[2]] \subseteq executed'[l[2]]
      BY <1>6, <3>1
    <3>3. purged'[l[1]] = purged[l[1]]
      BY <1>6, <1>10, <2>2, <3>1
    <3> QED
      BY <3>1, <3>2, <3>3
  <2> QED
    BY <1>2, <2>1, <2>2
<1> QED
  BY <1>2, <1>9, <1>11 DEF CoveredInv

\* Every step keeps it, as long as nothing disturbs the passes.
LEMMA GapStep == IndInv /\ GapInv /\ [Next]_vars => GapInv'
<1> SUFFICES ASSUME IndInv, GapInv, [Next]_vars, Undisturbed'
             PROVE  StageInv' /\ MadeInv' /\ CoveredInv'
  BY DEF GapInv
<1> USE DEF net, gtid, job, cnt, hist
<1>t. TypeOK
  BY DEF IndInv
<1>u. CASE UNCHANGED vars
  <2>1. StageInv /\ MadeInv /\ CoveredInv
    BY <1>u DEF GapInv, Undisturbed, vars
  <2> QED
    BY <1>u, <2>1 DEF vars, StageInv, MadeInv, CoveredInv, AtMember, Unvisited, Pending
<1> SUFFICES ASSUME Next PROVE StageInv' /\ MadeInv' /\ CoveredInv'
  BY <1>u
<1>0. StageInv /\ MadeInv /\ CoveredInv /\ ~Fault /\ \A L \in Topologies : ~Redraw(L)
  BY <1>t, Calm DEF GapInv
<1>h. order \in Seq(Nodes) /\ (order # <<>> => Head(order) \in Nodes) /\ up = Nodes
  BY <1>t, <1>0 DEF TypeOK, StageInv
<1>1. CASE Reconcile
  <2>1. /\ rpc = "idle" /\ rpc' = "visit" /\ passes' = passes + 1 /\ passes \in Nat
        /\ plan' = links /\ order' = replicaApplyOrder(links) \o Rest(links)
        /\ UNCHANGED <<links, up, executed, purged, chan, todo, src, pos, keep>>
    BY <1>1, <1>t DEF Reconcile, TypeOK
  <2>2. links \in SUBSET Links /\ Acyclic(links)
    BY <1>t, <1>0 DEF TypeOK, StageInv
  <2>3. /\ Ordered(order', links)
        /\ \A n \in Replicas(links) : \E i \in 1..Len(order') : order'[i] = n
    BY <2>1, <2>2, ApplyOrderIsTopological
  <2>4. StageInv'
    BY <1>0, <2>1, <2>3 DEF StageInv, AtMember
  <2>5. \A l \in links : l[2] \in Unvisited'
    <3> SUFFICES ASSUME NEW l \in links PROVE l[2] \in Unvisited'
      OBVIOUS
    <3>1. l = <<l[1], l[2]>> /\ l[1] \in Nodes /\ l[2] \in Nodes
      BY <2>2 DEF Links
    <3>2. l[2] \in Replicas(links)
      BY <3>1 DEF Replicas, Sources
    <3> QED
      BY <2>1, <2>3, <3>2 DEF Unvisited, AtMember
  <2>6. passes # 0 => \A l \in links : l \in chan
    <3>1. Unvisited = {} /\ ~AtMember
      BY <1>0, <2>1 DEF Unvisited, AtMember, StageInv
    <3> QED
      BY <1>0, <3>1 DEF MadeInv, Pending
  <2>7. MadeInv'
    <3>1. chan' \subseteq links' /\ passes' # 0 /\ ~AtMember'
      BY <1>0, <2>1 DEF MadeInv, AtMember
    <3>2. passes' = 1 => chan' = {}
      BY <1>0, <2>1 DEF MadeInv
    <3>3. \A l \in links' : Pending(l)' \/ l \in chan'
      BY <2>1, <2>5, <2>6 DEF Pending
    <3> QED
      BY <3>1, <3>2, <3>3 DEF MadeInv
  <2>8. CoveredInv'
    BY <1>0, <2>1 DEF CoveredInv
  <2> QED
    BY <2>4, <2>7, <2>8
<1>2. CASE SkipMember
  BY <1>2, <1>h DEF SkipMember
<1>3. CASE VisitMember
  <2> DEFINE n == Head(order)
  <2>1. /\ rpc = "visit" /\ rpc' = "link" /\ order # <<>> /\ n \in Nodes
        /\ todo' = Sources(links, n)
        /\ UNCHANGED <<links, up, executed, purged, chan, plan, order, src, pos, keep, passes>>
    BY <1>3, <1>0, <1>h DEF VisitMember, StageInv
  <2>2. Unvisited = {n} \cup Unvisited'
    <3>1. {order[i] : i \in 1..Len(order)} = {n} \cup {order[i] : i \in 2..Len(order)}
      BY <1>h, <2>1, TailFacts
    <3> QED
      BY <2>1, <3>1 DEF Unvisited, AtMember
  <2>3. StageInv'
    BY <1>0, <2>1 DEF StageInv, AtMember
  <2>4. \A l \in links : Pending(l)' \/ l \in chan
    <3> SUFFICES ASSUME NEW l \in links, l \notin chan PROVE Pending(l)'
      OBVIOUS
    <3>1. passes = 0 \/ (passes = 1 /\ l[2] \in Unvisited)
      BY <1>0, <2>1 DEF MadeInv, Pending, AtMember
    <3>2. l = <<l[1], l[2]>> /\ l[1] \in Nodes
      BY <1>t DEF TypeOK, Links
    <3>3. l[2] = n => l[1] \in todo'
      BY <2>1, <3>2 DEF Sources
    <3> QED
      BY <2>1, <2>2, <3>1, <3>3 DEF Pending, AtMember
  <2>5. MadeInv'
    BY <1>0, <2>1, <2>2, <2>4 DEF MadeInv, AtMember
  <2>6. CoveredInv'
    BY <1>0, <2>1 DEF CoveredInv
  <2> QED
    BY <2>3, <2>5, <2>6
<1>4. ASSUME NEW s \in Nodes, ReadPosition(s) PROVE StageInv' /\ MadeInv' /\ CoveredInv'
  <2>1. /\ rpc = "link" /\ rpc' = "apply" /\ s \in todo /\ src' = s /\ pos' = executed[s]
        /\ UNCHANGED <<links, up, executed, purged, chan, plan, order, todo, keep, passes>>
    BY <1>4, <1>0, <1>h DEF ReadPosition
  <2>2. Unvisited' = Unvisited /\ (AtMember' <=> AtMember)
    BY <2>1 DEF Unvisited, AtMember
  <2>3. StageInv'
    BY <1>0, <2>1, <2>2 DEF StageInv
  <2>4. MadeInv'
    BY <1>0, <2>1, <2>2 DEF MadeInv, Pending
  <2>5. CoveredInv'
    BY <1>0, <2>1 DEF CoveredInv, IndInv, PurgedInv
  <2> QED
    BY <2>3, <2>4, <2>5
<1>5. CASE ApplyChannel
  <2> DEFINE n == Head(order)
  <2>1. /\ rpc = "apply" /\ rpc' = "link" /\ todo' = todo \ {src} /\ chan' = chan \cup {<<src, n>>}
        /\ UNCHANGED <<links, up, plan, order, src, passes>>
    BY <1>5 DEF ApplyChannel
  <2>2. CoveredInv' /\ keep' = keep \cup {src}
    BY <1>5, <1>0, ApplyCovers
  <2>3. Unvisited' = Unvisited /\ AtMember /\ AtMember'
    BY <2>1 DEF Unvisited, AtMember
  <2>4. StageInv'
    BY <1>0, <2>1, <2>3 DEF StageInv
  <2>5. /\ order # <<>> /\ src \in Sources(links, n) /\ <<src, n>> \in links
        /\ n \notin Unvisited
    <3>1. order # <<>>
      BY <2>1 DEF IndInv, JobInv
    <3>2. src \in Sources(links, n)
      BY <1>0, <2>1, <2>3 DEF StageInv
    <3>3. n \notin {order[i] : i \in 2..Len(order)}
      BY <1>0, <1>h, <3>1, TailFacts DEF StageInv
    <3> QED
      BY <2>3, <3>1, <3>2, <3>3 DEF Sources, Unvisited
  <2>6. \A l \in links : Pending(l)' \/ l \in chan'
    <3> SUFFICES ASSUME NEW l \in links, l \notin chan' PROVE Pending(l)'
      BY <2>1
    <3>1. l = <<l[1], l[2]>>
      BY <1>t DEF TypeOK, Links
    <3>2. Pending(l) /\ ~(l[1] = src /\ l[2] = n)
      BY <1>0, <2>1, <3>1 DEF MadeInv
    <3> QED
      BY <2>1, <2>3, <3>2 DEF Pending
  <2>7. \A s \in Sources(links, n) \ todo' : <<s, n>> \in chan' /\ s \in keep'
    BY <1>0, <2>1, <2>2, <2>3 DEF MadeInv
  <2>8. passes = 0 => FALSE
    BY <1>0, <2>1 DEF StageInv
  <2>9. passes' = 1 => \A l \in chan' : l[2] \notin Unvisited'
    BY <1>0, <2>1, <2>3, <2>5 DEF MadeInv
  <2>10. MadeInv'
    BY <1>0, <2>1, <2>3, <2>5, <2>6, <2>7, <2>8, <2>9 DEF MadeInv
  <2> QED
    BY <2>2, <2>4, <2>10
<1>6. CASE ApplyFails
  <2>1. order # <<>>
    BY <1>6 DEF ApplyFails, IndInv, JobInv
  <2> QED
    BY <1>6, <1>h, <2>1 DEF ApplyFails
<1>7. CASE ApplyBreaks
  BY <1>7, <1>0 DEF ApplyBreaks
<1>8. CASE Prune
  <2> DEFINE n == Head(order)
  <2>1. /\ rpc = "link" /\ rpc' = "visit" /\ order # <<>> /\ n \in Nodes /\ todo = {}
        /\ order' = Tail(order) /\ chan' = chan \ Pruned(n)
        /\ UNCHANGED <<links, up, executed, purged, plan, todo, src, pos, passes>>
    <3>1. rpc = "link" /\ order # <<>> /\ n \in Nodes
      BY <1>8, <1>h DEF Prune, IndInv, JobInv
    <3> QED
      BY <1>8, <1>0, <1>h, <3>1 DEF Prune
  <2>2. chan' = chan
    <3> SUFFICES ASSUME NEW l \in Pruned(n) PROVE FALSE
      BY <2>1
    <3>1. l \in links /\ l[2] = n /\ l[1] \notin keep /\ l = <<l[1], l[2]>> /\ l[1] \in Nodes
      BY <1>0, <1>t DEF Pruned, MadeInv, TypeOK, Links
    <3>2. l[1] \in Sources(links, n) \ todo
      BY <2>1, <3>1 DEF Sources
    <3> QED
      BY <1>0, <2>1, <3>1, <3>2 DEF MadeInv, AtMember
  <2>3. Unvisited' = Unvisited /\ AtMember /\ ~AtMember' /\ Ordered(Tail(order), links)
    <3>1. {Tail(order)[i] : i \in 1..Len(Tail(order))} = {order[i] : i \in 2..Len(order)}
      BY <1>h, <2>1, TailFacts
    <3>2. Ordered(Tail(order), links)
      BY <1>0, <1>h, <2>1, TailFacts DEF StageInv
    <3> QED
      BY <2>1, <3>1, <3>2 DEF Unvisited, AtMember
  <2>4. StageInv'
    BY <1>0, <2>1, <2>3 DEF StageInv
  <2>5. MadeInv'
    BY <1>0, <2>1, <2>2, <2>3 DEF MadeInv, Pending
  <2>6. CoveredInv'
    BY <1>0, <2>1, <2>2 DEF CoveredInv
  <2> QED
    BY <2>4, <2>5, <2>6
<1>9. CASE PassDone
  <2>1. /\ rpc = "visit" /\ rpc' = "idle" /\ order = <<>>
        /\ UNCHANGED <<links, up, executed, purged, chan, order, todo, src, pos, keep, passes>>
    BY <1>9 DEF PassDone
  <2>2. Unvisited' = Unvisited /\ ~AtMember /\ ~AtMember'
    BY <2>1 DEF Unvisited, AtMember
  <2>3. StageInv'
    BY <1>0, <2>1, <2>2 DEF StageInv
  <2>4. MadeInv'
    BY <1>0, <2>1, <2>2 DEF MadeInv, Pending
  <2>5. CoveredInv'
    BY <1>0, <2>1 DEF CoveredInv
  <2> QED
    BY <2>3, <2>4, <2>5
\* A transaction more on one server.
<1>l. ASSUME NEW n \in Nodes, NEW t, Logged(n, t), UNCHANGED <<net, purged, chan, job, passes>>
      PROVE  StageInv' /\ MadeInv' /\ CoveredInv'
  <2>1. \A m \in Nodes : executed[m] \subseteq executed'[m]
    BY <1>l, <1>t DEF Logged, TypeOK
  <2>2. Unvisited' = Unvisited /\ (AtMember' <=> AtMember)
    BY <1>l DEF Unvisited, AtMember
  <2>3. StageInv'
    BY <1>0, <1>l, <2>2 DEF StageInv
  <2>4. MadeInv'
    BY <1>0, <1>l, <2>2 DEF MadeInv, Pending
  <2>5. CoveredInv'
    <3>1. \A l \in chan : l[2] \in Nodes
      BY <1>t DEF TypeOK, Links
    <3> QED
      BY <1>0, <1>l, <2>1, <3>1 DEF CoveredInv
  <2> QED
    BY <2>3, <2>4, <2>5
<1>10. ASSUME NEW n \in Nodes, Write(n) PROVE StageInv' /\ MadeInv' /\ CoveredInv'
  BY <1>10, <1>l DEF Write
<1>11. ASSUME NEW s \in Nodes, NEW n \in Nodes, Fetch(s, n)
       PROVE  StageInv' /\ MadeInv' /\ CoveredInv'
  BY <1>11, <1>l DEF Fetch
<1>12. \A n \in Nodes : ~Stop(n) /\ ~StartNode(n)
  BY <1>0, <1>h DEF Stop, StartNode
<1> QED
  BY <1>0, <1>1, <1>2, <1>3, <1>4, <1>5, <1>6, <1>7, <1>8, <1>9, <1>10, <1>11, <1>12
     DEF Next, JobStep

\* Before the first pass there is no channel.
LEMMA GapInit == Init /\ Acyclic(links) => GapInv
<1> SUFFICES ASSUME Init, Acyclic(links) PROVE StageInv /\ MadeInv /\ CoveredInv
  BY DEF GapInv
<1>1. Len(order) = 0 /\ order = <<>> /\ 1..Len(order) = {}
  BY DEF Init
<1>2. Ordered(order, links)
  BY <1>1 DEF Ordered
<1>3. StageInv
  BY <1>1, <1>2 DEF Init, StageInv, AtMember
<1> QED
  BY <1>3 DEF Init, MadeInv, CoveredInv, Pending, AtMember

\* replication.go:420-430: whatever acyclic links are drawn over however many clusters, and however
\* the passes, the clients and the channels interleave, no channel asks its source for transactions
\* that the source holds only in gtid_purged, as long as nothing fails and nothing is redrawn.
THEOREM NoGapOnAcyclicLinks == Spec /\ Acyclic(links) => []NoFatalGapUndisturbed
<1>1. IndInv /\ GapInv => NoFatalGapUndisturbed
  BY DEF GapInv, CoveredInv, NoFatalGapUndisturbed, Fatal, FatalFor
<1> QED
  BY <1>1, GapInit, GapStep, IndInvHolds, PTL DEF Spec
=============================================================================
