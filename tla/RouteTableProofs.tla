-------------------------- MODULE RouteTableProofs --------------------------
(***************************************************************************)
(* Theorems about RouteTable, for every length of ids, every depth of a    *)
(* bucket, every set of ids and any number of nodes and losses.            *)
(***************************************************************************)
EXTENDS RouteTable, SharedLemmas, FiniteSetTheorems

Distinct(b) == \A k, m \in 1 .. Len(b) : b[k] = b[m] => k = m

Held(bs) == UNION {Numbers(bs[i]) : i \in 1 .. Len(bs)}

\* No node is in two places of the table bs.
Unique(bs) ==
    /\ \A i \in 1 .. Len(bs) : Distinct(bs[i])
    /\ \A i, j \in 1 .. Len(bs) : i # j => Numbers(bs[i]) \cap Numbers(bs[j]) = {}

\* Where node n of a table with ids is belongs is bucket i, or one further down.
Reaches(is, n, i) == Raznica(is[n]) >= i - 1
Misplaced(is, n, i) == Raznica(is[n]) # i - 1

\* The prefixes of one bucket b, the i-th; a split one has one misplaced node at most.
Prefixed(is, b, i, split) ==
    /\ \A n \in Numbers(b) : Reaches(is, n, i)
    /\ split => \A m, n \in Numbers(b) : Misplaced(is, m, i) /\ Misplaced(is, n, i) => m = n

Shaped(is, b) == b \in Seq(1 .. Len(is)) /\ Len(b) <= K

\* A table whose nodes have the ids is, of which those of a were added, those of r removed
\* and those of d disabled.
Fine(bs, is, a, r, d) ==
    /\ Len(bs) <= Bits
    /\ \A i \in 1 .. Len(bs) : Shaped(is, bs[i]) /\ Prefixed(is, bs[i], i, i < Len(bs))
    /\ Unique(bs)
    /\ a \ (d \cup r) \subseteq Held(bs) /\ Held(bs) \subseteq a \ r

\* What the worker knows of the node and the bucket between the steps of InsertNode.
CallOK ==
    call # Idle =>
        /\ call.node \notin added \cup removed
        /\ Reaches(ids, call.node, call.bucket)
        /\ call.at = "add" /\ call.bucket < Len(buckets) => ~Misplaced(ids, call.node, call.bucket)
        /\ call.at \in {"size", "split"} => call.bucket = Len(buckets)
        /\ call.at = "split" => Len(buckets) < Bits - 1
        /\ call.at = "again" /\ ~thrown =>
              \A n \in Numbers(buckets[call.bucket]) : ~Misplaced(ids, n, call.bucket)

Inv == TypeOK /\ Fine(buckets, ids, added, removed, disabled) /\ CallOK

-----------------------------------------------------------------------------
(* Sequences. *)

\* What the loop of Kept has after k nodes of b.
KeptOK(T, b, S, k, t) ==
    /\ t \in Seq(T) /\ Len(t) <= k
    /\ \A j \in 1 .. Len(t) : \E m \in 1 .. k : b[m] = t[j] /\ b[m] \in S
    /\ \A m \in 1 .. k : b[m] \in S => \E j \in 1 .. Len(t) : t[j] = b[m]
    /\ Distinct(b) => Distinct(t)

KeptStep(b, S, k, t) == IF b[k] \in S THEN Append(t, b[k]) ELSE t

LEMMA KeptStepOK ==
    ASSUME NEW T, NEW b \in Seq(T), NEW S, NEW k \in 0 .. Len(b) - 1, NEW t, KeptOK(T, b, S, k, t)
    PROVE  KeptOK(T, b, S, k + 1, KeptStep(b, S, k + 1, t))
  <1> DEFINE x == b[k + 1]
             u == KeptStep(b, S, k + 1, t)
  <1>1. t \in Seq(T) /\ Len(t) \in Nat /\ Len(t) <= k /\ Len(b) \in Nat /\ k + 1 \in 1 .. Len(b) /\ k \in Nat /\ x \in T
    BY DEF KeptOK
  <1>2. CASE x \notin S
    <2>1. u = t
      BY <1>2 DEF KeptStep
    <2>2. \A m \in 1 .. k : m \in 1 .. k + 1
      BY <1>1
    <2>3. \A m \in 1 .. k + 1 : m \in 1 .. k \/ m = k + 1
      BY <1>1
    <2>4. Len(t) <= k + 1
      BY <1>1
    <2> HIDE DEF u
    <2>5. \A j \in 1 .. Len(t) : \E m \in 1 .. k + 1 : b[m] = t[j] /\ b[m] \in S
      BY <2>2 DEF KeptOK
    <2>6. \A m \in 1 .. k + 1 : b[m] \in S => \E j \in 1 .. Len(t) : t[j] = b[m]
      BY <1>2, <2>3 DEF KeptOK
    <2>7. t \in Seq(T) /\ (Distinct(b) => Distinct(t))
      BY DEF KeptOK
    <2>8. KeptOK(T, b, S, k + 1, t)
      BY <2>4, <2>5, <2>6, <2>7 DEF KeptOK
    <2>9. KeptStep(b, S, k + 1, t) = t
      BY <2>1 DEF u
    <2>10. QED
      BY <2>8, <2>9
  <1>3. CASE x \in S
    <2>1. u = Append(t, x)
      BY <1>3 DEF KeptStep
    <2> HIDE DEF u, x
    <2>2. u \in Seq(T) /\ Len(u) = Len(t) + 1 /\ u[Len(t) + 1] = x /\ \A j \in 1 .. Len(t) : u[j] = t[j]
      <3>1. t \in Seq(T) /\ x \in T
        BY <1>1
      <3>2. QED
        BY <2>1, <3>1
    <2>3. Len(u) <= k + 1
      BY <1>1, <2>2
    <2>4. \A j \in 1 .. Len(u) : j \in 1 .. Len(t) \/ j = Len(t) + 1
      BY <1>1, <2>2
    <2>5. \A m \in 1 .. k : m \in 1 .. k + 1
      BY <1>1
    <2>6. \A m \in 1 .. k + 1 : m \in 1 .. k \/ m = k + 1
      BY <1>1
    <2>7. k + 1 \in 1 .. k + 1 /\ Len(t) + 1 \in 1 .. Len(u) /\ \A j \in 1 .. Len(t) : j \in 1 .. Len(u)
      BY <1>1, <2>2
    <2>8. ASSUME NEW j \in 1 .. Len(u) PROVE \E m \in 1 .. k + 1 : b[m] = u[j] /\ b[m] \in S
      BY <1>3, <2>2, <2>4, <2>5, <2>7 DEF KeptOK, x
    <2>9. ASSUME NEW m \in 1 .. k + 1, b[m] \in S PROVE \E j \in 1 .. Len(u) : u[j] = b[m]
      <3>1. CASE m = k + 1
        BY <2>2, <2>7, <3>1 DEF x
      <3>2. CASE m \in 1 .. k
        <4>1. PICK j \in 1 .. Len(t) : t[j] = b[m]
          BY <2>9, <3>2 DEF KeptOK
        <4>2. QED
          BY <2>2, <2>7, <4>1
      <3>3. QED
        BY <2>6, <3>1, <3>2
    <2>10. ASSUME Distinct(b) PROVE Distinct(u)
      <3>1. Distinct(t)
        BY <2>10 DEF KeptOK
      <3>2. ASSUME NEW j \in 1 .. Len(t) PROVE u[j] # x
        <4>1. PICK m \in 1 .. k : b[m] = t[j]
          BY DEF KeptOK
        <4>2. m \in 1 .. Len(b) /\ m # k + 1
          BY <1>1
        <4>3. b[m] # b[k + 1]
          BY <1>1, <2>10, <4>2 DEF Distinct
        <4>4. QED
          BY <2>2, <4>1, <4>3 DEF x
      <3>3. QED
        BY <2>2, <2>4, <3>1, <3>2 DEF Distinct
    <2>11. QED
      BY <2>2, <2>3, <2>8, <2>9, <2>10 DEF KeptOK, u
  <1>4. QED
    BY <1>2, <1>3

\* The nodes of b that are in S, each in one place if b has no node twice.
LEMMA KeptProps ==
    ASSUME NEW T, NEW b \in Seq(T), NEW S
    PROVE  /\ Kept(b, S) \in Seq(T) /\ Len(Kept(b, S)) <= Len(b)
           /\ Numbers(Kept(b, S)) = Numbers(b) \cap S
           /\ Distinct(b) => Distinct(Kept(b, S))
  <1> DEFINE N == Len(b)
             V == Seq(T)
             step == [k \in 1 .. N |-> [v \in V |-> KeptStep(b, S, k, v)]]
             D(f) == [k \in 0 .. N |-> IF k = 0 THEN <<>> ELSE KeptStep(b, S, k, f[k - 1])]
             U == CHOOSE g : g = D(g)
  <1>1. N \in Nat /\ 0 \in 0 .. N /\ N \in 0 .. N
    OBVIOUS
  <1>2. <<>> \in V
    OBVIOUS
  <1>3. ASSUME NEW k \in 1 .. N, NEW v \in V PROVE KeptStep(b, S, k, v) \in V
    BY DEF KeptStep
  <1>4. step \in [1 .. N -> [V -> V]]
    BY <1>3
  <1>5. \A k \in 1 .. N, v \in V : step[k][v] = KeptStep(b, S, k, v)
    OBVIOUS
  <1>6. Kept(b, S) = U[N]
    BY DEF Kept, KeptStep
  <1> HIDE DEF N, V, step, U
  <1>7. PICK f : Defines(N, V, <<>>, step, f)
    BY <1>1, <1>2, <1>4, Recursion
  <1>8. f \in [0 .. N -> V] /\ f[0] = <<>> /\ \A k \in 1 .. N : f[k] = step[k][f[k - 1]]
    BY <1>7 DEF Defines
  <1>9. \A k \in 1 .. N : f[k] = KeptStep(b, S, k, f[k - 1])
    <2>1. \A k \in 1 .. N : k - 1 \in 0 .. N
      BY <1>1
    <2>2. QED
      BY <1>5, <1>8, <2>1
  <1>10. f = D(f)
    <2>1. \A k \in 0 .. N : k # 0 => k \in 1 .. N
      BY <1>1
    <2>2. QED
      BY <1>8, <1>9, <2>1
  <1>11. U = D(U)
    BY <1>10 DEF U
  <1>12. U[0] = <<>> /\ \A k \in 1 .. N : U[k] = KeptStep(b, S, k, U[k - 1])
    <2>1. \A k \in 1 .. N : k \in 0 .. N /\ k # 0
      BY <1>1
    <2>2. QED
      BY <1>1, <1>11, <2>1
  <1>13. KeptOK(T, b, S, N, U[N])
    <2> DEFINE Good == {k \in Nat : k <= N => KeptOK(T, b, S, k, U[k])}
    <2>1. 0 \in Good
      <3>1. KeptOK(T, b, S, 0, <<>>)
        BY DEF KeptOK, Distinct
      <3>2. QED
        BY <1>12, <3>1
    <2>2. ASSUME NEW k \in Good PROVE k + 1 \in Good
      <3>1. SUFFICES ASSUME k + 1 <= N PROVE KeptOK(T, b, S, k + 1, U[k + 1])
        OBVIOUS
      <3>2. k \in 0 .. Len(b) - 1 /\ k + 1 \in 1 .. N /\ (k + 1) - 1 = k /\ k <= N
        BY <1>1, <3>1 DEF N
      <3>3. KeptOK(T, b, S, k, U[k])
        BY <3>2
      <3>4. U[k + 1] = KeptStep(b, S, k + 1, U[k])
        <4>1. U[k + 1] = KeptStep(b, S, k + 1, U[(k + 1) - 1])
          BY <1>12, <3>2
        <4>2. QED
          BY <3>2, <4>1
      <3>5. KeptOK(T, b, S, k + 1, KeptStep(b, S, k + 1, U[k]))
        BY <3>2, <3>3, KeptStepOK
      <3>6. QED
        BY <3>4, <3>5
    <2>3. Good \in SUBSET Nat
      OBVIOUS
    <2>4. N \in Good
      <3> HIDE DEF Good
      <3>1. QED
        BY <1>1, <2>1, <2>2, <2>3, SetInduction
    <2>5. N <= N
      BY <1>1
    <2>6. QED
      BY <2>4, <2>5
  <1>14. Numbers(U[N]) = Numbers(b) \cap S
    <2> DEFINE t == U[N]
    <2>1. /\ \A j \in 1 .. Len(t) : \E m \in 1 .. N : b[m] = t[j] /\ b[m] \in S
          /\ \A m \in 1 .. N : b[m] \in S => \E j \in 1 .. Len(t) : t[j] = b[m]
      BY <1>13 DEF KeptOK
    <2>2. Numbers(t) = {t[j] : j \in 1 .. Len(t)} /\ Numbers(b) = {b[m] : m \in 1 .. N}
      BY DEF Numbers, N
    <2> HIDE DEF t
    <2>3. ASSUME NEW y \in Numbers(t) PROVE y \in Numbers(b) \cap S
      BY <2>1, <2>2
    <2>4. ASSUME NEW y \in Numbers(b) \cap S PROVE y \in Numbers(t)
      BY <2>1, <2>2
    <2>5. QED
      BY <2>3, <2>4 DEF t
  <1>15. QED
    BY <1>6, <1>13, <1>14 DEF KeptOK, N

LEMMA NumbersAppend ==
    ASSUME NEW T, NEW b \in Seq(T), NEW x \in T
    PROVE  Numbers(Append(b, x)) = Numbers(b) \cup {x}
  <1>1. Len(Append(b, x)) = Len(b) + 1 /\ Append(b, x)[Len(b) + 1] = x /\ Len(b) \in Nat
        /\ \A k \in 1 .. Len(b) : Append(b, x)[k] = b[k]
    OBVIOUS
  <1>2. \A k : k \in 1 .. Len(b) + 1 <=> k \in 1 .. Len(b) \/ k = Len(b) + 1
    BY <1>1
  <1> DEFINE c == Append(b, x)
  <1> HIDE DEF c
  <1>3. QED
    BY <1>1, <1>2 DEF Numbers, c

LEMMA DistinctAppend ==
    ASSUME NEW T, NEW b \in Seq(T), NEW x \in T, Distinct(b), x \notin Numbers(b)
    PROVE  Distinct(Append(b, x))
  <1> DEFINE c == Append(b, x)
  <1>1. Len(c) = Len(b) + 1 /\ c[Len(b) + 1] = x /\ Len(b) \in Nat /\ \A k \in 1 .. Len(b) : c[k] = b[k]
    OBVIOUS
  <1> HIDE DEF c
  <1>2. \A k \in 1 .. Len(c) : k \in 1 .. Len(b) \/ k = Len(b) + 1
    BY <1>1
  <1>3. \A k \in 1 .. Len(b) : b[k] # x
    BY DEF Numbers
  <1>4. Distinct(c)
    BY <1>1, <1>2, <1>3 DEF Distinct
  <1>5. QED
    BY <1>4 DEF c

LEMMA RemoveProps ==
    ASSUME NEW T, NEW b \in Seq(T), NEW k \in 1 .. Len(b), Distinct(b)
    PROVE  /\ RemoveAt(b, k) \in Seq(T) /\ Len(RemoveAt(b, k)) <= Len(b)
           /\ Numbers(RemoveAt(b, k)) = Numbers(b) \ {b[k]} /\ Distinct(RemoveAt(b, k))
  <1> DEFINE c == RemoveAt(b, k)
             n == Len(b)
  <1>1. n \in Nat /\ k \in 1 .. n
    OBVIOUS
  <1>2. c \in Seq(T) /\ Len(c) = n - 1
        /\ \A j \in 1 .. n - 1 : c[j] = IF j < k THEN b[j] ELSE b[j + 1]
    <2> DEFINE l == SubSeq(b, 1, k - 1)
               r == SubSeq(b, k + 1, n)
    <2>1. l \in Seq(T) /\ Len(l) = k - 1 /\ \A j \in 1 .. k - 1 : l[j] = b[j]
      BY <1>1
    <2>2. r \in Seq(T) /\ Len(r) = n - k /\ \A j \in 1 .. n - k : r[j] = b[j + k]
      BY <1>1
    <2>3. c = l \o r
      BY DEF RemoveAt
    <2> HIDE DEF c, n, l, r
    <2>4. c \in Seq(T) /\ Len(c) = n - 1
      <3>1. l \in Seq(T) /\ r \in Seq(T)
        BY <2>1, <2>2
      <3>2. l \o r \in Seq(T) /\ Len(l \o r) = Len(l) + Len(r)
        BY <3>1
      <3>3. (k - 1) + (n - k) = n - 1
        BY <1>1
      <3>4. QED
        BY <2>1, <2>2, <2>3, <3>2, <3>3
    <2>5. \A j \in 1 .. k - 1 : c[j] = l[j]
      BY <1>1, <2>1, <2>2, <2>3
    <2>6. \A j \in k .. n - 1 : c[j] = r[j - k + 1]
      BY <1>1, <2>1, <2>2, <2>3
    <2>7. ASSUME NEW j \in 1 .. n - 1 PROVE c[j] = IF j < k THEN b[j] ELSE b[j + 1]
      <3>1. CASE j < k
        BY <1>1, <2>1, <2>5, <3>1
      <3>2. CASE j >= k
        <4>1. j - k + 1 \in 1 .. n - k /\ (j - k + 1) + k = j + 1 /\ j \in k .. n - 1
          BY <1>1, <3>2
        <4>2. r[j - k + 1] = b[(j - k + 1) + k]
          BY <2>2, <4>1
        <4>3. QED
          BY <1>1, <2>6, <3>2, <4>1, <4>2
      <3>3. QED
        BY <1>1, <3>1, <3>2
    <2>8. QED
      BY <2>4, <2>7
  <1> HIDE DEF c, n
  <1>3. \A j \in 1 .. n - 1 : j \in 1 .. n /\ j + 1 \in 1 .. n
    BY <1>1
  <1>4. \A i, j \in 1 .. n : b[i] = b[j] => i = j
    BY DEF Distinct, n
  <1> DEFINE At(j) == IF j < k THEN j ELSE j + 1
  <1>5. ASSUME NEW j \in 1 .. n - 1 PROVE At(j) \in 1 .. n /\ At(j) # k /\ c[j] = b[At(j)]
    <2>1. CASE j < k
      BY <1>1, <1>2, <1>3, <2>1
    <2>2. CASE ~(j < k)
      BY <1>1, <1>2, <1>3, <2>2
    <2>3. QED
      BY <2>1, <2>2
  <1>6. ASSUME NEW i \in 1 .. n - 1, NEW j \in 1 .. n - 1, At(i) = At(j) PROVE i = j
    BY <1>1, <1>6
  <1> HIDE DEF At
  <1>7. ASSUME NEW i \in 1 .. n - 1, NEW j \in 1 .. n - 1, c[i] = c[j] PROVE i = j
    <2>1. At(i) = At(j)
      BY <1>4, <1>7, <1>5
    <2>2. QED
      BY <1>6, <2>1
  <1>8. \A j \in 1 .. n - 1 : \E i \in 1 .. n : i # k /\ c[j] = b[i]
    BY <1>5
  <1>9. ASSUME NEW i \in 1 .. n, i # k PROVE \E j \in 1 .. n - 1 : c[j] = b[i]
    <2>1. CASE i < k
      <3>1. i \in 1 .. n - 1 /\ c[i] = b[i]
        BY <1>1, <1>2, <2>1
      <3>2. QED
        BY <3>1
    <2>2. CASE i > k
      <3>1. i - 1 \in 1 .. n - 1 /\ c[i - 1] = b[i]
        BY <1>1, <1>2, <2>2
      <3>2. QED
        BY <3>1
    <2>3. QED
      BY <1>1, <1>9, <2>1, <2>2
  <1>10. Numbers(c) = Numbers(b) \ {b[k]}
    <2>1. Numbers(c) = {c[j] : j \in 1 .. n - 1} /\ Numbers(b) = {b[j] : j \in 1 .. n}
      BY <1>2 DEF Numbers, n
    <2>2. ASSUME NEW y \in Numbers(c) PROVE y \in Numbers(b) /\ y # b[k]
      <3>1. PICK j \in 1 .. n - 1 : y = c[j]
        BY <2>1
      <3>2. PICK i \in 1 .. n : i # k /\ c[j] = b[i]
        BY <1>8
      <3>3. QED
        BY <1>1, <1>4, <2>1, <3>1, <3>2
    <2>3. ASSUME NEW y \in Numbers(b), y # b[k] PROVE y \in Numbers(c)
      <3>1. PICK i \in 1 .. n : y = b[i]
        BY <2>1
      <3>2. QED
        BY <1>9, <2>1, <2>3, <3>1
    <2>4. QED
      BY <2>2, <2>3
  <1>11. Distinct(c)
    BY <1>2, <1>7 DEF Distinct
  <1>12. n - 1 <= n
    BY <1>1
  <1>13. QED
    BY <1>2, <1>10, <1>11, <1>12 DEF c, n

\* t is s with x at place k.
Replaced(s, k, x, t) ==
    /\ Len(t) = Len(s) /\ t[k] = x
    /\ \A j \in 1 .. Len(s) : j # k => t[j] = s[j]

LEMMA ReplaceProps ==
    ASSUME NEW T, NEW b \in Seq(T), NEW k \in 1 .. Len(b), Distinct(b), NEW x \in T, x \notin Numbers(b),
           NEW c, Replaced(b, k, x, c)
    PROVE  Numbers(c) = (Numbers(b) \ {b[k]}) \cup {x} /\ Distinct(c)
  <1>1. Len(c) = Len(b) /\ c[k] = x /\ \A j \in 1 .. Len(b) : j # k => c[j] = b[j]
    BY DEF Replaced
  <1>2. \A j \in 1 .. Len(b) : b[j] # x /\ (b[j] = b[k] => j = k)
    BY DEF Numbers, Distinct
  <1>3. Numbers(c) = (Numbers(b) \ {b[k]}) \cup {x}
    BY <1>1, <1>2 DEF Numbers
  <1>4. Distinct(c)
    BY <1>1, <1>2 DEF Distinct
  <1>5. QED
    BY <1>1, <1>3, <1>4

-----------------------------------------------------------------------------
(* Distances, and where a node is looked for. *)

LEMMA RaznicaNat == \A id : Raznica(id) \in Nat
  <1> SUFFICES ASSUME NEW id PROVE Raznica(id) \in Nat
    OBVIOUS
  <1> DEFINE Same == {k \in 1 .. Bits : \A j \in 1 .. k : id[j] = MasterId[j]}
  <1>1. IsFiniteSet(1 .. Bits) /\ Bits \in Nat
    BY SizesAssumption, FS_Interval
  <1>2. Same \subseteq 1 .. Bits
    OBVIOUS
  <1> HIDE DEF Same
  <1>3. Cardinality(Same) \in Nat
    BY <1>1, <1>2, FS_Subset, FS_CardinalityType
  <1>4. Raznica(id) = Bits - 1 - (Bits - 1 - Cardinality(Same))
    BY DEF Raznica, BucketDistance, Same
  <1>5. QED
    BY <1>1, <1>3, <1>4

LEMMA FindBucketProps ==
    ASSUME NEW id, NEW n \in Nat \ {0}
    PROVE  /\ FindBucket(id, n) \in 1 .. n /\ Raznica(id) >= FindBucket(id, n) - 1
           /\ FindBucket(id, n) < n => Raznica(id) = FindBucket(id, n) - 1
  <1>1. Raznica(id) \in Nat
    BY RaznicaNat
  <1> DEFINE z == Raznica(id)
  <1>2. FindBucket(id, n) = IF z < n - 1 THEN z + 1 ELSE n
    BY DEF FindBucket
  <1> HIDE DEF z
  <1>3. QED
    BY <1>1, <1>2 DEF z

LEMMA MinInside ==
    ASSUME NEW I \in SUBSET Nat, I # {}
    PROVE  Min(I) \in I
  <1>1. IsWellFoundedOn(Below, Nat)
    BY NatLessThanWellFounded DEF OpToRel, Below
  <1>2. PICK x \in I : \A y \in I : ~(<<y, x>> \in Below)
    BY <1>1, WFMin
  <1>3. \A y \in I : x <= y
    <2>1. \A y \in I : ~(y < x)
      BY <1>2 DEF Below
    <2>2. QED
      BY <2>1
  <1>4. QED
    BY <1>2, <1>3 DEF Min

\* The place of a node with the id, or 0.
LEMMA FindNodeProps ==
    ASSUME NEW T, NEW b \in Seq(T), NEW id
    PROVE  \/ FindNode(b, id) = 0
           \/ FindNode(b, id) \in 1 .. Len(b) /\ ids[b[FindNode(b, id)]] = id
  <1> DEFINE I == {k \in 1 .. Len(b) : ids[b[k]] = id}
  <1>1. I \in SUBSET Nat
    OBVIOUS
  <1>2. FindNode(b, id) = IF I # {} THEN Min(I) ELSE 0
    BY DEF FindNode, SelectInSeq
  <1>3. ASSUME NEW k \in I PROVE k \in 1 .. Len(b) /\ ids[b[k]] = id
    OBVIOUS
  <1> HIDE DEF I
  <1>4. CASE I = {}
    <2>1. FindNode(b, id) = 0
      BY <1>2, <1>4
    <2>2. QED
      BY <2>1
  <1>5. CASE I # {}
    <2>1. FindNode(b, id) \in I
      BY <1>1, <1>2, <1>5, MinInside
    <2>2. QED
      BY <1>3, <2>1
  <1>6. QED
    BY <1>4, <1>5

-----------------------------------------------------------------------------
(* Changes of a table. *)

\* Nodes have got ids since is.
Extends(is, is2) == Len(is) \in Nat /\ Len(is2) \in Nat /\ Len(is) <= Len(is2)
                    /\ \A n \in 1 .. Len(is) : is2[n] = is[n]

LEMMA BucketExtends ==
    ASSUME NEW is, NEW is2, Extends(is, is2), NEW b, NEW i, NEW s, Shaped(is, b), Prefixed(is, b, i, s)
    PROVE  Shaped(is2, b) /\ Prefixed(is2, b, i, s)
  <1>1. \A n \in 1 .. Len(is) : n \in 1 .. Len(is2) /\ is2[n] = is[n]
    BY DEF Extends
  <1>2. b \in Seq(1 .. Len(is)) /\ \A k \in 1 .. Len(b) : b[k] \in 1 .. Len(is)
    BY DEF Shaped
  <1>3. b \in Seq(1 .. Len(is2))
    BY <1>1, <1>2
  <1>4. \A n \in Numbers(b) : n \in 1 .. Len(is)
    BY <1>2 DEF Numbers
  <1>5. \A n \in Numbers(b) : Raznica(is2[n]) = Raznica(is[n])
    BY <1>1, <1>4
  <1>6. Shaped(is2, b)
    BY <1>3 DEF Shaped
  <1>7. Prefixed(is2, b, i, s)
    BY <1>5 DEF Prefixed, Reaches, Misplaced
  <1>8. QED
    BY <1>6, <1>7

LEMMA FineExtends ==
    ASSUME NEW bs, NEW is, NEW is2, NEW a, NEW r, NEW d, Fine(bs, is, a, r, d), Extends(is, is2)
    PROVE  Fine(bs, is2, a, r, d)
  <1>1. \A i \in 1 .. Len(bs) : Shaped(is2, bs[i]) /\ Prefixed(is2, bs[i], i, i < Len(bs))
    BY BucketExtends DEF Fine
  <1>2. QED
    BY <1>1 DEF Fine

LEMMA ReplacedFine ==
    ASSUME NEW bs, NEW bs2, NEW is, NEW is2, NEW a, NEW r, NEW d, NEW a2, NEW r2, NEW c, NEW i \in 1 .. Len(bs),
           Fine(bs, is, a, r, d), Extends(is, is2), Replaced(bs, i, c, bs2),
           Shaped(is2, c), Distinct(c), Prefixed(is2, c, i, i < Len(bs)),
           \A n \in Numbers(c) : n \in Numbers(bs[i]) \/ n \notin a,
           Numbers(c) \subseteq a2 \ r2, a \subseteq a2, r \subseteq r2,
           a2 \subseteq a \cup Numbers(c), r2 \subseteq r \cup (Numbers(bs[i]) \ Numbers(c)),
           Numbers(bs[i]) \ Numbers(c) \subseteq d \cup r2
    PROVE  Fine(bs2, is2, a2, r2, d)
  <1>1. \A j \in 1 .. Len(bs) : Numbers(bs[j]) \subseteq Held(bs)
    BY DEF Held
  <1>2. \A j \in 1 .. Len(bs) : Numbers(bs[j]) \subseteq a \ r
    BY <1>1 DEF Fine
  <1>3. \A j \in 1 .. Len(bs) : j # i => Numbers(bs[j]) \cap Numbers(bs[i]) = {}
    BY DEF Fine, Unique
  <1>4. ASSUME NEW j \in 1 .. Len(bs), j # i PROVE Numbers(bs[j]) \cap Numbers(c) = {}
    BY <1>2, <1>3, <1>4
  <1>5. Unique(bs2)
    <2>1. \A j \in 1 .. Len(bs2) : Distinct(bs2[j])
      BY DEF Replaced, Fine, Unique
    <2>2. ASSUME NEW j \in 1 .. Len(bs2), NEW k \in 1 .. Len(bs2), j # k
          PROVE  Numbers(bs2[j]) \cap Numbers(bs2[k]) = {}
      <3>1. CASE j = i
        BY <1>4, <2>2, <3>1 DEF Replaced
      <3>2. CASE k = i
        BY <1>4, <2>2, <3>2 DEF Replaced
      <3>3. CASE j # i /\ k # i
        BY <2>2, <3>3 DEF Replaced, Fine, Unique
      <3>4. QED
        BY <3>1, <3>2, <3>3
    <2>3. QED
      BY <2>1, <2>2 DEF Unique
  <1>6. ASSUME NEW j \in 1 .. Len(bs2)
        PROVE  Shaped(is2, bs2[j]) /\ Prefixed(is2, bs2[j], j, j < Len(bs2))
    <2>1. CASE j = i
      BY <2>1 DEF Replaced
    <2>2. CASE j # i
      <3>1. j \in 1 .. Len(bs) /\ bs2[j] = bs[j] /\ Len(bs2) = Len(bs)
        BY <2>2 DEF Replaced
      <3>2. Shaped(is, bs[j]) /\ Prefixed(is, bs[j], j, j < Len(bs))
        BY <3>1 DEF Fine
      <3>3. QED
        BY <3>1, <3>2, BucketExtends
    <2>3. QED
      BY <2>1, <2>2
  <1>7. ASSUME NEW n, n \in a2 \ (d \cup r2) PROVE n \in Held(bs2)
    <2>1. CASE n \in Numbers(c)
      BY <2>1 DEF Held, Replaced
    <2>2. CASE n \notin Numbers(c)
      <3>1. n \in Held(bs)
        BY <1>7, <2>2 DEF Fine
      <3>2. PICK j \in 1 .. Len(bs) : n \in Numbers(bs[j])
        BY <3>1 DEF Held
      <3>3. j # i
        BY <1>7, <2>2, <3>2
      <3>4. QED
        BY <3>2, <3>3 DEF Held, Replaced
    <2>3. QED
      BY <2>1, <2>2
  <1>8. ASSUME NEW n \in Held(bs2) PROVE n \in a2 \ r2
    <2>1. PICK j \in 1 .. Len(bs2) : n \in Numbers(bs2[j])
      BY DEF Held
    <2>2. CASE j = i
      BY <2>1, <2>2 DEF Replaced
    <2>3. CASE j # i
      <3>1. j \in 1 .. Len(bs) /\ n \in Numbers(bs[j])
        BY <2>1, <2>3 DEF Replaced
      <3>2. n \in a \ r /\ n \notin Numbers(bs[i])
        BY <1>2, <1>3, <2>3, <3>1
      <3>3. QED
        BY <3>2
    <2>4. QED
      BY <2>2, <2>3
  <1>9. Len(bs2) <= Bits
    BY DEF Fine, Replaced
  <1>10. QED
    BY <1>5, <1>6, <1>7, <1>8, <1>9 DEF Fine

-----------------------------------------------------------------------------
(* What the invariant says of the parts of the state. *)

LEMMA InvFacts ==
    ASSUME Inv
    PROVE  /\ Len(ids) \in Nat /\ Len(buckets) \in Nat /\ Node = 1 .. Len(ids)
           /\ buckets \in Seq(Seq(Node)) /\ ids \in Seq(Ids)
           /\ \A i \in 1 .. Len(buckets) :
                 /\ buckets[i] \in Seq(Node) /\ Len(buckets[i]) \in Nat /\ Len(buckets[i]) <= K
                 /\ Distinct(buckets[i])
                 /\ Numbers(buckets[i]) \subseteq added \ removed
                 /\ Prefixed(ids, buckets[i], i, i < Len(buckets))
           /\ added \subseteq Node /\ removed \subseteq Node
  <1>1. /\ ids \in Seq(Ids) /\ buckets \in Seq(Seq(Node)) /\ added \subseteq Node /\ removed \subseteq Node
        /\ \A i \in 1 .. Len(buckets) : Len(buckets[i]) <= K
    BY DEF Inv, TypeOK
  <1>2. Len(ids) \in Nat /\ Len(buckets) \in Nat /\ Node = 1 .. Len(ids)
    BY <1>1 DEF Node
  <1>3. \A i \in 1 .. Len(buckets) : buckets[i] \in Seq(Node) /\ Len(buckets[i]) \in Nat
    BY <1>1
  <1>4. Fine(buckets, ids, added, removed, disabled)
    BY DEF Inv
  <1>5. \A i \in 1 .. Len(buckets) : Numbers(buckets[i]) \subseteq added \ removed
    BY <1>4 DEF Fine, Held
  <1>6. \A i \in 1 .. Len(buckets) : Distinct(buckets[i]) /\ Prefixed(ids, buckets[i], i, i < Len(buckets))
    BY <1>4 DEF Fine, Unique
  <1>7. QED
    BY <1>1, <1>2, <1>3, <1>5, <1>6

LEMMA ExtendsSame == ASSUME Inv PROVE Extends(ids, ids)
  BY InvFacts DEF Extends

\* A node made: it has the next number and the given id.
LEMMA ExtendsAppend ==
    ASSUME Inv, NEW id \in Ids, ids' = Append(ids, id)
    PROVE  /\ Extends(ids, ids') /\ ids' \in Seq(Ids)
           /\ Len(ids) + 1 \notin Node /\ ids'[Len(ids) + 1] = id /\ Len(ids') = Len(ids) + 1
           /\ Node' = Node \cup {Len(ids) + 1}
           /\ \A n \in Node : ids'[n] = ids[n]
  <1>1. ids \in Seq(Ids) /\ Len(ids) \in Nat /\ Node = 1 .. Len(ids)
    BY InvFacts
  <1>2. /\ ids' \in Seq(Ids) /\ Len(ids') = Len(ids) + 1 /\ ids'[Len(ids) + 1] = id
        /\ \A n \in 1 .. Len(ids) : ids'[n] = ids[n]
    BY <1>1
  <1>3. Node' = 1 .. Len(ids')
    BY DEF Node
  <1>4. 1 .. Len(ids) + 1 = 1 .. Len(ids) \cup {Len(ids) + 1} /\ Len(ids) + 1 \notin 1 .. Len(ids)
    BY <1>1
  <1>5. Extends(ids, ids')
    BY <1>1, <1>2 DEF Extends
  <1>6. QED
    BY <1>1, <1>2, <1>3, <1>4, <1>5

\* FindBucket makes the first bucket.
LEMMA TableFine ==
    ASSUME Inv
    PROVE  /\ Table \in Seq(Seq(Node)) /\ Len(Table) \in Nat \ {0} /\ Len(buckets) <= Len(Table)
           /\ Fine(Table, ids, added, removed, disabled)
           /\ buckets # <<>> => Table = buckets
           /\ buckets = <<>> => Len(Table) = 1 /\ Table[1] = <<>>
           /\ Len(Table) <= Bits
  <1>1. CASE buckets # <<>>
    <2>1. Table = buckets /\ Len(buckets) # 0
      BY <1>1, InvFacts DEF Table
    <2>2. QED
      BY <1>1, <2>1, InvFacts DEF Inv, Fine
  <1>2. CASE buckets = <<>>
    <2>1. Table = << <<>> >>
      BY <1>2 DEF Table
    <2>2. Len(Table) = 1 /\ Table[1] = <<>> /\ Table \in Seq(Seq(Node)) /\ Len(buckets) = 0
      BY <1>2, <2>1
    <2>3. Numbers(<<>>) = {} /\ Distinct(<<>>)
      BY DEF Numbers, Distinct
    <2>4. \A i : i \in 1 .. 1 <=> i = 1
      OBVIOUS
    <2>5. Held(Table) = {} /\ Held(buckets) = {}
      <3>1. Held(buckets) = {}
        BY <2>2 DEF Held
      <3>2. Held(Table) = {}
        BY <2>2, <2>3, <2>4 DEF Held
      <3>3. QED
        BY <3>1, <3>2
    <2>6. Unique(Table)
      BY <2>2, <2>3, <2>4 DEF Unique
    <2>7. Shaped(ids, <<>>) /\ 1 <= Bits
      BY SizesAssumption DEF Shaped
    <2>8. Prefixed(ids, <<>>, 1, 1 < 1)
      BY <2>3 DEF Prefixed
    <2>9. Fine(Table, ids, added, removed, disabled)
      BY <2>2, <2>4, <2>5, <2>6, <2>7, <2>8 DEF Fine, Inv
    <2>10. 0 <= 1 /\ 1 # 0 /\ 1 \in Nat
      OBVIOUS
    <2>11. QED
      BY <1>2, <2>2, <2>7, <2>9, <2>10
  <1>3. QED
    BY <1>1, <1>2

\* The table's part of TypeOK follows from the rest.
LEMMA TypeFromFine ==
    ASSUME NEW bs, NEW is, NEW a, NEW r, NEW d, Fine(bs, is, a, r, d)
    PROVE  Len(bs) <= Bits /\ \A i \in 1 .. Len(bs) : Len(bs[i]) <= K /\ bs[i] \in Seq(1 .. Len(is))
  BY DEF Fine, Shaped

-----------------------------------------------------------------------------
(* InsertNode. *)

LEMMA CallFacts ==
    ASSUME Inv, call.at # "idle"
    PROVE  /\ call # Idle /\ call \in [at : {"add", "size", "split", "again"}, node : Node, bucket : 1 .. Len(buckets)]
           /\ call.node \in Node /\ call.bucket \in 1 .. Len(buckets)
           /\ call.node \notin added \cup removed /\ Reaches(ids, call.node, call.bucket)
  <1>1. call # Idle
    BY DEF Idle
  <1>2. call \in [at : {"add", "size", "split", "again"}, node : Node, bucket : 1 .. Len(buckets)]
    BY <1>1 DEF Inv, TypeOK
  <1>3. call.node \notin added \cup removed /\ Reaches(ids, call.node, call.bucket)
    BY <1>1 DEF Inv, CallOK
  <1>4. QED
    BY <1>1, <1>2, <1>3

LEMMA InsertNodeInv == ASSUME Inv, NEW id \in Ids, InsertNode(id) PROVE Inv'
  <1> DEFINE n == Len(ids) + 1
             i == FindBucket(id, Len(Table))
  <1>1. /\ ids' = Append(ids, id) /\ buckets' = Table /\ call' = [at |-> "add", node |-> n, bucket |-> i]
        /\ UNCHANGED <<disabled, armed, added, removed, thrown>>
    BY DEF InsertNode
  <1>2. /\ Extends(ids, ids') /\ ids' \in Seq(Ids) /\ n \notin Node /\ ids'[n] = id
        /\ Node' = Node \cup {n}
    BY <1>1, ExtendsAppend
  <1>3. /\ Table \in Seq(Seq(Node)) /\ Len(Table) \in Nat \ {0} /\ Len(buckets) <= Len(Table)
        /\ Fine(Table, ids, added, removed, disabled) /\ Len(Table) <= Bits
    BY TableFine
  <1>4. i \in 1 .. Len(Table) /\ Raznica(id) >= i - 1 /\ (i < Len(Table) => Raznica(id) = i - 1)
    BY <1>3, FindBucketProps
  <1>5. Len(buckets) \in Nat
    BY InvFacts
  <1>6. disabled \subseteq Node /\ armed \subseteq 1 .. Len(buckets) /\ added \subseteq Node /\ removed \subseteq Node
        /\ thrown \in BOOLEAN
    BY DEF Inv, TypeOK
  <1> HIDE DEF n, i
  <1>7. Fine(buckets', ids', added', removed', disabled')
    BY <1>1, <1>2, <1>3, FineExtends
  <1>8. call'.at = "add" /\ call'.node = n /\ call'.bucket = i
    BY <1>1
  <1>9. CallOK'
    <2>1. n \notin added' \cup removed'
      BY <1>1, <1>2, <1>6
    <2>2. Reaches(ids', n, i) /\ (i < Len(buckets') => ~Misplaced(ids', n, i))
      BY <1>1, <1>2, <1>4 DEF Reaches, Misplaced
    <2>3. QED
      BY <1>8, <2>1, <2>2 DEF CallOK
  <1>10. TypeOK'
    <2>1. Table \in Seq(Seq(Node'))
      <3>1. Node \subseteq Node'
        BY <1>2
      <3>2. Seq(Node) \subseteq Seq(Node')
        BY <3>1
      <3>3. QED
        BY <1>3, <3>2
    <2>2. \A j \in 1 .. Len(Table) : Len(Table[j]) <= K
      BY <1>3, TypeFromFine
    <2>3. armed \subseteq 1 .. Len(Table)
      BY <1>3, <1>5, <1>6
    <2>4. call' \in [at : {"add", "size", "split", "again"}, node : Node', bucket : 1 .. Len(Table)]
      BY <1>1, <1>2, <1>4
    <2>5. QED
      BY <1>1, <1>2, <1>3, <1>6, <2>1, <2>2, <2>3, <2>4 DEF TypeOK
  <1>11. QED
    BY <1>7, <1>9, <1>10 DEF Inv

\* AddNode puts n, which is new, in bucket i or leaves it out; it takes out only disabled nodes.
LEMMA AddNodeFine ==
    ASSUME Inv, NEW i \in 1 .. Len(buckets), NEW n \in Node, n \notin added \cup removed, Reaches(ids, n, i),
           i < Len(buckets) => \/ ~Misplaced(ids, n, i)
                               \/ \A m \in Numbers(buckets[i]) : ~Misplaced(ids, m, i),
           AddNode(i, n), UNCHANGED <<ids, disabled, removed>>
    PROVE  /\ Fine(buckets', ids', added', removed', disabled')
           /\ buckets' \in Seq(Seq(Node)) /\ Len(buckets') = Len(buckets)
           /\ armed' \subseteq 1 .. Len(buckets) /\ added' \subseteq Node
  <1> DEFINE b0 == buckets[i]
             b == IF Len(b0) < K THEN b0 ELSE Enabled(b0)
             c == IF Len(b) < K THEN Append(b, n) ELSE b
  <1>1. /\ buckets' = [buckets EXCEPT ![i] = c]
        /\ added' = IF Len(b) < K THEN added \cup {n} ELSE added
        /\ armed' = armed \cup {i}
    BY DEF AddNode
  <1>2. b0 \in Seq(Node) /\ Len(b0) \in Nat /\ Len(b0) <= K /\ Distinct(b0) /\ Numbers(b0) \subseteq added \ removed
        /\ Prefixed(ids, b0, i, i < Len(buckets)) /\ buckets \in Seq(Seq(Node)) /\ added \subseteq Node
        /\ Node = 1 .. Len(ids)
    BY InvFacts
  <1>3. K \in Nat
    BY SizesAssumption
  <1> HIDE DEF b0
  <1>4. /\ b \in Seq(Node) /\ Len(b) \in Nat /\ Len(b) <= K /\ Distinct(b)
        /\ Numbers(b) \subseteq Numbers(b0) /\ Numbers(b0) \ disabled \subseteq Numbers(b)
    <2>1. CASE Len(b0) < K
      BY <1>2, <2>1
    <2>2. CASE ~(Len(b0) < K)
      <3>1. b = Kept(b0, Node \ disabled)
        BY <2>2 DEF Enabled
      <3>2. /\ Kept(b0, Node \ disabled) \in Seq(Node) /\ Len(Kept(b0, Node \ disabled)) <= Len(b0)
            /\ Numbers(Kept(b0, Node \ disabled)) = Numbers(b0) \cap (Node \ disabled)
            /\ Distinct(Kept(b0, Node \ disabled))
        BY <1>2, KeptProps
      <3> HIDE DEF b
      <3>3. b \in Seq(Node) /\ Len(b) <= Len(b0) /\ Distinct(b) /\ Numbers(b) = Numbers(b0) \cap (Node \ disabled)
        BY <3>1, <3>2
      <3>4. Len(b) \in Nat /\ Len(b) <= K
        BY <1>2, <1>3, <3>3
      <3>5. QED
        BY <1>2, <3>3, <3>4
    <2>3. QED
      BY <2>1, <2>2
  <1> HIDE DEF b
  <1>5. n \notin Numbers(b)
    BY <1>2, <1>4
  <1>6. /\ c \in Seq(Node) /\ Len(c) <= K /\ Distinct(c)
        /\ Numbers(c) = IF Len(b) < K THEN Numbers(b) \cup {n} ELSE Numbers(b)
    <2>1. CASE Len(b) < K
      <3>1. c = Append(b, n)
        BY <2>1
      <3>2. Append(b, n) \in Seq(Node) /\ Len(Append(b, n)) = Len(b) + 1
        BY <1>4
      <3>3. Len(b) + 1 <= K
        BY <1>3, <1>4, <2>1
      <3>4. Numbers(Append(b, n)) = Numbers(b) \cup {n} /\ Distinct(Append(b, n))
        BY <1>4, <1>5, NumbersAppend, DistinctAppend
      <3>5. QED
        BY <2>1, <3>1, <3>2, <3>3, <3>4
    <2>2. CASE ~(Len(b) < K)
      BY <1>4, <2>2
    <2>3. QED
      BY <2>1, <2>2
  <1> HIDE DEF c
  <1>7. Prefixed(ids, c, i, i < Len(buckets))
    <2>1. Numbers(c) \subseteq Numbers(b0) \cup {n}
      BY <1>4, <1>6
    <2>2. QED
      BY <1>2, <2>1 DEF Prefixed, b0
  <1>8. Replaced(buckets, i, c, buckets') /\ buckets' \in Seq(Seq(Node)) /\ Len(buckets') = Len(buckets)
    BY <1>1, <1>2, <1>6 DEF Replaced
  <1>9. Shaped(ids, c)
    BY <1>2, <1>6 DEF Shaped
  <1>10. Fine(buckets', ids, added', removed, disabled)
    <2>1. Fine(buckets, ids, added, removed, disabled) /\ Extends(ids, ids)
      BY ExtendsSame DEF Inv
    <2>2. \A m \in Numbers(c) : m \in Numbers(buckets[i]) \/ m \notin added
      BY <1>4, <1>6 DEF b0
    <2>3. Numbers(c) \subseteq added' \ removed /\ added \subseteq added' /\ added' \subseteq added \cup Numbers(c)
      BY <1>1, <1>2, <1>4, <1>6
    <2>4. Numbers(buckets[i]) \ Numbers(c) \subseteq disabled \cup removed
      BY <1>4, <1>6 DEF b0
    <2>5. removed \subseteq removed \cup (Numbers(buckets[i]) \ Numbers(c)) /\ removed \subseteq removed
      OBVIOUS
    <2>6. QED
      BY <1>6, <1>7, <1>8, <1>9, <2>1, <2>2, <2>3, <2>4, <2>5, ReplacedFine
  <1>11. armed \subseteq 1 .. Len(buckets)
    BY DEF Inv, TypeOK
  <1>12. QED
    BY <1>1, <1>2, <1>8, <1>10, <1>11

LEMMA AddInv == ASSUME Inv, Add PROVE Inv'
  <1>1. call.at = "add" /\ AddNode(call.bucket, call.node) /\ UNCHANGED <<ids, disabled, removed, thrown>>
        /\ call' = IF call.node \in added' \/ call.bucket # Len(buckets) THEN Idle ELSE [call EXCEPT !.at = "size"]
    BY DEF Add
  <1>2. /\ call # Idle /\ call \in [at : {"add", "size", "split", "again"}, node : Node, bucket : 1 .. Len(buckets)]
        /\ call.node \in Node /\ call.bucket \in 1 .. Len(buckets)
        /\ call.node \notin added \cup removed /\ Reaches(ids, call.node, call.bucket)
    BY <1>1, CallFacts
  <1>3. call.bucket < Len(buckets) => ~Misplaced(ids, call.node, call.bucket)
    BY <1>1, <1>2 DEF Inv, CallOK
  <1>4. /\ Fine(buckets', ids', added', removed', disabled')
        /\ buckets' \in Seq(Seq(Node)) /\ Len(buckets') = Len(buckets)
        /\ armed' \subseteq 1 .. Len(buckets) /\ added' \subseteq Node
    BY <1>1, <1>2, <1>3, AddNodeFine
  <1>5. Node' = Node
    BY <1>1 DEF Node
  <1>7. \/ call' = Idle
        \/ /\ call' \in [at : {"add", "size", "split", "again"}, node : Node, bucket : 1 .. Len(buckets)]
           /\ call'.at = "size" /\ call'.node = call.node /\ call'.bucket = call.bucket
           /\ call.node \notin added' /\ call.bucket = Len(buckets)
    BY <1>1, <1>2
  <1>8. CallOK'
    BY <1>1, <1>2, <1>4, <1>7 DEF CallOK
  <1>9. TypeOK'
    <2>1. Len(buckets') <= Bits /\ \A j \in 1 .. Len(buckets') : Len(buckets'[j]) <= K
      BY <1>4, TypeFromFine
    <2>2. ids' \in Seq(Ids) /\ disabled' \subseteq Node' /\ removed' \subseteq Node' /\ thrown' \in BOOLEAN
      BY <1>1, <1>5 DEF Inv, TypeOK
    <2>3. call' = Idle \/ call' \in [at : {"add", "size", "split", "again"}, node : Node', bucket : 1 .. Len(buckets')]
      BY <1>4, <1>5, <1>7
    <2>4. QED
      BY <1>4, <1>5, <2>1, <2>2, <2>3 DEF TypeOK
  <1>10. QED
    BY <1>4, <1>8, <1>9 DEF Inv

LEMMA AddAgainInv == ASSUME Inv, ~thrown, AddAgain PROVE Inv'
  <1>1. call.at = "again" /\ AddNode(call.bucket, call.node) /\ UNCHANGED <<ids, disabled, removed, thrown>>
        /\ call' = Idle
    BY DEF AddAgain
  <1>2. /\ call # Idle /\ call.node \in Node /\ call.bucket \in 1 .. Len(buckets)
        /\ call.node \notin added \cup removed /\ Reaches(ids, call.node, call.bucket)
    BY <1>1, CallFacts
  <1>3. \A n \in Numbers(buckets[call.bucket]) : ~Misplaced(ids, n, call.bucket)
    BY <1>1, <1>2 DEF Inv, CallOK
  <1>4. /\ Fine(buckets', ids', added', removed', disabled')
        /\ buckets' \in Seq(Seq(Node)) /\ Len(buckets') = Len(buckets)
        /\ armed' \subseteq 1 .. Len(buckets) /\ added' \subseteq Node
    BY <1>1, <1>2, <1>3, AddNodeFine
  <1>5. Node' = Node
    BY <1>1 DEF Node
  <1>6. CallOK'
    BY <1>1 DEF CallOK
  <1>7. TypeOK'
    <2>1. Len(buckets') <= Bits /\ \A j \in 1 .. Len(buckets') : Len(buckets'[j]) <= K
      BY <1>4, TypeFromFine
    <2>2. ids' \in Seq(Ids) /\ disabled' \subseteq Node' /\ removed' \subseteq Node' /\ thrown' \in BOOLEAN
      BY <1>1, <1>5 DEF Inv, TypeOK
    <2>3. QED
      BY <1>1, <1>4, <1>5, <2>1, <2>2 DEF TypeOK
  <1>8. QED
    BY <1>4, <1>6, <1>7 DEF Inv

LEMMA TestSizeInv == ASSUME Inv, TestSize PROVE Inv'
  <1>1. /\ call.at = "size" /\ UNCHANGED <<ids, disabled, buckets, armed, added, removed, thrown>>
        /\ \/ call' = Idle
           \/ Len(buckets) < Bits - 1 /\ call' = [call EXCEPT !.at = "split"]
    BY DEF TestSize
  <1>2. /\ call # Idle /\ call \in [at : {"add", "size", "split", "again"}, node : Node, bucket : 1 .. Len(buckets)]
        /\ call.node \notin added \cup removed /\ Reaches(ids, call.node, call.bucket)
    BY <1>1, CallFacts
  <1>3. call.bucket = Len(buckets)
    BY <1>1, <1>2 DEF Inv, CallOK
  <1>4. \/ call' = Idle
        \/ /\ call' \in [at : {"add", "size", "split", "again"}, node : Node, bucket : 1 .. Len(buckets)]
           /\ call'.at = "split" /\ call'.node = call.node /\ call'.bucket = call.bucket /\ Len(buckets) < Bits - 1
    BY <1>1, <1>2
  <1>5. CallOK'
    BY <1>1, <1>2, <1>3, <1>4 DEF CallOK
  <1>6. Node' = Node
    BY <1>1 DEF Node
  <1>7. TypeOK'
    BY <1>1, <1>4, <1>6 DEF Inv, TypeOK
  <1>8. QED
    BY <1>1, <1>5, <1>7 DEF Inv

LEMMA FrontProps ==
    ASSUME NEW S, NEW s \in Seq(S), Len(s) \in Nat \ {0}
    PROVE  /\ Front(s) \in Seq(S) /\ Len(Front(s)) = Len(s) - 1
           /\ \A j \in 1 .. Len(s) - 1 : Front(s)[j] = s[j]
  <1> DEFINE m == Len(s) - 1
  <1>1. m \in Nat /\ m <= Len(s) /\ Front(s) = SubSeq(s, 1, m)
    BY DEF Front
  <1>2. \A j \in 1 .. m : j \in 1 .. Len(s)
    BY <1>1
  <1> HIDE DEF m
  <1>3. SubSeq(s, 1, m) \in Seq(S) /\ Len(SubSeq(s, 1, m)) = m
    BY <1>1, <1>2
  <1>4. \A j \in 1 .. m : SubSeq(s, 1, m)[j] = s[j]
    BY <1>1, <1>2
  <1>5. QED
    BY <1>1, <1>3, <1>4 DEF m

\* s is f, then g.
Joined(S, s, f, g) ==
    /\ s \in Seq(S) /\ Len(s) = Len(f) + Len(g)
    /\ \A j \in 1 .. Len(f) : s[j] = f[j]
    /\ \A j \in 1 .. Len(g) : s[j + Len(f)] = g[j]

LEMMA ConcatJoined ==
    ASSUME NEW S, NEW f \in Seq(S), NEW g \in Seq(S)
    PROVE  Joined(S, f \o g, f, g)
  BY DEF Joined

\* The last bucket of bs is parted in c1 and c2.
Parted(bs, c1, c2, bs2) ==
    /\ Len(bs2) = Len(bs) + 1 /\ bs2[Len(bs)] = c1 /\ bs2[Len(bs) + 1] = c2
    /\ \A j \in 1 .. Len(bs) - 1 : bs2[j] = bs[j]

LEMMA PartedFine ==
    ASSUME NEW bs, NEW bs2, NEW is, NEW a, NEW r, NEW d, NEW c1, NEW c2, NEW S,
           Len(bs) \in Nat \ {0}, Len(bs) < Bits, Fine(bs, is, a, r, d), Parted(bs, c1, c2, bs2),
           Shaped(is, c1), Shaped(is, c2), Distinct(c1), Distinct(c2),
           Numbers(c1) = Numbers(bs[Len(bs)]) \cap S, Numbers(c2) = Numbers(bs[Len(bs)]) \ S,
           \A n \in Numbers(bs[Len(bs)]) : n \in S <=> Raznica(is[n]) = Len(bs) - 1
    PROVE  Fine(bs2, is, a, r, d)
  <1> DEFINE L == Len(bs)
             b == bs[L]
  <1>1. L \in 1 .. L /\ L + 1 \in 1 .. L + 1 /\ L \in 1 .. L + 1 /\ L # L + 1 /\ L < L + 1 /\ ~(L + 1 < L + 1)
    OBVIOUS
  <1>2. \A j \in 1 .. L + 1 : j \in 1 .. L - 1 \/ j = L \/ j = L + 1
    OBVIOUS
  <1>3. \A j \in 1 .. L - 1 : j \in 1 .. L /\ j # L /\ j # L + 1 /\ j < L /\ j < L + 1 /\ j \in 1 .. L + 1
    OBVIOUS
  <1>4. \A j \in 1 .. L : j \in 1 .. L - 1 \/ j = L
    OBVIOUS
  <1>5. (L + 1) - 1 = L /\ \A z \in Nat : z >= L - 1 /\ z # L - 1 => z >= L
    OBVIOUS
  <1>6. L + 1 <= Bits
    BY SizesAssumption
  <1>7. /\ Len(bs2) = L + 1 /\ bs2[L] = c1 /\ bs2[L + 1] = c2 /\ \A j \in 1 .. L - 1 : bs2[j] = bs[j]
        /\ Numbers(c1) = Numbers(b) \cap S /\ Numbers(c2) = Numbers(b) \ S
        /\ \A n \in Numbers(b) : n \in S <=> Raznica(is[n]) = L - 1
    BY DEF Parted
  <1>8. /\ \A j \in 1 .. L : Shaped(is, bs[j]) /\ Prefixed(is, bs[j], j, j < L)
        /\ \A j, k \in 1 .. L : j # k => Numbers(bs[j]) \cap Numbers(bs[k]) = {}
        /\ \A j \in 1 .. L : Distinct(bs[j])
        /\ a \ (d \cup r) \subseteq Held(bs) /\ Held(bs) \subseteq a \ r
    BY DEF Fine, Unique
  <1>9. Held(bs) = UNION {Numbers(bs[j]) : j \in 1 .. L}
    BY DEF Held
  <1> HIDE DEF L
  <1>10. Unique(bs2)
    <2>1. \A j \in 1 .. L + 1 : Distinct(bs2[j])
      BY <1>2, <1>3, <1>7, <1>8
    <2>2. ASSUME NEW j \in 1 .. L + 1, NEW k \in 1 .. L + 1, j # k
          PROVE  Numbers(bs2[j]) \cap Numbers(bs2[k]) = {}
      <3>1. \A m \in 1 .. L - 1 : /\ Numbers(bs2[m]) \cap Numbers(c1) = {}
                                  /\ Numbers(bs2[m]) \cap Numbers(c2) = {}
        <4>1. SUFFICES ASSUME NEW m \in 1 .. L - 1
                       PROVE  Numbers(bs2[m]) \cap Numbers(c1) = {} /\ Numbers(bs2[m]) \cap Numbers(c2) = {}
          OBVIOUS
        <4>2. bs2[m] = bs[m] /\ Numbers(bs[m]) \cap Numbers(b) = {}
          BY <1>1, <1>3, <1>7, <1>8
        <4>3. Numbers(c1) \subseteq Numbers(b) /\ Numbers(c2) \subseteq Numbers(b)
          BY <1>7
        <4>4. QED
          BY <4>2, <4>3
      <3>2. Numbers(c1) \cap Numbers(c2) = {}
        BY <1>7
      <3>3. CASE j \in 1 .. L - 1 /\ k \in 1 .. L - 1
        BY <1>3, <1>7, <1>8, <2>2, <3>3
      <3>4. QED
        BY <1>2, <1>7, <2>2, <3>1, <3>2, <3>3
    <2>3. QED
      BY <1>7, <2>1, <2>2 DEF Unique
  <1>11. ASSUME NEW j \in 1 .. L + 1 PROVE Shaped(is, bs2[j]) /\ Prefixed(is, bs2[j], j, j < L + 1)
    <2>1. Prefixed(is, b, L, L < L)
      BY <1>1, <1>8
    <2>2. CASE j \in 1 .. L - 1
      <3>1. Shaped(is, bs[j]) /\ Prefixed(is, bs[j], j, j < L) /\ bs2[j] = bs[j] /\ j < L /\ j < L + 1
        BY <1>3, <1>7, <1>8, <2>2
      <3>2. QED
        BY <3>1 DEF Prefixed
    <2>3. CASE j = L
      <3>1. \A n \in Numbers(c1) : Raznica(is[n]) = L - 1 /\ n \in Numbers(b)
        BY <1>7
      <3>2. Prefixed(is, c1, L, L < L + 1)
        BY <2>1, <3>1 DEF Prefixed, Misplaced
      <3>3. QED
        BY <1>7, <2>3, <3>2
    <2>4. CASE j = L + 1
      <3>1. \A n \in Numbers(c2) : Raznica(is[n]) # L - 1 /\ Raznica(is[n]) >= L - 1
        BY <1>7, <2>1 DEF Prefixed, Reaches
      <3>2. \A n \in Numbers(c2) : Raznica(is[n]) >= (L + 1) - 1
        BY <1>5, <3>1, RaznicaNat
      <3>3. Prefixed(is, c2, L + 1, L + 1 < L + 1)
        BY <1>1, <3>2 DEF Prefixed, Reaches
      <3>4. QED
        BY <1>7, <2>4, <3>3
    <2>5. QED
      BY <1>2, <2>2, <2>3, <2>4
  <1>12. Held(bs2) = Held(bs)
    <2>1. Held(bs2) = UNION {Numbers(bs2[j]) : j \in 1 .. L + 1}
      BY <1>7 DEF Held
    <2>2. ASSUME NEW n \in Held(bs2) PROVE n \in Held(bs)
      <3>1. PICK j \in 1 .. L + 1 : n \in Numbers(bs2[j])
        BY <2>1
      <3>2. CASE j \in 1 .. L - 1
        BY <1>3, <1>7, <1>9, <3>1, <3>2
      <3>3. CASE j = L \/ j = L + 1
        <4>1. n \in Numbers(b)
          BY <1>7, <3>1, <3>3
        <4>2. QED
          BY <1>1, <1>9, <4>1
      <3>4. QED
        BY <1>2, <3>2, <3>3
    <2>3. ASSUME NEW n \in Held(bs) PROVE n \in Held(bs2)
      <3>1. PICK j \in 1 .. L : n \in Numbers(bs[j])
        BY <1>9
      <3>2. CASE j \in 1 .. L - 1
        BY <1>3, <1>7, <2>1, <3>1, <3>2
      <3>3. CASE j = L
        <4>1. n \in Numbers(c1) \/ n \in Numbers(c2)
          BY <1>7, <3>1, <3>3
        <4>2. QED
          BY <1>1, <1>7, <2>1, <4>1
      <3>4. QED
        BY <1>4, <3>2, <3>3
    <2>4. QED
      BY <2>2, <2>3
  <1>13. QED
    BY <1>6, <1>7, <1>8, <1>10, <1>11, <1>12 DEF Fine

LEMMA SplitInv == ASSUME Inv, SplitTheBucket PROVE Inv'
  <1> DEFINE L == Len(buckets)
             b == buckets[L]
             c1 == Kept(b, Stays)
             c2 == Kept(b, Leaves)
  <1>1. /\ call.at = "split" /\ thrown' = (b = <<>>) /\ call' = [call EXCEPT !.at = "again"]
        /\ buckets' = IF thrown' THEN buckets ELSE Front(buckets) \o <<c1, c2>>
        /\ UNCHANGED <<ids, disabled, armed, added, removed>>
    BY DEF SplitTheBucket, Last
  <1>2. /\ call # Idle /\ call \in [at : {"add", "size", "split", "again"}, node : Node, bucket : 1 .. L]
        /\ call.node \in Node /\ call.bucket \in 1 .. L
        /\ call.node \notin added \cup removed /\ Reaches(ids, call.node, call.bucket)
    BY <1>1, CallFacts
  <1>3. call.bucket = L /\ L < Bits - 1
    BY <1>1, <1>2 DEF Inv, CallOK
  <1>4. L \in Nat /\ buckets \in Seq(Seq(Node)) /\ Node = 1 .. Len(ids) /\ Len(ids) \in Nat
    BY InvFacts
  <1>5. L \in 1 .. L /\ L \in Nat \ {0} /\ L < Bits
    BY <1>2, <1>3, <1>4, SizesAssumption
  <1>6. b \in Seq(Node) /\ Len(b) \in Nat /\ Len(b) <= K /\ Distinct(b)
    BY <1>5, InvFacts
  <1>7. Node' = Node
    BY <1>1 DEF Node
  <1>8. /\ call' \in [at : {"add", "size", "split", "again"}, node : Node, bucket : 1 .. L]
        /\ call'.at = "again" /\ call'.node = call.node /\ call'.bucket = L
    BY <1>1, <1>2, <1>3
  <1>9. thrown' \in BOOLEAN
    BY <1>1
  <1>10. CASE thrown'
    <2>1. UNCHANGED <<ids, disabled, buckets, armed, added, removed>>
      BY <1>1, <1>10
    <2>2. CallOK'
      BY <1>1, <1>2, <1>3, <1>8, <1>10, <2>1 DEF CallOK
    <2>3. TypeOK'
      BY <1>7, <1>8, <1>9, <2>1 DEF Inv, TypeOK
    <2>4. QED
      BY <2>1, <2>2, <2>3 DEF Inv
  <1>11. CASE ~thrown'
    <2>1. /\ c1 \in Seq(Node) /\ Len(c1) <= Len(b) /\ Numbers(c1) = Numbers(b) \cap Stays /\ Distinct(c1)
          /\ c2 \in Seq(Node) /\ Len(c2) <= Len(b) /\ Numbers(c2) = Numbers(b) \cap Leaves /\ Distinct(c2)
      BY <1>6, KeptProps
    <2>2. buckets' = Front(buckets) \o <<c1, c2>>
      BY <1>1, <1>11
    <2> HIDE DEF L, c1, c2
    <2>3. Numbers(b) \subseteq Node
      BY <1>6 DEF Numbers
    <2> DEFINE S == Stays
    <2>4. Numbers(c2) = Numbers(b) \ S /\ \A n \in Numbers(b) : n \in S <=> Raznica(ids[n]) = L - 1
      BY <2>1, <2>3 DEF Stays, Leaves, L
    <2>5. buckets' \in Seq(Seq(Node)) /\ Parted(buckets, c1, c2, buckets')
      <3>1. /\ Front(buckets) \in Seq(Seq(Node)) /\ Len(Front(buckets)) = L - 1
            /\ \A j \in 1 .. L - 1 : Front(buckets)[j] = buckets[j]
        BY <1>4, <1>5, FrontProps DEF L
      <3> DEFINE f == Front(buckets)
                 g == <<c1, c2>>
      <3>2. g \in Seq(Seq(Node)) /\ Len(g) = 2 /\ g[1] = c1 /\ g[2] = c2
        BY <2>1
      <3> HIDE DEF f, g
      <3>3. buckets' = f \o g
        BY <2>2 DEF f, g
      <3>4. /\ buckets' \in Seq(Seq(Node)) /\ Len(buckets') = Len(f) + Len(g)
            /\ (\A j \in 1 .. Len(f) : buckets'[j] = f[j])
            /\ (\A j \in 1 .. Len(g) : buckets'[j + Len(f)] = g[j])
        <4>1. f \in Seq(Seq(Node)) /\ g \in Seq(Seq(Node))
          BY <3>1, <3>2 DEF f
        <4>2. Joined(Seq(Node), f \o g, f, g)
          BY <4>1, ConcatJoined
        <4>3. Joined(Seq(Node), buckets', f, g)
          BY <3>3, <4>2, Zenon
        <4>4. QED
          BY <4>3 DEF Joined
      <3>5. Len(f) + 2 = L + 1 /\ 1 + Len(f) = L /\ 2 + Len(f) = L + 1 /\ Len(f) = L - 1
        BY <1>4, <3>1 DEF f
      <3>6. \A j \in 1 .. L - 1 : buckets'[j] = buckets[j]
        BY <3>1, <3>4, <3>5 DEF f
      <3>7. buckets'[1 + Len(f)] = c1 /\ buckets'[2 + Len(f)] = c2
        BY <3>2, <3>4
      <3>8. QED
        BY <3>2, <3>4, <3>5, <3>6, <3>7 DEF Parted, L
    <2>6. Len(c1) <= K /\ Len(c2) <= K
      <3>1. Len(c1) \in Nat /\ Len(c2) \in Nat /\ K \in Nat
        BY <2>1, SizesAssumption
      <3>2. QED
        BY <1>6, <2>1, <3>1
    <2>7. Shaped(ids, c1) /\ Shaped(ids, c2)
      BY <1>4, <2>1, <2>6 DEF Shaped
    <2>8. Fine(buckets, ids, added, removed, disabled)
      BY DEF Inv
    <2>9. Fine(buckets', ids, added, removed, disabled)
      <3> HIDE DEF S
      <3>1. /\ Numbers(c1) = Numbers(buckets[Len(buckets)]) \cap S /\ Numbers(c2) = Numbers(buckets[Len(buckets)]) \ S
            /\ \A n \in Numbers(buckets[Len(buckets)]) : n \in S <=> Raznica(ids[n]) = Len(buckets) - 1
        BY <2>1, <2>4 DEF L, S
      <3>2. Len(buckets) \in Nat \ {0} /\ Len(buckets) < Bits
        BY <1>5 DEF L
      <3>3. QED
        BY <2>1, <2>5, <2>7, <2>8, <3>1, <3>2, PartedFine
    <2>10. Len(buckets') = L + 1 /\ buckets'[L] = c1
      BY <2>5 DEF Parted, L
    <2>11. CallOK'
      <3>1. \A n \in Numbers(buckets'[L]) : ~Misplaced(ids', n, L)
        BY <1>1, <2>1, <2>4, <2>10 DEF Misplaced
      <3>2. QED
        BY <1>1, <1>2, <1>3, <1>8, <3>1 DEF CallOK
    <2>12. TypeOK'
      <3>1. Len(buckets') <= Bits /\ \A j \in 1 .. Len(buckets') : Len(buckets'[j]) <= K
        BY <2>9, TypeFromFine
      <3>2. \A j \in 1 .. L : j \in 1 .. Len(buckets')
        BY <1>4, <2>10
      <3>3. /\ ids' \in Seq(Ids) /\ disabled' \subseteq Node' /\ removed' \subseteq Node' /\ added' \subseteq Node'
            /\ armed' \subseteq 1 .. L
        BY <1>1, <1>7 DEF Inv, TypeOK, L
      <3>4. call' \in [at : {"add", "size", "split", "again"}, node : Node', bucket : 1 .. Len(buckets')]
        BY <1>7, <1>8, <3>2
      <3>5. armed' \subseteq 1 .. Len(buckets')
        BY <3>2, <3>3
      <3>6. QED
        BY <1>7, <1>9, <2>5, <3>1, <3>3, <3>4, <3>5 DEF TypeOK
    <2>13. QED
      BY <1>1, <2>9, <2>11, <2>12 DEF Inv
  <1>12. QED
    BY <1>9, <1>10, <1>11

-----------------------------------------------------------------------------
(* The other calls, the timers and the network. *)

\* The type of a state whose table is fine.
LEMMA IdleInv ==
    ASSUME Inv, call' = Idle, ids' \in Seq(Ids), Node \subseteq Node', disabled' = disabled, thrown' = thrown,
           buckets' \in Seq(Seq(Node')), armed' \subseteq 1 .. Len(buckets'), added' \subseteq Node', removed' \subseteq Node',
           Fine(buckets', ids', added', removed', disabled')
    PROVE  Inv'
  <1>1. Len(buckets') <= Bits /\ \A j \in 1 .. Len(buckets') : Len(buckets'[j]) <= K
    BY TypeFromFine
  <1>2. disabled \subseteq Node /\ thrown \in BOOLEAN
    BY DEF Inv, TypeOK
  <1>3. TypeOK'
    BY <1>1, <1>2 DEF TypeOK
  <1>4. CallOK'
    BY DEF CallOK
  <1>5. QED
    BY <1>3, <1>4 DEF Inv

LEMMA KickNodeInv == ASSUME Inv, NEW id \in Ids, KickNode(id) PROVE Inv'
  <1> DEFINE i == FindBucket(id, Len(Table))
             b == Table[i]
             k == FindNode(b, id)
  <1>1. /\ call = Idle
        /\ buckets' = IF k = 0 THEN Table ELSE [Table EXCEPT ![i] = RemoveAt(b, k)]
        /\ removed' = IF k = 0 THEN removed ELSE removed \cup {b[k]}
        /\ armed' = armed \cup {i}
        /\ UNCHANGED <<ids, disabled, call, added, thrown>>
    BY DEF KickNode
  <1>2. /\ Table \in Seq(Seq(Node)) /\ Len(Table) \in Nat \ {0} /\ Len(buckets) <= Len(Table)
        /\ Fine(Table, ids, added, removed, disabled)
    BY TableFine
  <1>3. i \in 1 .. Len(Table)
    BY <1>2, FindBucketProps
  <1> HIDE DEF i
  <1>4. /\ Distinct(b) /\ Numbers(b) \subseteq added \ removed /\ Shaped(ids, b)
        /\ Prefixed(ids, b, i, i < Len(Table)) /\ b \in Seq(Node)
    BY <1>2, <1>3 DEF Fine, Unique, Held
  <1>5. k = 0 \/ k \in 1 .. Len(b)
    BY <1>4, FindNodeProps
  <1> HIDE DEF k
  <1>6. Len(buckets) \in Nat /\ Node' = Node /\ ids' \in Seq(Ids) /\ added' \subseteq Node' /\ removed \subseteq Node
        /\ armed \subseteq 1 .. Len(buckets) /\ Node = 1 .. Len(ids)
    BY <1>1, InvFacts DEF Inv, TypeOK, Node
  <1>7. armed' \subseteq 1 .. Len(Table)
    BY <1>1, <1>2, <1>3, <1>6
  <1>8. CASE k = 0
    <2>1. buckets' = Table /\ removed' = removed
      BY <1>1, <1>8
    <2>2. QED
      BY <1>1, <1>2, <1>6, <1>7, <2>1, IdleInv
  <1>9. CASE k \in 1 .. Len(b)
    <2> DEFINE c == RemoveAt(b, k)
    <2>1. k # 0
      BY <1>9
    <2>2. buckets' = [Table EXCEPT ![i] = c] /\ removed' = removed \cup {b[k]}
      BY <1>1, <2>1
    <2>3. c \in Seq(Node) /\ Len(c) <= Len(b) /\ Numbers(c) = Numbers(b) \ {b[k]} /\ Distinct(c)
      BY <1>4, <1>9, RemoveProps
    <2> HIDE DEF c
    <2>4. b[k] \in Numbers(b) /\ b[k] \in Node
      BY <1>4, <1>9 DEF Numbers
    <2>5. Shaped(ids, c)
      <3>1. Len(c) \in Nat /\ Len(b) \in Nat /\ Len(b) <= K /\ K \in Nat
        BY <1>4, <2>3, SizesAssumption DEF Shaped
      <3>2. Len(c) <= K
        BY <2>3, <3>1
      <3>3. QED
        BY <1>6, <2>3, <3>2 DEF Shaped
    <2>6. Prefixed(ids, c, i, i < Len(Table))
      BY <1>4, <2>3 DEF Prefixed
    <2>7. Replaced(Table, i, c, buckets') /\ buckets' \in Seq(Seq(Node)) /\ Len(buckets') = Len(Table)
      BY <1>2, <1>3, <2>2, <2>3 DEF Replaced
    <2>8. Fine(buckets', ids, added, removed', disabled)
      <3>1. Extends(ids, ids)
        BY ExtendsSame
      <3>2. /\ \A n \in Numbers(c) : n \in Numbers(Table[i]) \/ n \notin added
            /\ Numbers(c) \subseteq added \ removed' /\ removed \subseteq removed'
            /\ removed' \subseteq removed \cup (Numbers(Table[i]) \ Numbers(c))
            /\ Numbers(Table[i]) \ Numbers(c) \subseteq disabled \cup removed'
        BY <1>4, <2>2, <2>3, <2>4
      <3>3. added \subseteq added /\ added \subseteq added \cup Numbers(c)
        OBVIOUS
      <3>4. QED
        BY <1>2, <1>3, <2>3, <2>5, <2>6, <2>7, <3>1, <3>2, <3>3, ReplacedFine
    <2>9. removed' \subseteq Node'
      BY <1>6, <2>2, <2>4
    <2>10. QED
      BY <1>1, <1>6, <1>7, <2>7, <2>8, <2>9, IdleInv
  <1>10. QED
    BY <1>5, <1>8, <1>9

LEMMA ResetNodeInv == ASSUME Inv, NEW i \in 1 .. Len(buckets), NEW id \in Ids, ResetNode(i, id) PROVE Inv'
  <1> DEFINE b == buckets[i]
             k == FindNode(b, id)
             x == Len(ids) + 1
  <1>1. /\ call = Idle /\ ids' = Append(ids, id)
        /\ buckets' = IF k = 0 THEN buckets ELSE [buckets EXCEPT ![i] = [b EXCEPT ![k] = x]]
        /\ added' = IF k = 0 THEN added ELSE added \cup {x}
        /\ removed' = IF k = 0 THEN removed ELSE removed \cup {b[k]}
        /\ armed' = armed \cup {i}
        /\ UNCHANGED <<disabled, call, thrown>>
    BY DEF ResetNode
  <1>2. /\ Extends(ids, ids') /\ ids' \in Seq(Ids) /\ x \notin Node /\ ids'[x] = id
        /\ Node' = Node \cup {x} /\ Len(ids') = x /\ \A n \in Node : ids'[n] = ids[n]
    BY <1>1, ExtendsAppend
  <1>3. /\ b \in Seq(Node) /\ Distinct(b) /\ Numbers(b) \subseteq added \ removed /\ Len(b) <= K
        /\ Prefixed(ids, b, i, i < Len(buckets)) /\ buckets \in Seq(Seq(Node))
        /\ added \subseteq Node /\ removed \subseteq Node
    BY InvFacts
  <1>4. \/ k = 0
        \/ k \in 1 .. Len(b) /\ ids[b[k]] = id
    BY <1>3, FindNodeProps
  <1>5. Node' = 1 .. Len(ids') /\ Node \subseteq Node' /\ x \in Node'
    BY <1>2 DEF Node
  <1>6. buckets \in Seq(Seq(Node')) /\ b \in Seq(Node')
    <2>1. Seq(Node) \subseteq Seq(Node')
      <3>1. Node \subseteq Node'
        BY <1>5
      <3>2. QED
        BY <3>1
    <2>2. QED
      BY <1>3, <2>1
  <1>7. armed' \subseteq 1 .. Len(buckets)
    BY <1>1 DEF Inv, TypeOK
  <1>8. Fine(buckets, ids, added, removed, disabled)
    BY DEF Inv
  <1> HIDE DEF x, k
  <1>9. CASE k = 0
    <2>1. buckets' = buckets /\ added' = added /\ removed' = removed
      BY <1>1, <1>9
    <2>2. Fine(buckets', ids', added', removed', disabled')
      BY <1>1, <1>2, <1>8, <2>1, FineExtends
    <2>3. added' \subseteq Node' /\ removed' \subseteq Node'
      BY <1>3, <1>5, <2>1
    <2>4. QED
      BY <1>1, <1>2, <1>5, <1>6, <1>7, <2>1, <2>2, <2>3, IdleInv
  <1>10. CASE k \in 1 .. Len(b) /\ ids[b[k]] = id
    <2> DEFINE c == [b EXCEPT ![k] = x]
    <2>1. k # 0
      BY <1>10
    <2>2. buckets' = [buckets EXCEPT ![i] = c] /\ removed' = removed \cup {b[k]} /\ added' = added \cup {x}
      BY <1>1, <2>1
    <2>3. x \notin Numbers(b) /\ b[k] \in Numbers(b) /\ b[k] \in Node
      BY <1>2, <1>3, <1>10 DEF Numbers
    <2>4. c \in Seq(Node') /\ Len(c) = Len(b) /\ Numbers(c) = (Numbers(b) \ {b[k]}) \cup {x} /\ Distinct(c)
      <3>1. b \in Seq(Node') /\ k \in 1 .. Len(b) /\ Distinct(b) /\ x \in Node' /\ x \notin Numbers(b)
        BY <1>3, <1>5, <1>6, <1>10, <2>3
      <3> HIDE DEF b
      <3>2. c \in Seq(Node') /\ Len(c) = Len(b) /\ Replaced(b, k, x, c)
        BY <3>1 DEF Replaced
      <3> HIDE DEF c
      <3>3. QED
        BY <3>1, <3>2, ReplaceProps
    <2> HIDE DEF c
    <2>5. Shaped(ids', c)
      BY <1>3, <1>5, <2>4 DEF Shaped
    <2>6. Prefixed(ids', c, i, i < Len(buckets))
      <3>1. Raznica(ids'[x]) = Raznica(ids[b[k]])
        BY <1>2, <1>10
      <3>2. \A n \in Numbers(b) : Raznica(ids'[n]) = Raznica(ids[n])
        BY <1>2, <1>3
      <3>3. \A n \in Numbers(c) : n = x \/ (n \in Numbers(b) /\ n # b[k])
        BY <2>4
      <3>4. \A n \in Numbers(c) : Reaches(ids', n, i)
        BY <1>3, <2>3, <3>1, <3>2, <3>3 DEF Prefixed, Reaches
      <3>5. ASSUME i < Len(buckets), NEW m \in Numbers(c), NEW n \in Numbers(c),
                   Misplaced(ids', m, i), Misplaced(ids', n, i)
            PROVE  m = n
        <4> DEFINE Old(z) == IF z = x THEN b[k] ELSE z
        <4>1. Misplaced(ids, Old(m), i) /\ Misplaced(ids, Old(n), i) /\ Old(m) \in Numbers(b) /\ Old(n) \in Numbers(b)
          BY <2>3, <3>1, <3>2, <3>3, <3>5 DEF Misplaced
        <4>2. Old(m) = Old(n)
          BY <1>3, <3>5, <4>1 DEF Prefixed
        <4>3. QED
          BY <3>3, <4>2
      <3>6. QED
        BY <3>4, <3>5 DEF Prefixed
    <2>7. Replaced(buckets, i, c, buckets') /\ buckets' \in Seq(Seq(Node')) /\ Len(buckets') = Len(buckets)
      BY <1>6, <2>2, <2>4 DEF Replaced
    <2>8. Fine(buckets', ids', added', removed', disabled)
      <3>1. \A n \in Numbers(c) : n \in Numbers(buckets[i]) \/ n \notin added
        BY <1>2, <1>3, <2>4
      <3>2. Numbers(c) \subseteq added' \ removed'
        BY <1>2, <1>3, <2>2, <2>3, <2>4
      <3>3. /\ added \subseteq added' /\ removed \subseteq removed' /\ added' \subseteq added \cup Numbers(c)
            /\ removed' \subseteq removed \cup (Numbers(buckets[i]) \ Numbers(c))
            /\ Numbers(buckets[i]) \ Numbers(c) \subseteq disabled \cup removed'
        BY <2>2, <2>3, <2>4
      <3>4. QED
        <4> DEFINE bs2 == buckets'
                   is2 == ids'
                   a2 == added'
                   r2 == removed'
        <4>1. /\ Fine(buckets, ids, added, removed, disabled) /\ Extends(ids, is2) /\ Replaced(buckets, i, c, bs2)
              /\ Shaped(is2, c) /\ Distinct(c) /\ Prefixed(is2, c, i, i < Len(buckets))
              /\ (\A n \in Numbers(c) : n \in Numbers(buckets[i]) \/ n \notin added)
              /\ Numbers(c) \subseteq a2 \ r2 /\ added \subseteq a2 /\ removed \subseteq r2
              /\ a2 \subseteq added \cup Numbers(c) /\ r2 \subseteq removed \cup (Numbers(buckets[i]) \ Numbers(c))
              /\ Numbers(buckets[i]) \ Numbers(c) \subseteq disabled \cup r2
          BY <1>2, <1>8, <2>4, <2>5, <2>6, <2>7, <3>1, <3>2, <3>3
        <4> HIDE DEF bs2, is2, a2, r2, b
        <4>2. Fine(bs2, is2, a2, r2, disabled)
          BY <4>1, ReplacedFine
        <4>3. QED
          BY <4>2 DEF bs2, is2, a2, r2
    <2>9. added' \subseteq Node' /\ removed' \subseteq Node'
      BY <1>3, <1>5, <2>2, <2>3
    <2>10. QED
      BY <1>1, <1>2, <1>5, <1>7, <2>7, <2>8, <2>9, IdleInv
  <1>11. QED
    BY <1>4, <1>9, <1>10

LEMMA UpdateNodesInv == ASSUME Inv, NEW i \in 1 .. Len(buckets), UpdateNodes(i) PROVE Inv'
  <1> DEFINE b == buckets[i]
             c == Enabled(b)
  <1>1. buckets' = [buckets EXCEPT ![i] = c] /\ UNCHANGED <<ids, disabled, armed, call, added, removed, thrown>>
    BY DEF UpdateNodes
  <1>2. /\ b \in Seq(Node) /\ Distinct(b) /\ Numbers(b) \subseteq added \ removed /\ Len(b) <= K /\ Len(b) \in Nat
        /\ Prefixed(ids, b, i, i < Len(buckets)) /\ buckets \in Seq(Seq(Node)) /\ Node = 1 .. Len(ids)
    BY InvFacts
  <1>3. c \in Seq(Node) /\ Len(c) <= Len(b) /\ Numbers(c) = Numbers(b) \cap (Node \ disabled) /\ Distinct(c)
    BY <1>2, KeptProps DEF Enabled
  <1> HIDE DEF c
  <1>4. Numbers(b) \subseteq Node /\ Node' = Node
    BY <1>1, <1>2 DEF Numbers, Node
  <1>5. Shaped(ids, c)
    <2>1. Len(c) \in Nat /\ K \in Nat
      BY <1>3, SizesAssumption
    <2>2. Len(c) <= K
      BY <1>2, <1>3, <2>1
    <2>3. QED
      BY <1>2, <1>3, <2>2 DEF Shaped
  <1>6. Prefixed(ids, c, i, i < Len(buckets))
    BY <1>2, <1>3 DEF Prefixed
  <1>7. Replaced(buckets, i, c, buckets') /\ buckets' \in Seq(Seq(Node)) /\ Len(buckets') = Len(buckets)
    BY <1>1, <1>2, <1>3 DEF Replaced
  <1>8. Fine(buckets', ids, added, removed, disabled)
    <2>1. Extends(ids, ids) /\ Fine(buckets, ids, added, removed, disabled)
      BY ExtendsSame DEF Inv
    <2>2. /\ \A n \in Numbers(c) : n \in Numbers(buckets[i]) \/ n \notin added
          /\ Numbers(c) \subseteq added \ removed
          /\ Numbers(buckets[i]) \ Numbers(c) \subseteq disabled \cup removed
      BY <1>2, <1>3, <1>4
    <2>3. /\ added \subseteq added /\ added \subseteq added \cup Numbers(c)
          /\ removed \subseteq removed /\ removed \subseteq removed \cup (Numbers(buckets[i]) \ Numbers(c))
      OBVIOUS
    <2>4. QED
      BY <1>3, <1>5, <1>6, <1>7, <2>1, <2>2, <2>3, ReplacedFine
  <1>9. CallOK'
    <2>1. CASE call = Idle
      BY <1>1, <2>1 DEF CallOK
    <2>2. CASE call # Idle
      <3>1. call.bucket \in 1 .. Len(buckets)
        BY <2>2 DEF Inv, TypeOK
      <3>2. Numbers(buckets'[call.bucket]) \subseteq Numbers(buckets[call.bucket])
        BY <1>3, <1>7, <3>1 DEF Replaced
      <3>3. CallOK
        BY DEF Inv
      <3>4. QED
        BY <1>1, <1>7, <2>2, <3>2, <3>3 DEF CallOK
    <2>3. QED
      BY <2>1, <2>2
  <1>10. TypeOK'
    <2>1. \A j \in 1 .. Len(buckets') : Len(buckets'[j]) <= K
      BY <1>8, TypeFromFine
    <2>2. QED
      BY <1>1, <1>4, <1>7, <2>1 DEF Inv, TypeOK
  <1>11. QED
    BY <1>1, <1>8, <1>9, <1>10 DEF Inv

LEMMA QueryFailsInv == ASSUME Inv, NEW n \in Node, QueryFails(n) PROVE Inv'
  <1>1. disabled' = disabled \cup {n} /\ UNCHANGED <<ids, buckets, armed, call, added, removed, thrown>>
    BY DEF QueryFails
  <1>2. Node' = Node
    BY <1>1 DEF Node
  <1>3. Fine(buckets', ids', added', removed', disabled')
    BY <1>1 DEF Inv, Fine
  <1>4. CallOK'
    BY <1>1 DEF Inv, CallOK
  <1>5. TypeOK'
    BY <1>1, <1>2 DEF Inv, TypeOK
  <1>6. QED
    BY <1>3, <1>4, <1>5 DEF Inv

-----------------------------------------------------------------------------
(* The theorems. *)

LEMMA InitInv == Init => Inv
  <1> SUFFICES ASSUME Init PROVE Inv
    OBVIOUS
  <1>1. /\ ids = <<>> /\ disabled = {} /\ buckets = <<>> /\ armed = {} /\ call = Idle
        /\ added = {} /\ removed = {} /\ thrown = FALSE
    BY DEF Init
  <1>2. Len(buckets) = 0 /\ 1 .. 0 = {} /\ 0 <= Bits
    BY <1>1, SizesAssumption
  <1>3. TypeOK
    <2>1. ids \in Seq(Ids) /\ buckets \in Seq(Seq(Node)) /\ \A i \in 1 .. Len(buckets) : Len(buckets[i]) <= K
      BY <1>1, <1>2
    <2>2. /\ disabled \subseteq Node /\ armed \subseteq 1 .. Len(buckets) /\ added \subseteq Node /\ removed \subseteq Node
          /\ thrown \in BOOLEAN /\ Len(buckets) <= Bits
      BY <1>1, <1>2
    <2>3. QED
      BY <1>1, <2>1, <2>2 DEF TypeOK
  <1>4. Fine(buckets, ids, added, removed, disabled)
    BY <1>1, <1>2 DEF Fine, Unique, Held
  <1>5. QED
    BY <1>1, <1>3, <1>4 DEF Inv, CallOK

LEMMA StepInv == Inv /\ [Next]_vars => Inv'
  <1> SUFFICES ASSUME Inv, [Next]_vars PROVE Inv'
    OBVIOUS
  <1>1. ASSUME Next PROVE Inv'
    <2>1. ASSUME NEW id \in Ids, InsertNode(id) \/ KickNode(id) PROVE Inv'
      BY <2>1, InsertNodeInv, KickNodeInv
    <2>2. ASSUME Add \/ TestSize \/ SplitTheBucket PROVE Inv'
      BY <2>2, AddInv, TestSizeInv, SplitInv
    <2>3. ASSUME ~thrown, AddAgain PROVE Inv'
      BY <2>3, AddAgainInv
    <2>4. ASSUME NEW i \in 1 .. Len(buckets), UpdateNodes(i) PROVE Inv'
      BY <2>4, UpdateNodesInv
    <2>5. ASSUME NEW i \in 1 .. Len(buckets), NEW id \in Ids, ResetNode(i, id) PROVE Inv'
      BY <2>5, ResetNodeInv
    <2>6. ASSUME NEW n \in Node, QueryFails(n) PROVE Inv'
      BY <2>6, QueryFailsInv
    <2>7. QED
      BY <1>1, <2>1, <2>2, <2>3, <2>4, <2>5, <2>6 DEF Next
  <1>2. ASSUME UNCHANGED vars PROVE Inv'
    <2>1. UNCHANGED <<ids, disabled, buckets, armed, call, added, removed, thrown>>
      BY <1>2 DEF vars
    <2>2. Node' = Node
      BY <2>1 DEF Node
    <2>3. TypeOK' /\ CallOK'
      BY <2>1, <2>2 DEF Inv, TypeOK, CallOK
    <2>4. QED
      BY <2>1, <2>3 DEF Inv
  <1>3. QED
    BY <1>1, <1>2

LEMMA InvHolds == Spec => []Inv
  <1>1. Init => Inv
    BY InitInv
  <1>2. Inv /\ [Next]_vars => Inv'
    BY StepInv
  <1>3. QED
    BY <1>1, <1>2, PTL DEF Spec

\* For every size of the table: no bucket gets deeper than K, and there are never more
\* buckets than the constructor reserved, so that InsertNode's reference to one is valid
\* after the push_back of a split.
THEOREM TypeCorrect == Spec => []TypeOK
  <1>1. Inv => TypeOK
    BY DEF Inv
  <1>2. QED
    BY <1>1, InvHolds, PTL

\* For every depth of a bucket: a node is in a bucket whose prefix it shares, and a bucket
\* that SplitTheBucket has parted holds at most one node that belongs further down.
THEOREM PrefixesShared == Spec => []PrefixShared
  <1>1. Inv => PrefixShared
    <2> SUFFICES ASSUME Inv, NEW i \in 1 .. Len(buckets)
                 PROVE  /\ \A n \in Numbers(buckets[i]) : Raznica(ids[n]) >= i - 1
                        /\ i < Len(buckets)
                           => Cardinality({n \in Numbers(buckets[i]) : Raznica(ids[n]) # i - 1}) <= 1
      BY DEF PrefixShared
    <2>1. Prefixed(ids, buckets[i], i, i < Len(buckets))
      BY InvFacts
    <2>2. \A n \in Numbers(buckets[i]) : Raznica(ids[n]) >= i - 1
      BY <2>1 DEF Prefixed, Reaches
    <2>3. ASSUME i < Len(buckets)
          PROVE  Cardinality({n \in Numbers(buckets[i]) : Raznica(ids[n]) # i - 1}) <= 1
      <3> DEFINE M == {n \in Numbers(buckets[i]) : Raznica(ids[n]) # i - 1}
      <3>1. \A m, n \in M : m = n
        BY <2>1, <2>3 DEF Prefixed, Misplaced
      <3> HIDE DEF M
      <3>2. CASE M = {}
        <4>1. Cardinality(M) = 0
          BY <3>2, FS_EmptySet
        <4>2. QED
          BY <4>1 DEF M
      <3>3. CASE M # {}
        <4>1. PICK m \in M : M = {m}
          BY <3>1, <3>3
        <4>2. Cardinality(M) = 1
          BY <4>1, FS_Singleton
        <4>3. QED
          BY <4>2 DEF M
      <3>4. QED
        BY <3>2, <3>3
    <2>4. QED
      BY <2>2, <2>3
  <1>2. QED
    BY <1>1, InvHolds, PTL

\* For any number of splits, refreshes, kicks and failing queries in between: every node
\* AddNode took is in exactly one place of the table until it is disabled, kicked or
\* replaced, and nothing else is in it.
THEOREM NoNodeLost == Spec => []NodesAccounted
  <1>1. Inv => NodesAccounted
    <2> SUFFICES ASSUME Inv PROVE NodesAccounted
      OBVIOUS
    <2>1. Fine(buckets, ids, added, removed, disabled)
      BY DEF Inv
    <2>2. InTable = Held(buckets)
      BY DEF InTable, Held
    <2>3. added \ (disabled \cup removed) \subseteq InTable /\ InTable \subseteq added \ removed
      BY <2>1, <2>2 DEF Fine
    <2>4. ASSUME NEW i \in 1 .. Len(buckets), NEW j \in 1 .. Len(buckets),
                 NEW k \in 1 .. Len(buckets[i]), NEW m \in 1 .. Len(buckets[j]), buckets[i][k] = buckets[j][m]
          PROVE  i = j /\ k = m
      <3>1. buckets[i][k] \in Numbers(buckets[i]) /\ buckets[j][m] \in Numbers(buckets[j])
        BY DEF Numbers
      <3>2. i = j
        BY <2>1, <2>4, <3>1 DEF Fine, Unique
      <3>3. QED
        BY <2>1, <2>4, <3>2 DEF Fine, Unique, Distinct
    <2>5. QED
      BY <2>3, <2>4 DEF NodesAccounted
  <1>2. QED
    BY <1>1, InvHolds, PTL
=============================================================================
