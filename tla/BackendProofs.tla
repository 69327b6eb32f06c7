---------------------------- MODULE BackendProofs ---------------------------
(***************************************************************************)
(* Proofs about Backends for any clients, paths, contents and batches, and *)
(* any routes that satisfy BackAssumption.                                 *)
(***************************************************************************)
EXTENDS Backends, SequenceTheorems, FiniteSetTheorems, WellFoundedInduction, TLAPS

-----------------------------------------------------------------------------
(* Numbers *)

(* A set of numbers has a least one, and so numbers can be counted up.     *)
LEMMA Least ==
  ASSUME NEW T \in SUBSET Nat, T # {}
  PROVE  \E n \in T : \A k \in T : n <= k
<1>0. IsWellFoundedOn(OpToRel(<, Nat), Nat)
  BY NatLessThanWellFounded, Zenon
<1>1. PICK n \in T : \A k \in T : ~ (<<k, n>> \in OpToRel(<, Nat))
  BY <1>0, WFMin, Zenon
<1>2. \A k \in T : ~ (k < n)
  BY <1>1, Zenon DEF OpToRel
<1>3. n \in Nat /\ \A k \in T : k \in Nat
  BY <1>1, Zenon
<1>4. \A k \in T : n <= k
  BY <1>2, <1>3
<1> QED
  BY <1>4

LEMMA CountUp ==
  ASSUME NEW T, 0 \in T, \A n \in Nat : n \in T => n + 1 \in T
  PROVE  Nat \subseteq T
<1> SUFFICES ASSUME NEW k \in Nat, k \notin T PROVE FALSE
  OBVIOUS
<1> DEFINE B == {n \in Nat : n \notin T}
<1>1. PICK n \in B : \A j \in B : n <= j
  BY Least
<1>2. n # 0 /\ n - 1 \in Nat /\ n - 1 \notin B
  BY <1>1
<1> QED
  BY <1>1, <1>2

-----------------------------------------------------------------------------
(* Paths and routes *)

(* A recursion over numbers has a solution.                                *)
Runs(h, V, base, N, turn) ==
  h \in [0 .. N -> V] /\ h[0] = base /\ \A k \in 1 .. N : h[k] = turn[<<k, h[k - 1]>>]

Turns(N, V) == [(1 .. N) \X V -> V]

LEMMA Recursion ==
  ASSUME NEW V, NEW base, NEW N, NEW turn, base \in V, N \in Nat, turn \in Turns(N, V)
  PROVE  \E h : Runs(h, V, base, N, turn)
<1> USE DEF Turns
<1> DEFINE Solves(h, n) == h[0] = base /\ \A k \in 1 .. n : h[k] = turn[<<k, h[k - 1]>>]
           T == {n \in Nat : n <= N => \E h \in [0 .. n -> V] : Solves(h, n)}
<1>1. 0 \in T
  <2>1. [k \in 0 .. 0 |-> base] \in [0 .. 0 -> V] /\ Solves([k \in 0 .. 0 |-> base], 0)
    OBVIOUS
  <2> QED
    BY <2>1
<1>2. ASSUME NEW n \in Nat, n \in T, n + 1 <= N PROVE \E h \in [0 .. n + 1 -> V] : Solves(h, n + 1)
  <2>1. PICK h \in [0 .. n -> V] : Solves(h, n)
    BY <1>2
  <2> DEFINE e == [k \in 0 .. n + 1 |-> IF k = n + 1 THEN turn[<<n + 1, h[n]>>] ELSE h[k]]
  <2>2. n + 1 \in 1 .. N /\ h[n] \in V
    BY <1>2, <2>1
  <2>3. turn[<<n + 1, h[n]>>] \in V
    BY <2>2
  <2>4. e \in [0 .. n + 1 -> V]
    BY <2>1, <2>3
  <2>5. \A k \in 0 .. n : e[k] = h[k]
    OBVIOUS
  <2>6. e[n + 1] = turn[<<n + 1, h[n]>>] /\ e[n] = h[n] /\ n = (n + 1) - 1
    BY <2>5
  <2>7. e[0] = base
    BY <2>1, <2>5
  <2>8. ASSUME NEW k \in 1 .. n + 1 PROVE e[k] = turn[<<k, e[k - 1]>>]
    <3>1. CASE k = n + 1
      BY <2>6, <3>1
    <3>2. CASE k # n + 1
      <4>1. k \in 1 .. n /\ k \in 0 .. n /\ k - 1 \in 0 .. n
        BY <3>2
      <4>2. e[k] = h[k] /\ e[k - 1] = h[k - 1] /\ h[k] = turn[<<k, h[k - 1]>>]
        BY <2>1, <2>5, <4>1
      <4> QED
        BY <4>2
    <3> QED
      BY <3>1, <3>2
  <2> QED
    BY <2>4, <2>7, <2>8
<1>3. N \in T
  <2>1. \A n \in Nat : n \in T => n + 1 \in T
    BY <1>2
  <2> HIDE DEF T
  <2> QED
    BY <1>1, <2>1, CountUp
<1>4. \E h \in [0 .. N -> V] : h[0] = base /\ \A k \in 1 .. N : h[k] = turn[<<k, h[k - 1]>>]
  BY <1>3
<1> QED
  BY <1>4, Zenon DEF Runs

(* Prefixes, component by component.                                       *)
LEMMA PrefixIs ==
  ASSUME NEW s \in Paths, NEW t \in Paths
  PROVE  IsPrefix(s, t) <=> Len(s) <= Len(t) /\ \A i \in 1 .. Len(s) : s[i] = t[i]
<1>0. Len(s) \in Nat /\ Len(t) \in Nat
  BY DEF Paths
<1>1. CASE Len(s) <= Len(t)
  <2>1. SubSeq(s, 1, Len(s)) = s
    BY DEF Paths
  <2>2. SubSeq(t, 1, Len(s)) \in Seq(STRING) /\ Len(SubSeq(t, 1, Len(s))) = Len(s)
        /\ \A i \in 1 .. Len(s) : SubSeq(t, 1, Len(s))[i] = t[i]
    BY <1>0, <1>1 DEF Paths
  <2>3. SubSeq(t, 1, Len(s)) = s <=> \A i \in 1 .. Len(s) : s[i] = t[i]
    <3> DEFINE u == SubSeq(t, 1, Len(s))
    <3> HIDE DEF u
    <3>1. u \in Seq(STRING) /\ Len(u) = Len(s) /\ \A i \in 1 .. Len(s) : u[i] = t[i]
      BY <2>2 DEF u
    <3>2. u = s <=> \A i \in 1 .. Len(s) : s[i] = t[i]
      BY <3>1 DEF Paths
    <3> QED
      BY <3>2 DEF u
  <2> QED
    BY <1>1, <2>1, <2>3 DEF IsPrefix
<1>2. CASE ~(Len(s) <= Len(t))
  BY <1>2 DEF IsPrefix
<1> QED
  BY <1>1, <1>2

LEMMA PrefixSame ==
  ASSUME NEW s \in Paths, NEW t \in Paths, NEW p \in Paths,
         IsPrefix(s, p), IsPrefix(t, p), Len(s) = Len(t)
  PROVE  s = t
<1>1. \A i \in 1 .. Len(s) : s[i] = t[i]
  BY PrefixIs
<1> QED
  BY <1>1 DEF Paths

LEMMA PrefixStrip ==
  ASSUME NEW m \in Paths, NEW p \in Paths, IsPrefix(m, p)
  PROVE  LET q == StripPrefix(p, m) IN
         /\ q \in Paths /\ p = m \o q
         /\ q = <<>> <=> p = m
<1> DEFINE q == StripPrefix(p, m)
<1>0. Len(m) \in Nat /\ Len(p) \in Nat /\ Len(m) <= Len(p) /\ \A i \in 1 .. Len(m) : m[i] = p[i]
  BY PrefixIs DEF Paths
<1>1. /\ q \in Paths /\ Len(q) = Len(p) - Len(m)
      /\ \A i \in 1 .. Len(q) : q[i] = p[Len(m) + i]
  BY <1>0 DEF Paths, StripPrefix
<1> HIDE DEF q
<1>2. PICK u : u = m \o q
  OBVIOUS
<1>3. /\ u \in Paths /\ Len(u) = Len(p)
      /\ \A i \in 1 .. Len(m) : u[i] = m[i]
      /\ \A i \in 1 .. Len(q) : u[Len(m) + i] = q[i]
  BY <1>0, <1>1, <1>2 DEF Paths
<1>a. ASSUME NEW i \in 1 .. Len(p) PROVE u[i] = p[i]
  <2>1. CASE i <= Len(m)
    BY <1>0, <1>3, <2>1
  <2>2. CASE i > Len(m)
    <3>1. i - Len(m) \in 1 .. Len(q) /\ Len(m) + (i - Len(m)) = i
      BY <1>0, <1>1, <2>2
    <3> QED
      BY <1>1, <1>3, <3>1
  <2> QED
    BY <1>0, <2>1, <2>2
<1>4. p = m \o q
  <2>1. p = u
    BY <1>3, <1>a DEF Paths
  <2> QED
    BY <1>2, <2>1
<1>5. q = <<>> <=> p = m
  <2>1. ASSUME q = <<>> PROVE p = m
    BY <1>4, <2>1 DEF Paths
  <2>2. ASSUME p = m PROVE q = <<>>
    BY <1>0, <1>1, <2>2 DEF Paths
  <2> QED
    BY <2>1, <2>2
<1> QED
  BY <1>1, <1>4, <1>5 DEF q

LEMMA PrefixJoin ==
  ASSUME NEW m \in Paths, NEW p \in Paths, NEW q \in Paths
  PROVE  /\ m \o p \in Paths /\ IsPrefix(m, m \o p)
         /\ IsPrefix(m \o p, m \o q) <=> IsPrefix(p, q)
         /\ m \o p = m \o q => p = q
<1>0. Len(m) \in Nat /\ Len(p) \in Nat /\ Len(q) \in Nat
  BY DEF Paths
<1>1. /\ m \o p \in Paths /\ Len(m \o p) = Len(m) + Len(p)
      /\ m \o q \in Paths /\ Len(m \o q) = Len(m) + Len(q)
  BY DEF Paths
<1>2. /\ \A i \in 1 .. Len(m) : (m \o p)[i] = m[i] /\ (m \o q)[i] = m[i]
      /\ \A i \in 1 .. Len(p) : (m \o p)[Len(m) + i] = p[i]
      /\ \A i \in 1 .. Len(q) : (m \o q)[Len(m) + i] = q[i]
  BY <1>0 DEF Paths
<1>3. PICK a, b : a = m \o p /\ b = m \o q
  OBVIOUS
<1>4. /\ a \in Paths /\ Len(a) = Len(m) + Len(p) /\ b \in Paths /\ Len(b) = Len(m) + Len(q)
      /\ \A i \in 1 .. Len(m) : a[i] = m[i] /\ b[i] = m[i]
      /\ \A i \in 1 .. Len(p) : a[Len(m) + i] = p[i]
      /\ \A i \in 1 .. Len(q) : b[Len(m) + i] = q[i]
  BY <1>1, <1>2, <1>3
<1>5. IsPrefix(m, a)
  <2>1. IsPrefix(m, a) <=> Len(m) <= Len(a) /\ \A i \in 1 .. Len(m) : m[i] = a[i]
    BY <1>4, PrefixIs
  <2> QED
    BY <1>0, <1>4, <2>1
<1>6. ASSUME IsPrefix(a, b) PROVE IsPrefix(p, q)
  <2>1. Len(a) <= Len(b) /\ \A i \in 1 .. Len(a) : a[i] = b[i]
    BY <1>4, <1>6, PrefixIs
  <2>2. ASSUME NEW i \in 1 .. Len(p) PROVE p[i] = q[i]
    <3>1. Len(m) + i \in 1 .. Len(a) /\ i \in 1 .. Len(q)
      BY <1>0, <1>4, <2>1
    <3> QED
      BY <1>4, <2>1, <3>1
  <2> QED
    BY <1>0, <1>4, <2>1, <2>2, PrefixIs
<1>7. ASSUME IsPrefix(p, q) PROVE IsPrefix(a, b)
  <2>1. Len(p) <= Len(q) /\ \A i \in 1 .. Len(p) : p[i] = q[i]
    BY <1>7, PrefixIs
  <2>2. ASSUME NEW i \in 1 .. Len(a) PROVE a[i] = b[i]
    <3>1. CASE i <= Len(m)
      BY <1>0, <1>4, <3>1
    <3>2. CASE i > Len(m)
      <4>1. PICK j \in 1 .. Len(p) : i = Len(m) + j
        <5>1. i - Len(m) \in 1 .. Len(p) /\ i = Len(m) + (i - Len(m))
          BY <1>0, <1>4, <3>2
        <5> QED
          BY <5>1
      <4>2. j \in 1 .. Len(q)
        BY <1>0, <2>1
      <4> QED
        BY <1>4, <2>1, <4>1, <4>2
    <3> QED
      BY <1>0, <1>4, <3>1, <3>2
  <2>3. Len(a) <= Len(b)
    BY <1>0, <1>4, <2>1
  <2> QED
    BY <1>4, <2>2, <2>3, PrefixIs
<1>8. ASSUME a = b PROVE p = q
  <2>1. Len(p) = Len(q)
    BY <1>0, <1>4, <1>8
  <2>2. \A i \in 1 .. Len(p) : p[i] = q[i]
    BY <1>4, <1>8, <2>1
  <2> QED
    BY <2>1, <2>2 DEF Paths
<1> QED
  BY <1>3, <1>4, <1>5, <1>6, <1>7, <1>8

(* The table of routes, longest prefix first.                              *)
Falling(rs) ==
  rs \in Table /\ \A i, j \in 1 .. Len(rs) : i < j => Len(rs[j][1]) <= Len(rs[i][1])

Entries(rs) == {rs[i] : i \in 1 .. Len(rs)}

LEMMA InsertIs ==
  ASSUME NEW rs \in Table, NEW r \in Paths \X Children, NEW n \in 0 .. Len(rs)
  PROVE  LET t == InsertAt(rs, n + 1, r) IN
         /\ t \in Table /\ Len(t) = Len(rs) + 1
         /\ \A i \in 1 .. n : t[i] = rs[i]
         /\ t[n + 1] = r
         /\ \A i \in n + 1 .. Len(rs) : t[i + 1] = rs[i]
<1>0. Len(rs) \in Nat /\ n \in Nat /\ n <= Len(rs)
  BY DEF Table
<1>1. PICK a : a = SubSeq(rs, 1, n)
  OBVIOUS
<1>2. PICK b : b = SubSeq(rs, n + 1, Len(rs))
  OBVIOUS
<1>3. a \in Table /\ Len(a) = n /\ \A i \in 1 .. n : a[i] = rs[i]
  BY <1>0, <1>1 DEF Table
<1>4. b \in Table /\ Len(b) = Len(rs) - n /\ \A i \in 1 .. Len(rs) - n : b[i] = rs[n + i]
  BY <1>0, <1>2 DEF Table
<1>5. PICK c : c = a \o <<r>>
  OBVIOUS
<1>6. c \in Table /\ Len(c) = n + 1 /\ c[n + 1] = r /\ \A i \in 1 .. n : c[i] = rs[i]
  <2>1. c = Append(a, r)
    BY <1>3, <1>5, AppendIsConcat DEF Table
  <2> QED
    BY <1>0, <1>3, <2>1 DEF Table
<1>7. PICK t : t = c \o b
  OBVIOUS
<1>8. /\ t \in Table /\ Len(t) = Len(rs) + 1
      /\ \A i \in 1 .. n + 1 : t[i] = c[i]
      /\ \A i \in 1 .. Len(rs) - n : t[(n + 1) + i] = b[i]
  <2>1. /\ t \in Table /\ Len(t) = Len(c) + Len(b)
        /\ \A i \in 1 .. Len(c) + Len(b) : t[i] = IF i <= Len(c) THEN c[i] ELSE b[i - Len(c)]
    BY <1>4, <1>6, <1>7, ConcatProperties, Zenon DEF Table
  <2>2. ASSUME NEW i \in 1 .. Len(rs) - n PROVE t[(n + 1) + i] = b[i]
    <3>1. (n + 1) + i \in 1 .. Len(c) + Len(b) /\ ~((n + 1) + i <= Len(c)) /\ ((n + 1) + i) - Len(c) = i
      BY <1>0, <1>4, <1>6
    <3> QED
      BY <2>1, <3>1
  <2>3. \A i \in 1 .. n + 1 : t[i] = c[i]
    BY <1>0, <1>4, <1>6, <2>1, SMTT(30)
  <2>4. Len(t) = Len(rs) + 1
    BY <1>0, <1>4, <1>6, <2>1
  <2> QED
    BY <2>1, <2>2, <2>3, <2>4
<1>9. ASSUME NEW i \in n + 1 .. Len(rs) PROVE t[i + 1] = rs[i]
  <2>1. i - n \in 1 .. Len(rs) - n /\ (n + 1) + (i - n) = i + 1 /\ n + (i - n) = i
    BY <1>0
  <2>2. t[(n + 1) + (i - n)] = b[i - n] /\ b[i - n] = rs[n + (i - n)]
    BY <1>4, <1>8, <2>1
  <2> QED
    BY <2>1, <2>2
<1>10. InsertAt(rs, n + 1, r) = t
  <2>1. (n + 1) - 1 = n
    BY <1>0
  <2> QED
    BY <1>1, <1>2, <1>5, <1>7, <2>1 DEF InsertAt
<1>11. \A i \in 1 .. n : t[i] = rs[i]
  BY <1>0, <1>6, <1>8
<1>12. t[n + 1] = r
  BY <1>0, <1>6, <1>8
<1> QED
  BY <1>8, <1>9, <1>10, <1>11, <1>12

(* with_route keeps the table sorted and adds the one route.               *)
LEMMA WithRouteFalls ==
  ASSUME NEW rs, Falling(rs), NEW r \in Paths \X Children
  PROVE  /\ Falling(WithRoute(rs, r))
         /\ Entries(WithRoute(rs, r)) = Entries(rs) \cup {r}
<1> DEFINE S == {i \in DOMAIN rs : Len(rs[i][1]) >= Len(r[1])}
<1>0. /\ rs \in Table /\ Len(rs) \in Nat /\ DOMAIN rs = 1 .. Len(rs) /\ Len(r[1]) \in Nat
      /\ \A i \in 1 .. Len(rs) : Len(rs[i][1]) \in Nat
  BY DEF Falling, Table, Paths
<1>1. PICK n \in 0 .. Len(rs) : S = 1 .. n
  <2>1. CASE S = 1 .. Len(rs)
    BY <1>0, <2>1
  <2>2. CASE S # 1 .. Len(rs)
    <3> DEFINE B == {i \in 1 .. Len(rs) : i \notin S}
    <3>1. B # {} /\ B \in SUBSET Nat
      BY <1>0, <2>2
    <3>2. PICK k \in B : \A j \in B : k <= j
      BY <3>1, Least
    <3>3. k \in 1 .. Len(rs) /\ ~(Len(rs[k][1]) >= Len(r[1]))
      BY <1>0, <3>2
    <3>4. ASSUME NEW j \in 1 .. Len(rs) PROVE j \in S <=> j < k
      <4>1. CASE j < k
        <5>1. ~(k <= j)
          BY <3>3, <4>1
        <5> QED
          BY <3>2, <4>1, <5>1
      <4>2. CASE j = k
        BY <3>3, <4>2
      <4>3. CASE j > k
        <5>1. Len(rs[j][1]) <= Len(rs[k][1])
          BY <3>3, <4>3 DEF Falling
        <5> QED
          BY <1>0, <3>3, <4>3, <5>1
      <4> QED
        BY <3>3, <4>1, <4>2, <4>3
    <3>5. k - 1 \in 0 .. Len(rs) /\ S = 1 .. k - 1
      <4>1. k - 1 \in 0 .. Len(rs)
        BY <1>0, <3>3
      <4>2. \A j : j \in S <=> j \in 1 .. k - 1
        <5>1. \A j : j \in S => j \in 1 .. Len(rs)
          BY <1>0
        <5>2. \A j \in 1 .. Len(rs) : j < k <=> j \in 1 .. k - 1
          BY <3>3
        <5>3. \A j : j \in 1 .. k - 1 => j \in 1 .. Len(rs)
          BY <1>0, <3>3
        <5> HIDE DEF S
        <5> QED
          BY <3>4, <5>1, <5>2, <5>3
      <4> HIDE DEF S
      <4> QED
        BY <4>1, <4>2
    <3> QED
      BY <3>5
  <2> QED
    BY <2>1, <2>2
<1>2. Cardinality(S) = n
  <2>1. Cardinality(1 .. n) = n
    BY <1>0, FS_Interval
  <2> QED
    BY <1>1, <2>1
<1>3. PICK t : t = InsertAt(rs, n + 1, r)
  OBVIOUS
<1>4. WithRoute(rs, r) = t
  BY <1>2, <1>3 DEF WithRoute
<1>5. /\ t \in Table /\ Len(t) = Len(rs) + 1
      /\ \A i \in 1 .. n : t[i] = rs[i]
      /\ t[n + 1] = r
      /\ \A i \in n + 1 .. Len(rs) : t[i + 1] = rs[i]
  BY <1>0, <1>3, InsertIs
<1>6. /\ \A i \in 1 .. n : Len(rs[i][1]) >= Len(r[1])
      /\ \A i \in n + 1 .. Len(rs) : Len(rs[i][1]) <= Len(r[1])
  <2>1. \A i \in 1 .. n : i \in S
    BY <1>1
  <2>2. \A i \in n + 1 .. Len(rs) : i \in 1 .. Len(rs) /\ i \notin S
    BY <1>0, <1>1, SMTT(30)
  <2> QED
    BY <1>0, <2>1, <2>2
<1> HIDE DEF S
(* A place of the new table is one of the old, or the new route's.         *)
<1>7. ASSUME NEW i \in 1 .. Len(t)
      PROVE  \/ i \in 1 .. n /\ t[i] = rs[i]
             \/ i = n + 1 /\ t[i] = r
             \/ i - 1 \in n + 1 .. Len(rs) /\ t[i] = rs[i - 1]
  <2>1. CASE i <= n
    BY <1>5, <2>1
  <2>2. CASE i = n + 1
    BY <1>5, <2>2
  <2>3. CASE i > n + 1
    <3>1. i - 1 \in n + 1 .. Len(rs) /\ (i - 1) + 1 = i
      BY <1>0, <1>5, <2>3
    <3> QED
      BY <1>5, <3>1
  <2> QED
    BY <1>0, <2>1, <2>2, <2>3
<1>8. ASSUME NEW i \in 1 .. Len(t), NEW j \in 1 .. Len(t), i < j
      PROVE  Len(t[j][1]) <= Len(t[i][1])
  <2>0. \A a, b \in 1 .. Len(rs) : a < b => Len(rs[b][1]) <= Len(rs[a][1])
    BY DEF Falling
  <2>a. PICK x, y : x = t[i] /\ y = t[j]
    OBVIOUS
  <2> SUFFICES Len(y[1]) <= Len(x[1])
    BY <2>a
  <2>1. CASE i \in 1 .. n /\ x = rs[i]
    <3>1. CASE j \in 1 .. n /\ y = rs[j]
      <4>1. i \in 1 .. Len(rs) /\ j \in 1 .. Len(rs)
        BY <1>0, <2>1, <3>1
      <4> QED
        BY <1>8, <2>0, <2>1, <3>1, <4>1
    <3>2. CASE j = n + 1 /\ y = r
      BY <1>6, <2>1, <3>2, <2>a
    <3>3. CASE j - 1 \in n + 1 .. Len(rs) /\ y = rs[j - 1]
      <4>1. i \in 1 .. Len(rs) /\ j - 1 \in 1 .. Len(rs) /\ i < j - 1
        BY <1>0, <2>1, <3>3
      <4> QED
        BY <2>0, <2>1, <3>3, <4>1
    <3> QED
      BY <1>7, <2>a, <3>1, <3>2, <3>3
  <2>2. CASE i = n + 1 /\ x = r
    <3>1. j - 1 \in n + 1 .. Len(rs) /\ y = rs[j - 1]
      BY <1>0, <1>7, <1>8, <2>2, <2>a
    <3> QED
      BY <1>6, <2>2, <3>1, <2>a
  <2>3. CASE i - 1 \in n + 1 .. Len(rs) /\ x = rs[i - 1]
    <3>1. j - 1 \in n + 1 .. Len(rs) /\ y = rs[j - 1]
      BY <1>0, <1>7, <1>8, <2>3, <2>a
    <3> QED
      <4>1. i - 1 \in 1 .. Len(rs) /\ j - 1 \in 1 .. Len(rs) /\ i - 1 < j - 1
        BY <1>0, <1>8, <2>3, <3>1
      <4> QED
        BY <2>0, <2>3, <3>1, <4>1
  <2> QED
    BY <1>7, <2>a, <2>1, <2>2, <2>3
<1>9. Entries(t) = Entries(rs) \cup {r}
  <2>1. ASSUME NEW i \in 1 .. Len(t) PROVE t[i] \in Entries(rs) \cup {r}
    <3>1. CASE i \in 1 .. n /\ t[i] = rs[i]
      BY <1>0, <3>1 DEF Entries
    <3>2. CASE i = n + 1 /\ t[i] = r
      BY <3>2
    <3>3. CASE i - 1 \in n + 1 .. Len(rs) /\ t[i] = rs[i - 1]
      BY <1>0, <3>3 DEF Entries
    <3> QED
      BY <1>7, <3>1, <3>2, <3>3
  <2>2. ASSUME NEW i \in 1 .. Len(rs) PROVE rs[i] \in Entries(t)
    <3>1. CASE i <= n
      <4>1. i \in 1 .. n /\ i \in 1 .. Len(t)
        BY <1>0, <1>5, <3>1
      <4> QED
        BY <1>5, <4>1 DEF Entries
    <3>2. CASE i > n
      <4>1. i \in n + 1 .. Len(rs) /\ i + 1 \in 1 .. Len(t)
        BY <1>0, <1>5, <3>2
      <4> QED
        BY <1>5, <4>1 DEF Entries
    <3> QED
      BY <1>0, <3>1, <3>2
  <2>3. r \in Entries(t)
    BY <1>0, <1>5 DEF Entries
  <2> QED
    BY <2>1, <2>2, <2>3 DEF Entries
<1> QED
  BY <1>4, <1>5, <1>8, <1>9 DEF Falling

RoutesOK(rs) == Falling(rs) /\ Entries(rs) = Entries(RouteList)

(* The recursion over the routes, unrolled.                                *)
LEMMA RoutesFall ==
  ASSUME BackAssumption
  PROVE  RoutesOK(Routed[Len(RouteList)])
<1> DEFINE N == Len(RouteList)
           V == {rs \in Table : Falling(rs)}
           turn == [a \in (1 .. N) \X V |-> WithRoute(a[2], RouteList[a[1]])]
<1>0. N \in Nat /\ \A k \in 1 .. N : RouteList[k] \in Paths \X Children
  BY DEF BackAssumption, Table
<1>1. <<>> \in V
  BY DEF Falling, Table
<1>2. turn \in [(1 .. N) \X V -> V]
  <2>1. ASSUME NEW k \in 1 .. N, NEW rs \in V PROVE WithRoute(rs, RouteList[k]) \in V
    <3>1. Falling(WithRoute(rs, RouteList[k]))
      BY <1>0, <2>1, WithRouteFalls
    <3> QED
      BY <3>1 DEF Falling
  <2> HIDE DEF V
  <2> QED
    BY <2>1
<1>3. PICK h \in [0 .. N -> V] : h[0] = <<>> /\ \A k \in 1 .. N : h[k] = turn[<<k, h[k - 1]>>]
  <2> HIDE DEF N, V, turn
  <2>1. turn \in Turns(N, V)
    BY <1>2 DEF Turns
  <2>2. \E h : Runs(h, V, <<>>, N, turn)
    BY <1>0, <1>1, <2>1, Recursion, Zenon
  <2> QED
    BY <2>2 DEF Runs
<1>4. h = [k \in 0 .. N |-> IF k = 0 THEN <<>> ELSE WithRoute(h[k - 1], RouteList[k])]
  <2>1. ASSUME NEW k \in 1 .. N PROVE h[k] = WithRoute(h[k - 1], RouteList[k])
    <3>1. h[k - 1] \in V
      BY <1>0, <1>3
    <3> HIDE DEF V
    <3>2. turn[<<k, h[k - 1]>>] = WithRoute(h[k - 1], RouteList[k])
      BY <3>1
    <3> QED
      BY <1>3, <3>2
  <2> HIDE DEF V, turn
  <2>2. ASSUME NEW k \in 0 .. N
        PROVE  h[k] = IF k = 0 THEN <<>> ELSE WithRoute(h[k - 1], RouteList[k])
    BY <1>0, <1>3, <2>1
  <2>3. h = [k \in 0 .. N |-> h[k]]
    BY <1>3
  <2> QED
    BY <2>2, <2>3
<1> DEFINE f == CHOOSE g : g = [k \in 0 .. N |->
                IF k = 0 THEN <<>> ELSE WithRoute(g[k - 1], RouteList[k])]
<1>5. Routed = f
  BY Zenon DEF Routed
<1>6. f = [k \in 0 .. N |-> IF k = 0 THEN <<>> ELSE WithRoute(f[k - 1], RouteList[k])]
  BY <1>4, Zenon
<1> HIDE DEF f
<1> DEFINE T == {n \in Nat : n <= N => Falling(f[n]) /\ Entries(f[n]) = {RouteList[i] : i \in 1 .. n}}
<1>7. 0 \in T
  <2>1. f[0] = <<>>
    BY <1>0, <1>6
  <2>2. Falling(<<>>) /\ Entries(<<>>) = {}
    BY DEF Falling, Entries, Table
  <2>3. {RouteList[i] : i \in 1 .. 0} = {}
    OBVIOUS
  <2> QED
    BY <2>1, <2>2, <2>3
<1>8. ASSUME NEW n \in Nat, n \in T PROVE n + 1 \in T
  <2> SUFFICES ASSUME n + 1 <= N
               PROVE  Falling(f[n + 1]) /\ Entries(f[n + 1]) = {RouteList[i] : i \in 1 .. n + 1}
    OBVIOUS
  <2>1. n + 1 \in 0 .. N /\ n + 1 # 0 /\ (n + 1) - 1 = n /\ n + 1 \in 1 .. N
    BY <1>0
  <2>2. f[n + 1] = WithRoute(f[n], RouteList[n + 1])
    BY <1>6, <2>1
  <2>a. n <= N
    BY <1>0
  <2>3. Falling(f[n]) /\ Entries(f[n]) = {RouteList[i] : i \in 1 .. n}
    BY <1>8, <2>a, Zenon
  <2>4. Falling(f[n + 1]) /\ Entries(f[n + 1]) = Entries(f[n]) \cup {RouteList[n + 1]}
    BY <1>0, <2>1, <2>2, <2>3, WithRouteFalls
  <2>5. {RouteList[i] : i \in 1 .. n + 1} = {RouteList[i] : i \in 1 .. n} \cup {RouteList[n + 1]}
    BY <2>1
  <2> QED
    BY <2>3, <2>4, <2>5
<1>9. N \in T
  <2> HIDE DEF T
  <2> QED
    BY <1>0, <1>7, <1>8, CountUp
<1>10. Falling(f[N]) /\ Entries(f[N]) = {RouteList[i] : i \in 1 .. N}
  <2>1. N <= N
    BY <1>0
  <2> QED
    BY <1>9, <2>1, Zenon
<1> QED
  BY <1>5, <1>10, Zenon DEF RoutesOK, Entries

(* The places files are kept at: the default child at the root, every      *)
(* other one at its prefix.                                                *)
Homes == {<<<<>>, "default">>} \cup Entries(RouteList)

LEMMA HomesAre ==
  ASSUME BackAssumption
  PROVE  /\ \A a \in Homes : a[1] \in Paths /\ a[2] \in Children
         /\ \A ch \in Children : \E a \in Homes : a[2] = ch
         /\ \A a, b \in Homes : a[2] = b[2] => a = b
<1>0. /\ RouteList \in Table /\ DOMAIN RouteList = 1 .. Len(RouteList)
      /\ \A i \in 1 .. Len(RouteList) : RouteList[i] \in Paths \X Children /\ RouteList[i][2] # "default"
      /\ \A i, j \in 1 .. Len(RouteList) : i # j => RouteList[i][2] # RouteList[j][2]
  BY DEF BackAssumption, Table
<1>1. <<>> \in Paths
  BY DEF Paths
<1>2. ASSUME NEW a \in Homes PROVE a[1] \in Paths /\ a[2] \in Children
  <2>1. CASE a = <<<<>>, "default">>
    BY <1>1, <2>1 DEF Children
  <2>2. CASE a \in Entries(RouteList)
    BY <1>0, <2>2 DEF Entries, Children
  <2> QED
    BY <2>1, <2>2 DEF Homes
<1>3. ASSUME NEW ch \in Children PROVE \E a \in Homes : a[2] = ch
  <2>1. CASE ch = "default"
    <3>1. <<<<>>, "default">> \in Homes /\ <<<<>>, "default">>[2] = ch
      BY <2>1 DEF Homes
    <3> QED
      BY <3>1
  <2>2. CASE \E i \in DOMAIN RouteList : ch = RouteList[i][2]
    BY <1>0, <2>2 DEF Entries, Homes
  <2> QED
    BY <2>1, <2>2 DEF Children
<1>4. ASSUME NEW a \in Homes, NEW b \in Homes, a[2] = b[2] PROVE a = b
  <2>1. CASE a = <<<<>>, "default">>
    BY <1>0, <1>4, <2>1 DEF Homes, Entries
  <2>2. CASE b = <<<<>>, "default">>
    BY <1>0, <1>4, <2>2 DEF Homes, Entries
  <2>3. CASE a \in Entries(RouteList) /\ b \in Entries(RouteList)
    <3>1. PICK i, j \in 1 .. Len(RouteList) : a = RouteList[i] /\ b = RouteList[j]
      BY <2>3 DEF Entries
    <3> QED
      BY <1>0, <1>4, <3>1
  <2> QED
    BY <2>1, <2>2, <2>3 DEF Homes
<1> QED
  BY <1>2, <1>3, <1>4

(* The owner is the child with the longest prefix.                         *)
LEMMA OwnerIs ==
  ASSUME BackAssumption, NEW p \in Paths, NEW i \in 1 .. Len(RouteList),
         IsPrefix(RouteList[i][1], p),
         \A j \in 1 .. Len(RouteList) :
           IsPrefix(RouteList[j][1], p) => Len(RouteList[j][1]) <= Len(RouteList[i][1])
  PROVE  Owner(p) = RouteList[i][2]
<1> DEFINE hits == {j \in DOMAIN RouteList : IsPrefix(RouteList[j][1], p)}
           longest(k) == \A j \in hits : Len(RouteList[j][1]) <= Len(RouteList[k][1])
           k == CHOOSE k \in hits : \A j \in hits : Len(RouteList[j][1]) <= Len(RouteList[k][1])
<1>0. /\ DOMAIN RouteList = 1 .. Len(RouteList)
      /\ \A j \in 1 .. Len(RouteList) : RouteList[j][1] \in Paths /\ Len(RouteList[j][1]) \in Nat
      /\ \A j, l \in 1 .. Len(RouteList) : j # l => RouteList[j][1] # RouteList[l][1]
  BY SMTT(30) DEF BackAssumption, Table, Paths
<1>1. i \in hits /\ longest(i)
  BY <1>0
<1>2. k \in hits /\ longest(k)
  <2> HIDE DEF hits
  <2> QED
    BY <1>1, Zenon
<1>3. Owner(p) = RouteList[k][2]
  BY <1>1, Zenon DEF Owner
<1> HIDE DEF k
<1>4. k \in 1 .. Len(RouteList) /\ Len(RouteList[k][1]) = Len(RouteList[i][1])
  <2>1. k \in 1 .. Len(RouteList)
    BY <1>0, <1>2
  <2>2. Len(RouteList[i][1]) <= Len(RouteList[k][1]) /\ Len(RouteList[k][1]) <= Len(RouteList[i][1])
    BY <1>1, <1>2
  <2> QED
    BY <1>0, <2>1, <2>2
<1>5. RouteList[k][1] = RouteList[i][1]
  <2>1. IsPrefix(RouteList[k][1], p)
    BY <1>2
  <2> QED
    BY <1>0, <1>4, <2>1, PrefixSame
<1> QED
  BY <1>0, <1>3, <1>4, <1>5

LEMMA OwnerDefault ==
  ASSUME NEW p, \A j \in DOMAIN RouteList : ~IsPrefix(RouteList[j][1], p)
  PROVE  Owner(p) = "default"
BY DEF Owner

(* resolve() finds the owner, and the rest of the path under its prefix,   *)
(* unless the path is a mount point.                                       *)
Found(p, r, a) ==
  /\ r.child = a[2] /\ r.path \in Paths
  /\ Owner(p) = a[2] /\ Owner(a[1] \o r.path) = a[2]
  /\ p \notin Mounts => p = a[1] \o r.path

LEMMA ResolveIs ==
  ASSUME BackAssumption, RoutesOK(routes), NEW p \in Paths
  PROVE  \E a \in Homes : Found(p, Resolve(p), a)
<1> DEFINE hits == {i \in DOMAIN routes : IsPrefix(routes[i][1], p)}
           first == CHOOSE i \in hits : \A j \in hits : i <= j
<1>0. /\ routes \in Table /\ Len(routes) \in Nat /\ DOMAIN routes = 1 .. Len(routes)
      /\ RouteList \in Table /\ DOMAIN RouteList = 1 .. Len(RouteList)
      /\ Entries(routes) = Entries(RouteList)
      /\ \A i \in 1 .. Len(routes) : routes[i][1] \in Paths /\ Len(routes[i][1]) \in Nat
  BY DEF RoutesOK, Falling, Table, Paths, BackAssumption
<1>1. CASE hits = {}
  <2>1. Resolve(p) = [child |-> "default", path |-> p]
    BY <1>1 DEF Resolve, IsAncestorOf
  <2>2. ASSUME NEW j \in DOMAIN RouteList PROVE ~IsPrefix(RouteList[j][1], p)
    <3>1. PICK i \in 1 .. Len(routes) : RouteList[j] = routes[i]
      BY <1>0 DEF Entries
    <3> QED
      BY <1>0, <1>1, <3>1
  <2>3. Owner(p) = "default"
    BY <2>2, OwnerDefault
  <2>4. <<>> \o p = p
    BY DEF Paths
  <2>5. PICK a : a = <<<<>>, "default">>
    OBVIOUS
  <2>6. a \in Homes /\ a[1] = <<>> /\ a[2] = "default"
    BY <2>5 DEF Homes
  <2>7. Found(p, [child |-> "default", path |-> p], a)
    BY <2>3, <2>4, <2>6 DEF Found
  <2> QED
    BY <2>1, <2>6, <2>7
<1>2. CASE hits # {}
  <2>0. hits \in SUBSET Nat
    BY <1>0
  <2>1. first \in hits /\ \A j \in hits : first <= j
    <3>1. \E i \in hits : \A j \in hits : i <= j
      <4> HIDE DEF hits
      <4> QED
        BY <1>2, <2>0, Least
    <3> HIDE DEF hits
    <3> QED
      BY <3>1, Zenon
  <2>2. Resolve(p) =
          [child |-> routes[first][2],
           path |-> IF StripPrefix(p, routes[first][1]) = <<>> THEN routes[first][1]
                    ELSE StripPrefix(p, routes[first][1])]
    BY <1>2, Zenon DEF Resolve, IsAncestorOf
  <2> HIDE DEF first
  <2>3. /\ first \in 1 .. Len(routes) /\ IsPrefix(routes[first][1], p)
        /\ routes[first][1] \in Paths
    BY <1>0, <2>1
  <2>4. PICK i \in 1 .. Len(RouteList) : RouteList[i] = routes[first]
    BY <1>0, <2>3 DEF Entries
  <2>5. PICK m : m = RouteList[i][1]
    OBVIOUS
  <2>6. m \in Paths /\ Len(m) \in Nat /\ IsPrefix(m, p)
    BY <1>0, <2>3, <2>4, <2>5
  <2>7. ASSUME NEW j \in 1 .. Len(RouteList), IsPrefix(RouteList[j][1], p)
        PROVE  Len(RouteList[j][1]) <= Len(m)
    <3>1. PICK l \in 1 .. Len(routes) : RouteList[j] = routes[l]
      BY <1>0 DEF Entries
    <3>2. first <= l
      BY <1>0, <2>1, <2>7, <3>1
    <3>3. CASE first = l
      BY <2>4, <2>5, <2>6, <3>1, <3>3
    <3>4. CASE first < l
      <4>1. Len(routes[l][1]) <= Len(routes[first][1])
        BY <2>3, <3>1, <3>4 DEF RoutesOK, Falling
      <4> QED
        BY <2>4, <2>5, <3>1, <4>1
    <3> QED
      BY <1>0, <2>3, <3>2, <3>3, <3>4
  <2>8. Owner(p) = RouteList[i][2]
    BY <2>5, <2>6, <2>7, OwnerIs
  <2>9. PICK q : q = StripPrefix(p, m)
    OBVIOUS
  <2>10. q \in Paths /\ p = m \o q /\ (q = <<>> <=> p = m)
    BY <2>6, <2>9, PrefixStrip
  <2>11. RouteList[i] \in Homes
    BY DEF Homes, Entries
  <2>12. CASE q = <<>>
    <3>1. Resolve(p).child = RouteList[i][2] /\ Resolve(p).path = m
      BY <2>2, <2>4, <2>5, <2>9, <2>12
    <3>2. p \in Mounts
      BY <1>0, <2>5, <2>10, <2>12 DEF Mounts
    <3>3. m \o m \in Paths /\ IsPrefix(m, m \o m)
      BY <2>6, PrefixJoin
    <3>4. \A j \in 1 .. Len(RouteList) :
            IsPrefix(RouteList[j][1], m \o m) => Len(RouteList[j][1]) <= Len(m)
      BY <1>0, <2>5 DEF BackAssumption
    <3>5. Owner(m \o m) = RouteList[i][2]
      BY <2>5, <3>3, <3>4, OwnerIs
    <3>6. Found(p, Resolve(p), RouteList[i])
      BY <2>5, <2>6, <2>8, <3>1, <3>2, <3>5 DEF Found
    <3> QED
      BY <2>11, <3>6
  <2>13. CASE q # <<>>
    <3>1. Resolve(p).child = RouteList[i][2] /\ Resolve(p).path = q
      BY <2>2, <2>4, <2>5, <2>9, <2>13
    <3>2. Found(p, Resolve(p), RouteList[i])
      BY <2>5, <2>8, <2>10, <3>1 DEF Found
    <3> QED
      BY <2>11, <3>2
  <2> QED
    BY <2>12, <2>13
<1> QED
  BY <1>1, <1>2

(* A recursion that stays in a set at every turn stays in it.              *)
LEMMA StaysIn ==
  ASSUME NEW V, NEW f, NEW N, N \in Nat, f[0] \in V,
         \A k \in 1 .. N : f[k - 1] \in V => f[k] \in V
  PROVE  \A k \in 0 .. N : f[k] \in V
<1> DEFINE T == {n \in Nat : n <= N => f[n] \in V}
<1>1. 0 \in T
  OBVIOUS
<1>2. ASSUME NEW n \in Nat, n \in T PROVE n + 1 \in T
  <2> SUFFICES ASSUME n + 1 <= N PROVE f[n + 1] \in V
    OBVIOUS
  <2>1. n + 1 \in 1 .. N /\ (n + 1) - 1 = n /\ n <= N
    OBVIOUS
  <2>2. f[n] \in V
    BY <1>2, <2>1
  <2>3. f[(n + 1) - 1] \in V => f[n + 1] \in V
    BY <2>1, Zenon
  <2> QED
    BY <2>1, <2>2, <2>3
<1>3. Nat \subseteq T
  <2> HIDE DEF T
  <2> QED
    BY <1>1, <1>2, CountUp
<1> QED
  BY <1>3

(* What is left of a raw path is a path.                                   *)
LEMMA PathNewIs ==
  ASSUME NEW raw \in Paths, PathNew(raw) # Nothing
  PROVE  PathNew(raw) \in Paths
<1> DEFINE N == Len(raw)
           V == Paths
           turn == [a \in (1 .. N) \X V |-> IF raw[a[1]] \in {"", "."} THEN a[2]
             ELSE Append(a[2], raw[a[1]])]
<1>0. N \in Nat /\ <<>> \in V
  BY DEF Paths
<1>1. \A k \in 1 .. N, s \in V : (IF raw[k] \in {"", "."} THEN s ELSE Append(s, raw[k])) \in V
  <2> SUFFICES ASSUME NEW k \in 1 .. N, NEW s \in V PROVE Append(s, raw[k]) \in V /\ s \in V
    OBVIOUS
  <2>1. raw[k] \in STRING
    BY DEF Paths
  <2> QED
    BY <2>1 DEF Paths
<1>2. turn \in Turns(N, V)
  <2>1. ASSUME NEW a \in (1 .. N) \X V
        PROVE  (IF raw[a[1]] \in {"", "."} THEN a[2] ELSE Append(a[2], raw[a[1]])) \in V
    <3>1. a[1] \in 1 .. N /\ a[2] \in V
      BY <2>1
    <3> HIDE DEF N, V
    <3> QED
      BY <1>1, <3>1, Zenon
  <2> HIDE DEF N, V
  <2> QED
    BY <2>1 DEF Turns
<1>3. PICK h : Runs(h, V, <<>>, N, turn)
  <2> HIDE DEF N, V, turn
  <2> QED
    BY <1>0, <1>2, Recursion, Zenon
<1>4. h = [k \in 0 .. N |-> IF k = 0 THEN <<>>
                         ELSE IF raw[k] \in {"", "."} THEN h[k - 1] ELSE Append(h[k - 1], raw[k])]
  <2>1. h \in [0 .. N -> V] /\ h[0] = <<>> /\ \A k \in 1 .. N : h[k] = turn[<<k, h[k - 1]>>]
    BY <1>3 DEF Runs
  <2>2. ASSUME NEW k \in 1 .. N
        PROVE  h[k] = IF raw[k] \in {"", "."} THEN h[k - 1] ELSE Append(h[k - 1], raw[k])
    <3> HIDE DEF V
    <3>1. h[k - 1] \in V
      <4>1. k - 1 \in 0 .. N
        BY <1>0
      <4> QED
        BY <2>1, <4>1
    <3>2. PICK s : s = h[k - 1]
      OBVIOUS
    <3>3. turn[<<k, s>>] = IF raw[k] \in {"", "."} THEN s ELSE Append(s, raw[k])
      BY <3>1, <3>2
    <3> HIDE DEF turn
    <3> QED
      BY <2>1, <3>2, <3>3, Zenon
  <2> HIDE DEF V, turn
  <2>3. ASSUME NEW k \in 0 .. N
        PROVE  h[k] = IF k = 0 THEN <<>> ELSE IF raw[k] \in {"", "."} THEN h[k - 1]
          ELSE Append(h[k - 1], raw[k])
    <3>1. CASE k = 0
      BY <2>1, <3>1
    <3>2. CASE k # 0
      <4>1. k \in 1 .. N
        BY <1>0, <3>2
      <4> QED
        BY <2>2, <3>2, <4>1, Zenon
    <3> QED
      BY <3>1, <3>2
  <2>4. h = [k \in 0 .. N |-> h[k]]
    BY <2>1
  <2> QED
    BY <2>3, <2>4
<1> DEFINE f == CHOOSE g : g = [k \in 0 .. N |->
                IF k = 0 THEN <<>> ELSE IF raw[k] \in {"", "."} THEN g[k - 1]
                ELSE Append(g[k - 1], raw[k])]
<1>5. f = [k \in 0 .. N |-> IF k = 0 THEN <<>>
                         ELSE IF raw[k] \in {"", "."} THEN f[k - 1] ELSE Append(f[k - 1], raw[k])]
  BY <1>4, Zenon
<1>6. PathNew(raw) = f[N]
  BY Zenon DEF PathNew
<1> HIDE DEF f
<1>7. \A k \in 1 .. N : f[k - 1] \in V => f[k] \in V
  <2> SUFFICES ASSUME NEW k \in 1 .. N, f[k - 1] \in V PROVE f[k] \in V
    OBVIOUS
  <2>1. k \in 0 .. N /\ k # 0
    OBVIOUS
  <2>2. f[k] = IF raw[k] \in {"", "."} THEN f[k - 1] ELSE Append(f[k - 1], raw[k])
    BY <1>5, <2>1, Zenon
  <2>3. PICK s : s = f[k - 1]
    OBVIOUS
  <2>4. (IF raw[k] \in {"", "."} THEN s ELSE Append(s, raw[k])) \in V
    <3> HIDE DEF N, V
    <3> QED
      BY <1>1, <2>3, Zenon
  <2> HIDE DEF N, V
  <2> QED
    BY <2>2, <2>3, <2>4, Zenon
<1>8. f[0] \in V
  <2>1. 0 \in 0 .. N
    BY <1>0
  <2>2. f[0] = <<>>
    BY <1>5, <2>1
  <2> HIDE DEF N, V
  <2> QED
    BY <1>0, <2>2
<1>9. N \in 0 .. N
  BY <1>0
<1>10. f[N] \in V
  <2> HIDE DEF N, V
  <2> QED
    BY <1>0, <1>7, <1>8, <1>9, StaysIn
<1> QED
  BY <1>6, <1>10
(* A bucket has places of the batch, and so has their concatenation.       *)
LEMMA BucketIs ==
  ASSUME NEW batch, Len(batch) \in Nat, NEW b
  PROVE  Bucket(batch, b)[Len(batch)] \in Seq(1 .. Len(batch))
<1> DEFINE N == Len(batch)
           V == Seq(1 .. N)
           turn == [a \in (1 .. N) \X V |->
                      IF Resolve(batch[a[1]].path).child = b THEN Append(a[2], a[1]) ELSE a[2]]
<1>0. N \in Nat /\ <<>> \in V
  BY DEF Paths
<1>1. \A k \in 1 .. N, s \in V : (IF Resolve(batch[k].path).child = b THEN Append(s, k)
          ELSE s) \in V
  <2> SUFFICES ASSUME NEW k \in 1 .. N, NEW s \in V PROVE Append(s, k) \in V /\ s \in V
    OBVIOUS
  <2> QED
    OBVIOUS
<1>2. turn \in Turns(N, V)
  <2>1. ASSUME NEW a \in (1 .. N) \X V
        PROVE  (IF Resolve(batch[a[1]].path).child = b THEN Append(a[2], a[1]) ELSE a[2]) \in V
    <3>1. a[1] \in 1 .. N /\ a[2] \in V
      BY <2>1
    <3> HIDE DEF N, V
    <3> QED
      BY <1>1, <3>1, Zenon
  <2> HIDE DEF N, V
  <2> QED
    BY <2>1 DEF Turns
<1>3. PICK h : Runs(h, V, <<>>, N, turn)
  <2> HIDE DEF N, V, turn
  <2> QED
    BY <1>0, <1>2, Recursion, Zenon
<1>4. h = [k \in 0 .. N |-> IF k = 0 THEN <<>>
                         ELSE IF Resolve(batch[k].path).child = b THEN Append(h[k - 1], k)
                         ELSE h[k - 1]]
  <2>1. h \in [0 .. N -> V] /\ h[0] = <<>> /\ \A k \in 1 .. N : h[k] = turn[<<k, h[k - 1]>>]
    BY <1>3 DEF Runs
  <2>2. ASSUME NEW k \in 1 .. N
        PROVE  h[k] = IF Resolve(batch[k].path).child = b THEN Append(h[k - 1], k) ELSE h[k - 1]
    <3> HIDE DEF V
    <3>1. h[k - 1] \in V
      <4>1. k - 1 \in 0 .. N
        BY <1>0
      <4> QED
        BY <2>1, <4>1
    <3>2. PICK s : s = h[k - 1]
      OBVIOUS
    <3>3. turn[<<k, s>>] = IF Resolve(batch[k].path).child = b THEN Append(s, k) ELSE s
      BY <3>1, <3>2
    <3> HIDE DEF turn
    <3> QED
      BY <2>1, <3>2, <3>3, Zenon
  <2> HIDE DEF V, turn
  <2>3. ASSUME NEW k \in 0 .. N
        PROVE  h[k] = IF k = 0 THEN <<>> ELSE IF Resolve(batch[k].path).child = b
          THEN Append(h[k - 1], k) ELSE h[k - 1]
    <3>1. CASE k = 0
      BY <2>1, <3>1
    <3>2. CASE k # 0
      <4>1. k \in 1 .. N
        BY <1>0, <3>2
      <4> QED
        BY <2>2, <3>2, <4>1, Zenon
    <3> QED
      BY <3>1, <3>2
  <2>4. h = [k \in 0 .. N |-> h[k]]
    BY <2>1
  <2> QED
    BY <2>3, <2>4
<1> DEFINE f == CHOOSE g : g = [k \in 0 .. N |->
                IF k = 0 THEN <<>> ELSE IF Resolve(batch[k].path).child = b
                THEN Append(g[k - 1], k) ELSE g[k - 1]]
<1>5. f = [k \in 0 .. N |-> IF k = 0 THEN <<>> ELSE IF Resolve(batch[k].path).child = b
          THEN Append(f[k - 1], k) ELSE f[k - 1]]
  BY <1>4, Zenon
<1>6. Bucket(batch, b)[Len(batch)] = f[N]
  BY Zenon DEF Bucket
<1> HIDE DEF f
<1>7. \A k \in 1 .. N : f[k - 1] \in V => f[k] \in V
  <2> SUFFICES ASSUME NEW k \in 1 .. N, f[k - 1] \in V PROVE f[k] \in V
    OBVIOUS
  <2>1. k \in 0 .. N /\ k # 0
    OBVIOUS
  <2>2. f[k] = IF Resolve(batch[k].path).child = b THEN Append(f[k - 1], k) ELSE f[k - 1]
    BY <1>5, <2>1, Zenon
  <2>3. PICK s : s = f[k - 1]
    OBVIOUS
  <2>4. (IF Resolve(batch[k].path).child = b THEN Append(s, k) ELSE s) \in V
    <3> HIDE DEF N, V
    <3> QED
      BY <1>1, <2>3, Zenon
  <2> HIDE DEF N, V
  <2> QED
    BY <2>2, <2>3, <2>4, Zenon
<1>8. f[0] \in V
  <2>1. 0 \in 0 .. N
    BY <1>0
  <2>2. f[0] = <<>>
    BY <1>5, <2>1
  <2> HIDE DEF N, V
  <2> QED
    BY <1>0, <2>2
<1>9. N \in 0 .. N
  BY <1>0
<1>10. f[N] \in V
  <2> HIDE DEF N, V
  <2> QED
    BY <1>0, <1>7, <1>8, <1>9, StaysIn
<1> QED
  BY <1>6, <1>10

(* A batch in the order of its buckets names files of the batch.           *)
LEMMA BucketedIs ==
  ASSUME NEW batch, Len(batch) \in Nat
  PROVE  Bucketed(batch)[Len(batch)] \in Seq(1 .. Len(batch))
<1> DEFINE N == Len(batch)
           met(k) == \E i \in 1 .. k - 1 :
                       Resolve(batch[i].path).child = Resolve(batch[k].path).child
           own(k) == Bucket(batch, Resolve(batch[k].path).child)[Len(batch)]
           V == Seq(1 .. N)
           turn == [a \in (1 .. N) \X V |->
             IF met(a[1]) THEN a[2] ELSE a[2] \o own(a[1])]
<1>0. N \in Nat /\ <<>> \in V
  BY DEF Paths
<1>1. \A k \in 1 .. N, s \in V : (IF met(k) THEN s ELSE s \o own(k)) \in V
  <2> SUFFICES ASSUME NEW k \in 1 .. N, NEW s \in V
               PROVE  s \o own(k) \in V /\ s \in V
    OBVIOUS
  <2>1. PICK u : u = own(k)
    OBVIOUS
  <2>2. u \in V
    BY <2>1, BucketIs
  <2>3. s \o u \in V
    BY <2>2
  <2> QED
    BY <2>1, <2>3
<1>2. turn \in Turns(N, V)
  <2>1. ASSUME NEW a \in (1 .. N) \X V
        PROVE  (IF met(a[1]) THEN a[2] ELSE a[2] \o own(a[1])) \in V
    <3>1. a[1] \in 1 .. N /\ a[2] \in V
      BY <2>1
    <3> HIDE DEF N, V
    <3> QED
      BY <1>1, <3>1, Zenon
  <2> HIDE DEF N, V
  <2> QED
    BY <2>1 DEF Turns
<1>3. PICK h : Runs(h, V, <<>>, N, turn)
  <2> HIDE DEF N, V, turn
  <2> QED
    BY <1>0, <1>2, Recursion, Zenon
<1>4. h = [k \in 0 .. N |-> IF k = 0 THEN <<>>
          ELSE IF met(k) THEN h[k - 1] ELSE h[k - 1] \o own(k)]
  <2>1. h \in [0 .. N -> V] /\ h[0] = <<>> /\ \A k \in 1 .. N : h[k] = turn[<<k, h[k - 1]>>]
    BY <1>3 DEF Runs
  <2>2. ASSUME NEW k \in 1 .. N
        PROVE  h[k] = IF met(k) THEN h[k - 1] ELSE h[k - 1] \o own(k)
    <3> HIDE DEF V
    <3>1. h[k - 1] \in V
      <4>1. k - 1 \in 0 .. N
        BY <1>0
      <4> QED
        BY <2>1, <4>1, SMTT(30)
    <3>2. PICK s : s = h[k - 1]
      OBVIOUS
    <3>3. turn[<<k, s>>] = IF met(k) THEN s ELSE s \o own(k)
      BY <3>1, <3>2
    <3> HIDE DEF turn
    <3> QED
      BY <2>1, <3>2, <3>3, Zenon
  <2> HIDE DEF V, turn
  <2>3. ASSUME NEW k \in 0 .. N
        PROVE  h[k] = IF k = 0 THEN <<>>
          ELSE IF met(k) THEN h[k - 1] ELSE h[k - 1] \o own(k)
    <3>1. CASE k = 0
      BY <2>1, <3>1
    <3>2. CASE k # 0
      <4>1. k \in 1 .. N
        BY <1>0, <3>2
      <4> QED
        BY <2>2, <3>2, <4>1, Zenon
    <3> QED
      BY <3>1, <3>2
  <2>4. h = [k \in 0 .. N |-> h[k]]
    BY <2>1
  <2> QED
    BY <2>3, <2>4, SMTT(30)
<1> DEFINE f == CHOOSE g : g = [k \in 0 .. N |->
                IF k = 0 THEN <<>>
                ELSE IF met(k) THEN g[k - 1] ELSE g[k - 1] \o own(k)]
<1>5. f = [k \in 0 .. N |-> IF k = 0 THEN <<>>
          ELSE IF met(k) THEN f[k - 1] ELSE f[k - 1] \o own(k)]
  BY <1>4, Zenon
<1>6. Bucketed(batch)[Len(batch)] = f[N]
  BY Zenon DEF Bucketed
<1> HIDE DEF f
<1>7. \A k \in 1 .. N : f[k - 1] \in V => f[k] \in V
  <2> SUFFICES ASSUME NEW k \in 1 .. N, f[k - 1] \in V PROVE f[k] \in V
    OBVIOUS
  <2>1. k \in 0 .. N /\ k # 0
    OBVIOUS
  <2>2. f[k] = IF met(k) THEN f[k - 1] ELSE f[k - 1] \o own(k)
    BY <1>5, <2>1, Zenon
  <2>3. PICK s : s = f[k - 1]
    OBVIOUS
  <2>4. (IF met(k)
          THEN s ELSE s \o own(k)) \in V
    <3> HIDE DEF N, V
    <3> QED
      BY <1>1, <2>3, Zenon
  <2> HIDE DEF N, V
  <2> QED
    BY <2>2, <2>3, <2>4, Zenon
<1>8. f[0] \in V
  <2>1. 0 \in 0 .. N
    BY <1>0
  <2>2. f[0] = <<>>
    BY <1>5, <2>1
  <2> HIDE DEF N, V
  <2> QED
    BY <1>0, <2>2
<1>9. N \in 0 .. N
  BY <1>0
<1>10. f[N] \in V
  <2> HIDE DEF N, V
  <2> QED
    BY <1>0, <1>7, <1>8, <1>9, StaysIn
<1> QED
  BY <1>6, <1>10

(* The trees: each child has files under paths, and directories.           *)
TreeOK(t) ==
  /\ t = [ch \in Children |-> t[ch]]
  /\ \A ch \in Children : /\ t[ch] = [files |-> t[ch].files, dirs |-> t[ch].dirs]
                               /\ DOMAIN t[ch].files \subseteq Paths

KeptBy(t) == \A a \in Homes : \A q \in DOMAIN t[a[2]].files : Owner(a[1] \o q) = a[2]

(* Every file of the trees, under its absolute path.                       *)
Seen(t) == UNION {{<<a[1] \o q, t[a[2]].files[q]>> : q \in DOMAIN t[a[2]].files} : a \in Homes}

LEMMA SeenIs ==
  ASSUME NEW t, NEW e
  PROVE  e \in Seen(t) <=>
           \E a \in Homes : \E q \in DOMAIN t[a[2]].files : e = <<a[1] \o q, t[a[2]].files[q]>>
<1> DEFINE at(a) == {<<a[1] \o q, t[a[2]].files[q]>> : q \in DOMAIN t[a[2]].files}
<1>1. Seen(t) = UNION {at(a) : a \in Homes}
  BY Zenon DEF Seen
<1>2. ASSUME NEW a
          PROVE e \in at(a) <=> \E q \in DOMAIN t[a[2]].files : e = <<a[1] \o q, t[a[2]].files[q]>>
  BY Zenon
<1>3. e \in UNION {at(a) : a \in Homes} <=> \E a \in Homes : e \in at(a)
  <2> HIDE DEF at
  <2> QED
    OBVIOUS
<1> HIDE DEF at
<1> QED
  BY <1>1, <1>2, <1>3, Zenon

Holds(t, e, b, q) == b \in Homes /\ q \in DOMAIN t[b[2]].files /\ e = <<b[1] \o q, t[b[2]].files[q]>>

LEMMA SeenHas ==
  ASSUME NEW t, NEW e, e \in Seen(t)
  PROVE  \E b, q : Holds(t, e, b, q)
<1>1. PICK b \in Homes : \E q \in DOMAIN t[b[2]].files : e = <<b[1] \o q, t[b[2]].files[q]>>
  BY SeenIs, SMTT(30)
<1>2. PICK q \in DOMAIN t[b[2]].files : e = <<b[1] \o q, t[b[2]].files[q]>>
  BY <1>1, Zenon
<1>3. Holds(t, e, b, q)
  BY <1>2, Zenon DEF Holds
<1> QED
  BY <1>3

Shown(rs, t) ==
  LET asked == <<<<<<>>, "default">>>> \o rs
  IN UNION {{<<asked[i][1] \o q, t[asked[i][2]].files[q]>> : q \in DOMAIN t[asked[i][2]].files}
            : i \in DOMAIN asked}

LEMMA ShownIsSeen ==
  ASSUME NEW rs, RoutesOK(rs), NEW t
  PROVE  Shown(rs, t) = Seen(t)
<1> DEFINE asked == <<<<<<>>, "default">>>> \o rs
<1>1. rs \in Table /\ Len(rs) \in Nat /\ Entries(rs) = Entries(RouteList)
  BY DEF RoutesOK, Falling, Table
<1>2. PICK d : d = <<<<<<>>, "default">>>>
  OBVIOUS
<1>3. d \in Table /\ Len(d) = 1 /\ d[1] = <<<<>>, "default">>
  <2>1. <<>> \in Paths
    BY DEF Paths
  <2>2. PICK s : s = <<>>
    OBVIOUS
  <2>a. s \in Paths /\ "default" \in Children
    BY <2>1, <2>2, Zenon DEF Children
  <2>b. <<s, "default">> \in Paths \X Children
    BY <2>a, Zenon
  <2>3. PICK x : x = <<s, "default">>
    OBVIOUS
  <2>4. x \in Paths \X Children /\ d = <<x>>
    BY <1>2, <2>2, <2>3, <2>b
  <2>5. d \in Table /\ Len(d) = 1 /\ d[1] = x
    BY <2>4 DEF Table
  <2> QED
    BY <2>2, <2>3, <2>5
<1>4. /\ DOMAIN asked = 1 .. Len(rs) + 1 /\ asked[1] = <<<<>>, "default">>
      /\ \A i \in 1 .. Len(rs) : asked[1 + i] = rs[i]
  <2>1. asked = d \o rs
    BY <1>2
  <2> HIDE DEF asked
  <2>2. PICK n : n = Len(rs)
    OBVIOUS
  <2>3. /\ asked \in Table /\ Len(asked) = 1 + n
        /\ asked[1] = d[1] /\ \A i \in 1 .. n : asked[1 + i] = rs[i]
    <3>1. d \in Table /\ Len(d) = 1 /\ rs \in Table /\ Len(rs) = n /\ n \in Nat
      BY <1>1, <1>3, <2>2
    <3>2. /\ asked \in Table /\ Len(asked) = Len(d) + Len(rs)
          /\ \A i \in 1 .. Len(d) + Len(rs) :
               asked[i] = IF i <= Len(d) THEN d[i] ELSE rs[i - Len(d)]
      BY <2>1, <3>1, Zenon, ConcatProperties DEF Table
    <3>3. asked[1] = d[1]
      BY <3>1, <3>2
    <3>4. ASSUME NEW i \in 1 .. n PROVE asked[1 + i] = rs[i]
      <4>1. 1 + i \in 1 .. Len(d) + Len(rs) /\ ~(1 + i <= Len(d)) /\ (1 + i) - Len(d) = i
        BY <3>1
      <4> QED
        BY <3>2, <4>1
    <3> QED
      BY <3>1, <3>2, <3>3, <3>4
  <2>4. DOMAIN asked = 1 .. Len(asked)
    BY <2>3 DEF Table
  <2> QED
    BY <1>1, <1>3, <2>2, <2>3, <2>4
<1> HIDE DEF asked
<1>5. ASSUME NEW i \in DOMAIN asked PROVE asked[i] \in Homes
  <2>1. CASE i = 1
    BY <1>4, <2>1 DEF Homes
  <2>2. CASE i # 1
    <3>1. i - 1 \in 1 .. Len(rs) /\ 1 + (i - 1) = i
      BY <1>1, <1>4, <2>2
    <3>2. asked[i] = rs[i - 1]
      BY <1>4, <3>1
    <3> QED
      BY <1>1, <3>1, <3>2 DEF Homes, Entries
  <2> QED
    BY <2>1, <2>2
<1>6. ASSUME NEW a \in Homes PROVE \E i \in DOMAIN asked : asked[i] = a
  <2>1. CASE a = <<<<>>, "default">>
    BY <1>1, <1>4, <2>1
  <2>2. CASE a \in Entries(RouteList)
    <3>1. PICK i \in 1 .. Len(rs) : a = rs[i]
      BY <1>1, <2>2 DEF Entries
    <3>2. 1 + i \in DOMAIN asked /\ asked[1 + i] = a
      BY <1>1, <1>4, <3>1
    <3> QED
      BY <3>2
  <2> QED
    BY <2>1, <2>2 DEF Homes
<1> DEFINE At(a) == {<<a[1] \o q, t[a[2]].files[q]>> : q \in DOMAIN t[a[2]].files}
<1>7. Shown(rs, t) = UNION {At(asked[i]) : i \in DOMAIN asked}
  BY Zenon DEF Shown, asked
<1>8. Seen(t) = UNION {At(a) : a \in Homes}
  BY Zenon DEF Seen
<1>9. {At(asked[i]) : i \in DOMAIN asked} = {At(a) : a \in Homes}
  <2> HIDE DEF At
  <2> QED
    BY <1>5, <1>6
<1> QED
  BY <1>7, <1>8, <1>9

(* write() of a child: one file more, or another content of it.            *)
LEMMA PutIs ==
  ASSUME NEW t, TreeOK(t), NEW ch \in Children, NEW q \in Paths, NEW c, NEW u,
         u = Put(t, ch, q, c)
  PROVE  /\ TreeOK(u)
         /\ DOMAIN u[ch].files = DOMAIN t[ch].files \cup {q}
         /\ \A x \in DOMAIN u[ch].files : u[ch].files[x] = IF x = q THEN c ELSE t[ch].files[x]
         /\ \A x \in Children : x # ch => u[x] = t[x]
<1> DEFINE written == [x \in DOMAIN t[ch].files \cup {q} |-> IF x = q THEN c ELSE t[ch].files[x]]
<1>1. PICK node : node = IF kind[ch] = "fs" THEN FsWrite(t[ch], q, c) ELSE StateWrite(t[ch], q, c)
  OBVIOUS
<1>2. u = [t EXCEPT ![ch] = node]
  BY <1>1, Zenon DEF Put
<1>3. t[ch] = [files |-> t[ch].files, dirs |-> t[ch].dirs] /\ DOMAIN t[ch].files \subseteq Paths
  BY DEF TreeOK
<1>4. node.files = written /\ node = [files |-> node.files, dirs |-> node.dirs]
  <2>1. CASE kind[ch] = "fs"
    BY <1>1, <2>1 DEF FsWrite
  <2>2. CASE kind[ch] # "fs"
    <3>1. PICK F, D : t[ch] = [files |-> F, dirs |-> D]
      BY <1>3
    <3>2. node = [t[ch] EXCEPT !.files = [x \in DOMAIN @ \cup {q} |-> IF x = q THEN c ELSE @[x]]]
      BY <1>1, <2>2, Zenon DEF StateWrite
    <3>3. node = [files |-> written, dirs |-> D]
      BY <3>1, <3>2
    <3> QED
      BY <3>3
  <2> QED
    BY <2>1, <2>2
<1>5. u = [x \in Children |-> IF x = ch THEN node ELSE t[x]]
  BY <1>2 DEF TreeOK
<1> HIDE DEF written
<1>6. u[ch] = node /\ \A x \in Children : x # ch => u[x] = t[x]
  BY <1>5
<1>7. DOMAIN node.files = DOMAIN t[ch].files \cup {q}
  BY <1>4 DEF written
<1>8. \A x \in DOMAIN node.files : node.files[x] = IF x = q THEN c ELSE t[ch].files[x]
  BY <1>4 DEF written
<1>9. ASSUME NEW x \in Children
      PROVE  u[x] = [files |-> u[x].files, dirs |-> u[x].dirs] /\ DOMAIN u[x].files \subseteq Paths
  <2>1. CASE x = ch
    <3>1. DOMAIN node.files \subseteq Paths
      BY <1>3, <1>7
    <3> QED
      BY <1>4, <1>6, <2>1, <3>1
  <2>2. CASE x # ch
    BY <1>6, <2>2, Zenon DEF TreeOK
  <2> QED
    BY <2>1, <2>2
<1>10. u = [x \in Children |-> u[x]]
  BY <1>5
<1>11. TreeOK(u)
  BY <1>9, <1>10, Zenon DEF TreeOK
<1> QED
  BY <1>6, <1>7, <1>8, <1>11

(* A write to a path puts one file at it, in the child that owns it.       *)
LEMMA PutKeeps ==
  ASSUME BackAssumption, RoutesOK(routes), NEW t, TreeOK(t), KeptBy(t), NEW p \in Paths, NEW c,
         NEW r, r = Resolve(p), NEW u, u = Put(t, r.child, r.path, c)
  PROVE  /\ TreeOK(u) /\ KeptBy(u)
         /\ p \notin Mounts => Seen(u) = {e \in Seen(t) : e[1] # p} \cup {<<p, c>>}
<1>1. PICK a \in Homes : Found(p, r, a)
  BY ResolveIs
<1>2. PICK ch, q : ch = r.child /\ q = r.path
  OBVIOUS
<1>3. ch = a[2] /\ ch \in Children /\ q \in Paths /\ a[1] \in Paths
  BY <1>1, <1>2, HomesAre DEF Found
<1>4. /\ TreeOK(u)
      /\ DOMAIN u[ch].files = DOMAIN t[ch].files \cup {q}
      /\ \A x \in DOMAIN u[ch].files : u[ch].files[x] = IF x = q THEN c ELSE t[ch].files[x]
      /\ \A x \in Children : x # ch => u[x] = t[x]
  <2>1. u = Put(t, ch, q, c)
    BY <1>2
  <2> QED
    BY <1>3, <2>1, PutIs
<1>5. ASSUME NEW b \in Homes, NEW x \in DOMAIN u[b[2]].files PROVE Owner(b[1] \o x) = b[2]
  <2>1. CASE b = a
    <3>1. CASE x = q
      BY <1>1, <1>2, <2>1, <3>1 DEF Found
    <3>2. CASE x # q
      <4>1. x \in DOMAIN t[b[2]].files
        BY <1>3, <1>4, <1>5, <2>1, <3>2
      <4> QED
        BY <4>1 DEF KeptBy
    <3> QED
      BY <3>1, <3>2
  <2>2. CASE b # a
    <3>1. b[2] # ch /\ b[2] \in Children
      BY <1>3, <2>2, HomesAre
    <3>2. x \in DOMAIN t[b[2]].files
      BY <1>4, <1>5, <3>1
    <3> QED
      BY <3>2 DEF KeptBy
  <2> QED
    BY <2>1, <2>2
<1>6. KeptBy(u)
  BY <1>5 DEF KeptBy
<1>7. ASSUME p \notin Mounts PROVE Seen(u) = {e \in Seen(t) : e[1] # p} \cup {<<p, c>>}
  <2>0. p = a[1] \o q /\ Owner(p) = ch
    BY <1>1, <1>2, <1>3, <1>7 DEF Found
  <2>1. ASSUME NEW e, e \in Seen(u) PROVE e \in {d \in Seen(t) : d[1] # p} \cup {<<p, c>>}
    <3>a. \E b, x : Holds(u, e, b, x)
      BY <2>1, SeenHas, Zenon
    <3>1. PICK b, x : b \in Homes /\ x \in DOMAIN u[b[2]].files /\ e = <<b[1] \o x, u[b[2]].files[x]>>
      BY <3>a DEF Holds
    <3>2. CASE b = a /\ x = q
      <4>1. e[1] = p /\ e = <<p, u[ch].files[q]>>
        BY <1>3, <2>0, <3>1, <3>2
      <4>2. u[ch].files[q] = c
        BY <1>3, <1>4, <3>1, <3>2
      <4> QED
        BY <4>1, <4>2
    <3>3. CASE b = a /\ x # q
      <4>1. x \in DOMAIN t[b[2]].files /\ u[b[2]].files[x] = t[b[2]].files[x] /\ x \in Paths
        BY <1>3, <1>4, <3>1, <3>3 DEF TreeOK
      <4>2. e \in Seen(t)
        BY <3>1, <4>1, SeenIs
      <4>3. e[1] # p
        BY <1>3, <2>0, <3>1, <3>3, <4>1, PrefixJoin
      <4> QED
        BY <4>2, <4>3
    <3>4. CASE b # a
      <4>1. b[2] # ch /\ b[2] \in Children
        BY <1>3, <3>1, <3>4, HomesAre
      <4>2. u[b[2]] = t[b[2]]
        BY <1>4, <4>1
      <4>3. e \in Seen(t)
        BY <3>1, <4>2, SeenIs
      <4>4. Owner(e[1]) = b[2]
        BY <1>5, <3>1
      <4> QED
        BY <2>0, <4>1, <4>3, <4>4
    <3> QED
      BY <3>2, <3>3, <3>4
  <2>2. <<p, c>> \in Seen(u)
    <3>1. q \in DOMAIN u[a[2]].files /\ u[a[2]].files[q] = c
      BY <1>3, <1>4
    <3>2. <<p, c>> = <<a[1] \o q, u[a[2]].files[q]>>
      BY <2>0, <3>1
    <3> QED
      BY <3>1, <3>2, SeenIs
  <2>3. ASSUME NEW e \in Seen(t), e[1] # p PROVE e \in Seen(u)
    <3>a. \E b, x : Holds(t, e, b, x)
      BY SeenHas, Zenon
    <3>1. PICK b, x : b \in Homes /\ x \in DOMAIN t[b[2]].files /\ e = <<b[1] \o x, t[b[2]].files[x]>>
      BY <3>a DEF Holds
    <3>2. CASE b = a
      <4>1. x # q
        BY <2>0, <2>3, <3>1, <3>2
      <4>2. x \in DOMAIN u[b[2]].files /\ u[b[2]].files[x] = t[b[2]].files[x]
        BY <1>3, <1>4, <3>1, <3>2, <4>1
      <4> QED
        BY <3>1, <4>2, SeenIs
    <3>3. CASE b # a
      <4>1. u[b[2]] = t[b[2]]
        BY <1>3, <1>4, <3>1, <3>3, HomesAre
      <4> QED
        BY <3>1, <4>1, SeenIs
    <3> QED
      BY <3>2, <3>3
  <2> QED
    BY <2>1, <2>2, <2>3
<1> QED
  BY <1>4, <1>6, <1>7

(* The trees without what delete() of a child takes.                       *)
Pruned(ch, p) ==
  [tree EXCEPT ![ch] = [files |-> [q \in DOMAIN @.files \ Doomed(ch, p) |-> @.files[q]],
                        dirs |-> @.dirs \ Doomed(ch, p)]]

(* The child ch loses what lies below s, and nothing else changes.         *)
Cut(t, u, ch, s) ==
  /\ \A x \in Children : x # ch => u[x] = t[x]
  /\ DOMAIN u[ch].files = {q \in DOMAIN t[ch].files : ~IsPrefix(s, q)}
  /\ \A q \in DOMAIN u[ch].files : u[ch].files[q] = t[ch].files[q]

Lost(t, p, ch) == {e \in Seen(t) : IsPrefix(p, e[1]) /\ Owner(e[1]) = ch}

LEMMA CutSeen ==
  ASSUME BackAssumption, NEW t, TreeOK(t), KeptBy(t), NEW a, a \in Homes, NEW s, s \in Paths, NEW u,
         Cut(t, u, a[2], s)
  PROVE  KeptBy(u) /\ Seen(u) = Seen(t) \ Lost(t, a[1] \o s, a[2])
<1> USE DEF Cut
<1> DEFINE below == Lost(t, a[1] \o s, a[2])
<1>1. ASSUME NEW b \in Homes, NEW q \in DOMAIN u[b[2]].files
      PROVE  q \in DOMAIN t[b[2]].files /\ u[b[2]].files[q] = t[b[2]].files[q] /\ (b = a => ~IsPrefix(s, q))
  <2>1. CASE b = a
    BY <2>1
  <2>2. CASE b # a
    <3>1. b[2] # a[2] /\ b[2] \in Children
      BY <2>2, HomesAre
    <3>2. u[b[2]] = t[b[2]]
      BY <3>1
    <3> QED
      BY <2>2, <3>2
  <2> QED
    BY <2>1, <2>2
<1>2. ASSUME NEW b \in Homes, NEW q \in DOMAIN t[b[2]].files, ~(b = a /\ IsPrefix(s, q))
      PROVE  q \in DOMAIN u[b[2]].files
  <2>1. CASE b = a
    BY <1>2, <2>1
  <2>2. CASE b # a
    <3>1. b[2] # a[2] /\ b[2] \in Children
      BY <2>2, HomesAre
    <3>2. u[b[2]] = t[b[2]]
      BY <3>1
    <3> QED
      BY <3>2
  <2> QED
    BY <2>1, <2>2
<1>3. KeptBy(u)
  <2>1. ASSUME NEW b \in Homes, NEW q \in DOMAIN u[b[2]].files PROVE Owner(b[1] \o q) = b[2]
    BY <1>1 DEF KeptBy
  <2> QED
    BY <2>1 DEF KeptBy
(* A file is below just when it is in that child, below the path.          *)
<1>4. ASSUME NEW b \in Homes, NEW q \in DOMAIN t[b[2]].files, NEW e, e = <<b[1] \o q, t[b[2]].files[q]>>
      PROVE  /\ e \in Seen(t)
             /\ e \in below <=> b = a /\ IsPrefix(s, q)
  <2>1. e \in Seen(t)
    BY <1>4, SeenIs
  <2>2. Owner(e[1]) = b[2] /\ e[1] = b[1] \o q
    BY <1>4 DEF KeptBy
  <2>3. b[2] = a[2] <=> b = a
    BY HomesAre
  <2>4. ASSUME b = a PROVE IsPrefix(a[1] \o s, e[1]) <=> IsPrefix(s, q)
    <3>1. q \in Paths /\ a[1] \in Paths
      BY HomesAre DEF TreeOK
    <3> QED
      BY <2>2, <2>4, <3>1, PrefixJoin
  <2> QED
    BY <2>1, <2>2, <2>3, <2>4 DEF Lost
<1> HIDE DEF below
<1>5. ASSUME NEW e, e \in Seen(u) PROVE e \in Seen(t) \ below
  <2>a. \E b, q : Holds(u, e, b, q)
    BY <1>5, SeenHas, Zenon
  <2>1. PICK b, q : b \in Homes /\ q \in DOMAIN u[b[2]].files /\ e = <<b[1] \o q, u[b[2]].files[q]>>
    BY <2>a DEF Holds
  <2>2. q \in DOMAIN t[b[2]].files /\ e = <<b[1] \o q, t[b[2]].files[q]>> /\ ~(b = a /\ IsPrefix(s, q))
    BY <1>1, <2>1
  <2> QED
    BY <1>4, <2>1, <2>2
<1>6. ASSUME NEW e \in Seen(t), e \notin below PROVE e \in Seen(u)
  <2>a. \E b, q : Holds(t, e, b, q)
    BY SeenHas, Zenon
  <2>1. PICK b, q : b \in Homes /\ q \in DOMAIN t[b[2]].files /\ e = <<b[1] \o q, t[b[2]].files[q]>>
    BY <2>a DEF Holds
  <2>2. ~(b = a /\ IsPrefix(s, q))
    BY <1>4, <1>6, <2>1
  <2>3. q \in DOMAIN u[b[2]].files /\ u[b[2]].files[q] = t[b[2]].files[q]
    BY <1>1, <1>2, <2>1, <2>2
  <2> QED
    BY <2>1, <2>3, SeenIs
<1>7. Seen(u) = Seen(t) \ below
  BY <1>5, <1>6
<1> QED
  BY <1>3, <1>7 DEF below

(* A delete takes what lies below the path out of the child that owns it.  *)
LEMMA DeleteKeeps ==
  ASSUME BackAssumption, RoutesOK(routes), TreeOK(tree), KeptBy(tree), NEW p \in Paths,
         NEW r, r = Resolve(p), Doomed(r.child, r.path) # {}, NEW u,
         u = Pruned(r.child, r.path)
  PROVE  /\ TreeOK(u) /\ KeptBy(u)
         /\ p \notin Mounts =>
              Seen(u) = Seen(tree) \ Lost(tree, p, Owner(p))
<1>1. PICK a \in Homes : Found(p, r, a)
  BY ResolveIs
<1>2. PICK ch, s, doomed : ch = r.child /\ s = r.path /\ doomed = Doomed(ch, s)
  OBVIOUS
<1>3. ch = a[2] /\ ch \in Children /\ s \in Paths /\ a[1] \in Paths
  BY <1>1, <1>2, HomesAre DEF Found
<1> DEFINE F == tree[ch].files
           left == [q \in DOMAIN F \ doomed |-> F[q]]
<1>4. PICK node : node = [files |-> left, dirs |-> tree[ch].dirs \ doomed]
  OBVIOUS
<1>5. u = [tree EXCEPT ![ch] = node]
  <2>1. u = Pruned(ch, s)
    BY <1>2
  <2> QED
    BY <1>2, <1>4, <2>1 DEF Pruned
<1>6. u = [x \in Children |-> IF x = ch THEN node ELSE tree[x]]
  BY <1>5 DEF TreeOK
<1>7. node.files = left /\ node = [files |-> node.files, dirs |-> node.dirs]
  BY <1>4
<1> HIDE DEF left, F
<1>8. u[ch] = node /\ \A x \in Children : x # ch => u[x] = tree[x]
  BY <1>3, <1>6
<1>9. DOMAIN F \subseteq Paths
  BY <1>3 DEF TreeOK, F
<1>10. /\ DOMAIN left = {q \in DOMAIN F : ~IsPrefix(s, q)}
       /\ \A q \in DOMAIN left : left[q] = F[q]
  <2>1. ASSUME NEW q \in DOMAIN F PROVE q \in doomed <=> IsPrefix(s, q)
    <3>1. doomed # {}
      BY <1>2
    <3>2. CASE kind[ch] = "fs"
      <4>1. doomed = FsDoomed(tree[ch], s)
        BY <1>2, <3>2 DEF Doomed
      <4> QED
        BY <3>1, <4>1 DEF FsDoomed, F
    <3>3. CASE kind[ch] # "fs"
      <4>1. doomed = StateDoomed(tree[ch], s)
        BY <1>2, <3>3 DEF Doomed
      <4> QED
        BY <3>1, <4>1 DEF StateDoomed, F
    <3> QED
      BY <3>2, <3>3
  <2>2. DOMAIN left = DOMAIN F \ doomed /\ \A q \in DOMAIN F \ doomed : left[q] = F[q]
    BY DEF left
  <2> QED
    BY <2>1, <2>2
<1>11. ASSUME NEW x \in Children
       PROVE  u[x] = [files |-> u[x].files, dirs |-> u[x].dirs] /\ DOMAIN u[x].files \subseteq Paths
  <2>1. CASE x = ch
    <3>1. u[x].files = left /\ u[x] = [files |-> u[x].files, dirs |-> u[x].dirs]
      BY <1>7, <1>8, <2>1
    <3> QED
      BY <1>9, <1>10, <2>1, <3>1
  <2>2. CASE x # ch
    BY <1>8, <2>2, Zenon DEF TreeOK
  <2> QED
    BY <2>1, <2>2
<1>12. TreeOK(u)
  <2>1. u = [x \in Children |-> u[x]]
    BY <1>6
  <2> QED
    BY <1>11, <2>1, Zenon DEF TreeOK
<1>13. KeptBy(u) /\ Seen(u) = Seen(tree) \ Lost(tree, a[1] \o s, a[2])
  <2>1. \A x \in Children : x # a[2] => u[x] = tree[x]
    BY <1>3, <1>8
  <2>2. /\ DOMAIN u[a[2]].files = {q \in DOMAIN tree[a[2]].files : ~IsPrefix(s, q)}
        /\ \A q \in DOMAIN u[a[2]].files : u[a[2]].files[q] = tree[a[2]].files[q]
    <3>1. u[a[2]].files = left
      BY <1>3, <1>7, <1>8
    <3> QED
      BY <1>3, <1>10, <3>1 DEF F
  <2>3. Cut(tree, u, a[2], s)
    BY <2>1, <2>2, Zenon DEF Cut
  <2> QED
    BY <1>3, <2>3, CutSeen, Zenon
<1>14. ASSUME p \notin Mounts PROVE p = a[1] \o s /\ Owner(p) = a[2]
  BY <1>1, <1>2, <1>14 DEF Found
<1> QED
  BY <1>12, <1>13, <1>14, Zenon

(* The files of a batch go in one by one.                                  *)
LEMMA UploadedIs ==
  ASSUME BackAssumption, RoutesOK(routes), TreeOK(tree), KeptBy(tree), NEW batch \in Batches,
         NEW order \in Seq(1 .. Len(batch)), NEW done, done = Uploaded(batch, order)[Len(order)]
  PROVE  TreeOK(done.tree) /\ KeptBy(done.tree)
<1> DEFINE N == Len(order)
           base == [tree |-> tree, results |-> <<>>]
           next(s, k) == UploadOne(s, order[k], batch[order[k]])
           T == {n \in Nat : \E h : h = [k \in 0 .. n |-> IF k = 0 THEN base
             ELSE next(h[k - 1], k)]}
<1>0. N \in Nat /\ \A k \in 1 .. N : order[k] \in 1 .. Len(batch)
  OBVIOUS
<1>a. \A i \in 1 .. Len(batch) : batch[i].path \in Paths
  BY Zenon DEF BackAssumption
<1> HIDE DEF next, base
<1>1. 0 \in T
  <2>1. [k \in 0 .. 0 |-> base]
          = [k \in 0 .. 0 |-> IF k = 0 THEN base ELSE next([j \in 0 .. 0 |-> base][k - 1], k)]
    OBVIOUS
  <2> QED
    BY <2>1
<1>2. ASSUME NEW n \in Nat, n \in T PROVE n + 1 \in T
  <2>1. PICK h : h = [k \in 0 .. n |-> IF k = 0 THEN base ELSE next(h[k - 1], k)]
    BY <1>2
  <2> DEFINE e == [k \in 0 .. n + 1 |-> IF k = n + 1 THEN next(h[n], n + 1) ELSE h[k]]
  <2>2. ASSUME NEW k \in 0 .. n + 1 PROVE e[k] = IF k = 0 THEN base ELSE next(e[k - 1], k)
    <3>1. CASE k = n + 1
      <4>1. n \in 0 .. n + 1 /\ k - 1 = n /\ n # n + 1 /\ k # 0
        BY <3>1
      <4>2. e[k] = next(h[n], k) /\ e[k - 1] = h[n]
        BY <3>1, <4>1
      <4> QED
        BY <4>1, <4>2
    <3>2. CASE k # n + 1
      <4>1. k \in 0 .. n /\ (k # 0 => k - 1 \in 0 .. n + 1 /\ k - 1 # n + 1)
        BY <3>2
      <4>2. e[k] = h[k] /\ (k # 0 => e[k - 1] = h[k - 1])
        BY <3>2, <4>1
      <4>3. h[k] = IF k = 0 THEN base ELSE next(h[k - 1], k)
        BY <2>1, <4>1, Zenon
      <4> QED
        BY <4>2, <4>3
    <3> QED
      BY <3>1, <3>2
  <2>3. e = [k \in 0 .. n + 1 |-> e[k]]
    OBVIOUS
  <2> HIDE DEF e
  <2>4. e = [k \in 0 .. n + 1 |-> IF k = 0 THEN base ELSE next(e[k - 1], k)]
    BY <2>2, <2>3
  <2> QED
    BY <2>4
<1>3. N \in T
  <2> HIDE DEF T
  <2> QED
    BY <1>0, <1>1, <1>2, CountUp
<1>4. \E h : h = [k \in 0 .. N |-> IF k = 0 THEN base ELSE next(h[k - 1], k)]
  BY <1>3
<1> DEFINE f == CHOOSE h : h = [k \in 0 .. N |-> IF k = 0 THEN base ELSE next(h[k - 1], k)]
<1>5. f = [k \in 0 .. N |-> IF k = 0 THEN base ELSE next(f[k - 1], k)]
  BY <1>4, Zenon
<1>6. done = f[N]
  BY Zenon DEF Uploaded, base, next
<1> HIDE DEF f, T
<1> DEFINE Fine == {n \in Nat : n <= N => TreeOK(f[n].tree) /\ KeptBy(f[n].tree)}
<1>7. 0 \in Fine
  <2>1. f[0] = base
    BY <1>0, <1>5
  <2>2. f[0].tree = tree
    BY <2>1 DEF base
  <2> QED
    BY <2>2
<1>8. ASSUME NEW n \in Nat, n \in Fine PROVE n + 1 \in Fine
  <2> SUFFICES ASSUME n + 1 <= N PROVE TreeOK(f[n + 1].tree) /\ KeptBy(f[n + 1].tree)
    OBVIOUS
  <2>1. n + 1 \in 0 .. N /\ n + 1 # 0 /\ (n + 1) - 1 = n /\ n + 1 \in 1 .. N /\ n <= N
    BY <1>0
  <2>2. PICK s, v, i : s = f[n] /\ v = f[n + 1] /\ i = order[n + 1]
    OBVIOUS
  <2>3. v = next(s, n + 1)
    BY <1>5, <2>1, <2>2
  <2>4. TreeOK(s.tree) /\ KeptBy(s.tree)
    BY <1>8, <2>1, <2>2
  <2>5. i \in 1 .. Len(batch) /\ batch[i].path \in Paths
    BY <1>0, <1>a, <2>1, <2>2, SMTT(30)
  <2>6. PICK r, w : r = Resolve(batch[i].path) /\ w = Put(s.tree, r.child, r.path, batch[i].content)
    OBVIOUS
  <2>7. v.tree = w \/ v.tree = s.tree
    BY <2>2, <2>3, <2>6 DEF next, UploadOne
  <2>8. TreeOK(w) /\ KeptBy(w)
    BY <2>4, <2>5, <2>6, PutKeeps
  <2>9. TreeOK(v.tree) /\ KeptBy(v.tree)
    BY <2>4, <2>7, <2>8
  <2> QED
    BY <2>2, <2>9
<1>9. N \in Fine
  <2> HIDE DEF Fine
  <2> QED
    BY <1>0, <1>7, <1>8, CountUp
<1>10. TreeOK(f[N].tree) /\ KeptBy(f[N].tree)
  BY <1>0, <1>9
<1> QED
  BY <1>6, <1>10

(* The inductive invariant: the table holds the declared routes, longest   *)
(* prefix first, every child keeps only files that it owns, and an edit    *)
(* under way is at a path.                                                 *)
BackInv ==
  /\ RoutesOK(routes) /\ TreeOK(tree) /\ KeptBy(tree)
  /\ edit = [c \in Clients |-> edit[c]]
  /\ \A c \in Clients : edit[c] # Nothing => edit[c].at \in Paths

LEMMA BackInit ==
  ASSUME BackAssumption, Init
  PROVE  BackInv
<1>1. RoutesOK(routes)
  BY RoutesFall DEF Init
<1>2. tree = [ch \in Children |-> [files |-> <<>>, dirs |-> IF kind[ch] = "fs" THEN {<<>>} ELSE {}]]
  BY DEF Init
<1>3. ASSUME NEW ch \in Children
      PROVE  tree[ch] = [files |-> tree[ch].files, dirs |-> tree[ch].dirs] /\ DOMAIN tree[ch].files = {}
  <2>1. PICK D : D = IF kind[ch] = "fs" THEN {<<>>} ELSE {}
    OBVIOUS
  <2>2. tree[ch] = [files |-> <<>>, dirs |-> D]
    BY <1>2, <2>1
  <2>3. DOMAIN <<>> = {}
    OBVIOUS
  <2> QED
    BY <2>2, <2>3
<1>4. tree = [ch \in Children |-> tree[ch]]
  BY <1>2
<1>5. TreeOK(tree)
  BY <1>3, <1>4 DEF TreeOK
<1>6. KeptBy(tree)
  BY <1>3, HomesAre DEF KeptBy
<1>7. edit = [c \in Clients |-> Nothing]
  BY DEF Init
<1> QED
  BY <1>1, <1>5, <1>6, <1>7 DEF BackInv

(* What the composite shows are the files of its children, and each is     *)
(* with its owner, before and after a step.                                *)
LEMMA BackViews ==
  ASSUME BackAssumption, RoutesOK(routes), routes' = routes, TreeOK(tree'), KeptBy(tree')
  PROVE  /\ View = Seen(tree) /\ View' = Seen(tree')
         /\ KeptByOwner'
<1>1. View = Shown(routes, tree) /\ View' = Shown(routes', tree')
  BY Zenon DEF View, Asked, Rebuild, Shown
<1>2. Shown(routes, tree) = Seen(tree) /\ Shown(routes', tree') = Seen(tree')
  <2>1. RoutesOK(routes')
    BY Zenon
  <2> QED
    BY <2>1, ShownIsSeen, Zenon
<1>3. ASSUME NEW q \in DOMAIN tree'["default"].files PROVE Owner(q) = "default"
  <2>1. PICK a : a = <<<<>>, "default">>
    OBVIOUS
  <2>2. a \in Homes /\ a[1] = <<>> /\ a[2] = "default"
    BY <2>1 DEF Homes
  <2>3. q \in Paths
    BY <2>2, HomesAre DEF TreeOK
  <2>4. <<>> \o q = q
    BY <2>3 DEF Paths
  <2> QED
    BY <2>2, <2>4 DEF KeptBy
<1>4. ASSUME NEW i \in DOMAIN routes, NEW q \in DOMAIN tree'[routes[i][2]].files
      PROVE  Owner(routes[i][1] \o q) = routes[i][2]
  <2>1. DOMAIN routes = 1 .. Len(routes) /\ Entries(routes) = Entries(RouteList)
    BY DEF RoutesOK, Falling, Table
  <2>2. routes[i] \in Homes
    BY <2>1 DEF Entries, Homes
  <2> QED
    BY <2>2 DEF KeptBy
<1>5. KeptByOwner'
  BY <1>3, <1>4 DEF KeptByOwner, Rebuild
<1> QED
  BY <1>1, <1>2, <1>5

Flat ==
  /\ KeptByOwner'
  /\ did'.op = "write" /\ did'.path \notin Mounts =>
       View' = {e \in View : e[1] # did'.path} \cup {<<did'.path, did'.content>>}
  /\ did'.op = "delete" /\ did'.path \notin Mounts =>
       View' = View \ Under(did'.path)

(* The part of a step that is about the trees.                             *)
TreesStep ==
  \/ tree' = tree /\ did'.op \notin {"write", "delete"}
  \/ \E p \in Paths : \E c, r :
       /\ r = Resolve(p) /\ tree' = Put(tree, r.child, r.path, c)
       /\ did' = [op |-> "write", path |-> p, content |-> c]
  \/ \E p \in Paths : \E r :
       /\ r = Resolve(p) /\ Doomed(r.child, r.path) # {}
       /\ tree' = Pruned(r.child, r.path)
       /\ did' = [op |-> "delete", path |-> p, child |-> r.child]
  \/ \E batch \in Batches : \E order, done :
       /\ order \in Seq(1 .. Len(batch)) /\ done = Uploaded(batch, order)[Len(order)]
       /\ tree' = done.tree /\ did'.op = "upload"

LEMMA TreesKept ==
  ASSUME BackAssumption, BackInv, routes' = routes, TreesStep
  PROVE  TreeOK(tree') /\ KeptBy(tree') /\ Flat
<1>0. RoutesOK(routes) /\ TreeOK(tree) /\ KeptBy(tree)
  BY DEF BackInv
<1>1. CASE tree' = tree /\ did'.op \notin {"write", "delete"}
  <2>1. TreeOK(tree') /\ KeptBy(tree')
    BY <1>0, <1>1, Zenon
  <2>2. KeptByOwner'
    BY <1>0, <2>1, BackViews
  <2> QED
    BY <1>1, <2>1, <2>2 DEF Flat
<1>2. ASSUME NEW p \in Paths, NEW c, NEW r, r = Resolve(p), tree' = Put(tree, r.child, r.path, c),
             did' = [op |-> "write", path |-> p, content |-> c]
      PROVE  TreeOK(tree') /\ KeptBy(tree') /\ Flat
  <2>1. /\ TreeOK(tree') /\ KeptBy(tree')
        /\ p \notin Mounts => Seen(tree') = {e \in Seen(tree) : e[1] # p} \cup {<<p, c>>}
    BY <1>0, <1>2, PutKeeps
  <2>2. KeptByOwner' /\ View = Seen(tree) /\ View' = Seen(tree')
    BY <1>0, <2>1, BackViews
  <2>3. did'.op = "write" /\ did'.path = p /\ did'.content = c
    BY <1>2
  <2> QED
    BY <2>1, <2>2, <2>3 DEF Flat
<1>3. ASSUME NEW p \in Paths, NEW r, r = Resolve(p), Doomed(r.child, r.path) # {},
             tree' = Pruned(r.child, r.path), did' = [op |-> "delete", path |-> p, child |-> r.child]
      PROVE  TreeOK(tree') /\ KeptBy(tree') /\ Flat
  <2>1. /\ TreeOK(tree') /\ KeptBy(tree')
        /\ p \notin Mounts => Seen(tree') = Seen(tree) \ Lost(tree, p, Owner(p))
    BY <1>0, <1>3, DeleteKeeps
  <2>2. KeptByOwner' /\ View = Seen(tree) /\ View' = Seen(tree')
    BY <1>0, <2>1, BackViews
  <2>3. did'.op = "delete" /\ did'.path = p
    BY <1>3
  <2>4. Under(p) = Lost(tree, p, Owner(p))
    BY <2>2, Zenon DEF Under, Lost
  <2> QED
    BY <2>1, <2>2, <2>3, <2>4 DEF Flat
<1>4. ASSUME NEW batch \in Batches, NEW order, NEW done, order \in Seq(1 .. Len(batch)),
             done = Uploaded(batch, order)[Len(order)], tree' = done.tree, did'.op = "upload"
      PROVE  TreeOK(tree') /\ KeptBy(tree') /\ Flat
  <2>1. TreeOK(tree') /\ KeptBy(tree')
    BY <1>0, <1>4, UploadedIs
  <2>2. KeptByOwner'
    BY <1>0, <2>1, BackViews
  <2> QED
    BY <1>4, <2>1, <2>2 DEF Flat
<1> QED
  BY <1>1, <1>2, <1>3, <1>4, Zenon DEF TreesStep

(* Every call changes the trees in one of these ways.                      *)
LEMMA BackTrees ==
  ASSUME BackAssumption, BackInv, Next
  PROVE  /\ TreesStep /\ routes' = routes
         /\ edit' = [c \in Clients |-> edit'[c]]
         /\ \A c \in Clients : edit'[c] # Nothing => edit'[c].at \in Paths
<1>0. /\ edit = [c \in Clients |-> edit[c]] /\ \A c \in Clients : edit[c] # Nothing => edit[c].at \in Paths
  BY DEF BackInv
<1> PICK c \in Clients :
      \/ \E raw \in Raws : \/ \E w \in Contents : Write(c, raw, w)
                           \/ Delete(c, raw)
                           \/ \E old, new \in Words, all \in BOOLEAN : Edit(c, raw, old, new, all)
      \/ \E batch \in Batches : Upload(c, batch)
      \/ EditWrite(c) \/ Execute(c) \/ ExecuteEnds(c) \/ ExecuteTimesOut(c)
  BY Zenon DEF Next
<1>a. ASSUME NEW raw \in Raws, PathNew(raw) # Nothing PROVE PathNew(raw) \in Paths
  BY <1>a, PathNewIs DEF BackAssumption
<1>1. ASSUME NEW raw \in Raws, NEW w \in Contents, Write(c, raw, w)
      PROVE  TreesStep /\ routes' = routes /\ edit' = edit
  <2>1. PICK p, r : p = PathNew(raw) /\ r = Resolve(p)
    OBVIOUS
  <2>2. p \in Paths
    BY <1>1, <1>a, <2>1 DEF Write
  <2>3. /\ routes' = routes /\ edit' = edit
        /\ \/ tree' = Put(tree, r.child, r.path, w) /\ did' = [op |-> "write", path |-> p, content |-> w]
           \/ tree' = tree /\ did' = [op |-> "error"]
    BY <1>1, <2>1, Zenon DEF Write
  <2>4. CASE tree' = tree /\ did' = [op |-> "error"]
    BY <2>3, <2>4 DEF TreesStep
  <2>5. CASE tree' = Put(tree, r.child, r.path, w) /\ did' = [op |-> "write", path |-> p, content |-> w]
    BY <2>1, <2>2, <2>3, <2>5, Zenon DEF TreesStep
  <2> QED
    BY <2>3, <2>4, <2>5
<1>2. ASSUME NEW raw \in Raws, Delete(c, raw)
      PROVE  TreesStep /\ routes' = routes /\ edit' = edit
  <2>1. PICK p, r : p = PathNew(raw) /\ r = Resolve(p)
    OBVIOUS
  <2>2. p \in Paths
    BY <1>2, <1>a, <2>1 DEF Delete
  <2>3. /\ routes' = routes /\ edit' = edit
        /\ \/ /\ Doomed(r.child, r.path) # {} /\ tree' = Pruned(r.child, r.path)
              /\ did' = [op |-> "delete", path |-> p, child |-> r.child]
           \/ tree' = tree /\ did' = [op |-> "error"]
    BY <1>2, <2>1, Zenon DEF Delete, Pruned
  <2>4. CASE tree' = tree /\ did' = [op |-> "error"]
    BY <2>3, <2>4 DEF TreesStep
  <2>5. CASE /\ Doomed(r.child, r.path) # {} /\ tree' = Pruned(r.child, r.path)
             /\ did' = [op |-> "delete", path |-> p, child |-> r.child]
    BY <2>1, <2>2, <2>3, <2>5, Zenon DEF TreesStep
  <2> QED
    BY <2>3, <2>4, <2>5
<1>3. ASSUME NEW raw \in Raws, NEW old \in Words, NEW new \in Words, NEW all \in BOOLEAN,
             Edit(c, raw, old, new, all)
      PROVE  /\ TreesStep /\ routes' = routes
             /\ \/ edit' = edit
                \/ \E x : edit' = [edit EXCEPT ![c] = [at |-> PathNew(raw), content |-> x]]
             /\ PathNew(raw) \in Paths
  <2>1. PICK p, r, x : /\ p = PathNew(raw) /\ r = Resolve(p)
                       /\ x = Edited(ReadAt(PathNew(raw)), old, new, all)
    OBVIOUS
  <2>2. p \in Paths
    BY <1>3, <1>a, <2>1 DEF Edit
  <2>3. /\ routes' = routes
        /\ \/ tree' = tree /\ did' = [op |-> "error"] /\ edit' = edit
           \/ /\ tree' = Put(tree, r.child, r.path, x) /\ edit' = edit
              /\ did' = [op |-> "write", path |-> p, content |-> x]
           \/ /\ tree' = tree /\ did' = [op |-> "none"]
              /\ edit' = [edit EXCEPT ![c] = [at |-> p, content |-> x]]
    BY <1>3, <2>1, Zenon DEF Edit
  <2>4. CASE tree' = tree /\ did' = [op |-> "error"] /\ edit' = edit
    BY <2>1, <2>2, <2>3, <2>4 DEF TreesStep
  <2>5. CASE /\ tree' = Put(tree, r.child, r.path, x) /\ edit' = edit
             /\ did' = [op |-> "write", path |-> p, content |-> x]
    BY <2>1, <2>2, <2>3, <2>5, Zenon DEF TreesStep
  <2>6. CASE /\ tree' = tree /\ did' = [op |-> "none"]
             /\ edit' = [edit EXCEPT ![c] = [at |-> p, content |-> x]]
    <3>1. TreesStep
      BY <2>6 DEF TreesStep
    <3> QED
      BY <2>1, <2>2, <2>3, <2>6, <3>1
  <2> QED
    BY <2>3, <2>4, <2>5, <2>6
<1>4. ASSUME NEW batch \in Batches, Upload(c, batch)
      PROVE  TreesStep /\ routes' = routes /\ edit' = edit
  <2>1. PICK order, done : /\ order = Bucketed(batch)[Len(batch)]
                           /\ done = Uploaded(batch, order)[Len(order)]
    OBVIOUS
  <2>2. order \in Seq(1 .. Len(batch))
    <3>1. Len(batch) \in Nat
      BY DEF BackAssumption
    <3> QED
      BY <2>1, <3>1, BucketedIs
  <2>3. /\ routes' = routes /\ edit' = edit
        /\ tree' = done.tree /\ did' = [op |-> "upload", results |-> done.results]
    BY <1>4, <2>1, Zenon DEF Upload
  <2>4. did'.op = "upload"
    BY <2>3
  <2> QED
    BY <2>1, <2>2, <2>3, <2>4, Zenon DEF TreesStep
<1>5. ASSUME EditWrite(c)
      PROVE  TreesStep /\ routes' = routes /\ edit' = [edit EXCEPT ![c] = Nothing]
  <2>1. PICK p, r, x : p = edit[c].at /\ r = Resolve(p) /\ x = edit[c].content
    OBVIOUS
  <2>2. p \in Paths
    BY <1>0, <1>5, <2>1 DEF EditWrite
  <2>3. /\ routes' = routes /\ edit' = [edit EXCEPT ![c] = Nothing]
        /\ \/ tree' = Put(tree, r.child, r.path, x) /\ did' = [op |-> "write", path |-> p, content |-> x]
           \/ tree' = tree /\ did' = [op |-> "error"]
    BY <1>5, <2>1, Zenon DEF EditWrite
  <2>4. CASE tree' = tree /\ did' = [op |-> "error"]
    BY <2>3, <2>4 DEF TreesStep
  <2>5. CASE tree' = Put(tree, r.child, r.path, x) /\ did' = [op |-> "write", path |-> p, content |-> x]
    BY <2>1, <2>2, <2>3, <2>5, Zenon DEF TreesStep
  <2> QED
    BY <2>3, <2>4, <2>5
<1>6. ASSUME Execute(c) \/ ExecuteEnds(c) \/ ExecuteTimesOut(c)
      PROVE  TreesStep /\ routes' = routes /\ edit' = edit
  <2>1. /\ routes' = routes /\ edit' = edit /\ tree' = tree
        /\ did' = [op |-> "none"] \/ did' = [op |-> "timeout"]
    BY <1>6, Zenon DEF Execute, ExecuteEnds, ExecuteTimesOut
  <2> QED
    BY <2>1 DEF TreesStep
<1>7. /\ TreesStep /\ routes' = routes
      /\ \/ edit' = edit
         \/ edit' = [edit EXCEPT ![c] = Nothing]
         \/ \E p \in Paths : \E x : edit' = [edit EXCEPT ![c] = [at |-> p, content |-> x]]
  BY <1>1, <1>2, <1>3, <1>4, <1>5, <1>6
<1>8. ASSUME NEW v, edit' = [edit EXCEPT ![c] = v], v # Nothing => v.at \in Paths
      PROVE  /\ edit' = [d \in Clients |-> edit'[d]]
             /\ \A d \in Clients : edit'[d] # Nothing => edit'[d].at \in Paths
  <2>1. edit' = [d \in Clients |-> IF d = c THEN v ELSE edit[d]]
    BY <1>0, <1>8
  <2> QED
    BY <1>0, <1>8, <2>1
<1>9. CASE edit' = edit
  BY <1>0, <1>7, <1>9
<1>10. CASE edit' = [edit EXCEPT ![c] = Nothing]
  BY <1>7, <1>8, <1>10
<1>11. CASE \E p \in Paths : \E x : edit' = [edit EXCEPT ![c] = [at |-> p, content |-> x]]
  <2>1. PICK p, x : p \in Paths /\ edit' = [edit EXCEPT ![c] = [at |-> p, content |-> x]]
    BY <1>11
  <2>2. [at |-> p, content |-> x].at = p
    OBVIOUS
  <2> QED
    BY <1>7, <1>8, <2>1, <2>2
<1> QED
  BY <1>7, <1>9, <1>10, <1>11

(* Whatever the clients write, edit, delete and upload, and however these  *)
(* calls interleave, the composite shows one flat map: every file is with  *)
(* the child that owns its path, a write or an edit changes what is shown  *)
(* at its path alone, and a delete removes what its owner has below it.    *)
THEOREM CompositeStaysFlat ==
  ASSUME BackAssumption
  PROVE  Spec => CompositeIsFlat
<1>1. Init => BackInv
  BY BackInit
<1>2. BackInv /\ [Next]_vars => BackInv'
  <2> SUFFICES ASSUME BackInv, [Next]_vars PROVE BackInv'
    OBVIOUS
  <2>1. CASE Next
    <3>1. /\ TreesStep /\ routes' = routes
          /\ edit' = [c \in Clients |-> edit'[c]]
          /\ \A c \in Clients : edit'[c] # Nothing => edit'[c].at \in Paths
      BY <2>1, BackTrees
    <3>2. TreeOK(tree') /\ KeptBy(tree')
      BY <3>1, TreesKept
    <3>3. RoutesOK(routes')
      BY <3>1, Zenon DEF BackInv
    <3> QED
      BY <3>1, <3>2, <3>3, Zenon DEF BackInv
  <2>2. CASE UNCHANGED vars
    <3>1. routes' = routes /\ tree' = tree /\ edit' = edit
      BY <2>2, Zenon DEF vars
    <3> QED
      BY <3>1, Zenon DEF BackInv
  <2> QED
    BY <2>1, <2>2
<1>3. BackInv /\ [Next]_vars => [Flat]_vars
  <2> SUFFICES ASSUME BackInv, Next PROVE Flat
    OBVIOUS
  <2> QED
    BY BackTrees, TreesKept
<1>4. CompositeIsFlat <=> [][Flat]_vars
  BY PTL DEF CompositeIsFlat, Flat
<1> QED
  BY <1>1, <1>2, <1>3, <1>4, PTL DEF Spec

=============================================================================
