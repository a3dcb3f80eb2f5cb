--------------------- MODULE DistributedNotificationsProofs ---------------------
(* Theorems about DistributedNotifications, for any devices, notes, filters,   *)
(* switches and faults and any number of changes that wait: what is listed     *)
(* differs from what the store has by the changes on their way and by nothing  *)
(* else, and the subscribers know of what is listed.                           *)
EXTENDS DistributedNotifications, SequenceTheorems, FiniteSetTheorems,
        WellFoundedInduction, TLAPS

States == {0} \cup Versions

(* Records of other devices are shared, and of notes that are let through.     *)
Records ==
  {r \in [device : Devices, note : Notes, version : Versions, dist : BOOLEAN] :
     r.device # Local => r.dist /\ r.note \in Displayed}

(* What is put is another device's, and so is what leaves.                     *)
Waiting ==
  {x \in [kind : {"insert", "update", "delete", "offline", "death"},
          key : Devices \X (Notes \cup {AnyNote}), version : States] :
     /\ x.kind \in {"insert", "update"} => x.key \in Remotes \X Notes /\ x.version \in Versions
     /\ x.kind = "offline" => x.key[1] # Local}

TypeOK ==
  /\ store \in [Keys -> States]
  /\ list \in Seq(Records)
  /\ events \in Seq(Waiting)
  /\ tasks \in Seq(Waiting)
  /\ online \subseteq Remotes

----------------------------------------------------------------------------
(* The least of a set of numbers.                                              *)

LEMMA LeastOf ==
  ASSUME NEW S \in SUBSET Nat, S # {}
  PROVE  \E n \in S : \A m \in S : n <= m
<1> DEFINE R == OpToRel(<, Nat)
<1>1. IsWellFoundedOn(R, Nat)
  BY NatLessThanWellFounded
<1>2. \A x, y \in Nat : <<x, y>> \in R <=> x < y
  BY DEF OpToRel
<1> HIDE DEF R
<1>3. PICK x \in S : \A y \in S : ~ (<<y, x>> \in R)
  BY <1>1, WFMin
<1>4. ASSUME NEW m \in S
      PROVE  x <= m
  <2>1. x \in Nat /\ m \in Nat /\ ~ (m < x)
    BY <1>2, <1>3
  <2> QED BY <2>1
<1> QED BY <1>4

(* As many numbers as the last one says.                                       *)
LEMMA SizeOfInterval ==
  ASSUME NEW n \in Nat
  PROVE  IsFiniteSet(1 .. n) /\ Cardinality(1 .. n) = n
<1>1. n \in Int /\ 1 \in Int
  OBVIOUS
<1>2. IsFiniteSet(1 .. n) /\ Cardinality(1 .. n) = IF 1 > n THEN 0 ELSE n - 1 + 1
  BY <1>1, FS_Interval, Zenon
<1> DEFINE size == Cardinality(1 .. n)
<1>3. size = IF 1 > n THEN 0 ELSE n - 1 + 1
  BY <1>2
<1> HIDE DEF size
<1>4. size = n
  BY <1>3
<1> QED BY <1>2, <1>4 DEF size

----------------------------------------------------------------------------
(* What is known of a key: a way from what is listed to what is stored.        *)

(* What a change that waits does to what is known of a key, 0 for nothing.     *)
Changes(key, x, a, b) ==
  IF x.key = key /\ x.kind \in {"insert", "update", "delete"}
  THEN /\ b = IF x.kind = "delete" THEN 0 ELSE x.version
       /\ x.kind = "insert" => a = 0
       /\ x.kind = "update" => a # 0
  ELSE b = a

(* The changes of q lead from a to b.                                          *)
Path(key, q, a, b) ==
  \E s \in [0 .. Len(q) -> States] :
    /\ s[0] = a /\ s[Len(q)] = b
    /\ \A i \in 1 .. Len(q) : Changes(key, q[i], s[i - 1], s[i])

LEMMA PathOfNone ==
  ASSUME NEW key, NEW a \in States
  PROVE  Path(key, <<>>, a, a)
<1> DEFINE s == [i \in 0 .. 0 |-> a]
<1>1. Len(<<>>) = 0 /\ s \in [0 .. 0 -> States] /\ s[0] = a
  OBVIOUS
<1>2. \A i \in 1 .. 0 : Changes(key, <<>>[i], s[i - 1], s[i])
  OBVIOUS
<1> QED BY <1>1, <1>2 DEF Path

LEMMA PathAppend ==
  ASSUME NEW key, NEW q \in Seq(Waiting), NEW x \in Waiting,
         NEW a, NEW b, NEW c \in States,
         Path(key, q, a, b), Changes(key, x, b, c)
  PROVE  Path(key, Append(q, x), a, c)
<1>1. PICK s \in [0 .. Len(q) -> States] :
        /\ s[0] = a /\ s[Len(q)] = b
        /\ \A i \in 1 .. Len(q) : Changes(key, q[i], s[i - 1], s[i])
  BY DEF Path
<1> DEFINE n == Len(q)
           t == [i \in 0 .. n + 1 |-> IF i <= n THEN s[i] ELSE c]
           r == Append(q, x)
<1>2. n \in Nat /\ Len(r) = n + 1 /\ r[n + 1] = x /\ \A i \in 1 .. n : r[i] = q[i]
  BY LenProperties, AppendProperties
<1>3. t \in [0 .. n + 1 -> States] /\ t[0] = a /\ t[n + 1] = c
  BY <1>1, <1>2
<1>4. ASSUME NEW i \in 1 .. n + 1
      PROVE  Changes(key, r[i], t[i - 1], t[i])
  <2>1. CASE i = n + 1
    <3>1. t[i - 1] = b /\ t[i] = c
      BY <1>1, <1>2, <2>1
    <3> QED BY <1>2, <2>1, <3>1
  <2>2. CASE i \in 1 .. n
    <3>1. t[i - 1] = s[i - 1] /\ t[i] = s[i]
      BY <1>2, <2>2
    <3> QED BY <1>1, <1>2, <2>2, <3>1
  <2> QED BY <1>2, <2>1, <2>2
<1> HIDE DEF t, r
<1>5. Path(key, r, a, c)
  BY <1>2, <1>3, <1>4 DEF Path
<1> QED BY <1>5 DEF r

LEMMA PathHead ==
  ASSUME NEW key, NEW q \in Seq(Waiting), q # <<>>, NEW a, NEW b, Path(key, q, a, b)
  PROVE  \E c \in States : Changes(key, Head(q), a, c) /\ Path(key, Tail(q), c, b)
<1>1. PICK s \in [0 .. Len(q) -> States] :
        /\ s[0] = a /\ s[Len(q)] = b
        /\ \A i \in 1 .. Len(q) : Changes(key, q[i], s[i - 1], s[i])
  BY DEF Path
<1> DEFINE n == Len(q) - 1
           r == Tail(q)
           t == [i \in 0 .. n |-> s[i + 1]]
<1>2. n \in Nat /\ Len(q) = n + 1 /\ Len(r) = n /\ Head(q) = q[1]
      /\ \A i \in 1 .. n : r[i] = q[i + 1]
  BY LenProperties, HeadTailProperties, EmptySeq
<1>3. t \in [0 .. n -> States] /\ t[0] = s[1] /\ t[n] = b /\ s[1] \in States
  BY <1>1, <1>2
<1>4. ASSUME NEW i \in 1 .. n
      PROVE  Changes(key, r[i], t[i - 1], t[i])
  <2>1. t[i - 1] = s[(i + 1) - 1] /\ t[i] = s[i + 1] /\ i + 1 \in 1 .. Len(q)
    BY <1>2
  <2> QED BY <1>1, <1>2, <2>1
<1>5. Changes(key, Head(q), a, s[1])
  <2>1. 1 \in 1 .. Len(q) /\ 1 - 1 = 0
    BY <1>2
  <2> QED BY <1>1, <1>2, <2>1
<1> HIDE DEF t, r, n
<1>6. Path(key, r, s[1], b)
  BY <1>2, <1>3, <1>4 DEF Path
<1> QED BY <1>3, <1>5, <1>6 DEF r

LEMMA PathConcat ==
  ASSUME NEW key, NEW q \in Seq(Waiting), NEW r \in Seq(Waiting), NEW a, NEW b, NEW c,
         Path(key, q, a, b), Path(key, r, b, c)
  PROVE  Path(key, q \o r, a, c)
<1>1. PICK s \in [0 .. Len(q) -> States] :
        /\ s[0] = a /\ s[Len(q)] = b
        /\ \A i \in 1 .. Len(q) : Changes(key, q[i], s[i - 1], s[i])
  BY DEF Path
<1>2. PICK u \in [0 .. Len(r) -> States] :
        /\ u[0] = b /\ u[Len(r)] = c
        /\ \A i \in 1 .. Len(r) : Changes(key, r[i], u[i - 1], u[i])
  BY DEF Path
<1> DEFINE n == Len(q)
           k == Len(r)
           t == [i \in 0 .. n + k |-> IF i <= n THEN s[i] ELSE u[i - n]]
           w == q \o r
<1>3. /\ n \in Nat /\ k \in Nat /\ Len(w) = n + k
      /\ \A i \in 1 .. n + k : w[i] = IF i <= n THEN q[i] ELSE r[i - n]
  BY LenProperties, ConcatProperties
<1>4. t \in [0 .. n + k -> States] /\ t[0] = a /\ t[n + k] = c
  <2>1. CASE k = 0
    BY <1>1, <1>2, <1>3, <2>1
  <2>2. CASE k # 0
    BY <1>1, <1>2, <1>3, <2>2
  <2> QED BY <2>1, <2>2
<1>5. ASSUME NEW i \in 1 .. n + k
      PROVE  Changes(key, w[i], t[i - 1], t[i])
  <2>1. CASE i <= n
    <3>1. t[i - 1] = s[i - 1] /\ t[i] = s[i] /\ w[i] = q[i] /\ i \in 1 .. n
      BY <1>3, <2>1
    <3> QED BY <1>1, <3>1
  <2>2. CASE ~(i <= n)
    <3>1. t[i] = u[i - n] /\ w[i] = r[i - n] /\ i - n \in 1 .. k
      BY <1>3, <2>2
    <3>2. t[i - 1] = u[(i - n) - 1]
      <4>1. CASE i - 1 = n
        BY <1>1, <1>2, <1>3, <4>1
      <4>2. CASE i - 1 # n
        BY <1>3, <2>2, <4>2
      <4> QED BY <4>1, <4>2
    <3> QED BY <1>2, <3>1, <3>2
  <2> QED BY <2>1, <2>2
<1> HIDE DEF t, w
<1>6. Path(key, w, a, c)
  BY <1>3, <1>4, <1>5 DEF Path
<1> QED BY <1>6 DEF w

(* Changes that are not about the key.                                         *)
Calm(key, q) ==
  \A i \in 1 .. Len(q) : q[i].key # key \/ q[i].kind \in {"offline", "death"}

LEMMA CalmChanges ==
  ASSUME NEW key, NEW x, x.key # key \/ x.kind \in {"offline", "death"}, NEW a, NEW b
  PROVE  Changes(key, x, a, b) <=> b = a
BY DEF Changes

LEMMA CalmPath ==
  ASSUME NEW key, NEW q \in Seq(Waiting), Calm(key, q), NEW a \in States
  PROVE  /\ Path(key, q, a, a)
         /\ \A b : Path(key, q, a, b) => b = a
<1>1. Len(q) \in Nat
  BY LenProperties
<1>2. \A i \in 1 .. Len(q) : \A b, c : Changes(key, q[i], b, c) <=> c = b
  BY CalmChanges DEF Calm
<1>3. Path(key, q, a, a)
  <2> DEFINE s == [i \in 0 .. Len(q) |-> a]
  <2>1. s \in [0 .. Len(q) -> States] /\ s[0] = a /\ s[Len(q)] = a
    BY <1>1
  <2>2. \A i \in 1 .. Len(q) : s[i] = s[i - 1]
    BY <1>1
  <2> HIDE DEF s
  <2> QED BY <1>2, <2>1, <2>2 DEF Path
<1>4. ASSUME NEW b, Path(key, q, a, b), b # a
      PROVE  FALSE
  <2>1. PICK s \in [0 .. Len(q) -> States] :
          /\ s[0] = a /\ s[Len(q)] = b
          /\ \A i \in 1 .. Len(q) : Changes(key, q[i], s[i - 1], s[i])
    BY <1>4 DEF Path
  <2> DEFINE S == {i \in 0 .. Len(q) : s[i] # a}
  <2>2. S \in SUBSET Nat /\ Len(q) \in S
    BY <1>1, <1>4, <2>1
  <2>3. PICK n \in S : \A m \in S : n <= m
    BY <2>2, LeastOf
  <2>4. n \in 1 .. Len(q) /\ n - 1 \in 0 .. Len(q) /\ n - 1 \notin S
    BY <1>1, <2>1, <2>3
  <2>5. s[n] = s[n - 1] /\ s[n - 1] = a
    BY <1>2, <2>1, <2>4
  <2> QED BY <2>3, <2>5
<1> QED BY <1>3, <1>4

(* Deletions, of a key and others.                                             *)
LEMMA DeletedPath ==
  ASSUME NEW key, NEW q \in Seq(Waiting), NEW a \in States,
         \A i \in 1 .. Len(q) : q[i].kind = "delete",
         \E i \in 1 .. Len(q) : q[i].key = key
  PROVE  Path(key, q, a, 0)
<1>1. Len(q) \in Nat
  BY LenProperties
<1> DEFINE Before(i) == \E j \in 1 .. i : q[j].key = key
           s == [i \in 0 .. Len(q) |-> IF Before(i) THEN 0 ELSE a]
<1>2. 0 \in States
  BY DEF States
<1>3. ~Before(0) /\ Before(Len(q))
  BY <1>1
<1>4. \A i \in 1 .. Len(q) : Before(i) <=> Before(i - 1) \/ q[i].key = key
  BY <1>1
<1> HIDE DEF Before
<1>5. s \in [0 .. Len(q) -> States] /\ s[0] = a /\ s[Len(q)] = 0
  BY <1>1, <1>2, <1>3
<1>6. ASSUME NEW i \in 1 .. Len(q)
      PROVE  Changes(key, q[i], s[i - 1], s[i])
  <2>1. /\ s[i - 1] = IF Before(i - 1) THEN 0 ELSE a
        /\ s[i] = IF Before(i) THEN 0 ELSE a
    BY <1>1
  <2>2. CASE q[i].key = key
    <3>1. s[i] = 0 /\ q[i].kind = "delete"
      BY <1>4, <2>1, <2>2
    <3> QED BY <2>2, <3>1 DEF Changes
  <2>3. CASE q[i].key # key
    <3>1. s[i] = s[i - 1]
      BY <1>4, <2>1, <2>3
    <3> QED BY <2>3, <3>1, CalmChanges
  <2> QED BY <2>2, <2>3
<1> HIDE DEF s
<1> QED BY <1>5, <1>6 DEF Path

----------------------------------------------------------------------------
(* The list. What matters of it is which records a key has, and whether it has *)
(* one at most.                                                                *)

Of(L, key) == {i \in 1 .. Len(L) : KeyOf(L[i]) = key}
RecordsOf(L, key) == {L[i] : i \in Of(L, key)}
Single(L, key) == \A i, j \in Of(L, key) : i = j

LEMMA InOrderIs ==
  ASSUME NEW K \in SUBSET Nat, IsFiniteSet(K)
  PROVE  /\ Cardinality(K) \in Nat
         /\ InOrder(K) \in [1 .. Cardinality(K) -> K]
         /\ \A i, j \in 1 .. Cardinality(K) : InOrder(K)[i] = InOrder(K)[j] => i = j
         /\ \A x \in K : \E i \in 1 .. Cardinality(K) : InOrder(K)[i] = x
<1> DEFINE n == Cardinality(K)
           UpTo(x) == {y \in K : y <= x}
           rank == [x \in K |-> Cardinality(UpTo(x))]
           Ordered(f) == \A i, j \in DOMAIN f : i < j => f[i] < f[j]
<1>1. n \in Nat
  BY FS_CardinalityType
<1>2. \A x \in K : IsFiniteSet(UpTo(x)) /\ Cardinality(UpTo(x)) \in 1 .. n
  <2> TAKE x \in K
  <2>1. UpTo(x) \in SUBSET K
    OBVIOUS
  <2>2. IsFiniteSet(UpTo(x)) /\ Cardinality(UpTo(x)) <= n
    BY <2>1, FS_Subset
  <2>3. Cardinality(UpTo(x)) \in Nat
    BY <2>2, FS_CardinalityType
  <2>4. x \in UpTo(x)
    OBVIOUS
  <2>5. Cardinality(UpTo(x)) # 0
    BY <2>2, <2>4, FS_EmptySet
  <2> HIDE DEF UpTo, n
  <2> QED BY <1>1, <2>2, <2>3, <2>5
<1>3. \A x, y \in K : x < y => Cardinality(UpTo(x)) < Cardinality(UpTo(y))
  <2> SUFFICES ASSUME NEW x \in K, NEW y \in K, x < y
               PROVE  Cardinality(UpTo(x)) < Cardinality(UpTo(y))
    OBVIOUS
  <2>0. x \in Nat /\ y \in Nat /\ y \notin UpTo(x) /\ y \in UpTo(y)
    OBVIOUS
  <2>1. UpTo(x) \in SUBSET UpTo(y) /\ y \in UpTo(y) /\ y \notin UpTo(x)
    <3>1. ASSUME NEW z \in UpTo(x)
          PROVE  z \in UpTo(y)
      <4>1. z \in Nat /\ z \in K /\ z <= x
        OBVIOUS
      <4> HIDE DEF n
      <4>2. z <= y
        BY <2>0, <4>1
      <4> QED BY <4>1, <4>2
    <3> HIDE DEF UpTo
    <3> QED BY <2>0, <3>1
  <2>2. /\ Cardinality(UpTo(x)) <= Cardinality(UpTo(y))
        /\ Cardinality(UpTo(x)) # Cardinality(UpTo(y))
    BY <1>2, <2>1, FS_Subset
  <2>3. Cardinality(UpTo(x)) \in Nat /\ Cardinality(UpTo(y)) \in Nat
    BY <1>1, <1>2
  <2> HIDE DEF UpTo
  <2> QED BY <2>2, <2>3
<1>4. rank \in [K -> 1 .. n]
  BY <1>2
<1>5. \A x, y \in K : x < y <=> rank[x] < rank[y]
  <2>1. \A x, y \in K : x < y => rank[x] < rank[y]
    BY <1>3
  <2>2. \A x \in K : x \in Nat /\ rank[x] \in Nat
    BY <1>1, <1>4
  <2> HIDE DEF rank
  <2> QED BY <2>1, <2>2
<1> HIDE DEF UpTo, rank
<1>6. rank \in Injection(K, 1 .. n)
  <2>1. \A x, y \in K : rank[x] = rank[y] => x = y
    BY <1>1, <1>4, <1>5
  <2> QED BY <1>4, <2>1 DEF Injection, IsInjective
<1>7. IsFiniteSet(1 .. n) /\ Cardinality(1 .. n) = n
  BY <1>1, SizeOfInterval, Zenon
<1>8. rank \in Surjection(K, 1 .. n)
  BY <1>6, <1>7, FS_Injection
<1>9. \A i \in 1 .. n : \E x \in K : rank[x] = i
  BY <1>8 DEF Surjection
<1> DEFINE f == [i \in 1 .. n |-> CHOOSE x \in K : rank[x] = i]
<1>10. \A i \in 1 .. n : f[i] \in K /\ rank[f[i]] = i
  BY <1>9
<1>11. f \in [1 .. n -> K] /\ Ordered(f)
  <2>1. f \in [1 .. n -> K]
    BY <1>10
  <2> HIDE DEF f
  <2>2. \A i, j \in 1 .. n : i < j => f[i] < f[j]
    BY <1>5, <1>10
  <2> QED BY <2>1, <2>2
<1>12. InOrder(K) \in [1 .. n -> K] /\ Ordered(InOrder(K))
  <2>1. InOrder(K) = CHOOSE place \in [1 .. n -> K] : Ordered(place)
    BY DEF InOrder
  <2> HIDE DEF f, Ordered, n
  <2> QED BY <1>11, <2>1
<1> HIDE DEF f
<1>13. \A i, j \in 1 .. n : InOrder(K)[i] = InOrder(K)[j] => i = j
  <2> HIDE DEF n
  <2>1. \A i, j \in 1 .. n : i < j => InOrder(K)[i] < InOrder(K)[j]
    BY <1>12
  <2>2. \A i \in 1 .. n : i \in Nat /\ InOrder(K)[i] \in Nat
    <3>1. \A x \in K : x \in Nat
      OBVIOUS
    <3>2. \A i \in 1 .. n : InOrder(K)[i] \in K
      BY <1>12
    <3>3. \A i \in 1 .. n : i \in Nat
      BY <1>1
    <3>4. \A i \in 1 .. n : InOrder(K)[i] \in Nat
      BY Zenon, <3>1, <3>2
    <3> QED BY Zenon, <3>3, <3>4
  <2> QED BY <2>1, <2>2
<1>14. InOrder(K) \in Injection(1 .. n, K)
  BY <1>12, <1>13 DEF Injection, IsInjective
<1>15. InOrder(K) \in Surjection(1 .. n, K)
  BY <1>7, <1>14, FS_Injection
<1>16. \A x \in K : \E i \in 1 .. n : InOrder(K)[i] = x
  BY <1>15 DEF Surjection
<1> QED BY <1>1, <1>12, <1>13, <1>16

(* M is L without the records at I.                                            *)
Thinned(L, M, I) ==
  /\ M \in Seq(Records)
  /\ \E f \in [1 .. Len(M) -> (1 .. Len(L)) \ I] :
       /\ \A i, j \in 1 .. Len(M) : f[i] = f[j] => i = j
       /\ \A x \in (1 .. Len(L)) \ I : \E i \in 1 .. Len(M) : f[i] = x
       /\ \A i \in 1 .. Len(M) : M[i] = L[f[i]]

LEMMA ErasedIsThinned ==
  ASSUME NEW L \in Seq(Records), NEW I
  PROVE  LET kept == InOrder(DOMAIN L \ I)
         IN  Thinned(L, [i \in DOMAIN kept |-> L[kept[i]]], I)
<1> DEFINE K == DOMAIN L \ I
           kept == InOrder(K)
           n == Cardinality(K)
           M == [i \in 1 .. n |-> L[kept[i]]]
<1>1. Len(L) \in Nat /\ DOMAIN L = 1 .. Len(L) /\ L \in [1 .. Len(L) -> Records]
  BY LenProperties
<1>2. K \in SUBSET Nat /\ K \in SUBSET (1 .. Len(L))
  BY <1>1
<1>3. IsFiniteSet(K)
  <2>1. IsFiniteSet(1 .. Len(L))
    BY <1>1, SizeOfInterval, Zenon
  <2> QED BY <1>2, <2>1, FS_Subset
<1>4. /\ n \in Nat /\ kept \in [1 .. n -> K]
      /\ \A i, j \in 1 .. n : kept[i] = kept[j] => i = j
      /\ \A x \in K : \E i \in 1 .. n : kept[i] = x
  BY <1>2, <1>3, InOrderIs
<1>8. K = (1 .. Len(L)) \ I
  BY <1>1
<1> HIDE DEF n, kept, K
<1>5. M \in [1 .. n -> Records]
  <2>1. \A i \in 1 .. n : kept[i] \in 1 .. Len(L)
    BY <1>2, <1>4
  <2> QED BY <1>1, <2>1
<1>7. \A i \in 1 .. n : M[i] = L[kept[i]]
  OBVIOUS
<1>9. DOMAIN kept = 1 .. n
  BY <1>4
<1>10. M = [i \in DOMAIN kept |-> L[kept[i]]]
  BY <1>9
<1> HIDE DEF M
<1>6. M \in Seq(Records) /\ Len(M) = n
  BY <1>4, <1>5
<1>11. Thinned(L, M, I)
  <2>1. kept \in [1 .. Len(M) -> (1 .. Len(L)) \ I]
    BY <1>4, <1>6, <1>8
  <2>2. /\ \A i, j \in 1 .. Len(M) : kept[i] = kept[j] => i = j
        /\ \A x \in (1 .. Len(L)) \ I : \E i \in 1 .. Len(M) : kept[i] = x
        /\ \A i \in 1 .. Len(M) : M[i] = L[kept[i]]
    BY <1>4, <1>6, <1>7, <1>8
  <2> QED BY <1>6, <2>1, <2>2 DEF Thinned
<1> QED BY <1>10, <1>11 DEF kept, K

LEMMA RemovedIsThinned ==
  ASSUME NEW L \in Seq(Records), NEW i \in 1 .. Len(L)
  PROVE  Thinned(L, RemoveAt(L, i), {i})
<1> DEFINE n == Len(L)
           a == SubSeq(L, 1, i - 1)
           b == SubSeq(L, i + 1, n)
           M == a \o b
           f == [j \in 1 .. n - 1 |-> IF j < i THEN j ELSE j + 1]
<1>1. n \in Nat /\ L \in [1 .. n -> Records] /\ i \in 1 .. n
  BY LenProperties
<1>2. /\ a \in Seq(Records) /\ Len(a) = i - 1
      /\ \A j \in 1 .. i - 1 : a[j] = L[j]
  <2>1. \A j \in 1 .. i - 1 : L[j] \in Records
    BY <1>1
  <2>2. /\ a \in Seq(Records)
        /\ Len(a) = IF 1 <= i - 1 THEN (i - 1) - 1 + 1 ELSE 0
        /\ \A j \in 1 .. (i - 1) - 1 + 1 : a[j] = L[1 + j - 1]
    BY <1>1, <2>1, SubSeqProperties
  <2> HIDE DEF a
  <2>3. i \in Nat /\ i >= 1 /\ (i - 1) - 1 + 1 = i - 1
    BY <1>1
  <2>4. Len(a) = i - 1
    BY <2>2, <2>3
  <2>5. \A j \in 1 .. i - 1 : 1 + j - 1 = j
    BY <2>3
  <2> QED BY <2>2, <2>3, <2>4, <2>5
<1>3. /\ b \in Seq(Records) /\ Len(b) = n - i
      /\ \A j \in 1 .. n - i : b[j] = L[i + j]
  <2>1. \A j \in i + 1 .. n : L[j] \in Records
    BY <1>1
  <2>2. /\ b \in Seq(Records)
        /\ Len(b) = IF i + 1 <= n THEN n - (i + 1) + 1 ELSE 0
        /\ \A j \in 1 .. n - (i + 1) + 1 : b[j] = L[i + 1 + j - 1]
    BY <1>1, <2>1, SubSeqProperties
  <2> HIDE DEF b
  <2>3. Len(b) = n - i
    <3>1. n \in Nat /\ i \in Nat /\ i <= n
      BY <1>1
    <3> HIDE DEF n
    <3> QED BY <2>2, <3>1
  <2>4. \A j \in 1 .. n - i : i + 1 + j - 1 = i + j /\ j \in 1 .. n - (i + 1) + 1
    BY <1>1
  <2> QED BY <2>2, <2>3, <2>4
<1> HIDE DEF a, b
<1>4. /\ M \in Seq(Records) /\ Len(M) = n - 1
      /\ \A j \in 1 .. n - 1 : M[j] = IF j <= i - 1 THEN a[j] ELSE b[j - (i - 1)]
  <2>1. /\ M \in Seq(Records) /\ Len(M) = Len(a) + Len(b)
        /\ \A j \in 1 .. Len(a) + Len(b) : M[j] = IF j <= Len(a) THEN a[j] ELSE b[j - Len(a)]
    BY <1>2, <1>3, ConcatProperties
  <2>2. Len(a) + Len(b) = n - 1
    BY <1>1, <1>2, <1>3
  <2> HIDE DEF M
  <2> QED BY <1>2, <2>1, <2>2
<1> HIDE DEF M
<1>5. f \in [1 .. n - 1 -> (1 .. n) \ {i}]
  BY <1>1
<1>6. \A j, k \in 1 .. n - 1 : f[j] = f[k] => j = k
  BY <1>1
<1>7. ASSUME NEW x \in (1 .. n) \ {i}
      PROVE  \E j \in 1 .. n - 1 : f[j] = x
  <2>1. CASE x < i
    <3>1. x \in 1 .. n - 1 /\ f[x] = x
      BY <1>1, <2>1
    <3> QED BY <3>1
  <2>2. CASE ~(x < i)
    <3>1. x - 1 \in 1 .. n - 1 /\ f[x - 1] = x
      BY <1>1, <2>2
    <3> QED BY <3>1
  <2> QED BY <2>1, <2>2
<1>8. ASSUME NEW j \in 1 .. n - 1
      PROVE  M[j] = L[f[j]]
  <2>1. CASE j < i
    <3>1. j <= i - 1 /\ j \in 1 .. i - 1 /\ f[j] = j
      BY <1>1, <2>1
    <3> QED BY <1>2, <1>4, <3>1
  <2>2. CASE ~(j < i)
    <3>1. ~(j <= i - 1) /\ j - (i - 1) \in 1 .. n - i /\ f[j] = j + 1 /\ i + (j - (i - 1)) = j + 1
      BY <1>1, <2>2
    <3> QED BY <1>3, <1>4, <3>1
  <2> QED BY <2>1, <2>2
<1> HIDE DEF f
<1>9. Thinned(L, M, {i})
  <2>1. M \in Seq(Records) /\ Len(M) = n - 1
    BY <1>4
  <2>2. f \in [1 .. Len(M) -> (1 .. Len(L)) \ {i}]
    BY <1>5, <2>1
  <2>3. /\ \A j, k \in 1 .. Len(M) : f[j] = f[k] => j = k
        /\ \A x \in (1 .. Len(L)) \ {i} : \E j \in 1 .. Len(M) : f[j] = x
        /\ \A j \in 1 .. Len(M) : M[j] = L[f[j]]
    BY <1>6, <1>7, <1>8, <2>1
  <2> QED BY <2>1, <2>2, <2>3, Zenon DEF Thinned
<1> QED BY <1>9 DEF RemoveAt, M, a, b

(* A key keeps its records, and stays with one at most.                        *)
Kept(L, M, key) ==
  RecordsOf(M, key) = RecordsOf(L, key) /\ (Single(L, key) => Single(M, key))

LEMMA ThinnedKeeps ==
  ASSUME NEW L, NEW M, NEW I, Thinned(L, M, I), NEW key, Of(L, key) \cap I = {}
  PROVE  Kept(L, M, key)
<1>1. PICK f \in [1 .. Len(M) -> (1 .. Len(L)) \ I] :
        /\ \A i, j \in 1 .. Len(M) : f[i] = f[j] => i = j
        /\ \A x \in (1 .. Len(L)) \ I : \E i \in 1 .. Len(M) : f[i] = x
        /\ \A i \in 1 .. Len(M) : M[i] = L[f[i]]
  BY DEF Thinned
<1>2. \A i \in Of(M, key) : i \in 1 .. Len(M) /\ f[i] \in Of(L, key) /\ M[i] = L[f[i]]
  BY <1>1 DEF Of
<1>3. \A x \in Of(L, key) : \E i \in Of(M, key) : f[i] = x
  BY <1>1 DEF Of
<1>4. RecordsOf(M, key) = RecordsOf(L, key)
  BY <1>2, <1>3 DEF RecordsOf
<1>5. Single(L, key) => Single(M, key)
  BY <1>1, <1>2 DEF Single
<1> QED BY <1>4, <1>5 DEF Kept

LEMMA ThinnedLoses ==
  ASSUME NEW L, NEW M, NEW I, Thinned(L, M, I), NEW key, Single(L, key), NEW x \in I,
         x \in Of(L, key)
  PROVE  RecordsOf(M, key) = {} /\ Single(M, key)
<1>1. PICK f \in [1 .. Len(M) -> (1 .. Len(L)) \ I] :
        \A i \in 1 .. Len(M) : M[i] = L[f[i]]
  BY DEF Thinned
<1>2. \A i \in Of(M, key) : f[i] \in Of(L, key) /\ f[i] \notin I
  BY <1>1 DEF Of
<1>3. Of(M, key) = {}
  BY <1>2 DEF Single
<1> QED BY <1>3 DEF RecordsOf, Single

LEMMA AppendedRecords ==
  ASSUME NEW L \in Seq(Records), NEW r \in Records
  PROVE  /\ Append(L, r) \in Seq(Records)
         /\ Of(L, KeyOf(r)) = {} =>
              RecordsOf(Append(L, r), KeyOf(r)) = {r} /\ Single(Append(L, r), KeyOf(r))
         /\ \A key : key # KeyOf(r) => Kept(L, Append(L, r), key)
<1> DEFINE M == Append(L, r)
           n == Len(L)
<1>1. /\ n \in Nat /\ M \in Seq(Records) /\ Len(M) = n + 1 /\ M[n + 1] = r
      /\ \A i \in 1 .. n : M[i] = L[i]
  BY LenProperties, AppendProperties
<1> HIDE DEF M
<1>2. \A key : Of(M, key) = IF key = KeyOf(r) THEN Of(L, key) \cup {n + 1} ELSE Of(L, key)
  <2> TAKE key
  <2>1. \A i \in 1 .. n + 1 : i \in 1 .. n \/ i = n + 1
    BY <1>1
  <2>2. 1 .. n \subseteq 1 .. n + 1 /\ n + 1 \in 1 .. n + 1
    BY <1>1
  <2> QED BY <1>1, <2>1, <2>2 DEF Of
<1>3. \A key : \A i \in Of(L, key) : M[i] = L[i]
  BY <1>1 DEF Of
<1>4. ASSUME Of(L, KeyOf(r)) = {}
      PROVE  RecordsOf(M, KeyOf(r)) = {r} /\ Single(M, KeyOf(r))
  <2>1. Of(M, KeyOf(r)) = {n + 1}
    BY <1>2, <1>4
  <2> QED BY <1>1, <2>1 DEF RecordsOf, Single
<1>5. \A key : key # KeyOf(r) => Kept(L, M, key)
  BY <1>2, <1>3 DEF Kept, RecordsOf, Single
<1> QED BY <1>1, <1>4, <1>5 DEF M

LEMMA ReplacedRecords ==
  ASSUME NEW L \in Seq(Records), NEW r \in Records, NEW x \in Of(L, KeyOf(r))
  PROVE  /\ [L EXCEPT ![x] = r] \in Seq(Records)
         /\ Single(L, KeyOf(r)) =>
              /\ RecordsOf([L EXCEPT ![x] = r], KeyOf(r)) = {r}
              /\ Single([L EXCEPT ![x] = r], KeyOf(r))
         /\ \A key : key # KeyOf(r) => Kept(L, [L EXCEPT ![x] = r], key)
<1> DEFINE M == [L EXCEPT ![x] = r]
           n == Len(L)
<1>1. n \in Nat /\ x \in 1 .. n /\ KeyOf(L[x]) = KeyOf(r)
  BY LenProperties DEF Of
<1>2. /\ M \in Seq(Records) /\ Len(M) = n
      /\ \A i \in 1 .. n : M[i] = IF i = x THEN r ELSE L[i]
  BY <1>1, ExceptSeq
<1> HIDE DEF M
<1>3. \A key : Of(M, key) = Of(L, key)
  BY <1>1, <1>2 DEF Of
<1>4. ASSUME Single(L, KeyOf(r))
      PROVE  RecordsOf(M, KeyOf(r)) = {r} /\ Single(M, KeyOf(r))
  <2>1. Of(M, KeyOf(r)) = {x}
    BY <1>3, <1>4 DEF Single
  <2> QED BY <1>1, <1>2, <2>1 DEF RecordsOf, Single
<1>5. ASSUME NEW key, key # KeyOf(r)
      PROVE  Kept(L, M, key)
  <2>1. \A i \in Of(L, key) : M[i] = L[i]
    BY <1>1, <1>2, <1>5 DEF Of
  <2> QED BY <1>3, <2>1 DEF Kept, RecordsOf, Single
<1> QED BY <1>2, <1>4, <1>5 DEF M

LEMMA ListedIs ==
  ASSUME list \in Seq(Records), NEW key
  PROVE  /\ Listed(key) = Of(list, key)
         /\ Listed(key) # {} => FirstOf(key) \in Of(list, key)
<1>1. DOMAIN list = 1 .. Len(list) /\ Len(list) \in Nat
  BY LenProperties
<1>2. Listed(key) = Of(list, key)
  BY <1>1 DEF Listed, Of
<1>3. Listed(key) \in SUBSET Nat
  BY <1>1 DEF Listed
<1>4. ASSUME Listed(key) # {}
      PROVE  FirstOf(key) \in Listed(key)
  <2> DEFINE S == Listed(key)
  <2>1. \E i \in S : \A j \in S : i <= j
    BY <1>3, <1>4, LeastOf
  <2>2. FirstOf(key) = CHOOSE i \in S : \A j \in S : i <= j
    BY DEF FirstOf
  <2> HIDE DEF S
  <2>3. FirstOf(key) \in S
    BY <2>1, <2>2
  <2> QED BY <2>3 DEF S
<1> QED BY <1>2, <1>4

----------------------------------------------------------------------------
(* The invariant.                                                              *)

Held(L, key, v) ==
  IF RecordsOf(L, key) = {} THEN v = 0 ELSE \E r \in RecordsOf(L, key) : r.version = v

(* What waits leads from what is listed of a key to what is stored of it.      *)
OnTheWay(key) ==
  \E k, m \in States :
    Held(list, key, k) /\ Path(key, tasks, k, m) /\ Path(key, events, m, store[key])

Leaves(device) ==
  \E i \in 1 .. Len(events) : events[i].kind = "offline" /\ events[i].key[1] = device

(* A leave that waits is the last that is heard of the device.                 *)
LeavesLast(device) ==
  \A i \in 1 .. Len(events) :
    events[i].kind = "offline" /\ events[i].key[1] = device =>
      /\ device \notin online
      /\ \A j \in 1 .. Len(events) : j > i => events[j].key[1] # device

Own(L, key, v) == v # 0 => \E r \in RecordsOf(L, key) : r.version = v /\ r.dist

InStep(key) ==
  /\ Single(list, key)
  /\ key \in told <=> RecordsOf(list, key) # {}
  /\ key[1] = Local => Own(list, key, store[key])
  /\ key[1] # Local =>
       /\ Shown(key) => OnTheWay(key)
       /\ LeavesLast(key[1])
       /\ key[1] \notin online => Leaves(key[1]) \/ store[key] = 0

AllInStep == \A key \in Keys \ excused : InStep(key)

LEMMA KeyIs ==
  ASSUME NEW key \in Keys
  PROVE  key = <<key[1], key[2]>> /\ key[1] \in Devices /\ key[2] \in Notes
BY DEF Keys

LEMMA VersionsAre ==
  \A v \in Versions : v # 0 /\ v \in States
BY DEF Versions, States

LEMMA ZeroIsState == 0 \in States
BY DEF States

LEMMA HeldOfNone ==
  ASSUME NEW key, RecordsOf(list, key) = {}, NEW v
  PROVE  Held(list, key, v) <=> v = 0
BY DEF Held

LEMMA RecordsAre ==
  ASSUME TypeOK, NEW key
  PROVE  /\ RecordsOf(list, key) \subseteq Records
         /\ \A r \in RecordsOf(list, key) : KeyOf(r) = key /\ r.version \in Versions
         /\ RecordsOf(list, key) = {} <=> Of(list, key) = {}
<1>1. Len(list) \in Nat /\ list \in [1 .. Len(list) -> Records]
  BY LenProperties DEF TypeOK
<1>2. \A i \in Of(list, key) : list[i] \in Records /\ KeyOf(list[i]) = key
  BY <1>1 DEF Of
<1>3. \A r \in Records : r.version \in Versions
  BY DEF Records
<1> QED BY <1>2, <1>3 DEF RecordsOf

(* What the two safety properties say is part of it.                           *)
LEMMA InStepIsTold ==
  ASSUME TypeOK, AllInStep
  PROVE  ToldIsListed
<1> SUFFICES ASSUME NEW key \in Keys \ excused
             PROVE  key \in told <=> Listed(key) # {}
  BY DEF ToldIsListed
<1>1. Listed(key) = Of(list, key)
  BY ListedIs DEF TypeOK
<1> QED BY <1>1, RecordsAre DEF AllInStep, InStep

LEMMA InStepIsListed ==
  ASSUME TypeOK, AllInStep
  PROVE  StoreIsListed
<1> SUFFICES ASSUME Quiet
             PROVE  StoreIsListed
  BY DEF StoreIsListed
<1>1. events = <<>> /\ tasks = <<>> /\ <<>> \in Seq(Waiting) /\ Len(<<>>) = 0
  BY EmptySeq DEF Quiet, TypeOK
<1>2. \A key : Listed(key) = Of(list, key)
  BY ListedIs DEF TypeOK
<1>3. ASSUME NEW key \in Keys \ excused, key[1] # Local, Shown(key)
      PROVE  /\ key[1] \notin online => Listed(key) = {}
             /\ Listed(key) = {} <=> store[key] = 0
             /\ \A i, j \in Listed(key) : i = j /\ list[i].version = store[key]
  <2>1. PICK k \in States, m \in States :
          Held(list, key, k) /\ Path(key, tasks, k, m) /\ Path(key, events, m, store[key])
    BY <1>3 DEF AllInStep, InStep, OnTheWay
  <2>2. Calm(key, <<>>)
    BY <1>1 DEF Calm
  <2>3. m = k /\ store[key] = m
    BY <1>1, <2>1, <2>2, CalmPath
  <2>4. Held(list, key, store[key]) /\ Single(list, key)
    BY <1>3, <2>1, <2>3 DEF AllInStep, InStep
  <2>5. Of(list, key) = {} <=> store[key] = 0
    BY <2>4, RecordsAre, VersionsAre DEF Held
  <2>6. \A i, j \in Of(list, key) : i = j /\ list[i].version = store[key]
    <3> SUFFICES ASSUME NEW i \in Of(list, key)
                 PROVE  list[i].version = store[key]
      BY <2>4 DEF Single
    <3>1. RecordsOf(list, key) = {list[i]}
      BY <2>4 DEF RecordsOf, Single
    <3> QED BY <2>4, <3>1 DEF Held
  <2>7. key[1] \notin online => store[key] = 0
    BY <1>1, <1>3 DEF AllInStep, InStep, Leaves
  <2> QED BY <1>2, <2>5, <2>6, <2>7
<1>4. ASSUME NEW key \in KeysOf(Local) \ excused, store[key] # 0
      PROVE  \E i \in Listed(key) : list[i].version = store[key] /\ list[i].dist
  <2>1. key \in Keys \ excused /\ key[1] = Local
    BY <1>4 DEF KeysOf, Keys, Devices
  <2>2. PICK r \in RecordsOf(list, key) : r.version = store[key] /\ r.dist
    BY <1>4, <2>1 DEF AllInStep, InStep, Own
  <2> QED BY <1>2, <2>2 DEF RecordsOf
<1> QED BY <1>3, <1>4 DEF StoreIsListed

(* A key nothing is done to.                                                   *)
LEMMA UntouchedStays ==
  ASSUME NEW key, InStep(key), Kept(list, list', key), key \in told' <=> key \in told,
         store'[key] = store[key],
         UNCHANGED <<events, tasks, online>>
  PROVE  InStep(key)'
<1>1. Single(list', key) /\ RecordsOf(list', key) = RecordsOf(list, key)
  BY DEF InStep, Kept
<1>2. \A v : Held(list', key, v) <=> Held(list, key, v)
  BY <1>1 DEF Held
<1>3. \A v : Own(list', key, v) <=> Own(list, key, v)
  BY <1>1 DEF Own
<1>4. OnTheWay(key) => OnTheWay(key)'
  BY <1>2 DEF OnTheWay
<1>5. /\ LeavesLast(key[1])' <=> LeavesLast(key[1])
      /\ Leaves(key[1])' <=> Leaves(key[1])
  BY DEF LeavesLast, Leaves
<1> QED BY <1>1, <1>3, <1>4, <1>5 DEF InStep, Shown

----------------------------------------------------------------------------
(* Applications and the user.                                                  *)

LEMMA AssignIs ==
  ASSUME TypeOK, NEW record \in Records, Assign(record)
  PROVE  /\ list' \in Seq(Records)
         /\ Single(list, KeyOf(record)) =>
              RecordsOf(list', KeyOf(record)) = {record} /\ Single(list', KeyOf(record))
         /\ \A key : key # KeyOf(record) => Kept(list, list', key)
<1> DEFINE k == KeyOf(record)
<1>1. list \in Seq(Records)
  BY DEF TypeOK
<1>2. Listed(k) = Of(list, k) /\ (Listed(k) # {} => FirstOf(k) \in Of(list, k))
  BY <1>1, ListedIs
<1>3. list' = IF Listed(k) = {} THEN Append(list, record)
              ELSE [list EXCEPT ![FirstOf(k)] = record]
  BY DEF Assign
<1>4. CASE Listed(k) = {}
  <2>1. list' = Append(list, record) /\ Of(list, k) = {}
    BY <1>2, <1>3, <1>4
  <2> QED BY <1>1, <2>1, AppendedRecords
<1>5. CASE Listed(k) # {}
  <2>1. list' = [list EXCEPT ![FirstOf(k)] = record] /\ FirstOf(k) \in Of(list, k)
    BY <1>2, <1>3, <1>5
  <2> QED BY <1>1, <2>1, ReplacedRecords
<1> QED BY <1>4, <1>5

LEMMA PublishInStep ==
  ASSUME TypeOK, AllInStep, NEW note \in Notes, NEW version \in Versions, NEW dist \in Options,
         PublishPreparedNotification(note, version, dist)
  PROVE  TypeOK' /\ AllInStep'
<1> DEFINE record == [device |-> Local, note |-> note, version |-> version, dist |-> dist]
           k == <<Local, note>>
<1>1. record \in Records /\ KeyOf(record) = k /\ k \in Keys /\ k[1] = Local
      /\ record.version = version /\ record.dist = dist
  BY SharingAssumption DEF Records, KeyOf, Keys, Devices
<1>2. /\ Assign(record) /\ told' = told \cup {k}
      /\ DoDistributedPublish(note, version, dist)
      /\ UNCHANGED <<events, tasks, online>>
  BY DEF PublishPreparedNotification
<1>3. /\ list' \in Seq(Records)
      /\ Single(list, k) => RecordsOf(list', k) = {record} /\ Single(list', k)
      /\ \A key : key # k => Kept(list, list', key)
  BY <1>1, <1>2, AssignIs
<1>4. /\ excused \subseteq excused'
      /\ store' \in [Keys -> States]
      /\ \A key \in Keys : key # k => store'[key] = store[key]
      /\ k \notin excused' => store'[k] = 0 \/ (store'[k] = version /\ dist)
  <2>1. store \in [Keys -> States] /\ version \in States
    BY VersionsAre DEF TypeOK
  <2>2. CASE MayShare(note, dist)
    <3>1. PICK put \in Outcomes("put") :
            /\ store' = IF put THEN [store EXCEPT ![k] = version] ELSE store
            /\ excused' = IF put THEN excused ELSE excused \cup {k}
      BY <1>2, <2>2 DEF DoDistributedPublish
    <3>2. dist
      BY <2>2 DEF MayShare
    <3> QED BY <1>1, <2>1, <3>1, <3>2
  <2>3. CASE ~MayShare(note, dist)
    <3>1. /\ store' = store
          /\ excused' = IF store[k] = 0 THEN excused ELSE excused \cup {k}
      BY <1>2, <2>3 DEF DoDistributedPublish
    <3> QED BY <2>1, <3>1
  <2> QED BY <2>2, <2>3
<1>5. TypeOK'
  BY <1>2, <1>3, <1>4 DEF TypeOK
<1>6. ASSUME NEW key \in Keys \ excused'
      PROVE  InStep(key)'
  <2>1. key \in Keys \ excused /\ InStep(key)
    BY <1>4, <1>6 DEF AllInStep
  <2>2. CASE key # k
    <3>1. Kept(list, list', key) /\ store'[key] = store[key] /\ (key \in told' <=> key \in told)
      BY <1>2, <1>3, <1>4, <2>1, <2>2
    <3> QED BY <1>2, <2>1, <3>1, UntouchedStays
  <2>3. CASE key = k
    <3>1. Single(list', k) /\ RecordsOf(list', k) = {record} /\ k \in told'
      BY <1>2, <1>3, <2>1, <2>3 DEF InStep
    <3>2. Own(list', k, store'[k])
      BY <1>1, <1>4, <1>6, <2>3, <3>1 DEF Own
    <3>3. k[1] = Local
      BY <1>1
    <3> HIDE DEF k
    <3> QED BY <2>3, <3>1, <3>2, <3>3 DEF InStep
  <2> QED BY <2>2, <2>3
<1> QED BY <1>5, <1>6 DEF AllInStep

(* A device of which nothing is awaited.                                       *)
LEMMA NothingAwaited ==
  ASSUME TypeOK, NEW key, key[1] # Local, ~Awaited(key)
  PROVE  Calm(key, events) /\ Calm(key, tasks)
<1> DEFINE q == events \o tasks
<1>1. /\ Len(events) \in Nat /\ Len(tasks) \in Nat
      /\ q \in Seq(Waiting) /\ Len(q) = Len(events) + Len(tasks)
      /\ \A i \in 1 .. Len(events) + Len(tasks) :
           q[i] = IF i <= Len(events) THEN events[i] ELSE tasks[i - Len(events)]
  BY LenProperties, ConcatProperties DEF TypeOK
<1>2. DOMAIN q = 1 .. Len(events) + Len(tasks)
  BY <1>1, LenProperties
<1>3. \A i \in DOMAIN q : q[i].key[1] # key[1]
  BY DEF Awaited
<1> HIDE DEF q
<1>4. ASSUME NEW i \in 1 .. Len(events)
      PROVE  events[i].key # key
  <2>1. i \in DOMAIN q /\ q[i] = events[i]
    BY <1>1, <1>2
  <2> QED BY <1>3, <2>1
<1>5. ASSUME NEW i \in 1 .. Len(tasks)
      PROVE  tasks[i].key # key
  <2>1. i + Len(events) \in DOMAIN q /\ q[i + Len(events)] = tasks[i]
    <3>1. /\ i + Len(events) \in 1 .. Len(events) + Len(tasks)
          /\ ~ (i + Len(events) <= Len(events)) /\ (i + Len(events)) - Len(events) = i
      BY <1>1
    <3> QED BY <1>1, <1>2, <3>1
  <2> QED BY <1>3, <2>1
<1> QED BY <1>4, <1>5 DEF Calm

(* Removals take what they remove from the store, or say where they do not.    *)
LEMMA EraseInStep ==
  ASSUME TypeOK, AllInStep, NEW I \in SUBSET DOMAIN list, NEW owner,
         owner = OwnDevice \/ owner = ThisDevice,
         Erase(I, owner), UNCHANGED <<events, tasks, online>>
  PROVE  TypeOK' /\ AllInStep'
<1> DEFINE gone == {<<owner[i], list[i].note>> : i \in {j \in I : list[j].dist}}
           stale == {i \in I : owner[i] # list[i].device \/ Awaited(KeyOf(list[i]))}
           kept == InOrder(DOMAIN list \ I)
<1>1. PICK refused \in Refusals("delete", gone) :
        /\ store' = Without(gone \ refused)
        /\ excused' = excused \cup refused \cup {KeyOf(list[i]) : i \in stale}
  BY DEF Erase
<1>2. /\ list' = [i \in DOMAIN kept |-> list[kept[i]]]
      /\ told' = told \ {KeyOf(list[i]) : i \in I}
  BY DEF Erase
<1>3. /\ list \in Seq(Records) /\ DOMAIN list = 1 .. Len(list)
      /\ list \in [1 .. Len(list) -> Records] /\ store \in [Keys -> States]
  BY LenProperties DEF TypeOK
<1>4. Thinned(list, list', I)
  BY <1>2, <1>3, ErasedIsThinned
<1>5. store' = [key \in Keys |-> IF key \in gone \ refused THEN 0 ELSE store[key]]
  BY <1>1 DEF Without
<1>6. store' \in [Keys -> States]
  BY <1>3, <1>5, ZeroIsState
<1>7. TypeOK'
  BY <1>4, <1>6 DEF TypeOK, Thinned
<1>8. \A i \in I : owner[i] = list[i].device \/ owner[i] = Local
  BY DEF OwnDevice, ThisDevice
<1>9. ASSUME NEW key \in Keys \ excused'
      PROVE  InStep(key)'
  <2>1. /\ key \in Keys \ excused /\ InStep(key) /\ key \notin refused
        /\ \A i \in stale : KeyOf(list[i]) # key
    BY <1>1, <1>9 DEF AllInStep
  <2>2. store'[key] = IF key \in gone THEN 0 ELSE store[key]
    BY <1>5, <2>1
  <2>3. CASE Of(list, key) \cap I = {}
    <3>1. Kept(list, list', key)
      BY <1>4, <2>3, ThinnedKeeps
    <3>2. \A i \in I : KeyOf(list[i]) # key
      BY <1>3, <2>3 DEF Of
    <3>3. key \in told' <=> key \in told
      BY <1>2, <3>2
    <3>4. key \in gone => key[1] = Local
      <4> SUFFICES ASSUME NEW i \in I, key = <<owner[i], list[i].note>>
                   PROVE  key[1] = Local
        OBVIOUS
      <4>1. owner[i] # list[i].device
        BY <3>2 DEF KeyOf
      <4> QED BY <1>8, <4>1
    <3>5. CASE store'[key] = store[key]
      BY <2>1, <3>1, <3>3, <3>5, UntouchedStays
    <3>6. CASE store'[key] # store[key]
      <4>1. key[1] = Local /\ store'[key] = 0
        BY <2>2, <3>4, <3>6
      <4>2. Single(list', key) /\ (key \in told' <=> RecordsOf(list', key) # {})
        BY <2>1, <3>1, <3>3 DEF InStep, Kept
      <4>3. Own(list', key, store'[key])
        BY <4>1 DEF Own
      <4> QED BY <4>1, <4>2, <4>3 DEF InStep
    <3> QED BY <3>5, <3>6
  <2>4. CASE Of(list, key) \cap I # {}
    <3>1. PICK i \in I : i \in Of(list, key)
      BY <2>4
    <3>2. i \in 1 .. Len(list) /\ list[i] \in Records /\ KeyOf(list[i]) = key /\ i \notin stale
      BY <1>3, <2>1, <3>1 DEF Of
    <3>3. owner[i] = list[i].device /\ ~Awaited(key)
      BY <3>1, <3>2
    <3>4. key = <<owner[i], list[i].note>> /\ key[1] = list[i].device
      BY <3>2, <3>3 DEF KeyOf
    <3>5. Single(list, key)
      BY <2>1 DEF InStep
    <3>6. RecordsOf(list', key) = {} /\ Single(list', key)
      BY <1>4, <3>1, <3>5, ThinnedLoses
    <3>7. key \notin told'
      BY <1>2, <3>1, <3>2
    <3>8. store'[key] = 0
      <4>1. CASE list[i].dist
        <5>1. key \in gone
          BY <3>1, <3>4, <4>1
        <5> QED BY <2>2, <5>1
      <4>2. CASE ~list[i].dist
        <5>1. key[1] = Local
          BY <3>2, <3>4, <4>2 DEF Records
        <5>2. RecordsOf(list, key) = {list[i]}
          BY <3>1, <3>5 DEF RecordsOf, Single
        <5>3. store[key] = 0
          BY <2>1, <4>2, <5>1, <5>2 DEF InStep, Own
        <5> QED BY <2>2, <5>3
      <4> QED BY <4>1, <4>2
    <3>9. Own(list', key, store'[key])
      BY <3>8 DEF Own
    <3>10. ASSUME key[1] # Local
           PROVE  OnTheWay(key)' /\ LeavesLast(key[1])'
      <4>1. Path(key, tasks, 0, 0) /\ Path(key, events, 0, 0)
        BY <3>3, <3>10, NothingAwaited, CalmPath, ZeroIsState DEF TypeOK
      <4>2. Held(list', key, 0)
        BY <3>6 DEF Held
      <4>3. Path(key, tasks', 0, 0) /\ Path(key, events', 0, store'[key])
        BY <3>8, <4>1
      <4>4. OnTheWay(key)'
        BY <4>2, <4>3, ZeroIsState DEF OnTheWay
      <4>5. LeavesLast(key[1])'
        BY <2>1, <3>10 DEF InStep, LeavesLast
      <4> QED BY <4>4, <4>5
    <3> QED BY <3>6, <3>7, <3>8, <3>9, <3>10 DEF InStep
  <2> QED BY <2>3, <2>4
<1> QED BY <1>7, <1>9 DEF AllInStep

LEMMA AskInStep ==
  ASSUME TypeOK, AllInStep, Ask
  PROVE  TypeOK' /\ AllInStep'
<1>1. ASSUME NEW key
      PROVE  Listed(key) # {} => {FirstOf(key)} \in SUBSET DOMAIN list
  <2>1. Listed(key) # {} => FirstOf(key) \in Of(list, key)
    BY ListedIs DEF TypeOK
  <2>2. DOMAIN list = 1 .. Len(list)
    BY LenProperties DEF TypeOK
  <2> QED BY <2>1, <2>2 DEF Of
<1>2. ASSUME NEW n \in Notes, NEW v \in Versions, NEW dist \in Options,
             PublishPreparedNotification(n, v, dist)
      PROVE  TypeOK' /\ AllInStep'
  BY <1>2, PublishInStep
<1>3. ASSUME NEW n \in Notes, CancelPreparedNotification(n)
      PROVE  TypeOK' /\ AllInStep'
  <2>1. /\ {FirstOf(<<Local, n>>)} \in SUBSET DOMAIN list
        /\ Erase({FirstOf(<<Local, n>>)}, ThisDevice)
        /\ UNCHANGED <<events, tasks, online>>
    BY <1>1, <1>3 DEF CancelPreparedNotification
  <2> QED BY <2>1, EraseInStep
<1>4. ASSUME NEW key \in Keys, Delete(key)
      PROVE  TypeOK' /\ AllInStep'
  <2>1. /\ {FirstOf(key)} \in SUBSET DOMAIN list
        /\ Erase({FirstOf(key)}, OwnDevice)
        /\ UNCHANGED <<events, tasks, online>>
    BY <1>1, <1>4 DEF Delete
  <2> QED BY <2>1, EraseInStep
<1>5. ASSUME NEW b \in Bundles, DeleteByBundle(b)
      PROVE  TypeOK' /\ AllInStep'
  <2>1. /\ OfBundle(b) \in SUBSET DOMAIN list
        /\ Erase(OfBundle(b), OwnDevice)
        /\ UNCHANGED <<events, tasks, online>>
    BY <1>5 DEF DeleteByBundle, DeleteEach, OfBundle
  <2> QED BY <2>1, EraseInStep
<1>6. ASSUME NEW b \in Bundles, OnBundleRemoved(b)
      PROVE  TypeOK' /\ AllInStep'
  <2>1. /\ LocalNotificationKeys(b) \in SUBSET DOMAIN list
        /\ Erase(LocalNotificationKeys(b), ThisDevice)
        /\ UNCHANGED <<events, tasks, online>>
    BY <1>6 DEF OnBundleRemoved, LocalNotificationKeys
  <2> QED BY <2>1, EraseInStep
<1>7. CASE DeleteAll
  <2>1. /\ DOMAIN list \in SUBSET DOMAIN list
        /\ Erase(DOMAIN list, OwnDevice)
        /\ UNCHANGED <<events, tasks, online>>
    BY <1>7 DEF DeleteAll, DeleteEach
  <2> QED BY <2>1, EraseInStep
<1>8. ASSUME NEW switch \in Switches, NEW on \in BOOLEAN, EnableDistributed(switch, on)
      PROVE  TypeOK' /\ AllInStep'
  <2>1. UNCHANGED <<store, list, events, tasks, online, told, excused>>
    BY <1>8 DEF EnableDistributed
  <2>2. TypeOK'
    BY <2>1 DEF TypeOK
  <2>3. \A key \in Keys \ excused' : InStep(key)'
    BY <2>1, UntouchedStays DEF AllInStep, Kept
  <2> QED BY <2>2, <2>3 DEF AllInStep
<1> QED BY <1>2, <1>3, <1>4, <1>5, <1>6, <1>7, <1>8 DEF Ask

----------------------------------------------------------------------------
(* The other devices, and the service of the store.                            *)

(* A change another device makes waits behind the others.                      *)
LEMMA HeardInStep ==
  ASSUME TypeOK, NEW x \in Waiting, x.kind # "offline", x.key[1] \in online \cup {Local},
         events' = Append(events, x), UNCHANGED <<list, tasks, online, told>>,
         NEW key \in Keys, InStep(key), store'[key] \in States,
         Changes(key, x, store[key], store'[key]),
         x.key # key => store'[key] = store[key],
         key[1] = Local => store'[key] \in {0, store[key]}
  PROVE  InStep(key)'
<1> DEFINE n == Len(events)
<1>1. /\ n \in Nat /\ Len(events') = n + 1 /\ events'[n + 1] = x
      /\ \A i \in 1 .. n : events'[i] = events[i]
  BY LenProperties, AppendProperties DEF TypeOK
<1>2. Single(list', key) /\ (key \in told' <=> RecordsOf(list', key) # {})
  BY DEF InStep
<1>3. key[1] = Local => Own(list', key, store'[key])
  BY DEF InStep, Own
<1>4. ASSUME key[1] # Local, Shown(key)
      PROVE  OnTheWay(key)'
  <2>1. PICK k \in States, m \in States :
          Held(list, key, k) /\ Path(key, tasks, k, m) /\ Path(key, events, m, store[key])
    BY <1>4 DEF InStep, OnTheWay
  <2>2. Path(key, events', m, store'[key])
    BY <2>1, PathAppend DEF TypeOK
  <2> QED BY <2>1, <2>2 DEF OnTheWay
<1>5. \A i \in 1 .. n + 1 : i \in 1 .. n \/ i = n + 1
  BY <1>1
<1>6. 1 .. n \subseteq 1 .. n + 1
  BY <1>1
<1>7. ASSUME key[1] # Local
      PROVE  LeavesLast(key[1])'
  <2>1. SUFFICES ASSUME NEW i \in 1 .. n + 1, events'[i].kind = "offline",
                        events'[i].key[1] = key[1]
                 PROVE  /\ key[1] \notin online
                        /\ \A j \in 1 .. n + 1 : j > i => events'[j].key[1] # key[1]
    BY <1>1 DEF LeavesLast
  <2>2. i \in 1 .. n /\ events[i].kind = "offline" /\ events[i].key[1] = key[1]
    BY <1>1, <1>5, <2>1
  <2>3. /\ key[1] \notin online
        /\ \A j \in 1 .. n : j > i => events[j].key[1] # key[1]
    BY <1>7, <2>2 DEF InStep, LeavesLast
  <2>4. x.key[1] # key[1]
    BY <1>7, <2>3
  <2> HIDE DEF n
  <2> QED BY <1>1, <1>5, <2>3, <2>4
<1>8. ASSUME key[1] # Local, key[1] \notin online'
      PROVE  Leaves(key[1])' \/ store'[key] = 0
  <2>1. store'[key] = store[key]
    BY <1>8
  <2>2. Leaves(key[1]) \/ store[key] = 0
    BY <1>8 DEF InStep
  <2>3. Leaves(key[1]) => Leaves(key[1])'
    BY <1>1, <1>6 DEF Leaves
  <2> QED BY <2>1, <2>2, <2>3
<1> QED BY <1>2, <1>3, <1>4, <1>7, <1>8 DEF InStep, Shown

LEMMA RemotePutInStep ==
  ASSUME TypeOK, AllInStep, NEW k \in Keys, NEW version \in Versions, RemotePut(k, version)
  PROVE  TypeOK' /\ AllInStep'
<1> DEFINE x == [kind |-> IF store[k] = 0 THEN "insert" ELSE "update", key |-> k,
                 version |-> version]
<1>1. /\ k[1] \in online /\ k[1] # Local /\ k[1] \in Remotes
      /\ store' = [store EXCEPT ![k] = version]
      /\ events' = Append(events, x)
      /\ UNCHANGED <<list, tasks, online, told, excused>>
  BY SharingAssumption DEF RemotePut, Hear, TypeOK
<1>2. k \in Remotes \X Notes /\ k \in Devices \X (Notes \cup {AnyNote}) /\ version \in States
  BY <1>1, KeyIs, VersionsAre DEF Devices
<1>3. x \in Waiting /\ x.key = k
  BY <1>2 DEF Waiting
<1>4. /\ store' \in [Keys -> States]
      /\ \A key \in Keys : store'[key] = IF key = k THEN version ELSE store[key]
  BY <1>1, <1>2 DEF TypeOK
<1>5. TypeOK'
  BY <1>1, <1>3, <1>4, AppendProperties DEF TypeOK
<1>6. \A key \in Keys : Changes(key, x, store[key], store'[key])
  <2> TAKE key \in Keys
  <2>1. CASE key = k
    <3>1. store'[key] = version
      BY <1>4, <2>1
    <3> QED BY <2>1, <3>1 DEF Changes
  <2>2. CASE key # k
    BY <1>3, <1>4, <2>2, CalmChanges
  <2> QED BY <2>1, <2>2
<1>7. x.kind # "offline" /\ x.key[1] \in online \cup {Local}
  BY <1>1
<1> HIDE DEF x
<1>8. ASSUME NEW key \in Keys \ excused
      PROVE  InStep(key)'
  <2>1. /\ InStep(key) /\ store'[key] \in States
        /\ x.key # key => store'[key] = store[key]
        /\ key[1] = Local => store'[key] = store[key]
    BY <1>1, <1>3, <1>4 DEF AllInStep
  <2> QED BY <1>1, <1>3, <1>6, <1>7, <2>1, HeardInStep
<1> QED BY <1>1, <1>5, <1>8 DEF AllInStep

LEMMA RemoteDeleteInStep ==
  ASSUME TypeOK, AllInStep, NEW k \in Keys, RemoteDelete(k)
  PROVE  TypeOK' /\ AllInStep'
<1> DEFINE x == [kind |-> "delete", key |-> k, version |-> 0]
<1>1. /\ k[1] \in online \cup {Local}
      /\ store' = Without({k})
      /\ events' = Append(events, x)
      /\ UNCHANGED <<list, tasks, online, told, excused>>
  BY DEF RemoteDelete, Hear
<1>2. k \in Devices \X (Notes \cup {AnyNote})
  BY KeyIs
<1>3. x \in Waiting /\ x.key = k
  BY <1>2, ZeroIsState DEF Waiting
<1>4. /\ store' \in [Keys -> States]
      /\ \A key \in Keys : store'[key] = IF key = k THEN 0 ELSE store[key]
  BY <1>1, ZeroIsState DEF TypeOK, Without
<1>5. TypeOK'
  BY <1>1, <1>3, <1>4, AppendProperties DEF TypeOK
<1>6. \A key \in Keys : Changes(key, x, store[key], store'[key])
  <2> TAKE key \in Keys
  <2>1. CASE key = k
    <3>1. store'[key] = 0
      BY <1>4, <2>1
    <3> QED BY <2>1, <3>1 DEF Changes
  <2>2. CASE key # k
    BY <1>3, <1>4, <2>2, CalmChanges
  <2> QED BY <2>1, <2>2
<1>7. x.kind # "offline" /\ x.key[1] \in online \cup {Local}
  BY <1>1
<1> HIDE DEF x
<1>8. ASSUME NEW key \in Keys \ excused
      PROVE  InStep(key)'
  <2>1. /\ InStep(key) /\ store'[key] \in States
        /\ x.key # key => store'[key] = store[key]
        /\ store'[key] \in {0, store[key]}
    BY <1>3, <1>4 DEF AllInStep
  <2> QED BY <1>1, <1>3, <1>6, <1>7, <2>1, HeardInStep
<1> QED BY <1>1, <1>5, <1>8 DEF AllInStep

(* Where a leave waits nothing more is heard of the device until it is back.   *)
LEMMA LeaveInStep ==
  ASSUME TypeOK, AllInStep, NEW device \in Remotes, Leave(device)
  PROVE  TypeOK' /\ AllInStep'
<1> DEFINE x == [kind |-> "offline", key |-> <<device, AnyNote>>, version |-> 0]
           n == Len(events)
<1>1. /\ device \in online /\ online' = online \ {device}
      /\ events' = Append(events, x)
      /\ UNCHANGED <<store, list, tasks, told, excused>>
  BY DEF Leave, Hear
<1>2. x \in Waiting /\ x.key[1] = device /\ x.kind = "offline" /\ device # Local
  BY SharingAssumption, ZeroIsState DEF Waiting, Devices
<1> HIDE DEF x
<1>3. /\ n \in Nat /\ Len(events') = n + 1 /\ events'[n + 1] = x /\ events' \in Seq(Waiting)
      /\ \A i \in 1 .. n : events'[i] = events[i]
  BY <1>1, <1>2, LenProperties, AppendProperties DEF TypeOK
<1>4. TypeOK'
  BY <1>1, <1>3 DEF TypeOK
<1>5. /\ \A i \in 1 .. n + 1 : i \in 1 .. n \/ i = n + 1
      /\ 1 .. n \subseteq 1 .. n + 1 /\ n + 1 \in 1 .. n + 1
  BY <1>3
<1>6. ASSUME NEW key \in Keys \ excused
      PROVE  InStep(key)'
  <2>1. InStep(key)
    BY DEF AllInStep
  <2>2. /\ Single(list', key) /\ (key \in told' <=> RecordsOf(list', key) # {})
        /\ key[1] = Local => Own(list', key, store'[key])
    BY <1>1, <2>1 DEF InStep
  <2>3. ASSUME key[1] # Local, Shown(key)
        PROVE  OnTheWay(key)'
    <3>1. PICK k \in States, m \in States :
            Held(list, key, k) /\ Path(key, tasks, k, m) /\ Path(key, events, m, store[key])
      BY <2>1, <2>3 DEF InStep, OnTheWay
    <3>2. Changes(key, x, store[key], store[key]) /\ store[key] \in States
      BY <1>2, CalmChanges DEF TypeOK
    <3>3. Path(key, events', m, store[key])
      BY <1>1, <1>2, <3>1, <3>2, PathAppend DEF TypeOK
    <3> QED BY <1>1, <3>1, <3>3 DEF OnTheWay
  <2>4. CASE key[1] = device
    <3>1. \A i \in 1 .. n : ~(events[i].kind = "offline" /\ events[i].key[1] = device)
      BY <1>1, <1>2, <2>1, <2>4 DEF InStep, LeavesLast
    <3>2. LeavesLast(device)'
      <4> SUFFICES ASSUME NEW i \in 1 .. n + 1, events'[i].kind = "offline",
                          events'[i].key[1] = device
                   PROVE  /\ device \notin online'
                          /\ \A j \in 1 .. n + 1 : j > i => events'[j].key[1] # device
        BY <1>3 DEF LeavesLast
      <4>1. i = n + 1
        BY <1>3, <1>5, <3>1
      <4>2. \A j \in 1 .. n + 1 : ~(j > i)
        BY <1>3, <4>1
      <4> QED BY <1>1, <4>2
    <3>3. Leaves(device)'
      BY <1>2, <1>3, <1>5 DEF Leaves
    <3> QED BY <2>2, <2>3, <2>4, <3>2, <3>3 DEF InStep, Shown
  <2>5. CASE key[1] # device
    <3>1. ASSUME key[1] # Local
          PROVE  LeavesLast(key[1])'
      <4> SUFFICES ASSUME NEW i \in 1 .. n + 1, events'[i].kind = "offline",
                          events'[i].key[1] = key[1]
                   PROVE  /\ key[1] \notin online'
                          /\ \A j \in 1 .. n + 1 : j > i => events'[j].key[1] # key[1]
        BY <1>3 DEF LeavesLast
      <4>1. i \in 1 .. n /\ events[i].kind = "offline" /\ events[i].key[1] = key[1]
        BY <1>2, <1>3, <1>5, <2>5
      <4>2. /\ key[1] \notin online
            /\ \A j \in 1 .. n : j > i => events[j].key[1] # key[1]
        BY <2>1, <3>1, <4>1 DEF InStep, LeavesLast
      <4> HIDE DEF n
      <4> QED BY <1>1, <1>2, <1>3, <1>5, <2>5, <4>2
    <3>2. ASSUME key[1] # Local, key[1] \notin online'
          PROVE  Leaves(key[1])' \/ store'[key] = 0
      <4>1. Leaves(key[1]) \/ store[key] = 0
        BY <1>1, <2>1, <2>5, <3>2 DEF InStep
      <4>2. Leaves(key[1]) => Leaves(key[1])'
        BY <1>3, <1>5 DEF Leaves
      <4> QED BY <1>1, <4>1, <4>2
    <3> QED BY <2>2, <2>3, <3>1, <3>2 DEF InStep, Shown
  <2> QED BY <2>4, <2>5
<1> QED BY <1>1, <1>4, <1>6 DEF AllInStep

LEMMA JoinInStep ==
  ASSUME TypeOK, AllInStep, NEW device \in Remotes, Join(device)
  PROVE  TypeOK' /\ AllInStep'
<1>1. /\ online' = online \cup {device}
      /\ excused' =
           IF \E i \in DOMAIN events : events[i].kind = "offline" /\ events[i].key[1] = device
           THEN excused \cup KeysOf(device) ELSE excused
      /\ UNCHANGED <<store, list, events, tasks, told>>
  BY DEF Join
<1>2. DOMAIN events = 1 .. Len(events)
  BY LenProperties DEF TypeOK
<1>3. TypeOK'
  BY <1>1 DEF TypeOK
<1>4. ASSUME NEW key \in Keys \ excused'
      PROVE  InStep(key)'
  <2>1. key \in Keys \ excused /\ InStep(key)
    BY <1>1, <1>4 DEF AllInStep
  <2>2. key[1] = device => ~Leaves(device)
    <3> SUFFICES ASSUME key[1] = device, Leaves(device)
                 PROVE  FALSE
      OBVIOUS
    <3>1. key \in KeysOf(device)
      BY <1>4, KeyIs DEF KeysOf
    <3> QED BY <1>1, <1>2, <1>4, <3>1 DEF Leaves
  <2>3. /\ Single(list', key) /\ (key \in told' <=> RecordsOf(list', key) # {})
        /\ key[1] = Local => Own(list', key, store'[key])
    BY <1>1, <2>1 DEF InStep
  <2>4. key[1] # Local /\ Shown(key) => OnTheWay(key)'
    BY <1>1, <2>1 DEF InStep, OnTheWay
  <2>5. key[1] # Local => LeavesLast(key[1])'
    BY <1>1, <2>1, <2>2 DEF InStep, LeavesLast, Leaves
  <2>6. key[1] # Local /\ key[1] \notin online' => Leaves(key[1])' \/ store'[key] = 0
    BY <1>1, <2>1 DEF InStep, Leaves
  <2> QED BY <2>3, <2>4, <2>5, <2>6 DEF InStep, Shown
<1> QED BY <1>3, <1>4 DEF AllInStep

LEMMA StoreDiesInStep ==
  ASSUME TypeOK, AllInStep, StoreDies
  PROVE  TypeOK' /\ AllInStep'
<1> DEFINE x == [kind |-> "death", key |-> <<Local, AnyNote>>, version |-> 0]
<1>1. tasks' = Append(tasks, x) /\ UNCHANGED <<store, list, events, online, told, excused>>
  BY DEF StoreDies
<1>2. x \in Waiting /\ x.kind = "death"
  BY ZeroIsState DEF Waiting, Devices
<1> HIDE DEF x
<1>3. TypeOK'
  BY <1>1, <1>2, AppendProperties DEF TypeOK
<1>4. ASSUME NEW key \in Keys \ excused
      PROVE  InStep(key)'
  <2>1. InStep(key)
    BY DEF AllInStep
  <2>2. ASSUME key[1] # Local, Shown(key)
        PROVE  OnTheWay(key)'
    <3>1. PICK k \in States, m \in States :
            Held(list, key, k) /\ Path(key, tasks, k, m) /\ Path(key, events, m, store[key])
      BY <2>1, <2>2 DEF InStep, OnTheWay
    <3>2. Changes(key, x, m, m)
      BY <1>2, CalmChanges
    <3>3. Path(key, tasks', k, m)
      BY <1>1, <1>2, <3>1, <3>2, PathAppend DEF TypeOK
    <3> QED BY <1>1, <3>1, <3>3 DEF OnTheWay
  <2> QED BY <1>1, <2>1, <2>2 DEF InStep, Shown, LeavesLast, Leaves
<1> QED BY <1>1, <1>3, <1>4 DEF AllInStep

LEMMA ChangeInStep ==
  ASSUME TypeOK, AllInStep, Change
  PROVE  TypeOK' /\ AllInStep'
BY RemotePutInStep, RemoteDeleteInStep, LeaveInStep, JoinInStep, StoreDiesInStep DEF Change

----------------------------------------------------------------------------
(* The handler of the manager.                                                 *)

(* What of the leaves stays when the first event has been taken.               *)
LEMMA TakenLeaves ==
  ASSUME TypeOK, events # <<>>, events' = Tail(events), online' = online, NEW device
  PROVE  /\ LeavesLast(device) => LeavesLast(device)'
         /\ ~(Head(events).kind = "offline" /\ Head(events).key[1] = device) =>
              (Leaves(device) => Leaves(device)')
<1> DEFINE n == Len(events) - 1
<1>1. /\ n \in Nat /\ Len(events) = n + 1 /\ Len(events') = n
      /\ events[1] = Head(events) /\ \A i \in 1 .. n : events'[i] = events[i + 1]
  BY LenProperties, HeadTailProperties, EmptySeq DEF TypeOK
<1>2. ASSUME LeavesLast(device)
      PROVE  LeavesLast(device)'
  <2> SUFFICES ASSUME NEW i \in 1 .. n, events'[i].kind = "offline",
                      events'[i].key[1] = device
               PROVE  /\ device \notin online'
                      /\ \A j \in 1 .. n : j > i => events'[j].key[1] # device
    BY <1>1 DEF LeavesLast
  <2>1. i + 1 \in 1 .. Len(events) /\ events'[i] = events[i + 1]
    BY <1>1
  <2>2. /\ device \notin online
        /\ \A j \in 1 .. Len(events) : j > i + 1 => events[j].key[1] # device
    BY <1>2, <2>1 DEF LeavesLast
  <2>3. \A j \in 1 .. n : j > i => j + 1 \in 1 .. Len(events) /\ j + 1 > i + 1
    BY <1>1
  <2> HIDE DEF n
  <2> QED BY <1>1, <2>2, <2>3
<1>3. ASSUME ~(Head(events).kind = "offline" /\ Head(events).key[1] = device), Leaves(device)
      PROVE  Leaves(device)'
  <2>1. PICK i \in 1 .. n + 1 : events[i].kind = "offline" /\ events[i].key[1] = device
    BY <1>1, <1>3 DEF Leaves
  <2>2. i # 1
    BY <1>1, <1>3, <2>1
  <2>3. i - 1 \in 1 .. n /\ (i - 1) + 1 = i
    BY <1>1, <2>2
  <2>4. events'[i - 1] = events[i]
    BY <1>1, <2>3
  <2> QED BY <1>1, <2>1, <2>3, <2>4 DEF Leaves
<1> QED BY <1>2, <1>3

LEMMA DatabaseChangeInStep ==
  ASSUME TypeOK, AllInStep, events # <<>>, OnDatabaseChange, events' = Tail(events),
         UNCHANGED <<list, online, told>>
  PROVE  TypeOK' /\ AllInStep'
<1> DEFINE x == Head(events)
<1>1. x.kind # "offline" /\ tasks' = Append(tasks, x) /\ UNCHANGED <<store, excused>>
  BY DEF OnDatabaseChange
<1>2. x \in Waiting /\ events' \in Seq(Waiting)
  BY HeadTailProperties DEF TypeOK
<1>3. TypeOK'
  BY <1>1, <1>2, AppendProperties DEF TypeOK
<1> HIDE DEF x
<1>4. ASSUME NEW key \in Keys \ excused
      PROVE  InStep(key)'
  <2>1. InStep(key)
    BY DEF AllInStep
  <2>2. ASSUME key[1] # Local, Shown(key)
        PROVE  OnTheWay(key)'
    <3>1. PICK k \in States, m \in States :
            Held(list, key, k) /\ Path(key, tasks, k, m) /\ Path(key, events, m, store[key])
      BY <2>1, <2>2 DEF InStep, OnTheWay
    <3>2. PICK c \in States : Changes(key, x, m, c) /\ Path(key, Tail(events), c, store[key])
      BY <3>1, PathHead DEF TypeOK, x
    <3>3. Path(key, tasks', k, c)
      BY <1>1, <1>2, <3>1, <3>2, PathAppend DEF TypeOK
    <3> QED BY <1>1, <3>1, <3>2, <3>3 DEF OnTheWay
  <2>3. /\ LeavesLast(key[1]) => LeavesLast(key[1])'
        /\ Leaves(key[1]) => Leaves(key[1])'
    BY <1>1, TakenLeaves DEF x
  <2> QED BY <1>1, <2>1, <2>2, <2>3 DEF InStep, Shown
<1> QED BY <1>1, <1>3, <1>4 DEF AllInStep

LEMMA SetToSeqIs ==
  ASSUME NEW S, IsFiniteSet(S)
  PROVE  SetToSeq(S) \in Seq(S) /\ \A x \in S : \E i \in 1 .. Len(SetToSeq(S)) : SetToSeq(S)[i] = x
<1> DEFINE n == Cardinality(S)
<1>1. n \in Nat /\ ExistsBijection(1 .. n, S)
  BY FS_CardinalityType
<1>2. \E f \in [1 .. n -> S] : IsInjective(f)
  BY <1>1 DEF ExistsBijection, Bijection, Injection
<1>3. SetToSeq(S) \in [1 .. n -> S] /\ IsInjective(SetToSeq(S))
  BY <1>2 DEF SetToSeq
<1>4. SetToSeq(S) \in Injection(1 .. n, S)
  BY <1>3 DEF Injection
<1>5. IsFiniteSet(1 .. n) /\ Cardinality(1 .. n) = n
  BY <1>1, SizeOfInterval, Zenon
<1>6. SetToSeq(S) \in Surjection(1 .. n, S)
  BY <1>4, <1>5, FS_Injection
<1>7. SetToSeq(S) \in Seq(S) /\ Len(SetToSeq(S)) = n
  BY <1>1, <1>3
<1> QED BY <1>6, <1>7 DEF Surjection

(* The entries of a device, and the deletions they become, are finitely many.  *)
LEMMA EntriesAreFinite ==
  ASSUME NEW device
  PROVE  LET entries == {key \in KeysOf(device) : store[key] # 0}
         IN  IsFiniteSet({[kind |-> "delete", key |-> key, version |-> 0] : key \in entries})
<1> DEFINE entries == {key \in KeysOf(device) : store[key] # 0}
           N == {n \in Notes : store[<<device, n>>] # 0}
           S == {[kind |-> "delete", key |-> key, version |-> 0] : key \in entries}
           f == [n \in N |-> [kind |-> "delete", key |-> <<device, n>>, version |-> 0]]
<1>1. IsFiniteSet(N)
  <2>1. N \in SUBSET Notes
    OBVIOUS
  <2> QED BY <2>1, SharingAssumption, FS_Subset
<1>2. \A n \in N : <<device, n>> \in entries
  BY DEF KeysOf
<1>3. \A key \in entries : \E n \in N : key = <<device, n>>
  BY DEF KeysOf
<1>4. f \in [N -> S]
  BY <1>2
<1>5. \A x \in S : \E n \in N : f[n] = x
  BY <1>3
<1>6. f \in Surjection(N, S)
  BY <1>4, <1>5 DEF Surjection
<1> HIDE DEF f, N, S
<1>7. IsFiniteSet(S)
  BY <1>1, <1>6, FS_Surjection
<1> QED BY <1>7 DEF S

LEMMA DisconnectedInStep ==
  ASSUME TypeOK, AllInStep, events # <<>>, OnDeviceDisconnected, events' = Tail(events),
         UNCHANGED <<list, online, told>>
  PROVE  TypeOK' /\ AllInStep'
<1> DEFINE x == Head(events)
           device == x.key[1]
           entries == {key \in KeysOf(device) : store[key] # 0}
           deletions == {[kind |-> "delete", key |-> key, version |-> 0] : key \in entries}
           waits == SetToSeq(deletions)
<1>1. x.kind = "offline"
  BY DEF OnDeviceDisconnected
<1>2. \E got \in Outcomes("entries"), cleared \in Outcomes("clear"),
         devices \in Outcomes("devices") :
        IF ~got THEN UNCHANGED <<store, tasks>> /\ excused' = excused \cup KeysOf(device)
        ELSE /\ tasks' = tasks \o waits
             /\ IF ~devices THEN Recreated
                ELSE IF cleared THEN store' = Without(entries) /\ UNCHANGED excused
                ELSE UNCHANGED store /\ excused' = excused \cup entries
  BY DEF OnDeviceDisconnected
<1>3. x \in Waiting /\ events' \in Seq(Waiting) /\ x = events[1] /\ 1 \in 1 .. Len(events)
      /\ Len(events') = Len(events) - 1 /\ Len(events) \in Nat
      /\ \A i \in 1 .. Len(events') : events'[i] = events[i + 1]
  BY LenProperties, HeadTailProperties, EmptySeq DEF TypeOK
<1>4. device # Local /\ device \in Devices
  BY <1>1, <1>3 DEF Waiting
<1> HIDE DEF x
<1>5. KeysOf(device) \subseteq Keys
  BY <1>4 DEF KeysOf, Keys
<1>6. /\ waits \in Seq(deletions)
      /\ \A y \in deletions : \E i \in 1 .. Len(waits) : waits[i] = y
  <2>1. IsFiniteSet(deletions)
    BY EntriesAreFinite
  <2> HIDE DEF deletions
  <2> QED BY <2>1, SetToSeqIs
<1>7. deletions \subseteq Waiting
  <2>1. \A key \in entries : key \in Devices \X (Notes \cup {AnyNote})
    BY <1>5 DEF Keys
  <2> HIDE DEF entries
  <2> QED BY <2>1, ZeroIsState DEF Waiting
<1>8. /\ waits \in Seq(Waiting) /\ tasks \o waits \in Seq(Waiting)
      /\ Len(waits) \in Nat /\ \A i \in 1 .. Len(waits) : waits[i] \in deletions
  <2> HIDE DEF deletions, waits
  <2> QED BY <1>6, <1>7, SeqMonotonic, ConcatProperties, ElementOfSeq, LenProperties DEF TypeOK
<1>9. /\ \A i \in 1 .. Len(waits) : waits[i].kind = "delete" /\ waits[i].key \in entries
      /\ \A key \in entries : \E i \in 1 .. Len(waits) : waits[i].key = key
  <2>1. ASSUME NEW key \in entries
        PROVE  \E y \in deletions : y.key = key
    <3> DEFINE y == [kind |-> "delete", key |-> key, version |-> 0]
    <3>1. y \in deletions /\ y.key = key
      OBVIOUS
    <3> HIDE DEF y, deletions
    <3> QED BY <3>1
  <2>2. \A y \in deletions : y.kind = "delete" /\ y.key \in entries
    OBVIOUS
  <2> HIDE DEF deletions, waits, entries
  <2> QED BY <1>6, <1>8, <2>1, <2>2
<1>10. \A key \in entries : key[1] = device
  BY DEF KeysOf
<1>11. \A key \in Keys : key[1] = device => key \in entries \/ store[key] = 0
  BY KeyIs DEF KeysOf
<1> HIDE DEF entries, deletions, waits, device
<1>12. \A key : key[1] # device => Calm(key, waits)
  BY <1>9, <1>10 DEF Calm
<1>13. store' \in [Keys -> States] /\ tasks' \in Seq(Waiting)
  <2>1. [key \in Keys |-> 0] \in [Keys -> States] /\ Without(entries) \in [Keys -> States]
    BY ZeroIsState DEF Without, TypeOK
  <2> QED BY <1>2, <1>8, <2>1 DEF TypeOK, Recreated
<1>14. TypeOK'
  BY <1>3, <1>13 DEF TypeOK
<1>15. ASSUME NEW key \in Keys \ excused'
       PROVE  InStep(key)'
  <2>1. key \in Keys \ excused /\ InStep(key)
    BY <1>2, <1>15 DEF AllInStep, Recreated
  <2>2. /\ tasks' = tasks \/ tasks' = tasks \o waits
        /\ store'[key] = IF key \in entries THEN 0 ELSE store[key]
        /\ key[1] = device => tasks' = tasks \o waits
    <3>1. \A k \in KeysOf(device) : k[1] = device
      BY DEF KeysOf
    <3>2. key[1] = device => key \in KeysOf(device)
      BY <1>15, KeyIs DEF KeysOf
    <3>3. key \in entries => key \in KeysOf(device)
      BY DEF entries
    <3>4. store'[key] = IF key \in entries THEN 0 ELSE store[key]
      BY <1>2, <1>15, <3>3 DEF Recreated, Without
    <3> QED BY <1>2, <1>15, <3>2, <3>4 DEF Recreated
  <2>3. Single(list', key) /\ (key \in told' <=> RecordsOf(list', key) # {})
    BY <2>1 DEF InStep
  <2>4. key[1] = Local => Own(list', key, store'[key])
    BY <1>4, <1>10, <2>1, <2>2 DEF InStep
  <2>5. LeavesLast(key[1]) => LeavesLast(key[1])'
    BY TakenLeaves
  <2>6. ASSUME key[1] # Local, Shown(key)
        PROVE  \E k, m, c \in States :
                 /\ Held(list, key, k) /\ Path(key, tasks, k, m)
                 /\ c = m /\ Path(key, events', c, store[key])
    <3>1. PICK k \in States, m \in States :
            Held(list, key, k) /\ Path(key, tasks, k, m) /\ Path(key, events, m, store[key])
      BY <2>1, <2>6 DEF InStep, OnTheWay
    <3>2. PICK c \in States : Changes(key, x, m, c) /\ Path(key, Tail(events), c, store[key])
      BY <3>1, PathHead DEF TypeOK, x
    <3>3. c = m
      BY <1>1, <3>2, CalmChanges
    <3> QED BY <3>1, <3>2, <3>3
  <2>7. CASE key[1] # device
    <3>1. store'[key] = store[key]
      BY <1>10, <2>2, <2>7
    <3>2. Leaves(key[1]) => Leaves(key[1])'
      BY <2>7, TakenLeaves DEF device, x
    <3>3. ASSUME key[1] # Local, Shown(key)
          PROVE  OnTheWay(key)'
      <4>1. PICK k \in States, m \in States :
              /\ Held(list, key, k) /\ Path(key, tasks, k, m)
              /\ Path(key, events', m, store[key])
        BY <2>6, <3>3
      <4>2. Path(key, waits, m, m)
        BY <1>8, <1>12, <2>7, CalmPath
      <4>3. Path(key, tasks \o waits, k, m)
        BY <1>8, <4>1, <4>2, PathConcat DEF TypeOK
      <4>4. Path(key, tasks', k, m)
        BY <2>2, <4>1, <4>3
      <4> QED BY <3>1, <4>1, <4>4 DEF OnTheWay
    <3> QED BY <2>1, <2>3, <2>4, <2>5, <3>1, <3>2, <3>3 DEF InStep, Shown
  <2>8. CASE key[1] = device
    <3>1. store'[key] = 0 /\ key[1] # Local /\ tasks' = tasks \o waits
      BY <1>4, <1>11, <1>15, <2>2, <2>8
    <3>2. \A j \in 1 .. Len(events) : j > 1 => events[j].key[1] # device
      BY <1>1, <1>3, <2>1, <2>8, <3>1 DEF InStep, LeavesLast, device
    <3>3. \A j \in 1 .. Len(events') : events'[j].key[1] # device
      <4>1. \A j \in 1 .. Len(events') : j + 1 \in 1 .. Len(events) /\ j + 1 > 1
        BY <1>3
      <4> QED BY <1>3, <3>2, <4>1
    <3>4. Calm(key, events')
      BY <2>8, <3>3 DEF Calm
    <3>5. ASSUME Shown(key)
          PROVE  OnTheWay(key)'
      <4>1. PICK k \in States, m \in States :
              /\ Held(list, key, k) /\ Path(key, tasks, k, m)
              /\ Path(key, events', m, store[key])
        BY <2>6, <3>1, <3>5
      <4>2. m = store[key]
        BY <1>3, <3>4, <4>1, CalmPath
      <4>3. Path(key, waits, m, 0)
        <5>1. CASE key \in entries
          BY <1>8, <1>9, <5>1, DeletedPath
        <5>2. CASE key \notin entries
          <6>1. Calm(key, waits)
            BY <1>9, <5>2 DEF Calm
          <6>2. m = 0
            BY <1>11, <1>15, <2>8, <4>2, <5>2
          <6> QED BY <1>8, <6>1, <6>2, CalmPath
        <5> QED BY <5>1, <5>2
      <4>4. Path(key, tasks', k, 0)
        BY <1>8, <3>1, <4>1, <4>3, PathConcat DEF TypeOK
      <4>5. Path(key, events', 0, 0)
        BY <1>3, <3>4, CalmPath, ZeroIsState
      <4> QED BY <3>1, <4>1, <4>4, <4>5, ZeroIsState DEF OnTheWay
    <3> QED BY <2>1, <2>3, <2>5, <3>1, <3>5 DEF InStep, Shown
  <2> QED BY <2>7, <2>8
<1> QED BY <1>14, <1>15 DEF AllInStep

LEMMA ManagerInStep ==
  ASSUME TypeOK, AllInStep, ManagerHandles
  PROVE  TypeOK' /\ AllInStep'
BY DatabaseChangeInStep, DisconnectedInStep DEF ManagerHandles

----------------------------------------------------------------------------
(* The handler of the service.                                                 *)

(* A key stays in step where what the task changes of it is what is listed of  *)
(* it after.                                                                   *)
LEMMA TakenInStep ==
  ASSUME TypeOK, tasks # <<>>, tasks' = Tail(tasks), UNCHANGED <<store, events, online>>,
         NEW key \in Keys, InStep(key), Single(list', key),
         key \in told' <=> RecordsOf(list', key) # {},
         key[1] = Local => Own(list', key, store[key]),
         \A a, c \in States :
           Held(list, key, a) /\ Changes(key, Task, a, c) /\ key[1] # Local /\ Shown(key) =>
             Held(list', key, c)
  PROVE  InStep(key)'
<1>1. ASSUME key[1] # Local, Shown(key)
      PROVE  OnTheWay(key)'
  <2>1. PICK k \in States, m \in States :
          Held(list, key, k) /\ Path(key, tasks, k, m) /\ Path(key, events, m, store[key])
    BY <1>1 DEF InStep, OnTheWay
  <2>2. PICK c \in States : Changes(key, Head(tasks), k, c) /\ Path(key, Tail(tasks), c, m)
    BY <2>1, PathHead DEF TypeOK
  <2>3. Held(list', key, c)
    BY <1>1, <2>1, <2>2 DEF Task
  <2> QED BY <2>1, <2>2, <2>3 DEF OnTheWay
<1> QED BY <1>1 DEF InStep, Shown, LeavesLast, Leaves

LEMMA UntoldStays ==
  ASSUME TypeOK, tasks # <<>>, tasks' = Tail(tasks), UNCHANGED <<store, events, online>>,
         NEW key \in Keys, InStep(key), Kept(list, list', key), key \in told' <=> key \in told,
         \A a, c \in States :
           Held(list, key, a) /\ Changes(key, Task, a, c) /\ key[1] # Local /\ Shown(key) => c = a
  PROVE  InStep(key)'
<1>1. Single(list', key) /\ RecordsOf(list', key) = RecordsOf(list, key)
  BY DEF InStep, Kept
<1>2. \A v : Held(list', key, v) <=> Held(list, key, v)
  BY <1>1 DEF Held
<1>3. key[1] = Local => Own(list', key, store[key])
  BY <1>1 DEF InStep, Own
<1>4. key \in told' <=> RecordsOf(list', key) # {}
  BY <1>1 DEF InStep
<1>5. \A a, c \in States :
        Held(list, key, a) /\ Changes(key, Task, a, c) /\ key[1] # Local /\ Shown(key) =>
          Held(list', key, c)
  BY <1>2
<1> QED BY <1>1, <1>3, <1>4, <1>5, TakenInStep

LEMMA TaskIs ==
  ASSUME TypeOK, tasks # <<>>
  PROVE  /\ Task \in Waiting /\ Tail(tasks) \in Seq(Waiting)
         /\ Task.kind \in {"insert", "update"} =>
              /\ Task.key \in Keys /\ Task.key[1] # Local /\ KeyOf(Incoming) = Task.key
              /\ Incoming.version = Task.version /\ Task.version \in Versions
              /\ Shown(Task.key) => Incoming \in Records
<1>1. Task \in Waiting /\ Tail(tasks) \in Seq(Waiting)
  BY HeadTailProperties DEF TypeOK, Task
<1>2. ASSUME Task.kind \in {"insert", "update"}
      PROVE  /\ Task.key \in Keys /\ Task.key[1] # Local /\ KeyOf(Incoming) = Task.key
             /\ Incoming.version = Task.version /\ Task.version \in Versions
             /\ Shown(Task.key) => Incoming \in Records
  <2>1. Task.key \in Remotes \X Notes /\ Task.version \in Versions
    BY <1>1, <1>2 DEF Waiting
  <2>2. /\ Task.key = <<Task.key[1], Task.key[2]>> /\ Task.key[1] \in Remotes
        /\ Task.key[2] \in Notes
    BY <2>1
  <2>3. Task.key[1] # Local /\ Task.key[1] \in Devices
    BY <2>2, SharingAssumption DEF Devices
  <2>4. Task.key \in Keys
    BY <2>2, <2>3 DEF Keys
  <2>5. KeyOf(Incoming) = Task.key /\ Incoming.version = Task.version
    BY <2>2 DEF KeyOf, Incoming
  <2>6. Shown(Task.key) => Incoming \in Records
    BY <2>1, <2>2, <2>3 DEF Records, Incoming, Shown
  <2> QED BY <2>1, <2>3, <2>4, <2>5, <2>6
<1> QED BY <1>1, <1>2

LEMMA PublishedInStep ==
  ASSUME TypeOK, AllInStep, tasks # <<>>, OnDistributedPublish, tasks' = Tail(tasks),
         UNCHANGED <<events, online>>
  PROVE  TypeOK' /\ AllInStep'
<1>1. /\ Task.kind = "insert" /\ UNCHANGED <<store, excused>>
      /\ IF Shown(Task.key)
         THEN list' = Append(list, Incoming) /\ told' = told \cup {Task.key}
         ELSE UNCHANGED <<list, told>>
  BY DEF OnDistributedPublish, Shown
<1>2. /\ Task \in Waiting /\ tasks' \in Seq(Waiting)
      /\ Task.key \in Keys /\ Task.key[1] # Local /\ KeyOf(Incoming) = Task.key
      /\ Incoming.version = Task.version /\ Task.version \in Versions
      /\ Shown(Task.key) => Incoming \in Records
  BY <1>1, TaskIs
<1>3. /\ list' \in Seq(Records)
      /\ \A key : key # Task.key => Kept(list, list', key)
      /\ Shown(Task.key) /\ Of(list, Task.key) = {} =>
           RecordsOf(list', Task.key) = {Incoming} /\ Single(list', Task.key)
  <2>1. CASE Shown(Task.key)
    <3>1. list' = Append(list, Incoming) /\ Incoming \in Records /\ list \in Seq(Records)
      BY <1>1, <1>2, <2>1 DEF TypeOK
    <3> QED BY <1>2, <3>1, AppendedRecords
  <2>2. CASE ~Shown(Task.key)
    BY <1>1, <2>2 DEF TypeOK, Kept
  <2> QED BY <2>1, <2>2
<1>4. TypeOK'
  BY <1>1, <1>2, <1>3 DEF TypeOK
<1>5. ASSUME NEW key \in Keys \ excused
      PROVE  InStep(key)'
  <2>1. InStep(key)
    BY DEF AllInStep
  <2>2. CASE key # Task.key
    <3>1. Kept(list, list', key) /\ (key \in told' <=> key \in told)
      BY <1>1, <1>3, <2>2
    <3>2. \A a, c : Changes(key, Task, a, c) => c = a
      BY <2>2, CalmChanges
    <3> QED BY <1>1, <2>1, <3>1, <3>2, UntoldStays
  <2>3. CASE key = Task.key /\ ~Shown(key)
    <3>1. Kept(list, list', key) /\ (key \in told' <=> key \in told)
      BY <1>1, <2>3 DEF Kept
    <3> QED BY <1>1, <2>1, <2>3, <3>1, UntoldStays
  <2>4. CASE key = Task.key /\ Shown(key)
    <3>1. \A a, c \in States :
            Held(list, key, a) /\ Changes(key, Task, a, c) => a = 0 /\ c = Task.version
      BY <1>1, <2>4 DEF Changes
    <3>2. PICK k \in States, m \in States : Held(list, key, k) /\ Path(key, tasks, k, m)
      BY <1>2, <2>1, <2>4 DEF InStep, OnTheWay
    <3>3. PICK c \in States : Changes(key, Task, k, c)
      BY <3>2, PathHead DEF TypeOK, Task
    <3>4. Of(list, key) = {}
      BY <3>1, <3>2, <3>3, RecordsAre, VersionsAre DEF Held
    <3>5. RecordsOf(list', key) = {Incoming} /\ Single(list', key) /\ key \in told'
      BY <1>1, <1>3, <2>4, <3>4
    <3>6. Held(list', key, Task.version)
      BY <1>2, <3>5 DEF Held
    <3> QED BY <1>1, <1>2, <2>1, <2>4, <3>1, <3>5, <3>6, TakenInStep
  <2> QED BY <2>2, <2>3, <2>4
<1> QED BY <1>1, <1>4, <1>5 DEF AllInStep

LEMMA UpdatedInStep ==
  ASSUME TypeOK, AllInStep, tasks # <<>>, OnDistributedUpdate, tasks' = Tail(tasks),
         UNCHANGED <<events, online>>
  PROVE  TypeOK' /\ AllInStep'
<1> DEFINE first == FirstOf(Task.key)
<1>1. /\ Task.kind = "update" /\ UNCHANGED store
      /\ IF Shown(Task.key)
         THEN /\ list' = IF Listed(Task.key) = {} THEN list
                         ELSE [list EXCEPT ![first] = Incoming]
              /\ told' = told \cup {Task.key}
              /\ excused' = IF Listed(Task.key) = {} THEN excused \cup {Task.key} ELSE excused
         ELSE UNCHANGED <<list, told, excused>>
  BY DEF OnDistributedUpdate, Shown
<1>2. /\ Task \in Waiting /\ tasks' \in Seq(Waiting)
      /\ Task.key \in Keys /\ Task.key[1] # Local /\ KeyOf(Incoming) = Task.key
      /\ Incoming.version = Task.version /\ Task.version \in Versions
      /\ Shown(Task.key) => Incoming \in Records
  BY <1>1, TaskIs
<1>3. /\ Listed(Task.key) = Of(list, Task.key)
      /\ Listed(Task.key) # {} => first \in Of(list, Task.key)
  BY ListedIs DEF TypeOK
<1> HIDE DEF first
<1>4. /\ list' \in Seq(Records)
      /\ \A key : key # Task.key => Kept(list, list', key)
      /\ Shown(Task.key) /\ Listed(Task.key) # {} /\ Single(list, Task.key) =>
           RecordsOf(list', Task.key) = {Incoming} /\ Single(list', Task.key)
  <2>1. CASE Shown(Task.key) /\ Listed(Task.key) # {}
    <3>1. /\ list' = [list EXCEPT ![first] = Incoming] /\ Incoming \in Records
          /\ list \in Seq(Records) /\ first \in Of(list, KeyOf(Incoming))
      BY <1>1, <1>2, <1>3, <2>1 DEF TypeOK
    <3> DEFINE r == Incoming
               M == [list EXCEPT ![first] = r]
    <3> HIDE DEF r
    <3>2. /\ M \in Seq(Records)
          /\ Single(list, KeyOf(r)) => RecordsOf(M, KeyOf(r)) = {r} /\ Single(M, KeyOf(r))
          /\ \A key : key # KeyOf(r) => Kept(list, M, key)
      <4>1. list \in Seq(Records) /\ r \in Records /\ first \in Of(list, KeyOf(r))
        BY <3>1 DEF r
      <4> HIDE DEF M
      <4> QED BY <4>1, ReplacedRecords, Zenon DEF M
    <3>3. r = Incoming /\ list' = M /\ KeyOf(r) = Task.key
      BY <1>2, <3>1 DEF r
    <3> HIDE DEF M
    <3> QED BY <3>2, <3>3
  <2>2. CASE ~(Shown(Task.key) /\ Listed(Task.key) # {})
    <3>1. list' = list
      BY <1>1, <2>2
    <3> QED BY <2>2, <3>1 DEF TypeOK, Kept
  <2> QED BY <2>1, <2>2
<1>5. TypeOK'
  BY <1>1, <1>2, <1>4 DEF TypeOK
<1>6. ASSUME NEW key \in Keys \ excused'
      PROVE  InStep(key)'
  <2>1. key \in Keys \ excused /\ InStep(key)
    BY <1>1, <1>6 DEF AllInStep
  <2>2. CASE key # Task.key
    <3>1. Kept(list, list', key) /\ (key \in told' <=> key \in told)
      BY <1>1, <1>4, <2>2
    <3>2. \A a, c : Changes(key, Task, a, c) => c = a
      BY <2>2, CalmChanges
    <3> QED BY <1>1, <2>1, <3>1, <3>2, UntoldStays
  <2>3. CASE key = Task.key /\ ~Shown(key)
    <3>1. Kept(list, list', key) /\ (key \in told' <=> key \in told)
      BY <1>1, <2>3 DEF Kept
    <3> QED BY <1>1, <2>1, <2>3, <3>1, UntoldStays
  <2>4. CASE key = Task.key /\ Shown(key)
    <3>1. \A a, c \in States : Changes(key, Task, a, c) => c = Task.version
      BY <1>1, <2>4 DEF Changes
    <3>2. Listed(key) # {} /\ Single(list, key)
      BY <1>1, <1>6, <2>1, <2>4 DEF InStep
    <3>3. RecordsOf(list', key) = {Incoming} /\ Single(list', key) /\ key \in told'
      BY <1>1, <1>4, <2>4, <3>2
    <3>4. Held(list', key, Task.version)
      BY <1>2, <3>3 DEF Held
    <3> QED BY <1>1, <1>2, <2>1, <2>4, <3>1, <3>3, <3>4, TakenInStep
  <2> QED BY <2>2, <2>3, <2>4
<1> QED BY <1>5, <1>6 DEF AllInStep

LEMMA DeletedInStep ==
  ASSUME TypeOK, AllInStep, tasks # <<>>, OnDistributedDelete, tasks' = Tail(tasks),
         UNCHANGED <<events, online>>
  PROVE  TypeOK' /\ AllInStep'
<1> DEFINE first == FirstOf(Task.key)
<1>1. Task.kind = "delete" /\ UNCHANGED store
  BY DEF OnDistributedDelete
<1>2. PICK known \in Outcomes("local") :
        IF Listed(Task.key) # {} /\ (Task.key[1] = Local => known)
        THEN /\ list' = RemoveAt(list, first) /\ told' = told \ {Task.key}
             /\ excused' = IF Task.key[1] = Local /\ store[Task.key] # 0
                           THEN excused \cup {Task.key} ELSE excused
        ELSE /\ UNCHANGED <<list, told>>
             /\ excused' = IF Listed(Task.key) = {} THEN excused ELSE excused \cup {Task.key}
  BY DEF OnDistributedDelete
<1>3. Task \in Waiting /\ tasks' \in Seq(Waiting)
  BY TaskIs
<1>4. /\ Listed(Task.key) = Of(list, Task.key)
      /\ Listed(Task.key) # {} => first \in Of(list, Task.key)
  BY ListedIs DEF TypeOK
<1> HIDE DEF first
<1>5. CASE Listed(Task.key) # {} /\ (Task.key[1] = Local => known)
  <2>1. /\ list' = RemoveAt(list, first) /\ told' = told \ {Task.key}
        /\ excused' = IF Task.key[1] = Local /\ store[Task.key] # 0
                      THEN excused \cup {Task.key} ELSE excused
        /\ first \in Of(list, Task.key)
    BY <1>2, <1>4, <1>5
  <2>2. Thinned(list, list', {first})
    <3>1. first \in 1 .. Len(list) /\ list \in Seq(Records)
      BY <2>1 DEF Of, TypeOK
    <3> QED BY <2>1, <3>1, RemovedIsThinned
  <2>3. TypeOK'
    BY <1>1, <1>3, <2>2 DEF TypeOK, Thinned
  <2>4. ASSUME NEW key \in Keys \ excused'
        PROVE  InStep(key)'
    <3>1. key \in Keys \ excused /\ InStep(key)
      BY <2>1, <2>4 DEF AllInStep
    <3>2. CASE key # Task.key
      <4>1. Of(list, key) \cap {first} = {}
        BY <2>1, <3>2 DEF Of
      <4>2. Kept(list, list', key) /\ (key \in told' <=> key \in told)
        BY <2>1, <2>2, <3>2, <4>1, ThinnedKeeps
      <4>3. \A a, c : Changes(key, Task, a, c) => c = a
        BY <3>2, CalmChanges
      <4> QED BY <1>1, <3>1, <4>2, <4>3, UntoldStays
    <3>3. CASE key = Task.key
      <4>1. RecordsOf(list', key) = {} /\ Single(list', key) /\ key \notin told'
        BY <2>1, <2>2, <3>1, <3>3, ThinnedLoses DEF InStep
      <4>2. key[1] = Local => Own(list', key, store[key])
        BY <2>1, <2>4, <3>3 DEF Own
      <4>3. \A a, c \in States : Changes(key, Task, a, c) => Held(list', key, c)
        BY <1>1, <3>3, <4>1 DEF Changes, Held
      <4> QED BY <1>1, <3>1, <4>1, <4>2, <4>3, TakenInStep
    <3> QED BY <3>2, <3>3
  <2> QED BY <2>3, <2>4 DEF AllInStep
<1>6. CASE ~(Listed(Task.key) # {} /\ (Task.key[1] = Local => known))
  <2>1. /\ UNCHANGED <<list, told>>
        /\ excused' = IF Listed(Task.key) = {} THEN excused ELSE excused \cup {Task.key}
    BY <1>2, <1>6
  <2>2. TypeOK'
    BY <1>1, <1>3, <2>1 DEF TypeOK
  <2>3. ASSUME NEW key \in Keys \ excused'
        PROVE  InStep(key)'
    <3>1. key \in Keys \ excused /\ InStep(key)
      BY <2>1, <2>3 DEF AllInStep
    <3>2. Kept(list, list', key) /\ (key \in told' <=> key \in told)
      BY <2>1 DEF Kept
    <3>3. ASSUME NEW a, NEW c, Held(list, key, a), Changes(key, Task, a, c)
          PROVE  c = a
      <4>1. CASE key # Task.key
        BY <3>3, <4>1, CalmChanges
      <4>2. CASE key = Task.key
        <5>1. Of(list, key) = {}
          BY <1>4, <2>1, <2>3, <4>2
        <5>2. a = 0
          BY <3>3, <5>1 DEF Held, RecordsOf
        <5>3. c = 0
          BY <1>1, <3>3, <4>2 DEF Changes
        <5> QED BY <5>2, <5>3
      <4> QED BY <4>1, <4>2
    <3> QED BY <1>1, <3>1, <3>2, <3>3, UntoldStays
  <2> QED BY <2>2, <2>3 DEF AllInStep
<1> QED BY <1>5, <1>6

LEMMA RecreatedInStep ==
  ASSUME Recreated
  PROVE  store' \in [Keys -> States] /\ AllInStep'
BY ZeroIsState DEF Recreated, AllInStep

LEMMA ServiceInStep ==
  ASSUME TypeOK, AllInStep, ServiceHandles
  PROVE  TypeOK' /\ AllInStep'
<1>1. tasks # <<>> /\ tasks' = Tail(tasks) /\ UNCHANGED <<events, online>>
  BY DEF ServiceHandles
<1>2. CASE OnDistributedKvStoreDeathRecipient
  <2>1. Recreated /\ list' = list
    BY <1>2 DEF OnDistributedKvStoreDeathRecipient
  <2> QED BY <1>1, <2>1, RecreatedInStep, TaskIs DEF TypeOK
<1> QED
  BY <1>1, <1>2, PublishedInStep, UpdatedInStep, DeletedInStep DEF ServiceHandles

----------------------------------------------------------------------------
(* Starts, and the theorems.                                                   *)

LEMMA EmptyInStep ==
  ASSUME store = [key \in Keys |-> 0], list = <<>>, events = <<>>, tasks = <<>>,
         online \subseteq Remotes, told = {}
  PROVE  TypeOK /\ AllInStep
<1>1. <<>> \in Seq(Waiting) /\ <<>> \in Seq(Records) /\ Len(<<>>) = 0
  BY EmptySeq
<1>2. TypeOK
  BY <1>1, ZeroIsState DEF TypeOK
<1>3. ASSUME NEW key \in Keys \ excused
      PROVE  InStep(key)
  <2>1. Of(list, key) = {} /\ RecordsOf(list, key) = {}
    BY <1>1 DEF Of, RecordsOf
  <2>2. Held(list, key, 0) /\ Path(key, <<>>, 0, 0) /\ store[key] = 0
    BY <2>1, PathOfNone, ZeroIsState DEF Held
  <2>3. OnTheWay(key)
    BY <2>2, ZeroIsState DEF OnTheWay
  <2>4. LeavesLast(key[1])
    BY <1>1 DEF LeavesLast
  <2> QED BY <2>1, <2>2, <2>3, <2>4 DEF InStep, Single, Own
<1> QED BY <1>2, <1>3 DEF AllInStep

LEMMA NextInStep ==
  ASSUME TypeOK, AllInStep, [Next]_vars
  PROVE  TypeOK' /\ AllInStep'
<1>1. CASE Restart
  <2>1. /\ store' = [key \in Keys |-> 0] /\ list' = <<>> /\ events' = <<>> /\ tasks' = <<>>
        /\ told' = {} /\ online' = online
    BY <1>1 DEF Restart
  <2>2. online' \subseteq Remotes
    BY <2>1 DEF TypeOK
  <2>3. <<>> \in Seq(Waiting) /\ <<>> \in Seq(Records) /\ Len(<<>>) = 0
    BY EmptySeq
  <2>4. TypeOK'
    BY <2>1, <2>2, <2>3, ZeroIsState DEF TypeOK
  <2>5. ASSUME NEW key \in Keys \ excused'
        PROVE  InStep(key)'
    <3>1. RecordsOf(list', key) = {} /\ Single(list', key) /\ store'[key] = 0
      BY <2>1, <2>3 DEF Of, RecordsOf, Single
    <3>2. Held(list', key, 0) /\ Path(key, <<>>, 0, 0)
      BY <3>1, PathOfNone, ZeroIsState DEF Held
    <3>3. OnTheWay(key)'
      BY <2>1, <3>1, <3>2, ZeroIsState DEF OnTheWay
    <3>4. LeavesLast(key[1])'
      BY <2>1, <2>3 DEF LeavesLast
    <3> QED BY <2>1, <3>1, <3>3, <3>4 DEF InStep, Own, Shown
  <2> QED BY <2>4, <2>5 DEF AllInStep
<1>2. CASE UNCHANGED vars
  <2>1. UNCHANGED <<store, list, events, tasks, online, told, excused>>
    BY <1>2 DEF vars
  <2>2. TypeOK'
    BY <2>1 DEF TypeOK
  <2>3. \A key \in Keys \ excused' : InStep(key)'
    BY <2>1, UntouchedStays DEF AllInStep, Kept
  <2> QED BY <2>2, <2>3 DEF AllInStep
<1> QED
  BY <1>1, <1>2, AskInStep, ChangeInStep, ManagerInStep, ServiceInStep DEF Next

LEMMA AlwaysInStep == Spec => [](TypeOK /\ AllInStep)
<1>1. Init => TypeOK /\ AllInStep
  BY EmptyInStep DEF Init
<1>2. TypeOK /\ AllInStep /\ [Next]_vars => (TypeOK /\ AllInStep)'
  BY NextInStep
<1> QED BY <1>1, <1>2, PTL DEF Spec

(* What is listed, waits and is stored has its form: records of other devices  *)
(* are shared and may be shown here, and only other devices put and leave.     *)
THEOREM TypeCorrect == Spec => []TypeOK
BY AlwaysInStep, PTL

(* ToldIsListed, at every step and not only when the handlers are idle: the    *)
(* subscribers know of what is listed and of nothing else (OnDistributed-      *)
(* Publish, OnDistributedUpdate, OnDistributedDelete and what removes).        *)
THEOREM TellingFollowsList == Spec => []ToldIsListed
<1>1. TypeOK /\ AllInStep => ToldIsListed
  BY InStepIsTold
<1> QED BY <1>1, AlwaysInStep, PTL

(* StoreIsListed for any devices and notes and any number of changes in either *)
(* queue: nothing between the store and the list loses, repeats or reorders    *)
(* what is known of a notification, whatever the user removes and whichever    *)
(* device leaves meanwhile (OnDatabaseInsert to OnDistributedDelete,           *)
(* OnDeviceDisconnected).                                                      *)
THEOREM ListFollowsStore == Spec => []StoreIsListed
<1>1. TypeOK /\ AllInStep => StoreIsListed
  BY InStepIsListed
<1> QED BY <1>1, AlwaysInStep, PTL
=============================================================================
