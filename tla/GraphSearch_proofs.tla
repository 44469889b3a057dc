-------------------------- MODULE GraphSearch_proofs ---------------------------
(***************************************************************************)
(* What the Graph Query agent answers, over any finite graphs and with any *)
(* limits: a fused list respects the lists it is made of, and a traversal  *)
(* is the reach of its roots.                                              *)
(***************************************************************************)
EXTENDS GraphSearch, Subsequences_proofs, FiniteSetTheorems, FunctionTheorems

-----------------------------------------------------------------------------
(* Scores are fractions with a positive denominator, which Above orders.   *)
Fractions == Int \X (Nat \ {0})

LEMMA Scaled ==
    ASSUME NEW x \in Int, NEW y \in Int, NEW z \in Nat \ {0}
    PROVE  /\ x > y <=> x * z > y * z
           /\ x >= y <=> x * z >= y * z
  OBVIOUS

LEMMA Products ==
    ASSUME NEW x \in Int, NEW y \in Int, NEW z \in Int
    PROVE  /\ x * y \in Int /\ x * y = y * x
           /\ (x * y) * z = x * (y * z) /\ (x * y) * z = (x * z) * y
           /\ (x + y) * z = x * z + y * z
  OBVIOUS

LEMMA AboveOrders ==
    ASSUME NEW a \in Fractions, NEW b \in Fractions, NEW c \in Fractions
    PROVE  /\ Above(a, b) => ~Above(b, a)
           /\ Above(a, b) /\ ~Above(c, b) => Above(a, c)
           /\ ~Above(b, a) /\ Above(b, c) => Above(a, c)
  <1>1. /\ a[1] \in Int /\ b[1] \in Int /\ c[1] \in Int
        /\ a[2] \in Nat \ {0} /\ b[2] \in Nat \ {0} /\ c[2] \in Nat \ {0}
    BY DEF Fractions
  <1>2. ASSUME NEW p \in Int, NEW q \in Nat \ {0}, NEW r \in Int, NEW s \in Nat \ {0},
               NEW t \in Int, NEW u \in Nat \ {0}
        PROVE  /\ p * s > r * q /\ ~(t * s > r * u) => p * u > t * q
               /\ ~(r * q > p * s) /\ r * u > t * s => p * u > t * q
    <2>1. /\ p * s > r * q <=> (p * s) * u > (r * q) * u
          /\ r * u >= t * s <=> (r * u) * q >= (t * s) * q
          /\ r * u >= t * s => (r * u) * q >= (t * s) * q
          /\ r * u > t * s <=> (r * u) * q > (t * s) * q
          /\ p * s >= r * q <=> (p * s) * u >= (r * q) * u
          /\ p * u > t * q <=> (p * u) * s > (t * q) * s
      <3>1. p * s \in Int /\ r * q \in Int /\ r * u \in Int /\ t * s \in Int
            /\ p * u \in Int /\ t * q \in Int
        OBVIOUS
      <3> QED BY <3>1, Scaled
    <2>2. /\ (p * s) * u = (p * u) * s /\ (r * q) * u = (r * u) * q
          /\ (t * s) * q = (t * q) * s
      BY Products
    <2> DEFINE pus == (p * u) * s
               ruq == (r * u) * q
               tqs == (t * q) * s
    <2>3. /\ p * s > r * q <=> pus > ruq
          /\ r * u >= t * s <=> ruq >= tqs
          /\ r * u > t * s <=> ruq > tqs
          /\ p * s >= r * q <=> pus >= ruq
          /\ p * u > t * q <=> pus > tqs
      BY <2>1, <2>2, Zenon
    <2>4. pus \in Int /\ ruq \in Int /\ tqs \in Int
      OBVIOUS
    <2>5. /\ ~(t * s > r * u) => r * u >= t * s
          /\ ~(r * q > p * s) => p * s >= r * q
      OBVIOUS
    <2>6. /\ pus > ruq /\ ruq >= tqs => pus > tqs
          /\ pus >= ruq /\ ruq > tqs => pus > tqs
      <3> HIDE DEF pus, ruq, tqs
      <3> QED BY <2>4
    <2> HIDE DEF pus, ruq, tqs
    <2> QED BY <2>3, <2>5, <2>6, Zenon
  <1>3. Above(a, b) => ~Above(b, a)
    <2>1. a[1] * b[2] \in Int /\ b[1] * a[2] \in Int
      BY <1>1
    <2> QED BY <2>1 DEF Above
  <1> QED BY <1>1, <1>2, <1>3 DEF Above

(* Adding keeps the order: what is no less and once above stays above.     *)
LEMMA PlusOrders ==
    ASSUME NEW a \in Fractions, NEW b \in Fractions, NEW c \in Fractions, NEW d \in Fractions,
           ~Above(c, a), ~Above(d, b), Above(a, c) \/ Above(b, d)
    PROVE  Above(Plus(a, b), Plus(c, d))
  <1>1. ASSUME NEW p \in Int, NEW q \in Nat \ {0}, NEW r \in Int, NEW s \in Nat \ {0},
               NEW t \in Int, NEW u \in Nat \ {0}, NEW v \in Int, NEW w \in Nat \ {0},
               ~(t * q > p * u), ~(v * s > r * w), p * u > t * q \/ r * w > v * s
        PROVE  (p * s + r * q) * (u * w) > (t * w + v * u) * (q * s)
    <2> DEFINE x == (p * u) * (s * w)
               y == (r * w) * (q * u)
               x1 == (t * q) * (s * w)
               y1 == (v * s) * (q * u)
    <2>1. s * w \in Nat \ {0} /\ q * u \in Nat \ {0}
      OBVIOUS
    <2>2. /\ p * u \in Int /\ t * q \in Int /\ r * w \in Int /\ v * s \in Int
          /\ x \in Int /\ y \in Int /\ x1 \in Int /\ y1 \in Int
      OBVIOUS
    <2>3. /\ p * u >= t * q => x >= x1
          /\ p * u > t * q => x > x1
          /\ r * w >= v * s => y >= y1
          /\ r * w > v * s => y > y1
      BY <2>1, <2>2, Scaled
    <2>4. p * u >= t * q /\ r * w >= v * s
      BY <1>1, <2>2
    <2>5. x + y > x1 + y1
      <3> HIDE DEF x, y, x1, y1
      <3>1. x >= x1 /\ y >= y1 /\ (x > x1 \/ y > y1)
        BY <1>1, <2>3, <2>4, Zenon
      <3> QED BY <2>2, <3>1
    <2>6. (p * s + r * q) * (u * w) = x + y
      OBVIOUS
    <2>7. (t * w + v * u) * (q * s) = x1 + y1
      OBVIOUS
    <2> QED BY <2>5, <2>6, <2>7
  <1>2. /\ a[1] \in Int /\ b[1] \in Int /\ c[1] \in Int /\ d[1] \in Int
        /\ a[2] \in Nat \ {0} /\ b[2] \in Nat \ {0} /\ c[2] \in Nat \ {0} /\ d[2] \in Nat \ {0}
    BY DEF Fractions
  <1> QED BY <1>1, <1>2 DEF Above, Plus

LEMMA PlusIsFraction ==
    ASSUME NEW a \in Fractions, NEW b \in Fractions
    PROVE  Plus(a, b) \in Fractions
  <1>1. /\ a[1] \in Int /\ b[1] \in Int /\ a[2] \in Nat \ {0} /\ b[2] \in Nat \ {0}
    BY DEF Fractions
  <1>2. ASSUME NEW p \in Int, NEW q \in Nat \ {0}, NEW r \in Int, NEW s \in Nat \ {0}
        PROVE  p * s + r * q \in Int /\ q * s \in Nat \ {0}
    OBVIOUS
  <1> QED BY <1>1, <1>2 DEF Fractions, Plus

-----------------------------------------------------------------------------
(* g takes the places of an ordered list to those of the given one.        *)
Orders(g, n, score) ==
    /\ g \in [1 .. n -> 1 .. n]
    /\ \A k, l \in 1 .. n : g[k] = g[l] => k = l
    /\ \A i \in 1 .. n : \E k \in 1 .. n : g[k] = i
    /\ \A k, l \in 1 .. n : Above(score[g[k]], score[g[l]]) => k < l

(* Sorting is a permutation that puts higher scores first: the elements    *)
(* before one another are strictly fewer, so no two share a place, and     *)
(* every place is taken.                                                   *)
LEMMA SortedOrders ==
    ASSUME NEW list, IsList(list), NEW score, \A i \in 1 .. Len(list) : score[i] \in Fractions
    PROVE  \E g : /\ Orders(g, Len(list), score)
                  /\ Sorted(list, score) = [k \in 1 .. Len(list) |-> list[g[k]]]
  <1> DEFINE n == Len(list)
             before(i, j) == \/ Above(score[i], score[j])
                             \/ ~Above(score[j], score[i]) /\ i < j
             P(i) == {j \in 1 .. n : j # i /\ before(j, i)}
             place(i) == Cardinality(P(i)) + 1
             g == [k \in 1 .. n |-> CHOOSE i \in 1 .. n : place(i) = k]
             h == [i \in 1 .. n |-> place(i)]
  <1>1. n \in Nat /\ DOMAIN list = 1 .. n
    BY DEF IsList
  <1>2. Sorted(list, score) = [k \in 1 .. n |-> list[g[k]]]
    BY <1>1 DEF Sorted
  <1>3. \A i, j \in 1 .. n : i # j => before(i, j) \/ before(j, i)
    BY <1>1
  <1>4. \A i, j \in 1 .. n : before(i, j) => ~before(j, i)
    BY <1>1, AboveOrders
  <1>5. \A i, j, k \in 1 .. n : before(i, j) /\ before(j, k) => before(i, k)
    <2> TAKE i, j, k \in 1 .. n
    <2>1. score[i] \in Fractions /\ score[j] \in Fractions /\ score[k] \in Fractions
      OBVIOUS
    <2> DEFINE u == score[i]
               v == score[j]
               w == score[k]
    <2>2. /\ Above(u, v) => ~Above(v, u)
          /\ Above(v, w) => ~Above(w, v)
          /\ Above(u, v) /\ ~Above(w, v) => Above(u, w)
          /\ ~Above(v, u) /\ Above(v, w) => Above(u, w)
          /\ Above(w, u) /\ ~Above(v, u) => Above(w, v)
      BY <2>1, AboveOrders
    <2>3. i < j /\ j < k => i < k
      BY <1>1
    <2> HIDE DEF n
    <2> QED BY <2>2, <2>3, Zenon
  <1>6. \A i \in 1 .. n : IsFiniteSet(P(i)) /\ place(i) \in 1 .. n
    <2> TAKE i \in 1 .. n
    <2>1. IsFiniteSet(1 .. n) /\ Cardinality(1 .. n) = n
      <3> HIDE DEF n
      <3> QED BY <1>1, FS_Interval
    <2>2. IsFiniteSet((1 .. n) \ {i}) /\ Cardinality((1 .. n) \ {i}) = n - 1
      <3> HIDE DEF n
      <3> QED BY <2>1, FS_RemoveElement
    <2>3. P(i) \in SUBSET ((1 .. n) \ {i})
      OBVIOUS
    <2> HIDE DEF P
    <2>4. IsFiniteSet(P(i)) /\ Cardinality(P(i)) <= n - 1
      BY <2>2, <2>3, FS_Subset
    <2>5. Cardinality(P(i)) \in Nat
      BY <2>4, FS_CardinalityType
    <2> HIDE DEF n
    <2> QED BY <1>1, <2>4, <2>5
  <1>7. \A i, j \in 1 .. n : before(i, j) => place(i) < place(j)
    <2> TAKE i, j \in 1 .. n
    <2> HAVE before(i, j)
    <2>1. P(i) \in SUBSET P(j) /\ i \in P(j) /\ i \notin P(i)
      <3>1. i # j
        BY <1>4
      <3>2. ASSUME NEW k \in P(i)
            PROVE  k \in P(j)
        <4>1. k \in 1 .. n /\ k # i /\ before(k, i)
          OBVIOUS
        <4> HIDE DEF before
        <4>2. before(k, j) /\ ~before(j, i)
          BY <1>4, <1>5, <4>1
        <4> QED BY <4>1, <4>2
      <3> HIDE DEF before
      <3> QED BY <3>1, <3>2
    <2>2. IsFiniteSet(P(j)) /\ IsFiniteSet(P(i))
      BY <1>6
    <2> HIDE DEF P
    <2>3. Cardinality(P(i)) <= Cardinality(P(j)) /\ Cardinality(P(i)) # Cardinality(P(j))
      BY <2>1, <2>2, FS_Subset
    <2>4. Cardinality(P(i)) \in Nat /\ Cardinality(P(j)) \in Nat
      BY <2>2, FS_CardinalityType
    <2> QED BY <2>3, <2>4
  <1> HIDE DEF before
  <1>8. h \in Injection(1 .. n, 1 .. n)
    <2> HIDE DEF place
    <2>1. h \in [1 .. n -> 1 .. n]
      BY <1>6
    <2>2. \A i, j \in 1 .. n : h[i] = h[j] => i = j
      <3> SUFFICES ASSUME NEW i \in 1 .. n, NEW j \in 1 .. n, place(i) = place(j), i # j
                   PROVE  FALSE
        OBVIOUS
      <3>1. place(i) < place(j) \/ place(j) < place(i)
        BY <1>3, <1>7
      <3>2. place(i) \in 1 .. n /\ place(j) \in 1 .. n
        BY <1>6
      <3> QED BY <1>1, <3>1, <3>2
    <2> HIDE DEF h, n
    <2> QED BY <2>1, <2>2, Fun_IsInj
  <1>9. h \in Surjection(1 .. n, 1 .. n)
    <2> HIDE DEF h
    <2>1. IsFiniteSet(1 .. n)
      BY <1>1, FS_Interval
    <2> QED BY <1>8, <2>1, FS_Injection
  <1> HIDE DEF place
  <1>10. \A k \in 1 .. n : g[k] \in 1 .. n /\ place(g[k]) = k
    <2>1. \A k \in 1 .. n : \E i \in 1 .. n : place(i) = k
      <3>1. \A k \in 1 .. n : \E i \in 1 .. n : h[i] = k
        <4> HIDE DEF h
        <4> QED BY <1>9 DEF Surjection
      <3> QED BY <3>1
    <2> QED BY <2>1
  <1>11. \A i, j \in 1 .. n : place(i) = place(j) => i = j
    <2>1. \A i, j \in 1 .. n : h[i] = h[j] => i = j
      <3> HIDE DEF h
      <3> QED BY <1>8 DEF Injection, IsInjective
    <2> QED BY <2>1
  <1>12. Orders(g, n, score)
    <2>1. g \in [1 .. n -> 1 .. n]
      BY <1>10
    <2> HIDE DEF g
    <2>2. \A k, l \in 1 .. n : g[k] = g[l] => k = l
      BY <1>10
    <2>3. \A i \in 1 .. n : \E k \in 1 .. n : g[k] = i
      <3> TAKE i \in 1 .. n
      <3>1. place(i) \in 1 .. n
        BY <1>6 DEF place
      <3>2. g[place(i)] = i
        BY <1>10, <1>11, <3>1
      <3> QED BY <3>1, <3>2
    <2>4. \A k, l \in 1 .. n : Above(score[g[k]], score[g[l]]) => k < l
      <3> TAKE k, l \in 1 .. n
      <3> HAVE Above(score[g[k]], score[g[l]])
      <3>1. before(g[k], g[l])
        BY DEF before
      <3>2. place(g[k]) < place(g[l])
        BY <1>7, <1>10, <3>1 DEF place
      <3> QED BY <1>10, <3>2
    <2> QED BY <2>1, <2>2, <2>3, <2>4 DEF Orders
  <1> QED BY <1>2, <1>12

LEMMA ClippedKeeps ==
    ASSUME NEW list, IsList(list), NEW limit \in Nat
    PROVE  \E m \in 0 .. Len(list) :
               /\ m = Len(list) \/ m = limit
               /\ Len(Clipped(list, limit)) = m
               /\ Clipped(list, limit) = [k \in 1 .. m |-> list[k]]
  <1> DEFINE m == IF Len(list) < limit THEN Len(list) ELSE limit
             S == {list[k] : k \in 1 .. Len(list)}
  <1>1. list \in Seq(S) /\ Len(list) \in Nat
    BY IsASeq DEF IsList
  <1>2. m \in 0 .. Len(list) /\ (m = Len(list) \/ m = limit)
    BY <1>1
  <1> HIDE DEF m, S
  <1>3. /\ Len(SubSeq(list, 1, m)) = m
        /\ SubSeq(list, 1, m) = [k \in 1 .. m |-> list[k]]
    BY <1>1, <1>2
  <1>4. Clipped(list, limit) = SubSeq(list, 1, m)
    BY DEF Clipped, m
  <1> QED BY <1>2, <1>3, <1>4

(* A list with an ID in one place only.                                    *)
DistinctIds(list) == \A i, j \in 1 .. Len(list) : list[i].id = list[j].id => i = j

(* A rank no worse gives a share no smaller.                               *)
LEMMA ShareOrders ==
    ASSUME NEW list, IsList(list), DistinctIds(list), NEW a, NEW b
    PROVE  /\ Share(list, a) \in Fractions
           /\ NoWorse(list, a, b) => ~Above(Share(list, b), Share(list, a))
           /\ ~NoWorse(list, b, a) => Above(Share(list, a), Share(list, b))
  <1>1. ASSUME NEW id
        PROVE  \/ Ranks(list, id) = {} /\ Share(list, id) = <<0, 1>>
               \/ \E i \in Nat \ {0} : Ranks(list, id) = {i} /\ Share(list, id) = <<1, 60 + i>>
    <2>1. CASE Ranks(list, id) = {}
      BY <2>1 DEF Share
    <2>2. CASE Ranks(list, id) # {}
      <3>1. PICK i \in 1 .. Len(list) : i \in Ranks(list, id)
        BY <2>2 DEF Ranks, IsList
      <3>2. Ranks(list, id) = {i} /\ i \in Nat \ {0}
        <4>1. DOMAIN list = 1 .. Len(list) /\ Len(list) \in Nat
          BY DEF IsList
        <4>2. \A j \in Ranks(list, id) : j = i
          BY <3>1, <4>1 DEF Ranks, DistinctIds
        <4>3. Ranks(list, id) = {i}
          BY <3>1, <4>2
        <4> QED BY <3>1, <4>1, <4>3
      <3>3. (CHOOSE rank \in Ranks(list, id) : TRUE) = i
        BY <3>2
      <3> QED BY <2>2, <3>2, <3>3 DEF Share, RankConstant
    <2> QED BY <2>1, <2>2
  <1>2. ASSUME NEW i \in Nat \ {0}
        PROVE  /\ <<1, 60 + i>> \in Fractions /\ <<0, 1>> \in Fractions
               /\ Above(<<1, 60 + i>>, <<0, 1>>) /\ ~Above(<<0, 1>>, <<1, 60 + i>>)
               /\ ~Above(<<0, 1>>, <<0, 1>>)
    BY DEF Fractions, Above
  <1>3. ASSUME NEW i \in Nat \ {0}, NEW j \in Nat \ {0}
        PROVE  Above(<<1, 60 + i>>, <<1, 60 + j>>) <=> j > i
    BY DEF Above
  <1>4. CASE Ranks(list, a) = {} /\ Share(list, a) = <<0, 1>>
    <2>1. NoWorse(list, b, a) /\ (NoWorse(list, a, b) => Ranks(list, b) = {})
      BY <1>4 DEF NoWorse
    <2>2. <<0, 1>> \in Fractions /\ ~Above(<<0, 1>>, <<0, 1>>)
      BY DEF Fractions, Above
    <2> QED BY <1>1, <1>4, <2>1, <2>2
  <1>5. ASSUME NEW i \in Nat \ {0}, Ranks(list, a) = {i} /\ Share(list, a) = <<1, 60 + i>>
        PROVE  /\ Share(list, a) \in Fractions
               /\ NoWorse(list, a, b) => ~Above(Share(list, b), Share(list, a))
               /\ ~NoWorse(list, b, a) => Above(Share(list, a), Share(list, b))
    <2>1. CASE Ranks(list, b) = {} /\ Share(list, b) = <<0, 1>>
      BY <1>2, <1>5, <2>1
    <2>2. ASSUME NEW j \in Nat \ {0}, Ranks(list, b) = {j} /\ Share(list, b) = <<1, 60 + j>>
          PROVE  /\ NoWorse(list, a, b) => ~Above(Share(list, b), Share(list, a))
                 /\ ~NoWorse(list, b, a) => Above(Share(list, a), Share(list, b))
      <3>1. (NoWorse(list, a, b) <=> i <= j) /\ (NoWorse(list, b, a) <=> j <= i)
        BY <1>5, <2>2 DEF NoWorse
      <3> QED BY <1>3, <1>5, <2>2, <3>1
    <2>3. Share(list, a) \in Fractions
      BY <1>2, <1>5
    <2> QED BY <1>1, <2>1, <2>2, <2>3
  <1> QED BY <1>1, <1>4, <1>5

(* What is better in both lists, or in one and not worse in the other, has *)
(* the higher score.                                                       *)
LEMMA FusedOrders ==
    ASSUME NEW exact, IsList(exact), DistinctIds(exact),
           NEW semantic, IsList(semantic), DistinctIds(semantic), NEW a, NEW b
    PROVE  /\ Fused(exact, semantic, a) \in Fractions
           /\ /\ NoWorse(exact, a, b) /\ NoWorse(semantic, a, b)
              /\ ~(NoWorse(exact, b, a) /\ NoWorse(semantic, b, a))
              => Above(Fused(exact, semantic, a), Fused(exact, semantic, b))
  <1> DEFINE ea == Share(exact, a)
             eb == Share(exact, b)
             sa == Share(semantic, a)
             sb == Share(semantic, b)
  <1>1. ea \in Fractions /\ eb \in Fractions /\ sa \in Fractions /\ sb \in Fractions
    BY ShareOrders
  <1>2. /\ NoWorse(exact, a, b) => ~Above(eb, ea)
        /\ NoWorse(semantic, a, b) => ~Above(sb, sa)
        /\ ~NoWorse(exact, b, a) => Above(ea, eb)
        /\ ~NoWorse(semantic, b, a) => Above(sa, sb)
    BY ShareOrders
  <1>3. Fused(exact, semantic, a) = Plus(ea, sa) /\ Fused(exact, semantic, b) = Plus(eb, sb)
    BY DEF Fused
  <1> HIDE DEF ea, eb, sa, sb
  <1> QED BY <1>1, <1>2, <1>3, PlusIsFraction, PlusOrders

(* The IDs of what is ours in the two lists.                               *)
OurIds(exact, semantic) == {h.id : h \in {h \in ToSet(exact \o semantic) : h.ours}}

LEMMA OurIdsAre ==
    ASSUME NEW exact, IsList(exact), NEW semantic, IsList(semantic), NEW id
    PROVE  id \in OurIds(exact, semantic) <=>
               \/ \E i \in 1 .. Len(exact) : exact[i].ours /\ exact[i].id = id
               \/ \E i \in 1 .. Len(semantic) : semantic[i].ours /\ semantic[i].id = id
  <1> DEFINE both == exact \o semantic
             p == Len(exact)
             q == Len(semantic)
  <1>1. p \in Nat /\ q \in Nat
    BY DEF IsList
  <1>2. /\ Len(both) = p + q /\ DOMAIN both = 1 .. p + q
        /\ \A i \in 1 .. p : both[i] = exact[i]
        /\ \A i \in 1 .. q : both[p + i] = semantic[i]
    <2> DEFINE S == {exact[i] : i \in 1 .. p} \cup {semantic[i] : i \in 1 .. q}
    <2>1. exact \in Seq(S) /\ semantic \in Seq(S)
      BY IsASeq DEF IsList
    <2> HIDE DEF S
    <2> QED BY <2>1, ConcatProperties
  <1>3. \A i \in 1 .. p + q : i \in 1 .. p \/ \E j \in 1 .. q : i = p + j
    <2> TAKE i \in 1 .. p + q
    <2>1. i \notin 1 .. p => i - p \in 1 .. q /\ i = p + (i - p)
      BY <1>1
    <2> QED BY <2>1
  <1>4. \A i \in 1 .. p : i \in 1 .. p + q
    BY <1>1
  <1>5. \A i \in 1 .. q : p + i \in 1 .. p + q
    BY <1>1
  <1>6. id \in OurIds(exact, semantic) <=> \E i \in 1 .. p + q : both[i].ours /\ both[i].id = id
    BY <1>2 DEF OurIds, ToSet
  <1> HIDE DEF both, p, q
  <1>7. ASSUME NEW i \in 1 .. p + q, both[i].ours /\ both[i].id = id
        PROVE  \/ \E j \in 1 .. p : exact[j].ours /\ exact[j].id = id
               \/ \E j \in 1 .. q : semantic[j].ours /\ semantic[j].id = id
    BY <1>2, <1>3, <1>7
  <1>8. ASSUME NEW j \in 1 .. p, exact[j].ours /\ exact[j].id = id
        PROVE  \E i \in 1 .. p + q : both[i].ours /\ both[i].id = id
    BY <1>2, <1>4, <1>8
  <1>9. ASSUME NEW j \in 1 .. q, semantic[j].ours /\ semantic[j].id = id
        PROVE  \E i \in 1 .. p + q : both[i].ours /\ both[i].id = id
    BY <1>2, <1>5, <1>9
  <1> QED BY <1>6, <1>7, <1>8, <1>9 DEF p, q

(* What is ranked: every ID that is ours, once, with its score.            *)
Ranked(results, exact, semantic) ==
    /\ IsList(results) /\ DistinctIds(results)
    /\ \A k \in 1 .. Len(results) :
           /\ results[k].id \in OurIds(exact, semantic)
           /\ results[k].score = Fused(exact, semantic, results[k].id)
    /\ \A id \in OurIds(exact, semantic) : \E k \in 1 .. Len(results) : results[k].id = id

LEMMA SearchRanks ==
    ASSUME NEW exact, IsList(exact), DistinctIds(exact),
           NEW semantic, IsList(semantic), DistinctIds(semantic),
           \A i \in 1 .. Len(semantic) : semantic[i].ours,
           NEW limit
    PROVE  \E results :
               /\ Ranked(results, exact, semantic)
               /\ HybridSearch(exact, semantic, limit) =
                  Clipped(Sorted(results, [i \in 1 .. Len(results) |-> results[i].score]), limit)
  <1> DEFINE result(h) == [id |-> h.id, score |-> Fused(exact, semantic, h.id)]
             ours == Subsequence(exact, {i \in DOMAIN exact : exact[i].ours})
             known == {h.id : h \in ToSet(ours)}
             kept == {i \in DOMAIN semantic : semantic[i].id \notin known}
             fresh == Subsequence(semantic, kept)
             r1 == [i \in DOMAIN ours |-> result(ours[i])]
             r2 == [i \in DOMAIN fresh |-> result(fresh[i])]
             results == r1 \o r2
             p == Len(ours)
             q == Len(fresh)
  <1>1. /\ DOMAIN exact = 1 .. Len(exact) /\ Len(exact) \in Nat
        /\ DOMAIN semantic = 1 .. Len(semantic) /\ Len(semantic) \in Nat
    BY DEF IsList
  <1>2. PICK g1 : Embeds(g1, ours, exact, {i \in DOMAIN exact : exact[i].ours}, Len(exact))
    BY <1>1, SubsequenceEmbeds
  <1>3. PICK g2 : Embeds(g2, fresh, semantic, kept, Len(semantic))
    <2> HIDE DEF kept
    <2> QED BY <1>1, SubsequenceEmbeds
  <1>4. IsList(ours) /\ IsList(fresh)
    <2> HIDE DEF kept
    <2> QED BY KeptIsList
  <1>5. /\ p \in Nat /\ DOMAIN ours = 1 .. p
        /\ \A a \in 1 .. p : g1[a] \in 1 .. Len(exact) /\ ours[a] = exact[g1[a]]
        /\ \A a \in 1 .. p : exact[g1[a]].ours
        /\ \A i \in 1 .. Len(exact) : exact[i].ours => \E a \in 1 .. p : g1[a] = i
        /\ \A a, b \in 1 .. p : a < b => g1[a] < g1[b]
    <2> HIDE DEF ours
    <2> QED BY <1>1, <1>2 DEF Embeds
  <1>6. known = {ours[a].id : a \in 1 .. p}
    <2> HIDE DEF ours, p
    <2>1. ToSet(ours) = {ours[a] : a \in 1 .. p}
      BY <1>5 DEF ToSet
    <2> QED BY <2>1
  <1>7. /\ q \in Nat /\ DOMAIN fresh = 1 .. q
        /\ \A a \in 1 .. q : g2[a] \in 1 .. Len(semantic) /\ fresh[a] = semantic[g2[a]]
        /\ \A a \in 1 .. q : semantic[g2[a]].id \notin known
        /\ \A i \in 1 .. Len(semantic) : semantic[i].id \notin known => \E a \in 1 .. q : g2[a] = i
        /\ \A a, b \in 1 .. q : a < b => g2[a] < g2[b]
    <2> HIDE DEF known, fresh
    <2> QED BY <1>1, <1>3 DEF Embeds
  <1> HIDE DEF known, ours, fresh, kept
  <1>8. /\ IsList(results) /\ Len(results) = p + q
        /\ \A a \in 1 .. p : results[a] = result(ours[a])
        /\ \A a \in 1 .. q : results[p + a] = result(fresh[a])
    <2>1. IsList(r1) /\ Len(r1) = p /\ IsList(r2) /\ Len(r2) = q
      <3>1. /\ r1 = [i \in DOMAIN ours |-> r1[i]]
            /\ r2 = [i \in DOMAIN fresh |-> r2[i]]
        OBVIOUS
      <3> HIDE DEF r1, r2
      <3> QED BY <1>4, <3>1, Mapped
    <2>2. /\ \A a \in 1 .. p : r1[a] = result(ours[a])
          /\ \A a \in 1 .. q : r2[a] = result(fresh[a])
      BY <1>5, <1>7
    <2> HIDE DEF r1, r2, result
    <2> DEFINE S == {r1[i] : i \in 1 .. p} \cup {r2[i] : i \in 1 .. q}
    <2>3. r1 \in Seq(S) /\ r2 \in Seq(S)
      <3>1. r1 \in [1 .. p -> S] /\ r2 \in [1 .. q -> S]
        BY <2>1 DEF IsList, S
      <3> HIDE DEF S, p, q
      <3> QED BY <1>5, <1>7, <3>1, IsASeq
    <2> HIDE DEF S, p, q
    <2>4. IsList(results) /\ Len(results) = p + q
      BY <2>1, ConcatIsList
    <2>5. /\ \A a \in 1 .. p : results[a] = r1[a]
          /\ \A a \in 1 .. q : results[p + a] = r2[a]
      <3>1. \A i \in 1 .. Len(r1) + Len(r2) :
                results[i] = IF i <= Len(r1) THEN r1[i] ELSE r2[i - Len(r1)]
        BY <2>3, ConcatProperties
      <3>2. \A i \in 1 .. p + q : results[i] = IF i <= p THEN r1[i] ELSE r2[i - p]
        BY <2>1, <3>1
      <3> HIDE DEF results
      <3>3. ASSUME NEW a \in 1 .. p
            PROVE  results[a] = r1[a]
        <4>1. a \in 1 .. p + q /\ a <= p
          BY <1>5, <1>7
        <4> QED BY <3>2, <4>1
      <3>4. ASSUME NEW a \in 1 .. q
            PROVE  results[p + a] = r2[a]
        <4>1. p + a \in 1 .. p + q /\ ~(p + a <= p) /\ (p + a) - p = a
          BY <1>5, <1>7
        <4> QED BY <3>2, <4>1
      <3> QED BY <3>3, <3>4
    <2> QED BY <2>2, <2>4, <2>5
  <1> HIDE DEF r1, r2, results
  <1>9. \A k \in 1 .. p + q : \/ k \in 1 .. p /\ results[k] = result(exact[g1[k]])
                              \/ \E a \in 1 .. q : k = p + a /\ results[k] = result(semantic[g2[a]])
    <2> TAKE k \in 1 .. p + q
    <2> HIDE DEF p, q, result
    <2>1. k \notin 1 .. p => k - p \in 1 .. q /\ k = p + (k - p)
      BY <1>5, <1>7
    <2>2. CASE k \in 1 .. p
      <3>1. results[k] = result(ours[k]) /\ ours[k] = exact[g1[k]]
        BY <1>5, <1>8, <2>2
      <3> QED BY <2>2, <3>1
    <2>3. ASSUME NEW a \in 1 .. q, k = p + a
          PROVE  results[k] = result(semantic[g2[a]])
      <3>1. results[p + a] = result(fresh[a]) /\ fresh[a] = semantic[g2[a]]
        BY <1>7, <1>8
      <3> QED BY <2>3, <3>1
    <2> QED BY <2>1, <2>2, <2>3
  <1>10. \A i, j \in 1 .. p : exact[g1[i]].id = exact[g1[j]].id => i = j
    <2> TAKE i, j \in 1 .. p
    <2> HAVE exact[g1[i]].id = exact[g1[j]].id
    <2>1. g1[i] = g1[j] /\ g1[i] \in Nat
      BY <1>1, <1>5 DEF DistinctIds
    <2> HIDE DEF p
    <2>2. ~(i < j) /\ ~(j < i)
      BY <1>5, <2>1
    <2> QED BY <1>5, <2>2
  <1>11. \A i, j \in 1 .. q : semantic[g2[i]].id = semantic[g2[j]].id => i = j
    <2> TAKE i, j \in 1 .. q
    <2> HAVE semantic[g2[i]].id = semantic[g2[j]].id
    <2> HIDE DEF q
    <2>1. g2[i] = g2[j] /\ g2[i] \in Nat
      BY <1>1, <1>7 DEF DistinctIds
    <2>2. ~(i < j) /\ ~(j < i)
      BY <1>7, <2>1
    <2> QED BY <1>7, <2>2
  <1>12. \A i \in 1 .. p, a \in 1 .. q : exact[g1[i]].id # semantic[g2[a]].id
    BY <1>5, <1>6, <1>7
  <1>13. DistinctIds(results)
    <2> HIDE DEF p, q
    <2>1. \A k \in 1 .. p + q :
             \/ k \in 1 .. p /\ results[k].id = exact[g1[k]].id
             \/ \E a \in 1 .. q : k = p + a /\ results[k].id = semantic[g2[a]].id
      <3> TAKE k \in 1 .. p + q
      <3>1. ASSUME NEW h, results[k] = result(h)
            PROVE  results[k].id = h.id
        BY <3>1
      <3> HIDE DEF result
      <3> QED BY <1>9, <3>1
    <2>2. ASSUME NEW k \in 1 .. p + q, NEW l \in 1 .. p + q, results[k].id = results[l].id
          PROVE  k = l
      BY <1>10, <1>11, <1>12, <2>1, <2>2
    <2> QED BY <1>8, <2>2 DEF DistinctIds
  <1>14. ASSUME NEW k \in 1 .. p + q
         PROVE  /\ results[k].id \in OurIds(exact, semantic)
                /\ results[k].score = Fused(exact, semantic, results[k].id)
    <2>1. CASE k \in 1 .. p /\ results[k] = result(exact[g1[k]])
      <3>1. g1[k] \in 1 .. Len(exact) /\ exact[g1[k]].ours
        BY <1>5, <2>1
      <3>2. exact[g1[k]].id \in OurIds(exact, semantic)
        BY <3>1, OurIdsAre
      <3> QED BY <2>1, <3>2
    <2>2. ASSUME NEW a \in 1 .. q, k = p + a /\ results[k] = result(semantic[g2[a]])
          PROVE  /\ results[k].id \in OurIds(exact, semantic)
                 /\ results[k].score = Fused(exact, semantic, results[k].id)
      <3>1. g2[a] \in 1 .. Len(semantic) /\ semantic[g2[a]].ours
        BY <1>7, <2>2
      <3>2. semantic[g2[a]].id \in OurIds(exact, semantic)
        BY <3>1, OurIdsAre
      <3> QED BY <2>2, <3>2
    <2> QED BY <1>9, <2>1, <2>2
  <1>15. ASSUME NEW id \in OurIds(exact, semantic)
         PROVE  \E k \in 1 .. p + q : results[k].id = id
    <2>1. ASSUME NEW a \in 1 .. p, ours[a].id = id
          PROVE  \E k \in 1 .. p + q : results[k].id = id
      <3>1. a \in 1 .. p + q
        <4> HIDE DEF p, q
        <4> QED BY <1>5, <1>7
      <3>2. results[a] = result(ours[a])
        BY <1>8
      <3>3. results[a].id = id
        BY <2>1, <3>2
      <3> QED BY <3>1, <3>3
    <2>2. ASSUME NEW i \in 1 .. Len(exact), exact[i].ours /\ exact[i].id = id
          PROVE  \E k \in 1 .. p + q : results[k].id = id
      <3>1. PICK a \in 1 .. p : g1[a] = i
        BY <1>5, <2>2
      <3> QED BY <1>5, <2>1, <2>2, <3>1
    <2>3. ASSUME NEW i \in 1 .. Len(semantic), semantic[i].id = id
          PROVE  \E k \in 1 .. p + q : results[k].id = id
      <3>1. CASE id \in known
        BY <1>6, <2>1, <3>1
      <3>2. CASE id \notin known
        <4>1. PICK a \in 1 .. q : g2[a] = i
          BY <1>7, <2>3, <3>2
        <4>2. p + a \in 1 .. p + q
          <5> HIDE DEF p, q
          <5> QED BY <1>5, <1>7
        <4>3. results[p + a] = result(fresh[a]) /\ fresh[a] = semantic[i]
          BY <1>7, <1>8, <4>1
        <4>4. results[p + a].id = id
          BY <2>3, <4>3
        <4> QED BY <4>2, <4>4
      <3> QED BY <3>1, <3>2
    <2> QED BY <2>2, <2>3, OurIdsAre
  <1>16. Ranked(results, exact, semantic)
    BY <1>8, <1>13, <1>14, <1>15 DEF Ranked
  <1>17. DOMAIN results = 1 .. Len(results)
    BY <1>8 DEF IsList
  <1>18. HybridSearch(exact, semantic, limit) =
         Clipped(Sorted(results, [i \in DOMAIN results |-> results[i].score]), limit)
    BY DEF HybridSearch, results, r1, r2, fresh, kept, known, ours
  <1> QED BY <1>16, <1>17, <1>18

(* What FusionRespectsLists says of one answer.                            *)
Respects(hits, exact, semantic, limit) ==
    LET better(a, b) == /\ NoWorse(exact, a, b) /\ NoWorse(semantic, a, b)
                        /\ ~(NoWorse(exact, b, a) /\ NoWorse(semantic, b, a))
        ours == OurIds(exact, semantic)
        given == {h.id : h \in ToSet(hits)}
    IN /\ given \subseteq ours /\ Cardinality(given) = Len(hits)
       /\ given = ours \/ Len(hits) = limit
       /\ \A i \in DOMAIN hits : \A id \in ours :
            better(id, hits[i].id) => \E j \in 1..i : hits[j].id = id

(* The list is a cut of a permutation of the ranked results, in which no   *)
(* result stands behind one with a lower score.                            *)
LEMMA SearchRespectsLists ==
    ASSUME NEW exact, IsList(exact), DistinctIds(exact),
           NEW semantic, IsList(semantic), DistinctIds(semantic),
           \A i \in 1 .. Len(semantic) : semantic[i].ours,
           NEW limit \in Nat
    PROVE  Respects(HybridSearch(exact, semantic, limit), exact, semantic, limit)
  <1> DEFINE hits == HybridSearch(exact, semantic, limit)
             ours == OurIds(exact, semantic)
             fused(id) == Fused(exact, semantic, id)
  <1>1. PICK results :
            /\ Ranked(results, exact, semantic)
            /\ hits = Clipped(Sorted(results, [i \in 1 .. Len(results) |-> results[i].score]), limit)
    BY SearchRanks
  <1> DEFINE n == Len(results)
             score == [i \in 1 .. n |-> results[i].score]
  <1>2. /\ IsList(results) /\ n \in Nat
        /\ \A i \in 1 .. n : score[i] = fused(results[i].id) /\ results[i].id \in ours
        /\ \A id \in ours : \E i \in 1 .. n : results[i].id = id
        /\ \A i, j \in 1 .. n : results[i].id = results[j].id => i = j
    BY <1>1 DEF Ranked, IsList, DistinctIds
  <1>3. \A id : fused(id) \in Fractions
    BY FusedOrders
  <1> HIDE DEF score
  <1>4. PICK g : /\ Orders(g, n, score)
                 /\ Sorted(results, score) = [k \in 1 .. n |-> results[g[k]]]
    <2>1. \A i \in 1 .. n : score[i] \in Fractions
      BY <1>2, <1>3
    <2> QED BY <1>2, <2>1, SortedOrders
  <1> DEFINE sorted == [k \in 1 .. n |-> results[g[k]]]
  <1>5. IsList(sorted) /\ Len(sorted) = n
    <2> DEFINE S == {results[g[k]] : k \in 1 .. n}
    <2>1. sorted \in [1 .. n -> S]
      OBVIOUS
    <2> HIDE DEF sorted, S, n
    <2>2. sorted \in Seq(S) /\ Len(sorted) = n
      BY <1>2, <2>1, IsASeq
    <2> QED BY <2>2, SequencesAreLists
  <1>6. hits = Clipped(sorted, limit)
    BY <1>1, <1>4 DEF score
  <1>7. \A k \in 1 .. n : sorted[k] = results[g[k]]
    OBVIOUS
  <1> HIDE DEF sorted, hits, n
  <1>8. PICK m \in 0 .. n : /\ m = n \/ m = limit
                            /\ Len(hits) = m
                            /\ hits = [k \in 1 .. m |-> sorted[k]]
    <2>1. \E m \in 0 .. Len(sorted) :
             /\ m = Len(sorted) \/ m = limit
             /\ Len(Clipped(sorted, limit)) = m
             /\ Clipped(sorted, limit) = [k \in 1 .. m |-> sorted[k]]
      BY <1>5, ClippedKeeps
    <2> QED BY <1>5, <1>6, <2>1
  <1> HIDE DEF ours, fused
  <1>9. \A k \in 1 .. m : k \in 1 .. n /\ hits[k] = results[g[k]] /\ g[k] \in 1 .. n
    <2>1. \A k \in 1 .. m : k \in 1 .. n
      BY <1>2, <1>8
    <2>2. \A k \in 1 .. n : g[k] \in 1 .. n
      BY <1>4 DEF Orders
    <2>3. \A k \in 1 .. m : hits[k] = sorted[k]
      BY <1>8
    <2> QED BY <1>7, <2>1, <2>2, <2>3
  <1> DEFINE given == {h.id : h \in ToSet(hits)}
             f == [k \in 1 .. m |-> hits[k].id]
  <1>10. DOMAIN hits = 1 .. m /\ given = {hits[k].id : k \in 1 .. m}
    BY <1>8 DEF ToSet
  <1> HIDE DEF given
  <1>11. given \subseteq ours
    BY <1>2, <1>9, <1>10
  <1>12. Cardinality(given) = Len(hits)
    <2>1. f \in [1 .. m -> given] /\ \A id \in given : \E k \in 1 .. m : f[k] = id
      BY <1>10
    <2>2. \A k, l \in 1 .. m : f[k] = f[l] => k = l
      <3> TAKE k, l \in 1 .. m
      <3> HAVE f[k] = f[l]
      <3>1. results[g[k]].id = results[g[l]].id
        BY <1>9
      <3>2. g[k] = g[l]
        BY <1>2, <1>9, <3>1
      <3> QED BY <1>4, <1>9, <3>2 DEF Orders
    <2> HIDE DEF f
    <2>3. f \in Bijection(1 .. m, given)
      BY <2>1, <2>2, Fun_IsBij
    <2>4. IsFiniteSet(1 .. m) /\ Cardinality(1 .. m) = m
      BY <1>2, <1>8, FS_Interval
    <2>5. ExistsBijection(1 .. m, given)
      BY <2>3 DEF ExistsBijection
    <2> QED BY <1>8, <2>4, <2>5, FS_Bijection
  <1>13. given = ours \/ Len(hits) = limit
    <2>1. CASE m = n
      <3>1. ASSUME NEW id \in ours
            PROVE  id \in given
        <4>1. PICK i \in 1 .. n : results[i].id = id
          BY <1>2
        <4>2. PICK k \in 1 .. n : g[k] = i
          BY <1>4 DEF Orders
        <4> QED BY <1>9, <1>10, <2>1, <4>1, <4>2
      <3> QED BY <1>11, <3>1
    <2> QED BY <1>8, <2>1
  <1>14. ASSUME NEW i \in DOMAIN hits, NEW id \in ours,
                NoWorse(exact, id, hits[i].id), NoWorse(semantic, id, hits[i].id),
                ~(NoWorse(exact, hits[i].id, id) /\ NoWorse(semantic, hits[i].id, id))
         PROVE  \E j \in 1 .. i : hits[j].id = id
    <2>1. Above(fused(id), fused(hits[i].id))
      BY <1>14, FusedOrders DEF fused
    <2>2. PICK l \in 1 .. n : results[l].id = id
      BY <1>2
    <2>3. PICK k \in 1 .. n : g[k] = l
      BY <1>4 DEF Orders
    <2>4. i \in 1 .. m /\ i \in 1 .. n /\ score[g[i]] = fused(hits[i].id) /\ score[g[k]] = fused(id)
      BY <1>2, <1>9, <1>10, <2>2, <2>3
    <2>5. k < i
      <3>1. Above(score[g[k]], score[g[i]])
        BY <2>1, <2>4
      <3> QED BY <1>4, <2>4, <3>1 DEF Orders
    <2>6. k \in 1 .. m /\ k \in 1 .. i
      BY <1>2, <1>8, <2>4, <2>5
    <2> QED BY <1>9, <2>2, <2>3, <2>6
  <1> QED BY <1>11, <1>12, <1>13, <1>14 DEF Respects, ours, hits, given

LEMMA FoundOnce ==
    ASSUME NEW entities, IsFiniteSet(entities), NEW name, NEW limit \in Nat
    PROVE  LET found == FindEntity(entities, name, limit)
           IN /\ IsList(found)
              /\ \A i \in 1 .. Len(found) : found[i] \in entities
              /\ \A i, j \in 1 .. Len(found) : found[i] = found[j] => i = j
  <1> DEFINE M == Matching(entities, name)
             list == SetToSeq(M)
             n == Cardinality(M)
             score == [i \in DOMAIN list |-> <<-MatchRank(list[i], name), 1>>]
             found == FindEntity(entities, name, limit)
  <1>1. M \subseteq entities
    BY DEF Matching
  <1>2. IsFiniteSet(M) /\ n \in Nat /\ ExistsBijection(1 .. n, M)
    <2> HIDE DEF M
    <2>1. IsFiniteSet(M)
      BY <1>1, FS_Subset
    <2> QED BY <2>1, FS_CardinalityType
  <1>3. list \in [1 .. n -> M] /\ \A i, j \in 1 .. n : list[i] = list[j] => i = j
    <2> HIDE DEF M
    <2>1. \E f \in [1 .. n -> M] : IsInjective(f)
      BY <1>2 DEF ExistsBijection, Bijection, Injection
    <2>2. list \in [1 .. n -> M] /\ IsInjective(list)
      BY <2>1 DEF SetToSeq
    <2> QED BY <2>2 DEF IsInjective
  <1> HIDE DEF M, list, n
  <1>4. IsList(list) /\ Len(list) = n /\ DOMAIN list = 1 .. n
    <2>1. list \in Seq(M) /\ Len(list) = n
      BY <1>2, <1>3, IsASeq
    <2> QED BY <1>3, <2>1, SequencesAreLists
  <1>5. \A i \in 1 .. Len(list) : score[i] \in Fractions
    <2> TAKE i \in 1 .. Len(list)
    <2>1. score[i] = <<-MatchRank(list[i], name), 1>>
      BY <1>4
    <2>2. MatchRank(list[i], name) \in {0, 1, 2}
      BY DEF MatchRank
    <2> QED BY <2>1, <2>2 DEF Fractions
  <1> DEFINE sorted == Sorted(list, score)
  <1>6. found = Clipped(sorted, limit)
    BY DEF FindEntity, list, M
  <1> HIDE DEF score, found
  <1>7. PICK g : Orders(g, n, score) /\ sorted = [k \in 1 .. n |-> list[g[k]]]
    BY <1>4, <1>5, SortedOrders
  <1> HIDE DEF sorted
  <1>8. /\ sorted \in [1 .. n -> M]
        /\ \A i, j \in 1 .. n : sorted[i] = sorted[j] => i = j
    <2>1. \A k \in 1 .. n : g[k] \in 1 .. n
      BY <1>7 DEF Orders
    <2>2. ASSUME NEW i \in 1 .. n, NEW j \in 1 .. n, sorted[i] = sorted[j]
          PROVE  i = j
      <3>1. list[g[i]] = list[g[j]]
        BY <1>7, <2>2
      <3>2. g[i] = g[j]
        BY <1>3, <2>1, <3>1
      <3> QED BY <1>7, <3>2 DEF Orders
    <2> QED BY <1>3, <1>7, <2>1, <2>2
  <1>9. IsList(sorted) /\ Len(sorted) = n
    <2>1. sorted \in Seq(M) /\ Len(sorted) = n
      BY <1>2, <1>8, IsASeq
    <2> QED BY <2>1, SequencesAreLists
  <1>10. PICK m \in 0 .. n : Len(found) = m /\ found = [k \in 1 .. m |-> sorted[k]]
    BY <1>6, <1>9, ClippedKeeps
  <1>11. \A k \in 1 .. m : k \in 1 .. n /\ found[k] = sorted[k]
    BY <1>2, <1>10
  <1>12. IsList(found)
    <2>1. m \in Nat /\ found = [k \in 1 .. m |-> found[k]]
      BY <1>10
    <2> QED BY <1>10, <2>1 DEF IsList
  <1>13. \A k \in 1 .. m : found[k] \in entities
    BY <1>1, <1>8, <1>11
  <1>14. \A i, j \in 1 .. m : found[i] = found[j] => i = j
    BY <1>8, <1>11
  <1> QED BY <1>10, <1>12, <1>13, <1>14 DEF found

LEMMA RerankKeeps ==
    ASSUME NEW hits, IsList(hits), DistinctIds(hits), \A i \in 1 .. Len(hits) : hits[i].ours,
           NEW relevance, \A i \in 1 .. Len(hits) : relevance[hits[i].id] \in Nat
    PROVE  LET list == Rerank(hits, relevance)
           IN /\ IsList(list) /\ DistinctIds(list)
              /\ \A i \in 1 .. Len(list) : list[i].ours
  <1> DEFINE n == Len(hits)
             score == [i \in DOMAIN hits |-> <<relevance[hits[i].id], 1>>]
             list == Rerank(hits, relevance)
  <1>1. n \in Nat /\ DOMAIN hits = 1 .. n
    BY DEF IsList
  <1>2. \A i \in 1 .. n : score[i] \in Fractions
    BY <1>1 DEF Fractions
  <1>3. list = Sorted(hits, score)
    BY DEF Rerank
  <1> HIDE DEF score, list
  <1>4. PICK g : Orders(g, n, score) /\ list = [k \in 1 .. n |-> hits[g[k]]]
    BY <1>2, <1>3, SortedOrders
  <1> HIDE DEF n
  <1>5. \A k \in 1 .. n : g[k] \in 1 .. n /\ list[k] = hits[g[k]]
    BY <1>4 DEF Orders
  <1>6. list \in [1 .. n -> {hits[i] : i \in 1 .. n}]
    BY <1>4, <1>5
  <1>7. IsList(list) /\ Len(list) = n
    <2> DEFINE S == {hits[i] : i \in 1 .. n}
    <2> HIDE DEF S
    <2>1. list \in Seq(S) /\ Len(list) = n
      BY <1>1, <1>6, IsASeq DEF S
    <2> QED BY <2>1, SequencesAreLists
  <1>8. ASSUME NEW i \in 1 .. n, NEW j \in 1 .. n, list[i].id = list[j].id
        PROVE  i = j
    <2>1. g[i] = g[j]
      BY <1>5, <1>8 DEF DistinctIds, n
    <2> QED BY <1>4, <2>1 DEF Orders
  <1>9. \A i \in 1 .. n : list[i].ours
    BY <1>5 DEF n
  <1> QED BY <1>7, <1>8, <1>9 DEF DistinctIds, list

-----------------------------------------------------------------------------
(* What Within computes, step by step.                                     *)
Nearer(edges, direction, near) ==
    near \cup {Far(e, direction) : e \in {e \in edges : Near(e, direction) \in near}}

Reaches(f, edges, direction, roots, n) ==
    f = [k \in 0 .. n |-> IF k = 0 THEN roots ELSE Nearer(edges, direction, f[k - 1])]

LEMMA ReachExists ==
    ASSUME NEW edges, NEW direction, NEW roots, NEW n \in Nat
    PROVE  \E f : Reaches(f, edges, direction, roots, n)
  <1> DEFINE bad == {m \in Nat : ~ \E f : Reaches(f, edges, direction, roots, m)}
  <1> SUFFICES ASSUME bad # {} PROVE FALSE
    OBVIOUS
  <1>1. PICK m \in bad : \A k \in bad : ~(k < m)
    <2>1. bad \subseteq Nat
      OBVIOUS
    <2> HIDE DEF bad
    <2> QED BY <2>1, Least
  <1>2. CASE m = 0
    <2>1. Reaches([i \in 0 .. 0 |-> roots], edges, direction, roots, 0)
      BY DEF Reaches
    <2> QED BY <1>2, <2>1
  <1>3. CASE m # 0
    <2>1. PICK f : Reaches(f, edges, direction, roots, m - 1)
      BY <1>1, <1>3
    <2>2. PICK g : g = [i \in 0 .. m |-> IF i = m THEN Nearer(edges, direction, f[m - 1]) ELSE f[i]]
      OBVIOUS
    <2>3. ASSUME NEW i \in 0 .. m
          PROVE  g[i] = IF i = 0 THEN roots ELSE Nearer(edges, direction, g[i - 1])
      <3>1. CASE i = m
        BY <1>3, <2>2, <3>1
      <3>2. CASE i # m
        <4>1. i \in 0 .. m - 1 /\ g[i] = f[i]
          BY <2>2, <3>2
        <4>2. i # 0 => g[i - 1] = f[i - 1]
          BY <2>2, <4>1
        <4>3. f[i] = IF i = 0 THEN roots ELSE Nearer(edges, direction, f[i - 1])
          BY <2>1, <4>1 DEF Reaches
        <4> QED BY <4>1, <4>2, <4>3
      <3> QED BY <3>1, <3>2
    <2>4. Reaches(g, edges, direction, roots, m)
      BY <2>2, <2>3 DEF Reaches
    <2> QED BY <2>4
  <1> QED BY <1>2, <1>3

LEMMA ReachAgrees ==
    ASSUME NEW edges, NEW direction, NEW roots, NEW n \in Nat, NEW m \in Nat,
           NEW f, Reaches(f, edges, direction, roots, n),
           NEW g, Reaches(g, edges, direction, roots, m), NEW k \in 0 .. n, k <= m
    PROVE  f[k] = g[k]
  <1> DEFINE bad == {i \in 0 .. n : i <= m /\ f[i] # g[i]}
  <1>1. CASE bad # {}
    <2>1. PICK i \in bad : \A j \in bad : ~(j < i)
      <3>1. bad \subseteq Nat
        OBVIOUS
      <3> HIDE DEF bad
      <3> QED BY <1>1, <3>1, Least
    <2>2. /\ i \in 0 .. n /\ i \in 0 .. m
          /\ f[i] = IF i = 0 THEN roots ELSE Nearer(edges, direction, f[i - 1])
          /\ g[i] = IF i = 0 THEN roots ELSE Nearer(edges, direction, g[i - 1])
      <3>1. i \in 0 .. n /\ i \in 0 .. m
        OBVIOUS
      <3> HIDE DEF bad
      <3> QED BY <3>1 DEF Reaches
    <2>3. i # 0 => f[i - 1] = g[i - 1]
      BY <2>1, <2>2
    <2> QED BY <2>1, <2>2, <2>3
  <1> QED BY <1>1

LEMMA WithinSteps ==
    ASSUME NEW edges, NEW direction, NEW roots
    PROVE  /\ Within(edges, direction, roots, 0) = roots
           /\ \A n \in Nat : Within(edges, direction, roots, n + 1) =
                             Nearer(edges, direction, Within(edges, direction, roots, n))
  <1>1. ASSUME NEW n \in Nat
        PROVE  \E f : Reaches(f, edges, direction, roots, n)
                      /\ Within(edges, direction, roots, n) = f[n]
    <2> DEFINE f == CHOOSE f : Reaches(f, edges, direction, roots, n)
    <2>1. Reaches(f, edges, direction, roots, n)
      BY ReachExists
    <2>2. Within(edges, direction, roots, n) = f[n]
      BY DEF Within, Reaches, Nearer
    <2> QED BY <2>1, <2>2
  <1>2. Within(edges, direction, roots, 0) = roots
    BY <1>1 DEF Reaches
  <1>3. ASSUME NEW n \in Nat
        PROVE  Within(edges, direction, roots, n + 1) =
               Nearer(edges, direction, Within(edges, direction, roots, n))
    <2>1. PICK f : Reaches(f, edges, direction, roots, n)
                   /\ Within(edges, direction, roots, n) = f[n]
      BY <1>1
    <2>2. PICK g : Reaches(g, edges, direction, roots, n + 1)
                   /\ Within(edges, direction, roots, n + 1) = g[n + 1]
      BY <1>1
    <2>3. f[n] = g[n]
      BY <2>1, <2>2, ReachAgrees
    <2>4. g[n + 1] = Nearer(edges, direction, g[n])
      <3>1. n + 1 \in 0 .. n + 1 /\ n + 1 # 0 /\ (n + 1) - 1 = n
        OBVIOUS
      <3> QED BY <2>2, <3>1 DEF Reaches
    <2> QED BY <2>1, <2>2, <2>3, <2>4
  <1> QED BY <1>2, <1>3

LEMMA WithinStep ==
    ASSUME NEW edges, NEW direction, NEW roots, NEW n \in Nat, NEW m, m = n + 1
    PROVE  Within(edges, direction, roots, m) =
           Nearer(edges, direction, Within(edges, direction, roots, n))
  BY WithinSteps

LEMMA WithinGrows ==
    ASSUME NEW edges, NEW direction, NEW roots, NEW n \in Nat, NEW m \in Nat, n <= m
    PROVE  Within(edges, direction, roots, n) \subseteq Within(edges, direction, roots, m)
  <1> DEFINE within(k) == Within(edges, direction, roots, k)
             bad == {k \in Nat : n <= k /\ ~(within(n) \subseteq within(k))}
  <1>1. CASE bad # {}
    <2>1. PICK k \in bad : \A j \in bad : ~(j < k)
      <3>1. bad \subseteq Nat
        OBVIOUS
      <3> HIDE DEF bad
      <3> QED BY <1>1, <3>1, Least
    <2>2. k # n /\ k \in Nat
      OBVIOUS
    <2>3. k - 1 \in Nat /\ n <= k - 1 /\ k - 1 \notin bad
      BY <2>1, <2>2
    <2>4. within(n) \subseteq within(k - 1)
      BY <2>3
    <2>5. within(k) = Nearer(edges, direction, within(k - 1))
      <3>1. k = (k - 1) + 1
        BY <2>2
      <3> QED BY <2>3, <3>1, WithinStep
    <2>6. within(k - 1) \subseteq within(k)
      BY <2>5 DEF Nearer
    <2> QED BY <2>1, <2>4, <2>6
  <1> QED BY <1>1

-----------------------------------------------------------------------------
(* Relationships as MERGE keeps them, which nothing else tells apart.      *)
AreEdges(edges) ==
    \A e \in edges : e = [source |-> e.source, kind |-> e.kind, target |-> e.target]

LEMMA EdgesAreFinite ==
    ASSUME NEW graph, IsFiniteSet(graph.relations), NEW kinds
    PROVE  /\ IsFiniteSet(Edges(graph, kinds))
           /\ AreEdges(Edges(graph, kinds))
  <1> DEFINE R == {r \in graph.relations : r.resolved /\ r.kind \in kinds}
             f == [r \in R |-> [source |-> r.source, kind |-> r.kind, target |-> r.target]]
  <1>1. IsFiniteSet(R)
    BY FS_Subset
  <1>2. Edges(graph, kinds) = {f[r] : r \in R}
    BY DEF Edges
  <1>3. AreEdges(Edges(graph, kinds))
    BY DEF Edges, AreEdges
  <1> HIDE DEF f, R
  <1>4. DOMAIN f = R /\ f = [r \in R |-> f[r]]
    BY DEF f
  <1>5. f \in Surjection(R, Edges(graph, kinds))
    <2>1. f \in [R -> Edges(graph, kinds)]
      BY <1>2, <1>4
    <2> QED BY <1>2, <2>1, Fun_IsSurj
  <1>6. IsFiniteSet(Edges(graph, kinds))
    BY <1>1, <1>5, FS_Surjection
  <1> QED BY <1>3, <1>6

(* A trail, as a set of numbered edges, is a subset of a finite set.       *)
LEMMA TrailsAreFinite ==
    ASSUME NEW edges, IsFiniteSet(edges), NEW roots, NEW direction, NEW depth \in Nat
    PROVE  /\ IsFiniteSet(Trails(edges, roots, direction, depth))
           /\ <<>> \in Trails(edges, roots, direction, depth)
  <1> DEFINE T == Trails(edges, roots, direction, depth)
             places == (1 .. depth) \X edges
             f == [t \in T |-> {<<i, t[i]>> : i \in DOMAIN t}]
  <1>1. ASSUME NEW t \in T
        PROVE  \E n \in 0 .. depth : t \in [1 .. n -> edges]
    BY DEF Trails
  <1>2. IsFiniteSet(SUBSET places)
    <2>1. IsFiniteSet(1 .. depth)
      BY FS_Interval
    <2> QED BY <2>1, FS_Product, FS_SUBSET
  <1>3. <<>> \in T
    <2>1. <<>> \in [1 .. 0 -> edges] /\ DOMAIN <<>> = {}
      OBVIOUS
    <2>2. <<>> \in UNION {[1 .. n -> edges] : n \in 0 .. depth}
      BY <2>1
    <2> QED BY <2>1, <2>2 DEF Trails
  <1> HIDE DEF T
  <1>4. f \in [T -> SUBSET places]
    <2>1. ASSUME NEW t \in T
          PROVE  {<<i, t[i]>> : i \in DOMAIN t} \in SUBSET places
      BY <1>1
    <2> QED BY <2>1
  <1>5. ASSUME NEW t \in T, NEW u \in T, f[t] = f[u]
        PROVE  t = u
    <2>1. PICK n \in 0 .. depth : t \in [1 .. n -> edges]
      BY <1>1
    <2>2. PICK m \in 0 .. depth : u \in [1 .. m -> edges]
      BY <1>1
    <2>3. {<<i, t[i]>> : i \in 1 .. n} = {<<i, u[i]>> : i \in 1 .. m}
      BY <1>5, <2>1, <2>2
    <2>4. ASSUME NEW i \in 1 .. n
          PROVE  i \in 1 .. m /\ t[i] = u[i]
      <3>1. <<i, t[i]>> \in {<<j, u[j]>> : j \in 1 .. m}
        BY <2>3
      <3>2. PICK j \in 1 .. m : <<i, t[i]>> = <<j, u[j]>>
        BY <3>1
      <3> QED BY <3>2
    <2>5. ASSUME NEW i \in 1 .. m
          PROVE  i \in 1 .. n
      <3>1. <<i, u[i]>> \in {<<j, t[j]>> : j \in 1 .. n}
        BY <2>3
      <3>2. PICK j \in 1 .. n : <<i, u[i]>> = <<j, t[j]>>
        BY <3>1
      <3> QED BY <3>2
    <2>6. 1 .. n = 1 .. m
      BY <2>4, <2>5
    <2> QED BY <2>1, <2>2, <2>4, <2>6
  <1> HIDE DEF f, places
  <1>6. f \in Injection(T, SUBSET places)
    BY <1>4, <1>5, Fun_IsInj
  <1> QED BY <1>2, <1>3, <1>6, FS_Injection DEF T

(* A trail has got no further than its steps.                              *)
LEMMA TrailsReach ==
    ASSUME NEW edges, NEW roots, NEW direction, NEW depth \in Nat,
           NEW t \in Trails(edges, roots, direction, depth)
    PROVE  /\ \E n \in 0 .. depth : t \in [1 .. n -> edges]
           /\ \A i, j \in DOMAIN t : t[i] = t[j] => i = j
           /\ \A i \in DOMAIN t : /\ i \in 1 .. depth
                                  /\ Near(t[i], direction) \in Within(edges, direction, roots, i - 1)
  <1>1. PICK n \in 0 .. depth : t \in [1 .. n -> edges]
    BY DEF Trails
  <1>2. /\ \A i \in 1 .. n : Near(t[i], direction) \in IF i = 1 THEN roots ELSE {Far(t[i - 1], direction)}
        /\ \A i, j \in 1 .. n : t[i] = t[j] => i = j
    BY <1>1 DEF Trails
  <1> DEFINE within(k) == Within(edges, direction, roots, k)
             bad == {i \in 1 .. n : Near(t[i], direction) \notin within(i - 1)}
  <1>3. bad = {}
    <2> SUFFICES ASSUME bad # {} PROVE FALSE
      OBVIOUS
    <2>1. PICK i \in bad : \A j \in bad : ~(j < i)
      <3>1. bad \subseteq Nat
        OBVIOUS
      <3> HIDE DEF bad
      <3> QED BY <3>1, Least
    <2>2. CASE i = 1
      <3>1. Near(t[i], direction) \in roots
        BY <1>2, <2>2
      <3>2. within(0) = roots /\ i - 1 = 0
        BY <2>2, WithinSteps
      <3> QED BY <3>1, <3>2
    <2>3. CASE i # 1
      <3>1. i - 1 \in 1 .. n /\ i - 1 \notin bad /\ i - 2 \in Nat
        BY <2>1, <2>3
      <3>2. Near(t[i - 1], direction) \in within((i - 1) - 1) /\ t[i - 1] \in edges
        BY <1>1, <3>1
      <3>3. (i - 1) - 1 = i - 2 /\ i - 1 = (i - 2) + 1
        BY <3>1
      <3>4. within(i - 1) = Nearer(edges, direction, within(i - 2))
        BY <3>1, <3>3, WithinStep
      <3>5. Far(t[i - 1], direction) \in within(i - 1)
        BY <3>2, <3>3, <3>4 DEF Nearer
      <3> QED BY <1>2, <2>3, <3>5
    <2> QED BY <2>2, <2>3
  <1>4. DOMAIN t = 1 .. n /\ \A i \in 1 .. n : i \in 1 .. depth
    BY <1>1
  <1>5. \A i \in 1 .. n : Near(t[i], direction) \in within(i - 1)
    BY <1>3
  <1> QED BY <1>1, <1>2, <1>4, <1>5

(* What lies at a distance, exactly, is where a trail of as many edges     *)
(* ends, each of which starts one step farther away.                       *)
AtDistance(edges, direction, roots, x, n) ==
    /\ x \in Within(edges, direction, roots, n)
    /\ \A k \in 0 .. n - 1 : x \notin Within(edges, direction, roots, k)

Geodesic(t, edges, direction, roots, n) ==
    /\ t \in [1 .. n -> edges]
    /\ \A i \in 1 .. n :
           /\ Near(t[i], direction) \in IF i = 1 THEN roots ELSE {Far(t[i - 1], direction)}
           /\ AtDistance(edges, direction, roots, Near(t[i], direction), i - 1)

End(t, direction, roots, n) == IF n = 0 THEN roots ELSE {Far(t[n], direction)}

LEMMA GeodesicGrows ==
    ASSUME NEW edges, NEW direction, NEW roots, NEW n \in Nat, NEW t, NEW e \in edges,
           Geodesic(t, edges, direction, roots, n),
           Near(e, direction) \in End(t, direction, roots, n),
           AtDistance(edges, direction, roots, Near(e, direction), n),
           NEW m, m = n + 1
    PROVE  \E u : Geodesic(u, edges, direction, roots, m) /\ u[m] = e
  <1> DEFINE u == [i \in 1 .. n + 1 |-> IF i = n + 1 THEN e ELSE t[i]]
  <1>1. /\ u[n + 1] = e /\ \A i \in 1 .. n : u[i] = t[i] /\ t[i] \in edges
        /\ \A i \in 1 .. n + 1 : i = n + 1 \/ i \in 1 .. n
    BY DEF Geodesic
  <1>2. u \in [1 .. n + 1 -> edges]
    <2>1. ASSUME NEW i \in 1 .. n + 1
          PROVE  (IF i = n + 1 THEN e ELSE t[i]) \in edges
      BY <1>1
    <2> QED BY <2>1
  <1> HIDE DEF u
  <1>3. ASSUME NEW i \in 1 .. n + 1
        PROVE  /\ Near(u[i], direction) \in IF i = 1 THEN roots ELSE {Far(u[i - 1], direction)}
               /\ AtDistance(edges, direction, roots, Near(u[i], direction), i - 1)
    <2>1. CASE i = n + 1
      <3>1. i - 1 = n /\ u[i] = e /\ (i = 1 <=> n = 0) /\ (n # 0 => u[i - 1] = t[n])
        BY <1>1, <2>1
      <3> QED BY <3>1 DEF End
    <2>2. CASE i \in 1 .. n
      <3>1. i # 1 => i - 1 \in 1 .. n
        BY <2>2
      <3> QED BY <1>1, <2>2, <3>1 DEF Geodesic
    <2> QED BY <1>1, <2>1, <2>2
  <1>4. Geodesic(u, edges, direction, roots, n + 1) /\ u[n + 1] = e
    BY <1>1, <1>2, <1>3 DEF Geodesic
  <1> QED BY <1>4

LEMMA GeodesicsExist ==
    ASSUME NEW edges, NEW direction, NEW roots, NEW n \in Nat, NEW x,
           AtDistance(edges, direction, roots, x, n)
    PROVE  \E t : Geodesic(t, edges, direction, roots, n) /\ x \in End(t, direction, roots, n)
  <1> DEFINE within(k) == Within(edges, direction, roots, k)
             P(m) == \A y : AtDistance(edges, direction, roots, y, m) =>
                        \E t : Geodesic(t, edges, direction, roots, m)
                               /\ y \in End(t, direction, roots, m)
             bad == {m \in Nat : ~P(m)}
  <1> SUFFICES ASSUME bad # {} PROVE FALSE
    OBVIOUS
  <1>1. PICK m \in bad : \A k \in bad : ~(k < m)
    <2>1. bad \subseteq Nat
      OBVIOUS
    <2> HIDE DEF bad
    <2> QED BY <2>1, Least
  <1>2. PICK y : /\ AtDistance(edges, direction, roots, y, m)
                 /\ ~ \E t : Geodesic(t, edges, direction, roots, m)
                             /\ y \in End(t, direction, roots, m)
    BY <1>1
  <1>3. CASE m = 0
    <2>1. y \in roots
      BY <1>2, <1>3, WithinSteps DEF AtDistance
    <2>2. Geodesic([i \in 1 .. 0 |-> 0], edges, direction, roots, 0)
      BY DEF Geodesic
    <2> QED BY <1>2, <1>3, <2>1, <2>2 DEF End
  <1>4. CASE m # 0
    <2>1. /\ m - 1 \in Nat /\ m - 1 \notin bad /\ m - 1 \in 0 .. m - 1 /\ (m - 1) + 1 = m
      BY <1>1, <1>4
    <2>2. P(m - 1)
      BY <2>1
    <2>3. within(m) = Nearer(edges, direction, within(m - 1))
      BY <2>1, WithinStep
    <2>4. y \in within(m) /\ y \notin within(m - 1)
      BY <1>2, <2>1 DEF AtDistance
    <2>5. PICK e \in edges : Near(e, direction) \in within(m - 1) /\ y = Far(e, direction)
      BY <2>1, <2>3, <2>4 DEF Nearer
    <2>6. ASSUME NEW k \in 0 .. (m - 1) - 1, Near(e, direction) \in within(k)
          PROVE  FALSE
      <3>1. k \in Nat /\ k + 1 \in 0 .. m - 1
        BY <2>1, <2>6
      <3>2. within(k + 1) = Nearer(edges, direction, within(k))
        BY <3>1, WithinStep
      <3>3. y \in within(k + 1)
        BY <2>5, <2>6, <3>2 DEF Nearer
      <3> QED BY <1>2, <3>1, <3>3 DEF AtDistance
    <2>7. AtDistance(edges, direction, roots, Near(e, direction), m - 1)
      BY <2>5, <2>6 DEF AtDistance
    <2>8. PICK t : Geodesic(t, edges, direction, roots, m - 1)
                   /\ Near(e, direction) \in End(t, direction, roots, m - 1)
      BY <2>2, <2>7
    <2>9. PICK u : Geodesic(u, edges, direction, roots, m) /\ u[m] = e
      BY <2>1, <2>7, <2>8, GeodesicGrows
    <2> QED BY <1>2, <1>4, <2>5, <2>9 DEF End
  <1> QED BY <1>3, <1>4

(* Every edge that starts within reach lies on a trail.                    *)
LEMMA EdgesLieOnTrails ==
    ASSUME NEW edges, NEW direction, NEW roots, NEW depth \in Nat \ {0}, NEW e \in edges,
           Near(e, direction) \in Within(edges, direction, roots, depth - 1)
    PROVE  \E t \in Trails(edges, roots, direction, depth) : \E i \in DOMAIN t : t[i] = e
  <1> DEFINE near == Near(e, direction)
             within(k) == Within(edges, direction, roots, k)
             reached == {n \in Nat : near \in within(n)}
  <1>1. PICK n \in reached : \A m \in reached : ~(m < n)
    <2>1. reached \subseteq Nat /\ depth - 1 \in reached
      OBVIOUS
    <2> HIDE DEF reached
    <2> QED BY <2>1, Least
  <1>2. n \in Nat /\ n + 1 \in 0 .. depth
    <2>1. depth - 1 \in reached
      OBVIOUS
    <2> QED BY <1>1, <2>1
  <1>3. AtDistance(edges, direction, roots, near, n)
    BY <1>1, <1>2 DEF AtDistance
  <1>4. PICK t : Geodesic(t, edges, direction, roots, n) /\ near \in End(t, direction, roots, n)
    BY <1>2, <1>3, GeodesicsExist
  <1>5. PICK u : Geodesic(u, edges, direction, roots, n + 1) /\ u[n + 1] = e
    BY <1>2, <1>3, <1>4, GeodesicGrows
  <1>6. ASSUME NEW i \in 1 .. n + 1, NEW j \in 1 .. n + 1, u[i] = u[j], i < j
        PROVE  FALSE
    <2>1. i - 1 \in 0 .. (j - 1) - 1
      BY <1>2, <1>6
    <2>2. Near(u[i], direction) \in within(i - 1)
      BY <1>5 DEF Geodesic, AtDistance
    <2>3. Near(u[j], direction) \notin within(i - 1)
      BY <1>5, <2>1 DEF Geodesic, AtDistance
    <2> QED BY <1>6, <2>2, <2>3
  <1>7. u \in Trails(edges, roots, direction, depth)
    <2>1. u \in [1 .. n + 1 -> edges] /\ DOMAIN u = 1 .. n + 1
      BY <1>5 DEF Geodesic
    <2>2. u \in UNION {[1 .. m -> edges] : m \in 0 .. depth}
      BY <1>2, <2>1
    <2>3. \A i \in 1 .. n + 1 :
              Near(u[i], direction) \in IF i = 1 THEN roots ELSE {Far(u[i - 1], direction)}
      BY <1>5 DEF Geodesic
    <2>4. ASSUME NEW i \in 1 .. n + 1, NEW j \in 1 .. n + 1, u[i] = u[j]
          PROVE  i = j
      <3>1. ~(i < j) /\ ~(j < i)
        BY <1>6, <2>4
      <3> QED BY <1>2, <3>1
    <2> QED BY <2>1, <2>2, <2>3, <2>4 DEF Trails
  <1>8. n + 1 \in DOMAIN u
    BY <1>2, <1>5 DEF Geodesic
  <1> QED BY <1>5, <1>7, <1>8

-----------------------------------------------------------------------------
(* What PathRelations gathers, row by row.                                 *)
Gathered(output, row) ==
    LET seen == {Key(r) : r \in ToSet(output)}
    IN output \o Subsequence(row, {i \in DOMAIN row : Key(row[i]) \notin seen})

Gathers(f, rows, direction, n) ==
    f = [k \in 0 .. n |-> IF k = 0 THEN <<>>
                          ELSE Gathered(f[k - 1], RowRelations(rows[k], direction))]

LEMMA GatherExists ==
    ASSUME NEW rows, NEW direction, NEW n \in Nat
    PROVE  \E f : Gathers(f, rows, direction, n)
  <1> DEFINE bad == {m \in Nat : ~ \E f : Gathers(f, rows, direction, m)}
  <1> SUFFICES ASSUME bad # {} PROVE FALSE
    OBVIOUS
  <1>1. PICK m \in bad : \A k \in bad : ~(k < m)
    <2>1. bad \subseteq Nat
      OBVIOUS
    <2> HIDE DEF bad
    <2> QED BY <2>1, Least
  <1>2. CASE m = 0
    <2>1. Gathers([i \in 0 .. 0 |-> <<>>], rows, direction, 0)
      BY DEF Gathers
    <2> QED BY <1>2, <2>1
  <1>3. CASE m # 0
    <2>1. PICK f : Gathers(f, rows, direction, m - 1)
      BY <1>1, <1>3
    <2> DEFINE last == Gathered(f[m - 1], RowRelations(rows[m], direction))
    <2>2. PICK g : g = [i \in 0 .. m |-> IF i = m THEN last ELSE f[i]]
      OBVIOUS
    <2>3. ASSUME NEW i \in 0 .. m
          PROVE  g[i] = IF i = 0 THEN <<>>
                        ELSE Gathered(g[i - 1], RowRelations(rows[i], direction))
      <3>1. CASE i = m
        BY <1>3, <2>2, <3>1
      <3>2. CASE i # m
        <4>1. i \in 0 .. m - 1 /\ g[i] = f[i]
          BY <2>2, <3>2
        <4>2. i # 0 => g[i - 1] = f[i - 1]
          BY <2>2, <4>1
        <4>3. f[i] = IF i = 0 THEN <<>>
                     ELSE Gathered(f[i - 1], RowRelations(rows[i], direction))
          BY <2>1, <4>1 DEF Gathers
        <4> QED BY <4>1, <4>2, <4>3
      <3> QED BY <3>1, <3>2
    <2>4. Gathers(g, rows, direction, m)
      BY <2>2, <2>3 DEF Gathers
    <2> QED BY <2>4
  <1> QED BY <1>2, <1>3

(* The relations of a row are those of its trail, in the same places.      *)
IsPath(t, edges) ==
    /\ IsList(t) /\ \A i \in 1 .. Len(t) : t[i] \in edges
    /\ \A i, j \in 1 .. Len(t) : t[i] = t[j] => i = j

LEMMA RowRelationsAre ==
    ASSUME NEW edges, AreEdges(edges),
           NEW t, IsPath(t, edges), NEW direction
    PROVE  /\ IsList(RowRelations(t, direction)) /\ Len(RowRelations(t, direction)) = Len(t)
           /\ \A i \in 1 .. Len(t) : /\ Key(RowRelations(t, direction)[i]) = t[i]
                                     /\ RowRelations(t, direction)[i].depth = i
  <1> DEFINE row == RowRelations(t, direction)
  <1>1. DOMAIN t = 1 .. Len(t)
    BY DEF IsPath, IsList
  <1>2. row = [i \in DOMAIN t |-> Relation(t[i].source, t[i].kind, t[i].target, i)]
    BY DEF RowRelations
  <1> HIDE DEF row
  <1>3. row = [i \in DOMAIN t |-> row[i]]
    BY <1>2
  <1>4. IsList(row) /\ Len(row) = Len(t)
    BY <1>3, Mapped DEF IsPath
  <1>5. ASSUME NEW i \in 1 .. Len(t)
        PROVE  Key(row[i]) = t[i] /\ row[i].depth = i
    <2>1. row[i] = Relation(t[i].source, t[i].kind, t[i].target, i)
      BY <1>1, <1>2
    <2>2. t[i] = [source |-> t[i].source, kind |-> t[i].kind, target |-> t[i].target]
      BY DEF IsPath, AreEdges
    <2> QED BY <2>1, <2>2 DEF Key, Relation
  <1> QED BY <1>4, <1>5 DEF row

(* The relations gathered from n rows: each is one of a row, at its place  *)
(* there, no relationship is there twice, and none is missing.             *)
Gathering(output, rows, n) ==
    /\ IsList(output)
    /\ \A i \in 1 .. Len(output) : \E k \in 1 .. n : \E a \in 1 .. Len(rows[k]) :
           Key(output[i]) = rows[k][a] /\ output[i].depth = a
    /\ \A i, j \in 1 .. Len(output) : Key(output[i]) = Key(output[j]) => i = j
    /\ \A k \in 1 .. n : \A a \in 1 .. Len(rows[k]) :
           \E i \in 1 .. Len(output) : Key(output[i]) = rows[k][a]

LEMMA GatheringGrows ==
    ASSUME NEW edges, AreEdges(edges),
           NEW rows, NEW n \in Nat \ {0}, IsPath(rows[n], edges), NEW direction,
           NEW output, Gathering(output, rows, n - 1)
    PROVE  Gathering(Gathered(output, RowRelations(rows[n], direction)), rows, n)
  <1> DEFINE row == RowRelations(rows[n], direction)
             seen == {Key(r) : r \in ToSet(output)}
             keep == {i \in DOMAIN row : Key(row[i]) \notin seen}
             fresh == Subsequence(row, keep)
             more == output \o fresh
             p == Len(output)
             q == Len(fresh)
  <1>1. /\ IsList(row) /\ Len(row) = Len(rows[n]) /\ Len(row) \in Nat /\ DOMAIN row = 1 .. Len(row)
        /\ \A i \in 1 .. Len(row) : Key(row[i]) = rows[n][i] /\ row[i].depth = i
        /\ \A i, j \in 1 .. Len(row) : rows[n][i] = rows[n][j] => i = j
    <2>1. /\ IsList(row) /\ Len(row) = Len(rows[n])
          /\ \A i \in 1 .. Len(rows[n]) : Key(row[i]) = rows[n][i] /\ row[i].depth = i
      BY RowRelationsAre
    <2> HIDE DEF row
    <2>2. Len(row) \in Nat /\ DOMAIN row = 1 .. Len(row)
      BY <2>1 DEF IsList
    <2>3. \A i, j \in 1 .. Len(rows[n]) : rows[n][i] = rows[n][j] => i = j
      BY DEF IsPath
    <2> QED BY <2>1, <2>2, <2>3
  <1>2. Gathered(output, row) = more
    BY DEF Gathered
  <1> HIDE DEF row
  <1>3. seen = {Key(output[i]) : i \in 1 .. p} /\ p \in Nat /\ IsList(output)
    <2>1. DOMAIN output = 1 .. p /\ p \in Nat /\ IsList(output)
      BY DEF Gathering, IsList
    <2>2. ToSet(output) = {output[i] : i \in 1 .. p}
      BY <2>1 DEF ToSet
    <2> QED BY <2>1, <2>2
  <1> HIDE DEF seen
  <1>4. PICK g : Embeds(g, fresh, row, keep, Len(row))
    <2> HIDE DEF keep
    <2> QED BY <1>1, SubsequenceEmbeds
  <1>5. IsList(fresh)
    <2> HIDE DEF keep
    <2> QED BY <1>1, KeptIsList
  <1> HIDE DEF fresh
  <1>6. /\ q \in Nat
        /\ \A a \in 1 .. q : /\ g[a] \in 1 .. Len(row) /\ fresh[a] = row[g[a]]
                             /\ Key(row[g[a]]) \notin seen
        /\ \A i \in 1 .. Len(row) : Key(row[i]) \notin seen => \E a \in 1 .. q : g[a] = i
        /\ \A a, b \in 1 .. q : a < b => g[a] < g[b]
    BY <1>1, <1>4 DEF Embeds
  <1> HIDE DEF keep
  <1>7. /\ IsList(more) /\ Len(more) = p + q
        /\ \A i \in 1 .. p : more[i] = output[i] /\ i \in 1 .. p + q
        /\ \A a \in 1 .. q : more[p + a] = fresh[a] /\ p + a \in 1 .. p + q
    <2> DEFINE S == {output[i] : i \in 1 .. p} \cup {fresh[i] : i \in 1 .. q}
    <2>1. output \in [1 .. p -> S] /\ fresh \in [1 .. q -> S]
      BY <1>3, <1>5 DEF IsList
    <2> HIDE DEF S
    <2>2. output \in Seq(S) /\ fresh \in Seq(S)
      <3> HIDE DEF p, q
      <3>1. output \in Seq(S)
        BY <1>3, <2>1, IsASeq
      <3>2. fresh \in Seq(S)
        BY <1>6, <2>1, IsASeq
      <3> QED BY <3>1, <3>2
    <2>3. IsList(more) /\ Len(more) = p + q
      BY <1>3, <1>5, ConcatIsList
    <2>4. \A i \in 1 .. p + q : more[i] = IF i <= p THEN output[i] ELSE fresh[i - p]
      BY <2>2, ConcatProperties
    <2> HIDE DEF more, p, q
    <2>5. ASSUME NEW i \in 1 .. p
          PROVE  more[i] = output[i] /\ i \in 1 .. p + q
      BY <1>3, <1>6, <2>4
    <2>6. ASSUME NEW a \in 1 .. q
          PROVE  more[p + a] = fresh[a] /\ p + a \in 1 .. p + q
      <3>1. p + a \in 1 .. p + q /\ ~(p + a <= p) /\ (p + a) - p = a
        BY <1>3, <1>6
      <3> QED BY <2>4, <3>1
    <2> QED BY <2>3, <2>5, <2>6
  <1> HIDE DEF more, p, q
  <1>8. \A i \in 1 .. p + q : i \in 1 .. p \/ \E a \in 1 .. q : i = p + a
    <2> TAKE i \in 1 .. p + q
    <2>1. i \notin 1 .. p => i - p \in 1 .. q /\ i = p + (i - p)
      BY <1>3, <1>6
    <2> QED BY <2>1
  <1>9. \A a \in 1 .. q : Key(fresh[a]) = rows[n][g[a]] /\ fresh[a].depth = g[a]
                          /\ g[a] \in 1 .. Len(rows[n])
    BY <1>1, <1>6
  <1>10. ASSUME NEW i \in 1 .. p + q
         PROVE  \E k \in 1 .. n : \E a \in 1 .. Len(rows[k]) :
                    Key(more[i]) = rows[k][a] /\ more[i].depth = a
    <2>1. CASE i \in 1 .. p
      <3>1. PICK k \in 1 .. n - 1 : \E a \in 1 .. Len(rows[k]) :
                Key(output[i]) = rows[k][a] /\ output[i].depth = a
        BY <2>1 DEF Gathering, p
      <3>2. k \in 1 .. n
        OBVIOUS
      <3> QED BY <1>7, <2>1, <3>1, <3>2
    <2>2. ASSUME NEW b \in 1 .. q, i = p + b
          PROVE  \E k \in 1 .. n : \E a \in 1 .. Len(rows[k]) :
                    Key(more[i]) = rows[k][a] /\ more[i].depth = a
      <3>1. n \in 1 .. n
        OBVIOUS
      <3> QED BY <1>7, <1>9, <2>2, <3>1
    <2> QED BY <1>8, <2>1, <2>2
  <1>11. ASSUME NEW i \in 1 .. p + q, NEW j \in 1 .. p + q, Key(more[i]) = Key(more[j])
         PROVE  i = j
    <2>1. ASSUME NEW a \in 1 .. q, NEW b \in 1 .. q, Key(fresh[a]) = Key(fresh[b])
          PROVE  a = b
      <3>1. g[a] = g[b] /\ g[a] \in Nat
        BY <1>1, <1>6, <1>9, <2>1
      <3>2. ~(a < b) /\ ~(b < a)
        BY <1>6, <3>1
      <3> QED BY <1>6, <3>2
    <2>2. ASSUME NEW a \in 1 .. p, NEW b \in 1 .. q
          PROVE  Key(output[a]) # Key(fresh[b])
      BY <1>3, <1>6
    <2>3. ASSUME NEW a \in 1 .. p, NEW b \in 1 .. p, Key(output[a]) = Key(output[b])
          PROVE  a = b
      BY <2>3 DEF Gathering, p
    <2> QED BY <1>7, <1>8, <1>11, <2>1, <2>2, <2>3
  <1>12. ASSUME NEW k \in 1 .. n, NEW a \in 1 .. Len(rows[k])
         PROVE  \E i \in 1 .. p + q : Key(more[i]) = rows[k][a]
    <2>1. CASE k \in 1 .. n - 1
      <3>1. PICK i \in 1 .. p : Key(output[i]) = rows[k][a]
        BY <2>1 DEF Gathering, p
      <3> QED BY <1>7, <3>1
    <2>2. CASE k = n
      <3>1. a \in 1 .. Len(row) /\ Key(row[a]) = rows[k][a]
        BY <1>1, <2>2
      <3>2. CASE Key(row[a]) \in seen
        <4>1. PICK i \in 1 .. p : Key(output[i]) = rows[k][a]
          BY <1>3, <3>1, <3>2
        <4> QED BY <1>7, <4>1
      <3>3. CASE Key(row[a]) \notin seen
        <4>1. PICK b \in 1 .. q : g[b] = a
          BY <1>6, <3>1, <3>3
        <4> QED BY <1>6, <1>7, <3>1, <4>1
      <3> QED BY <3>2, <3>3
    <2> QED BY <2>1, <2>2
  <1> QED BY <1>2, <1>7, <1>10, <1>11, <1>12 DEF Gathering, row

LEMMA PathRelationsGather ==
    ASSUME NEW edges, AreEdges(edges),
           NEW rows, Len(rows) \in Nat, \A k \in 1 .. Len(rows) : IsPath(rows[k], edges),
           NEW direction
    PROVE  Gathering(PathRelations(rows, direction), rows, Len(rows))
  <1> DEFINE n == Len(rows)
             f == CHOOSE f : Gathers(f, rows, direction, n)
             bad == {m \in 0 .. n : ~Gathering(f[m], rows, m)}
  <1>1. Gathers(f, rows, direction, n)
    BY GatherExists
  <1>2. PathRelations(rows, direction) = f[n]
    BY DEF PathRelations, Gathers, Gathered
  <1> HIDE DEF f
  <1>3. bad = {}
    <2> SUFFICES ASSUME bad # {} PROVE FALSE
      OBVIOUS
    <2>1. PICK m \in bad : \A k \in bad : ~(k < m)
      <3>1. bad \subseteq Nat
        OBVIOUS
      <3> HIDE DEF bad
      <3> QED BY <3>1, Least
    <2>2. m \in 0 .. n /\ ~Gathering(f[m], rows, m)
      OBVIOUS
    <2>3. f[m] = IF m = 0 THEN <<>> ELSE Gathered(f[m - 1], RowRelations(rows[m], direction))
      <3> HIDE DEF bad
      <3> QED BY <1>1, <2>2 DEF Gathers
    <2>4. CASE m = 0
      <3>1. Gathering(<<>>, rows, 0)
        <4>1. Len(<<>>) = 0 /\ 1 .. 0 = {}
          OBVIOUS
        <4>2. IsList(<<>>)
          BY TuplesAreLists, Zenon
        <4> QED BY <4>1, <4>2 DEF Gathering
      <3> QED BY <2>2, <2>3, <2>4, <3>1
    <2>5. CASE m # 0
      <3>1. m \in Nat \ {0} /\ m \in 1 .. n /\ m - 1 \in 0 .. n /\ m - 1 \notin bad
        BY <2>1, <2>2, <2>5
      <3>2. Gathering(f[m - 1], rows, m - 1) /\ IsPath(rows[m], edges)
        BY <3>1
      <3>3. Gathering(Gathered(f[m - 1], RowRelations(rows[m], direction)), rows, m)
        BY <3>1, <3>2, GatheringGrows
      <3> QED BY <2>2, <2>3, <2>5, <3>3
    <2> QED BY <2>4, <2>5
  <1>4. Gathering(f[n], rows, n)
    BY <1>3
  <1> QED BY <1>2, <1>4

-----------------------------------------------------------------------------
LEMMA TraversedAreTraversals ==
    ASSUME NEW graph, NEW identifier, NEW direction, NEW kinds, NEW depth, NEW limit,
           NEW x \in Traversed(graph, identifier, direction, kinds, depth, limit)
    PROVE  \/ x = NotFound
           \/ \E roots : x \in Traversals(graph, roots, direction, kinds, depth, limit)
  BY Zenon DEF Traversed

LEMMA TracedAreTraversals ==
    ASSUME NEW graph, NEW name, NEW depth, NEW limit,
           NEW x \in TraceImports(graph, name, depth, limit)
    PROVE  \/ x = NotFound
           \/ \E roots : x \in Traversals(graph, roots, "outgoing", {"IMPORTS"}, depth, limit)
  <1> DEFINE found == Found(name, graph)
             modules == {e \in found : e.kind = "Module"}
             roots == {e.id : e \in {e \in modules : e.qualified = name}}
             traced == Traversals(graph, roots, "outgoing", {"IMPORTS"}, depth, limit)
             empty == {t \in traced : t.relations = <<>>}
  <1>1. \/ x \in IF modules = {} THEN traced \ empty ELSE traced
        \/ x \in {NotFound : t \in {t \in empty : modules = {} \/ modules # found}}
    BY Zenon DEF TraceImports
  <1> HIDE DEF traced
  <1> QED BY <1>1 DEF traced

(* A traversal asks for a direction and for kinds of relationships.        *)
LEMMA TraversalAnswers ==
    ASSUME Traverse
    PROVE  \/ answer' = NotFound
           \/ \E depth \in 1 .. MaxDepth : \E roots, direction, kinds :
                answer' \in Traversals(index, roots, direction, kinds, depth, RowLimit)
  <1>1. PICK depth \in 1 .. MaxDepth, identifier \in Roots \cup OtherNodes \cup Names :
            \/ Ask(GetDependencies(index, identifier, depth, RowLimit))
            \/ Ask(GetDependents(index, identifier, depth, RowLimit))
            \/ \E kind \in Kinds : Ask(FindRelated(index, identifier, kind, depth, RowLimit))
            \/ \E name \in Names : Ask(TraceImports(index, name, depth, RowLimit))
    BY DEF Traverse
  <1>2. CASE Ask(GetDependencies(index, identifier, depth, RowLimit))
    BY <1>2, TraversedAreTraversals DEF Ask, GetDependencies
  <1>3. CASE Ask(GetDependents(index, identifier, depth, RowLimit))
    BY <1>3, TraversedAreTraversals DEF Ask, GetDependents
  <1>4. CASE \E kind \in Kinds : Ask(FindRelated(index, identifier, kind, depth, RowLimit))
    BY <1>4, TraversedAreTraversals DEF Ask, FindRelated
  <1>5. CASE \E name \in Names : Ask(TraceImports(index, name, depth, RowLimit))
    BY <1>5, TracedAreTraversals DEF Ask
  <1> QED BY <1>1, <1>2, <1>3, <1>4, <1>5

(* Rows are trails, each once, and all of them when the limit leaves none  *)
(* out.                                                                    *)
LEMMA RowsAre ==
    ASSUME NEW edges, IsFiniteSet(edges), NEW roots, NEW direction,
           NEW depth \in Nat, NEW limit \in Nat,
           NEW rows \in Rows(edges, roots, direction, depth, limit)
    PROVE  LET T == Trails(edges, roots, direction, depth)
           IN /\ Len(rows) \in Nat
              /\ \A k \in 1 .. Len(rows) : rows[k] \in T
              /\ Cardinality(T) <= limit + 1 =>
                    \A t \in T : t # <<>> => \E k \in 1 .. Len(rows) : rows[k] = t
  <1> DEFINE T == Trails(edges, roots, direction, depth)
             trails == T \ {<<>>}
             count == IF Cardinality(trails) < limit THEN Cardinality(trails) ELSE limit
  <1>1. /\ rows \in [1 .. count -> trails]
        /\ \A i, j \in 1 .. count : i # j => rows[i] # rows[j]
    BY DEF Rows
  <1>2. IsFiniteSet(T) /\ <<>> \in T
    BY TrailsAreFinite
  <1> HIDE DEF T
  <1>3. /\ IsFiniteSet(trails) /\ Cardinality(trails) = Cardinality(T) - 1
        /\ Cardinality(trails) \in Nat /\ Cardinality(T) \in Nat
    <2>1. IsFiniteSet(trails) /\ Cardinality(trails) = Cardinality(T) - 1
      BY <1>2, FS_RemoveElement
    <2> HIDE DEF trails
    <2> QED BY <1>2, <2>1, FS_CardinalityType
  <1>4. count \in Nat
    BY <1>3
  <1>5. Len(rows) = count
    <2> HIDE DEF count, trails
    <2> QED BY <1>1, <1>4, IsASeq
  <1>6. \A k \in 1 .. count : rows[k] \in T
    BY <1>1
  <1>7. ASSUME Cardinality(T) <= limit + 1, NEW t \in T, t # <<>>
        PROVE  \E k \in 1 .. count : rows[k] = t
    <2>1. count = Cardinality(trails)
      BY <1>3, <1>7
    <2>2. t \in trails
      BY <1>7
    <2> HIDE DEF count, trails
    <2>3. rows \in Injection(1 .. count, trails)
      BY <1>1, Fun_IsInj
    <2>4. Cardinality(1 .. count) = count
      BY <1>4, FS_Interval
    <2>5. rows \in Surjection(1 .. count, trails)
      BY <1>3, <2>1, <2>3, <2>4, FS_Injection
    <2> QED BY <2>2, <2>5 DEF Surjection
  <1> QED BY <1>4, <1>5, <1>6, <1>7 DEF T

(* What TraversalIsBoundedReach says of one answer.                        *)
BoundedReach(given, edges, roots, direction, depth, limit) ==
    LET within(n) == Within(edges, direction, roots, n)
        all == {e \in edges : Near(e, direction) \in within(depth - 1)}
    IN /\ \A i \in DOMAIN given :
            /\ Key(given[i]) \in edges
            /\ given[i].depth \in 1..depth
            /\ Near(given[i], direction) \in within(given[i].depth - 1)
       /\ \A i, j \in DOMAIN given : Key(given[i]) = Key(given[j]) => i = j
       /\ Cardinality(Trails(edges, roots, direction, depth)) <= limit + 1
          => {Key(r) : r \in ToSet(given)} = all

LEMMA PathsAreBoundedReach ==
    ASSUME NEW edges, IsFiniteSet(edges), AreEdges(edges), NEW roots, NEW direction,
           NEW depth \in Nat \ {0}, NEW limit \in Nat,
           NEW rows \in Rows(edges, roots, direction, depth, limit)
    PROVE  BoundedReach(PathRelations(rows, direction), edges, roots, direction, depth, limit)
  <1> DEFINE T == Trails(edges, roots, direction, depth)
             given == PathRelations(rows, direction)
             within(n) == Within(edges, direction, roots, n)
             n == Len(rows)
             all == {e \in edges : Near(e, direction) \in within(depth - 1)}
  <1>1. /\ n \in Nat /\ \A k \in 1 .. n : rows[k] \in T
        /\ Cardinality(T) <= limit + 1 =>
              \A t \in T : t # <<>> => \E k \in 1 .. n : rows[k] = t
    BY RowsAre
  <1>2. ASSUME NEW t \in T
        PROVE  /\ IsPath(t, edges) /\ DOMAIN t = 1 .. Len(t)
               /\ \A a \in 1 .. Len(t) : a \in 1 .. depth /\ Near(t[a], direction) \in within(a - 1)
    <2>1. PICK m \in 0 .. depth : t \in [1 .. m -> edges]
      BY TrailsReach
    <2>2. t \in Seq(edges) /\ Len(t) = m /\ DOMAIN t = 1 .. m
      BY <2>1, IsASeq
    <2>3. /\ \A i, j \in DOMAIN t : t[i] = t[j] => i = j
          /\ \A i \in DOMAIN t : i \in 1 .. depth /\ Near(t[i], direction) \in within(i - 1)
      BY TrailsReach
    <2>4. IsPath(t, edges)
      BY <2>1, <2>2, <2>3, SequencesAreLists DEF IsPath
    <2> QED BY <2>2, <2>3, <2>4
  <1> HIDE DEF T
  <1>3. Gathering(given, rows, n)
    BY <1>1, <1>2, PathRelationsGather
  <1> HIDE DEF given, n
  <1>4. DOMAIN given = 1 .. Len(given)
    BY <1>3 DEF Gathering, IsList
  <1>5. ASSUME NEW i \in 1 .. Len(given)
        PROVE  /\ Key(given[i]) \in edges /\ given[i].depth \in 1 .. depth
               /\ Near(given[i], direction) \in within(given[i].depth - 1)
               /\ Near(Key(given[i]), direction) = Near(given[i], direction)
    <2>1. PICK k \in 1 .. n : \E a \in 1 .. Len(rows[k]) :
              Key(given[i]) = rows[k][a] /\ given[i].depth = a
      BY <1>3 DEF Gathering
    <2>2. PICK a \in 1 .. Len(rows[k]) : Key(given[i]) = rows[k][a] /\ given[i].depth = a
      BY <2>1
    <2>3. /\ rows[k][a] \in edges /\ a \in 1 .. depth
          /\ Near(rows[k][a], direction) \in within(a - 1)
      BY <1>1, <1>2 DEF IsPath
    <2>4. Near(Key(given[i]), direction) = Near(given[i], direction)
      BY DEF Near, Key
    <2> QED BY <2>2, <2>3, <2>4
  <1>6. \A i, j \in 1 .. Len(given) : Key(given[i]) = Key(given[j]) => i = j
    BY <1>3 DEF Gathering
  <1>7. {Key(r) : r \in ToSet(given)} = {Key(given[i]) : i \in 1 .. Len(given)}
    <2>1. ToSet(given) = {given[i] : i \in 1 .. Len(given)}
      BY <1>4 DEF ToSet
    <2> QED BY <2>1
  <1>8. ASSUME NEW i \in 1 .. Len(given)
        PROVE  Key(given[i]) \in all
    <2>1. within(given[i].depth - 1) \subseteq within(depth - 1)
      <3>1. given[i].depth - 1 \in Nat /\ depth - 1 \in Nat /\ given[i].depth - 1 <= depth - 1
        BY <1>5
      <3> QED BY <3>1, WithinGrows
    <2>2. Near(Key(given[i]), direction) \in within(depth - 1)
      BY <1>5, <2>1
    <2> QED BY <1>5, <2>2
  <1>9. ASSUME Cardinality(T) <= limit + 1, NEW e \in all
        PROVE  \E i \in 1 .. Len(given) : Key(given[i]) = e
    <2>1. PICK t \in T : \E a \in DOMAIN t : t[a] = e
      BY EdgesLieOnTrails DEF T
    <2>2. PICK a \in 1 .. Len(t) : t[a] = e
      BY <1>2, <2>1
    <2>3. PICK k \in 1 .. n : rows[k] = t
      <3>1. t # <<>>
        BY <2>2
      <3> QED BY <1>1, <1>9, <3>1
    <2> QED BY <1>3, <2>2, <2>3 DEF Gathering
  <1>10. Cardinality(T) <= limit + 1 => {Key(r) : r \in ToSet(given)} = all
    <2>1. {Key(given[i]) : i \in 1 .. Len(given)} \subseteq all
      <3> HIDE DEF all
      <3> QED BY <1>8
    <2>2. ASSUME Cardinality(T) <= limit + 1
          PROVE  all \subseteq {Key(given[i]) : i \in 1 .. Len(given)}
      <3> SUFFICES ASSUME NEW e \in all
                   PROVE  e \in {Key(given[i]) : i \in 1 .. Len(given)}
        OBVIOUS
      <3>1. PICK i \in 1 .. Len(given) : Key(given[i]) = e
        BY <1>9, <2>2
      <3> QED BY <3>1
    <2> HIDE DEF all
    <2> QED BY <1>7, <2>1, <2>2
  <1> HIDE DEF all
  <1> QED BY <1>4, <1>5, <1>6, <1>10 DEF BoundedReach, T, all, given

LEMMA TraverseAnswers ==
    ASSUME Traverse, index \in Graphs
    PROVE  TraversalIsBoundedReach'
  <1>1. index' = index /\ IsFiniteSet(index.relations) /\ RowLimit \in Nat /\ MaxDepth \in Nat
    BY GraphsAssumption, LimitAssumption DEF Traverse, Ask
  <1>2. CASE answer' = NotFound
    BY <1>2 DEF NotFound, TraversalIsBoundedReach
  <1>3. ASSUME NEW depth \in 1 .. MaxDepth, NEW roots, NEW direction, NEW kinds,
               answer' \in Traversals(index, roots, direction, kinds, depth, RowLimit),
               answer' # NotFound
        PROVE  TraversalIsBoundedReach'
    <2> DEFINE edges == Edges(index, kinds)
    <2>1. PICK rows \in Rows(edges, roots, direction, depth, RowLimit) :
              answer' = Traversal(roots, direction, kinds, depth, PathRelations(rows, direction))
      BY <1>3, Zenon DEF Traversals
    <2>2. IsFiniteSet(edges) /\ AreEdges(edges) /\ depth \in Nat \ {0}
      BY <1>1, EdgesAreFinite
    <2> HIDE DEF edges
    <2>3. BoundedReach(PathRelations(rows, direction), edges, roots, direction, depth, RowLimit)
      BY <1>1, <2>2, PathsAreBoundedReach
    <2>4. /\ answer'.kinds = kinds /\ answer'.roots = roots /\ answer'.direction = direction
          /\ answer'.depth = depth /\ answer'.relations = PathRelations(rows, direction)
      BY <2>1 DEF Traversal
    <2>5. BoundedReach(answer'.relations, Edges(index', answer'.kinds), answer'.roots,
                       answer'.direction, answer'.depth, RowLimit)
      BY <1>1, <2>3, <2>4 DEF edges
    <2>6. TraversalIsBoundedReach' <=>
            (answer'.is = "traversal" =>
               BoundedReach(answer'.relations, Edges(index', answer'.kinds), answer'.roots,
                            answer'.direction, answer'.depth, RowLimit))
      BY DEF TraversalIsBoundedReach, BoundedReach
    <2> QED BY <2>5, <2>6
  <1> QED BY <1>2, <1>3, TraversalAnswers

LEMMA SearchAnswers ==
    ASSUME Search, index \in Graphs
    PROVE  FusionRespectsLists'
  <1> DEFINE Asked(found, stale, semantic, relevant) ==
                LET exact == [i \in DOMAIN found |-> Hit(found[i], stale)]
                    relevance == [id \in {e.id : e \in ToSet(semantic)} |->
                                    IF \E e \in relevant : e.id = id THEN 1 ELSE 0]
                    reranked == Rerank([i \in DOMAIN semantic |-> Hit(semantic[i], {})], relevance)
                IN /\ \A i, j \in DOMAIN semantic : i # j => semantic[i] # semantic[j]
                   /\ Ask({[is |-> "search", exact |-> exact, semantic |-> reranked,
                            hits |-> HybridSearch(exact, reranked, HitLimit)]})
             candidates == {e \in index.entities : e.kind \in Searchable}
  <1>0. PICK name \in Words :
            \E found \in {FindEntity(index.entities, name, ExactLimit)} :
            \E stale \in SUBSET ToSet(found) :
            \E size \in 0 .. SemanticLimit :
            \E semantic \in [1 .. size -> candidates] :
            \E relevant \in SUBSET ToSet(semantic) : Asked(found, stale, semantic, relevant)
    BY DEF Search
  <1> DEFINE found == FindEntity(index.entities, name, ExactLimit)
  <1> HIDE DEF Asked, candidates
  <1>a. PICK stale \in SUBSET ToSet(found), size \in 0 .. SemanticLimit :
            \E semantic \in [1 .. size -> candidates] :
            \E relevant \in SUBSET ToSet(semantic) : Asked(found, stale, semantic, relevant)
    BY <1>0
  <1>b. PICK semantic \in [1 .. size -> candidates] :
            \E relevant \in SUBSET ToSet(semantic) : Asked(found, stale, semantic, relevant)
    BY <1>a
  <1>1. PICK relevant \in SUBSET ToSet(semantic) : Asked(found, stale, semantic, relevant)
    BY <1>b
  <1> DEFINE exact == [i \in DOMAIN found |-> Hit(found[i], stale)]
             relevance == [id \in {e.id : e \in ToSet(semantic)} |->
                             IF \E e \in relevant : e.id = id THEN 1 ELSE 0]
             unranked == [i \in DOMAIN semantic |-> Hit(semantic[i], {})]
             reranked == Rerank(unranked, relevance)
  <1>2. /\ \A i, j \in DOMAIN semantic : i # j => semantic[i] # semantic[j]
        /\ answer' = [is |-> "search", exact |-> exact, semantic |-> reranked,
                      hits |-> HybridSearch(exact, reranked, HitLimit)]
    BY <1>1 DEF Ask, Asked
  <1>3. /\ IsFiniteSet(index.entities) /\ HitLimit \in Nat /\ ExactLimit \in Nat
        /\ SemanticLimit \in Nat
        /\ \A a, b \in index.entities : a.id = b.id => a = b
    BY GraphsAssumption, LimitAssumption DEF ExactLimit
  <1>4. /\ IsList(found)
        /\ \A i \in 1 .. Len(found) : found[i] \in index.entities
        /\ \A i, j \in 1 .. Len(found) : found[i] = found[j] => i = j
    BY <1>3, FoundOnce
  <1> HIDE DEF found
  <1>5. IsList(exact) /\ DistinctIds(exact)
    <2>1. exact = [i \in DOMAIN found |-> exact[i]]
      OBVIOUS
    <2>2. DOMAIN found = 1 .. Len(found)
      BY <1>4 DEF IsList
    <2>3. \A i \in 1 .. Len(found) : exact[i].id = found[i].id
      BY <2>2 DEF Hit
    <2> HIDE DEF exact
    <2>4. IsList(exact) /\ Len(exact) = Len(found)
      BY <1>4, <2>1, Mapped
    <2> QED BY <1>3, <1>4, <2>3, <2>4 DEF DistinctIds
  <1>6. /\ IsList(unranked) /\ DistinctIds(unranked)
        /\ \A i \in 1 .. Len(unranked) : unranked[i].ours /\ relevance[unranked[i].id] \in Nat
    <2>1. IsList(semantic) /\ Len(semantic) = size /\ size \in Nat /\ DOMAIN semantic = 1 .. size
      <3>1. semantic \in Seq(candidates) /\ Len(semantic) = size
        BY <1>3, IsASeq
      <3> QED BY <1>3, <3>1, SequencesAreLists
    <2>2. \A i \in 1 .. size : semantic[i] \in index.entities
      BY DEF candidates
    <2>3. \A i \in 1 .. size : unranked[i].id = semantic[i].id /\ unranked[i].ours
      BY <2>1 DEF Hit
    <2>4. unranked = [i \in DOMAIN semantic |-> unranked[i]]
      OBVIOUS
    <2>5. \A i \in 1 .. size : relevance[semantic[i].id] \in Nat
      <3> TAKE i \in 1 .. size
      <3>1. semantic[i].id \in {e.id : e \in ToSet(semantic)}
        BY <2>1 DEF ToSet
      <3> QED BY <3>1
    <2> HIDE DEF unranked, relevance
    <2>6. IsList(unranked) /\ Len(unranked) = size
      BY <2>1, <2>4, Mapped
    <2>7. DistinctIds(unranked)
      <3>1. ASSUME NEW i \in 1 .. size, NEW j \in 1 .. size, unranked[i].id = unranked[j].id
            PROVE  i = j
        <4>1. semantic[i] = semantic[j]
          BY <1>3, <2>2, <2>3, <3>1
        <4> QED BY <1>2, <2>1, <4>1
      <3> QED BY <2>6, <3>1 DEF DistinctIds
    <2> QED BY <2>3, <2>5, <2>6, <2>7
  <1> HIDE DEF exact, relevance, unranked
  <1>7. IsList(reranked) /\ DistinctIds(reranked) /\ \A i \in 1 .. Len(reranked) : reranked[i].ours
    BY <1>6, RerankKeeps
  <1> HIDE DEF reranked
  <1>8. Respects(HybridSearch(exact, reranked, HitLimit), exact, reranked, HitLimit)
    BY <1>3, <1>5, <1>7, SearchRespectsLists
  <1>9. /\ answer'.exact = exact /\ answer'.semantic = reranked
        /\ answer'.hits = HybridSearch(exact, reranked, HitLimit)
    BY <1>2
  <1>10. Respects(answer'.hits, answer'.exact, answer'.semantic, HitLimit)
    BY <1>8, <1>9
  <1>11. FusionRespectsLists' <=>
            (answer'.is = "search" =>
                Respects(answer'.hits, answer'.exact, answer'.semantic, HitLimit))
    BY DEF FusionRespectsLists, Respects, OurIds
  <1> QED BY <1>10, <1>11

(* In every graph, whatever the two lists hold and in whatever order, the  *)
(* fused list of a hybrid search holds each entity of the asked revision   *)
(* once, fills its limit, and puts none behind one that it is better than. *)
THEOREM FusionRespectsTheLists ==
    QuerySpec => []FusionRespectsLists
  <1> DEFINE Inv == index \in Graphs /\ FusionRespectsLists
  <1>1. QueryInit => Inv
    BY DEF QueryInit, FusionRespectsLists, NoAnswer
  <1>2. ASSUME Inv, [QueryNext]_<<index, answer>>
        PROVE  Inv'
    <2>1. CASE UNCHANGED <<index, answer>>
      <3>1. index' = index /\ answer' = answer
        BY <2>1
      <3>2. FusionRespectsLists <=>
              (answer.is = "search" =>
                  Respects(answer.hits, answer.exact, answer.semantic, HitLimit))
        BY DEF FusionRespectsLists, Respects, OurIds
      <3>3. FusionRespectsLists' <=>
              (answer'.is = "search" =>
                  Respects(answer'.hits, answer'.exact, answer'.semantic, HitLimit))
        BY DEF FusionRespectsLists, Respects, OurIds
      <3> QED BY <1>2, <3>1, <3>2, <3>3
    <2>2. CASE Traverse
      <3>1. index' = index
        BY <2>2 DEF Traverse, Ask
      <3>2. answer'.is # "search"
        <4>1. CASE answer' = NotFound
          BY <4>1 DEF NotFound
        <4>2. ASSUME NEW depth, NEW roots, NEW direction, NEW kinds,
                     answer' \in Traversals(index, roots, direction, kinds, depth, RowLimit)
              PROVE  answer'.is # "search"
          <5>1. \E relations : answer' = Traversal(roots, direction, kinds, depth, relations)
            BY <4>2, Zenon DEF Traversals
          <5>2. ASSUME NEW relations,
                       answer' = Traversal(roots, direction, kinds, depth, relations)
                PROVE  answer'.is # "search"
            BY <5>2 DEF Traversal
          <5> QED BY <5>1, <5>2
        <4> QED BY <2>2, <4>1, <4>2, TraversalAnswers
      <3> QED BY <1>2, <3>1, <3>2 DEF FusionRespectsLists
    <2>3. CASE Search
      <3>1. index' = index
        BY <2>3 DEF Search, Ask
      <3> QED BY <1>2, <2>3, <3>1, SearchAnswers
    <2> QED BY <1>2, <2>1, <2>2, <2>3 DEF QueryNext
  <1>3. Inv => FusionRespectsLists
    OBVIOUS
  <1> QED BY <1>1, <1>2, <1>3, PTL DEF QuerySpec

(* In every graph, and whichever rows the database answers with, in        *)
(* whatever order, a traversal gives relationships of the graph only, each *)
(* once and at a depth no less than its distance; and it gives every one   *)
(* in reach, unless the LIMIT cuts rows off.                               *)
THEOREM TraversalIsTheReach ==
    QuerySpec => []TraversalIsBoundedReach
  <1> DEFINE Inv == index \in Graphs /\ TraversalIsBoundedReach
  <1>1. QueryInit => Inv
    BY DEF QueryInit, TraversalIsBoundedReach, NoAnswer
  <1>2. ASSUME Inv, [QueryNext]_<<index, answer>>
        PROVE  Inv'
    <2>1. CASE UNCHANGED <<index, answer>>
      <3>1. index' = index /\ answer' = answer
        BY <2>1
      <3>2. TraversalIsBoundedReach <=>
              (answer.is = "traversal" =>
                 BoundedReach(answer.relations, Edges(index, answer.kinds), answer.roots,
                              answer.direction, answer.depth, RowLimit))
        BY DEF TraversalIsBoundedReach, BoundedReach
      <3>3. TraversalIsBoundedReach' <=>
              (answer'.is = "traversal" =>
                 BoundedReach(answer'.relations, Edges(index', answer'.kinds), answer'.roots,
                              answer'.direction, answer'.depth, RowLimit))
        BY DEF TraversalIsBoundedReach, BoundedReach
      <3> QED BY <1>2, <3>1, <3>2, <3>3
    <2>2. CASE Traverse
      <3>1. index' = index
        BY <2>2 DEF Traverse, Ask
      <3> QED BY <1>2, <2>2, <3>1, TraverseAnswers
    <2>3. CASE Search
      <3>1. index' = index /\ answer'.is # "traversal"
        BY <2>3 DEF Search, Ask
      <3> QED BY <1>2, <3>1 DEF TraversalIsBoundedReach
    <2> QED BY <1>2, <2>1, <2>2, <2>3 DEF QueryNext
  <1>3. Inv => TraversalIsBoundedReach
    OBVIOUS
  <1> QED BY <1>1, <1>2, <1>3, PTL DEF QuerySpec
=============================================================================
