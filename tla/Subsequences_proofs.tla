-------------------------- MODULE Subsequences_proofs --------------------------
(***************************************************************************)
(* What Subsequence returns, for lists of any length, and facts about      *)
(* lists that other proofs need.                                           *)
(***************************************************************************)
EXTENDS Subsequences, SequenceTheorems, WellFoundedInduction, TLAPS

(* What Subsequence builds, index by index.                                *)
Builds(upTo, seq, keep, n) ==
    upTo = [i \in 0 .. n |-> IF i = 0 THEN <<>>
                             ELSE IF i \in keep THEN Append(upTo[i - 1], seq[i])
                                  ELSE upTo[i - 1]]

LEMMA Least ==
    ASSUME NEW bad, bad \subseteq Nat, bad # {}
    PROVE  \E n \in bad : \A m \in bad : ~(m < n)
  <1> DEFINE less == OpToRel(<, Nat)
  <1>1. IsWellFoundedOn(less, Nat)
    BY NatLessThanWellFounded
  <1>2. PICK n \in bad : \A m \in bad : <<m, n>> \notin less
    BY <1>1, WFMin, Zenon
  <1> QED BY <1>2 DEF OpToRel

(* There is something to build for every length: a shortest list that      *)
(* nothing builds would be one element longer than one that is built.      *)
LEMMA Buildable ==
    ASSUME NEW seq, NEW keep, NEW n \in Nat
    PROVE  \E f : Builds(f, seq, keep, n)
  <1> DEFINE bad == {m \in Nat : ~ \E f : Builds(f, seq, keep, m)}
  <1> SUFFICES ASSUME bad # {} PROVE FALSE
    OBVIOUS
  <1>1. PICK m \in bad : \A k \in bad : ~(k < m)
    <2>1. bad \subseteq Nat
      OBVIOUS
    <2> HIDE DEF bad
    <2> QED BY <2>1, Least
  <1>2. CASE m = 0
    <2>1. Builds([i \in 0 .. 0 |-> <<>>], seq, keep, 0)
      BY DEF Builds
    <2> QED BY <1>2, <2>1
  <1>3. CASE m # 0
    <2>1. PICK f : Builds(f, seq, keep, m - 1)
      BY <1>1, <1>3
    <2> DEFINE last == IF m \in keep THEN Append(f[m - 1], seq[m]) ELSE f[m - 1]
    <2>2. PICK g : g = [i \in 0 .. m |-> IF i = m THEN last ELSE f[i]]
      OBVIOUS
    <2>3. ASSUME NEW i \in 0 .. m
          PROVE  g[i] = IF i = 0 THEN <<>>
                        ELSE IF i \in keep THEN Append(g[i - 1], seq[i]) ELSE g[i - 1]
      <3>1. CASE i = m
        BY <1>3, <2>2, <3>1
      <3>2. CASE i # m
        <4>1. i \in 0 .. m - 1 /\ g[i] = f[i]
          BY <2>2, <3>2
        <4>2. i # 0 => g[i - 1] = f[i - 1]
          BY <2>2, <4>1
        <4>3. f[i] = IF i = 0 THEN <<>>
                     ELSE IF i \in keep THEN Append(f[i - 1], seq[i]) ELSE f[i - 1]
          BY <2>1, <4>1 DEF Builds
        <4> QED BY <4>1, <4>2, <4>3
      <3> QED BY <3>1, <3>2
    <2>4. Builds(g, seq, keep, m)
      BY <2>2, <2>3 DEF Builds
    <2> QED BY <2>4
  <1> QED BY <1>2, <1>3

LEMMA SubsequenceIsBuilt ==
    ASSUME NEW seq, NEW keep, Len(seq) \in Nat
    PROVE  \E f : Builds(f, seq, keep, Len(seq)) /\ Subsequence(seq, keep) = f[Len(seq)]
  <1> DEFINE f == CHOOSE g : Builds(g, seq, keep, Len(seq))
  <1>1. Builds(f, seq, keep, Len(seq))
    BY Buildable
  <1>2. Subsequence(seq, keep) = f[Len(seq)]
    BY DEF Subsequence, Builds
  <1> QED BY <1>1, <1>2

(* A subsequence is a sequence of elements that were to be kept.           *)
LEMMA SubsequenceKeeps ==
    ASSUME NEW S, NEW seq, Len(seq) \in Nat, NEW keep,
           \A i \in 1 .. Len(seq) : i \in keep => seq[i] \in S
    PROVE  Subsequence(seq, keep) \in Seq(S)
  <1>1. PICK f : Builds(f, seq, keep, Len(seq)) /\ Subsequence(seq, keep) = f[Len(seq)]
    BY SubsequenceIsBuilt
  <1> DEFINE bad == {m \in 0 .. Len(seq) : f[m] \notin Seq(S)}
  <1>2. CASE bad # {}
    <2>1. PICK m \in bad : \A k \in bad : ~(k < m)
      <3>1. bad \subseteq Nat
        OBVIOUS
      <3> HIDE DEF bad
      <3> QED BY <1>2, <3>1, Least
    <2>2. m # 0
      BY <1>1 DEF Builds
    <2>3. f[m - 1] \in Seq(S) /\ m \in 1 .. Len(seq) /\ m - 1 \in 0 .. Len(seq)
      BY <2>1, <2>2
    <2>4. f[m] = IF m \in keep THEN Append(f[m - 1], seq[m]) ELSE f[m - 1]
      BY <1>1, <2>2, <2>3 DEF Builds
    <2>5. f[m] \in Seq(S)
      BY <2>3, <2>4, AppendProperties
    <2> QED BY <2>5
  <1>3. CASE bad = {}
    BY <1>1, <1>3
  <1> QED BY <1>2, <1>3

-----------------------------------------------------------------------------
(* What a sequence is, without saying what it holds.                       *)
IsList(x) == Len(x) \in Nat /\ x = [i \in 1 .. Len(x) |-> x[i]]

LEMMA SequencesAreLists ==
    ASSUME NEW S, NEW x \in Seq(S)
    PROVE  IsList(x)
  BY DEF IsList

LEMMA Mapped ==
    ASSUME NEW x, IsList(x), NEW y, y = [i \in DOMAIN x |-> y[i]]
    PROVE  IsList(y) /\ Len(y) = Len(x)
  <1>1. DOMAIN x = 1 .. Len(x) /\ Len(x) \in Nat
    BY DEF IsList
  <1>2. y \in [1 .. Len(x) -> {y[i] : i \in 1 .. Len(x)}]
    BY <1>1
  <1>3. y \in Seq({y[i] : i \in 1 .. Len(x)}) /\ Len(y) = Len(x)
    BY <1>1, <1>2, IsASeq
  <1> QED BY <1>3, SequencesAreLists

LEMMA KeptIsList ==
    ASSUME NEW x, IsList(x), NEW keep
    PROVE  IsList(Subsequence(x, keep))
  <1>1. Subsequence(x, keep) \in Seq({x[i] : i \in 1 .. Len(x)})
    BY SubsequenceKeeps DEF IsList
  <1> QED BY <1>1, SequencesAreLists

LEMMA ConcatIsList ==
    ASSUME NEW x, IsList(x), NEW y, IsList(y)
    PROVE  IsList(x \o y) /\ Len(x \o y) = Len(x) + Len(y)
  <1> DEFINE S == {x[i] : i \in 1 .. Len(x)} \cup {y[i] : i \in 1 .. Len(y)}
  <1>1. x \in Seq(S) /\ y \in Seq(S)
    BY IsASeq DEF IsList
  <1> HIDE DEF S
  <1> QED BY <1>1, ConcatProperties, SequencesAreLists

LEMMA TuplesAreLists ==
    ASSUME NEW a, NEW b, NEW c, NEW d, NEW e, NEW f
    PROVE  /\ IsList(<<>>) /\ IsList(<<a>>) /\ IsList(<<a, b>>) /\ IsList(<<a, b, c>>)
           /\ IsList(<<a, b, c, d>>) /\ IsList(<<a, b, c, d, e, f>>)
  BY DEF IsList
-----------------------------------------------------------------------------
(* g takes the places of a subsequence to those that were kept, in order.  *)
Embeds(g, sub, seq, keep, m) ==
    /\ Len(sub) \in Nat /\ sub = [a \in 1 .. Len(sub) |-> seq[g[a]]]
    /\ g \in [1 .. Len(sub) -> 1 .. m]
    /\ \A a \in 1 .. Len(sub) : g[a] \in keep
    /\ \A a, b \in 1 .. Len(sub) : a < b => g[a] < g[b]
    /\ \A i \in 1 .. m : i \in keep => \E a \in 1 .. Len(sub) : g[a] = i

LEMMA EmbeddingGrows ==
    ASSUME NEW g, NEW sub, NEW seq, NEW keep, NEW m \in Nat \ {0},
           Embeds(g, sub, seq, keep, m - 1)
    PROVE  /\ m \notin keep => Embeds(g, sub, seq, keep, m)
           /\ m \in keep => \E h : Embeds(h, Append(sub, seq[m]), seq, keep, m)
  <1>1. CASE m \notin keep
    <2>1. g \in [1 .. Len(sub) -> 1 .. m]
      BY DEF Embeds
    <2>2. \A i \in 1 .. m : i \in keep => i \in 1 .. m - 1
      BY <1>1
    <2> QED BY <1>1, <2>1, <2>2 DEF Embeds
  <1>2. CASE m \in keep
    <2> DEFINE k == Len(sub)
               more == Append(sub, seq[m])
               h == [a \in 1 .. k + 1 |-> IF a = k + 1 THEN m ELSE g[a]]
    <2>1. k \in Nat /\ sub \in Seq({seq[g[a]] : a \in 1 .. k} \cup {seq[m]})
      BY IsASeq DEF Embeds
    <2>2. /\ Len(more) = k + 1 /\ more = [a \in 1 .. k + 1 |-> more[a]]
          /\ \A a \in 1 .. k : more[a] = sub[a]
          /\ more[k + 1] = seq[m]
      <3> DEFINE S == {seq[g[a]] : a \in 1 .. k} \cup {seq[m]}
      <3>1. seq[m] \in S /\ sub \in Seq(S)
        BY <2>1
      <3> HIDE DEF S
      <3> QED BY <2>1, <3>1, AppendProperties
    <2>3. \A a \in 1 .. k : h[a] = g[a] /\ g[a] \in 1 .. m - 1 /\ h[k + 1] = m
      BY <2>1 DEF Embeds
    <2>4. h \in [1 .. k + 1 -> 1 .. m] /\ h[k + 1] = m
      <3>1. \A a \in 1 .. k + 1 : a = k + 1 \/ a \in 1 .. k
        BY <2>1
      <3>2. h \in [1 .. k + 1 -> 1 .. m]
        <4>1. ASSUME NEW a \in 1 .. k + 1
              PROVE  (IF a = k + 1 THEN m ELSE g[a]) \in 1 .. m
          <5>1. CASE a = k + 1
            BY <5>1
          <5>2. CASE a # k + 1
            <6>1. a \in 1 .. k
              BY <3>1, <5>2
            <6>2. g[a] \in 1 .. m - 1
              BY <6>1 DEF Embeds
            <6> QED BY <5>2, <6>2
          <5> QED BY <5>1, <5>2
        <4> HIDE DEF k
        <4> QED BY <4>1
      <3> QED BY <2>1, <3>2
    <2>5. \A a \in 1 .. k + 1 : more[a] = seq[h[a]]
      BY <2>1, <2>2, <2>3, <2>4 DEF Embeds
    <2>6. \A a \in 1 .. k + 1 : h[a] \in keep
      BY <1>2, <2>1, <2>3, <2>4 DEF Embeds
    <2>7. \A a, b \in 1 .. k + 1 : a < b => h[a] < h[b]
      BY <2>1, <2>3, <2>4 DEF Embeds
    <2>8. ASSUME NEW i \in 1 .. m, i \in keep
          PROVE  \E a \in 1 .. k + 1 : h[a] = i
      <3>1. CASE i = m
        BY <2>1, <2>4, <3>1
      <3>2. CASE i # m
        BY <2>1, <2>3, <2>8, <3>2 DEF Embeds
      <3> QED BY <3>1, <3>2
    <2>9. Embeds(h, more, seq, keep, m)
      <3> HIDE DEF h, more, k
      <3>1. more = [a \in 1 .. k + 1 |-> seq[h[a]]]
        BY <2>2, <2>5
      <3> QED BY <2>1, <2>2, <2>4, <2>6, <2>7, <2>8, <3>1 DEF Embeds
    <2> QED BY <1>2, <2>9
  <1> QED BY <1>1, <1>2

(* A subsequence holds the kept elements, all of them, in their order.     *)
LEMMA SubsequenceEmbeds ==
    ASSUME NEW seq, Len(seq) \in Nat, NEW keep
    PROVE  \E g : Embeds(g, Subsequence(seq, keep), seq, keep, Len(seq))
  <1>1. PICK f : Builds(f, seq, keep, Len(seq)) /\ Subsequence(seq, keep) = f[Len(seq)]
    BY SubsequenceIsBuilt
  <1> DEFINE bad == {m \in 0 .. Len(seq) : ~ \E g : Embeds(g, f[m], seq, keep, m)}
  <1>2. CASE bad # {}
    <2>1. PICK m \in bad : \A k \in bad : ~(k < m)
      <3>1. bad \subseteq Nat
        OBVIOUS
      <3> HIDE DEF bad
      <3> QED BY <1>2, <3>1, Least
    <2>2. m # 0
      <3>1. f[0] = <<>>
        BY <1>1 DEF Builds
      <3>2. Embeds([a \in 1 .. 0 |-> 0], <<>>, seq, keep, 0)
        BY DEF Embeds
      <3> QED BY <2>1, <3>1, <3>2
    <2>3. m \in Nat \ {0} /\ m - 1 \in 0 .. Len(seq) /\ m - 1 \notin bad
      BY <2>1, <2>2
    <2>4. PICK g : Embeds(g, f[m - 1], seq, keep, m - 1)
      BY <2>3
    <2>5. f[m] = IF m \in keep THEN Append(f[m - 1], seq[m]) ELSE f[m - 1]
      BY <1>1, <2>1, <2>2 DEF Builds
    <2>6. \E h : Embeds(h, f[m], seq, keep, m)
      <3>1. CASE m \in keep
        <4>1. f[m] = Append(f[m - 1], seq[m])
          BY <2>5, <3>1
        <4>2. \E h : Embeds(h, Append(f[m - 1], seq[m]), seq, keep, m)
          BY <2>3, <2>4, <3>1, EmbeddingGrows
        <4> QED BY <4>1, <4>2
      <3>2. CASE m \notin keep
        <4>1. f[m] = f[m - 1] /\ Embeds(g, f[m - 1], seq, keep, m)
          BY <2>3, <2>4, <2>5, <3>2, EmbeddingGrows
        <4> QED BY <4>1
      <3> QED BY <3>1, <3>2, Zenon
    <2> QED BY <2>1, <2>6
  <1>3. CASE bad = {}
    BY <1>1, <1>3
  <1> QED BY <1>2, <1>3
=============================================================================
