--------------------------- MODULE SequenceLemmas ---------------------------
EXTENDS SequencesExt, SequenceTheorems, WellFoundedInduction, TLAPS

LEMMA NatInductionSet ==
    ASSUME NEW T, 0 \in T, \A n \in Nat : n \in T => n + 1 \in T
    PROVE  Nat \subseteq T
<1> SUFFICES ASSUME Nat \ T # {} PROVE FALSE
  OBVIOUS
<1> DEFINE N == Nat \ T
<1>1. PICK m \in N : \A k \in N : <<k, m>> \notin OpToRel(<, Nat)
  <2>1. N \subseteq Nat /\ N # {}
    OBVIOUS
  <2> HIDE DEF N
  <2> QED
    BY <2>1, WFMin, NatLessThanWellFounded, Zenon
<1>2. \A k \in N : ~(k < m)
  BY <1>1, Zenon DEF OpToRel
<1>3. m - 1 \in Nat /\ m - 1 < m
  OBVIOUS
<1>4. m - 1 \in T
  BY <1>2, <1>3
<1> QED
  BY <1>3, <1>4

(* What holds of <<>> and of Append(s, x) when it holds of s, holds of all. *)
LEMMA SeqInductionSet ==
    ASSUME NEW S, NEW T, <<>> \in T, \A s \in Seq(S), x \in S : s \in T => Append(s, x) \in T
    PROVE  Seq(S) \subseteq T
<1> DEFINE N == {n \in Nat : \A s \in Seq(S) : Len(s) = n => s \in T}
<1>1. 0 \in N
  BY \A s \in Seq(S) : Len(s) = 0 => s = <<>>
<1>2. ASSUME NEW n \in Nat, n \in N PROVE n + 1 \in N
  <2> SUFFICES ASSUME NEW s \in Seq(S), Len(s) = n + 1 PROVE s \in T
    OBVIOUS
  <2> DEFINE front == SubSeq(s, 1, n)
  <2>1. front \in Seq(S) /\ Len(front) = n /\ s[n + 1] \in S
    OBVIOUS
  <2>2. s = Append(front, s[n + 1])
    OBVIOUS
  <2>3. front \in T
    BY <1>2, <2>1
  <2> HIDE DEF front
  <2> QED
    BY <2>1, <2>2, <2>3
<1>3. Nat \subseteq N
  <2> HIDE DEF N
  <2> QED
    BY <1>1, <1>2, NatInductionSet
<1> QED
  BY <1>3

(* The function that FlattenSeq(seqs) computes, for its first n members. *)
IsFlattening(f, seqs, n) ==
    f = [i \in 1 .. n |-> IF i = 1 THEN seqs[i] ELSE f[i-1] \o seqs[i]]

LEMMA FlatteningExists ==
    ASSUME NEW S, NEW seqs \in Seq(Seq(S))
    PROVE  \E f \in [1 .. Len(seqs) -> Seq(S)] : IsFlattening(f, seqs, Len(seqs))
<1> DEFINE T == {n \in Nat : n <= Len(seqs) => \E f \in [1 .. n -> Seq(S)] : IsFlattening(f, seqs, n)}
<1>1. 0 \in T
  <2>1. IsFlattening(<<>>, seqs, 0) /\ <<>> \in [1 .. 0 -> Seq(S)]
    BY DEF IsFlattening
  <2> QED
    BY <2>1
<1>2. ASSUME NEW n \in Nat, n \in T PROVE n + 1 \in T
  <2> SUFFICES ASSUME n + 1 <= Len(seqs)
               PROVE  \E f \in [1 .. n + 1 -> Seq(S)] : IsFlattening(f, seqs, n + 1)
    OBVIOUS
  <2>1. PICK f \in [1 .. n -> Seq(S)] : IsFlattening(f, seqs, n)
    BY <1>2
  <2>2. seqs[n + 1] \in Seq(S)
    OBVIOUS
  <2> DEFINE last == IF n = 0 THEN seqs[n + 1] ELSE f[n] \o seqs[n + 1]
             g == [i \in 1 .. n + 1 |-> IF i = n + 1 THEN last ELSE f[i]]
  <2>3. last \in Seq(S)
    BY <2>2
  <2>4. g \in [1 .. n + 1 -> Seq(S)]
    BY <2>3
  <2>5. \A i \in 1 .. n : f[i] = IF i = 1 THEN seqs[i] ELSE f[i-1] \o seqs[i]
    BY <2>1 DEF IsFlattening
  <2>6. ASSUME NEW i \in 1 .. n + 1
        PROVE  g[i] = IF i = 1 THEN seqs[i] ELSE g[i-1] \o seqs[i]
    <3>1. CASE i \in 1 .. n
      <4>1. i # 1 => i - 1 \in 1 .. n
        BY <3>1
      <4>2. \A k \in 1 .. n : g[k] = f[k]
        <5> HIDE DEF last
        <5> QED
          OBVIOUS
      <4> HIDE DEF g
      <4> QED
        BY <2>5, <3>1, <4>1, <4>2, Zenon
    <3>2. CASE i = n + 1
      <4>1. g[i] = last /\ (i # 1 => i - 1 = n /\ g[n] = f[n] /\ n # 0) /\ (i = 1 => n = 0)
        BY <3>2
      <4> QED
        BY <3>2, <4>1, Zenon
    <3> QED
      BY <3>1, <3>2
  <2>7. g = [i \in 1 .. n + 1 |-> g[i]]
    OBVIOUS
  <2>8. IsFlattening(g, seqs, n + 1)
    BY <2>6, <2>7, Zenon DEF IsFlattening
  <2> HIDE DEF g
  <2> QED
    BY <2>4, <2>8
<1>3. Nat \subseteq T
  <2> HIDE DEF T
  <2> QED
    BY <1>1, <1>2, NatInductionSet
<1> QED
  BY <1>3

BeginsWith(s, t, m, n) == n \in Nat /\ m \in 1 .. n /\ \A i \in 1 .. m : s[i] = t[i]

SameAt(f, g, i) == f[i] = g[i]

LEMMA FlatteningUnique ==
    ASSUME NEW s, NEW t, NEW f, NEW g, NEW m, NEW n, BeginsWith(s, t, m, n),
           IsFlattening(f, s, m), IsFlattening(g, t, n)
    PROVE  SameAt(f, g, m)
<1> USE DEF BeginsWith, SameAt
<1> DEFINE T == {k \in Nat : k \in 1 .. m => f[k] = g[k]}
<1>1. 0 \in T
  OBVIOUS
<1>2. \A i \in 1 .. m : f[i] = IF i = 1 THEN s[i] ELSE f[i-1] \o s[i]
  BY DEF IsFlattening
<1>3. \A i \in 1 .. n : g[i] = IF i = 1 THEN t[i] ELSE g[i-1] \o t[i]
  BY DEF IsFlattening
<1>4. ASSUME NEW k \in Nat, k \in T PROVE k + 1 \in T
  <2>1. CASE k = 0
    BY <1>2, <1>3, <2>1
  <2>2. CASE k > 0
    BY <1>2, <1>3, <1>4, <2>2
  <2> QED
    BY <2>1, <2>2
<1>5. Nat \subseteq T
  <2> HIDE DEF T
  <2> QED
    BY <1>1, <1>4, NatInductionSet
<1> QED
  BY <1>5

LEMMA FlattenIsLast ==
    ASSUME NEW S, NEW seqs \in Seq(Seq(S)), seqs # <<>>
    PROVE  \E f \in [1 .. Len(seqs) -> Seq(S)] :
              IsFlattening(f, seqs, Len(seqs)) /\ FlattenSeq(seqs) = f[Len(seqs)]
<1> DEFINE f == CHOOSE f : IsFlattening(f, seqs, Len(seqs))
<1>1. IsFlattening(f, seqs, Len(seqs))
  BY FlatteningExists, Zenon
<1>2. FlattenSeq(seqs) = f[Len(seqs)]
  BY Len(seqs) # 0 DEF FlattenSeq, IsFlattening
<1>3. PICK g \in [1 .. Len(seqs) -> Seq(S)] : IsFlattening(g, seqs, Len(seqs))
  BY FlatteningExists
<1> HIDE DEF f
<1>4. SameAt(g, f, Len(seqs))
  <2>1. BeginsWith(seqs, seqs, Len(seqs), Len(seqs))
    BY DEF BeginsWith
  <2> QED
    BY <1>1, <1>3, <2>1, FlatteningUnique, Zenon
<1>5. IsFlattening(g, seqs, Len(seqs)) /\ FlattenSeq(seqs) = g[Len(seqs)]
  BY <1>2, <1>3, <1>4 DEF SameAt
<1> QED
  BY <1>5

(* Flattening, one member at a time. *)
LEMMA FlattenEmpty == FlattenSeq(<<>>) = <<>>
BY DEF FlattenSeq

LEMMA FlattenType ==
    ASSUME NEW S, NEW seqs \in Seq(Seq(S))
    PROVE  FlattenSeq(seqs) \in Seq(S)
<1>1. CASE seqs = <<>>
  <2>1. <<>> \in Seq(S)
    OBVIOUS
  <2> QED
    BY <1>1, <2>1, FlattenEmpty, Zenon
<1>2. CASE seqs # <<>>
  <2>1. PICK f \in [1 .. Len(seqs) -> Seq(S)] : FlattenSeq(seqs) = f[Len(seqs)]
    BY <1>2, FlattenIsLast, Zenon
  <2>2. Len(seqs) \in 1 .. Len(seqs)
    BY <1>2
  <2>3. f[Len(seqs)] \in Seq(S)
    BY <2>2, Zenon
  <2> QED
    BY <2>1, <2>3, Zenon
<1> QED
  BY <1>1, <1>2

LEMMA FlattenAppend ==
    ASSUME NEW S, NEW seqs \in Seq(Seq(S)), NEW seq \in Seq(S)
    PROVE  FlattenSeq(Append(seqs, seq)) = FlattenSeq(seqs) \o seq
<1> DEFINE t == Append(seqs, seq)
           n == Len(seqs)
           Q == Seq(S)
<1> HIDE DEF Q
<1>1. t \in Seq(Q) /\ t # <<>> /\ Len(t) = n + 1 /\ t[n + 1] = seq /\ \A i \in 1 .. n : t[i] = seqs[i]
  <2>1. seqs \in Seq(Q) /\ seq \in Q
    BY DEF Q
  <2> QED
    BY <2>1, AppendProperties
<1>2. n \in Nat /\ (seqs # <<>> <=> n # 0)
  OBVIOUS
<1> HIDE DEF t, n
<1>3. PICK g \in [1 .. n + 1 -> Seq(S)] : IsFlattening(g, t, n + 1) /\ FlattenSeq(t) = g[n + 1]
  BY <1>1, FlattenIsLast, Zenon DEF Q
<1>4. \A i \in 1 .. n + 1 : g[i] = IF i = 1 THEN t[i] ELSE g[i-1] \o t[i]
  BY <1>3, Zenon DEF IsFlattening
<1>5. CASE seqs = <<>>
  <2>1. g[1] = t[1] /\ n = 0
    BY <1>2, <1>4, <1>5
  <2>2. FlattenSeq(t) = seq
    BY <1>1, <1>3, <2>1
  <2>3. FlattenSeq(seqs) = <<>>
    BY <1>5, FlattenEmpty
  <2> QED
    BY <2>2, <2>3 DEF t
<1>6. CASE seqs # <<>>
  <2>1. PICK f \in [1 .. n -> Seq(S)] : IsFlattening(f, seqs, n) /\ FlattenSeq(seqs) = f[n]
    BY <1>6, FlattenIsLast, Zenon DEF n
  <2>2. PICK k \in Nat : k = n + 1
    BY <1>2
  <2>3. n \in 1 .. n /\ n <= k /\ k # 1 /\ k - 1 = n /\ k \in 1 .. k
    BY <1>2, <1>6, <2>2
  <2>4. SameAt(f, g, n)
    <3>1. BeginsWith(seqs, t, n, k)
      BY <1>1, <1>2, <2>2, <2>3 DEF BeginsWith
    <3>2. IsFlattening(g, t, k)
      BY <1>3, <2>2
    <3> QED
      BY <2>1, <3>1, <3>2, FlatteningUnique, Zenon
  <2>5. g[k] = g[n] \o t[k]
    BY <1>4, <2>2, <2>3, Zenon
  <2>6. FlattenSeq(t) = FlattenSeq(seqs) \o seq
    BY <1>1, <1>3, <2>1, <2>2, <2>3, <2>4, <2>5, Zenon DEF SameAt
  <2> QED
    BY <2>6 DEF t
<1> QED
  BY <1>5, <1>6

(* Flattening sequences one after the other. *)
Associates(a, b, c) == a \o (b \o c) = (a \o b) \o c

LEMMA ConcatAssociates ==
    ASSUME NEW S, NEW a \in Seq(S), NEW b \in Seq(S), NEW c \in Seq(S)
    PROVE  Associates(a, b, c)
BY ConcatAssociative DEF Associates

LEMMA FlattenConcat ==
    ASSUME NEW S, NEW s \in Seq(Seq(S)), NEW t \in Seq(Seq(S))
    PROVE  FlattenSeq(s \o t) = FlattenSeq(s) \o FlattenSeq(t)
<1> DEFINE Q == Seq(S)
           Holds(u) == FlattenSeq(s \o u) = FlattenSeq(s) \o FlattenSeq(u)
           T == {n \in Nat : \A u \in Seq(Q) : Len(u) = n => Holds(u)}
<1> HIDE DEF Q
<1>1. 0 \in T
  <2> SUFFICES ASSUME NEW u \in Seq(Q), Len(u) = 0 PROVE Holds(u)
    OBVIOUS
  <2>1. u = <<>>
    BY EmptySeq
  <2>2. s \o u = s /\ FlattenSeq(u) = <<>>
    BY <2>1, FlattenEmpty DEF Q
  <2>3. FlattenSeq(s) \o <<>> = FlattenSeq(s)
    <3>1. FlattenSeq(s) \in Seq(S)
      BY FlattenType, Zenon
    <3> QED
      BY <3>1
  <2> QED
    BY <2>2, <2>3, Zenon
<1>2. ASSUME NEW n \in Nat, n \in T PROVE n + 1 \in T
  <2> SUFFICES ASSUME NEW u \in Seq(Q), Len(u) = n + 1 PROVE Holds(u)
    OBVIOUS
  <2> DEFINE v == SubSeq(u, 1, n)
             x == u[n + 1]
  <2>1. v \in Seq(Q) /\ Len(v) = n /\ x \in Q /\ u = Append(v, x)
    <3>1. \A i \in 1 .. n : u[i] \in Q
      OBVIOUS
    <3>2. v \in Seq(Q) /\ Len(v) = n /\ \A i \in 1 .. n : v[i] = u[i]
      BY <3>1, SubSeqProperties
    <3>3. x \in Q
      OBVIOUS
    <3> HIDE DEF v, x
    <3>4. /\ Append(v, x) \in Seq(Q) /\ Len(Append(v, x)) = n + 1
          /\ \A i \in 1 .. n : Append(v, x)[i] = v[i]
          /\ Append(v, x)[n + 1] = x
      BY <3>2, <3>3, AppendProperties
    <3>5. \A i \in 1 .. n + 1 : u[i] = Append(v, x)[i]
      BY <3>2, <3>4 DEF x
    <3>6. u = Append(v, x)
      BY <3>4, <3>5, SeqEqual
    <3> QED
      BY <3>2, <3>3, <3>6
  <2> HIDE DEF v, x, Holds
  <2>2. Holds(v)
    BY <1>2, <2>1
  <2>3. s \o u = Append(s \o v, x) /\ s \o v \in Seq(Q) /\ s \in Seq(Q)
    <3>1. s \in Seq(Q)
      BY DEF Q
    <3> QED
      BY <2>1, <3>1
  <2>4. /\ FlattenSeq(s \o u) = FlattenSeq(s \o v) \o x
        /\ FlattenSeq(u) = FlattenSeq(v) \o x
    BY <2>1, <2>3, FlattenAppend, Zenon DEF Q
  <2>5. (FlattenSeq(s) \o FlattenSeq(v)) \o x = FlattenSeq(s) \o (FlattenSeq(v) \o x)
    <3>1. FlattenSeq(s) \in Seq(S) /\ FlattenSeq(v) \in Seq(S) /\ x \in Seq(S)
      BY <2>1, FlattenType, Zenon DEF Q
    <3>2. Associates(FlattenSeq(s), FlattenSeq(v), x)
      BY <3>1, ConcatAssociates, Zenon
    <3> QED
      BY <3>2, Zenon DEF Associates
  <2> QED
    BY <2>2, <2>4, <2>5, Zenon DEF Holds
<1>3. Nat \subseteq T
  <2> HIDE DEF T
  <2> QED
    BY <1>1, <1>2, NatInductionSet
<1>4. t \in Seq(Q) /\ Len(t) \in Nat
  BY DEF Q
<1> HIDE DEF Holds
<1> QED
  BY <1>3, <1>4 DEF Holds

(* Of one sequence, and of one and the rest. *)
LEMMA FlattenOne ==
    ASSUME NEW S, NEW s \in Seq(S)
    PROVE  FlattenSeq(<<s>>) = s
<1> DEFINE Q == Seq(S)
<1> HIDE DEF Q
<1>1. <<>> \in Seq(Q) /\ s \in Q
  BY DEF Q
<1>2. <<s>> = Append(<<>>, s)
  BY <1>1
<1>3. FlattenSeq(Append(<<>>, s)) = <<>> \o s
  BY <1>1, FlattenAppend, FlattenEmpty, Zenon DEF Q
<1>4. <<>> \o s = s
  BY ConcatEmptySeq, Zenon
<1> QED
  BY <1>2, <1>3, <1>4, Zenon


OneLonger(p, front, a) ==
    /\ Len(p) = Len(front) + 1 /\ p[Len(front) + 1] = a
    /\ \A i \in 1 .. Len(front) : p[i] = front[i]

IsAppend(p, front, a) == p = Append(front, a)

LEMMA AppendIsOneLonger ==
    ASSUME NEW Q, NEW p \in Seq(Q), NEW front \in Seq(Q), NEW a \in Q, OneLonger(p, front, a)
    PROVE  IsAppend(p, front, a)
<1> DEFINE q == Append(front, a)
<1>1. /\ q \in Seq(Q) /\ Len(q) = Len(front) + 1
      /\ q[Len(front) + 1] = a /\ \A i \in 1 .. Len(front) : q[i] = front[i]
  BY AppendProperties
<1> HIDE DEF q
<1>2. Len(p) = Len(q) /\ \A i \in 1 .. Len(p) : p[i] = q[i]
  BY <1>1 DEF OneLonger
<1>3. p = q
  BY <1>1, <1>2, SeqEqual
<1> QED
  BY <1>3 DEF IsAppend, q

(* The parts f gives the members of s, one after the other. *)
Collected(f, s) == FlattenSeq([i \in DOMAIN s |-> f[s[i]]])

Images(f, s) == [i \in DOMAIN s |-> f[s[i]]]

AreImages(p, T, f, s) ==
    /\ p \in Seq(Seq(T)) /\ Len(p) = Len(s)
    /\ \A i \in 1 .. Len(s) : p[i] = f[s[i]]

LEMMA ImagesType ==
    ASSUME NEW S, NEW T, NEW f \in [S -> Seq(T)], NEW s \in Seq(S)
    PROVE  AreImages(Images(f, s), T, f, s)
BY DEF Images, AreImages

LEMMA CollectedType ==
    ASSUME NEW S, NEW T, NEW f \in [S -> Seq(T)], NEW s \in Seq(S)
    PROVE  Collected(f, s) \in Seq(T)
<1>1. Images(f, s) \in Seq(Seq(T))
  BY ImagesType, Zenon DEF AreImages
<1> QED
  BY <1>1, FlattenType, Zenon DEF Collected, Images

LEMMA CollectedEmpty == ASSUME NEW f PROVE Collected(f, <<>>) = <<>>
<1>1. Images(f, <<>>) = <<>>
  BY DEF Images
<1> QED
  BY <1>1, FlattenEmpty, Zenon DEF Collected, Images

CollectsOneMore(f, s, x) == Collected(f, Append(s, x)) = Collected(f, s) \o f[x]

LEMMA CollectedAppend ==
    ASSUME NEW S, NEW T, NEW f \in [S -> Seq(T)], NEW s \in Seq(S), NEW x \in S
    PROVE  CollectsOneMore(f, s, x)
<1> DEFINE y == Append(s, x)
           p == Images(f, s)
           q == Images(f, y)
           r == Append(p, f[x])
<1>1. y \in Seq(S) /\ Len(y) = Len(s) + 1 /\ y[Len(s) + 1] = x /\ \A i \in 1 .. Len(s) : y[i] = s[i]
  OBVIOUS
<1>2. AreImages(p, T, f, s)
  BY ImagesType, Zenon
<1> HIDE DEF y
<1>3. AreImages(q, T, f, y)
  BY <1>1, ImagesType, Zenon
<1> HIDE DEF p, q
<1>4. p \in Seq(Seq(T)) /\ q \in Seq(Seq(T)) /\ f[x] \in Seq(T)
  BY <1>2, <1>3, Zenon DEF AreImages
<1>5. OneLonger(q, p, f[x])
  <2>1. Len(q) = Len(s) + 1 /\ Len(p) = Len(s) /\ q[Len(s) + 1] = f[x]
    BY <1>1, <1>2, <1>3 DEF AreImages
  <2>2. ASSUME NEW i \in 1 .. Len(s) PROVE q[i] = p[i]
    <3>1. i \in 1 .. Len(y)
      BY <1>1
    <3>2. q[i] = f[y[i]] /\ p[i] = f[s[i]]
      BY <1>2, <1>3, <3>1, Zenon DEF AreImages
    <3> QED
      BY <1>1, <3>2, Zenon
  <2> QED
    BY <2>1, <2>2 DEF OneLonger
<1>6. q = r
  BY <1>4, <1>5, AppendIsOneLonger, Zenon DEF IsAppend
<1>7. FlattenSeq(r) = FlattenSeq(p) \o f[x]
  BY <1>4, FlattenAppend, Zenon
<1> QED
  BY <1>6, <1>7, Zenon DEF CollectsOneMore, Collected, Images, p, q, y

(* Parts that stay the same, and a last one that grows. *)
CollectsSame(f, s, t) == Collected(f, s) = Collected(f, t)

LEMMA CollectedSame ==
    ASSUME NEW S, NEW T, NEW f \in [S -> Seq(T)], NEW s \in Seq(S), NEW t \in Seq(S),
           Len(s) = Len(t), \A i \in 1 .. Len(s) : f[s[i]] = f[t[i]]
    PROVE  CollectsSame(f, s, t)
<1>1. Images(f, s) = Images(f, t)
  BY DEF Images
<1> QED
  BY <1>1, Zenon DEF CollectsSame, Collected, Images

LastGrows(f, s, t, z) == Collected(f, t) = Collected(f, s) \o z

LEMMA CollectedLast ==
    ASSUME NEW S, NEW T, NEW f \in [S -> Seq(T)], NEW s \in Seq(S), NEW t \in Seq(S), NEW z \in Seq(T),
           NEW n \in Nat, Len(s) = n + 1, Len(t) = n + 1,
           \A i \in 1 .. n : f[s[i]] = f[t[i]],
           f[t[n + 1]] = f[s[n + 1]] \o z
    PROVE  LastGrows(f, s, t, z)
<1> DEFINE p == Images(f, s)
           q == Images(f, t)
           front == SubSeq(p, 1, n)
           a == f[s[n + 1]]
           b == f[t[n + 1]]
<1>1. a \in Seq(T) /\ b \in Seq(T) /\ b = a \o z
  OBVIOUS
<1>2. p \in Seq(Seq(T)) /\ Len(p) = n + 1 /\ \A i \in 1 .. n + 1 : p[i] = f[s[i]]
  <2>1. AreImages(p, T, f, s)
    BY ImagesType, Zenon
  <2> HIDE DEF p
  <2> QED
    BY <2>1 DEF AreImages
<1>3. q \in Seq(Seq(T)) /\ Len(q) = n + 1 /\ \A i \in 1 .. n + 1 : q[i] = f[t[i]]
  <2>1. AreImages(q, T, f, t)
    BY ImagesType, Zenon
  <2> HIDE DEF q
  <2> QED
    BY <2>1 DEF AreImages
<1> HIDE DEF p, q
<1>4. front \in Seq(Seq(T)) /\ Len(front) = n /\ \A i \in 1 .. n : front[i] = p[i]
  <2>1. \A i \in 1 .. n : p[i] \in Seq(T)
    BY <1>2
  <2> HIDE DEF front
  <2> QED
    BY <1>2, <2>1, SubSeqProperties DEF front
<1> HIDE DEF front, a, b
<1>5. p = Append(front, a)
  <2>1. OneLonger(p, front, a)
    BY <1>2, <1>4 DEF OneLonger, a
  <2> QED
    BY <1>1, <1>2, <1>4, <2>1, AppendIsOneLonger, Zenon DEF IsAppend
<1>6. q = Append(front, b)
  <2>1. ASSUME NEW i \in 1 .. n PROVE q[i] = front[i]
    <3>1. i \in 1 .. n + 1
      OBVIOUS
    <3>2. q[i] = f[t[i]] /\ p[i] = f[s[i]] /\ front[i] = p[i] /\ f[s[i]] = f[t[i]]
      BY <1>2, <1>3, <1>4, <3>1, Zenon
    <3> QED
      BY <3>2, Zenon
  <2>2. Len(q) = n + 1 /\ Len(front) = n /\ q[n + 1] = b
    BY <1>3, <1>4 DEF b
  <2>3. OneLonger(q, front, b)
    BY <2>1, <2>2 DEF OneLonger
  <2> QED
    BY <1>1, <1>3, <1>4, <2>3, AppendIsOneLonger, Zenon DEF IsAppend
<1>7. FlattenSeq(p) = FlattenSeq(front) \o a /\ FlattenSeq(q) = FlattenSeq(front) \o b
  BY <1>1, <1>4, <1>5, <1>6, FlattenAppend, Zenon
<1>8. Associates(FlattenSeq(front), a, z)
  <2>1. FlattenSeq(front) \in Seq(T)
    BY <1>4, FlattenType, Zenon
  <2> QED
    BY <1>1, <2>1, ConcatAssociates, Zenon
<1> QED
  BY <1>1, <1>7, <1>8, Zenon DEF LastGrows, Collected, Images, p, q, Associates

(* Two sequences one after the other. *)
CollectsBoth(f, s, t) == Collected(f, s \o t) = Collected(f, s) \o Collected(f, t)

LEMMA CollectedConcat ==
    ASSUME NEW S, NEW T, NEW f \in [S -> Seq(T)], NEW s \in Seq(S), NEW t \in Seq(S)
    PROVE  CollectsBoth(f, s, t)
<1> DEFINE Same == {u \in Seq(S) : CollectsBoth(f, s, u)}
<1>1. <<>> \in Same
  <2>1. Collected(f, s) \in Seq(T)
    BY CollectedType, Zenon
  <2>2. Collected(f, s) \o <<>> = Collected(f, s) /\ s \o <<>> = s /\ <<>> \in Seq(S)
    BY <2>1
  <2>3. CollectsBoth(f, s, <<>>)
    BY <2>2, CollectedEmpty, Zenon DEF CollectsBoth
  <2> QED
    BY <2>2, <2>3
<1>2. ASSUME NEW u \in Seq(S), NEW x \in S, u \in Same PROVE Append(u, x) \in Same
  <2>1. /\ s \o u \in Seq(S) /\ Append(u, x) \in Seq(S)
        /\ s \o Append(u, x) = Append(s \o u, x)
    OBVIOUS
  <2>2. CollectsOneMore(f, u, x) /\ CollectsOneMore(f, s \o u, x)
    BY <2>1, CollectedAppend, Zenon
  <2>3. Associates(Collected(f, s), Collected(f, u), f[x])
    <3>1. Collected(f, s) \in Seq(T) /\ Collected(f, u) \in Seq(T)
      BY CollectedType, Zenon
    <3>2. f[x] \in Seq(T)
      BY Zenon
    <3> QED
      BY <3>1, <3>2, ConcatAssociates, Zenon
  <2>4. CollectsBoth(f, s, u)
    BY <1>2
  <2>5. CollectsBoth(f, s, Append(u, x))
    BY <2>1, <2>2, <2>3, <2>4, Zenon DEF CollectsBoth, CollectsOneMore, Associates
  <2> QED
    BY <2>1, <2>5
<1>3. Seq(S) \subseteq Same
  <2> HIDE DEF Same
  <2> QED
    BY <1>1, <1>2, SeqInductionSet
<1> QED
  BY <1>3
=============================================================================
