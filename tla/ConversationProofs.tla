------------------------- MODULE ConversationProofs -------------------------
(***************************************************************************)
(* Proofs about Conversation, for conversations of any length: what the    *)
(* upstream is told of a history, whichever format the client keeps it in. *)
(***************************************************************************)
EXTENDS Conversation, SequenceLemmas, FiniteSetTheorems

(* The loop of parseResponsesInput, one item at a time. *)
IsParse(f, items, n) ==
    f = [i \in 0 .. n |-> IF i = 0 THEN NothingParsed ELSE Item(f[i - 1], items[i])]

LEMMA ParseExists ==
    ASSUME NEW items, NEW m \in Nat
    PROVE  \E f : IsParse(f, items, m)
<1> DEFINE T == {n \in Nat : \E f : IsParse(f, items, n)}
<1>1. 0 \in T
  <2>1. IsParse([i \in 0 .. 0 |-> NothingParsed], items, 0)
    BY DEF IsParse
  <2> QED
    BY <2>1
<1>2. ASSUME NEW n \in Nat, n \in T PROVE n + 1 \in T
  <2>1. PICK f : IsParse(f, items, n)
    BY <1>2
  <2>2. \A i \in 0 .. n : f[i] = IF i = 0 THEN NothingParsed ELSE Item(f[i - 1], items[i])
    BY <2>1 DEF IsParse
  <2> DEFINE last == Item(f[n], items[n + 1])
             g == [i \in 0 .. n + 1 |-> IF i = n + 1 THEN last ELSE f[i]]
  <2>3. ASSUME NEW i \in 0 .. n + 1
        PROVE  g[i] = IF i = 0 THEN NothingParsed ELSE Item(g[i - 1], items[i])
    <3> HIDE DEF last
    <3>1. CASE i \in 0 .. n
      <4>1. i # 0 => i - 1 \in 0 .. n
        BY <3>1
      <4>2. \A k \in 0 .. n : g[k] = f[k]
        OBVIOUS
      <4> HIDE DEF g
      <4> QED
        BY <2>2, <3>1, <4>1, <4>2, Zenon
    <3>2. CASE i = n + 1
      <4>1. g[i] = last /\ i - 1 = n /\ g[n] = f[n] /\ i # 0
        BY <3>2
      <4> QED
        BY <3>2, <4>1, Zenon DEF last
    <3> QED
      BY <3>1, <3>2
  <2>4. g = [i \in 0 .. n + 1 |-> g[i]]
    OBVIOUS
  <2>5. IsParse(g, items, n + 1)
    <3> HIDE DEF g
    <3> QED
      BY <2>3, <2>4, Zenon DEF IsParse
  <2> HIDE DEF g
  <2> QED
    BY <2>5
<1>3. Nat \subseteq T
  <2> HIDE DEF T
  <2> QED
    BY <1>1, <1>2, NatInductionSet
<1> QED
  BY <1>3

LEMMA ParseUnique ==
    ASSUME NEW s, NEW t, NEW f, NEW g, NEW m \in Nat, NEW n \in Nat, m <= n,
           \A i \in 1 .. m : s[i] = t[i],
           IsParse(f, s, m), IsParse(g, t, n)
    PROVE  SameAt(f, g, m)
<1> USE DEF SameAt
<1> DEFINE T == {k \in Nat : k \in 0 .. m => f[k] = g[k]}
<1>1. \A i \in 0 .. m : f[i] = IF i = 0 THEN NothingParsed ELSE Item(f[i - 1], s[i])
  BY DEF IsParse
<1>2. \A i \in 0 .. n : g[i] = IF i = 0 THEN NothingParsed ELSE Item(g[i - 1], t[i])
  BY DEF IsParse
<1>3. 0 \in T
  BY <1>1, <1>2
<1>4. ASSUME NEW k \in Nat, k \in T PROVE k + 1 \in T
  <2> SUFFICES ASSUME k + 1 \in 0 .. m PROVE f[k + 1] = g[k + 1]
    OBVIOUS
  <2>1. k + 1 \in 0 .. n /\ k + 1 \in 1 .. m /\ k + 1 # 0 /\ (k + 1) - 1 = k /\ k \in 0 .. m
    OBVIOUS
  <2>2. f[k] = g[k] /\ s[k + 1] = t[k + 1]
    BY <1>4, <2>1
  <2>3. f[k + 1] = Item(f[k], s[k + 1])
    BY <1>1, <2>1, Zenon
  <2>4. g[k + 1] = Item(g[k], t[k + 1])
    BY <1>2, <2>1, Zenon
  <2> QED
    BY <2>2, <2>3, <2>4, Zenon
<1>5. Nat \subseteq T
  <2> HIDE DEF T
  <2> QED
    BY <1>3, <1>4, NatInductionSet
<1> QED
  BY <1>5

LEMMA ParsedIsLast ==
    ASSUME NEW items, Len(items) \in Nat
    PROVE  \E f : IsParse(f, items, Len(items)) /\ Parsed(items) = f[Len(items)]
<1> DEFINE f == CHOOSE f : IsParse(f, items, Len(items))
<1>1. IsParse(f, items, Len(items))
  BY ParseExists, Zenon
<1>2. Parsed(items) = f[Len(items)]
  BY Zenon DEF Parsed, IsParse
<1> HIDE DEF f
<1> QED
  BY <1>1, <1>2

LEMMA ParsedEmpty == Parsed(<<>>) = NothingParsed
<1>1. Len(<<>>) = 0
  OBVIOUS
<1>2. PICK f : IsParse(f, <<>>, 0) /\ Parsed(<<>>) = f[0]
  BY <1>1, ParsedIsLast
<1>3. f[0] = NothingParsed
  BY <1>2 DEF IsParse
<1> QED
  BY <1>2, <1>3

ParsesOneMore(items, item) == Parsed(Append(items, item)) = Item(Parsed(items), item)

LEMMA ParsedAppend ==
    ASSUME NEW items \in Seq(Entries), NEW item \in Entries
    PROVE  ParsesOneMore(items, item)
<1> DEFINE t == Append(items, item)
<1>1. t \in Seq(Entries) /\ Len(t) = Len(items) + 1 /\ t[Len(items) + 1] = item
      /\ \A i \in 1 .. Len(items) : items[i] = t[i]
  BY AppendProperties
<1> HIDE DEF t
<1>2. Len(items) \in Nat /\ Len(t) \in Nat
  BY <1>1
<1>3. PICK f : IsParse(f, items, Len(items)) /\ Parsed(items) = f[Len(items)]
  BY <1>2, ParsedIsLast, Zenon
<1>4. PICK g : IsParse(g, t, Len(t)) /\ Parsed(t) = g[Len(t)]
  BY <1>2, ParsedIsLast, Zenon
<1>5. f[Len(items)] = g[Len(items)]
  <2>1. Len(items) <= Len(t)
    BY <1>1, <1>2
  <2>2. SameAt(f, g, Len(items))
    BY <1>1, <1>2, <1>3, <1>4, <2>1, ParseUnique, Zenon
  <2> QED
    BY <2>2 DEF SameAt
<1>6. g[Len(t)] = Item(g[Len(items)], item)
  <2>1. Len(t) \in 0 .. Len(t) /\ Len(t) # 0 /\ Len(t) - 1 = Len(items)
    BY <1>1, <1>2
  <2>2. \A i \in 0 .. Len(t) : g[i] = IF i = 0 THEN NothingParsed ELSE Item(g[i - 1], t[i])
    BY <1>4, Zenon DEF IsParse
  <2>3. g[Len(t)] = Item(g[Len(t) - 1], t[Len(t)])
    BY <2>1, <2>2, Zenon
  <2>4. t[Len(t)] = item
    BY <1>1
  <2> QED
    BY <2>1, <2>3, <2>4, Zenon
<1> QED
  BY <1>3, <1>4, <1>5, <1>6, Zenon DEF ParsesOneMore, t

-----------------------------------------------------------------------------
(* The blocks of some kinds, and their tags. *)
KindPart(kinds) == [b \in Blocks |-> IF b.kind \in kinds THEN <<b>> ELSE <<>>]

OfKind(kinds) == {b \in Blocks : b.kind \in kinds}

OnlyOne(kinds, b) == IF b.kind \in kinds THEN <<b>> ELSE <<>>

LEMMA KindPartType == ASSUME NEW kinds PROVE KindPart(kinds) \in [Blocks -> Seq(OfKind(kinds))]
<1>1. ASSUME NEW b \in Blocks PROVE (IF b.kind \in kinds THEN <<b>> ELSE <<>>) \in Seq(OfKind(kinds))
  <2>1. CASE b.kind \in kinds
    BY <2>1 DEF OfKind
  <2>2. CASE b.kind \notin kinds
    BY <2>2
  <2> QED
    BY <2>1, <2>2
<1> QED
  BY <1>1, Zenon DEF KindPart

LEMMA OnlyCollects ==
    ASSUME NEW kinds, NEW s \in Seq(Blocks)
    PROVE  Only(kinds, s) = Collected(KindPart(kinds), s)
<1>1. \A i \in DOMAIN s : s[i] \in Blocks
  OBVIOUS
<1>2. [i \in DOMAIN s |-> IF s[i].kind \in kinds THEN <<s[i]>> ELSE <<>>]
          = [i \in DOMAIN s |-> KindPart(kinds)[s[i]]]
  BY <1>1, Zenon DEF KindPart
<1> QED
  BY <1>2, Zenon DEF Only, Collected

LEMMA OnlyOfKind ==
    ASSUME NEW kinds, NEW s \in Seq(Blocks)
    PROVE  Only(kinds, s) \in Seq(OfKind(kinds))
<1>1. Only(kinds, s) = Collected(KindPart(kinds), s)
  BY OnlyCollects, Zenon
<1>2. Collected(KindPart(kinds), s) \in Seq(OfKind(kinds))
  BY KindPartType, CollectedType, Zenon
<1> QED
  BY <1>1, <1>2, Zenon

LEMMA OnlyType ==
    ASSUME NEW kinds, NEW s \in Seq(Blocks)
    PROVE  Only(kinds, s) \in Seq(Blocks)
<1>1. OfKind(kinds) \subseteq Blocks
  BY DEF OfKind
<1>2. Only(kinds, s) \in Seq(OfKind(kinds))
  BY OnlyOfKind, Zenon
<1> QED
  BY <1>1, <1>2

LEMMA OnlyEmpty == ASSUME NEW kinds PROVE Only(kinds, <<>>) = <<>>
<1>1. <<>> \in Seq(Blocks)
  OBVIOUS
<1>2. Only(kinds, <<>>) = Collected(KindPart(kinds), <<>>)
  BY <1>1, OnlyCollects, Zenon
<1> QED
  BY <1>2, CollectedEmpty, Zenon

KeepsOne(kinds, s, b) == Only(kinds, Append(s, b)) = Only(kinds, s) \o OnlyOne(kinds, b)

LEMMA OnlyAppend ==
    ASSUME NEW kinds, NEW s \in Seq(Blocks), NEW b \in Blocks
    PROVE  KeepsOne(kinds, s, b)
<1>1. Append(s, b) \in Seq(Blocks)
  OBVIOUS
<1>2. Only(kinds, s) = Collected(KindPart(kinds), s)
  BY OnlyCollects, Zenon
<1>3. Only(kinds, Append(s, b)) = Collected(KindPart(kinds), Append(s, b))
  BY <1>1, OnlyCollects, Zenon
<1>4. CollectsOneMore(KindPart(kinds), s, b)
  BY KindPartType, CollectedAppend, Zenon
<1>5. KindPart(kinds)[b] = OnlyOne(kinds, b)
  BY DEF KindPart, OnlyOne
<1> QED
  BY <1>2, <1>3, <1>4, <1>5, Zenon DEF KeepsOne, CollectsOneMore

KeepsBoth(kinds, s, t) == Only(kinds, s \o t) = Only(kinds, s) \o Only(kinds, t)

LEMMA OnlyConcat ==
    ASSUME NEW kinds, NEW s \in Seq(Blocks), NEW t \in Seq(Blocks)
    PROVE  KeepsBoth(kinds, s, t)
<1>1. s \o t \in Seq(Blocks)
  OBVIOUS
<1>2. /\ Only(kinds, s) = Collected(KindPart(kinds), s)
      /\ Only(kinds, t) = Collected(KindPart(kinds), t)
      /\ Only(kinds, s \o t) = Collected(KindPart(kinds), s \o t)
  BY <1>1, OnlyCollects, Zenon
<1>3. CollectsBoth(KindPart(kinds), s, t)
  BY KindPartType, CollectedConcat, Zenon
<1> QED
  BY <1>2, <1>3, Zenon DEF KeepsBoth, CollectsBoth

(* A coarser choice first changes nothing. *)
KeepsTwice(kinds, more, s) == Only(kinds, Only(more, s)) = Only(kinds, s)

LEMMA OnlyTwice ==
    ASSUME NEW kinds, NEW more, kinds \subseteq more, NEW s \in Seq(Blocks)
    PROVE  KeepsTwice(kinds, more, s)
<1> DEFINE Same == {u \in Seq(Blocks) : KeepsTwice(kinds, more, u)}
<1>1. <<>> \in Same
  <2>1. KeepsTwice(kinds, more, <<>>)
    BY OnlyEmpty, Zenon DEF KeepsTwice
  <2> QED
    BY <2>1
<1>2. ASSUME NEW u \in Seq(Blocks), NEW b \in Blocks, u \in Same PROVE Append(u, b) \in Same
  <2>1. Append(u, b) \in Seq(Blocks) /\ <<b>> \in Seq(Blocks) /\ <<>> \in Seq(Blocks)
    OBVIOUS
  <2>2. KeepsOne(kinds, u, b) /\ KeepsOne(more, u, b)
    BY OnlyAppend, Zenon
  <2>3. OnlyOne(more, b) \in Seq(Blocks)
    BY <2>1, Zenon DEF OnlyOne
  <2>4. KeepsBoth(kinds, Only(more, u), OnlyOne(more, b))
    BY <2>3, OnlyType, OnlyConcat, Zenon
  <2>5. Only(kinds, OnlyOne(more, b)) = OnlyOne(kinds, b)
    <3>1. CASE b.kind \in more
      <4>1. KeepsOne(kinds, <<>>, b)
        BY <2>1, OnlyAppend, Zenon
      <4>2. Append(<<>>, b) = <<b>>
        OBVIOUS
      <4>3. <<>> \o OnlyOne(kinds, b) = OnlyOne(kinds, b)
        BY ConcatEmptySeq, <2>1, Zenon DEF OnlyOne
      <4> QED
        BY <3>1, <4>1, <4>2, <4>3, OnlyEmpty, Zenon DEF KeepsOne, OnlyOne
    <3>2. CASE b.kind \notin more
      BY <3>2, OnlyEmpty, Zenon DEF OnlyOne
    <3> QED
      BY <3>1, <3>2
  <2>6. KeepsTwice(kinds, more, u)
    BY <1>2
  <2>7. KeepsTwice(kinds, more, Append(u, b))
    BY <2>2, <2>4, <2>5, <2>6, Zenon DEF KeepsTwice, KeepsOne, KeepsBoth
  <2> QED
    BY <2>1, <2>7
<1>3. Seq(Blocks) \subseteq Same
  <2> HIDE DEF Same
  <2> QED
    BY <1>1, <1>2, SeqInductionSet
<1> QED
  BY <1>3

TagOf(kind, b) == IF b.kind = kind THEN {b.tag} ELSE {}

TagsListed(kind, s) ==
    \A t : t \in Tags(kind, s) <=> \E i \in 1 .. Len(s) : s[i].kind = kind /\ s[i].tag = t

LEMMA TagsAre ==
    ASSUME NEW kind, NEW s \in Seq(Blocks)
    PROVE  TagsListed(kind, s)
<1>1. DOMAIN s = 1 .. Len(s)
  OBVIOUS
<1>2. \A b : b \in ToSet(s) <=> \E i \in 1 .. Len(s) : b = s[i]
  BY <1>1, Zenon DEF ToSet
<1> SUFFICES ASSUME NEW t
             PROVE  t \in Tags(kind, s) <=> \E i \in 1 .. Len(s) : s[i].kind = kind /\ s[i].tag = t
  BY DEF TagsListed
<1>3. ASSUME t \in Tags(kind, s) PROVE \E i \in 1 .. Len(s) : s[i].kind = kind /\ s[i].tag = t
  <2>1. PICK b \in ToSet(s) : b.kind = kind /\ b.tag = t
    BY <1>3, Zenon DEF Tags
  <2> QED
    BY <1>2, <2>1, Zenon
<1>4. ASSUME NEW i \in 1 .. Len(s), s[i].kind = kind, s[i].tag = t PROVE t \in Tags(kind, s)
  <2>1. s[i] \in ToSet(s)
    BY <1>2, Zenon
  <2> QED
    BY <1>4, <2>1, Zenon DEF Tags
<1> QED
  BY <1>3, <1>4, Zenon

LEMMA TagsEmpty == ASSUME NEW kind PROVE Tags(kind, <<>>) = {}
<1>1. <<>> \in Seq(Blocks) /\ Len(<<>>) = 0
  OBVIOUS
<1>2. TagsListed(kind, <<>>)
  BY <1>1, TagsAre, Zenon
<1>3. \A i : i \notin 1 .. 0
  OBVIOUS
<1> QED
  BY <1>1, <1>2, <1>3, Zenon DEF TagsListed

TagsOneMore(kind, s, b) == Tags(kind, Append(s, b)) = Tags(kind, s) \cup TagOf(kind, b)

LEMMA TagsAppend ==
    ASSUME NEW kind, NEW s \in Seq(Blocks), NEW b \in Blocks
    PROVE  TagsOneMore(kind, s, b)
<1> DEFINE u == Append(s, b)
<1>1. u \in Seq(Blocks) /\ Len(u) = Len(s) + 1 /\ u[Len(s) + 1] = b
      /\ \A i \in 1 .. Len(s) : u[i] = s[i]
  OBVIOUS
<1> HIDE DEF u
<1>2. TagsListed(kind, s) /\ TagsListed(kind, u)
  BY <1>1, TagsAre, Zenon
<1>3. ASSUME NEW t PROVE t \in Tags(kind, u) <=> t \in Tags(kind, s) \cup TagOf(kind, b)
  <2>1. t \in Tags(kind, s) <=> \E i \in 1 .. Len(s) : s[i].kind = kind /\ s[i].tag = t
    BY <1>2, Zenon DEF TagsListed
  <2>2. t \in Tags(kind, u) <=> \E i \in 1 .. Len(u) : u[i].kind = kind /\ u[i].tag = t
    BY <1>2, Zenon DEF TagsListed
  <2>3. t \in TagOf(kind, b) <=> b.kind = kind /\ b.tag = t
    BY DEF TagOf
  <2>4. \A i : i \in 1 .. Len(u) <=> i \in 1 .. Len(s) \/ i = Len(s) + 1
    BY <1>1
  <2> QED
    BY <1>1, <2>1, <2>2, <2>3, <2>4, Zenon
<1> QED
  BY <1>3, Zenon DEF TagsOneMore, u

TagsBoth(kind, s, t) == Tags(kind, s \o t) = Tags(kind, s) \cup Tags(kind, t)

LEMMA TagsConcat ==
    ASSUME NEW kind, NEW s \in Seq(Blocks), NEW t \in Seq(Blocks)
    PROVE  TagsBoth(kind, s, t)
<1> DEFINE Same == {u \in Seq(Blocks) : TagsBoth(kind, s, u)}
<1>1. <<>> \in Same
  <2>1. s \o <<>> = s /\ <<>> \in Seq(Blocks)
    OBVIOUS
  <2>2. TagsBoth(kind, s, <<>>)
    BY <2>1, TagsEmpty, Zenon DEF TagsBoth
  <2> QED
    BY <2>1, <2>2
<1>2. ASSUME NEW u \in Seq(Blocks), NEW b \in Blocks, u \in Same PROVE Append(u, b) \in Same
  <2>1. /\ s \o u \in Seq(Blocks) /\ Append(u, b) \in Seq(Blocks)
        /\ s \o Append(u, b) = Append(s \o u, b)
    OBVIOUS
  <2>2. TagsOneMore(kind, u, b) /\ TagsOneMore(kind, s \o u, b)
    BY <2>1, TagsAppend, Zenon
  <2>3. TagsBoth(kind, s, u)
    BY <1>2
  <2>4. TagsBoth(kind, s, Append(u, b))
    BY <2>1, <2>2, <2>3, Zenon DEF TagsBoth, TagsOneMore
  <2> QED
    BY <2>1, <2>4
<1>3. Seq(Blocks) \subseteq Same
  <2> HIDE DEF Same
  <2> QED
    BY <1>1, <1>2, SeqInductionSet
<1> QED
  BY <1>3

KeepsTags(kinds, kind, s) == Tags(kind, Only(kinds, s)) = Tags(kind, s)

LEMMA OnlyKeepsTags ==
    ASSUME NEW kinds, NEW kind \in kinds, NEW s \in Seq(Blocks)
    PROVE  KeepsTags(kinds, kind, s)
<1> DEFINE Same == {u \in Seq(Blocks) : KeepsTags(kinds, kind, u)}
<1>1. <<>> \in Same
  <2>1. KeepsTags(kinds, kind, <<>>)
    BY OnlyEmpty, TagsEmpty, Zenon DEF KeepsTags
  <2> QED
    BY <2>1
<1>2. ASSUME NEW u \in Seq(Blocks), NEW b \in Blocks, u \in Same PROVE Append(u, b) \in Same
  <2>1. Append(u, b) \in Seq(Blocks) /\ <<b>> \in Seq(Blocks) /\ <<>> \in Seq(Blocks)
    OBVIOUS
  <2>2. KeepsOne(kinds, u, b) /\ TagsOneMore(kind, u, b)
    BY OnlyAppend, TagsAppend, Zenon
  <2>3. Tags(kind, OnlyOne(kinds, b)) = TagOf(kind, b)
    <3>1. CASE b.kind \in kinds
      <4>1. TagsOneMore(kind, <<>>, b)
        BY <2>1, TagsAppend, Zenon
      <4>2. Append(<<>>, b) = <<b>>
        OBVIOUS
      <4> QED
        BY <3>1, <4>1, <4>2, TagsEmpty, Zenon DEF TagsOneMore, OnlyOne
    <3>2. CASE b.kind \notin kinds
      BY <3>2, TagsEmpty, Zenon DEF OnlyOne, TagOf
    <3> QED
      BY <3>1, <3>2
  <2>4. OnlyOne(kinds, b) \in Seq(Blocks)
    BY <2>1, Zenon DEF OnlyOne
  <2>5. TagsBoth(kind, Only(kinds, u), OnlyOne(kinds, b))
    BY <2>4, OnlyType, TagsConcat, Zenon
  <2>6. KeepsTags(kinds, kind, u)
    BY <1>2
  <2>7. KeepsTags(kinds, kind, Append(u, b))
    BY <2>2, <2>3, <2>5, <2>6, Zenon DEF KeepsTags, KeepsOne, TagsOneMore, TagsBoth
  <2> QED
    BY <2>1, <2>7
<1>3. Seq(Blocks) \subseteq Same
  <2> HIDE DEF Same
  <2> QED
    BY <1>1, <1>2, SeqInductionSet
<1> QED
  BY <1>3

-----------------------------------------------------------------------------
(* What the entries of a history say. *)
LEMMA BlockType == ASSUME NEW kind \in Kinds, NEW t \in Nat PROVE Block(kind, t) \in Blocks
BY DEF Block, Blocks

LEMMA KindsOfBlocks == {"text", "image", "raw", "tool_use", "tool_result"} \subseteq Kinds
BY DEF Kinds

IsMessage(e) == e.type = "message" /\ e.role \in Roles /\ e.content \in Seq(Blocks)

LEMMA MessageParts == ASSUME NEW e \in Messages PROVE IsMessage(e)
BY DEF Messages, IsMessage

IsEntry(e) ==
    \/ IsMessage(e)
    \/ e.type \in {"function_call", "function_call_output"} /\ e.tag \in Nat
    \/ e.type = "" /\ e.role \in Roles /\ e.content \in Seq(Blocks)

LEMMA EntryParts == ASSUME NEW e \in Entries PROVE IsEntry(e)
<1>1. CASE e \in Messages
  BY <1>1, MessageParts, Zenon DEF IsEntry
<1>2. CASE e \in [type : {"function_call", "function_call_output"}, tag : Nat]
  BY <1>2 DEF IsEntry
<1>3. CASE e \in [type : {""}, role : Roles, content : Seq(Blocks)]
  BY <1>3 DEF IsEntry
<1> QED
  BY <1>1, <1>2, <1>3 DEF Entries

LEMMA EmptyIn == ASSUME NEW S PROVE <<>> \in Seq(S)
OBVIOUS

LEMMA SaidType == ASSUME NEW e \in Entries PROVE Heard(e) \in Seq(Blocks)
<1>1. IsEntry(e)
  BY EntryParts, Zenon
<1>2. CASE IsMessage(e)
  BY <1>2, Zenon DEF IsMessage, Heard
<1>3. CASE e.type = "function_call" /\ e.tag \in Nat
  <2>1. Block("tool_use", e.tag) \in Blocks
    BY <1>3, BlockType, KindsOfBlocks
  <2>2. Heard(e) = <<Block("tool_use", e.tag)>>
    BY <1>3 DEF Heard
  <2> QED
    BY <2>1, <2>2
<1>4. CASE e.type = "function_call_output" /\ e.tag \in Nat
  <2>1. Block("tool_result", e.tag) \in Blocks
    BY <1>4, BlockType, KindsOfBlocks
  <2>2. Heard(e) = <<Block("tool_result", e.tag)>>
    BY <1>4 DEF Heard
  <2> QED
    BY <2>1, <2>2
<1>5. CASE e.type = ""
  <2>1. Heard(e) = <<>>
    BY <1>5 DEF Heard
  <2> QED
    BY <2>1, EmptyIn, Zenon
<1> QED
  BY <1>1, <1>2, <1>3, <1>4, <1>5 DEF IsEntry

SaidPart == [e \in Entries |-> Heard(e)]

LEMMA SaidPartType == SaidPart \in [Entries -> Seq(Blocks)]
BY SaidType, Zenon DEF SaidPart

LEMMA BlocksCollect ==
    ASSUME NEW s \in Seq(Entries)
    PROVE  HeardOf(s) = Collected(SaidPart, s)
<1>1. \A i \in DOMAIN s : s[i] \in Entries
  OBVIOUS
<1>2. [i \in DOMAIN s |-> Heard(s[i])] = [i \in DOMAIN s |-> SaidPart[s[i]]]
  BY <1>1, Zenon DEF SaidPart
<1> QED
  BY <1>2, Zenon DEF HeardOf, Collected

LEMMA BlocksType == ASSUME NEW s \in Seq(Entries) PROVE HeardOf(s) \in Seq(Blocks)
<1>1. HeardOf(s) = Collected(SaidPart, s)
  BY BlocksCollect, Zenon
<1>2. Collected(SaidPart, s) \in Seq(Blocks)
  BY SaidPartType, CollectedType, Zenon
<1> QED
  BY <1>1, <1>2, Zenon

LEMMA BlocksEmpty == HeardOf(<<>>) = <<>>
<1>1. <<>> \in Seq(Entries)
  OBVIOUS
<1>2. HeardOf(<<>>) = Collected(SaidPart, <<>>)
  BY <1>1, BlocksCollect, Zenon
<1> QED
  BY <1>2, CollectedEmpty, Zenon

SaysOneMore(s, e) == HeardOf(Append(s, e)) = HeardOf(s) \o Heard(e)

LEMMA BlocksAppend ==
    ASSUME NEW s \in Seq(Entries), NEW e \in Entries
    PROVE  SaysOneMore(s, e)
<1>1. Append(s, e) \in Seq(Entries)
  OBVIOUS
<1>2. HeardOf(s) = Collected(SaidPart, s) /\ HeardOf(Append(s, e)) = Collected(SaidPart, Append(s, e))
  BY <1>1, BlocksCollect, Zenon
<1>3. CollectsOneMore(SaidPart, s, e)
  BY SaidPartType, CollectedAppend, Zenon
<1>4. SaidPart[e] = Heard(e)
  BY DEF SaidPart
<1> QED
  BY <1>2, <1>3, <1>4, Zenon DEF SaysOneMore, CollectsOneMore

SaysBoth(s, t) == HeardOf(s \o t) = HeardOf(s) \o HeardOf(t)

LEMMA BlocksConcat ==
    ASSUME NEW s \in Seq(Entries), NEW t \in Seq(Entries)
    PROVE  SaysBoth(s, t)
<1>1. s \o t \in Seq(Entries)
  OBVIOUS
<1>2. /\ HeardOf(s) = Collected(SaidPart, s)
      /\ HeardOf(t) = Collected(SaidPart, t)
      /\ HeardOf(s \o t) = Collected(SaidPart, s \o t)
  BY <1>1, BlocksCollect, Zenon
<1>3. CollectsBoth(SaidPart, s, t)
  BY SaidPartType, CollectedConcat, Zenon
<1> QED
  BY <1>2, <1>3, Zenon DEF SaysBoth, CollectsBoth

(* The tags of a history are those of its entries. *)
TagsSaidBoth(kind, s, t) ==
    Tags(kind, HeardOf(s \o t)) = Tags(kind, HeardOf(s)) \cup Tags(kind, HeardOf(t))

LEMMA TagsOfConcat ==
    ASSUME NEW kind, NEW s \in Seq(Entries), NEW t \in Seq(Entries)
    PROVE  TagsSaidBoth(kind, s, t)
<1>1. SaysBoth(s, t)
  BY BlocksConcat, Zenon
<1>2. TagsBoth(kind, HeardOf(s), HeardOf(t))
  BY BlocksType, TagsConcat, Zenon
<1> QED
  BY <1>1, <1>2, Zenon DEF TagsSaidBoth, SaysBoth, TagsBoth

TagsSaidOneMore(kind, s, e) ==
    Tags(kind, HeardOf(Append(s, e))) = Tags(kind, HeardOf(s)) \cup Tags(kind, Heard(e))

LEMMA TagsOfAppend ==
    ASSUME NEW kind, NEW s \in Seq(Entries), NEW e \in Entries
    PROVE  TagsSaidOneMore(kind, s, e)
<1>1. SaysOneMore(s, e)
  BY BlocksAppend, Zenon
<1>2. TagsBoth(kind, HeardOf(s), Heard(e))
  BY BlocksType, SaidType, TagsConcat, Zenon
<1> QED
  BY <1>1, <1>2, Zenon DEF TagsSaidOneMore, SaysOneMore, TagsBoth

(* What entries say of some kinds. *)
ToldPart(kinds) == [e \in Entries |-> Only(kinds, Heard(e))]

LEMMA ToldPartType == ASSUME NEW kinds PROVE ToldPart(kinds) \in [Entries -> Seq(Blocks)]
<1>1. ASSUME NEW e \in Entries PROVE Only(kinds, Heard(e)) \in Seq(Blocks)
  BY SaidType, OnlyType, Zenon
<1> QED
  BY <1>1, Zenon DEF ToldPart

TellsParts(kinds, s) == Only(kinds, HeardOf(s)) = Collected(ToldPart(kinds), s)

LEMMA OnlyOfBlocks ==
    ASSUME NEW kinds, NEW s \in Seq(Entries)
    PROVE  TellsParts(kinds, s)
<1> DEFINE Same == {u \in Seq(Entries) : TellsParts(kinds, u)}
<1>1. <<>> \in Same
  <2>1. TellsParts(kinds, <<>>)
    BY BlocksEmpty, OnlyEmpty, CollectedEmpty, Zenon DEF TellsParts
  <2> QED
    BY <2>1
<1>2. ASSUME NEW u \in Seq(Entries), NEW e \in Entries, u \in Same PROVE Append(u, e) \in Same
  <2>1. Append(u, e) \in Seq(Entries)
    OBVIOUS
  <2>2. SaysOneMore(u, e)
    BY BlocksAppend, Zenon
  <2>3. KeepsBoth(kinds, HeardOf(u), Heard(e))
    BY BlocksType, SaidType, OnlyConcat, Zenon
  <2>4. CollectsOneMore(ToldPart(kinds), u, e)
    BY ToldPartType, CollectedAppend, Zenon
  <2>5. ToldPart(kinds)[e] = Only(kinds, Heard(e))
    BY DEF ToldPart
  <2>6. TellsParts(kinds, u)
    BY <1>2
  <2>7. TellsParts(kinds, Append(u, e))
    BY <2>2, <2>3, <2>4, <2>5, <2>6, Zenon DEF TellsParts, SaysOneMore, KeepsBoth, CollectsOneMore
  <2> QED
    BY <2>1, <2>7
<1>3. Seq(Entries) \subseteq Same
  <2> HIDE DEF Same
  <2> QED
    BY <1>1, <1>2, SeqInductionSet
<1> QED
  BY <1>3

-----------------------------------------------------------------------------
(* The steps of the loop: a message is added, or the last one grows. *)
LEMMA MessageType ==
    ASSUME NEW role \in Roles, NEW c \in Seq(Blocks)
    PROVE  Message(role, c) \in Messages
BY DEF Message, Messages

LEMMA MessagesAreEntries == Messages \subseteq Entries /\ Seq(Messages) \subseteq Seq(Entries)
<1>1. Messages \subseteq Entries
  BY DEF Entries
<1> QED
  BY <1>1

Speaks(m, n, role, c) ==
    /\ n \in Seq(Messages) /\ Len(n) = Len(m) + 1
    /\ \A i \in 1 .. Len(m) : n[i] = m[i]
    /\ n[Len(m) + 1].role = role /\ n[Len(m) + 1].content = c

LEMMA AppendSpeaks ==
    ASSUME NEW m \in Seq(Messages), NEW role \in Roles, NEW c \in Seq(Blocks)
    PROVE  Speaks(m, Append(m, Message(role, c)), role, c)
<1>1. Message(role, c) \in Messages /\ Message(role, c).role = role /\ Message(role, c).content = c
  BY MessageType DEF Message
<1> DEFINE x == Message(role, c)
<1> HIDE DEF x
<1>2. x \in Messages
  BY <1>1 DEF x
<1>3. /\ Append(m, x) \in Seq(Messages) /\ Len(Append(m, x)) = Len(m) + 1
      /\ \A i \in 1 .. Len(m) : Append(m, x)[i] = m[i]
      /\ Append(m, x)[Len(m) + 1] = x
  BY <1>2, AppendProperties
<1> QED
  BY <1>1, <1>3, Zenon DEF Speaks, x

Joins(m, n, b) ==
    /\ n \in Seq(Messages) /\ Len(n) = Len(m)
    /\ \A i \in 1 .. Len(m) : i # Len(m) => n[i] = m[i]
    /\ Last(n).role = Last(m).role /\ Last(n).content = Append(Last(m).content, b)

Joined(m, b) == [m EXCEPT ![Len(m)].content = Append(@, b)]

LEMMA JoinedJoins ==
    ASSUME NEW m \in Seq(Messages), m # <<>>, NEW b \in Blocks
    PROVE  Joins(m, Joined(m, b), b)
<1> DEFINE n == Joined(m, b)
           c == Append(Last(m).content, b)
           x == [Last(m) EXCEPT !.content = c]
<1>1. Len(m) \in 1 .. Len(m) /\ Last(m) \in Messages
  BY DEF Last
<1>2. IsMessage(Last(m))
  BY <1>1, MessageParts, Zenon
<1>3. c \in Seq(Blocks)
  BY <1>2 DEF IsMessage
<1>4. n = [m EXCEPT ![Len(m)] = x]
  BY DEF Joined, Last
<1> HIDE DEF c
<1>5. x \in Messages /\ x.role = Last(m).role /\ x.content = c
  BY <1>1, <1>3 DEF Messages
<1> HIDE DEF x, n
<1>6. /\ n \in Seq(Messages) /\ Len(n) = Len(m)
      /\ \A i \in 1 .. Len(m) : i # Len(m) => n[i] = m[i]
      /\ n[Len(m)] = x
  BY <1>1, <1>4, <1>5
<1> QED
  BY <1>5, <1>6, Zenon DEF Joins, Last, n, c

Grouping == {"function_call", "function_call_output"}
Runs == {"none", "message"} \cup Grouping

RunRole(run) == IF run = "function_call" THEN "assistant" ELSE "user"

Accs == [messages : Seq(Messages), run : Runs]

IsAcc(acc) ==
    /\ acc \in Accs
    /\ acc.run \in Grouping => acc.messages # <<>> /\ Last(acc.messages).role = RunRole(acc.run)

LEMMA NothingIsAcc == IsAcc(NothingParsed)
BY DEF IsAcc, Accs, NothingParsed, Runs, Grouping

(* One item: a message, a block in a group of its own, or one that joins it. *)
ItemBlock(item) ==
    IF item.type = "function_call" THEN Block("tool_use", item.tag) ELSE Block("tool_result", item.tag)

Groups(acc, new, type, role, b) ==
    /\ new.run = type
    /\ acc.run = type => Joins(acc.messages, new.messages, b)
    /\ acc.run # type => new.messages = Append(acc.messages, Message(role, <<b>>))

LEMMA GroupedGroups ==
    ASSUME NEW acc, IsAcc(acc), NEW type \in Grouping, NEW role, NEW b \in Blocks
    PROVE  Groups(acc, Grouped(acc.messages, acc.run, type, role, b), type, role, b)
<1> DEFINE new == Grouped(acc.messages, acc.run, type, role, b)
<1>1. new.run = type
  BY DEF Grouped
<1>2. CASE acc.run = type
  <2>1. new.messages = Joined(acc.messages, b)
    BY <1>2, Zenon DEF Grouped, Joined
  <2>2. acc.messages \in Seq(Messages) /\ acc.messages # <<>>
    BY <1>2 DEF IsAcc, Accs
  <2>3. Joins(acc.messages, Joined(acc.messages, b), b)
    BY <2>2, JoinedJoins, Zenon
  <2> HIDE DEF new
  <2> QED
    BY <1>1, <1>2, <2>1, <2>3, Zenon DEF Groups, new
<1>3. CASE acc.run # type
  <2>1. new.messages = Append(acc.messages, Message(role, <<b>>))
    BY <1>3, Zenon DEF Grouped
  <2> HIDE DEF new
  <2> QED
    BY <1>1, <1>3, <2>1, Zenon DEF Groups, new
<1> QED
  BY <1>2, <1>3

ItemDoes(acc, item) ==
    LET new == Item(acc, item)
    IN  /\ item.type = "message" =>
             new.messages = Append(acc.messages, Message(item.role, TextParts(item.content))) /\ new.run = "message"
        /\ item.type \in Grouping => Groups(acc, new, item.type, RunRole(item.type), ItemBlock(item))
        /\ item.type = "" => new.messages = acc.messages /\ new.run = "none"

LEMMA ItemBlockType ==
    ASSUME NEW item \in Entries, item.type \in Grouping
    PROVE  ItemBlock(item) \in Blocks
<1>1. item.tag \in Nat
  BY EntryParts DEF IsEntry, IsMessage, Grouping
<1> QED
  BY <1>1, BlockType, KindsOfBlocks DEF ItemBlock

LEMMA ItemSteps ==
    ASSUME NEW acc, IsAcc(acc), NEW item \in Entries
    PROVE  ItemDoes(acc, item)
<1>1. CASE item.type = "message"
  BY <1>1 DEF ItemDoes, Item, Grouping
<1>2. CASE item.type = "function_call"
  <2>1. Item(acc, item) = Grouped(acc.messages, acc.run, item.type, RunRole(item.type), ItemBlock(item))
    BY <1>2 DEF Item, RunRole, ItemBlock
  <2>2. item.type \in Grouping
    BY <1>2 DEF Grouping
  <2>3. Groups(acc, Item(acc, item), item.type, RunRole(item.type), ItemBlock(item))
    BY <2>1, <2>2, ItemBlockType, GroupedGroups, Zenon
  <2> QED
    BY <1>2, <2>3 DEF ItemDoes
<1>3. CASE item.type = "function_call_output"
  <2>1. Item(acc, item) = Grouped(acc.messages, acc.run, item.type, RunRole(item.type), ItemBlock(item))
    BY <1>3 DEF Item, RunRole, ItemBlock
  <2>2. item.type \in Grouping
    BY <1>3 DEF Grouping
  <2>3. Groups(acc, Item(acc, item), item.type, RunRole(item.type), ItemBlock(item))
    BY <2>1, <2>2, ItemBlockType, GroupedGroups, Zenon
  <2> QED
    BY <1>3, <2>3 DEF ItemDoes
<1>4. CASE item.type = ""
  <2>1. Item(acc, item) = [acc EXCEPT !.run = "none"]
    BY <1>4 DEF Item
  <2> QED
    BY <1>4, <2>1 DEF ItemDoes, Grouping, IsAcc, Accs
<1> QED
  BY <1>1, <1>2, <1>3, <1>4, EntryParts DEF IsEntry, IsMessage

LEMMA TextPartsType ==
    ASSUME NEW c \in Seq(Blocks)
    PROVE  TextParts(c) \in Seq(Blocks)
<1>1. Only({"text"}, c) \in Seq(Blocks)
  BY OnlyType, Zenon
<1>2. CASE Only({"text"}, c) # <<>> \/ c = <<>>
  BY <1>1, <1>2, Zenon DEF TextParts
<1>3. CASE ~(Only({"text"}, c) # <<>> \/ c = <<>>)
  <2>1. c[1] \in Blocks
    BY <1>3
  <2>2. c[1].tag \in Nat
    BY <2>1 DEF Blocks
  <2>3. Block("raw", c[1].tag) \in Blocks
    BY <2>2, BlockType, KindsOfBlocks
  <2>4. TextParts(c) = <<Block("raw", c[1].tag)>>
    BY <1>3, Zenon DEF TextParts
  <2> QED
    BY <2>3, <2>4
<1> QED
  BY <1>2, <1>3

AddsTo(acc, item) ==
    LET new == Item(acc, item)
    IN  /\ item.type = "message" => Speaks(acc.messages, new.messages, item.role, TextParts(item.content))
        /\ item.type \in Grouping =>
              IF acc.run = item.type
              THEN Joins(acc.messages, new.messages, ItemBlock(item))
              ELSE Speaks(acc.messages, new.messages, RunRole(item.type), <<ItemBlock(item)>>)
        /\ item.type = "" => new.messages = acc.messages

LEMMA ItemAdds ==
    ASSUME NEW acc, IsAcc(acc), NEW item \in Entries
    PROVE  AddsTo(acc, item)
<1>1. ItemDoes(acc, item)
  BY ItemSteps, Zenon
<1>2. acc.messages \in Seq(Messages)
  BY DEF IsAcc, Accs
<1>3. CASE item.type = "message"
  <2>1. item.role \in Roles /\ item.content \in Seq(Blocks)
    BY <1>3, EntryParts DEF IsEntry, IsMessage
  <2>2. TextParts(item.content) \in Seq(Blocks)
    BY <2>1, TextPartsType, Zenon
  <2>3. Speaks(acc.messages, Append(acc.messages, Message(item.role, TextParts(item.content))),
               item.role, TextParts(item.content))
    BY <1>2, <2>1, <2>2, AppendSpeaks, Zenon
  <2> QED
    BY <1>1, <1>3, <2>3 DEF ItemDoes, AddsTo, Grouping
<1>4. CASE item.type \in Grouping
  <2> DEFINE b == ItemBlock(item)
             role == RunRole(item.type)
  <2>1. b \in Blocks
    BY <1>4, ItemBlockType, Zenon
  <2>2. role \in Roles
    BY DEF RunRole, Roles
  <2> HIDE DEF b, role
  <2>3. <<b>> \in Seq(Blocks)
    BY <2>1
  <2>4. Speaks(acc.messages, Append(acc.messages, Message(role, <<b>>)), role, <<b>>)
    BY <1>2, <2>2, <2>3, AppendSpeaks, Zenon
  <2>5. Groups(acc, Item(acc, item), item.type, role, b)
    BY <1>1, <1>4, Zenon DEF ItemDoes, b, role
  <2>6. item.type # "message" /\ item.type # ""
    BY <1>4 DEF Grouping
  <2> QED
    BY <1>4, <2>4, <2>5, <2>6, Zenon DEF Groups, AddsTo, b, role
<1>5. CASE item.type = ""
  BY <1>1, <1>5 DEF ItemDoes, AddsTo, Grouping
<1> QED
  BY <1>3, <1>4, <1>5, EntryParts DEF IsEntry, IsMessage, Grouping

LEMMA ItemShape ==
    ASSUME NEW acc, acc \in Accs, NEW item \in Entries
    PROVE  Item(acc, item) = [messages |-> Item(acc, item).messages, run |-> Item(acc, item).run]
BY EntryParts DEF IsEntry, IsMessage, Item, Grouped, Accs

LEMMA ItemType ==
    ASSUME NEW acc, IsAcc(acc), NEW item \in Entries
    PROVE  IsAcc(Item(acc, item))
<1> DEFINE new == Item(acc, item)
<1>1. ItemDoes(acc, item) /\ AddsTo(acc, item)
  BY ItemSteps, ItemAdds, Zenon
<1>2. acc.messages \in Seq(Messages) /\ acc \in Accs
  BY DEF IsAcc, Accs
<1>3. new = [messages |-> new.messages, run |-> new.run]
  BY <1>2, ItemShape, Zenon
<1>4. CASE item.type = "message"
  <2>1. new.run = "message" /\ new.messages \in Seq(Messages)
    BY <1>1, <1>4, Zenon DEF ItemDoes, AddsTo, Speaks
  <2> HIDE DEF new
  <2>2. new \in Accs
    BY <1>3, <2>1 DEF Accs, Runs
  <2> QED
    BY <2>1, <2>2 DEF new, IsAcc, Grouping
<1>5. CASE item.type \in Grouping
  <2>1. new.run = item.type
    BY <1>1, <1>5, Zenon DEF ItemDoes, Groups
  <2>2. CASE acc.run = item.type
    <3>1. Joins(acc.messages, new.messages, ItemBlock(item))
      BY <1>1, <1>5, <2>2, Zenon DEF AddsTo
    <3>2. acc.messages # <<>> /\ Last(acc.messages).role = RunRole(acc.run)
      BY <1>5, <2>2 DEF IsAcc
    <3> HIDE DEF new
    <3>3. new.messages \in Seq(Messages) /\ Len(new.messages) = Len(acc.messages) /\ Last(new.messages).role = RunRole(new.run)
      BY <2>1, <2>2, <3>1, <3>2, Zenon DEF Joins
    <3>4. new.messages # <<>>
      BY <1>2, <3>2, <3>3
    <3>5. new \in Accs
      BY <1>3, <1>5, <2>1, <3>3 DEF Accs, Runs
    <3> QED
      BY <3>3, <3>4, <3>5 DEF new, IsAcc
  <2>3. CASE acc.run # item.type
    <3>1. Speaks(acc.messages, new.messages, RunRole(item.type), <<ItemBlock(item)>>)
      BY <1>1, <1>5, <2>3, Zenon DEF AddsTo
    <3> HIDE DEF new
    <3>2. new.messages \in Seq(Messages) /\ new.messages # <<>>
      BY <1>2, <3>1 DEF Speaks
    <3>3. Last(new.messages).role = RunRole(new.run)
      BY <2>1, <3>1, Zenon DEF Speaks, Last
    <3>4. new \in Accs
      BY <1>3, <1>5, <2>1, <3>2 DEF Accs, Runs
    <3> QED
      BY <3>2, <3>3, <3>4 DEF new, IsAcc
  <2> QED
    BY <2>2, <2>3
<1>6. CASE item.type = ""
  <2>1. new.run = "none" /\ new.messages \in Seq(Messages)
    BY <1>1, <1>2, <1>6, Zenon DEF ItemDoes, AddsTo
  <2> HIDE DEF new
  <2>2. new \in Accs
    BY <1>3, <2>1 DEF Accs, Runs
  <2> QED
    BY <2>1, <2>2 DEF new, IsAcc, Grouping
<1> QED
  BY <1>4, <1>5, <1>6, EntryParts DEF IsEntry, IsMessage, Grouping

LEMMA ParsedType == ASSUME NEW s \in Seq(Entries) PROVE IsAcc(Parsed(s))
<1> DEFINE T == {u \in Seq(Entries) : IsAcc(Parsed(u))}
<1>1. <<>> \in T
  BY ParsedEmpty, NothingIsAcc
<1>2. ASSUME NEW u \in Seq(Entries), NEW e \in Entries, u \in T PROVE Append(u, e) \in T
  <2>1. Append(u, e) \in Seq(Entries)
    OBVIOUS
  <2>2. ParsesOneMore(u, e)
    BY ParsedAppend, Zenon
  <2>3. IsAcc(Parsed(u))
    BY <1>2
  <2>4. IsAcc(Item(Parsed(u), e))
    BY <2>3, ItemType, Zenon
  <2>5. IsAcc(Parsed(Append(u, e)))
    BY <2>2, <2>4, Zenon DEF ParsesOneMore
  <2> QED
    BY <2>1, <2>5
<1>3. Seq(Entries) \subseteq T
  <2> HIDE DEF T
  <2> QED
    BY <1>1, <1>2, SeqInductionSet
<1> QED
  BY <1>3

-----------------------------------------------------------------------------
(* What a history tells, and what is told of it. *)
ToldKinds == {"text", "tool_use", "tool_result"}

KeepsStripped(m) ==
    /\ Stripped(m) \in Seq(Messages) /\ Len(Stripped(m)) = Len(m)
    /\ \A i \in 1 .. Len(m) :
          /\ Stripped(m)[i].role = m[i].role
          /\ Stripped(m)[i].content = StripReasoning(m[i].content)

LEMMA StrippedKeeps ==
    ASSUME NEW m \in Seq(Messages)
    PROVE  KeepsStripped(m)
<1> DEFINE n == Stripped(m)
           x(i) == [m[i] EXCEPT !.content = StripReasoning(@)]
<1>1. DOMAIN m = 1 .. Len(m) /\ Len(m) \in Nat
  OBVIOUS
<1>2. n = [i \in 1 .. Len(m) |-> x(i)]
  BY <1>1, Zenon DEF Stripped
<1>3. ASSUME NEW i \in 1 .. Len(m)
      PROVE  x(i) \in Messages /\ x(i).role = m[i].role /\ x(i).content = StripReasoning(m[i].content)
  <2>1. m[i] \in Messages
    OBVIOUS
  <2>2. IsMessage(m[i])
    BY <2>1, MessageParts, Zenon
  <2>3. StripReasoning(m[i].content) \in Seq(Blocks)
    BY <2>2, OnlyType, Zenon DEF IsMessage, StripReasoning
  <2> QED
    BY <2>1, <2>3 DEF Messages
<1> HIDE DEF n, x
<1>4. n \in Seq(Messages) /\ Len(n) = Len(m)
  BY <1>1, <1>2, <1>3
<1>5. \A i \in 1 .. Len(m) : n[i] = x(i)
  BY <1>2, Zenon
<1> QED
  BY <1>3, <1>4, <1>5, Zenon DEF KeepsStripped, n

LEMMA SaidMessage == ASSUME NEW e \in Messages PROVE Heard(e) = e.content
BY MessageParts DEF IsMessage, Heard

ToldOfMessage(kinds, e) == ToldPart(kinds)[e] = Only(kinds, e.content)

LEMMA ToldPartMessage == ASSUME NEW kinds, NEW e \in Messages PROVE ToldOfMessage(kinds, e)
<1>1. e \in Entries
  BY MessagesAreEntries, Zenon
<1>2. Heard(e) = e.content
  BY SaidMessage, Zenon
<1> QED
  BY <1>1, <1>2, Zenon DEF ToldPart, ToldOfMessage

LEMMA StrippedTold ==
    ASSUME NEW m \in Seq(Messages)
    PROVE  Told(HeardOf(Stripped(m))) = Told(HeardOf(m))
<1> DEFINE n == Stripped(m)
           f == ToldPart(ToldKinds)
<1>1. KeepsStripped(m)
  BY StrippedKeeps, Zenon
<1>2. m \in Seq(Entries) /\ n \in Seq(Entries) /\ n \in Seq(Messages)
  BY <1>1, MessagesAreEntries, Zenon DEF KeepsStripped
<1>3. ASSUME NEW i \in 1 .. Len(m) PROVE f[m[i]] = f[n[i]]
  <2>1. m[i] \in Messages
    OBVIOUS
  <2>2. n[i] \in Messages
    <3>1. n \in Seq(Messages) /\ Len(n) = Len(m)
      BY <1>1, Zenon DEF KeepsStripped
    <3> HIDE DEF n
    <3> QED
      BY <3>1
  <2>3. ToldOfMessage(ToldKinds, m[i]) /\ ToldOfMessage(ToldKinds, n[i])
    BY <2>1, <2>2, ToldPartMessage, Zenon
  <2>4. n[i].content = Only(Kinds \ Reasoning, m[i].content)
    BY <1>1, Zenon DEF KeepsStripped, StripReasoning
  <2>5. m[i].content \in Seq(Blocks)
    BY <2>1, MessageParts, Zenon DEF IsMessage
  <2>6. ToldKinds \subseteq Kinds \ Reasoning
    BY DEF ToldKinds, Kinds, Reasoning
  <2>7. KeepsTwice(ToldKinds, Kinds \ Reasoning, m[i].content)
    BY <2>5, <2>6, OnlyTwice, Zenon
  <2> QED
    BY <2>3, <2>4, <2>7, Zenon DEF ToldOfMessage, KeepsTwice
<1>4. CollectsSame(f, m, n)
  <2>1. Len(m) = Len(n)
    BY <1>1, Zenon DEF KeepsStripped
  <2>2. f \in [Entries -> Seq(Blocks)]
    BY ToldPartType, Zenon
  <2> HIDE DEF f, n
  <2> QED
    BY <1>2, <1>3, <2>1, <2>2, CollectedSame, Zenon
<1>5. TellsParts(ToldKinds, m) /\ TellsParts(ToldKinds, n)
  BY <1>2, OnlyOfBlocks, Zenon
<1> QED
  BY <1>4, <1>5, Zenon DEF CollectsSame, TellsParts, Told, ToldKinds

(* A responses client's messages have texts and images. *)
Plain == {"text", "image"}

PlainEntries == {e \in Entries : e.type = "message" => e.content \in Seq(OfKind(Plain))}

OnlySame(k, l, c) == Only(k, c) = Only(l, c)

LEMMA SameKinds ==
    ASSUME NEW kinds, NEW c \in Seq(OfKind(kinds)), NEW k, NEW l, k \cap kinds = l \cap kinds
    PROVE  OnlySame(k, l, c)
<1>1. ASSUME NEW i \in DOMAIN c PROVE c[i].kind \in k <=> c[i].kind \in l
  <2>1. c[i] \in OfKind(kinds)
    OBVIOUS
  <2>2. c[i].kind \in kinds
    BY <2>1 DEF OfKind
  <2> QED
    BY <2>2
<1>2. \A i \in DOMAIN c : (IF c[i].kind \in k THEN <<c[i]>> ELSE <<>>) = (IF c[i].kind \in l THEN <<c[i]>> ELSE <<>>)
  BY <1>1, Zenon
<1>3. [i \in DOMAIN c |-> IF c[i].kind \in k THEN <<c[i]>> ELSE <<>>]
          = [i \in DOMAIN c |-> IF c[i].kind \in l THEN <<c[i]>> ELSE <<>>]
  BY <1>2, Zenon
<1> QED
  BY <1>3, Zenon DEF OnlySame, Only

LEMMA OfKindBlocks == ASSUME NEW kinds PROVE Seq(OfKind(kinds)) \subseteq Seq(Blocks)
<1>1. OfKind(kinds) \subseteq Blocks
  BY DEF OfKind
<1> QED
  BY <1>1

LEMMA TextPartsTold ==
    ASSUME NEW c \in Seq(OfKind(Plain))
    PROVE  Told(TextParts(c)) = Told(c)
<1> DEFINE t == Only({"text"}, c)
<1>1. c \in Seq(Blocks)
  BY OfKindBlocks
<1>2. Told(c) = t
  <2>1. {"text"} \cap Plain = ToldKinds \cap Plain
    BY DEF Plain, ToldKinds
  <2>2. OnlySame({"text"}, ToldKinds, c)
    BY <2>1, SameKinds, Zenon
  <2> QED
    BY <2>2, Zenon DEF OnlySame, Told, ToldKinds
<1>3. Told(t) = t
  <2>1. t \in Seq(OfKind({"text"}))
    BY <1>1, OnlyOfKind, Zenon
  <2>2. {"text"} \cap {"text"} = ToldKinds \cap {"text"}
    BY DEF ToldKinds
  <2>3. OnlySame({"text"}, ToldKinds, t)
    BY <2>1, <2>2, SameKinds, Zenon
  <2>4. KeepsTwice({"text"}, {"text"}, c)
    BY <1>1, OnlyTwice, Zenon
  <2> QED
    BY <2>3, <2>4, Zenon DEF OnlySame, KeepsTwice, Told, ToldKinds
<1>4. CASE t # <<>> \/ c = <<>>
  <2>1. TextParts(c) = t
    BY <1>4, Zenon DEF TextParts
  <2> QED
    BY <1>2, <1>3, <2>1, Zenon
<1>5. CASE ~(t # <<>> \/ c = <<>>)
  <2> DEFINE b == Block("raw", c[1].tag)
  <2>1. TextParts(c) = <<b>>
    BY <1>5, Zenon DEF TextParts
  <2>2. c[1] \in Blocks
    BY <1>1, <1>5
  <2>3. b \in Blocks /\ b.kind = "raw"
    BY <2>2, KindsOfBlocks, BlockType DEF Blocks, Block
  <2> HIDE DEF b
  <2>4. <<>> \in Seq(Blocks)
    OBVIOUS
  <2>5. KeepsOne(ToldKinds, <<>>, b)
    BY <2>3, <2>4, OnlyAppend, Zenon
  <2>6. Append(<<>>, b) = <<b>> /\ <<>> \o <<>> = <<>>
    OBVIOUS
  <2>7. OnlyOne(ToldKinds, b) = <<>>
    BY <2>3 DEF OnlyOne, ToldKinds
  <2>8. Told(<<b>>) = <<>>
    BY <2>5, <2>6, <2>7, OnlyEmpty, Zenon DEF KeepsOne, Told, ToldKinds
  <2> QED
    BY <1>2, <1>5, <2>1, <2>8, Zenon
<1> QED
  BY <1>4, <1>5

(* Each item of a history adds what it says, wherever its block is put. *)
TellsMore(m, n, c) == Told(HeardOf(n)) = Told(HeardOf(m)) \o Told(c)

LEMMA SpeaksTells ==
    ASSUME NEW m \in Seq(Messages), NEW role \in Roles, NEW c \in Seq(Blocks)
    PROVE  TellsMore(m, Append(m, Message(role, c)), c)
<1> DEFINE e == Message(role, c)
<1>1. e \in Messages /\ e.content = c
  BY MessageType DEF Message
<1> HIDE DEF e
<1>2. m \in Seq(Entries) /\ e \in Entries
  BY <1>1, MessagesAreEntries, Zenon
<1>3. SaysOneMore(m, e)
  BY <1>2, BlocksAppend, Zenon
<1>4. Heard(e) = c
  BY <1>1, SaidMessage, Zenon
<1>5. KeepsBoth(ToldKinds, HeardOf(m), c)
  BY <1>2, BlocksType, OnlyConcat, Zenon
<1> QED
  BY <1>3, <1>4, <1>5, Zenon DEF TellsMore, SaysOneMore, KeepsBoth, Told, ToldKinds, e

LEMMA JoinsTells ==
    ASSUME NEW m \in Seq(Messages), m # <<>>, NEW n, NEW b \in Blocks, Joins(m, n, b)
    PROVE  TellsMore(m, n, <<b>>)
<1> DEFINE f == ToldPart(ToldKinds)
           z == Only(ToldKinds, <<b>>)
<1>1. n \in Seq(Messages) /\ Len(n) = Len(m)
  BY Zenon DEF Joins
<1>2. PICK k \in Nat : Len(m) = k + 1
  <2>1. Len(m) - 1 \in Nat /\ Len(m) = (Len(m) - 1) + 1
    OBVIOUS
  <2> QED
    BY <2>1, Zenon
<1>3. m \in Seq(Entries) /\ n \in Seq(Entries)
  BY <1>1, MessagesAreEntries, Zenon
<1>4. \A i \in 1 .. k : f[m[i]] = f[n[i]]
  <2>1. \A i \in 1 .. k : i \in 1 .. Len(m) /\ i # Len(m)
    BY <1>2
  <2> QED
    BY <2>1, Zenon DEF Joins
<1>5. f[n[k + 1]] = f[m[k + 1]] \o z
  <2>1. m[k + 1] \in Messages /\ n[k + 1] \in Messages
    BY <1>1, <1>2
  <2>2. ToldOfMessage(ToldKinds, m[k + 1]) /\ ToldOfMessage(ToldKinds, n[k + 1])
    BY <2>1, ToldPartMessage, Zenon
  <2>3. n[k + 1].content = Append(m[k + 1].content, b)
    BY <1>1, <1>2, Zenon DEF Joins, Last
  <2>4. m[k + 1].content \in Seq(Blocks)
    BY <2>1, MessageParts, Zenon DEF IsMessage
  <2>5. <<b>> \in Seq(Blocks)
    OBVIOUS
  <2>6. Append(m[k + 1].content, b) = m[k + 1].content \o <<b>>
    <3> DEFINE c == m[k + 1].content
    <3> HIDE DEF c
    <3>1. c \in Seq(Blocks)
      BY <2>4 DEF c
    <3>2. Append(c, b) = c \o <<b>>
      BY <3>1
    <3> QED
      BY <3>2 DEF c
  <2>7. KeepsBoth(ToldKinds, m[k + 1].content, <<b>>)
    BY <2>4, <2>5, OnlyConcat, Zenon
  <2> QED
    BY <2>2, <2>3, <2>6, <2>7, Zenon DEF ToldOfMessage, KeepsBoth
<1>6. LastGrows(f, m, n, z)
  <2>1. f \in [Entries -> Seq(Blocks)]
    BY ToldPartType, Zenon
  <2>2. <<b>> \in Seq(Blocks)
    OBVIOUS
  <2>3. z \in Seq(Blocks)
    BY <2>2, OnlyType, Zenon
  <2>4. Len(n) = k + 1
    BY <1>1, <1>2, Zenon
  <2> HIDE DEF f, z
  <2> QED
    BY <1>2, <1>3, <1>4, <1>5, <2>1, <2>3, <2>4, CollectedLast, Zenon
<1>7. TellsParts(ToldKinds, m) /\ TellsParts(ToldKinds, n)
  BY <1>3, OnlyOfBlocks, Zenon
<1> QED
  BY <1>6, <1>7, Zenon DEF TellsMore, LastGrows, TellsParts, Told, ToldKinds

LEMMA ItemTells ==
    ASSUME NEW acc, IsAcc(acc), NEW item \in PlainEntries
    PROVE  TellsMore(acc.messages, Item(acc, item).messages, Heard(item))
<1> DEFINE m == acc.messages
           n == Item(acc, item).messages
<1>1. item \in Entries
  BY DEF PlainEntries
<1>2. m \in Seq(Messages)
  BY DEF IsAcc, Accs
<1>3. ItemDoes(acc, item)
  BY <1>1, ItemSteps, Zenon
<1>4. CASE item.type = "message"
  <2>1. item.role \in Roles /\ item.content \in Seq(OfKind(Plain)) /\ Heard(item) = item.content
    BY <1>1, <1>4, EntryParts DEF PlainEntries, IsEntry, IsMessage, Heard
  <2>2. item.content \in Seq(Blocks)
    BY <2>1, OfKindBlocks
  <2>3. TextParts(item.content) \in Seq(Blocks)
    BY <2>2, TextPartsType, Zenon
  <2>4. TellsMore(m, Append(m, Message(item.role, TextParts(item.content))), TextParts(item.content))
    BY <1>2, <2>1, <2>3, SpeaksTells, Zenon
  <2>5. Told(TextParts(item.content)) = Told(item.content)
    BY <2>1, TextPartsTold, Zenon
  <2>6. n = Append(m, Message(item.role, TextParts(item.content)))
    BY <1>3, <1>4, Zenon DEF ItemDoes
  <2> HIDE DEF m, n
  <2>7. TellsMore(m, n, Heard(item))
    BY <2>1, <2>4, <2>5, <2>6, Zenon DEF TellsMore
  <2> QED
    BY <2>7, Zenon DEF m, n
<1>5. CASE item.type \in Grouping
  <2> DEFINE b == ItemBlock(item)
  <2>1. b \in Blocks
    BY <1>1, <1>5, ItemBlockType, Zenon
  <2>2. Heard(item) = <<b>>
    BY <1>5 DEF Heard, Grouping, ItemBlock
  <2>3. Groups(acc, Item(acc, item), item.type, RunRole(item.type), b)
    BY <1>3, <1>5, Zenon DEF ItemDoes
  <2> HIDE DEF b
  <2>4. CASE acc.run = item.type
    <3>1. Joins(m, n, b)
      BY <2>3, <2>4, Zenon DEF Groups
    <3>2. m # <<>>
      BY <1>5, <2>4 DEF IsAcc
    <3> HIDE DEF m, n
    <3>3. TellsMore(m, n, <<b>>)
      BY <1>2, <2>1, <3>1, <3>2, JoinsTells, Zenon
    <3> QED
      BY <2>2, <3>3, Zenon DEF m, n
  <2>5. CASE acc.run # item.type
    <3>1. n = Append(m, Message(RunRole(item.type), <<b>>))
      BY <2>3, <2>5, Zenon DEF Groups
    <3>2. <<b>> \in Seq(Blocks)
      BY <2>1
    <3>3. RunRole(item.type) \in Roles
      BY DEF RunRole, Roles
    <3> HIDE DEF m, n
    <3>4. TellsMore(m, n, <<b>>)
      BY <1>2, <3>1, <3>2, <3>3, SpeaksTells, Zenon
    <3> QED
      BY <2>2, <3>4, Zenon DEF m, n
  <2> QED
    BY <2>4, <2>5
<1>6. CASE item.type = ""
  <2>1. n = m /\ Heard(item) = <<>>
    BY <1>3, <1>6 DEF ItemDoes, Heard
  <2>2. m \in Seq(Entries)
    BY <1>2, MessagesAreEntries, Zenon
  <2>3. Told(HeardOf(m)) \in Seq(Blocks)
    BY <2>2, BlocksType, OnlyType, Zenon DEF Told
  <2>4. Told(HeardOf(m)) \o <<>> = Told(HeardOf(m))
    BY <2>3
  <2>5. Told(<<>>) = <<>>
    BY OnlyEmpty, Zenon DEF Told
  <2> HIDE DEF m, n
  <2>6. TellsMore(m, n, Heard(item))
    BY <2>1, <2>4, <2>5, Zenon DEF TellsMore
  <2> QED
    BY <2>6, Zenon DEF m, n
<1> QED
  BY <1>1, <1>4, <1>5, <1>6, EntryParts DEF IsEntry, IsMessage, Grouping

LEMMA PlainAreEntries == Seq(PlainEntries) \subseteq Seq(Entries)
<1>1. PlainEntries \subseteq Entries
  BY DEF PlainEntries
<1> QED
  BY <1>1

AllTold(s) == Told(HeardOf(ParseInput(s))) = Told(HeardOf(s))

LEMMA ParsedTold == ASSUME NEW s \in Seq(PlainEntries) PROVE AllTold(s)
<1> DEFINE T == {u \in Seq(PlainEntries) : AllTold(u)}
<1>1. <<>> \in T
  <2>1. ParseInput(<<>>) = <<>>
    BY ParsedEmpty DEF ParseInput, NothingParsed
  <2>2. AllTold(<<>>)
    BY <2>1, Zenon DEF AllTold
  <2> QED
    BY <2>2
<1>2. ASSUME NEW u \in Seq(PlainEntries), NEW e \in PlainEntries, u \in T PROVE Append(u, e) \in T
  <2>1. Append(u, e) \in Seq(PlainEntries)
    OBVIOUS
  <2>2. u \in Seq(Entries) /\ e \in Entries
    BY PlainAreEntries DEF PlainEntries
  <2>3. ParsesOneMore(u, e)
    BY <2>2, ParsedAppend, Zenon
  <2>4. IsAcc(Parsed(u))
    BY <2>2, ParsedType, Zenon
  <2>5. TellsMore(Parsed(u).messages, Item(Parsed(u), e).messages, Heard(e))
    BY <2>4, ItemTells, Zenon
  <2>6. SaysOneMore(u, e)
    BY <2>2, BlocksAppend, Zenon
  <2>7. KeepsBoth(ToldKinds, HeardOf(u), Heard(e))
    BY <2>2, BlocksType, SaidType, OnlyConcat, Zenon
  <2>8. AllTold(u)
    BY <1>2
  <2>9. AllTold(Append(u, e))
    BY <2>3, <2>5, <2>6, <2>7, <2>8, Zenon
    DEF AllTold, ParseInput, ParsesOneMore, TellsMore, SaysOneMore, KeepsBoth, Told, ToldKinds
  <2> QED
    BY <2>1, <2>9
<1>3. Seq(PlainEntries) \subseteq T
  <2> HIDE DEF T
  <2> QED
    BY <1>1, <1>2, SeqInductionSet
<1> QED
  BY <1>3

-----------------------------------------------------------------------------
(* The calls of the assistant's turn that ends with a message. *)
AllAssistant(m, j, i) == \A n \in j .. i : m[n].role = "assistant"

TurnListed(m, i) ==
    \A t : t \in TurnCalls(m, i) <=> \E j \in 1 .. i : AllAssistant(m, j, i) /\ t \in CallsIn(m[j])

LEMMA TurnsAre == ASSUME NEW m, NEW i PROVE TurnListed(m, i)
<1> DEFINE J == {j \in 1 .. i : \A n \in j .. i : m[n].role = "assistant"}
<1>1. \A j : j \in J <=> j \in 1 .. i /\ AllAssistant(m, j, i)
  BY Zenon DEF AllAssistant
<1>2. TurnCalls(m, i) = UNION {CallsIn(m[j]) : j \in J}
  BY Zenon DEF TurnCalls
<1> HIDE DEF J
<1>3. \A t : t \in TurnCalls(m, i) <=> \E j \in J : t \in CallsIn(m[j])
  BY <1>2, Zenon
<1> QED
  BY <1>1, <1>3, Zenon DEF TurnListed

SameTurn(m, n, k) == TurnCalls(n, k) = TurnCalls(m, k)

LEMMA TurnsAgree ==
    ASSUME NEW m, NEW n, NEW k \in Nat, \A i \in 1 .. k : n[i] = m[i]
    PROVE  SameTurn(m, n, k)
<1>1. TurnListed(m, k) /\ TurnListed(n, k)
  BY TurnsAre, Zenon
<1>2. ASSUME NEW j \in 1 .. k PROVE AllAssistant(m, j, k) <=> AllAssistant(n, j, k)
  <2>1. \A i \in j .. k : i \in 1 .. k
    OBVIOUS
  <2> QED
    BY <2>1, Zenon DEF AllAssistant
<1>3. \A t : t \in TurnCalls(n, k) <=> t \in TurnCalls(m, k)
  BY <1>1, <1>2, Zenon DEF TurnListed
<1> QED
  BY <1>3, Zenon DEF SameTurn

NextTurn(m, k) ==
    TurnCalls(m, k + 1) = IF m[k + 1].role = "assistant" THEN TurnCalls(m, k) \cup CallsIn(m[k + 1]) ELSE {}

LEMMA TurnGoesOn == ASSUME NEW m, NEW k \in Nat PROVE NextTurn(m, k)
<1>1. TurnListed(m, k) /\ TurnListed(m, k + 1)
  BY TurnsAre, Zenon
<1>2. CASE m[k + 1].role # "assistant"
  <2>1. \A j \in 1 .. k + 1 : k + 1 \in j .. k + 1
    OBVIOUS
  <2>2. \A j \in 1 .. k + 1 : ~AllAssistant(m, j, k + 1)
    BY <1>2, <2>1, Zenon DEF AllAssistant
  <2>3. \A t : t \notin TurnCalls(m, k + 1)
    BY <1>1, <2>2, Zenon DEF TurnListed
  <2>4. TurnCalls(m, k + 1) = {}
    BY <2>3, Zenon
  <2> QED
    BY <1>2, <2>4, Zenon DEF NextTurn
<1>3. CASE m[k + 1].role = "assistant"
  <2>1. \A j : j \in 1 .. k + 1 <=> j \in 1 .. k \/ j = k + 1
    OBVIOUS
  <2>2. ASSUME NEW j \in 1 .. k PROVE AllAssistant(m, j, k + 1) <=> AllAssistant(m, j, k)
    <3>1. \A n : n \in j .. k + 1 <=> n \in j .. k \/ n = k + 1
      OBVIOUS
    <3> QED
      BY <1>3, <3>1, Zenon DEF AllAssistant
  <2>3. AllAssistant(m, k + 1, k + 1)
    <3>1. \A n \in k + 1 .. k + 1 : n = k + 1
      OBVIOUS
    <3> QED
      BY <1>3, <3>1, Zenon DEF AllAssistant
  <2>4. ASSUME NEW t
        PROVE  t \in TurnCalls(m, k + 1) <=> t \in TurnCalls(m, k) \cup CallsIn(m[k + 1])
    <3>1. t \in TurnCalls(m, k + 1)
            <=> \E j \in 1 .. k + 1 : AllAssistant(m, j, k + 1) /\ t \in CallsIn(m[j])
      BY <1>1, Zenon DEF TurnListed
    <3>2. t \in TurnCalls(m, k) <=> \E j \in 1 .. k : AllAssistant(m, j, k) /\ t \in CallsIn(m[j])
      BY <1>1, Zenon DEF TurnListed
    <3> QED
      BY <2>1, <2>2, <2>3, <3>1, <3>2, Zenon
  <2>5. TurnCalls(m, k + 1) = TurnCalls(m, k) \cup CallsIn(m[k + 1])
    BY <2>4, Zenon
  <2> QED
    BY <1>3, <2>5, Zenon DEF NextTurn
<1> QED
  BY <1>2, <1>3

LEMMA TurnStarts == ASSUME NEW m PROVE TurnCalls(m, 0) = {}
<1>1. TurnListed(m, 0)
  BY TurnsAre, Zenon
<1>2. \A j : j \notin 1 .. 0
  OBVIOUS
<1>3. \A t : t \notin TurnCalls(m, 0)
  BY <1>1, <1>2, Zenon DEF TurnListed
<1> QED
  BY <1>3, Zenon

(* The rule for tools, and the calls that are waiting for their results. *)
TurnAt(m, i) == m[i].role = "user" => ResultsIn(m[i]) = TurnCalls(m, i - 1)

Turns(m) == \A i \in 1 .. Len(m) : TurnAt(m, i)

LastCalls(m) == TurnCalls(m, Len(m))

LEMMA TurnsStay ==
    ASSUME NEW m \in Seq(Messages), NEW n, Turns(m), NEW k \in Nat, k <= Len(m), \A i \in 1 .. k : n[i] = m[i]
    PROVE  \A i \in 1 .. k : TurnAt(n, i)
<1> SUFFICES ASSUME NEW i \in 1 .. k PROVE TurnAt(n, i)
  OBVIOUS
<1>1. i - 1 \in Nat /\ \A j \in 1 .. i - 1 : j \in 1 .. k
  OBVIOUS
<1>2. i \in 1 .. Len(m)
  OBVIOUS
<1>3. SameTurn(m, n, i - 1)
  BY <1>1, TurnsAgree, Zenon
<1>4. n[i] = m[i] /\ TurnAt(m, i)
  BY <1>2, Zenon DEF Turns
<1> QED
  BY <1>3, <1>4, Zenon DEF SameTurn, TurnAt

(* A message more: a user's has the results that are waited for. *)
Continues(m, n, role, c) ==
    /\ Turns(n)
    /\ LastCalls(n) = IF role = "assistant" THEN LastCalls(m) \cup Tags("tool_use", c) ELSE {}

LEMMA SpeaksContinues ==
    ASSUME NEW m \in Seq(Messages), NEW n, NEW role, NEW c, Speaks(m, n, role, c), Turns(m),
           role = "user" => Tags("tool_result", c) = LastCalls(m)
    PROVE  Continues(m, n, role, c)
<1> DEFINE k == Len(m)
<1>1. k \in Nat /\ k <= Len(m)
  OBVIOUS
<1>2. Len(n) = k + 1 /\ (\A i \in 1 .. k : n[i] = m[i]) /\ n[k + 1].role = role /\ n[k + 1].content = c
  BY Zenon DEF Speaks
<1> HIDE DEF k
<1>3. SameTurn(m, n, k)
  BY <1>1, <1>2, TurnsAgree, Zenon
<1>4. NextTurn(n, k)
  BY <1>1, TurnGoesOn, Zenon
<1>5. \A i \in 1 .. k : TurnAt(n, i)
  BY <1>1, <1>2, TurnsStay, Zenon
<1>6. TurnAt(n, k + 1)
  <2>1. (k + 1) - 1 = k
    BY <1>1
  <2> QED
    BY <1>2, <1>3, <2>1, Zenon DEF TurnAt, ResultsIn, SameTurn, LastCalls, k
<1>7. Turns(n)
  <2>1. \A i : i \in 1 .. k + 1 <=> i \in 1 .. k \/ i = k + 1
    BY <1>1
  <2> QED
    BY <1>2, <1>5, <1>6, <2>1, Zenon DEF Turns
<1>8. LastCalls(n) = TurnCalls(n, k + 1) /\ LastCalls(m) = TurnCalls(m, k)
  BY <1>2, Zenon DEF LastCalls, k
<1> QED
  BY <1>2, <1>3, <1>4, <1>7, <1>8, Zenon DEF Continues, SameTurn, NextTurn, CallsIn

(* A call more in the assistant's last message. *)
CallsMore(m, n, b) == Turns(n) /\ LastCalls(n) = LastCalls(m) \cup TagOf("tool_use", b)

LEMMA JoinsCalls ==
    ASSUME NEW m \in Seq(Messages), m # <<>>, NEW n, NEW b \in Blocks, Joins(m, n, b), Turns(m),
           Last(m).role = "assistant"
    PROVE  CallsMore(m, n, b)
<1>1. PICK k \in Nat : Len(m) = k + 1
  <2>1. Len(m) - 1 \in Nat /\ Len(m) = (Len(m) - 1) + 1
    OBVIOUS
  <2> QED
    BY <2>1, Zenon
<1>2. Len(n) = k + 1 /\ \A i \in 1 .. k : n[i] = m[i]
  <2>1. \A i \in 1 .. k : i \in 1 .. Len(m) /\ i # Len(m)
    BY <1>1
  <2> QED
    BY <1>1, <2>1, Zenon DEF Joins
<1>3. /\ m[k + 1].role = "assistant" /\ n[k + 1].role = "assistant"
      /\ n[k + 1].content = Append(m[k + 1].content, b)
  BY <1>1, <1>2, Zenon DEF Joins, Last
<1>4. TagsOneMore("tool_use", m[k + 1].content, b)
  <2>1. m[k + 1] \in Messages
    BY <1>1
  <2>2. m[k + 1].content \in Seq(Blocks)
    BY <2>1, MessageParts, Zenon DEF IsMessage
  <2> QED
    BY <2>2, TagsAppend, Zenon
<1>5. SameTurn(m, n, k)
  BY <1>2, TurnsAgree, Zenon
<1>6. NextTurn(n, k) /\ NextTurn(m, k)
  BY TurnGoesOn, Zenon
<1>7. Turns(n)
  <2>1. k <= Len(m)
    BY <1>1
  <2>2. \A i \in 1 .. k : TurnAt(n, i)
    BY <1>2, <2>1, TurnsStay, Zenon
  <2>3. TurnAt(n, k + 1)
    BY <1>3 DEF TurnAt
  <2>4. \A i : i \in 1 .. k + 1 <=> i \in 1 .. k \/ i = k + 1
    OBVIOUS
  <2> QED
    BY <1>2, <2>2, <2>3, <2>4, Zenon DEF Turns
<1>8. LastCalls(n) = TurnCalls(n, k + 1) /\ LastCalls(m) = TurnCalls(m, k + 1)
  BY <1>1, <1>2, Zenon DEF LastCalls
<1>9. LastCalls(n) = LastCalls(m) \cup TagOf("tool_use", b)
  <2>1. LastCalls(n) = TurnCalls(m, k) \cup (CallsIn(m[k + 1]) \cup TagOf("tool_use", b))
    BY <1>3, <1>4, <1>5, <1>6, <1>8, Zenon DEF SameTurn, NextTurn, CallsIn, TagsOneMore
  <2>2. LastCalls(m) = TurnCalls(m, k) \cup CallsIn(m[k + 1])
    BY <1>3, <1>6, <1>8, Zenon DEF NextTurn
  <2> QED
    BY <2>1, <2>2, Zenon
<1> QED
  BY <1>7, <1>9, Zenon DEF CallsMore

-----------------------------------------------------------------------------
(* What is told of a history, as it grows by one thing the client records. *)
LEMMA OnlyWithin ==
    ASSUME NEW kinds, NEW T \in SUBSET Blocks, NEW s \in Seq(T)
    PROVE  Only(kinds, s) \in Seq(T)
<1> DEFINE Same == {u \in Seq(T) : Only(kinds, u) \in Seq(T)}
<1>1. <<>> \in Same
  <2>1. <<>> \in Seq(T)
    OBVIOUS
  <2> QED
    BY <2>1, OnlyEmpty
<1>2. ASSUME NEW u \in Seq(T), NEW b \in T, u \in Same PROVE Append(u, b) \in Same
  <2>1. Append(u, b) \in Seq(T) /\ u \in Seq(Blocks) /\ b \in Blocks
    OBVIOUS
  <2>2. KeepsOne(kinds, u, b)
    BY <2>1, OnlyAppend, Zenon
  <2>3. OnlyOne(kinds, b) \in Seq(T)
    <3>1. <<b>> \in Seq(T) /\ <<>> \in Seq(T)
      OBVIOUS
    <3> QED
      BY <3>1, Zenon DEF OnlyOne
  <2>4. Only(kinds, u) \in Seq(T)
    BY <1>2
  <2>5. Only(kinds, u) \o OnlyOne(kinds, b) \in Seq(T)
    BY <2>3, <2>4
  <2> QED
    BY <2>1, <2>2, <2>5 DEF KeepsOne
<1>3. Seq(T) \subseteq Same
  <2> HIDE DEF Same
  <2> QED
    BY <1>1, <1>2, SeqInductionSet
<1> QED
  BY <1>3

LEMMA NoTags ==
    ASSUME NEW kinds, NEW s \in Seq(OfKind(kinds)), NEW kind, kind \notin kinds
    PROVE  Tags(kind, s) = {}
<1>1. s \in Seq(Blocks)
  BY OfKindBlocks
<1>2. TagsListed(kind, s)
  BY <1>1, TagsAre, Zenon
<1>3. \A i \in 1 .. Len(s) : s[i].kind # kind
  <2> SUFFICES ASSUME NEW i \in 1 .. Len(s) PROVE s[i].kind # kind
    OBVIOUS
  <2>1. s[i] \in OfKind(kinds)
    OBVIOUS
  <2> QED
    BY <2>1 DEF OfKind
<1>4. \A t : t \notin Tags(kind, s)
  BY <1>2, <1>3, Zenon DEF TagsListed
<1> QED
  BY <1>4, Zenon

ToolKinds == {"tool_use", "tool_result"}

LEMMA TextPartsTags ==
    ASSUME NEW c \in Seq(OfKind(Plain)), NEW kind \in ToolKinds
    PROVE  Tags(kind, TextParts(c)) = {} /\ Tags(kind, c) = {}
<1>1. Tags(kind, c) = {}
  <2>1. kind \notin Plain
    BY DEF ToolKinds, Plain
  <2> QED
    BY <2>1, NoTags, Zenon
<1>2. TextParts(c) \in Seq(OfKind({"text", "raw"}))
  <2>1. c \in Seq(Blocks)
    BY OfKindBlocks
  <2>2. CASE Only({"text"}, c) # <<>> \/ c = <<>>
    <3>1. TextParts(c) = Only({"text"}, c)
      BY <2>2, Zenon DEF TextParts
    <3>2. Only({"text"}, c) \in Seq(OfKind({"text"}))
      BY <2>1, OnlyOfKind, Zenon
    <3>3. OfKind({"text"}) \subseteq OfKind({"text", "raw"})
      BY DEF OfKind
    <3>4. Seq(OfKind({"text"})) \subseteq Seq(OfKind({"text", "raw"}))
      BY <3>3
    <3> QED
      BY <3>1, <3>2, <3>4, Zenon
  <2>3. CASE ~(Only({"text"}, c) # <<>> \/ c = <<>>)
    <3>1. TextParts(c) = <<Block("raw", c[1].tag)>>
      BY <2>3, Zenon DEF TextParts
    <3>2. c[1] \in Blocks
      BY <2>1, <2>3
    <3>3. Block("raw", c[1].tag) \in OfKind({"text", "raw"})
      BY <3>2, KindsOfBlocks, BlockType DEF Blocks, Block, OfKind
    <3> QED
      BY <3>1, <3>3
  <2> QED
    BY <2>2, <2>3
<1>3. kind \notin {"text", "raw"}
  BY DEF ToolKinds
<1> QED
  BY <1>1, <1>2, <1>3, NoTags, Zenon

EntriesOf(fmt) == IF fmt = "responses" THEN PlainEntries ELSE Messages

ToldIn(fmt, h) == IF fmt = "responses" THEN ParseInput(h) ELSE h

LEMMA HistoryEntries == ASSUME NEW fmt PROVE EntriesOf(fmt) \subseteq Entries /\ Seq(EntriesOf(fmt)) \subseteq Seq(Entries)
<1>1. EntriesOf(fmt) \subseteq Entries
  BY MessagesAreEntries DEF EntriesOf, PlainEntries
<1> QED
  BY <1>1

LEMMA ToldType == ASSUME NEW fmt, NEW h \in Seq(EntriesOf(fmt)) PROVE ToldIn(fmt, h) \in Seq(Messages)
<1>1. CASE fmt = "responses"
  <2>1. IsAcc(Parsed(h))
    BY HistoryEntries, ParsedType, Zenon
  <2> QED
    BY <1>1, <2>1 DEF IsAcc, Accs, ToldIn, ParseInput
<1>2. CASE fmt # "responses"
  BY <1>2, Zenon DEF ToldIn, EntriesOf
<1> QED
  BY <1>1, <1>2

(* The calls owed an answer are those of the last turn. *)
Owes(fmt, h, owed) ==
    /\ h \in Seq(EntriesOf(fmt))
    /\ Turns(ToldIn(fmt, h))
    /\ LastCalls(ToldIn(fmt, h)) = owed

EndsWith(fmt, h, role) == ToldIn(fmt, h) # <<>> /\ Last(ToldIn(fmt, h)).role = role

LEMMA SpeaksEnds ==
    ASSUME NEW fmt, NEW h, NEW m \in Seq(Messages), NEW role, NEW c, Speaks(m, ToldIn(fmt, h), role, c)
    PROVE  EndsWith(fmt, h, role)
<1> DEFINE n == ToldIn(fmt, h)
<1>1. n \in Seq(Messages) /\ Len(n) = Len(m) + 1 /\ n[Len(m) + 1].role = role
  BY Zenon DEF Speaks
<1> HIDE DEF n
<1>2. n # <<>>
  BY <1>1
<1>3. Last(n).role = role
  BY <1>1, Zenon DEF Last
<1> QED
  BY <1>2, <1>3, Zenon DEF EndsWith, n

TellsMessage(fmt, h, role, c) ==
    Speaks(ToldIn(fmt, h), ToldIn(fmt, Append(h, Message(role, c))), role,
           IF fmt = "responses" THEN TextParts(c) ELSE c)

LEMMA MessageTold ==
    ASSUME NEW fmt, NEW h \in Seq(EntriesOf(fmt)), NEW role \in Roles, NEW c \in Seq(Blocks)
    PROVE  TellsMessage(fmt, h, role, c)
<1> DEFINE e == Message(role, c)
<1>1. e \in Messages /\ e.type = "message" /\ e.role = role /\ e.content = c
  BY MessageType DEF Message
<1> HIDE DEF e
<1>2. CASE fmt = "responses"
  <2>1. h \in Seq(Entries) /\ e \in Entries
    BY <1>1, HistoryEntries, MessagesAreEntries, Zenon
  <2>2. ParsesOneMore(h, e)
    BY <2>1, ParsedAppend, Zenon
  <2>3. IsAcc(Parsed(h))
    BY <2>1, ParsedType, Zenon
  <2>4. AddsTo(Parsed(h), e)
    BY <2>1, <2>3, ItemAdds, Zenon
  <2>5. Speaks(Parsed(h).messages, Parsed(Append(h, e)).messages, role, TextParts(c))
    BY <1>1, <2>2, <2>4, Zenon DEF AddsTo, ParsesOneMore
  <2> QED
    BY <1>2, <2>5, Zenon DEF TellsMessage, ToldIn, ParseInput, e
<1>3. CASE fmt # "responses"
  <2>1. h \in Seq(Messages)
    BY <1>3, Zenon DEF EntriesOf
  <2>2. Speaks(h, Append(h, Message(role, c)), role, c)
    BY <2>1, AppendSpeaks, Zenon
  <2> QED
    BY <1>3, <2>2, Zenon DEF TellsMessage, ToldIn
<1> QED
  BY <1>2, <1>3

GrowsBy(fmt, h, role, c, owed) ==
    /\ Owes(fmt, Append(h, Message(role, c)), IF role = "assistant" THEN owed \cup Tags("tool_use", c) ELSE {})
    /\ EndsWith(fmt, Append(h, Message(role, c)), role)

LEMMA MessageOwes ==
    ASSUME NEW fmt, NEW h, NEW owed, Owes(fmt, h, owed), NEW role \in Roles, NEW c \in Seq(Blocks),
           fmt = "responses" => c \in Seq(OfKind(Plain)),
           role = "user" => Tags("tool_result", c) = owed
    PROVE  GrowsBy(fmt, h, role, c, owed)
<1> DEFINE x == Append(h, Message(role, c))
           d == IF fmt = "responses" THEN TextParts(c) ELSE c
<1>1. h \in Seq(EntriesOf(fmt)) /\ Turns(ToldIn(fmt, h)) /\ LastCalls(ToldIn(fmt, h)) = owed
  BY Zenon DEF Owes
<1>2. Speaks(ToldIn(fmt, h), ToldIn(fmt, x), role, d)
  BY <1>1, MessageTold, Zenon DEF TellsMessage
<1>3. Tags("tool_result", d) = Tags("tool_result", c) /\ Tags("tool_use", d) = Tags("tool_use", c)
  <2>1. CASE fmt = "responses"
    <3>1. c \in Seq(OfKind(Plain)) /\ "tool_result" \in ToolKinds /\ "tool_use" \in ToolKinds
      BY <2>1 DEF ToolKinds
    <3> QED
      BY <2>1, <3>1, TextPartsTags, Zenon
  <2>2. CASE fmt # "responses"
    BY <2>2
  <2> QED
    BY <2>1, <2>2
<1>4. ToldIn(fmt, h) \in Seq(Messages)
  BY <1>1, ToldType, Zenon
<1>5. x \in Seq(EntriesOf(fmt))
  <2>1. Message(role, c) \in Messages /\ Message(role, c).content = c
    BY MessageType DEF Message
  <2>2. Message(role, c) \in EntriesOf(fmt)
    BY <2>1, MessagesAreEntries DEF EntriesOf, PlainEntries
  <2> QED
    BY <1>1, <2>2
<1> HIDE DEF d, x
<1>6. Continues(ToldIn(fmt, h), ToldIn(fmt, x), role, d)
  BY <1>1, <1>2, <1>3, <1>4, SpeaksContinues, Zenon
<1>7. EndsWith(fmt, x, role)
  BY <1>2, <1>4, SpeaksEnds, Zenon
<1>8. Owes(fmt, x, IF role = "assistant" THEN owed \cup Tags("tool_use", c) ELSE {})
  BY <1>1, <1>3, <1>5, <1>6, Zenon DEF Owes, Continues
<1> QED
  BY <1>7, <1>8, Zenon DEF GrowsBy, x

(* The items a responses client keeps besides messages. *)
LEMMA ItemTypes ==
    /\ \A role \in Roles, c \in Seq(Blocks) :
          Untyped(role, c) \in PlainEntries /\ Untyped(role, c).type = ""
    /\ \A t \in Nat : Call(t) \in PlainEntries /\ Call(t).type = "function_call" /\ Call(t).tag = t
    /\ \A t \in Nat : Output(t) \in PlainEntries /\ Output(t).type = "function_call_output" /\ Output(t).tag = t
<1>1. ASSUME NEW role \in Roles, NEW c \in Seq(Blocks)
      PROVE  Untyped(role, c) \in PlainEntries /\ Untyped(role, c).type = ""
  BY DEF Untyped, PlainEntries, Entries
<1>2. ASSUME NEW t \in Nat
      PROVE  Call(t) \in PlainEntries /\ Call(t).type = "function_call" /\ Call(t).tag = t
  BY DEF Call, PlainEntries, Entries
<1>3. ASSUME NEW t \in Nat
      PROVE  Output(t) \in PlainEntries /\ Output(t).type = "function_call_output" /\ Output(t).tag = t
  BY DEF Output, PlainEntries, Entries
<1> QED
  BY <1>1, <1>2, <1>3

IsParsed(h, e) ==
    /\ IsAcc(Parsed(h)) /\ ItemDoes(Parsed(h), e) /\ AddsTo(Parsed(h), e)
    /\ Parsed(Append(h, e)) = Item(Parsed(h), e)
    /\ Append(h, e) \in Seq(PlainEntries)

LEMMA ItemParsed ==
    ASSUME NEW h \in Seq(PlainEntries), NEW e \in PlainEntries
    PROVE  IsParsed(h, e)
<1>1. h \in Seq(Entries) /\ e \in Entries
  BY PlainAreEntries DEF PlainEntries
<1>2. IsAcc(Parsed(h)) /\ ParsesOneMore(h, e)
  BY <1>1, ParsedType, ParsedAppend, Zenon
<1>3. ItemDoes(Parsed(h), e) /\ AddsTo(Parsed(h), e)
  BY <1>1, <1>2, ItemSteps, ItemAdds, Zenon
<1>4. Append(h, e) \in Seq(PlainEntries)
  OBVIOUS
<1> QED
  BY <1>2, <1>3, <1>4, Zenon DEF IsParsed, ParsesOneMore

LEMMA UntypedOwes ==
    ASSUME NEW h, NEW owed, Owes("responses", h, owed), NEW e \in PlainEntries, e.type = ""
    PROVE  Owes("responses", Append(h, e), owed)
<1>1. h \in Seq(PlainEntries)
  BY Zenon DEF Owes, EntriesOf
<1>2. IsParsed(h, e)
  BY <1>1, ItemParsed, Zenon
<1>3. Parsed(Append(h, e)).messages = Parsed(h).messages
  BY <1>2, Zenon DEF IsParsed, AddsTo
<1> QED
  BY <1>2, <1>3, Zenon DEF Owes, EntriesOf, IsParsed, ToldIn, ParseInput

LEMMA OneBlockTags ==
    ASSUME NEW b \in Blocks, NEW kind
    PROVE  Tags(kind, <<b>>) = TagOf(kind, b)
<1>1. <<>> \in Seq(Blocks) /\ Append(<<>>, b) = <<b>>
  OBVIOUS
<1>2. TagsOneMore(kind, <<>>, b)
  BY <1>1, TagsAppend, Zenon
<1> QED
  BY <1>1, <1>2, TagsEmpty, Zenon DEF TagsOneMore

LEMMA CallOwes ==
    ASSUME NEW h, NEW owed, Owes("responses", h, owed), NEW t \in Nat
    PROVE  Owes("responses", Append(h, Call(t)), owed \cup {t})
<1> DEFINE x == Append(h, Call(t))
           m == Parsed(h).messages
           n == Parsed(x).messages
           b == Block("tool_use", t)
<1>1. h \in Seq(PlainEntries) /\ Turns(m) /\ LastCalls(m) = owed
  BY Zenon DEF Owes, EntriesOf, ToldIn, ParseInput
<1>2. IsParsed(h, Call(t))
  BY <1>1, ItemTypes, ItemParsed, Zenon
<1>3. ItemBlock(Call(t)) = b /\ Call(t).type = "function_call" /\ Call(t).type \in Grouping
  BY ItemTypes DEF ItemBlock, Grouping
<1>4. b \in Blocks /\ TagOf("tool_use", b) = {t} /\ Tags("tool_use", <<b>>) = {t}
  <2>1. b \in Blocks /\ b.kind = "tool_use" /\ b.tag = t
    BY KindsOfBlocks, BlockType DEF Block
  <2>2. TagOf("tool_use", b) = {t}
    BY <2>1 DEF TagOf
  <2> HIDE DEF b
  <2> QED
    BY <2>1, <2>2, OneBlockTags, Zenon
<1>5. m \in Seq(Messages)
  BY <1>2 DEF IsParsed, IsAcc, Accs
<1>6. x \in Seq(PlainEntries)
  BY <1>2, Zenon DEF IsParsed
<1> HIDE DEF b
<1>7. Turns(n) /\ LastCalls(n) = owed \cup {t}
  <2>1. CASE Parsed(h).run = "function_call"
    <3>1. Joins(m, n, b)
      BY <1>2, <1>3, <2>1, Zenon DEF IsParsed, AddsTo
    <3>2. m # <<>> /\ Last(m).role = "assistant"
      BY <1>2, <2>1 DEF IsParsed, IsAcc, Grouping, RunRole
    <3> HIDE DEF m, n
    <3>3. CallsMore(m, n, b)
      BY <1>1, <1>4, <1>5, <3>1, <3>2, JoinsCalls, Zenon
    <3> QED
      BY <1>1, <1>4, <3>3, Zenon DEF CallsMore
  <2>2. CASE Parsed(h).run # "function_call"
    <3>1. Speaks(m, n, "assistant", <<b>>)
      <4>1. RunRole("function_call") = "assistant"
        BY DEF RunRole
      <4> QED
        BY <1>2, <1>3, <2>2, <4>1, Zenon DEF IsParsed, AddsTo
    <3>2. "assistant" # "user"
      OBVIOUS
    <3> HIDE DEF m, n
    <3>3. Continues(m, n, "assistant", <<b>>)
      BY <1>1, <1>5, <3>1, <3>2, SpeaksContinues, Zenon
    <3> QED
      BY <1>1, <1>4, <3>3, Zenon DEF Continues
  <2> QED
    BY <2>1, <2>2
<1> QED
  BY <1>6, <1>7, Zenon DEF Owes, EntriesOf, ToldIn, ParseInput, x, n

(* All results of a turn make one message. *)
Outputs(calls) == [i \in DOMAIN calls |-> Output(calls[i])]
Results(calls) == [i \in DOMAIN calls |-> Block("tool_result", calls[i])]

LEMMA OutputsGrow ==
    ASSUME NEW calls \in Seq(Nat), NEW t \in Nat
    PROVE  /\ Outputs(calls) \in Seq(PlainEntries) /\ Results(calls) \in Seq(Blocks)
           /\ Outputs(Append(calls, t)) = Append(Outputs(calls), Output(t))
           /\ Results(Append(calls, t)) = Append(Results(calls), Block("tool_result", t))
<1>1. \A i \in DOMAIN calls : calls[i] \in Nat
  OBVIOUS
<1>2. Outputs(calls) \in Seq(PlainEntries) /\ Len(Outputs(calls)) = Len(calls)
      /\ \A i \in 1 .. Len(calls) : Outputs(calls)[i] = Output(calls[i])
  <2>1. \A i \in DOMAIN calls : Output(calls[i]) \in PlainEntries
    BY <1>1, ItemTypes
  <2> QED
    BY <2>1 DEF Outputs
<1>3. Results(calls) \in Seq(Blocks) /\ Len(Results(calls)) = Len(calls)
      /\ \A i \in 1 .. Len(calls) : Results(calls)[i] = Block("tool_result", calls[i])
  <2>1. \A i \in DOMAIN calls : Block("tool_result", calls[i]) \in Blocks
    BY <1>1, BlockType, KindsOfBlocks
  <2> QED
    BY <2>1 DEF Results
<1>4. Outputs(Append(calls, t)) = Append(Outputs(calls), Output(t))
  BY <1>2 DEF Outputs
<1>5. Results(Append(calls, t)) = Append(Results(calls), Block("tool_result", t))
  BY <1>3 DEF Results
<1> QED
  BY <1>2, <1>3, <1>4, <1>5

Answered(h, calls) ==
    LET new == Parsed(h \o Outputs(calls))
    IN  /\ h \o Outputs(calls) \in Seq(PlainEntries)
        /\ calls = <<>> => h \o Outputs(calls) = h
        /\ calls # <<>> => /\ Speaks(Parsed(h).messages, new.messages, "user", Results(calls))
                           /\ new.run = "function_call_output"

LEMMA SpeaksThenJoins ==
    ASSUME NEW m \in Seq(Messages), NEW n \in Seq(Messages), NEW o, NEW role, NEW c, NEW b,
           Speaks(m, n, role, c), Joins(n, o, b)
    PROVE  Speaks(m, o, role, Append(c, b))
<1>1. Len(n) = Len(m) + 1 /\ n[Len(m) + 1].role = role /\ n[Len(m) + 1].content = c /\ \A i \in 1 .. Len(m) : n[i] = m[i]
  BY Zenon DEF Speaks
<1>2. /\ o \in Seq(Messages) /\ Len(o) = Len(m) + 1
      /\ o[Len(m) + 1].role = role /\ o[Len(m) + 1].content = Append(c, b)
  BY <1>1, Zenon DEF Joins, Last
<1>3. \A i \in 1 .. Len(m) : i \in 1 .. Len(n) /\ i # Len(n)
  BY <1>1
<1>4. \A i \in 1 .. Len(m) : o[i] = m[i]
  BY <1>1, <1>3, Zenon DEF Joins
<1> QED
  BY <1>2, <1>4, Zenon DEF Speaks

LEMMA OutputsAnswer ==
    ASSUME NEW h \in Seq(PlainEntries), Parsed(h).run # "function_call_output", NEW calls \in Seq(Nat)
    PROVE  Answered(h, calls)
<1> DEFINE T == {u \in Seq(Nat) : Answered(h, u)}
           m == Parsed(h).messages
<1>1. <<>> \in T
  <2>1. Outputs(<<>>) = <<>> /\ <<>> \in Seq(Nat)
    BY DEF Outputs
  <2>2. h \o <<>> = h
    OBVIOUS
  <2>3. Answered(h, <<>>)
    BY <2>1, <2>2, Zenon DEF Answered
  <2> QED
    BY <2>1, <2>3
<1>2. ASSUME NEW u \in Seq(Nat), NEW t \in Nat, u \in T PROVE Append(u, t) \in T
  <2> DEFINE x == h \o Outputs(u)
             y == h \o Outputs(Append(u, t))
             b == Block("tool_result", t)
  <2>1. Append(u, t) \in Seq(Nat) /\ Append(u, t) # <<>>
    <3>1. Append(u, t) \in Seq(Nat) /\ Len(Append(u, t)) = Len(u) + 1 /\ Len(u) \in Nat
      BY AppendProperties
    <3>2. Len(Append(u, t)) # Len(<<>>)
      BY <3>1
    <3> QED
      BY <3>1, <3>2, Zenon
  <2>2. Answered(h, u)
    BY <1>2
  <2>3. /\ Outputs(u) \in Seq(PlainEntries) /\ Results(u) \in Seq(Blocks)
        /\ Outputs(Append(u, t)) = Append(Outputs(u), Output(t))
        /\ Results(Append(u, t)) = Append(Results(u), b)
    BY OutputsGrow
  <2>4. y = Append(x, Output(t))
    <3>1. Output(t) \in PlainEntries
      BY ItemTypes
    <3>2. h \o Append(Outputs(u), Output(t)) = Append(h \o Outputs(u), Output(t))
      BY <2>3, <3>1
    <3> QED
      BY <2>3, <3>2, Zenon
  <2>5. x \in Seq(PlainEntries)
    BY <2>2, Zenon DEF Answered
  <2> HIDE DEF x, y
  <2>6. IsParsed(x, Output(t))
    BY <2>5, ItemTypes, ItemParsed, Zenon
  <2>7. y \in Seq(PlainEntries) /\ Parsed(y) = Item(Parsed(x), Output(t))
    BY <2>4, <2>6, Zenon DEF IsParsed
  <2>8. /\ Output(t).type = "function_call_output" /\ "function_call_output" \in Grouping
        /\ ItemBlock(Output(t)) = b /\ RunRole("function_call_output") = "user"
    BY ItemTypes DEF Grouping, ItemBlock, RunRole
  <2>9. Parsed(y).run = "function_call_output"
    BY <2>6, <2>7, <2>8, Zenon DEF IsParsed, ItemDoes, Groups
  <2>10. Speaks(m, Parsed(y).messages, "user", Append(Results(u), b))
    <3>1. CASE u = <<>>
      <4>1. x = h
        BY <2>2, <3>1, Zenon DEF Answered, x
      <4>2. Speaks(m, Parsed(y).messages, "user", <<b>>)
        BY <2>6, <2>7, <2>8, <4>1, Zenon DEF IsParsed, AddsTo
      <4>3. Results(<<>>) = <<>>
        BY DEF Results
      <4>4. Append(<<>>, b) = <<b>>
        OBVIOUS
      <4> QED
        BY <3>1, <4>2, <4>3, <4>4, Zenon
    <3>2. CASE u # <<>>
      <4>1. Speaks(m, Parsed(x).messages, "user", Results(u)) /\ Parsed(x).run = "function_call_output"
        BY <2>2, <3>2, Zenon DEF Answered, x
      <4>2. Joins(Parsed(x).messages, Parsed(y).messages, b)
        BY <2>6, <2>7, <2>8, <4>1, Zenon DEF IsParsed, AddsTo
      <4>3. Parsed(x).messages \in Seq(Messages)
        BY <4>1, Zenon DEF Speaks
      <4>4. m \in Seq(Messages)
        <5>1. IsAcc(Parsed(h))
          BY PlainAreEntries, ParsedType, Zenon
        <5> QED
          BY <5>1 DEF IsAcc, Accs
      <4> QED
        BY <4>1, <4>2, <4>3, <4>4, SpeaksThenJoins, Zenon
    <3> QED
      BY <3>1, <3>2
  <2>11. Answered(h, Append(u, t))
    BY <2>1, <2>3, <2>7, <2>9, <2>10, Zenon DEF Answered, y
  <2> QED
    BY <2>1, <2>11
<1>3. Seq(Nat) \subseteq T
  <2> HIDE DEF T
  <2> QED
    BY <1>1, <1>2, SeqInductionSet
<1> QED
  BY <1>3

ResultTags(calls) ==
    Tags("tool_result", Results(calls)) = ToSet(calls) /\ Tags("tool_use", Results(calls)) = {}

LEMMA TagsOfResults == ASSUME NEW calls \in Seq(Nat) PROVE ResultTags(calls)
<1>1. Results(calls) \in Seq(Blocks)
  BY OutputsGrow, 0 \in Nat, Zenon
<1>2. /\ DOMAIN calls = 1 .. Len(calls) /\ Len(Results(calls)) = Len(calls)
      /\ \A i \in 1 .. Len(calls) : Results(calls)[i].kind = "tool_result" /\ Results(calls)[i].tag = calls[i]
  BY DEF Results, Block
<1>3. TagsListed("tool_result", Results(calls)) /\ TagsListed("tool_use", Results(calls))
  BY <1>1, TagsAre, Zenon
<1>4. \A t : t \in ToSet(calls) <=> \E i \in 1 .. Len(calls) : calls[i] = t
  BY <1>2, Zenon DEF ToSet
<1>5. ASSUME NEW t PROVE t \in Tags("tool_result", Results(calls)) <=> t \in ToSet(calls)
  <2>1. t \in Tags("tool_result", Results(calls))
          <=> \E i \in 1 .. Len(calls) : Results(calls)[i].kind = "tool_result" /\ Results(calls)[i].tag = t
    BY <1>2, <1>3, Zenon DEF TagsListed
  <2> QED
    BY <1>2, <1>4, <2>1, Zenon
<1>6. "tool_result" # "tool_use"
  OBVIOUS
<1>7. \A t : t \notin Tags("tool_use", Results(calls))
  BY <1>2, <1>3, <1>6, Zenon DEF TagsListed
<1>8. Tags("tool_result", Results(calls)) = ToSet(calls)
  BY <1>5, Zenon
<1>9. Tags("tool_use", Results(calls)) = {}
  BY <1>7, Zenon
<1> QED
  BY <1>8, <1>9 DEF ResultTags

(* Outputs say their results, in the order of the items. *)
OutputsSayResults(calls) == HeardOf(Outputs(calls)) = Results(calls)

LEMMA OutputsSay == ASSUME NEW calls \in Seq(Nat) PROVE OutputsSayResults(calls)
<1> DEFINE T == {u \in Seq(Nat) : OutputsSayResults(u)}
<1>1. <<>> \in T
  <2>1. Outputs(<<>>) = <<>> /\ Results(<<>>) = <<>>
    BY DEF Outputs, Results
  <2>2. OutputsSayResults(<<>>)
    BY <2>1, BlocksEmpty, Zenon DEF OutputsSayResults
  <2> QED
    BY <2>2
<1>2. ASSUME NEW u \in Seq(Nat), NEW t \in Nat, u \in T PROVE Append(u, t) \in T
  <2> DEFINE b == Block("tool_result", t)
  <2>1. Append(u, t) \in Seq(Nat)
    OBVIOUS
  <2>2. /\ Outputs(u) \in Seq(PlainEntries) /\ Results(u) \in Seq(Blocks)
        /\ Outputs(Append(u, t)) = Append(Outputs(u), Output(t))
        /\ Results(Append(u, t)) = Append(Results(u), b)
    BY OutputsGrow, Zenon
  <2>3. Output(t) \in Entries /\ Heard(Output(t)) = <<b>>
    BY ItemTypes DEF PlainEntries, Heard
  <2>4. SaysOneMore(Outputs(u), Output(t))
    BY <2>2, <2>3, PlainAreEntries, BlocksAppend, Zenon
  <2>5. OutputsSayResults(u)
    BY <1>2
  <2>6. b \in Blocks
    BY BlockType, KindsOfBlocks
  <2> HIDE DEF b
  <2>7. Results(u) \o <<b>> = Append(Results(u), b)
    BY <2>2, <2>6
  <2>8. OutputsSayResults(Append(u, t))
    BY <2>2, <2>3, <2>4, <2>5, <2>7, Zenon DEF OutputsSayResults, SaysOneMore
  <2> QED
    BY <2>1, <2>8
<1>3. Seq(Nat) \subseteq T
  <2> HIDE DEF T
  <2> QED
    BY <1>1, <1>2, SeqInductionSet
<1> QED
  BY <1>3

(* Nobody answers twice: while calls are waiting the last item is no output. *)
LEMMA OwedIsAssistant ==
    ASSUME NEW m \in Seq(Messages), LastCalls(m) # {}
    PROVE  m # <<>> /\ Last(m).role = "assistant"
<1>1. m # <<>>
  <2>1. Len(<<>>) = 0
    OBVIOUS
  <2> QED
    BY <2>1, TurnStarts, Zenon DEF LastCalls
<1>2. PICK k \in Nat : Len(m) = k + 1
  <2>1. Len(m) - 1 \in Nat /\ Len(m) = (Len(m) - 1) + 1
    BY <1>1
  <2> QED
    BY <2>1, Zenon
<1>3. NextTurn(m, k)
  BY TurnGoesOn, Zenon
<1> QED
  BY <1>1, <1>2, <1>3, Zenon DEF NextTurn, LastCalls, Last

LEMMA OutputsOwe ==
    ASSUME NEW h, NEW owed, Owes("responses", h, owed), NEW calls \in Seq(Nat), ToSet(calls) = owed, owed # {}
    PROVE  Owes("responses", h \o Outputs(calls), {}) /\ EndsWith("responses", h \o Outputs(calls), "user")
<1> DEFINE x == h \o Outputs(calls)
           m == Parsed(h).messages
           n == Parsed(x).messages
<1>1. h \in Seq(PlainEntries) /\ Turns(m) /\ LastCalls(m) = owed
  BY Zenon DEF Owes, EntriesOf, ToldIn, ParseInput
<1>2. IsAcc(Parsed(h))
  BY <1>1, PlainAreEntries, ParsedType, Zenon
<1>3. m \in Seq(Messages)
  BY <1>2 DEF IsAcc, Accs
<1>4. Last(m).role = "assistant"
  <2> HIDE DEF m
  <2> QED
    BY <1>1, <1>3, OwedIsAssistant, Zenon
<1>5. Parsed(h).run # "function_call_output"
  BY <1>2, <1>4 DEF IsAcc, Grouping, RunRole
<1>6. Answered(h, calls)
  BY <1>1, <1>5, OutputsAnswer, Zenon
<1>7. calls # <<>>
  <2>1. ToSet(<<>>) = {}
    BY DEF ToSet
  <2> QED
    BY <2>1, Zenon
<1>8. x \in Seq(PlainEntries) /\ Speaks(m, n, "user", Results(calls))
  BY <1>6, <1>7, Zenon DEF Answered
<1>9. Tags("tool_result", Results(calls)) = LastCalls(m)
  BY <1>1, TagsOfResults, Zenon DEF ResultTags
<1>10. Continues(m, n, "user", Results(calls))
  <2> HIDE DEF m, n
  <2> QED
    BY <1>1, <1>3, <1>8, <1>9, SpeaksContinues, Zenon
<1>11. ToldIn("responses", x) = n
  BY Zenon DEF ToldIn, ParseInput
<1>12. EndsWith("responses", x, "user")
  <2> HIDE DEF m, n, x
  <2> QED
    BY <1>3, <1>8, <1>11, SpeaksEnds, Zenon
<1>13. Turns(n) /\ LastCalls(n) = {}
  <2>1. "user" # "assistant"
    OBVIOUS
  <2> QED
    BY <1>10, <2>1, Zenon DEF Continues
<1>14. Owes("responses", x, {})
  <2> HIDE DEF n, x
  <2> QED
    BY <1>8, <1>11, <1>13, Zenon DEF Owes, EntriesOf
<1> QED
  BY <1>12, <1>14

(* The items of an answer say its texts and calls. *)
ItemsPart == [b \in Blocks |-> ItemsOf(b)]

OneItem(b) ==
    \/ b.kind = "text" /\ ItemsOf(b) = <<Message("assistant", <<b>>)>>
    \/ b.kind = "tool_use" /\ ItemsOf(b) = <<Call(b.tag)>>
    \/ b.kind \notin {"text", "tool_use"} /\ ItemsOf(b) = <<>>

LEMMA ItemsCases == ASSUME NEW b \in Blocks PROVE OneItem(b)
BY DEF OneItem, ItemsOf

LEMMA TextItem ==
    ASSUME NEW b \in Blocks, b.kind = "text"
    PROVE  /\ Message("assistant", <<b>>) \in PlainEntries /\ Message("assistant", <<b>>) \in Messages
           /\ <<b>> \in Seq(OfKind(Plain)) /\ <<b>> \in Seq(Blocks) /\ "assistant" \in Roles
           /\ Message("assistant", <<b>>).content = <<b>>
<1>1. <<b>> \in Seq(OfKind(Plain)) /\ <<b>> \in Seq(Blocks)
  <2>1. b \in OfKind(Plain)
    BY DEF OfKind, Plain
  <2> QED
    BY <2>1
<1>2. "assistant" \in Roles
  BY DEF Roles
<1>3. Message("assistant", <<b>>) \in Messages
  BY <1>1, <1>2, MessageType, Zenon
<1>4. Message("assistant", <<b>>).content = <<b>>
  BY DEF Message
<1>5. Message("assistant", <<b>>) \in PlainEntries
  BY <1>1, <1>3, <1>4, MessagesAreEntries, Zenon DEF PlainEntries
<1> QED
  BY <1>1, <1>2, <1>3, <1>4, <1>5

LEMMA ItemsPartType == ItemsPart \in [Blocks -> Seq(PlainEntries)]
<1>1. ASSUME NEW b \in Blocks PROVE ItemsOf(b) \in Seq(PlainEntries)
  <2>1. b.tag \in Nat
    BY DEF Blocks
  <2>2. CASE b.kind = "text" /\ ItemsOf(b) = <<Message("assistant", <<b>>)>>
    <3>1. Message("assistant", <<b>>) \in PlainEntries
      BY <2>2, TextItem, Zenon
    <3> DEFINE e == Message("assistant", <<b>>)
    <3> HIDE DEF e
    <3>2. <<e>> \in Seq(PlainEntries)
      BY <3>1 DEF e
    <3> QED
      BY <2>2, <3>2, Zenon DEF e
  <2>3. CASE b.kind = "tool_use" /\ ItemsOf(b) = <<Call(b.tag)>>
    <3>1. Call(b.tag) \in PlainEntries
      BY <2>1, ItemTypes
    <3> QED
      BY <2>3, <3>1
  <2>4. CASE ItemsOf(b) = <<>>
    BY <2>4
  <2> QED
    BY <2>2, <2>3, <2>4, ItemsCases, Zenon DEF OneItem
<1> QED
  BY <1>1, Zenon DEF ItemsPart

LEMMA ItemsCollect == ASSUME NEW c \in Seq(Blocks) PROVE Items(c) = Collected(ItemsPart, c)
<1>1. \A i \in DOMAIN c : c[i] \in Blocks
  OBVIOUS
<1>2. [i \in DOMAIN c |-> ItemsOf(c[i])] = [i \in DOMAIN c |-> ItemsPart[c[i]]]
  BY <1>1, Zenon DEF ItemsPart
<1> QED
  BY <1>2, Zenon DEF Items, Collected

ItemsGrow(c, b) ==
    /\ Items(c) \in Seq(PlainEntries) /\ ItemsOf(b) \in Seq(PlainEntries)
    /\ Items(Append(c, b)) = Items(c) \o ItemsOf(b)

LEMMA ItemsAppend ==
    ASSUME NEW c \in Seq(Blocks), NEW b \in Blocks
    PROVE  ItemsGrow(c, b)
<1>1. Append(c, b) \in Seq(Blocks)
  OBVIOUS
<1>2. Items(c) = Collected(ItemsPart, c) /\ Items(Append(c, b)) = Collected(ItemsPart, Append(c, b))
  BY <1>1, ItemsCollect, Zenon
<1>3. CollectsOneMore(ItemsPart, c, b)
  BY ItemsPartType, CollectedAppend, Zenon
<1>4. ItemsPart[b] = ItemsOf(b)
  BY DEF ItemsPart
<1>5. Collected(ItemsPart, c) \in Seq(PlainEntries)
  BY ItemsPartType, CollectedType, Zenon
<1>6. ItemsPart[b] \in Seq(PlainEntries)
  BY ItemsPartType, Zenon
<1> QED
  BY <1>2, <1>3, <1>4, <1>5, <1>6, Zenon DEF ItemsGrow, CollectsOneMore

LEMMA ItemsEmpty == Items(<<>>) = <<>>
<1>1. <<>> \in Seq(Blocks)
  OBVIOUS
<1>2. Items(<<>>) = Collected(ItemsPart, <<>>)
  BY <1>1, ItemsCollect, Zenon
<1> QED
  BY <1>2, CollectedEmpty, Zenon

AnswerKinds == {"text", "tool_use"}

ItemsSay(c) == HeardOf(Items(c)) = Only(AnswerKinds, c)

LEMMA SaidOnce ==
    ASSUME NEW e \in Entries
    PROVE  HeardOf(<<e>>) = Heard(e)
<1>1. <<>> \in Seq(Entries) /\ Append(<<>>, e) = <<e>>
  OBVIOUS
<1>2. SaysOneMore(<<>>, e)
  BY <1>1, BlocksAppend, Zenon
<1>3. <<>> \o Heard(e) = Heard(e)
  BY SaidType, ConcatEmptySeq, Zenon
<1> QED
  BY <1>1, <1>2, <1>3, BlocksEmpty, Zenon DEF SaysOneMore

LEMMA ItemSays ==
    ASSUME NEW b \in Blocks
    PROVE  HeardOf(ItemsOf(b)) = OnlyOne(AnswerKinds, b)
<1>1. CASE b.kind = "text" /\ ItemsOf(b) = <<Message("assistant", <<b>>)>>
  <2>1. Message("assistant", <<b>>) \in Messages /\ Message("assistant", <<b>>).content = <<b>>
    BY <1>1, TextItem, Zenon
  <2>2. Heard(Message("assistant", <<b>>)) = <<b>>
    BY <2>1, SaidMessage, Zenon
  <2>3. HeardOf(ItemsOf(b)) = <<b>>
    BY <1>1, <2>1, <2>2, SaidOnce, MessagesAreEntries, Zenon
  <2>4. b.kind \in AnswerKinds
    BY <1>1 DEF AnswerKinds
  <2> QED
    BY <2>3, <2>4, Zenon DEF OnlyOne
<1>2. CASE b.kind = "tool_use" /\ ItemsOf(b) = <<Call(b.tag)>>
  <2>1. b.tag \in Nat /\ b = Block("tool_use", b.tag)
    BY <1>2 DEF Blocks, Block
  <2>2. Call(b.tag) \in Entries /\ Call(b.tag).type = "function_call" /\ Call(b.tag).tag = b.tag
    BY <2>1, ItemTypes DEF PlainEntries
  <2>3. Heard(Call(b.tag)) = <<b>>
    BY <2>1, <2>2 DEF Heard
  <2>4. HeardOf(ItemsOf(b)) = <<b>>
    BY <1>2, <2>2, <2>3, SaidOnce, Zenon
  <2>5. b.kind \in AnswerKinds
    BY <1>2 DEF AnswerKinds
  <2> QED
    BY <2>4, <2>5, Zenon DEF OnlyOne
<1>3. CASE b.kind \notin {"text", "tool_use"} /\ ItemsOf(b) = <<>>
  BY <1>3, BlocksEmpty, Zenon DEF OnlyOne, AnswerKinds
<1> QED
  BY <1>1, <1>2, <1>3, ItemsCases, Zenon DEF OneItem

LEMMA ItemsSayAll == ASSUME NEW c \in Seq(Blocks) PROVE ItemsSay(c)
<1> DEFINE T == {u \in Seq(Blocks) : ItemsSay(u)}
<1>1. <<>> \in T
  <2>1. ItemsSay(<<>>)
    BY ItemsEmpty, BlocksEmpty, OnlyEmpty, Zenon DEF ItemsSay
  <2> QED
    BY <2>1
<1>2. ASSUME NEW u \in Seq(Blocks), NEW b \in Blocks, u \in T PROVE Append(u, b) \in T
  <2>1. Append(u, b) \in Seq(Blocks)
    OBVIOUS
  <2>2. ItemsGrow(u, b)
    BY ItemsAppend, Zenon
  <2>3. Items(u) \in Seq(Entries) /\ ItemsOf(b) \in Seq(Entries)
    BY <2>2, PlainAreEntries, Zenon DEF ItemsGrow
  <2>4. SaysBoth(Items(u), ItemsOf(b))
    BY <2>3, BlocksConcat, Zenon
  <2>5. KeepsOne(AnswerKinds, u, b)
    BY OnlyAppend, Zenon
  <2>6. ItemsSay(u)
    BY <1>2
  <2>7. ItemsSay(Append(u, b))
    BY <2>2, <2>4, <2>5, <2>6, ItemSays, Zenon DEF ItemsSay, ItemsGrow, SaysBoth, KeepsOne
  <2> QED
    BY <2>1, <2>7
<1>3. Seq(Blocks) \subseteq T
  <2> HIDE DEF T
  <2> QED
    BY <1>1, <1>2, SeqInductionSet
<1> QED
  BY <1>3

ItemsOwe(h, owed, c) == Owes("responses", h \o Items(c), owed \cup Tags("tool_use", c))

LEMMA AnswerOwes ==
    ASSUME NEW h, NEW owed, Owes("responses", h, owed), NEW c \in Seq(Blocks)
    PROVE  ItemsOwe(h, owed, c)
<1> DEFINE T == {u \in Seq(Blocks) : ItemsOwe(h, owed, u)}
<1>1. h \in Seq(PlainEntries)
  BY Zenon DEF Owes, EntriesOf
<1>2. <<>> \in T
  <2>1. h \o <<>> = h
    BY <1>1
  <2>2. owed \cup {} = owed
    OBVIOUS
  <2>3. ItemsOwe(h, owed, <<>>)
    BY <2>1, <2>2, ItemsEmpty, TagsEmpty, Zenon DEF ItemsOwe
  <2> QED
    BY <2>3
<1>3. ASSUME NEW u \in Seq(Blocks), NEW b \in Blocks, u \in T PROVE Append(u, b) \in T
  <2> DEFINE x == h \o Items(u)
             o == owed \cup Tags("tool_use", u)
  <2>1. Append(u, b) \in Seq(Blocks)
    OBVIOUS
  <2>2. ItemsGrow(u, b) /\ TagsOneMore("tool_use", u, b)
    BY ItemsAppend, TagsAppend, Zenon
  <2>3. Owes("responses", x, o)
    <3>1. ItemsOwe(h, owed, u)
      BY <1>3
    <3> QED
      BY <3>1, Zenon DEF ItemsOwe
  <2>4. h \o Items(Append(u, b)) = x \o ItemsOf(b)
    <3>1. Associates(h, Items(u), ItemsOf(b))
      BY <1>1, <2>2, ConcatAssociates, Zenon DEF ItemsGrow
    <3> QED
      BY <2>2, <3>1, Zenon DEF ItemsGrow, Associates
  <2>5. owed \cup Tags("tool_use", Append(u, b)) = o \cup TagOf("tool_use", b)
    BY <2>2, Zenon DEF TagsOneMore
  <2>6. x \in Seq(PlainEntries)
    BY <2>3, Zenon DEF Owes, EntriesOf
  <2>7. Owes("responses", x \o ItemsOf(b), o \cup TagOf("tool_use", b))
    <3> HIDE DEF x, o
    <3>1. CASE b.kind = "text" /\ ItemsOf(b) = <<Message("assistant", <<b>>)>>
      <4>1. /\ <<b>> \in Seq(OfKind(Plain)) /\ <<b>> \in Seq(Blocks) /\ "assistant" \in Roles
            /\ Message("assistant", <<b>>) \in PlainEntries
        BY <3>1, TextItem, Zenon
      <4>2. "assistant" # "user"
        OBVIOUS
      <4>3. GrowsBy("responses", x, "assistant", <<b>>, o)
        BY <2>3, <4>1, <4>2, MessageOwes, Zenon
      <4>4. Tags("tool_use", <<b>>) = TagOf("tool_use", b)
        BY OneBlockTags, Zenon
      <4> DEFINE e == Message("assistant", <<b>>)
      <4> HIDE DEF e
      <4>5. x \o <<e>> = Append(x, e)
        BY <2>6, <4>1 DEF e
      <4> QED
        BY <3>1, <4>3, <4>4, <4>5, Zenon DEF GrowsBy, e
    <3>2. CASE b.kind = "tool_use" /\ ItemsOf(b) = <<Call(b.tag)>>
      <4>1. b.tag \in Nat /\ TagOf("tool_use", b) = {b.tag}
        BY <3>2 DEF Blocks, TagOf
      <4>2. Owes("responses", Append(x, Call(b.tag)), o \cup {b.tag})
        BY <2>3, <4>1, CallOwes, Zenon
      <4>3. Call(b.tag) \in PlainEntries
        BY <4>1, ItemTypes
      <4>4. x \o <<Call(b.tag)>> = Append(x, Call(b.tag))
        BY <2>6, <4>3
      <4> QED
        BY <3>2, <4>1, <4>2, <4>4, Zenon
    <3>3. CASE b.kind \notin {"text", "tool_use"} /\ ItemsOf(b) = <<>>
      <4>1. TagOf("tool_use", b) = {}
        BY <3>3 DEF TagOf
      <4>2. x \o <<>> = x
        BY <2>6
      <4>3. o \cup {} = o
        OBVIOUS
      <4> QED
        BY <2>3, <3>3, <4>1, <4>2, <4>3, Zenon
    <3> QED
      BY <3>1, <3>2, <3>3, ItemsCases, Zenon DEF OneItem
  <2>8. ItemsOwe(h, owed, Append(u, b))
    BY <2>4, <2>5, <2>7, Zenon DEF ItemsOwe
  <2> QED
    BY <2>1, <2>8
<1>4. Seq(Blocks) \subseteq T
  <2> HIDE DEF T
  <2> QED
    BY <1>2, <1>3, SeqInductionSet
<1> QED
  BY <1>4

-----------------------------------------------------------------------------
(* The steps of the conversation: tags grow, and no call is used twice.     *)
UpTo(n) == {b \in Blocks : b.tag <= n}

TagsBounded(s, n) == (\A b \in ToSet(s) : b.tag <= n) <=> s \in Seq(UpTo(n))

LEMMA BoundedTags == ASSUME NEW s \in Seq(Blocks), NEW n PROVE TagsBounded(s, n)
<1>1. \A b : b \in ToSet(s) <=> \E i \in DOMAIN s : b = s[i]
  BY Zenon DEF ToSet
<1>2. \A i \in DOMAIN s : s[i] \in Blocks
  OBVIOUS
<1>3. ASSUME \A b \in ToSet(s) : b.tag <= n PROVE s \in Seq(UpTo(n))
  <2>1. \A i \in DOMAIN s : s[i] \in UpTo(n)
    BY <1>1, <1>2, <1>3, Zenon DEF UpTo
  <2> QED
    BY <2>1
<1>4. ASSUME s \in Seq(UpTo(n)) PROVE \A b \in ToSet(s) : b.tag <= n
  <2>1. \A i \in DOMAIN s : s[i] \in UpTo(n)
    BY <1>4
  <2> QED
    BY <1>1, <2>1, Zenon DEF UpTo
<1> QED
  BY <1>3, <1>4, Zenon DEF TagsBounded

LEMMA MoreTags == ASSUME NEW n \in Nat, NEW k \in Nat PROVE Seq(UpTo(n)) \subseteq Seq(UpTo(n + k))
<1>1. UpTo(n) \subseteq UpTo(n + k)
  BY DEF UpTo, Blocks
<1> QED
  BY <1>1

(* The tags in blocks of a set. *)
IsTagIn(T, kind, t) == \E b \in T : b.kind = kind /\ b.tag = t

LEMMA TagsWithin ==
    ASSUME NEW T \in SUBSET Blocks, NEW s \in Seq(T), NEW kind, NEW t \in Tags(kind, s)
    PROVE  IsTagIn(T, kind, t)
<1>1. s \in Seq(Blocks) /\ \A i \in 1 .. Len(s) : s[i] \in T
  OBVIOUS
<1>2. TagsListed(kind, s)
  BY <1>1, TagsAre, Zenon
<1>3. PICK i \in 1 .. Len(s) : s[i].kind = kind /\ s[i].tag = t
  BY <1>2, Zenon DEF TagsListed
<1> QED
  BY <1>1, <1>3, Zenon DEF IsTagIn

(* The blocks of new messages have tags above those of the history. *)
NewBlocks(n, kinds) == {b \in Blocks : n < b.tag /\ b.tag <= n + Len(kinds) /\ b.kind \in ToSet(kinds)}

LEMMA TaggedType ==
    ASSUME tag \in Nat, NEW kinds \in Seq(Kinds)
    PROVE  Tagged(kinds) \in Seq(NewBlocks(tag, kinds))
<1>1. DOMAIN kinds = 1 .. Len(kinds) /\ Len(kinds) \in Nat
  OBVIOUS
<1>2. ASSUME NEW i \in 1 .. Len(kinds) PROVE Block(kinds[i], tag + i) \in NewBlocks(tag, kinds)
  <2>1. kinds[i] \in Kinds /\ kinds[i] \in ToSet(kinds)
    BY <1>1 DEF ToSet
  <2>2. tag + i \in Nat /\ tag < tag + i /\ tag + i <= tag + Len(kinds)
    OBVIOUS
  <2>3. Block(kinds[i], tag + i) \in Blocks
    BY <2>1, <2>2, BlockType, Zenon
  <2>4. Block(kinds[i], tag + i).kind = kinds[i] /\ Block(kinds[i], tag + i).tag = tag + i
    BY DEF Block
  <2> QED
    BY <2>1, <2>2, <2>3, <2>4 DEF NewBlocks
<1>3. Tagged(kinds) = [i \in 1 .. Len(kinds) |-> Block(kinds[i], tag + i)]
  BY <1>1, Zenon DEF Tagged
<1> QED
  BY <1>1, <1>2, <1>3

Waiting(h) == Tags("tool_use", HeardOf(h)) \ Tags("tool_result", HeardOf(h))

(* Calls that no result names yet wait. *)
WaitsMore(h, more) == Waiting(h \o more) = Waiting(h) \cup Tags("tool_use", HeardOf(more))

LEMMA NewCallsWait ==
    ASSUME NEW h \in Seq(Entries), NEW more \in Seq(Entries),
           Tags("tool_result", HeardOf(more)) = {},
           Tags("tool_use", HeardOf(more)) \cap Tags("tool_result", HeardOf(h)) = {}
    PROVE  WaitsMore(h, more)
<1>1. TagsSaidBoth("tool_use", h, more) /\ TagsSaidBoth("tool_result", h, more)
  BY TagsOfConcat, Zenon
<1> QED
  BY <1>1 DEF TagsSaidBoth, WaitsMore, Waiting

LEMMA OneMessageSays ==
    ASSUME NEW role \in Roles, NEW c \in Seq(Blocks)
    PROVE  <<Message(role, c)>> \in Seq(Entries) /\ HeardOf(<<Message(role, c)>>) = c
<1> DEFINE e == Message(role, c)
<1>1. e.content = c
  BY DEF Message
<1>2. e \in Messages
  BY MessageType, Zenon
<1> HIDE DEF e
<1>3. e \in Entries /\ <<e>> \in Seq(Entries)
  BY <1>2, MessagesAreEntries
<1>4. HeardOf(<<e>>) = c
  BY <1>1, <1>2, <1>3, SaidOnce, SaidMessage, Zenon
<1> QED
  BY <1>3, <1>4 DEF e

(* What a client records of an answer: its blocks, or some of them. *)
Records(T, c, stream) ==
    LET more == Recorded(c, stream)
        said == HeardOf(more)
    IN  /\ more \in Seq(Entries) /\ said \in Seq(T)
        /\ Owes(format, history \o more, Tags("tool_use", said))
        /\ format = "openai" => Tags("tool_use", said) = {}

LEMMA OneMessageOwes ==
    ASSUME Owes(format, history, {}), format # "responses", NEW c \in Seq(Blocks)
    PROVE  Owes(format, history \o <<Message("assistant", c)>>, Tags("tool_use", c))
<1>1. "assistant" \in Roles /\ "assistant" # "user"
  BY DEF Roles
<1>2. GrowsBy(format, history, "assistant", c, {})
  BY <1>1, MessageOwes, Zenon
<1>3. history \in Seq(Messages)
  BY DEF Owes, EntriesOf
<1>4. Message("assistant", c) \in Messages
  BY <1>1, MessageType, Zenon
<1> DEFINE e == Message("assistant", c)
<1> HIDE DEF e
<1>5. history \o <<e>> = Append(history, e)
  BY <1>3, <1>4 DEF e
<1>6. {} \cup Tags("tool_use", c) = Tags("tool_use", c)
  OBVIOUS
<1> QED
  BY <1>2, <1>5, <1>6, Zenon DEF GrowsBy, e

LEMMA RecordedOwes ==
    ASSUME format \in Formats, Owes(format, history, {}), NEW T \in SUBSET Blocks, NEW c \in Seq(T),
           NEW stream \in BOOLEAN, ~stream => Shown(c, FALSE) # <<>>
    PROVE  Records(T, c, stream)
<1>1. Seq(T) \subseteq Seq(Blocks) /\ "assistant" \in Roles
  BY DEF Roles
<1>2. Shown(c, stream) \in Seq(T)
  <2>1. CASE stream
    BY <2>1 DEF Shown
  <2>2. CASE ~stream
    BY <2>2, OnlyWithin, Zenon DEF Shown
  <2> QED
    BY <2>1, <2>2
<1>3. CASE format = "anthropic"
  <2>1. Recorded(c, stream) = <<Message("assistant", Shown(c, stream))>>
    BY <1>3 DEF Recorded
  <2>2. Shown(c, stream) \in Seq(Blocks)
    BY <1>1, <1>2, Zenon
  <2>3. format # "responses" /\ format # "openai"
    BY <1>3
  <2> QED
    BY <1>1, <1>2, <2>1, <2>2, <2>3, OneMessageSays, OneMessageOwes, Zenon DEF Records
<1>4. CASE format = "openai"
  <2> DEFINE first == IF stream THEN Shown(c, stream) ELSE SubSeq(Shown(c, stream), 1, 1)
             s == TextOnly(Shown(c, stream), stream)
  <2>1. Recorded(c, stream) = <<Message("assistant", s)>>
    BY <1>4 DEF Recorded
  <2>2. first \in Seq(T)
    <3>1. CASE stream
      BY <1>2, <3>1, Zenon
    <3>2. CASE ~stream
      <4> DEFINE shown == Shown(c, stream)
      <4>1. shown # <<>> /\ shown \in Seq(T)
        BY <1>2, <3>2
      <4> HIDE DEF shown
      <4>2. SubSeq(shown, 1, 1) \in Seq(T)
        BY <4>1
      <4> QED
        BY <3>2, <4>2, Zenon DEF shown
    <3> QED
      BY <3>1, <3>2
  <2>3. s = Only({"text"}, first)
    BY Zenon DEF TextOnly
  <2> HIDE DEF first, s
  <2>4. s \in Seq(T) /\ s \in Seq(OfKind({"text"}))
    <3>1. first \in Seq(Blocks)
      BY <1>1, <2>2, Zenon
    <3> QED
      BY <2>2, <2>3, <3>1, OnlyWithin, OnlyOfKind, Zenon
  <2>5. "tool_use" \notin {"text"}
    OBVIOUS
  <2>6. Tags("tool_use", s) = {}
    BY <2>4, <2>5, NoTags, Zenon
  <2>7. s \in Seq(Blocks) /\ format # "responses"
    BY <1>1, <1>4, <2>4
  <2> QED
    BY <1>1, <2>1, <2>4, <2>6, <2>7, OneMessageSays, OneMessageOwes, Zenon DEF Records
<1>5. CASE format = "responses"
  <2>1. Recorded(c, stream) = Items(c)
    BY <1>5 DEF Recorded
  <2>2. c \in Seq(Blocks)
    BY <1>1
  <2>3. ItemsSay(c) /\ ItemsOwe(history, {}, c)
    BY <1>5, <2>2, ItemsSayAll, AnswerOwes, Zenon
  <2>4. "tool_use" \in AnswerKinds /\ {} \cup Tags("tool_use", c) = Tags("tool_use", c)
    BY DEF AnswerKinds
  <2>5. KeepsTags(AnswerKinds, "tool_use", c)
    BY <2>2, <2>4, OnlyKeepsTags, Zenon
  <2>6. HeardOf(Items(c)) \in Seq(T)
    BY <2>3, OnlyWithin, Zenon DEF ItemsSay
  <2>7. Items(c) \in Seq(Entries)
    <3>1. Items(c) = Collected(ItemsPart, c)
      BY <2>2, ItemsCollect, Zenon
    <3>2. Collected(ItemsPart, c) \in Seq(PlainEntries)
      BY <2>2, ItemsPartType, CollectedType, Zenon
    <3> QED
      BY <3>1, <3>2, PlainAreEntries, Zenon
  <2>8. format # "openai"
    BY <1>5
  <2> QED
    BY <1>5, <2>1, <2>3, <2>4, <2>5, <2>6, <2>7, <2>8, Zenon DEF Records, ItemsSay, ItemsOwe, KeepsTags
<1> QED
  BY <1>3, <1>4, <1>5 DEF Formats

(* An order of the waiting calls names each of them. *)
LEMMA OrdersAll ==
    ASSUME NEW n \in Nat, NEW S \in SUBSET (0 .. n), NEW calls \in SetToSeqs(S)
    PROVE  calls \in Seq(Nat) /\ ToSet(calls) = S
<1> DEFINE k == Cardinality(S)
<1>1. IsFiniteSet(S)
  <2>1. 0 \in Int /\ n \in Int
    OBVIOUS
  <2>2. IsFiniteSet(0 .. n)
    BY <2>1, FS_Interval, Zenon
  <2> QED
    BY <2>2, FS_Subset, Zenon
<1>2. k \in Nat
  BY <1>1, FS_CardinalityType, Zenon
<1> HIDE DEF k
<1>3. calls \in [1 .. k -> S] /\ \A i, j \in 1 .. k : i # j => calls[i] # calls[j]
  BY DEF SetToSeqs, k
<1>4. calls \in Injection(1 .. k, S)
  BY <1>3, Zenon DEF Injection, IsInjective
<1>5. Cardinality(1 .. k) = k
  <2>1. 1 \in Int /\ k \in Int
    BY <1>2
  <2>2. Cardinality(1 .. k) = IF 1 > k THEN 0 ELSE k - 1 + 1
    BY <2>1, FS_Interval, Zenon
  <2> QED
    BY <1>2, <2>2
<1>6. calls \in Surjection(1 .. k, S)
  <2>1. Cardinality(1 .. k) = Cardinality(S)
    BY <1>5 DEF k
  <2> QED
    BY <1>1, <1>4, <2>1, FS_Injection, Zenon
<1>7. \A t \in S : \E i \in 1 .. k : calls[i] = t
  BY <1>6 DEF Surjection
<1>8. calls \in Seq(Nat) /\ DOMAIN calls = 1 .. k
  <2>1. calls \in [1 .. k -> Nat]
    <3>1. S \subseteq Nat
      OBVIOUS
    <3>2. \A i \in 1 .. k : calls[i] \in Nat
      BY <1>3, <3>1
    <3> QED
      BY <1>3, <3>2
  <2> QED
    BY <1>2, <2>1
<1>9. \A i \in 1 .. k : calls[i] \in S
  BY <1>3
<1>10. \A t : t \in ToSet(calls) <=> \E i \in 1 .. k : t = calls[i]
  BY <1>8, Zenon DEF ToSet
<1>11. ASSUME NEW t, t \in ToSet(calls) PROVE t \in S
  <2>1. PICK i \in 1 .. k : t = calls[i]
    BY <1>10, <1>11, Zenon
  <2> QED
    BY <1>9, <2>1
<1>12. ASSUME NEW t, t \in S PROVE t \in ToSet(calls)
  <2>1. PICK i \in 1 .. k : calls[i] = t
    BY <1>7, <1>12, Zenon
  <2> QED
    BY <1>10, <2>1, Zenon
<1>13. ToSet(calls) = S
  BY <1>11, <1>12, Zenon
<1> QED
  BY <1>8, <1>13, Zenon

(* What a user says, and an item that parses to nothing, leave no call waiting. *)
Quiet(h, g, n) ==
    /\ Owes(format, g, {})
    /\ HeardOf(g) \in Seq(UpTo(n))
    /\ \A kind \in ToolKinds : Tags(kind, HeardOf(g)) = Tags(kind, HeardOf(h))

LEMMA QuietEntry ==
    ASSUME NEW h \in Seq(Entries), NEW n \in Nat, HeardOf(h) \in Seq(UpTo(n)), NEW e \in Entries,
           Heard(e) \in Seq(UpTo(n)), Heard(e) \in Seq(OfKind(Plain)), Owes(format, Append(h, e), {})
    PROVE  Quiet(h, Append(h, e), n)
<1>1. SaysOneMore(h, e)
  BY BlocksAppend, Zenon
<1>2. HeardOf(h) \o Heard(e) \in Seq(UpTo(n))
  OBVIOUS
<1>3. ASSUME NEW kind \in ToolKinds PROVE Tags(kind, HeardOf(Append(h, e))) = Tags(kind, HeardOf(h))
  <2>1. kind \notin Plain
    BY DEF ToolKinds, Plain
  <2>2. Tags(kind, Heard(e)) = {}
    BY <2>1, NoTags, Zenon
  <2>3. TagsSaidOneMore(kind, h, e)
    BY TagsOfAppend, Zenon
  <2>4. Tags(kind, HeardOf(h)) \cup {} = Tags(kind, HeardOf(h))
    OBVIOUS
  <2> QED
    BY <2>2, <2>3, <2>4, Zenon DEF TagsSaidOneMore
<1> QED
  BY <1>1, <1>2, <1>3, Zenon DEF Quiet, SaysOneMore

QuietlySaid(h, role, c, n) ==
    /\ h \o <<Message(role, c)>> = Append(h, Message(role, c))
    /\ Quiet(h, h \o <<Message(role, c)>>, n)
    /\ EndsWith(format, h \o <<Message(role, c)>>, role)

LEMMA QuietMessage ==
    ASSUME NEW h, Owes(format, h, {}), NEW n \in Nat, HeardOf(h) \in Seq(UpTo(n)),
           NEW role \in Roles \ {"assistant"}, NEW c \in Seq(OfKind(Plain)), c \in Seq(UpTo(n))
    PROVE  QuietlySaid(h, role, c, n)
<1> DEFINE e == Message(role, c)
<1>1. h \in Seq(Entries)
  <2>1. h \in Seq(EntriesOf(format))
    BY Zenon DEF Owes
  <2> QED
    BY <2>1, HistoryEntries, Zenon
<1>2. c \in Seq(Blocks)
  BY OfKindBlocks, Zenon
<1>3. "tool_result" \notin Plain
  BY DEF Plain
<1>4. Tags("tool_result", c) = {}
  BY <1>3, NoTags, Zenon
<1>5. GrowsBy(format, h, role, c, {})
  BY <1>2, <1>4, MessageOwes, Zenon
<1>6. role # "assistant"
  OBVIOUS
<1>7. Owes(format, Append(h, e), {}) /\ EndsWith(format, Append(h, e), role)
  BY <1>5, <1>6, Zenon DEF GrowsBy
<1>8. e \in Messages /\ e.content = c
  BY <1>2, MessageType DEF Message
<1> HIDE DEF e
<1>9. e \in Entries /\ Heard(e) = c
  BY <1>8, MessagesAreEntries, SaidMessage, Zenon
<1>10. Quiet(h, Append(h, e), n)
  BY <1>1, <1>7, <1>9, QuietEntry, Zenon
<1>11. h \o <<e>> = Append(h, e)
  BY <1>1, <1>9
<1> QED
  BY <1>7, <1>10, <1>11, Zenon DEF QuietlySaid, e

IsOneMore(s, e) ==
    /\ s \o <<e>> = Append(s, e) /\ s \o <<e>> # <<>> /\ Last(s \o <<e>>) = e
    /\ s # <<>> => (s \o <<e>>)[1] = s[1]

LEMMA OneMore == ASSUME NEW S, NEW s \in Seq(S), NEW e \in S PROVE IsOneMore(s, e)
BY DEF IsOneMore, Last

QuietUntyped(h, e, n) == h \o <<e>> = Append(h, e) /\ Quiet(h, h \o <<e>>, n)

LEMMA QuietItem ==
    ASSUME format = "responses", NEW h, Owes(format, h, {}), NEW n \in Nat, HeardOf(h) \in Seq(UpTo(n)),
           NEW e \in PlainEntries, e.type = ""
    PROVE  QuietUntyped(h, e, n)
<1>1. h \in Seq(Entries)
  <2>1. h \in Seq(EntriesOf(format))
    BY Zenon DEF Owes
  <2> QED
    BY <2>1, HistoryEntries, Zenon
<1>2. e \in Entries /\ Heard(e) = <<>>
  BY DEF Heard, PlainEntries
<1>3. <<>> \in Seq(UpTo(n)) /\ <<>> \in Seq(OfKind(Plain))
  BY EmptyIn, Zenon
<1>4. Owes(format, Append(h, e), {})
  BY UntypedOwes, Zenon
<1>5. Quiet(h, Append(h, e), n)
  BY <1>1, <1>2, <1>3, <1>4, QuietEntry, Zenon
<1>6. IsOneMore(h, e)
  BY <1>1, <1>2, OneMore, Zenon
<1> QED
  BY <1>5, <1>6, Zenon DEF QuietUntyped, IsOneMore

(* One quiet addition after another. *)
LEMMA QuietThenQuiet ==
    ASSUME NEW h, NEW g, NEW k, NEW m, NEW n, Quiet(h, g, m), Quiet(g, k, n)
    PROVE  Quiet(h, k, n)
BY Zenon DEF Quiet

LEMMA QuietAlready ==
    ASSUME NEW h, NEW n, Owes(format, h, {}), HeardOf(h) \in Seq(UpTo(n))
    PROVE  Quiet(h, h, n)
BY Zenon DEF Quiet

(***************************************************************************)
(* The inductive invariant: in every format the messages told of the       *)
(* history follow the upstream's rule for tools, the calls of their last   *)
(* turn are those that no result of the history names, and what was asked  *)
(* is made of the history as it is now.                                    *)
(***************************************************************************)
LastCallsPending == Owes(format, history, Pending)
UserSpokeLast ==
    phase # "client" =>
        Pending = {} /\ history # <<>> /\ (Typed(Last(history)) => EndsWith(format, history, "user"))
CallsHaveTools == Tags("tool_use", HeardOf(history)) # {} => format # "openai" /\ "function" \in tools
SystemFirst == format = "openai" /\ system /\ history # <<>> => history[1].role = "system"
AskedOfHistory ==
    /\ phase = "asked" =>
          \E budget \in Budgets, temperature \in BOOLEAN : asked = BuildRequest(ParseRequest(budget, temperature))
    /\ phase # "asked" => asked = NoRequest

IInv ==
    /\ TypeOK /\ LastCallsPending /\ UserSpokeLast
    /\ CallsHaveTools /\ SystemFirst /\ AskedOfHistory

LEMMA HistoryIsTyped ==
    ASSUME IInv
    PROVE  /\ history \in Seq(Entries) /\ HeardOf(history) \in Seq(Blocks)
           /\ tag \in Nat /\ HeardOf(history) \in Seq(UpTo(tag)) /\ format \in Formats
<1>1. history \in Seq(Entries) /\ tag \in Nat /\ format \in Formats
      /\ \A block \in ToSet(HeardOf(history)) : block.tag <= tag
  BY DEF IInv, TypeOK
<1>2. HeardOf(history) \in Seq(Blocks)
  BY <1>1, BlocksType, Zenon
<1>3. TagsBounded(HeardOf(history), tag)
  BY <1>2, BoundedTags, Zenon
<1> QED
  BY <1>1, <1>2, <1>3, Zenon DEF TagsBounded

LEMMA NoRequestType ==
    NoRequest \in [messages : Seq(Messages), system : BOOLEAN, tools : SUBSET {"function", "bare"},
                   effort : {"", "high", "max"}, temperature : BOOLEAN]
BY DEF NoRequest

(* What is to show of a step in which the history grows. *)
LEMMA HistoryGrows ==
    ASSUME IInv, UNCHANGED client, tag' \in Nat, answers' \in 0 .. MaxAnswers,
           phase' \in {"client", "ready"}, asked' = NoRequest,
           Owes(format, history', Waiting(history')), HeardOf(history') \in Seq(UpTo(tag')),
           phase' = "ready" => Waiting(history') = {} /\ history' # <<>>
                               /\ (Typed(Last(history')) => EndsWith(format, history', "user")),
           CallsHaveTools', SystemFirst'
    PROVE  IInv'
<1>1. format' = format /\ tools' = tools /\ system' = system
  BY DEF client
<1>2. history' \in Seq(Entries)
  <2>1. history' \in Seq(EntriesOf(format))
    BY Zenon DEF Owes
  <2> QED
    BY <2>1, HistoryEntries, Zenon
<1>3. \A block \in ToSet(HeardOf(history')) : block.tag <= tag'
  <2>1. HeardOf(history') \in Seq(Blocks)
    BY <1>2, BlocksType, Zenon
  <2>2. TagsBounded(HeardOf(history'), tag')
    BY <2>1, BoundedTags, Zenon
  <2> QED
    BY <2>2, Zenon DEF TagsBounded
<1>4. TypeOK'
  <2>1. format \in Formats /\ tools \in SUBSET Tools /\ system \in BOOLEAN
    BY DEF IInv, TypeOK
  <2>2. asked' \in [messages : Seq(Messages), system : BOOLEAN, tools : SUBSET {"function", "bare"},
                    effort : {"", "high", "max"}, temperature : BOOLEAN]
    BY <1>1, NoRequestType, Zenon
  <2>3. phase' \in {"client", "ready", "asked"}
    OBVIOUS
  <2> QED
    BY <1>1, <1>2, <1>3, <2>1, <2>2, <2>3, Zenon DEF TypeOK
<1>5. LastCallsPending'
  BY <1>1, Zenon DEF LastCallsPending, Pending, Waiting
<1>6. UserSpokeLast'
  <2>1. phase' # "client" => phase' = "ready"
    OBVIOUS
  <2> QED
    BY <1>1, <2>1, Zenon DEF UserSpokeLast, Pending, Waiting
<1>7. AskedOfHistory'
  BY DEF AskedOfHistory
<1> QED
  BY <1>4, <1>5, <1>6, <1>7, Zenon DEF IInv

(* A history that has begun keeps its first entry. *)
LEMMA FirstStays ==
    ASSUME SystemFirst, UNCHANGED client, history \in Seq(Entries), history # <<>>,
           NEW more \in Seq(Entries), history' = history \o more
    PROVE  SystemFirst'
<1>1. format' = format /\ system' = system
  BY DEF client
<1>2. history'[1] = history[1]
  OBVIOUS
<1> QED
  BY <1>1, <1>2, Zenon DEF SystemFirst

LEMMA InitInv == ASSUME Init PROVE IInv
<1>1. history = <<>> /\ asked = NoRequest /\ phase = "client" /\ answers = 0 /\ tag = 0
      /\ format \in Formats /\ tools \in SUBSET Tools /\ system \in BOOLEAN
  BY DEF Init
<1>2. HeardOf(history) = <<>> /\ Pending = {}
  <2>1. HeardOf(history) = <<>>
    BY <1>1, BlocksEmpty, Zenon
  <2>2. {} \ {} = {}
    OBVIOUS
  <2> QED
    BY <2>1, <2>2, TagsEmpty, Zenon DEF Pending
<1>3. TypeOK
  <2>1. ToSet(<<>>) = {}
    BY DEF ToSet
  <2>2. \A block \in ToSet(HeardOf(history)) : block.tag <= tag
    BY <1>2, <2>1, Zenon
  <2>3. history \in Seq(Entries) /\ answers \in 0 .. MaxAnswers /\ tag \in Nat
    BY <1>1, BoundsAssumption
  <2>4. phase \in {"client", "ready", "asked"}
    BY <1>1
  <2> QED
    BY <1>1, <2>2, <2>3, <2>4, NoRequestType, Zenon DEF TypeOK
<1>4. LastCallsPending
  <2>1. ToldIn(format, <<>>) = <<>>
    <3>1. ParseInput(<<>>) = <<>>
      BY ParsedEmpty DEF ParseInput, NothingParsed
    <3> QED
      BY <3>1, Zenon DEF ToldIn
  <2>2. Turns(<<>>) /\ LastCalls(<<>>) = {}
    <3>1. Len(<<>>) = 0 /\ \A i \in 1 .. 0 : FALSE
      OBVIOUS
    <3> QED
      BY <3>1, TurnStarts, Zenon DEF Turns, LastCalls
  <2>3. <<>> \in Seq(EntriesOf(format))
    OBVIOUS
  <2> QED
    BY <1>1, <1>2, <2>1, <2>2, <2>3, Zenon DEF LastCallsPending, Owes
<1>5. CallsHaveTools
  BY <1>2, TagsEmpty, Zenon DEF CallsHaveTools
<1> QED
  BY <1>1, <1>3, <1>4, <1>5 DEF IInv, UserSpokeLast, SystemFirst, AskedOfHistory

-----------------------------------------------------------------------------
LEMMA UserTurnStep ==
    ASSUME IInv, NEW kinds \in UserContents, NEW typed \in BOOLEAN, UserTurn(kinds, typed)
    PROVE  IInv'
<1> DEFINE n == tag + Len(kinds)
           h1 == history \o SystemMessage
           c == Tagged(kinds)
           e == IF typed THEN Message("user", c) ELSE Untyped("user", c)
           h2 == h1 \o <<e>>
<1>1. history \in Seq(Entries) /\ tag \in Nat /\ HeardOf(history) \in Seq(UpTo(tag)) /\ format \in Formats
  BY HistoryIsTyped, Zenon
<1>2. kinds \in Seq(Plain) /\ Plain \subseteq Kinds /\ Len(kinds) \in Nat
  <2>1. "text" \in Plain /\ "image" \in Plain /\ Plain \subseteq Kinds
    BY DEF Plain, Kinds
  <2> HIDE DEF n, h1, c, e, h2
  <2>2. /\ <<"text">> \in Seq(Plain) /\ <<"image">> \in Seq(Plain)
        /\ <<"text", "image">> \in Seq(Plain) /\ <<"text", "text">> \in Seq(Plain)
    BY <2>1
  <2>3. kinds \in Seq(Plain)
    BY <2>2, Zenon DEF UserContents
  <2> QED
    BY <2>1, <2>3
<1>3. /\ history' = h2 /\ phase' = "ready" /\ tag' = n /\ asked' = asked /\ answers' = answers
      /\ UNCHANGED client /\ Pending = {} /\ phase = "client" /\ (~typed => format = "responses")
  BY DEF UserTurn
<1>4. c \in Seq(UpTo(n)) /\ c \in Seq(OfKind(Plain))
  <2>1. kinds \in Seq(Kinds)
    BY <1>2
  <2>2. c \in Seq(NewBlocks(tag, kinds))
    BY <1>1, <2>1, TaggedType, Zenon
  <2>3. NewBlocks(tag, kinds) \subseteq UpTo(n)
    BY DEF NewBlocks, UpTo
  <2>4. ToSet(kinds) \subseteq Plain
    BY <1>2 DEF ToSet
  <2>5. NewBlocks(tag, kinds) \subseteq OfKind(Plain)
    BY <2>4 DEF NewBlocks, OfKind
  <2> HIDE DEF c, n
  <2> QED
    BY <2>2, <2>3, <2>5
<1>5. Owes(format, history, {})
  BY <1>3 DEF IInv, LastCallsPending
<1>6. Quiet(history, h1, tag)
  <2>1. CASE SystemMessage = <<>>
    <3>1. history \o <<>> = history
      BY <1>1
    <3> QED
      BY <1>1, <1>5, <2>1, <3>1, QuietAlready, Zenon
  <2>2. CASE SystemMessage = <<Message("system", <<Block("text", tag)>>)>>
    <3>1. "text" \in Kinds /\ "text" \in Plain /\ "system" \in Roles \ {"assistant"}
      BY DEF Kinds, Plain, Roles
    <3>2. Block("text", tag) \in UpTo(tag) /\ Block("text", tag) \in OfKind(Plain)
      <4>1. Block("text", tag) \in Blocks
        BY <1>1, <3>1, BlockType, Zenon
      <4> QED
        BY <1>1, <3>1, <4>1 DEF UpTo, OfKind, Block
    <3> DEFINE b == Block("text", tag)
    <3> HIDE DEF b
    <3>3. <<b>> \in Seq(UpTo(tag)) /\ <<b>> \in Seq(OfKind(Plain))
      BY <3>2 DEF b
    <3>4. QuietlySaid(history, "system", <<b>>, tag)
      BY <1>1, <1>5, <3>1, <3>3, QuietMessage, Zenon
    <3> QED
      BY <2>2, <3>4, Zenon DEF QuietlySaid, b
  <2> QED
    BY <2>1, <2>2 DEF SystemMessage
<1> HIDE DEF h1, c, e, n
<1>7. n \in Nat /\ Seq(UpTo(tag)) \subseteq Seq(UpTo(n))
  <2>1. tag + Len(kinds) \in Nat
    BY <1>1, <1>2
  <2> QED
    BY <1>1, <1>2, <2>1, MoreTags, Zenon DEF n
<1>8. Owes(format, h1, {}) /\ HeardOf(h1) \in Seq(UpTo(n)) /\ h1 \in Seq(Entries)
  <2>1. Owes(format, h1, {}) /\ HeardOf(h1) \in Seq(UpTo(n)) /\ h1 \in Seq(EntriesOf(format))
    BY <1>6, <1>7, Zenon DEF Quiet, Owes
  <2> QED
    BY <2>1, HistoryEntries, Zenon
<1>9. c \in Seq(Blocks) /\ "user" \in Roles /\ "user" \in Roles \ {"assistant"}
  <2>1. "user" \in Roles /\ "user" \in Roles \ {"assistant"}
    BY DEF Roles
  <2> QED
    BY <1>4, <2>1, OfKindBlocks, Zenon
<1>10. Quiet(h1, h2, n) /\ (typed => EndsWith(format, h2, "user")) /\ e \in Entries /\ (~typed => e.type = "")
  <2>1. CASE typed
    <3>1. e = Message("user", c)
      BY <2>1, Zenon DEF e
    <3>2. QuietlySaid(h1, "user", c, n)
      BY <1>4, <1>7, <1>8, <1>9, QuietMessage, Zenon
    <3>3. Message("user", c) \in Messages
      BY <1>9, MessageType, Zenon
    <3>4. e \in Entries
      BY <3>1, <3>3, MessagesAreEntries, Zenon
    <3> QED
      BY <2>1, <3>1, <3>2, <3>4, Zenon DEF QuietlySaid
  <2>2. CASE ~typed
    <3>1. e = Untyped("user", c) /\ format = "responses"
      BY <1>3, <2>2, Zenon DEF e
    <3>2. e \in PlainEntries /\ e.type = ""
      BY <1>9, <3>1, ItemTypes, Zenon
    <3>3. QuietUntyped(h1, e, n)
      BY <1>7, <1>8, <3>1, <3>2, QuietItem, Zenon
    <3>4. e \in Entries
      BY <3>2 DEF PlainEntries
    <3> QED
      BY <2>2, <3>2, <3>3, <3>4, Zenon DEF QuietUntyped
  <2> QED
    BY <2>1, <2>2
<1>11. h2 # <<>> /\ Last(h2) = e /\ (h1 # <<>> => h2[1] = h1[1])
  <2>1. IsOneMore(h1, e)
    BY <1>8, <1>10, OneMore, Zenon
  <2> QED
    BY <2>1, Zenon DEF IsOneMore, h2
<1>12. Quiet(history, h2, n)
  BY <1>6, <1>10, QuietThenQuiet, Zenon
<1>13. typed => EndsWith(format, h2, "user")
  BY <1>10, Zenon
<1> HIDE DEF h2
<1>14. Waiting(history') = {}
  <2>1. "tool_use" \in ToolKinds /\ "tool_result" \in ToolKinds
    BY DEF ToolKinds
  <2> QED
    BY <1>3, <1>12, <2>1, Zenon DEF Quiet, Waiting, Pending
<1>15. CallsHaveTools'
  <2>1. "tool_use" \in ToolKinds /\ format' = format /\ tools' = tools
    BY <1>3 DEF ToolKinds, client
  <2>2. Tags("tool_use", HeardOf(history')) = Tags("tool_use", HeardOf(history))
    BY <1>3, <1>12, <2>1, Zenon DEF Quiet
  <2> QED
    BY <2>1, <2>2, Zenon DEF IInv, CallsHaveTools
<1>16. SystemFirst'
  <2>1. format' = format /\ system' = system
    BY <1>3 DEF client
  <2> SUFFICES ASSUME format = "openai", system PROVE history'[1].role = "system"
    BY <2>1 DEF SystemFirst
  <2>2. CASE history = <<>>
    <3>1. SystemMessage = <<Message("system", <<Block("text", tag)>>)>>
      BY <2>2 DEF SystemMessage
    <3> DEFINE d == Message("system", <<Block("text", tag)>>)
    <3>2. d.role = "system"
      BY DEF Message
    <3> HIDE DEF d
    <3>3. <<>> \o <<d>> # <<>> /\ (<<>> \o <<d>>)[1] = d
      OBVIOUS
    <3>4. h1 # <<>> /\ h1[1] = d
      BY <2>2, <3>1, <3>3, Zenon DEF h1, d
    <3> QED
      BY <1>3, <1>11, <3>2, <3>4, Zenon
  <2>3. CASE history # <<>>
    <3>1. SystemMessage = <<>>
      BY <2>3 DEF SystemMessage
    <3>2. h1 = history
      BY <1>1, <3>1 DEF h1
    <3>3. history[1].role = "system"
      BY <2>3 DEF IInv, SystemFirst
    <3> QED
      BY <1>3, <1>11, <2>3, <3>2, <3>3, Zenon
  <2> QED
    BY <2>2, <2>3
<1>17. Owes(format, history', Waiting(history')) /\ HeardOf(history') \in Seq(UpTo(tag'))
  BY <1>3, <1>12, <1>14, Zenon DEF Quiet
<1>18. answers' \in 0 .. MaxAnswers /\ asked' = NoRequest
  BY <1>3 DEF IInv, TypeOK, AskedOfHistory
<1>19. phase' \in {"client", "ready"} /\ tag' \in Nat
  BY <1>3, <1>7
<1>20. history' # <<>> /\ (Typed(Last(history')) => EndsWith(format, history', "user"))
  <2>1. Typed(e) => typed
    BY <1>10, Zenon DEF Typed
  <2> QED
    BY <1>3, <1>11, <1>13, <2>1, Zenon
<1> QED
  BY <1>3, <1>14, <1>15, <1>16, <1>17, <1>18, <1>19, <1>20, HistoryGrows, Zenon

LEMMA ToolResultsStep == ASSUME IInv, ToolResults PROVE IInv'
<1>1. history \in Seq(Entries) /\ tag \in Nat /\ HeardOf(history) \in Seq(UpTo(tag)) /\ format \in Formats
      /\ HeardOf(history) \in Seq(Blocks)
  BY HistoryIsTyped, Zenon
<1>2. PICK calls \in SetToSeqs(Pending) :
          history' = history \o
              IF format = "responses"
              THEN [i \in DOMAIN calls |-> Output(calls[i])]
              ELSE <<Message("user", [i \in DOMAIN calls |-> Block("tool_result", calls[i])])>>
  BY DEF ToolResults
<1> DEFINE more == IF format = "responses" THEN Outputs(calls) ELSE <<Message("user", Results(calls))>>
<1>3. history' = history \o more
  BY <1>2, Zenon DEF Outputs, Results
<1>4. /\ phase' = "ready" /\ tag' = tag /\ asked' = asked /\ answers' = answers
      /\ UNCHANGED client /\ Pending # {} /\ phase = "client"
  BY DEF ToolResults
<1>5. \A t \in Pending : t \in 0 .. tag
  <2> SUFFICES ASSUME NEW t \in Pending PROVE t \in 0 .. tag
    OBVIOUS
  <2>1. t \in Tags("tool_use", HeardOf(history)) /\ UpTo(tag) \in SUBSET Blocks
    BY DEF Pending, UpTo
  <2>2. IsTagIn(UpTo(tag), "tool_use", t)
    BY <1>1, <2>1, TagsWithin, Zenon
  <2> QED
    BY <1>1, <2>2 DEF IsTagIn, UpTo, Blocks
<1>6. calls \in Seq(Nat) /\ ToSet(calls) = Pending
  <2>1. Pending \in SUBSET (0 .. tag)
    BY <1>5
  <2> QED
    BY <1>1, <2>1, OrdersAll, Zenon
<1> HIDE DEF more
<1>7. Owes(format, history, Pending)
  BY DEF IInv, LastCallsPending
<1>8. ResultTags(calls) /\ Results(calls) \in Seq(Blocks)
  BY <1>6, TagsOfResults, OutputsGrow, 0 \in Nat, Zenon
<1>9. Owes(format, history', {}) /\ EndsWith(format, history', "user")
  <2>1. CASE format = "responses"
    BY <1>3, <1>4, <1>6, <1>7, <2>1, OutputsOwe, Zenon DEF more
  <2>2. CASE format # "responses"
    <3>1. "user" \in Roles /\ "user" # "assistant"
      BY DEF Roles
    <3>2. GrowsBy(format, history, "user", Results(calls), Pending)
      BY <1>6, <1>7, <1>8, <2>2, <3>1, MessageOwes, Zenon DEF ResultTags
    <3> DEFINE e == Message("user", Results(calls))
    <3>3. e \in Messages /\ e \in Entries
      BY <1>8, <3>1, MessageType, MessagesAreEntries, Zenon
    <3> HIDE DEF e
    <3>4. history \o <<e>> = Append(history, e)
      BY <1>1, <3>3
    <3> QED
      BY <1>3, <2>2, <3>1, <3>2, <3>4, Zenon DEF GrowsBy, more, e
  <2> QED
    BY <2>1, <2>2
<1>10. more \in Seq(Entries) /\ HeardOf(more) = Results(calls)
  <2>1. CASE format = "responses"
    <3>1. Outputs(calls) \in Seq(Entries)
      BY <1>6, OutputsGrow, PlainAreEntries, 0 \in Nat, Zenon
    <3>2. HeardOf(Outputs(calls)) = Results(calls)
      BY <1>6, OutputsSay, Zenon DEF OutputsSayResults
    <3> QED
      BY <2>1, <3>1, <3>2, Zenon DEF more
  <2>2. CASE format # "responses"
    <3>1. "user" \in Roles
      BY DEF Roles
    <3> QED
      BY <1>8, <2>2, <3>1, OneMessageSays, Zenon DEF more
  <2> QED
    BY <2>1, <2>2
<1>11. Waiting(history') = {}
  <2>1. TagsSaidBoth("tool_use", history, more) /\ TagsSaidBoth("tool_result", history, more)
    BY <1>1, <1>10, TagsOfConcat, Zenon
  <2>2. Tags("tool_result", HeardOf(more)) = Pending /\ Tags("tool_use", HeardOf(more)) = {}
    BY <1>6, <1>8, <1>10, Zenon DEF ResultTags
  <2> QED
    BY <1>3, <2>1, <2>2 DEF TagsSaidBoth, Waiting, Pending
<1>12. HeardOf(history') \in Seq(UpTo(tag'))
  <2>1. Results(calls) \in Seq(UpTo(tag))
    <3>1. \A i \in 1 .. Len(calls) : calls[i] \in 0 .. tag
      <4>1. \A i \in 1 .. Len(calls) : calls[i] \in ToSet(calls)
        BY <1>6 DEF ToSet
      <4> QED
        BY <1>5, <1>6, <4>1, Zenon
    <3>2. /\ Len(Results(calls)) = Len(calls)
          /\ \A i \in 1 .. Len(calls) : Results(calls)[i].tag = calls[i]
      BY <1>6 DEF Results, Block
    <3>3. \A i \in 1 .. Len(calls) : Results(calls)[i] \in UpTo(tag)
      BY <1>1, <1>8, <3>1, <3>2 DEF UpTo
    <3> QED
      BY <1>8, <3>2, <3>3
  <2>2. SaysBoth(history, more)
    BY <1>1, <1>10, BlocksConcat, Zenon
  <2>3. HeardOf(history) \o Results(calls) \in Seq(UpTo(tag))
    BY <1>1, <2>1
  <2> QED
    BY <1>3, <1>4, <1>10, <2>2, <2>3, Zenon DEF SaysBoth
<1>13. CallsHaveTools'
  <2>1. format' = format /\ tools' = tools
    BY <1>4 DEF client
  <2>2. Tags("tool_use", HeardOf(history)) # {}
    BY <1>4 DEF Pending
  <2> QED
    BY <2>1, <2>2, Zenon DEF IInv, CallsHaveTools
<1>14. SystemFirst'
  <2>1. format # "openai" /\ format' = format
    BY <1>4 DEF IInv, CallsHaveTools, Pending, client
  <2> QED
    BY <2>1 DEF SystemFirst
<1>15. answers' \in 0 .. MaxAnswers /\ asked' = NoRequest
  BY <1>4 DEF IInv, TypeOK, AskedOfHistory
<1>16. phase' \in {"client", "ready"} /\ tag' \in Nat
  BY <1>1, <1>4
<1>17. history' # <<>>
  <2>1. history # <<>>
    <3>1. HeardOf(<<>>) = <<>> /\ Tags("tool_use", <<>>) = {}
      BY BlocksEmpty, TagsEmpty, Zenon
    <3> QED
      BY <1>4, <3>1, Zenon DEF Pending
  <2> QED
    BY <1>1, <1>3, <1>10, <2>1
<1>18. Owes(format, history', Waiting(history'))
  BY <1>9, <1>11, Zenon
<1> QED
  BY <1>4, <1>9, <1>11, <1>12, <1>13, <1>14, <1>15, <1>16, <1>17, <1>18, HistoryGrows, Zenon

-----------------------------------------------------------------------------
(* The upstream request, by the format of the history it is made of. *)
Requests ==
    [messages : Seq(Messages), system : BOOLEAN, tools : SUBSET {"function", "bare"},
     effort : {"", "high", "max"}, temperature : BOOLEAN]

IsAsked(req) ==
    /\ req \in Requests
    /\ req.messages = Stripped(ToldIn(format, history))
    /\ format # "openai" => req.system = system /\ ("function" \in tools => "function" \in req.tools)
    /\ "function" \in req.tools => "function" \in tools
    /\ req.effort # "" => ~req.temperature

LEMMA RequestIsAsked ==
    ASSUME format \in Formats, tools \in SUBSET Tools, system \in BOOLEAN, history \in Seq(EntriesOf(format)),
           NEW budget \in Budgets, NEW temperature \in BOOLEAN
    PROVE  IsAsked(BuildRequest(ParseRequest(budget, temperature)))
<1> DEFINE m == ToldIn(format, history)
           s == Stripped(m)
           req == ParseRequest(budget, temperature)
<1>1. s \in Seq(Messages)
  BY ToldType, StrippedKeeps, Zenon DEF KeepsStripped
<1>2. /\ req.messages = m /\ req.system \in BOOLEAN /\ req.tools \in SUBSET {"function", "bare"}
      /\ req.temperature \in BOOLEAN /\ ("function" \in req.tools => "function" \in tools)
      /\ (format # "openai" => req.system = system /\ ("function" \in tools => "function" \in req.tools))
  <2>1. CASE format = "anthropic"
    <3>1. /\ {Bare(tool) : tool \in tools} \in SUBSET {"function", "bare"}
          /\ "function" \in {Bare(tool) : tool \in tools} <=> "function" \in tools
      BY DEF Bare, Tools
    <3> QED
      BY <2>1, <3>1 DEF ParseRequest, ParseAnthropic, ToldIn
  <2>2. CASE format = "openai"
    BY <2>2 DEF ParseRequest, ParseOpenAI, ToldIn
  <2>3. CASE format = "responses"
    <3>1. ParseTools \in SUBSET {"function", "bare"} /\ ("function" \in ParseTools <=> "function" \in tools)
      BY DEF ParseTools, Tools
    <3> QED
      BY <2>3, <3>1 DEF ParseRequest, ParseResponses, ToldIn
  <2> QED
    BY <2>1, <2>2, <2>3 DEF Formats
<1>3. ReasoningEffort(req.budget) \in {"", "high", "max"}
  BY DEF ReasoningEffort
<1> HIDE DEF m, req
<1>4. /\ BuildRequest(req).messages = Stripped(req.messages)
      /\ BuildRequest(req).system = req.system /\ BuildRequest(req).tools = req.tools
      /\ BuildRequest(req).effort = ReasoningEffort(req.budget)
      /\ BuildRequest(req).temperature = (ReasoningEffort(req.budget) = "" /\ req.temperature)
  BY DEF BuildRequest
<1>5. BuildRequest(req) \in Requests
  <2>1. Stripped(req.messages) \in Seq(Messages)
    BY <1>1, <1>2
  <2>2. (ReasoningEffort(req.budget) = "" /\ req.temperature) \in BOOLEAN
    OBVIOUS
  <2>3. /\ BuildRequest(req).messages \in Seq(Messages) /\ BuildRequest(req).system \in BOOLEAN
        /\ BuildRequest(req).tools \in SUBSET {"function", "bare"} /\ BuildRequest(req).effort \in {"", "high", "max"}
        /\ BuildRequest(req).temperature \in BOOLEAN
    BY <1>2, <1>3, <1>4, <2>1, <2>2, Zenon
  <2> QED
    BY <1>2, <1>3, <2>1, <2>2, Zenon DEF BuildRequest, Requests
<1>6. BuildRequest(req).messages = Stripped(m)
  BY <1>2, <1>4, Zenon
<1>7. BuildRequest(req).effort # "" => ~BuildRequest(req).temperature
  BY <1>4, Zenon
<1> QED
  BY <1>2, <1>4, <1>5, <1>6, <1>7, Zenon DEF IsAsked, m, req

(* While a request is asked, it is made of the history. *)
LEMMA AskedIs == ASSUME IInv, phase = "asked" PROVE IsAsked(asked)
<1>1. PICK budget \in Budgets, temperature \in BOOLEAN : asked = BuildRequest(ParseRequest(budget, temperature))
  BY DEF IInv, AskedOfHistory
<1>2. format \in Formats /\ tools \in SUBSET Tools /\ system \in BOOLEAN /\ history \in Seq(EntriesOf(format))
  BY DEF IInv, TypeOK, LastCallsPending, Owes
<1>3. IsAsked(BuildRequest(ParseRequest(budget, temperature)))
  BY <1>2, RequestIsAsked, Zenon
<1> QED
  BY <1>1, <1>3, Zenon

-----------------------------------------------------------------------------
LEMMA AnswerStep ==
    ASSUME IInv, NEW kinds \in AnswerContents, NEW stream \in BOOLEAN, Answer(kinds, stream)
    PROVE  IInv'
<1> DEFINE c == Tagged(kinds)
           T == NewBlocks(tag, kinds)
           more == Recorded(c, stream)
           calls == Tags("tool_use", HeardOf(more))
<1>1. history \in Seq(Entries) /\ tag \in Nat /\ HeardOf(history) \in Seq(UpTo(tag)) /\ format \in Formats
      /\ HeardOf(history) \in Seq(Blocks)
  BY HistoryIsTyped, Zenon
<1>2. /\ phase = "asked" /\ answers < MaxAnswers /\ (~stream => Shown(c, FALSE) # <<>>)
      /\ ("tool_use" \in ToSet(kinds) => "function" \in asked.tools)
      /\ history' = history \o more /\ phase' = "client" /\ asked' = NoRequest
      /\ answers' = answers + 1 /\ tag' = tag + Len(kinds) /\ UNCHANGED client
  BY DEF Answer
<1>3. kinds \in Seq(Kinds) /\ "tool_result" \notin ToSet(kinds) /\ Len(kinds) \in Nat
  <2>1. PICK n \in 0 .. MaxBlocks : kinds \in [1 .. n -> Reasoning \cup {"text", "tool_use"}]
    BY DEF AnswerContents, BoundedSeq, SeqOf
  <2>2. \A i \in 1 .. n : kinds[i] \in Reasoning \cup {"text", "tool_use"}
    BY <2>1
  <2>3. DOMAIN kinds = 1 .. n
    BY <2>1
  <2>4. \A i \in 1 .. n : kinds[i] # "tool_result" /\ kinds[i] \in Kinds
    BY <2>2 DEF Reasoning, Kinds
  <2>5. n \in Nat
    BY BoundsAssumption
  <2>6. kinds \in [1 .. n -> Kinds]
    BY <2>1, <2>3, <2>4
  <2>7. kinds \in Seq(Kinds)
    BY <2>5, <2>6
  <2> QED
    BY <2>3, <2>4, <2>7 DEF ToSet
<1>4. c \in Seq(T) /\ T \in SUBSET Blocks
  BY <1>1, <1>3, TaggedType, Zenon DEF NewBlocks
<1>5. Pending = {} /\ history # <<>>
  BY <1>2 DEF IInv, UserSpokeLast
<1>6. Owes(format, history, {})
  BY <1>5 DEF IInv, LastCallsPending
<1> HIDE DEF c, T
<1>7. Records(T, c, stream)
  BY <1>1, <1>2, <1>4, <1>6, RecordedOwes, Zenon
<1>8. /\ more \in Seq(Entries) /\ HeardOf(more) \in Seq(T) /\ Owes(format, history \o more, calls)
      /\ (format = "openai" => calls = {})
  BY <1>7, Zenon DEF Records
<1> HIDE DEF more
<1>9. Tags("tool_result", HeardOf(more)) = {}
  <2> SUFFICES ASSUME NEW t \in Tags("tool_result", HeardOf(more)) PROVE FALSE
    BY Zenon
  <2>1. IsTagIn(T, "tool_result", t)
    BY <1>4, <1>8, TagsWithin, Zenon
  <2> QED
    BY <1>3, <2>1, Zenon DEF IsTagIn, T, NewBlocks
<1>10. calls \cap Tags("tool_result", HeardOf(history)) = {}
  <2> SUFFICES ASSUME NEW t \in calls, t \in Tags("tool_result", HeardOf(history)) PROVE FALSE
    BY Zenon
  <2>1. IsTagIn(T, "tool_use", t)
    BY <1>4, <1>8, TagsWithin, Zenon
  <2>2. IsTagIn(UpTo(tag), "tool_result", t)
    <3>1. UpTo(tag) \in SUBSET Blocks
      BY DEF UpTo
    <3> QED
      BY <1>1, <3>1, TagsWithin, Zenon
  <2>3. t \in Nat /\ tag < t /\ t <= tag
    BY <2>1, <2>2 DEF IsTagIn, T, NewBlocks, UpTo, Blocks
  <2> QED
    BY <1>1, <2>3
<1>11. Waiting(history') = calls
  <2>1. WaitsMore(history, more)
    BY <1>1, <1>8, <1>9, <1>10, NewCallsWait, Zenon
  <2>2. Waiting(history) = {}
    BY <1>5 DEF Waiting, Pending
  <2> QED
    BY <1>2, <2>1, <2>2, Zenon DEF WaitsMore
<1>12. HeardOf(history') \in Seq(UpTo(tag'))
  <2>1. SaysBoth(history, more)
    BY <1>1, <1>8, BlocksConcat, Zenon
  <2>2. T \subseteq UpTo(tag + Len(kinds))
    BY DEF T, NewBlocks, UpTo
  <2>3. HeardOf(history) \in Seq(UpTo(tag + Len(kinds)))
    BY <1>1, <1>3, MoreTags, Zenon
  <2>4. HeardOf(more) \in Seq(UpTo(tag + Len(kinds)))
    BY <1>8, <2>2
  <2>5. HeardOf(history) \o HeardOf(more) \in Seq(UpTo(tag + Len(kinds)))
    BY <2>3, <2>4
  <2> QED
    BY <1>2, <2>1, <2>5, Zenon DEF SaysBoth
<1>13. CallsHaveTools'
  <2>1. format' = format /\ tools' = tools
    BY <1>2 DEF client
  <2>2. ASSUME Tags("tool_use", HeardOf(history')) # {}
        PROVE  format # "openai" /\ "function" \in tools
    <3>1. TagsSaidBoth("tool_use", history, more)
      BY <1>1, <1>8, TagsOfConcat, Zenon
    <3>2. CASE Tags("tool_use", HeardOf(history)) # {}
      BY <3>2, Zenon DEF IInv, CallsHaveTools
    <3>3. CASE Tags("tool_use", HeardOf(history)) = {}
      <4>1. calls # {}
        BY <1>2, <2>2, <3>1, <3>3 DEF TagsSaidBoth
      <4>2. "function" \in asked.tools
        <5>1. PICK t : t \in calls
          BY <4>1
        <5>2. IsTagIn(T, "tool_use", t)
          BY <1>4, <1>8, <5>1, TagsWithin, Zenon
        <5>3. "tool_use" \in ToSet(kinds)
          BY <5>2, Zenon DEF IsTagIn, T, NewBlocks
        <5> QED
          BY <1>2, <5>3, Zenon
      <4>3. "function" \in asked.tools => "function" \in tools
        BY <1>2, AskedIs, Zenon DEF IsAsked
      <4> QED
        BY <1>8, <4>1, <4>2, <4>3, Zenon
    <3> QED
      BY <3>2, <3>3
  <2> HIDE DEF calls
  <2> QED
    BY <2>1, <2>2, Zenon DEF CallsHaveTools
<1>14. SystemFirst'
  <2> SUFFICES ASSUME format = "openai" PROVE SystemFirst'
    BY <1>2 DEF SystemFirst, client
  <2>1. SystemFirst
    BY DEF IInv
  <2> QED
    BY <1>1, <1>2, <1>5, <1>8, <2>1, FirstStays, Zenon
<1>15. answers' \in 0 .. MaxAnswers
  <2>1. answers \in 0 .. MaxAnswers
    BY DEF IInv, TypeOK
  <2> QED
    BY <1>2, <2>1, BoundsAssumption
<1>16. phase' \in {"client", "ready"} /\ phase' # "ready"
  BY <1>2
<1>17. tag' \in Nat
  BY <1>1, <1>2, <1>3
<1>18. Owes(format, history', Waiting(history'))
  BY <1>2, <1>8, <1>11, Zenon
<1> QED
  BY <1>2, <1>12, <1>13, <1>14, <1>15, <1>16, <1>17, <1>18, HistoryGrows, Zenon

LEMMA AskStep ==
    ASSUME IInv, NEW budget \in Budgets, NEW temperature \in BOOLEAN, Ask(budget, temperature)
    PROVE  IInv'
<1>1. /\ phase = "ready" /\ asked' = BuildRequest(ParseRequest(budget, temperature)) /\ phase' = "asked"
      /\ format' = format /\ tools' = tools /\ system' = system
      /\ history' = history /\ answers' = answers /\ tag' = tag
  BY DEF Ask, client
<1>2. /\ format \in Formats /\ tools \in SUBSET Tools /\ system \in BOOLEAN /\ history \in Seq(Entries)
      /\ answers \in 0 .. MaxAnswers /\ tag \in Nat
      /\ \A block \in ToSet(HeardOf(history)) : block.tag <= tag
  BY DEF IInv, TypeOK
<1>3. history \in Seq(EntriesOf(format))
  BY DEF IInv, LastCallsPending, Owes
<1>4. IsAsked(BuildRequest(ParseRequest(budget, temperature)))
  BY <1>2, <1>3, RequestIsAsked, Zenon
<1>5. TypeOK'
  <2>1. asked' \in [messages : Seq(Messages), system : BOOLEAN, tools : SUBSET {"function", "bare"},
                    effort : {"", "high", "max"}, temperature : BOOLEAN]
    BY <1>1, <1>4, Zenon DEF IsAsked, Requests
  <2>2. phase' \in {"client", "ready", "asked"}
    BY <1>1
  <2> QED
    BY <1>1, <1>2, <2>1, <2>2, Zenon DEF TypeOK
<1>6. LastCallsPending' /\ CallsHaveTools' /\ SystemFirst'
  BY <1>1, Zenon DEF IInv, LastCallsPending, CallsHaveTools, SystemFirst, Pending
<1>7. UserSpokeLast'
  BY <1>1 DEF IInv, UserSpokeLast, Pending
<1>8. AskedOfHistory'
  <2>1. (BuildRequest(ParseRequest(budget, temperature)))' = BuildRequest(ParseRequest(budget, temperature))
    BY <1>1, Zenon DEF ParseRequest, ParseAnthropic, ParseOpenAI, ParseResponses, ParseTools
  <2> QED
    BY <1>1, <2>1, Zenon DEF AskedOfHistory
<1> QED
  BY <1>5, <1>6, <1>7, <1>8 DEF IInv

LEMMA FailStep == ASSUME IInv, Fail PROVE IInv'
<1>1. /\ phase = "asked" /\ phase' = "ready" /\ asked' = NoRequest /\ UNCHANGED client
      /\ history' = history /\ answers' = answers /\ tag' = tag
  BY DEF Fail
<1>2. tag' \in Nat /\ answers' \in 0 .. MaxAnswers /\ phase' \in {"client", "ready"}
  BY <1>1 DEF IInv, TypeOK
<1>3. Owes(format, history', Waiting(history'))
  BY <1>1, Zenon DEF IInv, LastCallsPending, Pending, Waiting
<1>4. HeardOf(history') \in Seq(UpTo(tag'))
  BY <1>1, HistoryIsTyped, Zenon
<1>5. Waiting(history') = {} /\ history' # <<>> /\ (Typed(Last(history')) => EndsWith(format, history', "user"))
  <2>1. phase # "client"
    BY <1>1
  <2> QED
    BY <1>1, <2>1, Zenon DEF IInv, UserSpokeLast, Pending, Waiting
<1>6. CallsHaveTools' /\ SystemFirst'
  <2>1. format' = format /\ tools' = tools /\ system' = system
    BY <1>1 DEF client
  <2> QED
    BY <1>1, <2>1, Zenon DEF IInv, CallsHaveTools, SystemFirst
<1> QED
  BY <1>1, <1>2, <1>3, <1>4, <1>5, <1>6, HistoryGrows, Zenon

LEMMA StutterStep == ASSUME IInv, UNCHANGED vars PROVE IInv'
<1>1. /\ format' = format /\ tools' = tools /\ system' = system /\ history' = history
      /\ asked' = asked /\ phase' = phase /\ answers' = answers /\ tag' = tag
  BY DEF vars, client
<1>2. TypeOK' /\ LastCallsPending' /\ UserSpokeLast' /\ CallsHaveTools' /\ SystemFirst'
  BY <1>1, Zenon DEF IInv, TypeOK, LastCallsPending, UserSpokeLast, CallsHaveTools, SystemFirst, Pending
<1>3. AskedOfHistory'
  <2>1. ASSUME NEW budget, NEW temperature
        PROVE  (BuildRequest(ParseRequest(budget, temperature)))' = BuildRequest(ParseRequest(budget, temperature))
    BY <1>1, Zenon DEF ParseRequest, ParseAnthropic, ParseOpenAI, ParseResponses, ParseTools
  <2> QED
    BY <1>1, <2>1, Zenon DEF IInv, AskedOfHistory
<1> QED
  BY <1>2, <1>3 DEF IInv

LEMMA StepInv == IInv /\ [Next]_vars => IInv'
<1> SUFFICES ASSUME IInv, [Next]_vars PROVE IInv'
  OBVIOUS
<1>1. ASSUME NEW kinds \in UserContents, NEW typed \in BOOLEAN, UserTurn(kinds, typed) PROVE IInv'
  BY <1>1, UserTurnStep, Zenon
<1>2. CASE ToolResults
  BY <1>2, ToolResultsStep, Zenon
<1>3. ASSUME NEW budget \in Budgets, NEW temperature \in BOOLEAN, Ask(budget, temperature) PROVE IInv'
  BY <1>3, AskStep, Zenon
<1>4. CASE Fail
  BY <1>4, FailStep, Zenon
<1>5. ASSUME NEW kinds \in AnswerContents, NEW stream \in BOOLEAN, Answer(kinds, stream) PROVE IInv'
  BY <1>5, AnswerStep, Zenon
<1>6. CASE UNCHANGED vars
  BY <1>6, StutterStep, Zenon
<1> QED
  BY <1>1, <1>2, <1>3, <1>4, <1>5, <1>6, Zenon DEF Next

LEMMA Invariant == Spec => []IInv
<1>1. Init => IInv
  BY InitInv
<1> QED
  BY <1>1, StepInv, PTL DEF Spec

-----------------------------------------------------------------------------
(* Texts, calls and results are kept, in whichever format. *)
LEMMA ToldInFormat ==
    ASSUME NEW fmt, NEW h \in Seq(EntriesOf(fmt))
    PROVE  Told(HeardOf(ToldIn(fmt, h))) = Told(HeardOf(h))
<1>1. CASE fmt = "responses"
  <2>1. h \in Seq(PlainEntries)
    BY <1>1, Zenon DEF EntriesOf
  <2>2. AllTold(h)
    BY <2>1, ParsedTold, Zenon
  <2> QED
    BY <1>1, <2>2, Zenon DEF AllTold, ToldIn
<1>2. CASE fmt # "responses"
  BY <1>2, Zenon DEF ToldIn
<1> QED
  BY <1>1, <1>2

ToolTagsKept(m, h) == \A kind \in ToolKinds : Tags(kind, HeardOf(m)) = Tags(kind, HeardOf(h))

LEMMA TagsInFormat ==
    ASSUME NEW fmt, NEW h \in Seq(EntriesOf(fmt))
    PROVE  ToolTagsKept(ToldIn(fmt, h), h)
<1> DEFINE m == ToldIn(fmt, h)
<1>1. m \in Seq(Messages)
  BY ToldType, Zenon
<1>2. HeardOf(m) \in Seq(Blocks) /\ HeardOf(h) \in Seq(Blocks)
  BY <1>1, MessagesAreEntries, HistoryEntries, BlocksType, Zenon
<1>3. Told(HeardOf(m)) = Told(HeardOf(h))
  BY ToldInFormat, Zenon
<1> HIDE DEF m
<1>4. ASSUME NEW kind \in ToolKinds PROVE Tags(kind, HeardOf(m)) = Tags(kind, HeardOf(h))
  <2>1. kind \in {"text", "tool_use", "tool_result"}
    BY DEF ToolKinds
  <2>2. KeepsTags({"text", "tool_use", "tool_result"}, kind, HeardOf(m))
        /\ KeepsTags({"text", "tool_use", "tool_result"}, kind, HeardOf(h))
    BY <1>2, <2>1, OnlyKeepsTags, Zenon
  <2> QED
    BY <1>3, <2>2, Zenon DEF KeepsTags, Told
<1> QED
  BY <1>4, Zenon DEF ToolTagsKept, m

(* What a message has, the messages have. *)
LEMMA TagsOfMember ==
    ASSUME NEW m \in Seq(Messages), NEW i \in 1 .. Len(m), NEW kind
    PROVE  Tags(kind, m[i].content) \subseteq Tags(kind, HeardOf(m))
<1> DEFINE T == {s \in Seq(Messages) :
                    \A k \in 1 .. Len(s) : Tags(kind, s[k].content) \subseteq Tags(kind, HeardOf(s))}
<1>1. <<>> \in T
  OBVIOUS
<1>2. ASSUME NEW s \in Seq(Messages), NEW e \in Messages, s \in T PROVE Append(s, e) \in T
  <2> DEFINE u == Append(s, e)
  <2>1. /\ u \in Seq(Messages) /\ Len(u) = Len(s) + 1 /\ u[Len(s) + 1] = e
        /\ \A k \in 1 .. Len(s) : u[k] = s[k]
    OBVIOUS
  <2>2. s \in Seq(Entries) /\ e \in Entries /\ Heard(e) = e.content
    BY MessagesAreEntries, SaidMessage, Zenon
  <2>3. TagsSaidOneMore(kind, s, e)
    BY <2>2, TagsOfAppend, Zenon
  <2>4. \A k \in 1 .. Len(s) : Tags(kind, s[k].content) \subseteq Tags(kind, HeardOf(s))
    BY <1>2
  <2> HIDE DEF u
  <2>5. ASSUME NEW k \in 1 .. Len(u) PROVE Tags(kind, u[k].content) \subseteq Tags(kind, HeardOf(u))
    <3>1. CASE k \in 1 .. Len(s)
      BY <2>1, <2>3, <2>4, <3>1, Zenon DEF TagsSaidOneMore, u
    <3>2. CASE k = Len(s) + 1
      BY <2>1, <2>2, <2>3, <3>2, Zenon DEF TagsSaidOneMore, u
    <3> QED
      BY <2>1, <3>1, <3>2
  <2>6. u \in T
    BY <2>1, <2>5
  <2> QED
    BY <2>6 DEF u
<1>3. Seq(Messages) \subseteq T
  <2> HIDE DEF T
  <2> QED
    BY <1>1, <1>2, SeqInductionSet
<1> QED
  BY <1>3

(* Stripping keeps the tags of calls and results. *)
LEMMA StrippedTags ==
    ASSUME NEW m \in Seq(Messages), NEW i \in 1 .. Len(m)
    PROVE  CallsIn(Stripped(m)[i]) = CallsIn(m[i]) /\ ResultsIn(Stripped(m)[i]) = ResultsIn(m[i])
<1>1. KeepsStripped(m)
  BY StrippedKeeps, Zenon
<1>2. m[i].content \in Seq(Blocks)
  <2>1. m[i] \in Messages
    OBVIOUS
  <2> QED
    BY <2>1, MessageParts, Zenon DEF IsMessage
<1>3. "tool_use" \in Kinds \ Reasoning /\ "tool_result" \in Kinds \ Reasoning
  BY DEF Kinds, Reasoning
<1>4. KeepsTags(Kinds \ Reasoning, "tool_use", m[i].content)
      /\ KeepsTags(Kinds \ Reasoning, "tool_result", m[i].content)
  BY <1>2, <1>3, OnlyKeepsTags, Zenon
<1> QED
  BY <1>1, <1>4, Zenon DEF KeepsStripped, KeepsTags, CallsIn, ResultsIn, StripReasoning

SameCalls(m, n, i) == TurnCalls(n, i) = TurnCalls(m, i)

LEMMA StrippedTurns ==
    ASSUME NEW m \in Seq(Messages), NEW i \in 0 .. Len(m)
    PROVE  SameCalls(m, Stripped(m), i)
<1> DEFINE n == Stripped(m)
<1>1. \A k \in 1 .. Len(m) : n[k].role = m[k].role
  BY StrippedKeeps, Zenon DEF KeepsStripped
<1>2. \A k \in 1 .. Len(m) : CallsIn(n[k]) = CallsIn(m[k])
  BY StrippedTags, Zenon
<1>3. TurnListed(m, i) /\ TurnListed(n, i)
  BY TurnsAre, Zenon
<1> HIDE DEF n
<1>4. \A j \in 1 .. i : j \in 1 .. Len(m) /\ \A k \in j .. i : k \in 1 .. Len(m)
  OBVIOUS
<1>5. \A j \in 1 .. i : AllAssistant(n, j, i) <=> AllAssistant(m, j, i)
  BY <1>1, <1>4, Zenon DEF AllAssistant
<1>6. \A t : t \in TurnCalls(n, i) <=> t \in TurnCalls(m, i)
  BY <1>2, <1>3, <1>4, <1>5, Zenon DEF TurnListed
<1> QED
  BY <1>6, Zenon DEF SameCalls, n

-----------------------------------------------------------------------------
LEMMA NothingIsAsked == ASSUME IInv, phase # "asked" PROVE asked.messages = <<>> /\ asked.effort = ""
<1>1. asked = NoRequest
  BY Zenon DEF IInv, AskedOfHistory
<1> QED
  BY <1>1 DEF NoRequest

LEMMA Accepted == ASSUME IInv PROVE NothingRejected
<1>1. CASE phase # "asked"
  <2>1. asked.messages = <<>> /\ asked.effort = ""
    BY <1>1, NothingIsAsked, Zenon
  <2>2. DOMAIN <<>> = {}
    OBVIOUS
  <2> QED
    BY <2>1, <2>2, Zenon DEF NothingRejected
<1>2. CASE phase = "asked"
  <2> DEFINE m == ToldIn(format, history)
             n == Stripped(m)
  <2>1. IsAsked(asked)
    BY <1>2, AskedIs, Zenon
  <2>2. history \in Seq(EntriesOf(format))
    BY DEF IInv, LastCallsPending, Owes
  <2>3. m \in Seq(Messages)
    BY <2>2, ToldType, Zenon
  <2>4. ToolTagsKept(m, history)
    BY <2>2, TagsInFormat, Zenon
  <2>5. asked.messages = n /\ asked.effort # "" => ~asked.temperature
    BY <2>1, Zenon DEF IsAsked
  <2>6. asked.messages = n
    BY <2>1, Zenon DEF IsAsked
  <2> HIDE DEF m
  <2>7. KeepsStripped(m)
    BY <2>3, StrippedKeeps, Zenon
  <2>8. DOMAIN n = 1 .. Len(m)
    BY <2>7 DEF KeepsStripped
  <2>9. ASSUME NEW i \in 1 .. Len(m)
        PROVE  /\ \A block \in ToSet(n[i].content) : block.kind \notin Reasoning
               /\ CallsIn(n[i]) # {} => "function" \in asked.tools
    <3>1. m[i].content \in Seq(Blocks)
      <4>1. m[i] \in Messages
        BY <2>3
      <4> QED
        BY <4>1, MessageParts, Zenon DEF IsMessage
    <3>2. n[i].content \in Seq(OfKind(Kinds \ Reasoning))
      <4>1. Only(Kinds \ Reasoning, m[i].content) \in Seq(OfKind(Kinds \ Reasoning))
        BY <3>1, OnlyOfKind, Zenon
      <4> QED
        BY <2>7, <4>1, Zenon DEF KeepsStripped, StripReasoning
    <3>3. \A block \in ToSet(n[i].content) : block.kind \notin Reasoning
      <4> DEFINE c == n[i].content
      <4>1. c \in Seq(OfKind(Kinds \ Reasoning))
        BY <3>2
      <4> HIDE DEF c
      <4>2. \A k \in DOMAIN c : c[k].kind \notin Reasoning
        BY <4>1 DEF OfKind
      <4>3. \A block \in ToSet(c) : block.kind \notin Reasoning
        BY <4>2, Zenon DEF ToSet
      <4> QED
        BY <4>3 DEF c
    <3>4. ASSUME CallsIn(n[i]) # {} PROVE "function" \in asked.tools
      <4>1. Tags("tool_use", m[i].content) # {}
        BY <2>3, <3>4, StrippedTags, Zenon DEF CallsIn
      <4>2. Tags("tool_use", m[i].content) \subseteq Tags("tool_use", HeardOf(m))
        BY <2>3, TagsOfMember, Zenon
      <4>3. "tool_use" \in ToolKinds
        BY DEF ToolKinds
      <4>4. Tags("tool_use", HeardOf(history)) # {}
        BY <2>4, <4>1, <4>2, <4>3, Zenon DEF ToolTagsKept
      <4>5. format # "openai" /\ "function" \in tools
        BY <4>4, Zenon DEF IInv, CallsHaveTools
      <4> QED
        BY <2>1, <4>5, Zenon DEF IsAsked
    <3> QED
      BY <3>3, <3>4
  <2> QED
    BY <2>1, <2>6, <2>8, <2>9, Zenon DEF NothingRejected, IsAsked
<1> QED
  BY <1>1, <1>2

LEMMA Kept == ASSUME IInv PROVE HistoryKept
<1> SUFFICES ASSUME phase = "asked"
             PROVE  /\ Told(HeardOf(asked.messages)) = Told(HeardOf(history))
                    /\ system => asked.system \/ asked.messages[1].role = "system"
  BY DEF HistoryKept
<1> DEFINE m == ToldIn(format, history)
<1>1. IsAsked(asked)
  BY AskedIs, Zenon
<1>2. history \in Seq(EntriesOf(format))
  BY DEF IInv, LastCallsPending, Owes
<1>3. m \in Seq(Messages)
  BY <1>2, ToldType, Zenon
<1>4. asked.messages = Stripped(m)
  BY <1>1, Zenon DEF IsAsked
<1>5. Told(HeardOf(m)) = Told(HeardOf(history))
  BY <1>2, ToldInFormat, Zenon
<1>6. Told(HeardOf(asked.messages)) = Told(HeardOf(history))
  <2> HIDE DEF m
  <2> QED
    BY <1>3, <1>4, <1>5, StrippedTold, Zenon
<1>7. ASSUME system, format # "openai" PROVE asked.system
  BY <1>1, <1>7, Zenon DEF IsAsked
<1>8. ASSUME system, format = "openai" PROVE asked.messages[1].role = "system"
  <2>1. m = history
    BY <1>8 DEF ToldIn
  <2>2. history # <<>>
    BY DEF IInv, UserSpokeLast
  <2>3. history[1].role = "system"
    BY <1>8, <2>2, Zenon DEF IInv, SystemFirst
  <2> HIDE DEF m
  <2>4. 1 \in 1 .. Len(m)
    BY <1>3, <2>1, <2>2
  <2>5. Stripped(m)[1].role = m[1].role
    BY <1>3, <2>4, StrippedKeeps, Zenon DEF KeepsStripped
  <2> QED
    BY <1>4, <2>1, <2>3, <2>5, Zenon
<1> QED
  BY <1>6, <1>7, <1>8

LEMMA Ruled == ASSUME IInv PROVE ToolTurns
<1> SUFFICES ASSUME phase = "asked", NEW i \in DOMAIN asked.messages
             PROVE  /\ asked.messages[i].role = "user" =>
                          ResultsIn(asked.messages[i]) = TurnCalls(asked.messages, i - 1)
                    /\ i = Len(asked.messages) /\ Typed(Last(history)) => asked.messages[i].role = "user"
  BY Zenon DEF ToolTurns
<1> DEFINE m == ToldIn(format, history)
           n == Stripped(m)
<1>1. IsAsked(asked)
  BY AskedIs, Zenon
<1>2. asked.messages = n
  BY <1>1, Zenon DEF IsAsked
<1>3. Owes(format, history, Pending)
  BY DEF IInv, LastCallsPending
<1>4. m \in Seq(Messages) /\ Turns(m)
  BY <1>3, ToldType, Zenon DEF Owes
<1>5. Typed(Last(history)) => m # <<>> /\ Last(m).role = "user"
  BY DEF IInv, UserSpokeLast, EndsWith
<1> HIDE DEF m
<1>6. KeepsStripped(m)
  BY <1>4, StrippedKeeps, Zenon
<1> HIDE DEF n
<1>7. n \in Seq(Messages) /\ Len(n) = Len(m) /\ \A k \in 1 .. Len(m) : n[k].role = m[k].role
  BY <1>6, Zenon DEF KeepsStripped, n
<1>8. i \in 1 .. Len(m) /\ i - 1 \in 0 .. Len(m)
  BY <1>2, <1>4, <1>7
<1>9. SameCalls(m, n, i - 1)
  BY <1>4, <1>8, StrippedTurns, Zenon DEF n
<1>10. ResultsIn(n[i]) = ResultsIn(m[i])
  BY <1>4, <1>8, StrippedTags, Zenon DEF n
<1>11. ASSUME n[i].role = "user" PROVE ResultsIn(n[i]) = TurnCalls(n, i - 1)
  <2>1. m[i].role = "user"
    BY <1>7, <1>8, <1>11, Zenon
  <2>2. TurnAt(m, i)
    BY <1>4, <1>8, Zenon DEF Turns
  <2> QED
    BY <1>9, <1>10, <2>1, <2>2, Zenon DEF TurnAt, SameCalls
<1>12. ASSUME i = Len(n), Typed(Last(history)) PROVE n[i].role = "user"
  <2>1. m[i].role = "user"
    BY <1>5, <1>7, <1>12 DEF Last
  <2> QED
    BY <1>7, <1>8, <2>1, Zenon
<1> QED
  BY <1>2, <1>11, <1>12, Zenon

-----------------------------------------------------------------------------
(***************************************************************************)
(* A request is made of messages with the roles and the kinds of blocks    *)
(* that parsing and stripping give, functions or tools left with a bare    *)
(* name; and every tag of the history has been given out.                  *)
(***************************************************************************)
THEOREM ConversationTypes == Spec => []TypeOK
<1>1. IInv => TypeOK
  BY DEF IInv
<1> QED
  BY <1>1, Invariant, PTL

(***************************************************************************)
(* However many turns, no request repeats the reasoning of an earlier      *)
(* answer, has a temperature beside an effort, or tells calls without the  *)
(* function tools they need: stripReasoningBlocks, buildRequest and the    *)
(* three ParseRequest.                                                     *)
(***************************************************************************)
THEOREM NothingIsRejected == Spec => []NothingRejected
<1>1. IInv => NothingRejected
  BY Accepted
<1> QED
  BY <1>1, Invariant, PTL

(***************************************************************************)
(* Texts, calls, results and the system prompt of every turn reach the     *)
(* upstream, once and in order, in each client's format: all but what      *)
(* parseResponsesInput skips whole, the items without a type.              *)
(***************************************************************************)
THEOREM HistoryIsKept == Spec => []HistoryKept
<1>1. IInv => HistoryKept
  BY Kept
<1> QED
  BY <1>1, Invariant, PTL

(***************************************************************************)
(* Every request follows the upstream's rule for tools, however many calls *)
(* a turn makes and in whichever order the client answers them: the        *)
(* grouping of parseResponsesInput, and content arrays kept whole.         *)
(***************************************************************************)
THEOREM TurnsAreRight == Spec => []ToolTurns
<1>1. IInv => ToolTurns
  BY Ruled
<1> QED
  BY <1>1, Invariant, PTL
=============================================================================
