---------------------------- MODULE MaskingProofs -----------------------------
(***************************************************************************)
(* Proofs about masking and restoring: PiiMapping, the mappings in Redis,  *)
(* and StreamRehydrator, the restoring of an answer that comes in chunks.  *)
(* With a masker that has Redis, every prompt, any number of requests of a *)
(* session at once and every failure, what comes back in the place of a    *)
(* placeholder is the value it stood for (PiiNeverForeign), and nothing is *)
(* left out while a mapping that has it is kept (PiiAllRestored); and for  *)
(* every mapping and every way to cut an answer into chunks, what has been *)
(* shown and what is held back together are the restored answer            *)
(* (StreamNothingLost), so that the client is shown nothing but prefixes of*)
(* it and in the end all of it (StreamKeepsContract).                      *)
(***************************************************************************)
EXTENDS PiiMapping, StreamRehydrator, WellFoundedInduction, SequenceTheorems, TLAPS

-----------------------------------------------------------------------------
(* Concatenating: FlattenSeq, by induction over a set of lengths.          *)

\* Induction, over a set in place of a predicate.
LEMMA NatInduct ==
    ASSUME NEW T, 0 \in T, \A n \in Nat : n \in T => n + 1 \in T
    PROVE  \A n \in Nat : n \in T
<1> DEFINE R == OpToRel(<, Nat)
           B == Nat \ T
<1> SUFFICES ASSUME B # {} PROVE FALSE
  OBVIOUS
<1>1. IsWellFoundedOn(R, Nat)
  BY NatLessThanWellFounded
<1>2. B \subseteq Nat
  OBVIOUS
<1> HIDE DEF B
<1>3. PICK m \in B : \A n \in B : ~ (<<n, m>> \in R)
  BY <1>1, <1>2, WFMin
<1> USE DEF B
<1>4. m \in Nat /\ m # 0
  OBVIOUS
<1>5. m - 1 \in Nat /\ m - 1 < m /\ (m - 1) + 1 = m
  BY <1>4
<1>6. <<m - 1, m>> \in R
  BY <1>4, <1>5 DEF OpToRel
<1>7. m - 1 \in T
  BY <1>3, <1>5, <1>6
<1> QED BY <1>5, <1>7

\* The function that FlattenSeq uses.
Flat(s, n, f) ==
    f = [i \in 1 .. n |-> IF i = 1 THEN s[i] ELSE f[i - 1] \o s[i]]

\* A function that satisfies FlattenSeq's equation exists.
LEMMA FlatExists ==
    ASSUME NEW s
    PROVE  \A n \in Nat : \E f : Flat(s, n, f)
<1> DEFINE T == {n \in Nat : \E f : Flat(s, n, f)}
<1>1. 0 \in T
  <2> DEFINE f == [i \in 1 .. 0 |-> i]
  <2>1. Flat(s, 0, f)
    BY DEF Flat
  <2> QED BY <2>1
<1>2. ASSUME NEW n \in Nat, n \in T PROVE n + 1 \in T
  <2>1. PICK f : Flat(s, n, f)
    BY <1>2
  <2> DEFINE g == [i \in 1 .. n + 1 |->
                     IF i <= n THEN f[i] ELSE IF i = 1 THEN s[i] ELSE f[i - 1] \o s[i]]
             h == [i \in 1 .. n + 1 |-> IF i = 1 THEN s[i] ELSE g[i - 1] \o s[i]]
  <2>2. ASSUME NEW i \in 1 .. n + 1 PROVE g[i] = h[i]
    <3>1. CASE i = 1
      <4>1. h[i] = s[1]
        BY <3>1
      <4>2. g[i] = s[1]
        BY <2>1, <3>1 DEF Flat
      <4> QED BY <4>1, <4>2
    <3>2. CASE i # 1
      <4>1. i - 1 \in 1 .. n + 1 /\ i - 1 <= n /\ i - 1 \in 1 .. n
        BY <3>2
      <4>2. g[i - 1] = f[i - 1]
        BY <4>1
      <4>3. h[i] = f[i - 1] \o s[i]
        BY <3>2, <4>2
      <4>4. i <= n => f[i] = f[i - 1] \o s[i]
        <5> SUFFICES ASSUME i <= n PROVE f[i] = f[i - 1] \o s[i]
          OBVIOUS
        <5>1. i \in 1 .. n
          OBVIOUS
        <5> HIDE DEF g, h
        <5> QED BY <2>1, <3>2, <5>1, Zenon DEF Flat
      <4>5. g[i] = f[i - 1] \o s[i]
        BY <3>2, <4>4
      <4> QED BY <4>3, <4>5
    <3> QED BY <3>1, <3>2
  <2> HIDE DEF g
  <2>3. g = [i \in 1 .. n + 1 |-> g[i]]
    BY DEF g
  <2>4. g = h
    BY <2>2, <2>3
  <2>5. Flat(s, n + 1, g)
    BY <2>4 DEF Flat
  <2> QED BY <2>5
<1> HIDE DEF T
<1>3. \A n \in Nat : n \in T
  BY <1>1, <1>2, NatInduct
<1> QED BY <1>3 DEF T

\* FlattenSeq is the value of that function.
LEMMA FlattenIs ==
    ASSUME NEW s, Len(s) \in Nat
    PROVE  \E f : Flat(s, Len(s), f) /\ FlattenSeq(s) = IF Len(s) = 0 THEN s ELSE f[Len(s)]
<1> DEFINE g == CHOOSE f : Flat(s, Len(s), f)
<1>1. Flat(s, Len(s), g)
  BY FlatExists
<1>2. FlattenSeq(s) = IF Len(s) = 0 THEN s ELSE g[Len(s)]
  BY Zenon DEF FlattenSeq, Flat
<1> QED BY <1>1, <1>2

\* The steps of the recursion.
Steps(s, n, f) ==
    /\ 1 \in 1 .. n => f[1] = s[1]
    /\ \A i \in Nat : i # 0 /\ i + 1 \in 1 .. n => f[i + 1] = f[i] \o s[i + 1]

\* One more text at the end is added at the end.
LEMMA FlatStep ==
    ASSUME NEW s, NEW n \in Nat, NEW f, Flat(s, n, f)
    PROVE  Steps(s, n, f)
<1>1. \A i \in 1 .. n : f[i] = IF i = 1 THEN s[i] ELSE f[i - 1] \o s[i]
  BY DEF Flat
<1>2. ASSUME NEW i \in Nat, i # 0, i + 1 \in 1 .. n PROVE f[i + 1] = f[i] \o s[i + 1]
  <2>1. i + 1 # 1 /\ (i + 1) - 1 = i
    BY <1>2
  <2>2. f[i + 1] = f[(i + 1) - 1] \o s[i + 1]
    BY <1>1, <1>2, <2>1
  <2> QED BY <2>1, <2>2
<1> QED BY <1>1, <1>2 DEF Steps

\* What is concatenated from texts over a set is a text over it.
LEMMA FlatType ==
    ASSUME NEW S, NEW s \in Seq(Seq(S)), NEW f, Flat(s, Len(s), f)
    PROVE  \A i \in 1 .. Len(s) : f[i] \in Seq(S)
<1> DEFINE n == Len(s)
           T == {i \in Nat : i \in 1 .. n => f[i] \in Seq(S)}
<1>0. n \in Nat /\ \A i \in 1 .. n : s[i] \in Seq(S)
  OBVIOUS
<1>1. 0 \in T
  OBVIOUS
<1>2. ASSUME NEW i \in Nat, i \in T PROVE i + 1 \in T
  <2> SUFFICES ASSUME i + 1 \in 1 .. n PROVE f[i + 1] \in Seq(S)
    OBVIOUS
  <2> USE DEF n
  <2>1. CASE i = 0
    <3>1. 1 \in 1 .. n /\ i + 1 = 1
      BY <2>1
    <3>2. f[1] = s[1]
      BY <1>0, <3>1, FlatStep DEF Steps
    <3> QED BY <1>0, <3>1, <3>2
  <2>2. CASE i # 0
    <3>1. i \in 1 .. n
      BY <1>0, <2>2
    <3>2. f[i] \in Seq(S) /\ s[i + 1] \in Seq(S)
      BY <1>0, <1>2, <3>1
    <3>3. f[i + 1] = f[i] \o s[i + 1]
      BY <1>0, <2>2, FlatStep DEF Steps
    <3> QED BY <3>2, <3>3
  <2> QED BY <2>1, <2>2
<1> HIDE DEF T
<1>3. \A i \in Nat : i \in T
  BY <1>1, <1>2, NatInduct
<1> QED BY <1>0, <1>3 DEF T

\* FlattenSeq of texts over a set is a text over it.
LEMMA FlattenType ==
    ASSUME NEW S, NEW s \in Seq(Seq(S))
    PROVE  FlattenSeq(s) \in Seq(S)
<1>1. Len(s) \in Nat
  OBVIOUS
<1>2. PICK f : Flat(s, Len(s), f) /\ FlattenSeq(s) = IF Len(s) = 0 THEN s ELSE f[Len(s)]
  BY <1>1, FlattenIs
<1>3. CASE Len(s) = 0
  <2>1. s = <<>>
    BY <1>3
  <2> QED BY <1>2, <1>3, <2>1
<1>4. CASE Len(s) # 0
  <2>1. Len(s) \in 1 .. Len(s)
    BY <1>1, <1>4
  <2>2. f[Len(s)] \in Seq(S)
    BY <1>2, <2>1, FlatType
  <2> QED BY <1>2, <1>4, <2>2
<1> QED BY <1>3, <1>4

\* The pieces of two sequences are put together one after the other.
LEMMA FlattenConcat ==
    ASSUME NEW S, NEW s \in Seq(Seq(S)), NEW t \in Seq(Seq(S))
    PROVE  FlattenSeq(s \o t) = FlattenSeq(s) \o FlattenSeq(t)
<1> DEFINE m == Len(s)
           n == Len(t)
           st == s \o t
<1>0. /\ m \in Nat /\ n \in Nat
      /\ st \in Seq(Seq(S)) /\ Len(st) = m + n
      /\ \A i \in 1 .. m : st[i] = s[i]
      /\ \A i \in 1 .. n : st[m + i] = t[i]
  OBVIOUS
<1> HIDE DEF st
<1>1. Len(st) \in Nat /\ m + n \in Nat
  BY <1>0
<1>f. PICK f : Flat(st, m + n, f) /\ FlattenSeq(st) = IF m + n = 0 THEN st ELSE f[m + n]
  BY <1>0, <1>1, FlattenIs, Zenon
<1>g. PICK g : Flat(s, m, g) /\ FlattenSeq(s) = IF m = 0 THEN s ELSE g[m]
  BY <1>0, FlattenIs
<1>h. PICK h : Flat(t, n, h) /\ FlattenSeq(t) = IF n = 0 THEN t ELSE h[n]
  BY <1>0, FlattenIs
<1>t. /\ \A i \in 1 .. m : g[i] \in Seq(S)
      /\ \A i \in 1 .. n : h[i] \in Seq(S)
      /\ \A i \in 1 .. n : t[i] \in Seq(S)
  BY <1>g, <1>h, FlatType
<1>s. Steps(st, m + n, f) /\ Steps(s, m, g) /\ Steps(t, n, h)
  BY <1>0, <1>1, <1>f, <1>g, <1>h, FlatStep
<1>3. CASE m = 0
  <2>1. s = <<>> /\ st = t
    BY <1>3 DEF st
  <2>2. FlattenSeq(s) = <<>>
    BY <1>g, <1>3, <2>1
  <2>3. FlattenSeq(t) \in Seq(S)
    BY FlattenType
  <2> QED BY <2>1, <2>2, <2>3
<1>2. CASE n = 0
  <2>1. t = <<>> /\ st = s
    BY <1>2 DEF st
  <2>2. FlattenSeq(t) = <<>>
    BY <1>h, <1>2, <2>1
  <2>3. FlattenSeq(s) \in Seq(S)
    BY FlattenType
  <2> QED BY <2>1, <2>2, <2>3
<1>4. CASE m # 0 /\ n # 0
  <2> DEFINE T == {i \in Nat : i \in 1 .. m => f[i] = g[i]}
             U == {i \in Nat : i \in 1 .. n => f[m + i] = g[m] \o h[i]}
  <2>1. 0 \in T /\ 0 \in U
    OBVIOUS
  <2>2. ASSUME NEW i \in Nat, i \in T PROVE i + 1 \in T
    <3> SUFFICES ASSUME i + 1 \in 1 .. m PROVE f[i + 1] = g[i + 1]
      OBVIOUS
    <3>1. i + 1 \in 1 .. m + n /\ (i # 0 => i \in 1 .. m)
      BY <1>0
    <3>2. CASE i = 0
      BY <1>0, <1>s, <3>1, <3>2 DEF Steps
    <3>3. CASE i # 0
      <4>1. f[i] = g[i]
        BY <2>2, <3>1, <3>3
      <4>2. f[i + 1] = f[i] \o st[i + 1]
        BY <1>s, <3>1, <3>3 DEF Steps
      <4>3. g[i + 1] = g[i] \o s[i + 1]
        BY <1>s, <3>3 DEF Steps
      <4> QED BY <1>0, <4>1, <4>2, <4>3
    <3> QED BY <3>2, <3>3
  <2>3. \A i \in Nat : i \in T
    <3> HIDE DEF T
    <3> QED BY <2>1, <2>2, NatInduct
  <2>4. f[m] = g[m]
    BY <1>0, <1>4, <2>3
  <2>5. ASSUME NEW i \in Nat, i \in U PROVE i + 1 \in U
    <3> HIDE DEF m, n
    <3>0. i + 1 \in Nat
      OBVIOUS
    <3> SUFFICES ASSUME i + 1 \in 1 .. n PROVE f[m + (i + 1)] = g[m] \o h[i + 1]
      BY <3>0, Zenon
    <3>1. /\ m + i \in Nat /\ m + i # 0 /\ m + (i + 1) = (m + i) + 1
          /\ (m + i) + 1 \in 1 .. m + n
      BY <1>0, <1>4
    <3>2. f[m + (i + 1)] = f[m + i] \o t[i + 1]
      <4>1. f[(m + i) + 1] = f[m + i] \o st[(m + i) + 1]
        BY <1>s, <3>1 DEF Steps
      <4>2. st[m + (i + 1)] = t[i + 1]
        BY <1>0
      <4> QED BY <3>1, <4>1, <4>2
    <3>3. CASE i = 0
      <4>1. m + i = m /\ h[i + 1] = t[i + 1]
        BY <1>0, <1>s, <3>3 DEF Steps
      <4> QED BY <2>4, <3>2, <4>1
    <3>4. CASE i # 0
      <4>1. i \in 1 .. n /\ m \in 1 .. m
        BY <1>0, <1>4, <3>4
      <4>2. f[m + i] = g[m] \o h[i]
        BY <2>5, <4>1
      <4>3. h[i + 1] = h[i] \o t[i + 1]
        BY <1>s, <3>4 DEF Steps
      <4>4. g[m] \in Seq(S) /\ h[i] \in Seq(S) /\ t[i + 1] \in Seq(S)
        BY <1>t, <4>1
      <4>5. (g[m] \o h[i]) \o t[i + 1] = g[m] \o (h[i] \o t[i + 1])
        <5> HIDE DEF m, n
        <5> DEFINE a == g[m]
                   b == h[i]
                   c == t[i + 1]
        <5>1. a \in Seq(S) /\ b \in Seq(S) /\ c \in Seq(S)
          BY <4>4
        <5> HIDE DEF a, b, c
        <5>2. (a \o b) \o c = a \o (b \o c)
          BY <5>1, ConcatAssociative
        <5> QED BY <5>2 DEF a, b, c
      <4> QED BY <3>2, <4>2, <4>3, <4>5, Zenon
    <3> QED BY <3>3, <3>4
  <2>6. \A i \in Nat : i \in U
    <3> HIDE DEF U
    <3> QED BY <2>1, <2>5, NatInduct
  <2>7. f[m + n] = g[m] \o h[n]
    <3>1. n \in Nat /\ n \in 1 .. n
      BY <1>0, <1>4
    <3> HIDE DEF m, n
    <3> QED BY <2>6, <3>1, Zenon
  <2>8. FlattenSeq(s) = g[m] /\ FlattenSeq(t) = h[n]
    BY <1>4, <1>g, <1>h
  <2>9. m + n # 0
    BY <1>0, <1>4
  <2>10. FlattenSeq(st) = f[m + n]
    BY <1>f, <2>9
  <2> QED BY <2>7, <2>8, <2>10 DEF st
<1> QED BY <1>0, <1>2, <1>3, <1>4

-----------------------------------------------------------------------------
(* The numbering.                                                          *)

\* Two values of a text never get the same placeholder (_apply_placeholders).
LEMMA NumberingInjective ==
    ASSUME NEW known \in Mappings, NEW text, NEW a \in Numberings(known, text)
    PROVE  \A v, w \in Occurring(text) : a[v] = a[w] => v = w
<1> DEFINE new == Occurring(text) \ Image(known)
<1>1. DOMAIN known \subseteq Numbers
  BY DEF Mappings
<1>2. /\ a \in [Occurring(text) -> Numbers]
      /\ \A v \in Occurring(text) \ new : a[v] \in DOMAIN known /\ known[a[v]] = v
      /\ \A v \in new : \A n \in DOMAIN known : n < a[v]
      /\ \A v, w \in new : v # w => a[v] # a[w]
  BY DEF Numberings
<1> HIDE DEF new
<1> SUFFICES ASSUME NEW v \in Occurring(text), NEW w \in Occurring(text), a[v] = a[w]
             PROVE  v = w
  OBVIOUS
<1>3. CASE v \in new /\ w \in new
  BY <1>2, <1>3
<1>4. CASE v \notin new /\ w \notin new
  BY <1>2, <1>4
<1>5. CASE v \in new /\ w \notin new
  <2>1. a[w] \in DOMAIN known /\ a[w] < a[v]
    BY <1>2, <1>5
  <2>2. a[w] \in Nat
    BY <1>1, <2>1 DEF Numbers
  <2> QED BY <2>1, <2>2
<1>6. CASE v \notin new /\ w \in new
  <2>1. a[v] \in DOMAIN known /\ a[v] < a[w]
    BY <1>2, <1>6
  <2>2. a[v] \in Nat
    BY <1>1, <2>1 DEF Numbers
  <2> QED BY <2>1, <2>2
<1> QED BY <1>3, <1>4, <1>5, <1>6

\* The mapping made from a numbering holds exactly the pairs replaced.
LEMMA InvertedPairs ==
    ASSUME NEW S, NEW a \in [S -> Numbers],
           \A v, w \in S : a[v] = a[w] => v = w
    PROVE  /\ Inverted(a) \in [{a[v] : v \in S} -> S]
           /\ PairsOf(Inverted(a)) = Pairs(a)
<1>1. DOMAIN a = S
  OBVIOUS
<1> DEFINE inv == Inverted(a)
<1>2. DOMAIN inv = {a[v] : v \in S}
  BY <1>1 DEF Inverted
<1>3. ASSUME NEW v \in S PROVE inv[a[v]] = v
  <2>1. inv[a[v]] = CHOOSE w \in S : a[w] = a[v]
    BY <1>1 DEF Inverted
  <2>2. inv[a[v]] \in S /\ a[inv[a[v]]] = a[v]
    BY <2>1
  <2> QED BY <2>2
<1>4. inv \in [{a[v] : v \in S} -> S]
  <2>1. \A n \in {a[v] : v \in S} : inv[n] \in S
    BY <1>3
  <2>2. inv = [n \in {a[v] : v \in S} |-> inv[n]]
    BY <1>1 DEF Inverted
  <2> QED BY <2>1, <2>2
<1> HIDE DEF inv
<1>5. PairsOf(inv) = Pairs(a)
  <2>1. ASSUME NEW q \in PairsOf(inv) PROVE q \in Pairs(a)
    BY <1>1, <1>2, <1>3, <2>1 DEF PairsOf, Pairs
  <2>2. ASSUME NEW q \in Pairs(a) PROVE q \in PairsOf(inv)
    BY <1>1, <1>2, <1>3, <2>2 DEF PairsOf, Pairs
  <2> QED BY <2>1, <2>2
<1> QED BY <1>4, <1>5 DEF inv

\* Such a mapping is one that Redis can hold.
LEMMA InvertedType ==
    ASSUME NEW S \in SUBSET Values, NEW a \in [S -> Numbers],
           \A v, w \in S : a[v] = a[w] => v = w
    PROVE  Inverted(a) \in Mappings
<1>1. Inverted(a) \in [{a[v] : v \in S} -> S]
  BY InvertedPairs
<1>2. {a[v] : v \in S} \in SUBSET Numbers
  OBVIOUS
<1>3. Inverted(a) \in [{a[v] : v \in S} -> Values]
  BY <1>1
<1> QED BY <1>2, <1>3 DEF Mappings

\* A key that is not there reads as a mapping.
LEMMA EmptyType == Empty \in Mappings
<1>1. Empty \in [{} -> Values]
  BY DEF Empty
<1>2. {} \in SUBSET Numbers
  OBVIOUS
<1> QED BY <1>1, <1>2 DEF Mappings

\* Merging keeps the session's mapping a mapping (update_session_mapping).
LEMMA MergedType ==
    ASSUME NEW f \in Mappings, NEW g \in Mappings PROVE Merged(f, g) \in Mappings
<1>1. PICK F \in SUBSET Numbers : f \in [F -> Values]
  BY DEF Mappings
<1>2. PICK G \in SUBSET Numbers : g \in [G -> Values]
  BY DEF Mappings
<1>3. Merged(f, g) \in [F \cup G -> Values]
  BY <1>1, <1>2 DEF Merged
<1>4. F \cup G \in SUBSET Numbers
  OBVIOUS
<1> QED BY <1>3, <1>4 DEF Mappings

\* get_mapping() returns a mapping.
LEMMA LookupType ==
    ASSUME TypeOK, NEW r \in Requests PROVE Lookup(r) \in Mappings
BY DEF TypeOK, Lookup

\* The texts that are masked are made of the values of the prompt.
LEMMA TextType ==
    ASSUME TypeOK, NEW r \in Requests
    PROVE  Occurring(Text(r)) \subseteq Values
<1>1. prompt[r] \in Seq(Seq(Values))
  <2>1. prompt[r] \in Prompts \cup {<<>>}
    BY DEF TypeOK
  <2>2. <<>> \in Seq(Seq(Values))
    OBVIOUS
  <2> QED BY <2>1, <2>2, PiiAssumption
<1>2. FlattenSeq(prompt[r]) \in Seq(Values)
  BY <1>1, FlattenType
<1>3. ASSUME NEW i \in 1 .. Len(prompt[r]) PROVE prompt[r][i] \in Seq(Values)
  BY <1>1
<1>4. CASE Single(r)
  <2>1. 1 \in 1 .. Len(prompt[r])
    BY <1>4 DEF Single
  <2> QED BY <1>3, <1>4, <2>1 DEF Text, Occurring
<1>5. CASE ~ Single(r) /\ part[r] = 0
  BY <1>2, <1>5 DEF Text, Occurring
<1>6. CASE ~ Single(r) /\ part[r] # 0
  <2>1. part[r] \in Nat /\ part[r] <= Len(prompt[r])
    BY DEF TypeOK
  <2>2. part[r] \in 1 .. Len(prompt[r])
    BY <1>1, <1>6, <2>1
  <2> QED BY <1>3, <1>6, <2>2 DEF Text, Occurring
<1> QED BY <1>4, <1>5, <1>6

\* A numbering that knows a mapping continues it: the pairs of both are one to
\* one, and no number of the mapping has another value.
LEMMA NumberingExtends ==
    ASSUME NEW known \in Mappings, OneToOne(PairsOf(known)),
           NEW text, NEW a \in Numberings(known, text)
    PROVE  OneToOne(PairsOf(known) \cup Pairs(a))
<1> DEFINE S == Occurring(text)
           new == S \ Image(known)
<1>1. DOMAIN known \subseteq Numbers
  BY DEF Mappings
<1>2. /\ a \in [S -> Numbers]
      /\ \A v \in S \ new : a[v] \in DOMAIN known /\ known[a[v]] = v
      /\ \A v \in new : \A n \in DOMAIN known : n < a[v]
  BY DEF Numberings
<1>3. \A v, w \in S : a[v] = a[w] => v = w
  BY NumberingInjective
<1>4. ASSUME NEW v \in S, v \notin new PROVE <<a[v], v>> \in PairsOf(known)
  BY <1>2, <1>4 DEF PairsOf
<1>5. ASSUME NEW v \in S, v \in new, NEW p \in PairsOf(known)
      PROVE  p[1] # a[v] /\ p[2] # v
  <2>1. PICK n \in DOMAIN known : p = <<n, known[n]>>
    BY DEF PairsOf
  <2>2. n < a[v] /\ n \in Nat /\ a[v] \in Nat
    BY <1>1, <1>2, <1>5 DEF Numbers
  <2>3. n # a[v]
    BY <2>2
  <2>4. known[n] # v
    BY <1>5 DEF Image
  <2> QED BY <2>1, <2>3, <2>4
<1>6. \A q \in Pairs(a) : \E v \in S : q = <<a[v], v>>
  BY <1>2 DEF Pairs
<1> HIDE DEF new, S
<1>7. SUFFICES ASSUME NEW p \in PairsOf(known) \cup Pairs(a), NEW q \in PairsOf(known) \cup Pairs(a)
               PROVE  p[1] = q[1] <=> p[2] = q[2]
  BY Zenon DEF OneToOne
<1>8. \A x, y \in PairsOf(known) : x[1] = y[1] <=> x[2] = y[2]
  BY DEF OneToOne
<1>9. CASE p \in PairsOf(known) /\ q \in PairsOf(known)
  BY <1>8, <1>9
<1>10. CASE p \in PairsOf(known) /\ q \notin PairsOf(known)
  <2>1. PICK v \in S : q = <<a[v], v>>
    BY <1>6, <1>10
  <2>2. v \in new
    BY <1>4, <1>10, <2>1
  <2> QED BY <1>5, <1>10, <2>1, <2>2
<1>11. CASE p \notin PairsOf(known) /\ q \in PairsOf(known)
  <2>1. PICK v \in S : p = <<a[v], v>>
    BY <1>6, <1>11
  <2>2. v \in new
    BY <1>4, <1>11, <2>1
  <2> QED BY <1>5, <1>11, <2>1, <2>2
<1>12. CASE p \notin PairsOf(known) /\ q \notin PairsOf(known)
  <2>1. PICK v \in S : p = <<a[v], v>>
    BY <1>6, <1>12
  <2>2. PICK w \in S : q = <<a[w], w>>
    BY <1>6, <1>12
  <2> QED BY <1>3, <2>1, <2>2
<1> QED BY <1>9, <1>10, <1>11, <1>12

\* A numbering gives no number of the mapping it knows to another value.
LEMMA NumberingAgrees ==
    ASSUME NEW known \in Mappings, NEW text, NEW a \in Numberings(known, text)
    PROVE  Agree(Inverted(a), known)
<1> DEFINE S == Occurring(text)
           new == S \ Image(known)
<1>1. DOMAIN known \subseteq Numbers
  BY DEF Mappings
<1>2. /\ a \in [S -> Numbers]
      /\ \A v \in S \ new : a[v] \in DOMAIN known /\ known[a[v]] = v
      /\ \A v \in new : \A n \in DOMAIN known : n < a[v]
  BY DEF Numberings
<1>3. \A v, w \in S : a[v] = a[w] => v = w
  BY NumberingInjective
<1>4. Inverted(a) \in [{a[v] : v \in S} -> S] /\ PairsOf(Inverted(a)) = Pairs(a)
  BY <1>2, <1>3, InvertedPairs
<1> HIDE DEF S, new
<1>5. SUFFICES ASSUME NEW n \in DOMAIN Inverted(a), n \in DOMAIN known
               PROVE  Inverted(a)[n] = known[n]
  BY DEF Agree
<1>6. <<n, Inverted(a)[n]>> \in Pairs(a)
  BY <1>4 DEF PairsOf
<1>7. PICK v \in S : n = a[v] /\ Inverted(a)[n] = v
  BY <1>2, <1>6 DEF Pairs
<1>8. v \notin new
  <2> SUFFICES ASSUME v \in new PROVE FALSE
    OBVIOUS
  <2>1. n < n /\ n \in Nat
    BY <1>1, <1>2, <1>5, <1>7 DEF Numbers
  <2> QED BY <2>1
<1> QED BY <1>2, <1>7, <1>8

\* A part of what is one to one is one to one.
LEMMA OneToOnePart ==
    ASSUME NEW S, NEW T, T \subseteq S, OneToOne(S) PROVE OneToOne(T)
BY DEF OneToOne

\* Merging mappings that agree adds up their pairs.
LEMMA MergedPairs ==
    ASSUME NEW f \in Mappings, NEW g \in Mappings, Agree(f, g)
    PROVE  /\ PairsOf(Merged(f, g)) = PairsOf(f) \cup PairsOf(g)
           /\ Agree(f, Merged(f, g))
<1>1. /\ DOMAIN Merged(f, g) = DOMAIN f \cup DOMAIN g
      /\ \A n \in DOMAIN f : Merged(f, g)[n] = f[n]
      /\ \A n \in DOMAIN g : Merged(f, g)[n] = g[n]
  BY DEF Merged, Agree
<1>2. PairsOf(Merged(f, g)) \subseteq PairsOf(f) \cup PairsOf(g)
  BY <1>1 DEF PairsOf
<1>3. PairsOf(f) \cup PairsOf(g) \subseteq PairsOf(Merged(f, g))
  BY <1>1 DEF PairsOf
<1>4. Agree(f, Merged(f, g))
  BY <1>1 DEF Agree
<1> QED BY <1>2, <1>3, <1>4

-----------------------------------------------------------------------------
(* The type of the state, for every masker.                                *)

\* The type of what has failed.
History == /\ hit \in [Requests -> SUBSET (Failures \cup {"overlap"})]
           /\ faults \in Nat

\* What has failed for a request stays so.
HitsGrow == \A u \in Requests : hit[u] \subseteq hit'[u]

\* A failure only adds to what has failed (Fails).
LEMMA FailsHits ==
    ASSUME TypeOK, NEW failure \in Failures, NEW R \in SUBSET Requests,
           Fails(failure, R)
    PROVE  History' /\ HitsGrow /\ \A u \in R : failure \in hit'[u]
BY DEF Fails, TypeOK, History, HitsGrow

\* Where nothing fails, nothing is added to what has failed.
LEMMA SameHits ==
    ASSUME TypeOK, UNCHANGED history PROVE History' /\ HitsGrow
BY DEF TypeOK, history, History, HitsGrow

\* The first step of a request marks the requests it overlaps.
LEMMA BeginHits ==
    ASSUME TypeOK, NEW r \in Requests, NEW p \in Prompts, Begin(r, p)
    PROVE  History' /\ HitsGrow
BY DEF Begin, TypeOK, History, HitsGrow

\* A request goes on to its next message while it has one.
LEMMA AdvanceType ==
    ASSUME TypeOK, NEW r \in Requests, Advance(r)
    PROVE  /\ pc' \in [Requests -> {"idle", "reading", "storing", "merging", "writing",
                                    "waiting", "done", "lost"}]
           /\ part' \in [Requests -> Nat] /\ prompt' = prompt
           /\ \A u \in Requests : part'[u] <= Len(prompt[u])
           /\ pc'[r] = (IF LastText(r) THEN "waiting" ELSE "reading")
           /\ part'[r] = (IF LastText(r) THEN part[r] ELSE part[r] + 1)
           /\ \A u \in Requests : u # r => pc'[u] = pc[u] /\ part'[u] = part[u]
<1>1. /\ pc' = [pc EXCEPT ![r] = IF LastText(r) THEN "waiting" ELSE "reading"]
      /\ part' = [part EXCEPT ![r] = IF LastText(r) THEN part[r] ELSE part[r] + 1]
      /\ prompt' = prompt
  BY DEF Advance
<1>2. /\ pc \in [Requests -> {"idle", "reading", "storing", "merging", "writing",
                              "waiting", "done", "lost"}]
      /\ part \in [Requests -> Nat]
      /\ \A u \in Requests : part[u] <= Len(prompt[u])
  BY DEF TypeOK
<1>3. /\ pc'[r] = (IF LastText(r) THEN "waiting" ELSE "reading")
      /\ part'[r] = (IF LastText(r) THEN part[r] ELSE part[r] + 1)
      /\ \A u \in Requests : u # r => pc'[u] = pc[u] /\ part'[u] = part[u]
  BY <1>1, <1>2
<1>4. ~LastText(r) => part[r] + 1 <= Len(prompt[r])
  <2>1. Len(prompt[r]) \in Nat
    <3>1. prompt[r] \in Prompts \cup {<<>>}
      BY DEF TypeOK
    <3>2. <<>> \in Seq(Seq(Values))
      OBVIOUS
    <3>3. prompt[r] \in Seq(Seq(Values))
      BY <3>1, <3>2, PiiAssumption
    <3> QED BY <3>3
  <2>2. ~LastText(r) => part[r] # Len(prompt[r])
    BY DEF LastText
  <2>3. part[r] \in Nat /\ part[r] <= Len(prompt[r])
    BY <1>2
  <2> QED BY <2>1, <2>2, <2>3
<1>5. \A u \in Requests : part'[u] <= Len(prompt[u])
  BY <1>2, <1>3, <1>4
<1>6. part' \in [Requests -> Nat]
  BY <1>1, <1>2
<1>7. pc' \in [Requests -> {"idle", "reading", "storing", "merging", "writing",
                            "waiting", "done", "lost"}]
  BY <1>1, <1>2
<1> QED BY <1>1, <1>3, <1>5, <1>6, <1>7

\* What masking a text leaves: a mapping of its pairs, one to one.
LEMMA NumberFacts ==
    ASSUME TypeOK, NEW r \in Requests, NEW known \in Mappings,
           NEW a \in Numberings(known, Text(r))
    PROVE  /\ Inverted(a) \in Mappings
           /\ PairsOf(Inverted(a)) = Pairs(a)
           /\ Pairs(a) \subseteq Numbers \X Values
           /\ OneToOne(Pairs(a))
           /\ Occurring(Text(r)) # {} => Inverted(a) # Empty
<1> DEFINE S == Occurring(Text(r))
<1>1. S \in SUBSET Values
  BY TextType
<1>2. a \in [S -> Numbers]
  BY DEF Numberings
<1>3. \A v, w \in S : a[v] = a[w] => v = w
  BY NumberingInjective
<1> HIDE DEF S
<1>4. Inverted(a) \in Mappings
  BY <1>1, <1>2, <1>3, InvertedType
<1>5. Inverted(a) \in [{a[v] : v \in S} -> S] /\ PairsOf(Inverted(a)) = Pairs(a)
  BY <1>2, <1>3, InvertedPairs
<1>6. Pairs(a) \subseteq Numbers \X Values
  BY <1>1, <1>2 DEF Pairs
<1>7. OneToOne(Pairs(a))
  BY <1>2, <1>3 DEF OneToOne, Pairs
<1>8. ASSUME S # {} PROVE Inverted(a) # Empty
  <2>1. PICK v \in S : TRUE
    BY <1>8
  <2>2. a[v] \in DOMAIN Inverted(a)
    BY <1>5
  <2>3. DOMAIN Empty = {}
    BY DEF Empty
  <2> QED BY <2>2, <2>3
<1> QED BY <1>4, <1>5, <1>6, <1>7, <1>8 DEF S

\* Numbering a text keeps the types, whatever the mapping read was.
LEMMA NumberTypeOK ==
    ASSUME TypeOK, NEW r \in Requests, NEW known \in Mappings, Number(r, known), History'
    PROVE  TypeOK'
<1>1. PICK a \in Numberings(known, Text(r)) :
        /\ fresh' = [fresh EXCEPT ![r] = Inverted(a)]
        /\ sent' = [sent EXCEPT ![r] = IF part[r] = 0 /\ ~LastText(r) THEN sent[r]
                                       ELSE sent[r] \cup Pairs(a)]
        /\ IF MaskerRedis
           THEN pc' = [pc EXCEPT ![r] = "storing"] /\ UNCHANGED <<prompt, part>>
           ELSE Advance(r)
        /\ UNCHANGED <<fetched, got, requestKey, sessionKey>>
  BY DEF Number, redis
<1>2. Inverted(a) \in Mappings /\ Pairs(a) \subseteq Numbers \X Values
  BY NumberFacts
<1>3. fresh' \in [Requests -> Mappings]
  BY <1>1, <1>2 DEF TypeOK
<1>4. sent' \in [Requests -> SUBSET (Numbers \X Values)]
  BY <1>1, <1>2 DEF TypeOK
<1>5. CASE MaskerRedis
  BY <1>1, <1>3, <1>4, <1>5 DEF TypeOK, History
<1>6. CASE ~MaskerRedis
  BY <1>1, <1>3, <1>4, <1>6, AdvanceType DEF TypeOK, History
<1> QED BY <1>5, <1>6

\* A request that goes on keeps the types.
LEMMA AdvanceTypeOK ==
    ASSUME TypeOK, NEW r \in Requests, Advance(r), History',
           UNCHANGED <<fresh, fetched, sent, got>>,
           requestKey' \in [Requests -> Mappings], sessionKey' \in Mappings
    PROVE  TypeOK'
BY AdvanceType DEF TypeOK, History

\* A request that has not begun has masked nothing.
NotBegun == \A r \in Requests : pc[r] = "idle" => part[r] = 0

\* At the start.
LEMMA InitTypeOK == ASSUME Init PROVE TypeOK /\ NotBegun
BY EmptyType DEF Init, TypeOK, NotBegun

\* Every step keeps the types.
LEMMA NextTypeOK == ASSUME TypeOK, NotBegun, [Next]_vars PROVE TypeOK'
<1>0. requestKey \in [Requests -> Mappings] /\ sessionKey \in Mappings
  BY DEF TypeOK
<1>1. ASSUME NEW r \in Requests, NEW p \in Prompts, Begin(r, p) PROVE TypeOK'
  <2>1. /\ pc[r] = "idle" /\ prompt' = [prompt EXCEPT ![r] = p]
        /\ pc' = [pc EXCEPT ![r] = "reading"]
        /\ UNCHANGED <<part, fresh, fetched, sent, got, requestKey, sessionKey>>
    BY <1>1 DEF Begin, masking, redis
  <2>2. History'
    BY <1>1, BeginHits
  <2>3. \A u \in Requests : part'[u] <= Len(prompt'[u])
    <3>1. part[r] = 0 /\ p \in Seq(Seq(Values))
      BY <2>1, PiiAssumption DEF NotBegun
    <3>2. Len(p) \in Nat
      BY <3>1
    <3>3. part'[r] <= Len(prompt'[r])
      BY <2>1, <3>1, <3>2 DEF TypeOK
    <3> QED BY <2>1, <3>3 DEF TypeOK
  <2>4. prompt' \in [Requests -> Prompts \cup {<<>>}]
    BY <2>1 DEF TypeOK
  <2> QED BY <2>1, <2>2, <2>3, <2>4 DEF TypeOK, History
<1>2. ASSUME NEW r \in Requests, MaskNothing(r) PROVE TypeOK'
  <2>1. History'
    BY <1>2, SameHits DEF MaskNothing
  <2> QED BY <1>0, <1>2, <2>1, AdvanceTypeOK DEF MaskNothing, masking, redis
<1>3. ASSUME NEW r \in Requests, Read(r) PROVE TypeOK'
  <2>1. History'
    BY <1>3, SameHits DEF Read
  <2>2. (IF MaskerRedis THEN Lookup(r) ELSE Empty) \in Mappings
    BY LookupType, EmptyType
  <2> QED BY <1>3, <2>1, <2>2, NumberTypeOK DEF Read
<1>4. ASSUME NEW r \in Requests, ReadFails(r) PROVE TypeOK'
  <2>1. History'
    BY <1>4, FailsHits DEF ReadFails, Failures
  <2> QED BY <1>4, <2>1, EmptyType, NumberTypeOK DEF ReadFails
<1>5. ASSUME NEW r \in Requests, Store(r) PROVE TypeOK'
  BY <1>5 DEF Store, TypeOK, masking, history
<1>6. ASSUME NEW r \in Requests, StoreFails(r) PROVE TypeOK'
  <2>1. History'
    BY <1>6, FailsHits DEF StoreFails, Failures
  <2>2. requestKey' \in [Requests -> Mappings]
    BY <1>6 DEF StoreFails, TypeOK
  <2> QED BY <1>0, <1>6, <2>1, <2>2, AdvanceTypeOK DEF StoreFails, masking
<1>7. ASSUME NEW r \in Requests, Fetch(r) PROVE TypeOK'
  BY <1>7 DEF Fetch, TypeOK, redis, history
<1>8. ASSUME NEW r \in Requests, Write(r) PROVE TypeOK'
  <2>1. History'
    BY <1>8, SameHits DEF Write, history
  <2>2. sessionKey' \in Mappings
    BY <1>8, MergedType DEF Write, TypeOK
  <2> QED BY <1>0, <1>8, <2>1, <2>2, AdvanceTypeOK DEF Write, masking
<1>9. ASSUME NEW r \in Requests, MergeFails(r) PROVE TypeOK'
  <2>1. History'
    BY <1>9, FailsHits DEF MergeFails, Failures
  <2>2. sessionKey' \in Mappings
    BY <1>9, MergedType DEF MergeFails, TypeOK
  <2> QED BY <1>0, <1>9, <2>1, <2>2, AdvanceTypeOK DEF MergeFails, masking
<1>10. ASSUME NEW r \in Requests, Restore(r) PROVE TypeOK'
  <2> DEFINE mapping == Lookup(r)
             result == {<<pair[2], mapping[pair[1]]>> :
                          pair \in {q \in sent[r] : q[1] \in DOMAIN mapping}}
  <2>1. /\ got' = [got EXCEPT ![r] = result] /\ pc' = [pc EXCEPT ![r] = "done"]
        /\ UNCHANGED <<prompt, part, fresh, fetched, sent, requestKey, sessionKey,
                       hit, faults>>
    BY <1>10 DEF Restore, masking, redis, history
  <2>2. mapping \in Mappings /\ sent[r] \subseteq Numbers \X Values
    BY LookupType DEF TypeOK
  <2>3. result \subseteq Values \X Values
    BY <2>2 DEF Mappings
  <2> HIDE DEF result
  <2> QED BY <2>1, <2>3 DEF TypeOK
<1>11. ASSUME NEW r \in Requests, RestoreFails(r) PROVE TypeOK'
  <2>1. History'
    BY <1>11, FailsHits DEF RestoreFails, Failures
  <2> QED BY <1>11, <2>1 DEF RestoreFails, TypeOK, History, masking, redis
<1>12. ASSUME NEW r \in Requests, ExpireRequest(r) PROVE TypeOK'
  <2>1. History'
    BY <1>12, FailsHits DEF ExpireRequest, Failures
  <2> QED BY <1>12, <2>1, EmptyType DEF ExpireRequest, TypeOK, History, progress, masking
<1>13. CASE ExpireSession
  <2>1. History'
    BY <1>13, FailsHits DEF ExpireSession, Failures
  <2> QED BY <1>13, <2>1, EmptyType DEF ExpireSession, TypeOK, History, progress, masking
<1>14. CASE UNCHANGED vars
  BY <1>14 DEF vars, progress, masking, redis, history, TypeOK
<1> QED
  BY <1>1, <1>2, <1>3, <1>4, <1>5, <1>6, <1>7, <1>8, <1>9, <1>10, <1>11, <1>12,
     <1>13, <1>14 DEF Next, MaskStep, RedisStep, AnswerStep

\* A step of a request that has begun, or of none, begins none.
LEMMA NextNotBegun == ASSUME TypeOK, NotBegun, [Next]_vars PROVE NotBegun'
<1>0. /\ pc \in [Requests -> {"idle", "reading", "storing", "merging", "writing",
                              "waiting", "done", "lost"}]
      /\ part \in [Requests -> Nat]
  BY DEF TypeOK
<1>1. ASSUME NEW r \in Requests, pc'[r] # "idle",
             \A u \in Requests : u # r => pc'[u] = pc[u] /\ part'[u] = part[u]
      PROVE  NotBegun'
  BY <1>1 DEF NotBegun
<1>2. ASSUME NEW r \in Requests, Advance(r) PROVE NotBegun'
  <2>1. pc'[r] # "idle"
    BY <1>2, AdvanceType
  <2> QED BY <1>1, <1>2, <2>1, AdvanceType
<1>3. ASSUME NEW r \in Requests, NEW s \in {"reading", "storing", "merging", "writing",
                                            "waiting", "done", "lost"},
             pc' = [pc EXCEPT ![r] = s], UNCHANGED part
      PROVE  NotBegun'
  BY <1>0, <1>1, <1>3
<1>4. ASSUME UNCHANGED <<pc, part>> PROVE NotBegun'
  BY <1>4 DEF NotBegun
<1>5. ASSUME NEW r \in Requests, NEW known, Number(r, known) PROVE NotBegun'
  BY <1>2, <1>3, <1>5 DEF Number
<1>6. ASSUME NEW r \in Requests, MaskStep(r) PROVE NotBegun'
  BY <1>2, <1>3, <1>5, <1>6 DEF MaskStep, Begin, MaskNothing, Read, ReadFails
<1>7. ASSUME NEW r \in Requests, RedisStep(r) PROVE NotBegun'
  BY <1>2, <1>3, <1>7 DEF RedisStep, Store, StoreFails, Fetch, Write, MergeFails
<1>8. ASSUME NEW r \in Requests, AnswerStep(r) PROVE NotBegun'
  BY <1>3, <1>4, <1>8 DEF AnswerStep, Restore, RestoreFails, ExpireRequest, progress
<1>9. CASE ExpireSession \/ UNCHANGED vars
  BY <1>4, <1>9 DEF ExpireSession, vars, progress
<1> QED BY <1>6, <1>7, <1>8, <1>9 DEF Next

\* The state has its type, with or without Redis and with every prompt.
THEOREM PiiTypeOK == Spec => []TypeOK
<1>1. Init => TypeOK /\ NotBegun
  BY InitTypeOK
<1>2. TypeOK /\ NotBegun /\ [Next]_vars => (TypeOK /\ NotBegun)'
  BY NextTypeOK, NextNotBegun
<1> QED BY <1>1, <1>2, PTL DEF Spec

-----------------------------------------------------------------------------
(* What a request keeps of its own.                                        *)

\* What holds of a request and its own key.
OwnInv(r) == PairsInv(r) /\ KeyInv(r)

\* Only request r takes a step.
Only(r) ==
    \A u \in Requests : u # r =>
        /\ pc'[u] = pc[u] /\ prompt'[u] = prompt[u] /\ part'[u] = part[u]
        /\ fresh'[u] = fresh[u] /\ sent'[u] = sent[u] /\ got'[u] = got[u]
        /\ fetched'[u] = fetched[u] /\ requestKey'[u] = requestKey[u]

\* What has not failed yet had not failed before.
LEMMA SparedBefore ==
    ASSUME HitsGrow, NEW R \in SUBSET Requests, NEW what, Spared(R, what)'
    PROVE  Spared(R, what)
BY DEF HitsGrow, Spared

\* A key that is kept was kept before.
LEMMA KeptBefore ==
    ASSUME HitsGrow, NEW u \in Requests
    PROVE  /\ KeyKept(u)' => KeyKept(u)
           /\ prompt'[u] = prompt[u] /\ NumberedOnce(u)' => NumberedOnce(u)
<1>1. KeyKept(u)' => KeyKept(u)
  BY DEF HitsGrow, KeyKept, Spared
<1>2. ASSUME prompt'[u] = prompt[u], NumberedOnce(u)' PROVE NumberedOnce(u)
  BY <1>2 DEF HitsGrow, NumberedOnce, Spared, Single
<1> QED BY <1>1, <1>2

\* What a request knows is its own: a step that leaves its part of the state
\* alone leaves OwnInv alone.
LEMMA OwnFrame ==
    ASSUME HitsGrow, NEW u \in Requests, OwnInv(u),
           pc'[u] = pc[u], prompt'[u] = prompt[u], part'[u] = part[u],
           fresh'[u] = fresh[u], sent'[u] = sent[u], got'[u] = got[u],
           requestKey'[u] = requestKey[u]
    PROVE  OwnInv(u)'
<1>1. (Single(u)' <=> Single(u)) /\ (Saving(u)' <=> Saving(u))
  BY DEF Single, Saving
<1>2. PairsOf(fresh'[u]) = PairsOf(fresh[u])
  OBVIOUS
<1>3. /\ Spared({u}, {"store"})' => Spared({u}, {"store"})
      /\ KeyKept(u)' => KeyKept(u)
      /\ NumberedOnce(u)' => NumberedOnce(u)
  BY SparedBefore, KeptBefore
<1>4. PairsInv(u)'
  <2>1. PairsInv(u)
    BY DEF OwnInv
  <2> QED BY <1>1, <1>2, <1>3, <2>1 DEF PairsInv
<1>5. KeyInv(u)'
  <2>1. KeyInv(u)
    BY DEF OwnInv
  <2> QED BY <1>1, <1>3, <2>1 DEF KeyInv
<1> QED BY <1>4, <1>5 DEF OwnInv

\* It is enough to look at the request that takes the step.
LEMMA OthersKeep ==
    ASSUME HitsGrow, \A u \in Requests : OwnInv(u), NEW r \in Requests, Only(r), OwnInv(r)'
    PROVE  \A u \in Requests : OwnInv(u)'
<1>1. ASSUME NEW u \in Requests, u # r PROVE OwnInv(u)'
  BY <1>1, OwnFrame DEF Only
<1> QED BY <1>1

\* A request that waits for its answer does not lose what it has when its key
\* expires, or the answer fails.
LEMMA WaitingOwn ==
    ASSUME HitsGrow, NEW r \in Requests, OwnInv(r), pc[r] = "waiting",
           pc'[r] \in {"waiting", "done", "lost"},
           got'[r] = got[r] \/ pc'[r] = "done",
           prompt'[r] = prompt[r], part'[r] = part[r],
           fresh'[r] = fresh[r], sent'[r] = sent[r],
           requestKey'[r] = requestKey[r] \/ (requestKey'[r] = Empty /\ ~KeyKept(r)')
    PROVE  OwnInv(r)'
<1>1. (Single(r)' <=> Single(r)) /\ ~Saving(r)' /\ PairsOf(fresh'[r]) = PairsOf(fresh[r])
  BY DEF Single, Saving
<1>3. NumberedOnce(r)' => NumberedOnce(r)
  BY KeptBefore
<1>4. PairsInv(r)'
  BY <1>1, <1>3 DEF OwnInv, PairsInv
<1>5. KeyKept(r)' => KeyKept(r) /\ requestKey'[r] = requestKey[r]
  BY KeptBefore
<1>6. KeyInv(r)'
  BY <1>1, <1>5 DEF OwnInv, KeyInv
<1> QED BY <1>4, <1>6 DEF OwnInv

\* A request whose prompt is there has at least one message.
LEMMA PromptLength ==
    ASSUME TypeOK, NEW r \in Requests, prompt[r] # <<>>
    PROVE  Len(prompt[r]) \in Nat \ {0}
<1>1. prompt[r] \in Seq(Seq(Values))
  BY PiiAssumption DEF TypeOK
<1> QED BY <1>1

\* A request goes on: to its next message, or to wait for the answer.
LEMMA AdvanceOwn ==
    ASSUME TypeOK, HitsGrow, NEW r \in Requests, OwnInv(r),
           pc[r] = "reading" \/ Saving(r), Advance(r),
           UNCHANGED <<fresh, fetched, sent, got>>,
           \A u \in Requests : u # r => requestKey'[u] = requestKey[u],
           Single(r) => requestKey'[r] \in {Empty, fresh[r]},
           sent[r] # {} /\ Spared({r}, {"store"})' => requestKey'[r] = fresh[r]
    PROVE  Only(r) /\ OwnInv(r)' /\ pc'[r] \in {"reading", "waiting"}
<1>1. /\ prompt' = prompt
      /\ pc'[r] = (IF LastText(r) THEN "waiting" ELSE "reading")
      /\ part'[r] = (IF LastText(r) THEN part[r] ELSE part[r] + 1)
      /\ \A u \in Requests : u # r => pc'[u] = pc[u] /\ part'[u] = part[u]
  BY AdvanceType
<1>2. Only(r)
  BY <1>1 DEF Only
<1>3. pc[r] \notin {"idle", "done", "waiting"} /\ prompt[r] # <<>> /\ part[r] \in Nat
  BY DEF Saving, OwnInv, PairsInv, TypeOK
<1>4. Len(prompt[r]) \in Nat \ {0}
  BY <1>3, PromptLength
<1>5. PairsInv(r)
  BY DEF OwnInv
<1>6. /\ (Single(r)' <=> Single(r)) /\ PairsOf(fresh'[r]) = PairsOf(fresh[r])
      /\ ~Saving(r)'
  BY <1>1 DEF Single, Saving
<1>7. NumberedOnce(r)' => NumberedOnce(r)
  BY <1>1, KeptBefore
<1>8. CASE Single(r)
  <2>1. pc'[r] = "waiting" /\ part'[r] = 0
    BY <1>1, <1>3, <1>5, <1>8 DEF LastText, PairsInv
  <2>2. PairsInv(r)'
    BY <1>1, <1>3, <1>5, <1>6, <1>7, <1>8, <2>1 DEF PairsInv
  <2>3. KeyKept(r)' => Spared({r}, {"store"})'
    BY DEF KeyKept, Spared
  <2>4. KeyInv(r)'
    BY <1>6, <1>8, <2>1, <2>3 DEF KeyInv
  <2> QED BY <1>2, <2>1, <2>2, <2>4 DEF OwnInv
<1>9. CASE ~Single(r)
  <2>1. pc'[r] \in {"reading", "waiting"}
    BY <1>1
  <2>2. LastText(r) <=> part[r] = Len(prompt[r])
    BY <1>9 DEF LastText
  <2>3. part'[r] # 0
    BY <1>1, <1>3, <1>4, <2>2
  <2>4. part'[r] = 1 => part[r] = 0 /\ pc'[r] = "reading"
    <3>1. ASSUME part'[r] = 1, LastText(r) PROVE FALSE
      <4>1. Len(prompt[r]) = 1
        BY <1>1, <2>2, <3>1
      <4> QED BY <1>9, <4>1 DEF Single
    <3>2. ASSUME part'[r] = 1, ~LastText(r) PROVE part[r] = 0 /\ pc'[r] = "reading"
      <4>1. part[r] + 1 = 1
        BY <1>1, <3>2
      <4>2. part[r] = 0
        BY <1>3, <4>1
      <4> QED BY <1>1, <3>2, <4>2
    <3> QED BY <3>1, <3>2
  <2>5. part'[r] = 2 /\ pc'[r] = "reading" => part[r] = 1
    BY <1>1, <1>3
  <2>6. /\ part[r] = 0 => sent[r] = {}
        /\ part[r] = 1 => sent[r] = {} \/ sent[r] = PairsOf(fresh[r])
    BY <1>5, <1>9 DEF PairsInv
  <2>7. PairsInv(r)'
    <3>1. /\ pc'[r] # "idle" /\ prompt'[r] # <<>>
          /\ ~(Single(r)' \/ prompt'[r] = <<>>)
          /\ got'[r] = {}
      BY <1>1, <1>3, <1>5, <1>6, <1>9, <2>1 DEF PairsInv
    <3>2. part'[r] = 0 \/ (part'[r] = 1 /\ pc'[r] = "reading") => sent'[r] = {}
      BY <2>3, <2>4, <2>6
    <3>3. part'[r] = 1 \/ (part'[r] = 2 /\ pc'[r] = "reading") =>
            sent'[r] = {} \/ sent'[r] = PairsOf(fresh'[r])
      BY <2>4, <2>5, <2>6
    <3>4. /\ sent'[r] # {} => fresh'[r] # Empty /\ PairsOf(fresh'[r]) \subseteq sent'[r]
          /\ NumberedOnce(r)' => OneToOne(sent'[r])
      BY <1>5, <1>7 DEF PairsInv
    <3> QED BY <1>6, <1>9, <3>1, <3>2, <3>3, <3>4 DEF PairsInv
  <2>8. KeyKept(r)' => Spared({r}, {"store"})'
    BY DEF KeyKept, Spared
  <2>9. KeyInv(r)'
    BY <1>6, <1>9, <2>1, <2>8 DEF KeyInv
  <2> QED BY <1>2, <2>1, <2>7, <2>9 DEF OwnInv
<1> QED BY <1>8, <1>9

\* The step that numbers the values of a text, and the numbering it chose.
Numbered(r, known, a) ==
    /\ a \in Numberings(known, Text(r))
    /\ pc'[r] = "storing"
    /\ fresh'[r] = Inverted(a)
    /\ sent'[r] = IF part[r] = 0 /\ ~LastText(r) THEN sent[r] ELSE sent[r] \cup Pairs(a)
    /\ UNCHANGED <<prompt, part, fetched, got, requestKey, sessionKey>>
    /\ Only(r)

\* With Redis, numbering goes on to store.
LEMMA NumberChosen ==
    ASSUME MaskerRedis, TypeOK, NEW r \in Requests, NEW known, Number(r, known)
    PROVE  \E a \in Numberings(known, Text(r)) : Numbered(r, known, a)
<1>1. PICK a \in Numberings(known, Text(r)) :
        /\ fresh' = [fresh EXCEPT ![r] = Inverted(a)]
        /\ sent' = [sent EXCEPT ![r] = IF part[r] = 0 /\ ~LastText(r) THEN sent[r]
                                       ELSE sent[r] \cup Pairs(a)]
        /\ pc' = [pc EXCEPT ![r] = "storing"]
        /\ UNCHANGED <<prompt, part, fetched, got, requestKey, sessionKey>>
  BY DEF Number, redis
<1>2. /\ fresh'[r] = Inverted(a) /\ pc'[r] = "storing"
      /\ sent'[r] = (IF part[r] = 0 /\ ~LastText(r) THEN sent[r] ELSE sent[r] \cup Pairs(a))
      /\ \A u \in Requests : u # r =>
            pc'[u] = pc[u] /\ fresh'[u] = fresh[u] /\ sent'[u] = sent[u]
  BY <1>1 DEF TypeOK
<1>3. Only(r)
  BY <1>1, <1>2 DEF Only
<1> QED BY <1>1, <1>2, <1>3 DEF Numbered

\* Which pairs a numbering adds to, and that those of a request numbered once
\* stay one to one: the second message continues the mapping of the first.
LEMMA NumberPairs ==
    ASSUME TypeOK, HitsGrow, NEW r \in Requests, OwnInv(r), pc[r] = "reading",
           NEW known \in Mappings, NEW a, Numbered(r, known, a),
           Spared({r}, {"read"})' => known = Lookup(r)
    PROVE  /\ part[r] = 0 /\ ~Single(r) => sent'[r] = {}
           /\ part[r] # 0 \/ Single(r) => sent'[r] = sent[r] \cup Pairs(a)
           /\ Single(r) \/ part[r] \in {0, 1} => sent[r] = {}
           /\ NumberedOnce(r)' => OneToOne(sent'[r])
<1> USE DEF Numbered
<1>0. PairsInv(r) /\ KeyInv(r)
  BY DEF OwnInv
<1>1. prompt[r] # <<>> /\ Len(prompt[r]) \in Nat \ {0}
  BY <1>0, PromptLength DEF PairsInv
<1>2. OneToOne(Pairs(a))
  BY NumberFacts
<1>3. part[r] = 0 /\ ~Single(r) => sent[r] = {} /\ sent'[r] = {}
  BY <1>0, <1>1 DEF LastText, PairsInv
<1>4. part[r] # 0 \/ Single(r) => sent'[r] = sent[r] \cup Pairs(a)
  BY DEF LastText
<1>5. Single(r) \/ part[r] \in {0, 1} => sent[r] = {}
  BY <1>0 DEF PairsInv
<1>6. ASSUME NumberedOnce(r)' PROVE OneToOne(sent'[r])
  <2>1. NumberedOnce(r)
    BY <1>6, KeptBefore
  <2>2. CASE part[r] = 0 /\ ~Single(r)
    BY <1>3, <2>2 DEF OneToOne
  <2>3. CASE Single(r) \/ part[r] = 1
    BY <1>2, <1>4, <1>5, <2>3
  <2>4. CASE ~Single(r) /\ part[r] \notin {0, 1}
    <3>1. Len(prompt[r]) = 2 /\ Spared({r}, {"read"})' /\ Spared({r}, {"store"})
      BY <1>6, <2>1, <2>4 DEF NumberedOnce, Spared, Single
    <3>2. part[r] = 2
      <4>1. part[r] \in Nat /\ part[r] <= 2
        BY <3>1 DEF TypeOK
      <4> QED BY <2>4, <4>1
    <3>3. sent[r] = {} \/ sent[r] = PairsOf(fresh[r])
      BY <1>0, <2>4, <3>2 DEF PairsInv
    <3>4. sent'[r] = sent[r] \cup Pairs(a)
      BY <1>4, <2>4
    <3>5. CASE sent[r] = {}
      BY <1>2, <3>4, <3>5
    <3>6. CASE sent[r] # {}
      <4>1. requestKey[r] = fresh[r] /\ fresh[r] # Empty
        BY <1>0, <3>1, <3>6 DEF KeyInv, PairsInv
      <4>2. known = fresh[r]
        BY <3>1, <4>1 DEF Lookup
      <4>3. OneToOne(sent[r])
        BY <1>0, <2>1 DEF PairsInv
      <4>4. sent[r] = PairsOf(known)
        BY <3>3, <3>6, <4>2
      <4> QED BY <3>4, <4>3, <4>4, NumberingExtends
    <3> QED BY <3>5, <3>6
  <2> QED BY <2>2, <2>3, <2>4
<1> QED BY <1>3, <1>4, <1>5, <1>6

\* Numbering a text keeps what holds of the request.
LEMMA NumberOwn ==
    ASSUME TypeOK, HitsGrow, NEW r \in Requests, OwnInv(r), pc[r] = "reading",
           Occurring(Text(r)) # {},
           NEW known \in Mappings, NEW a, Numbered(r, known, a),
           Spared({r}, {"read"})' => known = Lookup(r)
    PROVE  OwnInv(r)'
<1>0. PairsInv(r) /\ KeyInv(r)
  BY DEF OwnInv
<1>1. /\ part[r] = 0 /\ ~Single(r) => sent'[r] = {}
      /\ part[r] # 0 \/ Single(r) => sent'[r] = sent[r] \cup Pairs(a)
      /\ Single(r) \/ part[r] \in {0, 1} => sent[r] = {}
      /\ NumberedOnce(r)' => OneToOne(sent'[r])
  BY NumberPairs
<1>2. /\ pc'[r] = "storing" /\ prompt'[r] = prompt[r] /\ part'[r] = part[r]
      /\ fresh'[r] = Inverted(a) /\ got'[r] = got[r] /\ requestKey'[r] = requestKey[r]
  BY DEF Numbered
<1>3. PairsOf(fresh'[r]) = Pairs(a) /\ fresh'[r] # Empty
  BY <1>2, NumberFacts DEF Numbered
<1>4. (Single(r)' <=> Single(r)) /\ Saving(r)'
  BY <1>2 DEF Single, Saving
<1>5. prompt[r] # <<>> /\ got[r] = {}
  BY <1>0 DEF PairsInv
<1>6. PairsInv(r)'
  <2>1. /\ pc'[r] = "idle" <=> prompt'[r] = <<>>
        /\ Single(r)' \/ prompt'[r] = <<>> => part'[r] = 0
        /\ got'[r] = {}
    BY <1>0, <1>2, <1>4, <1>5 DEF PairsInv
  <2>2. ~Single(r)' /\ part'[r] = 0 => sent'[r] = {}
    BY <1>1, <1>2, <1>4
  <2>3. Single(r)' \/ part'[r] = 1 => sent'[r] = PairsOf(fresh'[r])
    BY <1>1, <1>2, <1>3, <1>4
  <2>4. sent'[r] # {} => PairsOf(fresh'[r]) \subseteq sent'[r]
    BY <1>1, <1>3
  <2> QED BY <1>1, <1>2, <1>3, <1>4, <2>1, <2>2, <2>3, <2>4 DEF PairsInv
<1>7. KeyInv(r)'
  BY <1>0, <1>2, <1>4 DEF KeyInv
<1> QED BY <1>6, <1>7 DEF OwnInv

-----------------------------------------------------------------------------
\* A step of request r, seen from the requests: it leaves the others alone, it
\* keeps what holds of r, and of an answer it says nothing unless it gives one.
Quiet(r) ==
    /\ Only(r) /\ OwnInv(r)'
    /\ prompt[r] # <<>> /\ prompt' = prompt
    /\ pc'[r] # "done" /\ got'[r] = {}

\* A request that begins has no pairs, no key and no answer.
LEMMA BeginOwn ==
    ASSUME TypeOK, HitsGrow, NEW r \in Requests, OwnInv(r), NEW p \in Prompts, Begin(r, p)
    PROVE  Only(r) /\ OwnInv(r)' /\ sent[r] = {} /\ pc'[r] = "reading"
           /\ got'[r] = {}
<1>0. PairsInv(r) /\ KeyInv(r)
  BY DEF OwnInv
<1>1. /\ pc[r] = "idle" /\ prompt' = [prompt EXCEPT ![r] = p]
      /\ pc' = [pc EXCEPT ![r] = "reading"]
      /\ UNCHANGED <<part, fresh, fetched, sent, got, requestKey, sessionKey>>
  BY DEF Begin, masking, redis
<1>2. /\ pc'[r] = "reading" /\ prompt'[r] = p
      /\ \A u \in Requests : u # r => pc'[u] = pc[u] /\ prompt'[u] = prompt[u]
  BY <1>1 DEF TypeOK
<1>3. prompt[r] = <<>> /\ part[r] = 0 /\ ~Single(r) /\ sent[r] = {} /\ got[r] = {}
      /\ requestKey[r] = Empty
  <2>1. prompt[r] = <<>> /\ part[r] = 0 /\ got[r] = {} /\ requestKey[r] = Empty
    BY <1>0, <1>1 DEF PairsInv, KeyInv
  <2>2. Len(<<>>) = 0
    OBVIOUS
  <2>3. ~Single(r)
    BY <2>1, <2>2 DEF Single
  <2> QED BY <1>0, <2>1, <2>3 DEF PairsInv
<1>4. p # <<>>
  BY PiiAssumption
<1>5. PairsInv(r)'
  BY <1>1, <1>2, <1>3, <1>4 DEF PairsInv, OneToOne, Saving
<1>6. KeyInv(r)'
  BY <1>1, <1>2, <1>3 DEF KeyInv
<1> QED BY <1>1, <1>2, <1>3, <1>5, <1>6 DEF OwnInv, Only

\* A text without values leaves the mapping of the text before.
LEMMA MaskNothingOwn ==
    ASSUME TypeOK, HitsGrow, NEW r \in Requests, OwnInv(r), MaskNothing(r)
    PROVE  Quiet(r)
<1>0. PairsInv(r) /\ KeyInv(r)
  BY DEF OwnInv
<1>1. /\ pc[r] = "reading" /\ Advance(r)
      /\ UNCHANGED <<fresh, fetched, sent, got, requestKey, sessionKey, hit, faults>>
  BY DEF MaskNothing, masking, redis, history
<1>2. Spared({r}, {"store"})' => Spared({r}, {"store"})
  BY SparedBefore
<1>3. sent[r] # {} /\ Spared({r}, {"store"})' => requestKey'[r] = fresh[r]
  BY <1>0, <1>1, <1>2 DEF KeyInv
<1>4. Single(r) => requestKey'[r] \in {Empty, fresh[r]}
  BY <1>0, <1>1 DEF KeyInv
<1>5. Only(r) /\ OwnInv(r)' /\ pc'[r] \in {"reading", "waiting"}
  BY <1>1, <1>3, <1>4, AdvanceOwn
<1> QED BY <1>0, <1>1, <1>5, AdvanceType DEF Quiet, PairsInv

\* The SET of the request's key makes it the last mapping.
LEMMA StoreOwn ==
    ASSUME TypeOK, HitsGrow, NEW r \in Requests, OwnInv(r), Store(r)
    PROVE  Quiet(r)
<1>0. PairsInv(r) /\ KeyInv(r)
  BY DEF OwnInv
<1>1. /\ pc[r] = "storing" /\ requestKey' = [requestKey EXCEPT ![r] = fresh[r]]
      /\ pc' = [pc EXCEPT ![r] = "merging"]
      /\ UNCHANGED <<prompt, part, fresh, fetched, sent, got, sessionKey, hit, faults>>
  BY DEF Store, masking, history
<1>2. /\ pc'[r] = "merging" /\ requestKey'[r] = fresh[r]
      /\ \A u \in Requests : u # r => pc'[u] = pc[u] /\ requestKey'[u] = requestKey[u]
  BY <1>1 DEF TypeOK
<1>3. Single(r)' <=> Single(r)
  BY <1>1 DEF Single
<1>4. NumberedOnce(r)' => NumberedOnce(r)
  BY <1>1, KeptBefore
<1>5. PairsInv(r)'
  BY <1>0, <1>1, <1>2, <1>3, <1>4 DEF PairsInv, Saving
<1>6. KeyInv(r)'
  BY <1>1, <1>2 DEF KeyInv
<1> QED BY <1>0, <1>1, <1>2, <1>5, <1>6 DEF OwnInv, Only, Quiet, PairsInv

\* A SET that fails may leave either mapping, and the key is not kept.
LEMMA StoreFailsOwn ==
    ASSUME TypeOK, HitsGrow, NEW r \in Requests, OwnInv(r), StoreFails(r)
    PROVE  Quiet(r)
<1>0. PairsInv(r) /\ KeyInv(r)
  BY DEF OwnInv
<1>1. PICK m \in {requestKey[r], fresh[r]} : requestKey' = [requestKey EXCEPT ![r] = m]
  BY DEF StoreFails
<1>2. /\ pc[r] = "storing" /\ Advance(r)
      /\ UNCHANGED <<fresh, fetched, sent, got, sessionKey>>
  BY DEF StoreFails, masking
<1>3. ~Spared({r}, {"store"})'
  BY FailsHits DEF StoreFails, Failures, Spared
<1>4. /\ requestKey'[r] \in {requestKey[r], fresh[r]}
      /\ \A u \in Requests : u # r => requestKey'[u] = requestKey[u]
  BY <1>1 DEF TypeOK
<1>5. Single(r) => requestKey'[r] \in {Empty, fresh[r]}
  BY <1>0, <1>4 DEF KeyInv
<1>6. Only(r) /\ OwnInv(r)' /\ pc'[r] \in {"reading", "waiting"}
  BY <1>2, <1>3, <1>4, <1>5, AdvanceOwn DEF Saving
<1> QED BY <1>0, <1>2, <1>6, AdvanceType DEF Quiet, PairsInv

\* The GET of the session's mapping leaves the request's key.
LEMMA FetchOwn ==
    ASSUME TypeOK, HitsGrow, NEW r \in Requests, OwnInv(r), Fetch(r)
    PROVE  Quiet(r)
<1>0. PairsInv(r) /\ KeyInv(r)
  BY DEF OwnInv
<1>1. /\ pc[r] = "merging" /\ fetched' = [fetched EXCEPT ![r] = sessionKey]
      /\ pc' = [pc EXCEPT ![r] = "writing"]
      /\ UNCHANGED <<prompt, part, fresh, sent, got, requestKey, sessionKey, hit, faults>>
  BY DEF Fetch, redis, history
<1>2. /\ pc'[r] = "writing"
      /\ \A u \in Requests : u # r => pc'[u] = pc[u] /\ fetched'[u] = fetched[u]
  BY <1>1 DEF TypeOK
<1>3. Single(r)' <=> Single(r)
  BY <1>1 DEF Single
<1>4. /\ NumberedOnce(r)' => NumberedOnce(r)
      /\ Spared({r}, {"store"})' => Spared({r}, {"store"})
  BY <1>1, KeptBefore, SparedBefore
<1>5. PairsInv(r)'
  BY <1>0, <1>1, <1>2, <1>3, <1>4 DEF PairsInv, Saving
<1>6. KeyInv(r)'
  BY <1>0, <1>1, <1>2, <1>3, <1>4 DEF KeyInv
<1> QED BY <1>0, <1>1, <1>2, <1>5, <1>6 DEF OwnInv, Only, Quiet, PairsInv

\* The session's mapping is written, or not.
LEMMA MergeOwn ==
    ASSUME TypeOK, HitsGrow, NEW r \in Requests, OwnInv(r),
           pc[r] \in {"merging", "writing"}, Advance(r),
           UNCHANGED <<fresh, fetched, sent, got, requestKey>>
    PROVE  Quiet(r)
<1>0. PairsInv(r) /\ KeyInv(r)
  BY DEF OwnInv
<1>1. Spared({r}, {"store"})' => Spared({r}, {"store"})
  BY SparedBefore
<1>2. sent[r] # {} /\ Spared({r}, {"store"})' => requestKey'[r] = fresh[r]
  BY <1>0, <1>1 DEF KeyInv
<1>3. Single(r) => requestKey'[r] \in {Empty, fresh[r]}
  BY <1>0 DEF KeyInv
<1>4. Only(r) /\ OwnInv(r)' /\ pc'[r] \in {"reading", "waiting"}
  BY <1>2, <1>3, AdvanceOwn DEF Saving
<1> QED BY <1>0, <1>4, AdvanceType DEF Quiet, PairsInv

-----------------------------------------------------------------------------
(* What an orderly session keeps.                                          *)

\* The failures that keep a mapping from the session's key.
Kept == {"store", "merge"}

\* What holds of one request of the session.
Shared(r) ==
    /\ pc[r] = "writing" => fetched[r] = sessionKey
    /\ Saving(r) \/ (pc[r] = "waiting" /\ sent[r] # {}) => Agree(fresh[r], sessionKey)
    /\ ~Saving(r) /\ Spared({r}, Kept) => sent[r] \subseteq PairsOf(sessionKey)

\* The pairs of the session: those of its mapping and those sent.
SessionPairs == PairsOf(sessionKey) \cup UNION {sent[r] : r \in Requests}

\* The session's invariant, request by request.
LEMMA SessionParts ==
    SessionInv <=> /\ \A r, u \in Requests : Open(r) /\ Open(u) => r = u
                   /\ \A r \in Requests : Shared(r)
                   /\ Spared(Requests, Kept) => OneToOne(SessionPairs)
BY DEF SessionInv, Shared, SessionPairs, Kept

\* The same after a step.
LEMMA SessionPartsNext ==
    SessionInv' <=> /\ \A r, u \in Requests : Open(r)' /\ Open(u)' => r = u
                    /\ \A r \in Requests : Shared(r)'
                    /\ Spared(Requests, Kept)' => OneToOne(SessionPairs)'
BY DEF SessionInv, Shared, SessionPairs, Kept

\* What was orderly after a step was orderly before it.
LEMMA OrderlyBefore ==
    ASSUME HitsGrow, \A u \in Requests : prompt[u] # <<>> => prompt'[u] = prompt[u],
           SessionOrderly'
    PROVE  SessionOrderly
BY DEF HitsGrow, SessionOrderly, Spared, Single

\* A request that takes no part in a step that leaves the session's mapping.
LEMMA SharedFrame ==
    ASSUME HitsGrow, NEW r \in Requests, Only(r), NEW u \in Requests, u # r, Shared(u),
           UNCHANGED sessionKey
    PROVE  Shared(u)'
<1>1. /\ pc'[u] = pc[u] /\ fetched'[u] = fetched[u] /\ sent'[u] = sent[u]
      /\ fresh'[u] = fresh[u]
  BY DEF Only
<1>2. Saving(u)' <=> Saving(u)
  BY <1>1 DEF Saving
<1>3. Spared({u}, Kept)' => Spared({u}, Kept)
  BY SparedBefore DEF Kept
<1>4. (Agree(fresh[u], sessionKey) => Agree(fresh'[u], sessionKey'))
      /\ PairsOf(sessionKey') = PairsOf(sessionKey)
  BY <1>1
<1> QED BY <1>1, <1>2, <1>3, <1>4 DEF Shared

\* A step that replaces nothing and leaves the session's mapping.
LEMMA SessionFrame ==
    ASSUME HitsGrow, SessionInv, NEW r \in Requests, Only(r),
           UNCHANGED <<sessionKey, sent>>, Open(r)' => Open(r), Shared(r)'
    PROVE  SessionInv'
<1>1. \A u, w \in Requests : Open(u)' /\ Open(w)' => u = w
  BY SessionParts DEF Only, Open
<1>2. \A u \in Requests : Shared(u)'
  BY SessionParts, SharedFrame
<1>3. Spared(Requests, Kept)' => Spared(Requests, Kept)
  BY SparedBefore DEF Kept
<1>4. SessionPairs' = SessionPairs
  BY DEF SessionPairs, PairsOf
<1>5. Spared(Requests, Kept)' => OneToOne(SessionPairs)'
  <2>1. Spared(Requests, Kept) => OneToOne(SessionPairs)
    BY SessionParts
  <2> QED BY <1>3, <1>4, <2>1
<1> QED BY <1>1, <1>2, <1>5, SessionPartsNext

\* The first step of a request, when no other is open.
LEMMA BeginSession ==
    ASSUME TypeOK, HitsGrow, SessionInv, NEW r \in Requests, OwnInv(r),
           NEW p \in Prompts, Begin(r, p), SessionOrderly'
    PROVE  SessionInv'
<1> DEFINE others == {u \in Requests : Open(u)}
<1>1. /\ pc[r] = "idle"
      /\ hit' = [u \in Requests |-> IF others # {} /\ u \in others \cup {r}
                                    THEN hit[u] \cup {"overlap"} ELSE hit[u]]
      /\ UNCHANGED <<fresh, fetched, sent, sessionKey>>
  BY DEF Begin, masking, redis
<1>2. others = {}
  <2> SUFFICES ASSUME others # {} PROVE FALSE
    OBVIOUS
  <2>1. hit'[r] = hit[r] \cup {"overlap"}
    BY <1>1
  <2>2. "overlap" \notin hit'[r]
    BY DEF SessionOrderly, Spared
  <2> QED BY <2>1, <2>2
<1>3. Only(r) /\ sent[r] = {} /\ pc'[r] = "reading"
  BY BeginOwn
<1>4. \A u, w \in Requests : Open(u)' /\ Open(w)' => u = w
  BY <1>2, <1>3 DEF Only, Open
<1>5. Shared(r)'
  BY <1>1, <1>3 DEF Shared, Saving
<1>6. \A u \in Requests : Shared(u)'
  BY <1>1, <1>3, <1>5, SessionParts, SharedFrame
<1>7. Spared(Requests, Kept)' => Spared(Requests, Kept)
  BY SparedBefore DEF Kept
<1>8. SessionPairs' = SessionPairs
  BY <1>1 DEF SessionPairs, PairsOf
<1>9. Spared(Requests, Kept)' => OneToOne(SessionPairs)'
  <2>1. Spared(Requests, Kept) => OneToOne(SessionPairs)
    BY SessionParts
  <2> QED BY <1>7, <1>8, <2>1
<1> QED BY <1>4, <1>6, <1>9, SessionPartsNext

\* A request of an orderly session continues the numbers of the session.
LEMMA ReadSession ==
    ASSUME TypeOK, HitsGrow, SessionInv, SessionOrderly, NEW r \in Requests, OwnInv(r),
           pc[r] = "reading", NEW a, Numbered(r, Lookup(r), a)
    PROVE  SessionInv'
<1>0. PairsInv(r) /\ KeyInv(r)
  BY DEF OwnInv
<1>1. Single(r) /\ Lookup(r) = sessionKey /\ Open(r) /\ sent[r] = {}
  BY <1>0 DEF SessionOrderly, PairsInv, KeyInv, Lookup, Open
<1>2. sessionKey \in Mappings /\ Lookup(r) \in Mappings
  BY <1>1 DEF TypeOK
<1>3. a \in Numberings(sessionKey, Text(r))
  BY <1>1 DEF Numbered
<1>4. /\ pc'[r] = "storing" /\ fresh'[r] = Inverted(a) /\ sessionKey' = sessionKey
      /\ Only(r)
  BY DEF Numbered
<1>5. sent'[r] = Pairs(a)
  BY <1>1 DEF Numbered, LastText
<1>6. Shared(r)'
  <2>1. Agree(fresh'[r], sessionKey')
    BY <1>2, <1>3, <1>4, NumberingAgrees
  <2> QED BY <1>4, <2>1 DEF Shared, Saving
<1>7. \A u \in Requests : Shared(u)'
  BY <1>4, <1>6, SessionParts, SharedFrame
<1>8. \A u, w \in Requests : Open(u)' /\ Open(w)' => u = w
  BY <1>1, <1>4, SessionParts DEF Only, Open
<1>9. ASSUME Spared(Requests, Kept)' PROVE OneToOne(SessionPairs)'
  <2>1. Spared(Requests, Kept)
    BY <1>9, SparedBefore DEF Kept
  <2>2. ASSUME NEW u \in Requests, u # r PROVE sent'[u] \subseteq PairsOf(sessionKey)
    <3>1. ~Saving(u)
      BY <1>1, <2>2, SessionParts DEF Open, Saving
    <3>2. Spared({u}, Kept)
      BY <2>1 DEF Spared
    <3>3. sent[u] \subseteq PairsOf(sessionKey)
      BY <3>1, <3>2, SessionParts DEF Shared
    <3> QED BY <1>4, <2>2, <3>3 DEF Only
  <2>3. OneToOne(PairsOf(sessionKey))
    <3>1. OneToOne(SessionPairs)
      BY <2>1, SessionParts
    <3>2. PairsOf(sessionKey) \subseteq SessionPairs
      BY DEF SessionPairs
    <3> QED BY <3>1, <3>2, OneToOnePart
  <2>4. OneToOne(PairsOf(sessionKey) \cup Pairs(a))
    BY <1>2, <1>3, <2>3, NumberingExtends
  <2>5. UNION {sent'[u] : u \in Requests} \subseteq PairsOf(sessionKey) \cup Pairs(a)
    BY <1>5, <2>2
  <2>6. SessionPairs' \subseteq PairsOf(sessionKey) \cup Pairs(a)
    BY <1>4, <2>5 DEF SessionPairs
  <2> QED BY <2>4, <2>6, OneToOnePart
<1> QED BY <1>7, <1>8, <1>9, SessionPartsNext

\* A request of an orderly session adds its placeholders to the session's.
LEMMA WriteSession ==
    ASSUME TypeOK, HitsGrow, SessionInv, SessionOrderly, NEW r \in Requests, OwnInv(r),
           pc[r] = "writing", Quiet(r), pc'[r] \in {"reading", "waiting"},
           sessionKey' = Merged(fresh[r], fetched[r]),
           UNCHANGED <<fresh, fetched, sent>>
    PROVE  SessionInv'
<1>0. PairsInv(r) /\ Only(r) /\ Saving(r)
  BY DEF OwnInv, Quiet, Saving
<1>1. Single(r) /\ Open(r) /\ sent[r] = PairsOf(fresh[r])
  BY <1>0 DEF SessionOrderly, PairsInv, Open
<1>2. /\ fresh[r] \in Mappings /\ sessionKey \in Mappings
      /\ fetched[r] = sessionKey /\ Agree(fresh[r], sessionKey)
  BY <1>0, SessionParts DEF Shared, TypeOK
<1>3. /\ PairsOf(sessionKey') = PairsOf(fresh[r]) \cup PairsOf(sessionKey)
      /\ Agree(fresh[r], sessionKey')
  BY <1>2, MergedPairs
<1>4. \A u, w \in Requests : Open(u)' /\ Open(w)' => u = w
  BY <1>0, <1>1, SessionParts DEF Only, Open
<1>5. Shared(r)'
  BY <1>1, <1>3 DEF Shared, Saving
<1>6. ASSUME NEW u \in Requests, u # r PROVE Shared(u)'
  <2>1. ~Open(u) /\ pc'[u] = pc[u] /\ sent'[u] = sent[u]
    BY <1>0, <1>1, <1>6, SessionParts DEF Only
  <2>2. ~Saving(u) /\ ~Saving(u)' /\ pc'[u] \notin {"writing", "waiting"}
    BY <2>1 DEF Open, Saving
  <2>3. Spared({u}, Kept)' => Spared({u}, Kept)
    BY SparedBefore DEF Kept
  <2>4. Spared({u}, Kept)' => sent'[u] \subseteq PairsOf(sessionKey')
    BY <1>3, <2>1, <2>2, <2>3, SessionParts DEF Shared
  <2> QED BY <2>2, <2>4 DEF Shared
<1>7. SessionPairs' \subseteq SessionPairs
  BY <1>1, <1>3 DEF SessionPairs
<1>8. ASSUME Spared(Requests, Kept)' PROVE OneToOne(SessionPairs)'
  <2>1. Spared(Requests, Kept)
    BY <1>8, SparedBefore DEF Kept
  <2>2. OneToOne(SessionPairs)
    BY <2>1, SessionParts
  <2> QED BY <1>7, <2>2, OneToOnePart
<1> QED BY <1>4, <1>5, <1>6, <1>8, SessionPartsNext

-----------------------------------------------------------------------------
(* Answers, and the invariant.                                             *)

\* An answer stays right: nothing that could make it owe more comes back.
LEMMA AnswersKept ==
    ASSUME HitsGrow, NeverForeign, AllRestored, NEW r \in Requests, Only(r),
           pc'[r] # "done", got'[r] = {}, SessionOrderly' => SessionOrderly
    PROVE  NeverForeign' /\ AllRestored'
<1>1. ASSUME NEW u \in Requests, u # r
      PROVE  /\ pc'[u] = pc[u] /\ got'[u] = got[u] /\ sent'[u] = sent[u]
             /\ Single(u)' <=> Single(u)
             /\ KeyKept(u)' => KeyKept(u)
             /\ NumberedOnce(u)' => NumberedOnce(u)
             /\ Spared({u}, {"store", "merge"})' => Spared({u}, {"store", "merge"})
  BY <1>1, KeptBefore, SparedBefore DEF Only, Single
<1>2. NeverForeign'
  BY <1>1 DEF NeverForeign
<1>3. AllRestored'
  BY <1>1 DEF AllRestored
<1> QED BY <1>2, <1>3

\* The parts of the invariant.
LEMMA MaskingParts ==
    ASSUME MaskingInv
    PROVE  /\ \A r \in Requests : OwnInv(r)
           /\ SessionOrderly => SessionInv
           /\ NeverForeign /\ AllRestored
BY DEF MaskingInv, OwnInv

\* A step that gives no answer.
LEMMA QuietStep ==
    ASSUME TypeOK, MaskingInv, HitsGrow, NEW r \in Requests, Quiet(r),
           SessionOrderly' /\ SessionOrderly /\ SessionInv => SessionInv'
    PROVE  MaskingInv'
<1>1. SessionOrderly' => SessionOrderly
  BY OrderlyBefore DEF Quiet
<1>2. \A u \in Requests : OwnInv(u)'
  BY MaskingParts, OthersKeep DEF Quiet
<1>3. SessionOrderly' => SessionInv'
  BY <1>1, MaskingParts
<1>4. NeverForeign' /\ AllRestored'
  BY <1>1, MaskingParts, AnswersKept DEF Quiet
<1> QED BY <1>2, <1>3, <1>4 DEF MaskingInv, OwnInv

\* Numbering is a step of one request, without an answer.
LEMMA NumberQuiet ==
    ASSUME MaskerRedis, TypeOK, HitsGrow, NEW r \in Requests, OwnInv(r), pc[r] = "reading",
           Occurring(Text(r)) # {}, NEW known \in Mappings, Number(r, known),
           Spared({r}, {"read"})' => known = Lookup(r)
    PROVE  Quiet(r) /\ \E a : Numbered(r, known, a)
<1>1. PICK a \in Numberings(known, Text(r)) : Numbered(r, known, a)
  BY NumberChosen
<1>2. OwnInv(r)'
  BY <1>1, NumberOwn
<1>3. prompt[r] # <<>> /\ got[r] = {}
  BY DEF OwnInv, PairsInv
<1> QED BY <1>1, <1>2, <1>3 DEF Quiet, Numbered

\* What restore() or the stream's replacement makes of a mapping.
Answer(r, mapping) ==
    {<<pair[2], mapping[pair[1]]>> : pair \in {q \in sent[r] : q[1] \in DOMAIN mapping}}

\* A mapping that has no other value for a placeholder of the request replaces
\* none by another value, and one that has them all restores them.
LEMMA AnswerRight ==
    ASSUME NEW r, NEW mapping
    PROVE  /\ (\A q \in sent[r] : q[1] \in DOMAIN mapping => mapping[q[1]] = q[2]) =>
                 \A pair \in Answer(r, mapping) : pair[1] = pair[2]
           /\ sent[r] \subseteq PairsOf(mapping) =>
                 \A pair \in sent[r] : <<pair[2], pair[2]>> \in Answer(r, mapping)
<1>1. ASSUME \A q \in sent[r] : q[1] \in DOMAIN mapping => mapping[q[1]] = q[2],
             NEW pair \in Answer(r, mapping)
      PROVE  pair[1] = pair[2]
  BY <1>1 DEF Answer
<1>2. ASSUME sent[r] \subseteq PairsOf(mapping), NEW pair \in sent[r]
      PROVE  <<pair[2], pair[2]>> \in Answer(r, mapping)
  <2>1. PICK n \in DOMAIN mapping : pair = <<n, mapping[n]>>
    BY <1>2 DEF PairsOf
  <2> QED BY <1>2, <2>1 DEF Answer
<1> QED BY <1>1, <1>2

\* The mapping a request finds has its placeholders right: its own key is its
\* last mapping, and the session's agrees with it.
LEMMA LookupRight ==
    ASSUME TypeOK, MaskingInv, NEW r \in Requests, pc[r] = "waiting"
    PROVE  /\ (KeyKept(r) /\ NumberedOnce(r)) \/ SessionOrderly =>
                 \A q \in sent[r] : q[1] \in DOMAIN Lookup(r) => Lookup(r)[q[1]] = q[2]
           /\ Single(r) /\ (KeyKept(r) \/ (SessionOrderly /\ Spared({r}, {"store", "merge"}))) =>
                 sent[r] \subseteq PairsOf(Lookup(r))
<1>0. PairsInv(r) /\ KeyInv(r)
  BY MaskingParts DEF OwnInv
<1>1. CASE sent[r] = {}
  BY <1>1
<1>2. CASE sent[r] # {}
  <2>1. fresh[r] # Empty /\ PairsOf(fresh[r]) \subseteq sent[r]
    BY <1>0, <1>2 DEF PairsInv
  <2>2. requestKey[r] = fresh[r] => Lookup(r) = fresh[r]
    BY <2>1 DEF Lookup
  <2>3. KeyKept(r) => Lookup(r) = fresh[r]
    BY <1>0, <1>2, <2>2 DEF KeyInv
  <2>4. Single(r) => sent[r] = PairsOf(fresh[r])
    BY <1>0, <1>2 DEF PairsInv
  <2>5. sent[r] = PairsOf(fresh[r]) =>
          \A q \in sent[r] : q[1] \in DOMAIN fresh[r] /\ fresh[r][q[1]] = q[2]
    BY DEF PairsOf
  <2>6. SessionOrderly => Single(r) /\ SessionInv
    BY <1>0, MaskingParts DEF SessionOrderly, PairsInv
  <2>7. Single(r) => Lookup(r) = fresh[r] \/ (requestKey[r] = Empty /\ Lookup(r) = sessionKey)
    BY <1>0, <2>2 DEF KeyInv, Lookup
  <2>8. ASSUME KeyKept(r), NumberedOnce(r), NEW q \in sent[r], q[1] \in DOMAIN Lookup(r)
        PROVE  Lookup(r)[q[1]] = q[2]
    <3>1. OneToOne(sent[r])
      BY <1>0, <2>8 DEF PairsInv
    <3>2. <<q[1], fresh[r][q[1]]>> \in sent[r]
      BY <2>1, <2>3, <2>8 DEF PairsOf
    <3> DEFINE w == fresh[r][q[1]]
    <3>3. <<q[1], w>>[1] = q[1] /\ <<q[1], w>>[2] = w
      OBVIOUS
    <3>4. w = q[2]
      BY <3>1, <3>2, <3>3, <2>8 DEF OneToOne
    <3> QED BY <2>3, <2>8, <3>4
  <2>9. ASSUME SessionOrderly, NEW q \in sent[r], q[1] \in DOMAIN Lookup(r)
        PROVE  Lookup(r)[q[1]] = q[2]
    <3>1. q[1] \in DOMAIN fresh[r] /\ fresh[r][q[1]] = q[2]
      BY <2>4, <2>5, <2>6, <2>9
    <3>2. Agree(fresh[r], sessionKey)
      BY <1>2, <2>6, <2>9, SessionParts DEF Shared
    <3> QED BY <2>6, <2>7, <2>9, <3>1, <3>2 DEF Agree
  <2>10. ASSUME Single(r), KeyKept(r) PROVE sent[r] \subseteq PairsOf(Lookup(r))
    BY <2>3, <2>4, <2>10
  <2>11. ASSUME SessionOrderly, Spared({r}, {"store", "merge"})
         PROVE  sent[r] \subseteq PairsOf(Lookup(r))
    <3>1. sent[r] \subseteq PairsOf(sessionKey)
      BY <2>6, <2>11, SessionParts DEF Shared, Saving, Kept
    <3> QED BY <2>4, <2>6, <2>7, <2>11, <3>1
  <2> QED BY <2>8, <2>9, <2>10, <2>11
<1> QED BY <1>1, <1>2

\* restore(), or get_mapping() for a stream.
LEMMA RestoreStep ==
    ASSUME TypeOK, MaskingInv, HitsGrow, NEW r \in Requests, Restore(r) PROVE MaskingInv'
<1> DEFINE result == Answer(r, Lookup(r))
<1>1. /\ pc[r] = "waiting"
      /\ got' = [got EXCEPT ![r] = result] /\ pc' = [pc EXCEPT ![r] = "done"]
      /\ UNCHANGED <<prompt, part, fresh, fetched, sent, requestKey, sessionKey, hit, faults>>
  BY DEF Restore, masking, redis, history, Answer
<1> HIDE DEF result
<1>2. /\ got'[r] = result /\ pc'[r] = "done"
      /\ \A u \in Requests : u # r => got'[u] = got[u] /\ pc'[u] = pc[u]
  BY <1>1 DEF TypeOK
<1>3. Only(r)
  BY <1>1, <1>2 DEF Only
<1>4. OwnInv(r)'
  BY <1>1, <1>2, MaskingParts, WaitingOwn
<1>5. \A u \in Requests : OwnInv(u)'
  BY <1>3, <1>4, MaskingParts, OthersKeep
<1>6. /\ SessionOrderly' <=> SessionOrderly
      /\ \A u \in Requests : /\ Single(u)' <=> Single(u)
                             /\ KeyKept(u)' <=> KeyKept(u)
                             /\ NumberedOnce(u)' <=> NumberedOnce(u)
                             /\ Spared({u}, {"store", "merge"})' <=> Spared({u}, {"store", "merge"})
  BY <1>1 DEF SessionOrderly, Single, Spared, KeyKept, NumberedOnce
<1>7. SessionOrderly' => SessionInv'
  <2> SUFFICES ASSUME SessionOrderly' PROVE SessionInv'
    OBVIOUS
  <2>1. SessionInv
    BY <1>6, MaskingParts
  <2>2. Spared({r}, Kept)' => Spared({r}, Kept)
    BY SparedBefore DEF Kept
  <2>3. Shared(r)'
    BY <1>1, <1>2, <2>1, <2>2, SessionParts DEF Shared, Saving
  <2> QED BY <1>1, <1>2, <1>3, <2>1, <2>3, SessionFrame DEF Open
<1>8. /\ (KeyKept(r) /\ NumberedOnce(r)) \/ SessionOrderly =>
            \A pair \in result : pair[1] = pair[2]
      /\ Single(r) /\ (KeyKept(r) \/ (SessionOrderly /\ Spared({r}, {"store", "merge"}))) =>
            \A pair \in sent[r] : <<pair[2], pair[2]>> \in result
  BY <1>1, LookupRight, AnswerRight DEF result
<1>9. NeverForeign'
  <2>1. ASSUME NEW u \in Requests, (KeyKept(u)' /\ NumberedOnce(u)') \/ SessionOrderly'
        PROVE  \A pair \in got'[u] : pair[1] = pair[2]
    BY <1>2, <1>6, <1>8, <2>1, MaskingParts DEF NeverForeign
  <2> QED BY <2>1 DEF NeverForeign
<1>10. AllRestored'
  <2>1. ASSUME NEW u \in Requests, pc'[u] = "done", Single(u)',
               KeyKept(u)' \/ (SessionOrderly' /\ Spared({u}, {"store", "merge"})')
        PROVE  \A pair \in sent'[u] : <<pair[2], pair[2]>> \in got'[u]
    BY <1>1, <1>2, <1>6, <1>8, <2>1, MaskingParts DEF AllRestored
  <2> QED BY <2>1 DEF AllRestored
<1> QED BY <1>5, <1>7, <1>9, <1>10 DEF MaskingInv, OwnInv

\* The first step of a request keeps the invariant.
LEMMA BeginStep ==
    ASSUME TypeOK, MaskingInv, NEW r \in Requests, NEW p \in Prompts, Begin(r, p)
    PROVE  MaskingInv'
<1>1. HitsGrow /\ OwnInv(r)
  BY BeginHits, MaskingParts
<1>2. Only(r) /\ OwnInv(r)' /\ pc'[r] = "reading" /\ got'[r] = {}
  BY <1>1, BeginOwn
<1>3. pc[r] = "idle" /\ prompt[r] = <<>>
  BY <1>1 DEF Begin, OwnInv, PairsInv
<1>4. \A u \in Requests : prompt[u] # <<>> => prompt'[u] = prompt[u]
  BY <1>2, <1>3 DEF Only
<1>5. SessionOrderly' => SessionOrderly
  BY <1>1, <1>4, OrderlyBefore
<1>6. \A u \in Requests : OwnInv(u)'
  BY <1>1, <1>2, MaskingParts, OthersKeep
<1>7. SessionOrderly' => SessionInv'
  BY <1>1, <1>5, MaskingParts, BeginSession
<1>8. NeverForeign' /\ AllRestored'
  BY <1>1, <1>2, <1>5, MaskingParts, AnswersKept
<1> QED BY <1>6, <1>7, <1>8 DEF MaskingInv, OwnInv

\* A text without values.
LEMMA MaskNothingStep ==
    ASSUME TypeOK, MaskingInv, NEW r \in Requests, MaskNothing(r) PROVE MaskingInv'
<1>1. HitsGrow /\ OwnInv(r)
  BY SameHits, MaskingParts DEF MaskNothing
<1>2. Quiet(r)
  BY <1>1, MaskNothingOwn
<1>3. pc[r] = "reading" /\ UNCHANGED <<fresh, fetched, sent, got, sessionKey>> /\ Advance(r)
  BY DEF MaskNothing, masking, redis
<1>4. pc'[r] \in {"reading", "waiting"}
  BY <1>3, AdvanceType
<1>5. ASSUME SessionOrderly, SessionInv PROVE SessionInv'
  <2>1. sent[r] = {}
    BY <1>1, <1>3, <1>5 DEF OwnInv, PairsInv, SessionOrderly
  <2>2. Shared(r)'
    BY <1>3, <1>4, <2>1 DEF Shared, Saving
  <2>3. Open(r)
    BY <1>3 DEF Open
  <2> QED BY <1>1, <1>2, <1>3, <1>5, <2>2, <2>3, SessionFrame DEF Quiet
<1> QED BY <1>1, <1>2, <1>5, QuietStep

\* The mapping is read and continued.
LEMMA ReadStep ==
    ASSUME MaskerRedis, TypeOK, MaskingInv, NEW r \in Requests, Read(r) PROVE MaskingInv'
<1>1. HitsGrow /\ OwnInv(r)
  BY SameHits, MaskingParts DEF Read
<1>2. pc[r] = "reading" /\ Occurring(Text(r)) # {} /\ Number(r, Lookup(r))
  BY DEF Read
<1>3. Lookup(r) \in Mappings
  BY LookupType
<1>4. Quiet(r)
  BY <1>1, <1>2, <1>3, NumberQuiet
<1>5. PICK a : Numbered(r, Lookup(r), a)
  BY <1>1, <1>2, <1>3, NumberQuiet
<1>6. SessionOrderly /\ SessionInv => SessionInv'
  BY <1>1, <1>2, <1>5, ReadSession
<1> QED BY <1>1, <1>4, <1>6, QuietStep

\* The mapping cannot be read: the counters start at 1 again.
LEMMA ReadFailsStep ==
    ASSUME TypeOK, MaskingInv, NEW r \in Requests, ReadFails(r) PROVE MaskingInv'
<1>1. HitsGrow /\ OwnInv(r) /\ "read" \in hit'[r]
  BY FailsHits, MaskingParts DEF ReadFails, Failures
<1>2. ~Spared({r}, {"read"})' /\ ~SessionOrderly'
  BY <1>1 DEF Spared, SessionOrderly
<1>3. Quiet(r)
  BY <1>1, <1>2, EmptyType, NumberQuiet DEF ReadFails
<1> QED BY <1>1, <1>2, <1>3, QuietStep

\* The SET of the request's key.
LEMMA StoreStep ==
    ASSUME TypeOK, MaskingInv, NEW r \in Requests, Store(r) PROVE MaskingInv'
<1>1. HitsGrow /\ OwnInv(r)
  BY SameHits, MaskingParts DEF Store, history
<1>2. Quiet(r)
  BY <1>1, StoreOwn
<1>3. pc[r] = "storing" /\ pc'[r] = "merging"
      /\ UNCHANGED <<fresh, fetched, sent, got, sessionKey>>
  BY DEF Store, masking, TypeOK
<1>4. ASSUME SessionInv PROVE SessionInv'
  <2>1. Shared(r)'
    BY <1>3, <1>4, SessionParts DEF Shared, Saving
  <2>2. Open(r)
    BY <1>3 DEF Open
  <2> QED BY <1>1, <1>2, <1>3, <1>4, <2>1, <2>2, SessionFrame DEF Quiet
<1> QED BY <1>1, <1>2, <1>4, QuietStep

\* It fails: the session's mapping is not written either.
LEMMA StoreFailsStep ==
    ASSUME TypeOK, MaskingInv, NEW r \in Requests, StoreFails(r) PROVE MaskingInv'
<1>1. HitsGrow /\ OwnInv(r) /\ "store" \in hit'[r]
  BY FailsHits, MaskingParts DEF StoreFails, Failures
<1>2. Quiet(r)
  BY <1>1, StoreFailsOwn
<1>3. pc[r] = "storing" /\ UNCHANGED <<fresh, fetched, sent, got, sessionKey>> /\ Advance(r)
  BY DEF StoreFails, masking
<1>4. pc'[r] \in {"reading", "waiting"}
  BY <1>3, AdvanceType
<1>5. ASSUME SessionInv PROVE SessionInv'
  <2>1. ~Spared({r}, Kept)'
    BY <1>1 DEF Spared, Kept
  <2>2. Agree(fresh[r], sessionKey)
    BY <1>3, <1>5, SessionParts DEF Shared, Saving
  <2>3. Shared(r)'
    BY <1>3, <1>4, <2>1, <2>2 DEF Shared, Saving
  <2>4. Open(r)
    BY <1>3 DEF Open
  <2> QED BY <1>1, <1>2, <1>3, <1>5, <2>3, <2>4, SessionFrame DEF Quiet
<1> QED BY <1>1, <1>2, <1>5, QuietStep

\* The GET of the session's mapping.
LEMMA FetchStep ==
    ASSUME TypeOK, MaskingInv, NEW r \in Requests, Fetch(r) PROVE MaskingInv'
<1>1. HitsGrow /\ OwnInv(r)
  BY SameHits, MaskingParts DEF Fetch, history
<1>2. Quiet(r)
  BY <1>1, FetchOwn
<1>3. /\ pc[r] = "merging" /\ pc'[r] = "writing" /\ fetched'[r] = sessionKey
      /\ UNCHANGED <<fresh, sent, got, sessionKey>>
  BY DEF Fetch, redis, TypeOK
<1>4. ASSUME SessionInv PROVE SessionInv'
  <2>1. Shared(r)'
    BY <1>3, <1>4, SessionParts DEF Shared, Saving
  <2>2. Open(r)
    BY <1>3 DEF Open
  <2> QED BY <1>1, <1>2, <1>3, <1>4, <2>1, <2>2, SessionFrame DEF Quiet
<1> QED BY <1>1, <1>2, <1>4, QuietStep

\* Its SET.
LEMMA WriteStep ==
    ASSUME TypeOK, MaskingInv, NEW r \in Requests, Write(r) PROVE MaskingInv'
<1>1. HitsGrow /\ OwnInv(r)
  BY SameHits, MaskingParts DEF Write, history
<1>2. /\ pc[r] = "writing" /\ sessionKey' = Merged(fresh[r], fetched[r]) /\ Advance(r)
      /\ UNCHANGED <<fresh, fetched, sent, got, requestKey>>
  BY DEF Write, masking
<1>3. Quiet(r)
  BY <1>1, <1>2, MergeOwn
<1>4. pc'[r] \in {"reading", "waiting"}
  BY <1>2, AdvanceType
<1>5. SessionOrderly /\ SessionInv => SessionInv'
  BY <1>1, <1>2, <1>3, <1>4, WriteSession
<1> QED BY <1>1, <1>3, <1>5, QuietStep

\* One of the two fails, though the SET may have been executed.
LEMMA MergeFailsStep ==
    ASSUME TypeOK, MaskingInv, NEW r \in Requests, MergeFails(r) PROVE MaskingInv'
<1>1. HitsGrow /\ OwnInv(r) /\ "merge" \in hit'[r]
  BY FailsHits, MaskingParts DEF MergeFails, Failures
<1>2. /\ pc[r] \in {"merging", "writing"} /\ Advance(r)
      /\ UNCHANGED <<fresh, fetched, sent, got, requestKey>>
  BY DEF MergeFails, masking
<1>3. Quiet(r)
  BY <1>1, <1>2, MergeOwn
<1>4. pc'[r] \in {"reading", "waiting"}
  BY <1>2, AdvanceType
<1>5. ASSUME SessionOrderly, SessionInv PROVE SessionInv'
  <2>1. CASE UNCHANGED sessionKey
    <3>1. ~Spared({r}, Kept)'
      BY <1>1 DEF Spared, Kept
    <3>2. Agree(fresh[r], sessionKey)
      BY <1>2, <1>5, SessionParts DEF Shared, Saving
    <3>3. Shared(r)'
      BY <1>2, <1>4, <2>1, <3>1, <3>2 DEF Shared, Saving
    <3>4. Open(r)
      BY <1>2 DEF Open
    <3> QED BY <1>1, <1>2, <1>3, <1>5, <2>1, <3>3, <3>4, SessionFrame DEF Quiet
  <2>2. CASE pc[r] = "writing" /\ sessionKey' = Merged(fresh[r], fetched[r])
    BY <1>1, <1>2, <1>3, <1>4, <1>5, <2>2, WriteSession
  <2> QED BY <2>1, <2>2 DEF MergeFails
<1> QED BY <1>1, <1>3, <1>5, QuietStep

\* What a waiting request has still holds when it loses its key or its answer.
LEMMA WaitingStep ==
    ASSUME TypeOK, MaskingInv, HitsGrow, NEW r \in Requests, pc[r] = "waiting",
           Only(r), pc'[r] \in {"waiting", "lost"},
           UNCHANGED <<prompt, part, fresh, fetched, sent, got, sessionKey>>,
           requestKey'[r] = requestKey[r] \/ (requestKey'[r] = Empty /\ ~KeyKept(r)')
    PROVE  MaskingInv'
<1>1. OwnInv(r)'
  BY MaskingParts, WaitingOwn
<1>2. Quiet(r)
  BY <1>1, MaskingParts DEF Quiet, OwnInv, PairsInv
<1>3. ASSUME SessionInv PROVE SessionInv'
  <2>1. Spared({r}, Kept)' => Spared({r}, Kept)
    BY SparedBefore DEF Kept
  <2>2. Shared(r)'
    BY <1>3, <2>1, SessionParts DEF Shared, Saving
  <2>3. Open(r)
    BY DEF Open
  <2> QED BY <1>3, <2>2, <2>3, SessionFrame
<1> QED BY <1>2, <1>3, QuietStep

\* restore() fails.
LEMMA RestoreFailsStep ==
    ASSUME TypeOK, MaskingInv, NEW r \in Requests, RestoreFails(r) PROVE MaskingInv'
<1>1. HitsGrow
  BY FailsHits DEF RestoreFails, Failures
<1>2. /\ pc[r] = "waiting" /\ pc' = [pc EXCEPT ![r] = "lost"]
      /\ UNCHANGED <<prompt, part, fresh, fetched, sent, got, requestKey, sessionKey>>
  BY DEF RestoreFails, masking, redis
<1>3. pc'[r] = "lost" /\ \A u \in Requests : u # r => pc'[u] = pc[u]
  BY <1>2 DEF TypeOK
<1>4. Only(r)
  BY <1>2, <1>3 DEF Only
<1> QED BY <1>1, <1>2, <1>3, <1>4, WaitingStep

\* The request's key expires.
LEMMA ExpireRequestStep ==
    ASSUME TypeOK, MaskingInv, NEW r \in Requests, ExpireRequest(r) PROVE MaskingInv'
<1>1. HitsGrow /\ "expire_request" \in hit'[r]
  BY FailsHits DEF ExpireRequest, Failures
<1>2. /\ pc[r] = "waiting" /\ requestKey' = [requestKey EXCEPT ![r] = Empty]
      /\ UNCHANGED <<pc, prompt, part, fresh, fetched, sent, got, sessionKey>>
  BY DEF ExpireRequest, progress, masking
<1>3. requestKey'[r] = Empty /\ \A u \in Requests : u # r => requestKey'[u] = requestKey[u]
  BY <1>2 DEF TypeOK
<1>4. Only(r) /\ ~KeyKept(r)'
  BY <1>1, <1>2, <1>3 DEF Only, KeyKept, Spared
<1> QED BY <1>1, <1>2, <1>3, <1>4, WaitingStep

\* The session's mapping expires, or nothing happens.
LEMMA NobodyStep ==
    ASSUME MaskingInv, HitsGrow,
           UNCHANGED <<pc, prompt, part, fresh, fetched, sent, got, requestKey>>,
           SessionOrderly' => SessionInv'
    PROVE  MaskingInv'
<1>1. \A u \in Requests : OwnInv(u)'
  BY MaskingParts, OwnFrame
<1>2. SessionOrderly' => SessionOrderly
  BY OrderlyBefore
<1>3. \A u \in Requests : /\ Single(u)' <=> Single(u)
                          /\ KeyKept(u)' => KeyKept(u)
                          /\ NumberedOnce(u)' => NumberedOnce(u)
                          /\ Spared({u}, {"store", "merge"})' => Spared({u}, {"store", "merge"})
  BY KeptBefore, SparedBefore DEF Single
<1>4. NeverForeign'
  BY <1>2, <1>3, MaskingParts DEF NeverForeign
<1>5. AllRestored'
  BY <1>2, <1>3, MaskingParts DEF AllRestored
<1> QED BY <1>1, <1>4, <1>5 DEF MaskingInv, OwnInv

\* The session's key expires: no session with requests is orderly then.
LEMMA ExpireSessionStep ==
    ASSUME TypeOK, MaskingInv, ExpireSession PROVE MaskingInv'
<1>1. HitsGrow /\ \A r \in Requests : "expire_session" \in hit'[r]
  BY FailsHits DEF ExpireSession, Failures
<1>2. /\ sessionKey' = Empty
      /\ UNCHANGED <<pc, prompt, part, fresh, fetched, sent, got, requestKey>>
  BY DEF ExpireSession, progress, masking
<1>3. SessionOrderly' => Requests = {}
  BY <1>1 DEF SessionOrderly, Spared
<1>4. Requests = {} => SessionInv'
  <2> SUFFICES ASSUME Requests = {} PROVE SessionInv'
    OBVIOUS
  <2>1. PairsOf(Empty) = {}
    BY DEF PairsOf, Empty
  <2>2. SessionPairs' = {}
    BY <1>2, <2>1 DEF SessionPairs
  <2>3. OneToOne(SessionPairs)'
    BY <2>2 DEF OneToOne
  <2> QED BY <2>3, SessionPartsNext
<1> QED BY <1>1, <1>2, <1>3, <1>4, NobodyStep

\* Nothing happens.
LEMMA StutterStep ==
    ASSUME TypeOK, MaskingInv, UNCHANGED vars PROVE MaskingInv'
<1>1. /\ UNCHANGED <<pc, prompt, part, fresh, fetched, sent, got, requestKey, sessionKey>>
      /\ UNCHANGED history
  BY DEF vars, progress, masking, redis, history
<1>2. HitsGrow
  BY <1>1, SameHits
<1>3. SessionOrderly' => SessionInv'
  BY <1>1, MaskingParts
     DEF history, SessionOrderly, SessionInv, Single, Spared, Open, Saving, PairsOf
<1> QED BY <1>1, <1>2, <1>3, NobodyStep

\* At the start.
LEMMA InitMasking == ASSUME Init PROVE MaskingInv
<1>0. Len(<<>>) = 0
  OBVIOUS
<1>1. ASSUME NEW r \in Requests PROVE PairsInv(r)
  BY <1>0 DEF Init, PairsInv, Single, Saving, OneToOne
<1>2. ASSUME NEW r \in Requests PROVE KeyInv(r)
  BY DEF Init, KeyInv
<1>3. PairsOf(Empty) = {}
  BY DEF PairsOf, Empty
<1>4. SessionInv
  <2>1. SessionPairs = {}
    BY <1>3 DEF Init, SessionPairs
  <2>2. OneToOne(SessionPairs)
    BY <2>1 DEF OneToOne
  <2>3. \A r \in Requests : Shared(r) /\ ~Open(r)
    BY DEF Init, Shared, Saving, Open
  <2> QED BY <2>2, <2>3, SessionParts
<1>5. NeverForeign /\ AllRestored
  BY DEF Init, NeverForeign, AllRestored
<1> QED BY <1>1, <1>2, <1>4, <1>5 DEF MaskingInv

\* Every step keeps the invariant.
LEMMA NextMasking ==
    ASSUME MaskerRedis, TypeOK, MaskingInv, [Next]_vars PROVE MaskingInv'
<1>1. ASSUME NEW r \in Requests, MaskStep(r) PROVE MaskingInv'
  BY <1>1, BeginStep, MaskNothingStep, ReadStep, ReadFailsStep DEF MaskStep
<1>2. ASSUME NEW r \in Requests, RedisStep(r) PROVE MaskingInv'
  BY <1>2, StoreStep, StoreFailsStep, FetchStep, WriteStep, MergeFailsStep DEF RedisStep
<1>3. ASSUME NEW r \in Requests, AnswerStep(r) PROVE MaskingInv'
  <2>1. HitsGrow \/ ~Restore(r)
    BY SameHits DEF Restore
  <2> QED BY <1>3, <2>1, RestoreStep, RestoreFailsStep, ExpireRequestStep DEF AnswerStep
<1> QED BY <1>1, <1>2, <1>3, ExpireSessionStep, StutterStep DEF Next

-----------------------------------------------------------------------------
\* With a masker that has Redis, whatever the prompts, the failures and the
\* number of requests at once: what the keys hold at each step of a request.
THEOREM MaskingInvariant == MaskerRedis => (Spec => []MaskingInv)
<1> SUFFICES ASSUME MaskerRedis PROVE Spec => []MaskingInv
  OBVIOUS
<1>1. Init => MaskingInv
  BY InitMasking
<1>2. TypeOK /\ MaskingInv /\ [Next]_vars => MaskingInv'
  BY NextMasking
<1> QED BY <1>1, <1>2, PiiTypeOK, PTL DEF Spec

\* A masker without Redis writes no key, and what is not replaced is not
\* replaced by another value.
Keyless ==
    /\ \A r \in Requests : requestKey[r] = Empty /\ ~Saving(r) /\ got[r] = {}
    /\ sessionKey = Empty

\* Every step of such a masker keeps it so.
LEMMA KeylessStep ==
    ASSUME ~MaskerRedis, TypeOK, Keyless, [Next]_vars PROVE Keyless'
<1>0. /\ pc \in [Requests -> {"idle", "reading", "storing", "merging", "writing",
                              "waiting", "done", "lost"}]
      /\ got \in [Requests -> SUBSET (Values \X Values)]
      /\ requestKey \in [Requests -> Mappings]
  BY DEF TypeOK
<1>1. ASSUME NEW r \in Requests, Advance(r), UNCHANGED <<got, requestKey, sessionKey>>
      PROVE  Keyless'
  <2>1. pc'[r] \in {"reading", "waiting"} /\ \A u \in Requests : u # r => pc'[u] = pc[u]
    BY <1>1, AdvanceType
  <2> QED BY <1>1, <2>1 DEF Keyless, Saving
<1>2. ASSUME NEW r \in Requests, NEW s \in {"reading", "done", "lost"},
             pc' = [pc EXCEPT ![r] = s], UNCHANGED <<got, requestKey, sessionKey>>
      PROVE  Keyless'
  BY <1>0, <1>2 DEF Keyless, Saving
<1>3. ASSUME NEW r \in Requests, MaskStep(r) PROVE Keyless'
  BY <1>1, <1>2, <1>3 DEF MaskStep, Begin, MaskNothing, Read, ReadFails, Number, redis
<1>4. ASSUME NEW r \in Requests, RedisStep(r) PROVE Keyless'
  BY <1>4 DEF RedisStep, Store, StoreFails, Fetch, Write, MergeFails, Keyless, Saving
<1>5. ASSUME NEW r \in Requests, Restore(r) PROVE Keyless'
  <2>1. Lookup(r) = Empty /\ DOMAIN Empty = {}
    BY DEF Keyless, Lookup, Empty
  <2>2. got' = [got EXCEPT ![r] = {}]
    BY <1>5, <2>1 DEF Restore
  <2>3. got' = got
    BY <1>0, <2>2 DEF Keyless
  <2> QED BY <1>2, <1>5, <2>3 DEF Restore, redis
<1>6. ASSUME NEW r \in Requests, RestoreFails(r) PROVE Keyless'
  BY <1>2, <1>6 DEF RestoreFails, redis
<1>7. ASSUME NEW r \in Requests, ExpireRequest(r) PROVE Keyless'
  BY <1>7 DEF ExpireRequest, Keyless
<1>8. CASE ExpireSession
  BY <1>8 DEF ExpireSession, Keyless
<1>9. CASE UNCHANGED vars
  BY <1>9 DEF vars, progress, redis, Keyless, Saving
<1> QED BY <1>3, <1>4, <1>5, <1>6, <1>7, <1>8, <1>9 DEF Next, AnswerStep

\* So nothing is replaced at all.
LEMMA KeylessForeign == ~MaskerRedis => (Spec => []NeverForeign)
<1> SUFFICES ASSUME ~MaskerRedis PROVE Spec => []NeverForeign
  OBVIOUS
<1>1. Init => Keyless
  BY DEF Init, Keyless, Saving
<1>2. TypeOK /\ Keyless /\ [Next]_vars => Keyless'
  BY KeylessStep
<1>3. Keyless => NeverForeign
  BY DEF Keyless, NeverForeign
<1> QED BY <1>1, <1>2, <1>3, PiiTypeOK, PTL DEF Spec

\* No placeholder of an answer is replaced by a value it did not stand for, as
\* NeverForeign says: restore() after mask(), whatever the other requests of
\* the session do and whatever has failed for them.
THEOREM PiiNeverForeign == Spec => []NeverForeign
<1>1. MaskingInv => NeverForeign
  BY DEF MaskingInv
<1>2. CASE MaskerRedis
  BY <1>1, <1>2, MaskingInvariant, PTL
<1>3. CASE ~MaskerRedis
  BY <1>3, KeylessForeign
<1> QED BY <1>2, <1>3

\* An answer that was restored shows every value of its prompt while the
\* request has its key, or an orderly session the mapping that stands in for it.
THEOREM PiiAllRestored == MaskerRedis => (Spec => []AllRestored)
<1>1. MaskingInv => AllRestored
  BY DEF MaskingInv
<1> QED BY <1>1, MaskingInvariant, PTL

\* Placeholders and values of a request correspond one to one, with several
\* messages too (_apply_placeholders).
THEOREM PiiRequestOneToOne == MaskerRedis => (Spec => []RequestOneToOne)
<1>1. MaskingInv => RequestOneToOne
  BY DEF MaskingInv, PairsInv, RequestOneToOne
<1> QED BY <1>1, MaskingInvariant, PTL

\* And those of a whole session, when its requests come one after the other.
THEOREM PiiSessionOneToOne == MaskerRedis => (Spec => []SessionOneToOne)
<1>1. MaskingInv => SessionOneToOne
  <2> SUFFICES ASSUME MaskingInv, SessionOrderly, Spared(Requests, {"store", "merge"})
               PROVE  OneToOne(UNION {sent[r] : r \in Requests})
    BY DEF SessionOneToOne
  <2>1. OneToOne(SessionPairs)
    BY MaskingParts, SessionParts DEF Kept
  <2>2. UNION {sent[r] : r \in Requests} \subseteq SessionPairs
    BY DEF SessionPairs
  <2> QED BY <2>1, <2>2, OneToOnePart
<1> QED BY <1>1, MaskingInvariant, PTL

-----------------------------------------------------------------------------
(* The placeholders of a text: StreamRehydrator.                           *)

\* The texts of a stream.
Texts == Seq(Characters)

\* A placeholder from i to j, place by place.
Spans(text, i, j) ==
    /\ j \in Nat /\ j <= Len(text)
    /\ text[i] = "[" /\ text[i + 1] = "A" /\ text[j] = "]"
    /\ \E k \in i + 2 .. j - 2 :
          /\ text[k] = "_"
          /\ \A m \in i + 2 .. k - 1 : text[m] \in {"A", "_"}
          /\ \A m \in k + 1 .. j - 1 : text[m] = "1"

\* The pattern matches where a placeholder spans a part of the text.
LEMMA FoundSpans ==
    ASSUME NEW text \in Texts, NEW i \in 1 .. Len(text), NEW j
    PROVE  j \in Found(text, i) <=> Spans(text, i, j)
<1> DEFINE s == SubSeq(text, i, j)
<1>1. ASSUME j \in i .. Len(text)
      PROVE  /\ s \in Texts /\ Len(s) = j - i + 1
             /\ \A q \in 1 .. Len(s) : s[q] = text[i + q - 1]
  BY <1>1 DEF Texts
<1>2. ASSUME j \in Found(text, i) PROVE Spans(text, i, j)
  <2>1. j \in i .. Len(text) /\ IsPlaceholder(s)
    BY <1>2 DEF Found
  <2>2. j \in Nat /\ i \in Nat /\ Len(text) \in Nat
    BY <2>1 DEF Texts
  <2> HIDE DEF s
  <2>3. PICK k \in 3 .. Len(s) - 2 :
          /\ s[1] = "[" /\ s[2] = "A" /\ s[k] = "_" /\ s[Len(s)] = "]"
          /\ \A m \in 3 .. k - 1 : s[m] \in {"A", "_"}
          /\ \A m \in k + 1 .. Len(s) - 1 : s[m] = "1"
    BY <2>1 DEF IsPlaceholder
  <2> DEFINE n == Len(s)
  <2>4. n = j - i + 1
    BY <1>1, <2>1
  <2>n. n \in Nat /\ k \in 3 .. n - 2 /\ k \in Nat
    BY <2>1, <2>2, <2>4
  <2> HIDE DEF n
  <2>5. /\ text[i] = "[" /\ text[i + 1] = "A" /\ text[j] = "]" /\ text[i + k - 1] = "_"
        /\ i + k - 1 \in i + 2 .. j - 2
    <3>1. 1 \in 1 .. n /\ 2 \in 1 .. n /\ n \in 1 .. n /\ k \in 1 .. n
      BY <2>n
    <3>2. i + 1 - 1 = i /\ i + 2 - 1 = i + 1 /\ i + n - 1 = j
      BY <2>2, <2>4
    <3>3. \A q \in 1 .. n : s[q] = text[i + q - 1]
      BY <1>1, <2>1 DEF n
    <3>4. /\ s[1] = text[i + 1 - 1] /\ s[2] = text[i + 2 - 1]
          /\ s[n] = text[i + n - 1] /\ s[k] = text[i + k - 1]
      BY <3>1, <3>3
    <3>5. i + k - 1 \in i + 2 .. j - 2
      BY <2>2, <2>4, <2>n
    <3> QED BY <2>3, <3>2, <3>4, <3>5 DEF n
  <2>6. ASSUME NEW m \in i + 2 .. (i + k - 1) - 1 PROVE text[m] \in {"A", "_"}
    <3>1. m - i + 1 \in 3 .. k - 1 /\ m - i + 1 \in 1 .. n /\ i + (m - i + 1) - 1 = m
      BY <2>2, <2>4, <2>n
    <3> QED BY <1>1, <2>1, <2>3, <3>1 DEF n
  <2>7. ASSUME NEW m \in (i + k - 1) + 1 .. j - 1 PROVE text[m] = "1"
    <3>1. m - i + 1 \in k + 1 .. n - 1 /\ m - i + 1 \in 1 .. n /\ i + (m - i + 1) - 1 = m
      BY <2>2, <2>4, <2>n
    <3> QED BY <1>1, <2>1, <2>3, <3>1 DEF n
  <2> DEFINE c == i + k - 1
  <2>8. c \in i + 2 .. j - 2 /\ text[c] = "_"
    BY <2>5
  <2>9. /\ \A m \in i + 2 .. c - 1 : text[m] \in {"A", "_"}
        /\ \A m \in c + 1 .. j - 1 : text[m] = "1"
    BY <2>6, <2>7
  <2>10. j <= Len(text)
    BY <2>1, <2>2
  <2> HIDE DEF c
  <2> QED BY <2>2, <2>5, <2>8, <2>9, <2>10 DEF Spans
<1>3. ASSUME Spans(text, i, j) PROVE j \in Found(text, i)
  <2>a. text[i] = "[" /\ text[i + 1] = "A" /\ text[j] = "]" /\ j \in Nat /\ j <= Len(text)
    BY <1>3 DEF Spans
  <2>0. j \in Nat /\ i \in Nat /\ Len(text) \in Nat /\ j <= Len(text)
    BY <2>a DEF Texts
  <2>1. PICK k \in i + 2 .. j - 2 :
          /\ text[k] = "_"
          /\ \A m \in i + 2 .. k - 1 : text[m] \in {"A", "_"}
          /\ \A m \in k + 1 .. j - 1 : text[m] = "1"
    BY <1>3 DEF Spans
  <2>2. k \in Nat /\ j \in i .. Len(text)
    BY <2>0
  <2> HIDE DEF s
  <2> DEFINE n == Len(s)
             c == k - i + 1
  <2>3. n = j - i + 1 /\ n \in Nat /\ \A q \in 1 .. n : s[q] = text[i + q - 1]
    BY <1>1, <2>0, <2>2
  <2>b. n = j - i + 1 /\ n \in Nat
    BY <2>3
  <2>4. c \in 3 .. n - 2 /\ c \in Nat /\ i + c - 1 = k
    BY <2>0, <2>2, <2>b
  <2> HIDE DEF n, c
  <2>5. s[1] = "[" /\ s[2] = "A" /\ s[n] = "]" /\ s[c] = "_"
    <3>1. 1 \in 1 .. n /\ 2 \in 1 .. n /\ n \in 1 .. n /\ c \in 1 .. n
      BY <2>b, <2>4
    <3>2. i + 1 - 1 = i /\ i + 2 - 1 = i + 1 /\ i + n - 1 = j
      BY <2>0, <2>b
    <3>3. /\ s[1] = text[i + 1 - 1] /\ s[2] = text[i + 2 - 1]
          /\ s[n] = text[i + n - 1] /\ s[c] = text[i + c - 1]
      BY <2>3, <3>1
    <3> QED BY <2>a, <2>1, <2>4, <3>2, <3>3
  <2>6. ASSUME NEW m \in 3 .. c - 1 PROVE s[m] \in {"A", "_"}
    <3>1. i + m - 1 \in i + 2 .. k - 1 /\ m \in 1 .. n
      BY <2>0, <2>2, <2>b, <2>4
    <3> QED BY <2>1, <2>3, <3>1
  <2>7. ASSUME NEW m \in c + 1 .. n - 1 PROVE s[m] = "1"
    <3>1. i + m - 1 \in k + 1 .. j - 1 /\ m \in 1 .. n
      BY <2>0, <2>2, <2>b, <2>4
    <3> QED BY <2>1, <2>3, <3>1
  <2>8. IsPlaceholder(s)
    BY <2>4, <2>5, <2>6, <2>7 DEF IsPlaceholder, n
  <2> QED BY <2>2, <2>8 DEF Found, s
<1> QED BY <1>2, <1>3

\* Inside a placeholder there is no bracket; its characters are of three classes.
LEMMA SpansInside ==
    ASSUME NEW text \in Texts, NEW i \in Nat, NEW j, Spans(text, i, j)
    PROVE  /\ i + 1 < j
           /\ \A m \in i + 1 .. j - 1 : text[m] \in {"A", "_", "1"}
<1>0. j \in Nat /\ text[i + 1] = "A"
  BY DEF Spans
<1>1. PICK k \in i + 2 .. j - 2 :
          /\ text[k] = "_"
          /\ \A m \in i + 2 .. k - 1 : text[m] \in {"A", "_"}
          /\ \A m \in k + 1 .. j - 1 : text[m] = "1"
  BY DEF Spans
<1>j. j \in Nat
  BY <1>0
<1>2. k \in Nat /\ i + 1 < j
  BY <1>j
<1>3. ASSUME NEW m \in i + 1 .. j - 1 PROVE text[m] \in {"A", "_", "1"}
  <2>1. m = i + 1 \/ m \in i + 2 .. k - 1 \/ m = k \/ m \in k + 1 .. j - 1
    BY <1>j, <1>2
  <2>2. \A x \in {"A", "_"} : x \in {"A", "_", "1"}
    OBVIOUS
  <2> QED BY <1>0, <1>1, <2>1, <2>2
<1> QED BY <1>2, <1>3

\* At most one placeholder begins at a place.
LEMMA SpansOnce ==
    ASSUME NEW text \in Texts, NEW i \in Nat, NEW j, NEW k,
           Spans(text, i, j), Spans(text, i, k)
    PROVE  j = k
<1>1. j \in Nat /\ k \in Nat /\ text[j] = "]" /\ text[k] = "]"
  BY DEF Spans
<1>2. /\ i + 1 < j /\ \A m \in i + 1 .. j - 1 : text[m] \in {"A", "_", "1"}
      /\ i + 1 < k /\ \A m \in i + 1 .. k - 1 : text[m] \in {"A", "_", "1"}
  BY SpansInside
<1>3. "]" \notin {"A", "_", "1"}
  OBVIOUS
<1>4. ~ (j \in i + 1 .. k - 1) /\ ~ (k \in i + 1 .. j - 1)
  BY <1>1, <1>2, <1>3
<1>5. i + 1 < j /\ i + 1 < k /\ j \in Nat /\ k \in Nat
  BY <1>1, <1>2
<1> QED BY <1>4, <1>5

\* What a placeholder is does not depend on the text around it.
LEMMA SpansLeft ==
    ASSUME NEW x \in Texts, NEW y \in Texts, NEW i \in 1 .. Len(x), NEW j \in Nat, j <= Len(x)
    PROVE  Spans(x \o y, i, j) <=> Spans(x, i, j)
<1> DEFINE xy == x \o y
<1>1. /\ Len(x) \in Nat /\ Len(y) \in Nat /\ Len(xy) = Len(x) + Len(y)
      /\ \A m \in 1 .. Len(x) : xy[m] = x[m]
  BY DEF Texts
<1>2. i \in Nat /\ j <= Len(x) + Len(y)
  BY <1>1
<1> HIDE DEF xy
<1>3. ASSUME NEW k \in i + 2 .. j - 2
      PROVE  /\ k \in 1 .. Len(x) /\ i \in 1 .. Len(x) /\ i + 1 \in 1 .. Len(x)
             /\ j \in 1 .. Len(x)
             /\ \A m \in i + 2 .. k - 1 : m \in 1 .. Len(x)
             /\ \A m \in k + 1 .. j - 1 : m \in 1 .. Len(x)
  BY <1>1, <1>2
<1>4. ASSUME NEW k \in i + 2 .. j - 2
      PROVE  /\ xy[k] = x[k] /\ xy[i] = x[i] /\ xy[i + 1] = x[i + 1] /\ xy[j] = x[j]
             /\ \A m \in i + 2 .. k - 1 : xy[m] = x[m]
             /\ \A m \in k + 1 .. j - 1 : xy[m] = x[m]
  BY <1>1, <1>3
<1>5. Spans(xy, i, j) => Spans(x, i, j)
  BY <1>4 DEF Spans
<1>6. j <= Len(xy)
  BY <1>1, <1>2
<1>7. Spans(x, i, j) => Spans(xy, i, j)
  BY <1>4, <1>6 DEF Spans
<1> QED BY <1>5, <1>7 DEF xy

\* Nor on the text before it.
LEMMA SpansRight ==
    ASSUME NEW x \in Texts, NEW y \in Texts, NEW i \in 1 .. Len(y), NEW j \in Nat, j <= Len(y)
    PROVE  Spans(x \o y, Len(x) + i, Len(x) + j) <=> Spans(y, i, j)
<1> DEFINE xy == x \o y
           n == Len(x)
<1>1. /\ n \in Nat /\ Len(y) \in Nat /\ Len(xy) = n + Len(y)
      /\ \A m \in 1 .. Len(y) : xy[n + m] = y[m]
  BY DEF Texts
<1>2. i \in Nat
  BY <1>1
<1> HIDE DEF xy, n
<1>3. ASSUME NEW k \in i + 2 .. j - 2
      PROVE  /\ k \in Nat /\ k \in 1 .. Len(y) /\ i \in 1 .. Len(y) /\ i + 1 \in 1 .. Len(y)
             /\ j \in 1 .. Len(y) /\ n + (i + 1) = (n + i) + 1
             /\ \A m \in i + 2 .. k - 1 : m \in 1 .. Len(y)
             /\ \A m \in k + 1 .. j - 1 : m \in 1 .. Len(y)
  BY <1>1, <1>2
<1>4. ASSUME NEW k \in i + 2 .. j - 2
      PROVE  /\ xy[n + k] = y[k] /\ xy[n + i] = y[i] /\ xy[(n + i) + 1] = y[i + 1]
             /\ xy[n + j] = y[j]
             /\ \A m \in i + 2 .. k - 1 : xy[n + m] = y[m]
             /\ \A m \in k + 1 .. j - 1 : xy[n + m] = y[m]
  <2>1. xy[n + i] = y[i] /\ xy[n + (i + 1)] = y[i + 1] /\ xy[n + j] = y[j] /\ xy[n + k] = y[k]
    BY <1>1, <1>3
  <2>2. \A m \in i + 2 .. k - 1 : xy[n + m] = y[m]
    BY <1>1, <1>3
  <2>3. \A m \in k + 1 .. j - 1 : xy[n + m] = y[m]
    BY <1>1, <1>3
  <2> QED BY <1>3, <2>1, <2>2, <2>3
<1>5. n + j \in Nat /\ n + j <= Len(xy)
  BY <1>1
<1>6. ASSUME Spans(y, i, j) PROVE Spans(xy, n + i, n + j)
  <2>1. PICK k \in i + 2 .. j - 2 :
          /\ y[k] = "_"
          /\ \A m \in i + 2 .. k - 1 : y[m] \in {"A", "_"}
          /\ \A m \in k + 1 .. j - 1 : y[m] = "1"
    BY <1>6 DEF Spans
  <2>2. y[i] = "[" /\ y[i + 1] = "A" /\ y[j] = "]"
    BY <1>6 DEF Spans
  <2>3. n + k \in (n + i) + 2 .. (n + j) - 2
    BY <1>1, <1>2, <1>3
  <2>4. ASSUME NEW m \in (n + i) + 2 .. (n + k) - 1 PROVE xy[m] \in {"A", "_"}
    <3>1. m - n \in i + 2 .. k - 1 /\ n + (m - n) = m
      BY <1>1, <1>2, <1>3
    <3>2. xy[n + (m - n)] = y[m - n]
      BY <1>4, <3>1
    <3> QED BY <2>1, <3>1, <3>2
  <2>5. ASSUME NEW m \in (n + k) + 1 .. (n + j) - 1 PROVE xy[m] = "1"
    <3>1. m - n \in k + 1 .. j - 1 /\ n + (m - n) = m
      BY <1>1, <1>2, <1>3
    <3>2. xy[n + (m - n)] = y[m - n]
      BY <1>4, <3>1
    <3> QED BY <2>1, <3>1, <3>2
  <2>6. xy[n + i] = "[" /\ xy[(n + i) + 1] = "A" /\ xy[n + j] = "]" /\ xy[n + k] = "_"
    BY <1>4, <2>1, <2>2
  <2> DEFINE c == n + k
  <2>7. /\ c \in (n + i) + 2 .. (n + j) - 2 /\ xy[c] = "_"
        /\ \A m \in (n + i) + 2 .. c - 1 : xy[m] \in {"A", "_"}
        /\ \A m \in c + 1 .. (n + j) - 1 : xy[m] = "1"
    BY <2>3, <2>4, <2>5, <2>6
  <2> HIDE DEF c
  <2> QED BY <1>5, <2>6, <2>7 DEF Spans
<1>7. ASSUME Spans(xy, n + i, n + j) PROVE Spans(y, i, j)
  <2>1. PICK c \in (n + i) + 2 .. (n + j) - 2 :
          /\ xy[c] = "_"
          /\ \A m \in (n + i) + 2 .. c - 1 : xy[m] \in {"A", "_"}
          /\ \A m \in c + 1 .. (n + j) - 1 : xy[m] = "1"
    BY <1>7 DEF Spans
  <2>2. xy[n + i] = "[" /\ xy[(n + i) + 1] = "A" /\ xy[n + j] = "]"
    BY <1>7 DEF Spans
  <2> DEFINE k == c - n
  <2>3. k \in i + 2 .. j - 2 /\ n + k = c /\ c \in Nat
    BY <1>1, <1>2
  <2> HIDE DEF k
  <2>4. k \in Nat
    BY <1>3, <2>3
  <2>5. ASSUME NEW m \in i + 2 .. k - 1 PROVE y[m] \in {"A", "_"}
    <3>1. n + m \in (n + i) + 2 .. c - 1
      BY <1>1, <1>2, <2>3, <2>4
    <3>2. xy[n + m] = y[m]
      BY <1>4, <2>3
    <3> QED BY <2>1, <3>1, <3>2
  <2>6. ASSUME NEW m \in k + 1 .. j - 1 PROVE y[m] = "1"
    <3>1. n + m \in c + 1 .. (n + j) - 1
      BY <1>1, <1>2, <2>3, <2>4
    <3>2. xy[n + m] = y[m]
      BY <1>4, <2>3
    <3> QED BY <2>1, <3>1, <3>2
  <2>7. y[i] = "[" /\ y[i + 1] = "A" /\ y[j] = "]" /\ y[k] = "_"
    BY <1>4, <2>1, <2>2, <2>3
  <2> QED BY <2>3, <2>5, <2>6, <2>7 DEF Spans
<1> QED BY <1>6, <1>7 DEF xy, n

\* A placeholder begins at or before i and ends at or after it.
Covered(text, i) == \E h \in 1 .. i : \E j : Spans(text, h, j) /\ i <= j

\* What sub() makes of a place, by the placeholder it is in.
LEMMA PieceIs ==
    ASSUME NEW text \in Texts, NEW i \in 1 .. Len(text)
    PROVE  /\ \A j : Spans(text, i, j) => Piece(text, i) = Value(SubSeq(text, i, j))
           /\ (\A j : ~ Spans(text, i, j)) =>
                 Piece(text, i) = IF Covered(text, i) THEN <<>> ELSE <<text[i]>>
<1>0. Len(text) \in Nat /\ i \in Nat
  BY DEF Texts
<1>1. \A h \in 1 .. i : h \in 1 .. Len(text)
  BY <1>0
<1>2. \A h \in 1 .. i : \A j : j \in Found(text, h) <=> Spans(text, h, j)
  BY <1>1, FoundSpans
<1>3. i \in 1 .. i
  BY <1>0
<1>4. (\E h \in 1 .. i : \E j \in Found(text, h) : i <= j) <=> Covered(text, i)
  BY <1>2 DEF Covered
<1>5. ASSUME NEW j, Spans(text, i, j) PROVE Piece(text, i) = Value(SubSeq(text, i, j))
  <2>1. j \in Found(text, i)
    BY <1>2, <1>3, <1>5
  <2>2. (CHOOSE k \in Found(text, i) : TRUE) = j
    <3>1. (CHOOSE k \in Found(text, i) : TRUE) \in Found(text, i)
      BY <2>1
    <3> DEFINE c == CHOOSE k \in Found(text, i) : TRUE
    <3>2. Spans(text, i, c)
      BY <1>2, <1>3, <3>1
    <3> HIDE DEF c
    <3>3. c = j
      BY <1>0, <1>5, <3>2, SpansOnce
    <3> QED BY <3>3 DEF c
  <2>3. Found(text, i) # {}
    BY <2>1
  <2> QED BY <2>2, <2>3 DEF Piece
<1>6. ASSUME \A j : ~ Spans(text, i, j)
      PROVE  Piece(text, i) = IF Covered(text, i) THEN <<>> ELSE <<text[i]>>
  <2>1. Found(text, i) = {}
    BY <1>2, <1>3, <1>6
  <2> QED BY <1>4, <2>1 DEF Piece
<1> QED BY <1>5, <1>6

\* It is a text.
LEMMA PieceType ==
    ASSUME NEW text \in Texts, NEW i \in 1 .. Len(text)
    PROVE  Piece(text, i) \in Texts
<1>0. Len(text) \in Nat /\ i \in Nat /\ text[i] \in Characters
  BY DEF Texts
<1>1. CASE \E j : Spans(text, i, j)
  <2>1. PICK j : Spans(text, i, j)
    BY <1>1
  <2>2. j \in Nat /\ j <= Len(text)
    BY <2>1 DEF Spans
  <2>3. i + 1 < j
    BY <1>0, <2>1, SpansInside
  <2>4. SubSeq(text, i, j) \in Texts
    <3>1. j \in i .. Len(text)
      BY <1>0, <2>2, <2>3
    <3> QED BY <3>1 DEF Texts
  <2>5. Value(SubSeq(text, i, j)) \in Texts
    BY <2>4, StreamAssumption DEF Value, Texts
  <2> QED BY <2>1, <2>5, PieceIs
<1>2. CASE \A j : ~ Spans(text, i, j)
  <2>1. <<>> \in Texts /\ <<text[i]>> \in Texts
    BY <1>0 DEF Texts
  <2> QED BY <1>2, <2>1, PieceIs
<1> QED BY <1>1, <1>2

\* No placeholder begins in x and ends in y.
Clean(x, y) == \A i \in 1 .. Len(x) : \A j : Spans(x \o y, i, j) => j <= Len(x)

\* A place left of a clean cut is replaced as it is in the left part alone.
LEMMA PieceLeft ==
    ASSUME NEW x \in Texts, NEW y \in Texts, Clean(x, y), NEW i \in 1 .. Len(x)
    PROVE  Piece(x \o y, i) = Piece(x, i)
<1> DEFINE xy == x \o y
<1>0. Len(x) \in Nat /\ i \in Nat
  BY DEF Texts
<1>1. xy \in Texts /\ i \in 1 .. Len(xy) /\ xy[i] = x[i]
  BY DEF Texts
<1>2. ASSUME NEW h \in 1 .. Len(x), NEW j PROVE Spans(xy, h, j) <=> Spans(x, h, j)
  <2>1. Spans(xy, h, j) => j \in Nat /\ j <= Len(x)
    BY DEF Clean, Spans
  <2>2. Spans(x, h, j) => j \in Nat /\ j <= Len(x)
    BY DEF Spans
  <2> QED BY <2>1, <2>2, SpansLeft
<1> HIDE DEF xy
<1>3. CASE \E j : Spans(x, i, j)
  <2>1. PICK j : Spans(x, i, j)
    BY <1>3
  <2>2. Spans(xy, i, j)
    BY <1>2, <2>1
  <2>3. j \in Nat /\ j <= Len(x) /\ i + 1 < j
    BY <1>0, <2>1, SpansInside DEF Spans
  <2>4. SubSeq(xy, i, j) = SubSeq(x, i, j)
    <3>1. j \in 1 .. Len(x)
      BY <1>0, <2>3
    <3> QED BY <3>1, SubSeqOfConcat1 DEF Texts, xy
  <2>5. Piece(xy, i) = Value(SubSeq(xy, i, j)) /\ Piece(x, i) = Value(SubSeq(x, i, j))
    BY <1>1, <2>1, <2>2, PieceIs
  <2> QED BY <2>4, <2>5 DEF xy
<1>4. CASE \A j : ~ Spans(x, i, j)
  <2>1. \A j : ~ Spans(xy, i, j)
    BY <1>2, <1>4
  <2>2. \A h \in 1 .. i : h \in 1 .. Len(x)
    BY <1>0
  <2>3. Covered(xy, i) <=> Covered(x, i)
    BY <1>2, <2>2 DEF Covered
  <2>4. /\ Piece(xy, i) = IF Covered(xy, i) THEN <<>> ELSE <<xy[i]>>
        /\ Piece(x, i) = IF Covered(x, i) THEN <<>> ELSE <<x[i]>>
    BY <1>1, <1>4, <2>1, PieceIs
  <2> QED BY <1>1, <2>3, <2>4 DEF xy
<1> QED BY <1>3, <1>4

\* And one right of it as in the right part alone.
LEMMA PieceRight ==
    ASSUME NEW x \in Texts, NEW y \in Texts, Clean(x, y), NEW i \in 1 .. Len(y)
    PROVE  Piece(x \o y, Len(x) + i) = Piece(y, i)
<1> DEFINE xy == x \o y
           n == Len(x)
<1>0. n \in Nat /\ i \in Nat /\ Len(y) \in Nat
  BY DEF Texts
<1>1. xy \in Texts /\ n + i \in 1 .. Len(xy) /\ xy[n + i] = y[i] /\ Len(xy) = n + Len(y)
  BY DEF Texts
<1>2. ASSUME NEW h \in 1 .. Len(y), NEW j \in Nat
      PROVE  Spans(xy, n + h, n + j) <=> Spans(y, h, j)
  <2>1. Spans(xy, n + h, n + j) => j <= Len(y)
    <3>1. Spans(xy, n + h, n + j) => n + j <= n + Len(y)
      BY <1>1 DEF Spans
    <3> QED BY <1>0, <3>1
  <2>2. Spans(y, h, j) => j <= Len(y)
    BY DEF Spans
  <2> QED BY <2>1, <2>2, SpansRight
<1>3. ASSUME NEW h \in 1 .. Len(y), NEW j, Spans(xy, n + h, j)
      PROVE  j - n \in Nat /\ n + (j - n) = j
  <2>0. j \in Nat
    BY <1>3 DEF Spans
  <2>1. j \in Nat /\ n + h \in Nat
    BY <1>0, <2>0
  <2>2. (n + h) + 1 < j
    BY <1>1, <1>3, <2>1, SpansInside
  <2> QED BY <1>0, <2>1, <2>2
<1>c. \A h \in 1 .. n : \A j : Spans(xy, h, j) => j <= n
  BY DEF Clean
<1> HIDE DEF xy, n
<1>4. CASE \E j : Spans(y, i, j)
  <2>1. PICK j : Spans(y, i, j)
    BY <1>4
  <2>2. j \in Nat /\ j <= Len(y) /\ i + 1 < j
    BY <1>0, <2>1, SpansInside DEF Spans
  <2>3. Spans(xy, n + i, n + j)
    BY <1>2, <2>1, <2>2
  <2>4. SubSeq(xy, n + i, n + j) = SubSeq(y, i, j)
    <3>1. n + i \in n + 1 .. n + Len(y) /\ n + j \in n + 1 .. n + Len(y)
          /\ (n + i) - n = i /\ (n + j) - n = j
      BY <1>0, <2>2
    <3>2. SubSeq(xy, n + i, n + j) = SubSeq(y, (n + i) - n, (n + j) - n)
      BY <3>1, SubSeqOfConcat2 DEF Texts, xy, n
    <3> QED BY <3>1, <3>2
  <2>5. Piece(xy, n + i) = Value(SubSeq(xy, n + i, n + j)) /\ Piece(y, i) = Value(SubSeq(y, i, j))
    BY <1>1, <2>1, <2>3, PieceIs
  <2> QED BY <2>4, <2>5 DEF xy, n
<1>5. CASE \A j : ~ Spans(y, i, j)
  <2>1. \A j : ~ Spans(xy, n + i, j)
    BY <1>2, <1>3, <1>5
  <2>2. ASSUME Covered(xy, n + i) PROVE Covered(y, i)
    <3>0. PICK h \in 1 .. n + i : \E j : Spans(xy, h, j) /\ n + i <= j
      BY <2>2 DEF Covered
    <3>1. PICK j : Spans(xy, h, j) /\ n + i <= j
      BY <3>0
    <3>2. j \in Nat
      BY <3>1 DEF Spans
    <3>3. h \notin 1 .. n
      BY <1>0, <1>c, <3>1, <3>2
    <3>4. h - n \in 1 .. i /\ h - n \in 1 .. Len(y) /\ n + (h - n) = h
      BY <1>0, <3>3
    <3>5. j - n \in Nat /\ n + (j - n) = j
      BY <1>3, <3>1, <3>4
    <3>6. Spans(y, h - n, j - n)
      BY <1>2, <3>1, <3>4, <3>5
    <3>7. i <= j - n
      BY <1>0, <3>1, <3>2, <3>5
    <3> QED BY <3>4, <3>6, <3>7 DEF Covered
  <2>3. ASSUME Covered(y, i) PROVE Covered(xy, n + i)
    <3>0. PICK h \in 1 .. i : \E j : Spans(y, h, j) /\ i <= j
      BY <2>3 DEF Covered
    <3>1. PICK j : Spans(y, h, j) /\ i <= j
      BY <3>0
    <3>2. j \in Nat
      BY <3>1 DEF Spans
    <3>3. h \in 1 .. Len(y) /\ n + h \in 1 .. n + i /\ n + i <= n + j
      BY <1>0, <3>1, <3>2
    <3>4. Spans(xy, n + h, n + j)
      BY <1>2, <3>1, <3>2, <3>3
    <3> QED BY <3>3, <3>4 DEF Covered
  <2>4. /\ Piece(xy, n + i) = IF Covered(xy, n + i) THEN <<>> ELSE <<xy[n + i]>>
        /\ Piece(y, i) = IF Covered(y, i) THEN <<>> ELSE <<y[i]>>
    BY <1>1, <1>5, <2>1, PieceIs
  <2> QED BY <1>1, <2>2, <2>3, <2>4 DEF xy, n
<1> QED BY <1>4, <1>5

\* A text may be restored in two parts wherever no placeholder is cut.
Pieces(text) == [i \in DOMAIN text |-> Piece(text, i)]

\* The pieces of a text are texts, one for each place.
LEMMA PiecesType ==
    ASSUME NEW text \in Texts
    PROVE  /\ Pieces(text) \in Seq(Texts) /\ Len(Pieces(text)) = Len(text)
           /\ \A i \in 1 .. Len(text) : Pieces(text)[i] = Piece(text, i)
<1>1. DOMAIN text = 1 .. Len(text) /\ Len(text) \in Nat
  BY DEF Texts
<1>2. \A i \in 1 .. Len(text) : Piece(text, i) \in Texts
  BY PieceType
<1>3. Pieces(text) = [i \in 1 .. Len(text) |-> Piece(text, i)]
  BY <1>1 DEF Pieces
<1>4. Pieces(text) \in [1 .. Len(text) -> Texts]
  BY <1>2, <1>3
<1>5. Pieces(text) \in Seq(Texts) /\ Len(Pieces(text)) = Len(text)
  BY <1>1, <1>4
<1> QED BY <1>3, <1>5

\* Restoring both parts of a clean cut restores the whole.
LEMMA RehydratedCut ==
    ASSUME NEW x \in Texts, NEW y \in Texts, Clean(x, y)
    PROVE  Rehydrated(x \o y) = Rehydrated(x) \o Rehydrated(y)
<1> DEFINE a == Pieces(x)
           b == Pieces(y)
           ab == Pieces(x \o y)
<1>1. x \o y \in Texts /\ Len(x \o y) = Len(x) + Len(y) /\ Len(x) \in Nat /\ Len(y) \in Nat
  BY DEF Texts
<1>2. /\ a \in Seq(Texts) /\ b \in Seq(Texts) /\ ab \in Seq(Texts)
      /\ Len(a) = Len(x) /\ Len(b) = Len(y) /\ Len(ab) = Len(x) + Len(y)
      /\ \A i \in 1 .. Len(x) : a[i] = Piece(x, i)
      /\ \A i \in 1 .. Len(y) : b[i] = Piece(y, i)
      /\ \A i \in 1 .. Len(x) + Len(y) : ab[i] = Piece(x \o y, i)
  BY <1>1, PiecesType
<1> HIDE DEF a, b, ab
<1>3. a \o b \in Seq(Texts) /\ Len(a \o b) = Len(ab)
  BY <1>2
<1>4. ASSUME NEW i \in 1 .. Len(ab) PROVE (a \o b)[i] = ab[i]
  <2>1. CASE i <= Len(x)
    <3>1. i \in 1 .. Len(x)
      BY <1>1, <1>2, <2>1
    <3>2. (a \o b)[i] = a[i]
      BY <1>2, <3>1
    <3> QED BY <1>2, <3>1, <3>2, PieceLeft
  <2>2. CASE ~ (i <= Len(x))
    <3> DEFINE k == i - Len(x)
    <3>1. k \in 1 .. Len(y) /\ Len(x) + k = i
      BY <1>1, <1>2, <2>2
    <3> HIDE DEF k
    <3>2. (a \o b)[Len(x) + k] = b[k]
      BY <1>1, <1>2, <3>1
    <3>3. Piece(x \o y, Len(x) + k) = Piece(y, k)
      BY <3>1, PieceRight
    <3> QED BY <1>2, <3>1, <3>2, <3>3
  <2> QED BY <2>1, <2>2
<1>5. ab = a \o b
  BY <1>2, <1>3, <1>4, SeqEqual
<1>6. FlattenSeq(a \o b) = FlattenSeq(a) \o FlattenSeq(b)
  BY <1>2, FlattenConcat DEF Texts
<1>7. Rehydrated(x \o y) = FlattenSeq(ab) /\ Rehydrated(x) = FlattenSeq(a) /\ Rehydrated(y) = FlattenSeq(b)
  BY DEF Rehydrated, Pieces, a, b, ab
<1> QED BY <1>5, <1>6, <1>7

\* A restored text is a text.
LEMMA RehydratedType ==
    ASSUME NEW text \in Texts PROVE Rehydrated(text) \in Texts
<1>1. Pieces(text) \in Seq(Seq(Characters))
  BY PiecesType DEF Texts
<1> QED BY <1>1, FlattenType DEF Rehydrated, Pieces, Texts

\* No placeholder is cut after a text that is settled, or before a "[".
LEMMA CleanAfter ==
    ASSUME NEW x \in Texts, NEW y \in Texts,
           y # <<>> => Settled(x) \/ y[1] = "["
    PROVE  Clean(x, y)
<1> DEFINE xy == x \o y
           n == Len(x)
<1>0. /\ n \in Nat /\ Len(y) \in Nat /\ xy \in Texts /\ Len(xy) = n + Len(y)
      /\ \A m \in 1 .. n : xy[m] = x[m]
      /\ \A m \in 1 .. Len(y) : xy[n + m] = y[m]
      /\ DOMAIN x = 1 .. n
  BY DEF Texts
<1>y. y # <<>> => Len(y) # 0
  BY DEF Texts
<1> HIDE DEF xy, n
<1>1. SUFFICES ASSUME NEW i \in 1 .. n, NEW j, Spans(xy, i, j), ~ (j <= n) PROVE FALSE
  BY DEF Clean, xy, n
<1>2. j \in Nat /\ j <= Len(xy)
  BY <1>1 DEF Spans
<1>3. xy[i] = "[" /\ xy[j] = "]"
  BY <1>1 DEF Spans
<1>4. i \in Nat /\ n + 1 <= j /\ Len(y) # 0
  BY <1>0, <1>1, <1>2
<1>5. \A m \in i + 1 .. j - 1 : xy[m] \in {"A", "_", "1"}
  BY <1>0, <1>1, <1>4, SpansInside
<1>6. y # <<>>
  BY <1>4 DEF Texts
<1>7. CASE Settled(x)
  <2>1. x[i] = "["
    BY <1>0, <1>3
  <2>2. PICK m \in i + 1 .. Len(x) : x[m] \notin {"A", "_", "1"}
    BY <1>0, <1>7, <2>1 DEF Settled
  <2>3. m \in 1 .. n /\ m \in i + 1 .. j - 1
    BY <1>0, <1>2, <1>4 DEF n
  <2> QED BY <1>0, <1>5, <2>2, <2>3
<1>8. CASE y[1] = "["
  <2>1. 1 \in 1 .. Len(y) /\ xy[n + 1] = "["
    BY <1>0, <1>4, <1>8
  <2>2. n + 1 # j
    BY <1>3, <2>1
  <2>3. n + 1 \in i + 1 .. j - 1
    BY <1>0, <1>2, <1>4, <2>2
  <2>4. "[" \notin {"A", "_", "1"}
    OBVIOUS
  <2> QED BY <1>5, <2>1, <2>3, <2>4
<1> QED BY <1>6, <1>7, <1>8

\* The cut that process_chunk makes: what is in front of it can be shown, what
\* is behind it is held back.
LEMMA SafeCut ==
    ASSUME NEW text \in Texts
    PROVE  LET safe == SafeLength(text)
               x == SubSeq(text, 1, safe)
               y == SubSeq(text, safe + 1, Len(text))
           IN  /\ safe \in 0 .. Len(text) /\ x \in Texts /\ y \in Texts
               /\ text = x \o y /\ Len(x) = safe
               /\ IF y = <<>> THEN x = text /\ Settled(text) ELSE HeldBack(y)
<1> DEFINE safe == SafeLength(text)
           x == SubSeq(text, 1, safe)
           y == SubSeq(text, safe + 1, Len(text))
<1>0. Len(text) \in Nat /\ DOMAIN text = 1 .. Len(text)
  BY DEF Texts
<1>n. Len(text) \in Nat
  BY <1>0
<1>1. ASSUME safe \in 0 .. Len(text)
      PROVE  /\ x \in Texts /\ y \in Texts /\ Len(x) = safe /\ Len(y) = Len(text) - safe
             /\ \A i \in 1 .. safe : x[i] = text[i]
             /\ \A i \in 1 .. Len(text) - safe : y[i] = text[safe + i]
  <2> HIDE DEF safe
  <2>1. x \in Texts /\ Len(x) = safe /\ \A i \in 1 .. safe : x[i] = text[i]
    BY <1>0, <1>1 DEF Texts
  <2>2. safe + 1 \in 1 .. Len(text) + 1 /\ Len(text) - (safe + 1) + 1 = Len(text) - safe
    BY <1>0, <1>1
  <2>3. y \in Texts
    BY <1>0, <1>1, <2>2 DEF Texts
  <2>4. Len(y) = Len(text) - safe
    <3>1. Len(y) = IF safe + 1 <= Len(text) THEN Len(text) - (safe + 1) + 1 ELSE 0
      BY <1>0, <1>1, SubSeqProperties DEF Texts
    <3> HIDE DEF y
    <3> QED BY <1>n, <1>1, <3>1
  <2>5. ASSUME NEW i \in 1 .. Len(text) - safe PROVE y[i] = text[safe + i]
    <3>1. i \in Nat /\ i \in 1 .. Len(text) - (safe + 1) + 1 /\ (safe + 1) + i - 1 = safe + i
      BY <1>0, <1>1
    <3>2. y[i] = text[(safe + 1) + i - 1]
      BY <1>0, <1>1, <3>1 DEF Texts
    <3> QED BY <3>1, <3>2
  <2> QED BY <2>1, <2>3, <2>4, <2>5
<1>2. ASSUME safe \in 0 .. Len(text) PROVE text = x \o y
  <2>1. /\ x \o y \in Texts /\ Len(x \o y) = Len(text)
    BY <1>0, <1>1, <1>2 DEF Texts
  <2>2. ASSUME NEW i \in 1 .. Len(text) PROVE (x \o y)[i] = text[i]
    <3> HIDE DEF x, y, safe
    <3>1. CASE i <= safe
      <4>1. i \in 1 .. safe /\ i \in 1 .. Len(x)
        BY <1>0, <1>1, <1>2, <3>1
      <4>2. (x \o y)[i] = x[i]
        BY <1>1, <1>2, <4>1 DEF Texts
      <4> QED BY <1>1, <1>2, <4>1, <4>2
    <3>2. CASE ~ (i <= safe)
      <4> DEFINE k == i - safe
      <4>1. k \in 1 .. Len(text) - safe /\ safe + k = i
        BY <1>0, <1>2, <3>2
      <4> HIDE DEF k
      <4>2. k \in 1 .. Len(y) /\ Len(x) + k = i
        BY <1>1, <1>2, <4>1
      <4>3. (x \o y)[Len(x) + k] = y[k]
        BY <1>1, <1>2, <4>2 DEF Texts
      <4> QED BY <1>1, <1>2, <4>1, <4>2, <4>3
    <3> QED BY <3>1, <3>2
  <2> QED BY <2>1, <2>2, SeqEqual DEF Texts
<1>3. CASE Partial(text) = {}
  <2>1. safe = Len(text)
    BY <1>3 DEF SafeLength
  <2>2. safe \in 0 .. Len(text)
    BY <1>0, <2>1
  <2>3. x = text /\ y = <<>>
    BY <1>0, <2>1 DEF Texts
  <2>4. Settled(text)
    <3> SUFFICES ASSUME NEW i \in DOMAIN text, text[i] = "["
                 PROVE \E j \in i + 1 .. Len(text) : text[j] \notin {"A", "_", "1"}
      BY DEF Settled
    <3>1. i \notin Partial(text)
      BY <1>3
    <3> QED BY <3>1 DEF Partial
  <2> QED BY <1>1, <1>2, <2>2, <2>3, <2>4
<1>4. CASE Partial(text) # {}
  <2> DEFINE p == CHOOSE i \in Partial(text) : TRUE
  <2>1. p \in Partial(text)
    BY <1>4
  <2> HIDE DEF p
  <2>2. /\ p \in 1 .. Len(text) /\ text[p] = "["
        /\ \A j \in p + 1 .. Len(text) :
              text[j] \in {"A", "_", "1"} \/ (j = Len(text) /\ text[j] = "n")
    BY <1>0, <2>1 DEF Partial
  <2>3. safe = p - 1
    BY <1>4 DEF SafeLength, p
  <2>4. safe \in 0 .. Len(text) /\ p \in Nat /\ safe + 1 = p /\ Len(text) - safe # 0
    <3>1. p \in 1 .. Len(text)
      BY <2>2
    <3> HIDE DEF safe
    <3> QED BY <1>0, <2>3, <3>1
  <2>5. /\ y \in Texts /\ Len(y) = Len(text) - safe
        /\ \A i \in 1 .. Len(text) - safe : y[i] = text[safe + i]
    BY <1>1, <2>4
  <2> HIDE DEF safe, x, y
  <2>6. y # <<>>
    <3>1. Len(<<>>) = 0
      OBVIOUS
    <3> QED BY <2>4, <2>5, <3>1
  <2>7. HeldBack(y)
    <3>1. y[1] = "["
      <4>1. 1 \in 1 .. Len(text) - safe
        BY <1>n, <2>4
      <4>2. y[1] = text[safe + 1]
        BY <2>5, <4>1
      <4>3. safe + 1 = p /\ text[p] = "["
        BY <2>2, <2>4
      <4> QED BY <4>2, <4>3
    <3>2. ASSUME NEW i \in 1 .. Len(text) - safe PROVE y[i] # "]"
      <4>3. safe + i = p \/ safe + i \in p + 1 .. Len(text)
        BY <1>n, <2>4
      <4>4. y[i] = text[safe + i]
        BY <2>5
      <4>5. text[p] # "]"
        BY <2>2
      <4>6. ASSUME safe + i \in p + 1 .. Len(text) PROVE text[safe + i] # "]"
        <5>1. text[safe + i] \in {"A", "_", "1"} \/ text[safe + i] = "n"
          BY <2>2, <4>6
        <5> DEFINE c == text[safe + i]
        <5> HIDE DEF c
        <5>2. c \in {"A", "_", "1"} \/ c = "n"
          BY <5>1 DEF c
        <5>3. c # "]"
          BY <5>2
        <5> QED BY <5>3 DEF c
      <4> QED BY <4>3, <4>4, <4>5, <4>6
    <3>3. DOMAIN y = 1 .. Len(text) - safe
      BY <2>5 DEF Texts
    <3> QED BY <3>1, <3>2, <3>3 DEF HeldBack
  <2> QED BY <1>1, <1>2, <2>4, <2>6, <2>7 DEF x, y, safe
<1> QED BY <1>3, <1>4

\* Settled texts make a settled text, and so does one in which a "[" follows.
LEMMA SettledConcat ==
    ASSUME NEW x \in Texts, NEW y \in Texts, Settled(y),
           Settled(x) \/ (y # <<>> /\ y[1] = "[")
    PROVE  Settled(x \o y)
<1> DEFINE xy == x \o y
           n == Len(x)
<1>0. /\ n \in Nat /\ Len(y) \in Nat /\ Len(xy) = n + Len(y)
      /\ \A m \in 1 .. n : xy[m] = x[m]
      /\ \A m \in 1 .. Len(y) : xy[n + m] = y[m]
      /\ DOMAIN x = 1 .. n /\ DOMAIN y = 1 .. Len(y) /\ DOMAIN xy = 1 .. n + Len(y)
  BY DEF Texts
<1>n. n \in Nat /\ Len(y) \in Nat /\ Len(xy) = n + Len(y)
  BY <1>0
<1>y. y # <<>> => Len(y) # 0
  BY DEF Texts
<1> HIDE DEF xy, n
<1>1. SUFFICES ASSUME NEW i \in 1 .. n + Len(y), xy[i] = "["
               PROVE  \E j \in i + 1 .. Len(xy) : xy[j] \notin {"A", "_", "1"}
  BY <1>0 DEF Settled, xy
<1>2. CASE i \in 1 .. n
  <2>1. CASE Settled(x)
    <3>1. x[i] = "["
      BY <1>0, <1>1, <1>2
    <3>2. PICK j \in i + 1 .. Len(x) : x[j] \notin {"A", "_", "1"}
      BY <1>0, <1>2, <2>1, <3>1 DEF Settled
    <3>3. j \in 1 .. n /\ j \in i + 1 .. Len(xy)
      BY <1>n, <1>2 DEF n
    <3> QED BY <1>0, <3>2, <3>3
  <2>2. CASE y # <<>> /\ y[1] = "["
    <3>1. 1 \in 1 .. Len(y)
      BY <1>n, <1>y, <2>2
    <3>2. xy[n + 1] = "["
      BY <1>0, <2>2, <3>1
    <3>3. n + 1 \in i + 1 .. Len(xy)
      BY <1>n, <1>2, <3>1
    <3>4. "[" \notin {"A", "_", "1"}
      OBVIOUS
    <3> QED BY <3>2, <3>3, <3>4
  <2> QED BY <2>1, <2>2
<1>3. CASE i \notin 1 .. n
  <2> DEFINE k == i - n
  <2>1. k \in 1 .. Len(y) /\ n + k = i
    BY <1>n, <1>3
  <2> HIDE DEF k
  <2>2. y[k] = "["
    BY <1>0, <1>1, <2>1
  <2>3. PICK j \in k + 1 .. Len(y) : y[j] \notin {"A", "_", "1"}
    BY <1>0, <2>1, <2>2 DEF Settled
  <2>4. j \in 1 .. Len(y) /\ n + j \in i + 1 .. Len(xy)
    BY <1>n, <2>1
  <2> QED BY <1>0, <2>3, <2>4
<1> QED BY <1>2, <1>3

\* What was received without what is held back.
LEMMA PassedIs ==
    ASSUME NEW d \in Texts, NEW b \in Texts
    PROVE  /\ SubSeq(d \o b, 1, Len(d \o b) - Len(b)) = d
           /\ d \o b \in Texts /\ Len(b) <= Len(d \o b)
<1>1. /\ Len(d) \in Nat /\ Len(b) \in Nat /\ Len(d \o b) = Len(d) + Len(b)
      /\ d \o b \in Texts
  BY DEF Texts
<1>2. Len(d \o b) - Len(b) = Len(d) /\ Len(b) <= Len(d \o b)
  BY <1>1
<1>3. CASE d = <<>>
  <2>1. Len(d) = 0
    BY <1>3
  <2>2. SubSeq(d \o b, 1, 0) = <<>>
    BY SubSeqEmpty
  <2> QED BY <1>1, <1>2, <1>3, <2>1, <2>2
<1>4. CASE d # <<>>
  <2>1. Len(d) \in 1 .. Len(d) /\ 1 \in 1 .. Len(d)
    BY <1>1, <1>4 DEF Texts
  <2>2. SubSeq(d \o b, 1, Len(d)) = SubSeq(d, 1, Len(d))
    BY <2>1, SubSeqOfConcat1 DEF Texts
  <2>3. SubSeq(d, 1, Len(d)) = d
    BY SubSeqFull DEF Texts
  <2> QED BY <1>1, <1>2, <2>2, <2>3
<1> QED BY <1>3, <1>4

\* A text is a beginning of what is added to it.
LEMMA PrefixConcat ==
    ASSUME NEW a \in Texts, NEW b \in Texts
    PROVE  IsPrefix(a, a \o b)
<1>1. Len(a) <= Len(a \o b)
  BY DEF Texts
<1>2. SubSeq(a, 1, Len(a)) = a
  BY SubSeqFull DEF Texts
<1>3. SubSeq(a \o b, 1, Len(a \o b) - Len(b)) = a
  BY PassedIs
<1>4. Len(a \o b) - Len(b) = Len(a)
  BY DEF Texts
<1> QED BY <1>1, <1>2, <1>3, <1>4 DEF IsPrefix

\* Concatenation is associative.
LEMMA TextAssoc ==
    ASSUME NEW a \in Texts, NEW b \in Texts, NEW c \in Texts
    PROVE  (a \o b) \o c = a \o (b \o c)
BY ConcatAssociative DEF Texts

\* What has been passed on, and what is held back after it.
LEMMA PassedType ==
    ASSUME StreamInv
    PROVE  Passed \in Texts /\ buffer \in Texts /\ received = Passed \o buffer
<1>1. received \in Texts /\ buffer \in Texts /\ Len(buffer) <= Len(received)
  BY DEF StreamInv, Texts
<1>2. Len(received) - Len(buffer) \in 0 .. Len(received)
  BY <1>1 DEF Texts
<1>3. Passed \in Texts
  BY <1>1, <1>2 DEF Passed, Texts
<1> QED BY <1>1, <1>3 DEF StreamInv

\* A text that follows what has been passed on is restored on its own.
LEMMA PassedClean ==
    ASSUME StreamInv, mode = "restoring", NEW t \in Texts,
           t # <<>> /\ buffer # <<>> => t[1] = "["
    PROVE  Rehydrated(Passed \o t) = Rehydrated(Passed) \o Rehydrated(t)
<1>1. Passed \in Texts /\ buffer \in Texts /\ received = Passed \o buffer
  BY PassedType
<1>2. buffer = <<>> => Settled(Passed)
  <2> SUFFICES ASSUME buffer = <<>> PROVE Settled(Passed)
    OBVIOUS
  <2>1. received = Passed
    BY <1>1, ConcatEmptySeq DEF Texts
  <2> QED BY <2>1 DEF StreamInv
<1> QED BY <1>1, <1>2, CleanAfter, RehydratedCut

\* At the start.
LEMMA StreamInitInv == ASSUME StreamInit PROVE StreamInv
<1>1. <<>> \in Texts
  BY DEF Texts
<1>2. SubSeq(<<>> \o <<>>, 1, Len(<<>> \o <<>>) - Len(<<>>)) = <<>> /\ <<>> \o <<>> = <<>>
  BY <1>1, PassedIs, ConcatEmptySeq DEF Texts
<1>3. Passed = <<>>
  BY <1>2 DEF StreamInit, Passed
<1>4. Len(buffer) <= Len(received)
  BY DEF StreamInit
<1> QED BY <1>1, <1>2, <1>3, <1>4 DEF StreamInit, StreamInv, Texts

\* A chunk is a text.
LEMMA ChunkType == ASSUME NEW c \in Chunks PROVE c \in Texts
BY StreamAssumption DEF Texts

\* process_chunk() shows what is in front of its cut and holds back the rest.
LEMMA ProcessShows ==
    ASSUME StreamInv, NEW c \in Chunks, Process(c)
    PROVE  /\ StreamInv'
           /\ \E x \in Texts : shown' = shown \o x
           /\ received' = received \o c
           /\ shown' \o Rehydrated(buffer') = Rehydrated(received')
<1> DEFINE text == buffer \o c
           safe == SafeLength(text)
           x == SubSeq(text, 1, safe)
           y == SubSeq(text, safe + 1, Len(text))
           d == Passed
<1>1. /\ mode = "restoring" /\ received' = received \o c
      /\ buffer' = y /\ shown' = shown \o Rehydrated(x)
      /\ template' = TRUE /\ mode' = mode /\ restored' = restored
  BY DEF Process
<1>2. d \in Texts /\ buffer \in Texts /\ c \in Texts /\ received = d \o buffer
  BY PassedType, ChunkType
<1>3. text \in Texts
  BY <1>2 DEF Texts
<1>4. /\ x \in Texts /\ y \in Texts /\ text = x \o y
      /\ IF y = <<>> THEN x = text /\ Settled(text) ELSE HeldBack(y)
  BY <1>3, SafeCut
<1>5. shown = Rehydrated(d) /\ restored /\ shown \in Texts
      /\ IF buffer = <<>> THEN Settled(received) ELSE HeldBack(buffer)
  BY <1>1 DEF StreamInv, Texts
<1>t. text # <<>> /\ buffer # <<>> => text[1] = "["
  <2> SUFFICES ASSUME buffer # <<>> PROVE text[1] = "["
    OBVIOUS
  <2>1. buffer[1] = "["
    BY <1>5 DEF HeldBack
  <2>2. 1 \in 1 .. Len(buffer)
    BY <1>2 DEF Texts
  <2> QED BY <1>2, <2>1, <2>2 DEF Texts
<1> HIDE DEF x, y, safe, d
<1>6. x # <<>> /\ buffer # <<>> => x[1] = "["
  <2> SUFFICES ASSUME x # <<>>, buffer # <<>> PROVE x[1] = "["
    OBVIOUS
  <2>1. 1 \in 1 .. Len(x)
    BY <1>4 DEF Texts
  <2>2. text[1] = x[1]
    BY <1>4, <2>1 DEF Texts
  <2>3. text # <<>>
    BY <1>4 DEF Texts
  <2> QED BY <1>t, <2>2, <2>3
<1>7. received' = d \o text /\ d \o text = (d \o x) \o y
  <2>1. (d \o buffer) \o c = d \o (buffer \o c)
    BY <1>2, TextAssoc
  <2>2. (d \o x) \o y = d \o (x \o y)
    BY <1>2, <1>4, TextAssoc
  <2> QED BY <1>1, <1>2, <1>4, <2>1, <2>2
<1>8. d \o x \in Texts /\ Rehydrated(d \o x) = shown'
  <2>1. Rehydrated(d \o x) = Rehydrated(d) \o Rehydrated(x)
    BY <1>1, <1>4, <1>6, PassedClean DEF d
  <2> QED BY <1>1, <1>2, <1>4, <1>5, <2>1 DEF Texts
<1>9. Passed' = d \o x /\ received' \in Texts /\ Len(buffer') <= Len(received')
  <2>1. received' = (d \o x) \o buffer' /\ buffer' = y
    BY <1>1, <1>7
  <2>2. Passed' = SubSeq(received', 1, Len(received') - Len(buffer'))
    BY DEF Passed
  <2> QED BY <1>4, <1>8, <2>1, <2>2, PassedIs
<1>10. IF buffer' = <<>> THEN Settled(received') ELSE HeldBack(buffer')
  <2>1. CASE y = <<>>
    <3>1. Settled(text)
      BY <1>4, <2>1
    <3>2. Settled(d) \/ (text # <<>> /\ text[1] = "[")
      <4>1. CASE buffer = <<>>
        <5>1. received = d
          BY <1>2, <4>1, ConcatEmptySeq DEF Texts
        <5> QED BY <1>5, <4>1, <5>1
      <4>2. CASE buffer # <<>>
        <5>1. text # <<>>
          BY <1>2, <4>2, ConcatEqualIffEmpty DEF Texts
        <5> QED BY <1>t, <4>2, <5>1
      <4> QED BY <4>1, <4>2
    <3>3. Settled(d \o text)
      BY <1>2, <1>3, <3>1, <3>2, SettledConcat
    <3> QED BY <1>1, <1>7, <2>1, <3>3
  <2>2. CASE y # <<>>
    BY <1>1, <1>4, <2>2
  <2> QED BY <2>1, <2>2
<1>11. shown' \in Texts /\ Rehydrated(x) \in Texts
  BY <1>4, <1>8, RehydratedType
<1>12. StreamInv'
  <2>1. received' = Passed' \o buffer'
    BY <1>1, <1>7, <1>9
  <2> QED BY <1>1, <1>4, <1>5, <1>8, <1>9, <1>10, <1>11, <2>1 DEF StreamInv, Texts
<1>13. shown' \o Rehydrated(buffer') = Rehydrated(received')
  <2>1. y # <<>> => y[1] = "["
    BY <1>4 DEF HeldBack
  <2>2. Rehydrated((d \o x) \o y) = Rehydrated(d \o x) \o Rehydrated(y)
    BY <1>4, <1>8, <2>1, CleanAfter, RehydratedCut
  <2> QED BY <1>1, <1>7, <1>8, <2>2
<1> QED BY <1>1, <1>11, <1>12, <1>13

\* Both kinds of answer grow by what is shown at the end.
LEMMA FlushShows ==
    ASSUME StreamInv, Flush
    PROVE  /\ StreamInv'
           /\ \E x \in Texts : shown' = shown \o x
           /\ shown' = IF restored THEN Rehydrated(received) ELSE received
<1>1. /\ mode' = "ended" /\ buffer' = <<>>
      /\ shown' = IF template THEN shown \o Rehydrated(buffer) ELSE shown
      /\ template' = template /\ restored' = restored /\ received' = received
      /\ mode = "restoring" \/ mode = "bypass"
  BY DEF Flush
<1>2. Passed \in Texts /\ buffer \in Texts /\ received = Passed \o buffer /\ received \in Texts
      /\ shown \in Texts
  BY PassedType DEF StreamInv, Texts
<1>3. <<>> \in Texts /\ Rehydrated(<<>>) = <<>>
  <2>1. [i \in DOMAIN <<>> |-> Piece(<<>>, i)] = <<>>
    OBVIOUS
  <2>2. FlattenSeq(<<>>) = <<>>
    BY DEF FlattenSeq
  <2> QED BY <2>1, <2>2 DEF Rehydrated, Texts
<1>4. shown \o <<>> = shown
  BY <1>2, ConcatEmptySeq DEF Texts
<1>5. shown' = shown \o Rehydrated(buffer)
  <2>1. CASE template
    BY <1>1, <2>1
  <2>2. CASE ~ template
    BY <1>1, <1>3, <1>4, <2>2 DEF StreamInv
  <2> QED BY <2>1, <2>2
<1>6. Rehydrated(buffer) \in Texts
  BY <1>2, RehydratedType
<1>7. shown' = IF restored THEN Rehydrated(received) ELSE received
  <2>1. CASE mode = "restoring"
    <3>1. buffer # <<>> => buffer[1] = "["
      BY <2>1 DEF StreamInv, HeldBack
    <3>2. Rehydrated(Passed \o buffer) = Rehydrated(Passed) \o Rehydrated(buffer)
      BY <1>2, <2>1, <3>1, PassedClean
    <3>3. shown = Rehydrated(Passed) /\ restored
      BY <2>1 DEF StreamInv
    <3> QED BY <1>2, <1>5, <3>2, <3>3
  <2>2. CASE mode = "bypass"
    <3>1. ~ restored /\ buffer = <<>> /\ shown = received
      BY <2>2 DEF StreamInv
    <3> QED BY <1>3, <1>4, <1>5, <3>1
  <2> QED BY <1>1, <2>1, <2>2
<1>8. StreamInv'
  <2>1. SubSeq(received \o <<>>, 1, Len(received \o <<>>) - Len(<<>>)) = received
        /\ received \o <<>> = received /\ Len(<<>>) <= Len(received)
    BY <1>2, <1>3, PassedIs, ConcatEmptySeq DEF Texts
  <2>2. Passed' = received
    BY <1>1, <2>1 DEF Passed
  <2>3. shown' \in Texts
    BY <1>2, <1>5, <1>6 DEF Texts
  <2> QED BY <1>1, <1>2, <1>3, <2>1, <2>2, <2>3 DEF StreamInv, Texts
<1> QED BY <1>5, <1>6, <1>7, <1>8

\* Without a mapping the stream is passed on as it is.
LEMMA BypassShows ==
    ASSUME StreamInv, NEW c \in Chunks, Bypass(c)
    PROVE  StreamInv' /\ shown' = received' /\ shown' = shown \o c
<1>1. /\ mode = "bypass" /\ received' = received \o c /\ shown' = shown \o c
      /\ mode' = mode /\ buffer' = buffer /\ template' = template /\ restored' = restored
  BY DEF Bypass
<1>2. received \in Texts /\ c \in Texts /\ shown = received /\ buffer = <<>> /\ ~ restored
  BY <1>1, ChunkType DEF StreamInv, Texts
<1>3. <<>> \in Texts /\ received' \in Texts
  BY <1>1, <1>2 DEF Texts
<1>4. SubSeq(received' \o <<>>, 1, Len(received' \o <<>>) - Len(<<>>)) = received'
      /\ received' \o <<>> = received' /\ Len(<<>>) <= Len(received' \o <<>>)
  BY <1>3, PassedIs, ConcatEmptySeq DEF Texts
<1>5. Passed' = received'
  BY <1>1, <1>2, <1>4 DEF Passed
<1> QED BY <1>1, <1>2, <1>3, <1>4, <1>5 DEF StreamInv, Texts

\* Every step keeps the invariant.
LEMMA StreamNextInv ==
    ASSUME StreamInv, [StreamNext]_streamVars PROVE StreamInv'
<1>1. CASE GotMapping
  <2>1. /\ mode = "asking" /\ mode' = "restoring" /\ restored' = TRUE
        /\ UNCHANGED <<buffer, template, received, shown>>
    BY <1>1 DEF GotMapping
  <2>2. received = <<>> /\ shown = <<>> /\ buffer = <<>> /\ Passed = <<>>
    <3>1. received = <<>> /\ shown = <<>>
      BY <2>1 DEF StreamInv
    <3>2. Passed \in Texts /\ buffer \in Texts /\ Passed \o buffer = <<>>
      BY <3>1, PassedType
    <3>3. Passed = <<>> /\ buffer = <<>>
      BY <3>2, ConcatEqualIffEmpty DEF Texts
    <3> QED BY <3>1, <3>3
  <2>3. Passed' = Passed
    BY <2>1 DEF Passed
  <2>4. Rehydrated(<<>>) = <<>>
    <3>1. [i \in DOMAIN <<>> |-> Piece(<<>>, i)] = <<>>
      OBVIOUS
    <3>2. FlattenSeq(<<>>) = <<>>
      BY DEF FlattenSeq
    <3> QED BY <3>1, <3>2 DEF Rehydrated
  <2>5. Settled(<<>>)
    <3>1. \A i : i \notin DOMAIN <<>>
      OBVIOUS
    <3> QED BY <3>1, Zenon DEF Settled
  <2> QED BY <2>1, <2>2, <2>3, <2>4, <2>5 DEF StreamInv
<1>2. CASE NoMapping
  <2>1. /\ mode = "asking" /\ mode' = "bypass"
        /\ UNCHANGED <<buffer, template, restored, received, shown>>
    BY <1>2 DEF NoMapping
  <2>2. received = <<>> /\ shown = <<>> /\ received = Passed \o buffer
    BY <2>1 DEF StreamInv
  <2>3. buffer = <<>>
    <3>1. Passed \in Texts /\ buffer \in Texts /\ Passed \o buffer = <<>>
      BY <2>2, PassedType
    <3> QED BY <3>1, ConcatEqualIffEmpty DEF Texts
  <2>4. Passed' = Passed
    BY <2>1 DEF Passed
  <2> QED BY <2>1, <2>2, <2>3, <2>4 DEF StreamInv
<1>3. ASSUME NEW c \in Chunks, Bypass(c) PROVE StreamInv'
  BY <1>3, BypassShows
<1>4. ASSUME NEW c \in Chunks, Process(c) PROVE StreamInv'
  BY <1>4, ProcessShows
<1>5. CASE Flush
  BY <1>5, FlushShows
<1>6. CASE UNCHANGED streamVars
  <2>1. Passed' = Passed
    BY <1>6 DEF Passed, streamVars
  <2> QED BY <1>6, <2>1 DEF StreamInv, streamVars
<1> QED BY <1>1, <1>2, <1>3, <1>4, <1>5, <1>6 DEF StreamNext

\* What has been shown is what was passed on, restored, and the rest is held
\* back as long as a placeholder could begin in it (process_chunk).
THEOREM StreamInvariant == StreamSpec => []StreamInv
<1>1. StreamInit => StreamInv
  BY StreamInitInv
<1>2. StreamInv /\ [StreamNext]_streamVars => StreamInv'
  BY StreamNextInv
<1> QED BY <1>1, <1>2, PTL DEF StreamSpec

\* The cut between what was passed on and what is held back is clean.
LEMMA InvNothingLost == ASSUME StreamInv PROVE NothingLost
<1>1. CASE mode = "restoring"
  <2>1. buffer # <<>> => HeldBack(buffer)
    BY <1>1 DEF StreamInv
  <2>2. buffer # <<>> => buffer[1] = "["
    BY <2>1 DEF HeldBack
  <2>3. Rehydrated(Passed \o buffer) = Rehydrated(Passed) \o Rehydrated(buffer)
    BY <1>1, <2>2, PassedType, PassedClean
  <2> QED BY <1>1, <2>1, <2>3, PassedType DEF StreamInv, NothingLost
<1>2. CASE mode # "restoring"
  <2>1. buffer = <<>>
    <3>1. CASE mode = "asking"
      <4>1. Passed \in Texts /\ buffer \in Texts /\ Passed \o buffer = <<>>
        BY <3>1, PassedType DEF StreamInv
      <4> QED BY <4>1, ConcatEqualIffEmpty DEF Texts
    <3>2. CASE mode = "bypass" \/ mode = "ended"
      BY <3>2 DEF StreamInv
    <3> QED BY <1>2, <3>1, <3>2 DEF StreamInv
  <2> QED BY <1>2, <2>1 DEF NothingLost
<1> QED BY <1>1, <1>2

\* What is shown and what is held back together are the restored answer, for
\* every mapping and every way to cut it into chunks (process_chunk).
THEOREM StreamNothingLost == StreamSpec => []NothingLost
<1>1. StreamInv => NothingLost
  BY InvNothingLost
<1> QED BY <1>1, StreamInvariant, PTL

\* Every step of the hook is a step of the contract, or none.
LEMMA StreamStep ==
    ASSUME StreamInv, StreamInv', [StreamNext]_streamVars
    PROVE  [Contract!Next]_(Contract!contractVars)
<1> USE DEF Contract!contractVars
<1> DEFINE kind == IF mode = "asking" THEN "undecided"
                   ELSE IF restored THEN "restored" ELSE "verbatim"
           ended == mode = "ended"
<1>1. CASE GotMapping
  BY <1>1 DEF GotMapping, Contract!Next, Contract!Decide
<1>2. CASE NoMapping
  BY <1>2 DEF NoMapping, Contract!Next, Contract!Decide, StreamInv
<1>3. ASSUME NEW c \in Chunks, Bypass(c) PROVE Contract!Receive(c)
  <2>1. /\ mode = "bypass" /\ ~ restored /\ mode' = mode /\ restored' = restored
        /\ received' = received \o c
    BY <1>3 DEF Bypass, StreamInv
  <2>2. shown' = received' /\ shown' = shown \o c
    BY <1>3, BypassShows
  <2>3. shown \in Texts /\ c \in Texts /\ shown' \in Texts
    BY ChunkType DEF StreamInv, Texts
  <2>4. IsPrefix(shown, shown')
    BY <2>2, <2>3, PrefixConcat
  <2>5. IsPrefix(shown', received')
    BY <2>2, <2>3 DEF IsPrefix, Texts
  <2>6. Contract!Final(received') = received'
    BY <2>1 DEF Contract!Final
  <2>7. mode # "asking" /\ mode # "ended" /\ mode' # "asking" /\ mode' # "ended"
    BY <2>1
  <2>8. kind # "undecided" /\ kind' = kind /\ ~ ended /\ ended' = ended
    BY <2>1, <2>7
  <2>9. IsPrefix(shown', Contract!Final(received'))
    BY <2>5, <2>6
  <2> QED BY <2>1, <2>4, <2>8, <2>9, Zenon DEF Contract!Receive, Contract!IsPrefix, IsPrefix
<1>4. ASSUME NEW c \in Chunks, Process(c) PROVE Contract!Receive(c)
  <2>1. mode = "restoring" /\ restored /\ mode' = mode /\ restored' = restored
    BY <1>4 DEF Process, StreamInv
  <2>2. PICK x \in Texts : shown' = shown \o x
    BY <1>4, ProcessShows
  <2>3. /\ received' = received \o c
        /\ shown' \o Rehydrated(buffer') = Rehydrated(received')
    BY <1>4, ProcessShows
  <2>4. shown \in Texts /\ shown' \in Texts /\ buffer' \in Texts
    BY DEF StreamInv, Texts
  <2>5. IsPrefix(shown, shown')
    BY <2>2, <2>4, PrefixConcat
  <2>6. IsPrefix(shown', Rehydrated(received'))
    BY <2>3, <2>4, RehydratedType, PrefixConcat
  <2>7. mode # "asking" /\ mode # "ended" /\ mode' # "asking" /\ mode' # "ended"
    BY <2>1
  <2>8. kind # "undecided" /\ kind' = kind /\ ~ ended /\ ended' = ended
    BY <2>1, <2>7
  <2>9. Contract!Final(received') = Rehydrated(received')
    BY <2>1 DEF Contract!Final
  <2>10. IsPrefix(shown', Contract!Final(received'))
    BY <2>6, <2>9
  <2> QED BY <2>3, <2>5, <2>8, <2>10, Zenon DEF Contract!Receive, Contract!IsPrefix, IsPrefix
<1>5. CASE Flush
  <2>1. /\ mode \in {"restoring", "bypass"} /\ mode' = "ended" /\ restored' = restored
        /\ received' = received
    BY <1>5 DEF Flush
  <2>2. PICK x \in Texts : shown' = shown \o x
    BY <1>5, FlushShows
  <2>3. shown' = IF restored THEN Rehydrated(received) ELSE received
    BY <1>5, FlushShows
  <2>4. IsPrefix(shown, shown')
    BY <2>2, PrefixConcat DEF StreamInv, Texts
  <2>5. Contract!End
    <3>1. mode # "asking" /\ mode # "ended" /\ mode' # "asking"
      BY <2>1
    <3>2. Contract!Final(received) = IF restored THEN Rehydrated(received) ELSE received
      <4>1. CASE restored
        BY <3>1, <4>1 DEF Contract!Final
      <4>2. CASE ~ restored
        BY <3>1, <4>2 DEF Contract!Final
      <4> QED BY <4>1, <4>2
    <3>3. kind # "undecided" /\ kind' = kind /\ ~ ended /\ ended' = TRUE
      BY <2>1, <3>1
    <3>4. shown' = Contract!Final(received)
      BY <2>3, <3>2
    <3> QED BY <2>1, <2>4, <3>3, <3>4, Zenon DEF Contract!End, Contract!IsPrefix, IsPrefix
  <2> QED BY <2>5 DEF Contract!Next
<1>6. CASE UNCHANGED streamVars
  BY <1>6 DEF streamVars
<1> QED BY <1>1, <1>2, <1>3, <1>4, <1>5, <1>6 DEF StreamNext, Contract!Next

\* The streaming hook keeps its contract: the client sees a growing beginning of
\* the restored answer, and all of it when the stream ends (flush_remaining).
THEOREM StreamKeepsContract == StreamSpec => ContractSpec
<1>1. StreamInit => Contract!Init
  BY DEF StreamInit, Contract!Init
<1>2. StreamInv /\ StreamInv' /\ [StreamNext]_streamVars => [Contract!Next]_(Contract!contractVars)
  BY StreamStep
<1> QED BY <1>1, <1>2, StreamInvariant, PTL DEF StreamSpec, ContractSpec, Contract!Spec
=============================================================================
