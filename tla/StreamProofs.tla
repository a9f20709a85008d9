----------------------------- MODULE StreamProofs -----------------------------
(***************************************************************************)
(* Proofs about the streams of the two providers, for any alphabet, any    *)
(* two tags, any chunks an upstream may send and as many as it likes: what *)
(* OpenAIProvider.stream (src/providers/openai.go) writes is a stream a    *)
(* client can follow, with the whole text and one ending; and what the     *)
(* converter (src/router/convert.go) and sseBytesToMessage                 *)
(* (src/router/sse.go) make of the events that AnthropicProvider.Stream    *)
(* (src/providers/anthropic.go) has copied is what was sent, as far as it  *)
(* came.  The think filter's recursion and the loops are taken apart by    *)
(* FoldTheorems.                                                           *)
(***************************************************************************)
EXTENDS ProviderStreams, SequenceTheorems, FiniteSetTheorems, TLAPS

-------------------------------------------------------------------------------
(* Sequences and tags.                                                         *)

\* Facts about data, which do not depend on the step of a loop.
F == INSTANCE FoldTheorems WITH Step <- ToolCall, Good <- LAMBDA s, q, i, t : TRUE

\* What IsPrefix and IsSuffix compare, letter by letter.
LEMMA PrefixIs ==
  ASSUME NEW S, NEW s \in Seq(S), NEW t \in Seq(S)
  PROVE  IsPrefix(s, t) <=> Len(s) <= Len(t) /\ \A j \in 1..Len(s) : s[j] = t[j]
<1>1. Len(s) \in Nat /\ Len(t) \in Nat
  OBVIOUS
<1>2. SubSeq(s, 1, Len(s)) = [j \in 1..Len(s) |-> s[j]]
  OBVIOUS
<1>3. ASSUME Len(s) <= Len(t) PROVE SubSeq(t, 1, Len(s)) = [j \in 1..Len(s) |-> t[j]]
  BY <1>3, <1>1
<1> QED BY <1>1, <1>2, <1>3 DEF IsPrefix

LEMMA SuffixIs ==
  ASSUME NEW S, NEW s \in Seq(S), NEW t \in Seq(S)
  PROVE  IsSuffix(s, t) <=> /\ Len(s) <= Len(t)
                            /\ \A j \in 1..Len(s) : s[j] = t[Len(t) - Len(s) + j]
<1>1. Len(s) \in Nat /\ Len(t) \in Nat
  OBVIOUS
<1>2. /\ Reverse(s) \in Seq(S) /\ Len(Reverse(s)) = Len(s)
      /\ \A j \in 1..Len(s) : Reverse(s)[j] = s[Len(s) - j + 1]
  BY <1>1 DEF Reverse
<1>3. /\ Reverse(t) \in Seq(S) /\ Len(Reverse(t)) = Len(t)
      /\ \A j \in 1..Len(t) : Reverse(t)[j] = t[Len(t) - j + 1]
  BY <1>1 DEF Reverse
<1>4. IsSuffix(s, t) <=> Len(s) <= Len(t) /\ \A j \in 1..Len(s) : Reverse(s)[j] = Reverse(t)[j]
  BY <1>2, <1>3, PrefixIs DEF IsSuffix
<1>5. ASSUME Len(s) <= Len(t), \A j \in 1..Len(s) : Reverse(s)[j] = Reverse(t)[j], NEW j \in 1..Len(s)
      PROVE  s[j] = t[Len(t) - Len(s) + j]
  <2> DEFINE k == Len(s) - j + 1
  <2>1. /\ k \in 1..Len(s) /\ k \in 1..Len(t)
        /\ Len(s) - k + 1 = j /\ Len(t) - k + 1 = Len(t) - Len(s) + j
    BY <1>1, <1>5
  <2> HIDE DEF k
  <2>2. Reverse(s)[k] = s[Len(s) - k + 1] /\ Reverse(t)[k] = t[Len(t) - k + 1]
    BY <1>2, <1>3, <2>1
  <2> QED BY <2>1, <2>2, <1>5
<1>6. ASSUME Len(s) <= Len(t), \A j \in 1..Len(s) : s[j] = t[Len(t) - Len(s) + j], NEW j \in 1..Len(s)
      PROVE  Reverse(s)[j] = Reverse(t)[j]
  <2> DEFINE k == Len(s) - j + 1
  <2>1. /\ k \in 1..Len(s) /\ j \in 1..Len(t)
        /\ Len(t) - j + 1 = Len(t) - Len(s) + k
    BY <1>1, <1>6
  <2> HIDE DEF k
  <2>2. Reverse(s)[j] = s[k] /\ Reverse(t)[j] = t[Len(t) - j + 1]
    BY <1>2, <1>3, <2>1 DEF k
  <2> QED BY <2>1, <2>2, <1>6
<1> QED BY <1>4, <1>5, <1>6

\* Min and Max of a set of numbers are in it, and at its ends.
LEMMA MinOfSet ==
  ASSUME NEW S, S \subseteq Nat, S # {}
  PROVE  Min(S) \in S /\ \A j \in S : Min(S) <= j
BY F!LeastOfSet DEF Min

LEMMA MaxOfSet ==
  ASSUME NEW n \in Nat, NEW S, S \subseteq 0..n, S # {}
  PROVE  Max(S) \in S /\ \A j \in S : Max(S) >= j
<1> DEFINE D == {n - x : x \in S}
<1>1. D \subseteq Nat /\ D # {}
  <2>1. \A x \in S : n - x \in Nat
    OBVIOUS
  <2>2. D \subseteq Nat
    BY <2>1
  <2>3. PICK x : x \in S
    OBVIOUS
  <2>4. n - x \in D
    BY <2>3
  <2> QED BY <2>2, <2>4
<1>2. PICK d \in D : \A e \in D : d <= e
  <2> HIDE DEF D
  <2> QED BY <1>1, F!LeastOfSet
<1>3. PICK m \in S : d = n - m
  BY <1>2
<1>4. ASSUME NEW j \in S PROVE m >= j
  <2>1. n - j \in D
    OBVIOUS
  <2>2. d <= n - j
    BY <1>2, <2>1
  <2>3. m \in 0..n /\ j \in 0..n
    OBVIOUS
  <2> QED BY <1>3, <2>2, <2>3
<1>5. \E x \in S : \A y \in S : x >= y
  BY <1>4
<1> HIDE DEF D
<1> QED BY <1>5 DEF Max

\* A tag is a word of one letter at least.
LEMMA TagType ==
  ASSUME NEW i \in BOOLEAN
  PROVE  Tag(i) \in Seq(Letters) /\ Len(Tag(i)) \in Nat /\ Len(Tag(i)) >= 1
BY TagAssumption DEF Tag

LEMMA DropType ==
  ASSUME NEW s \in Seq(Letters), NEW n \in 0..Len(s)
  PROVE  /\ DropFirst(s, n) \in Seq(Letters)
         /\ Len(DropFirst(s, n)) = Len(s) - n
         /\ \A j \in 1..Len(s) - n : DropFirst(s, n)[j] = s[n + j]
BY DEF DropFirst

(* Where a word stands. *)
LEMMA OccurrencesAre ==
  ASSUME NEW s \in Seq(Letters), NEW w \in Seq(Letters)
  PROVE  /\ Occurrences(s, w) \subseteq 1..Len(s)
         /\ \A i \in 1..Len(s) : i \in Occurrences(s, w) <=>
              /\ Len(w) <= Len(s) - (i - 1)
              /\ \A j \in 1..Len(w) : w[j] = s[i - 1 + j]
<1>1. Len(s) \in Nat /\ Len(w) \in Nat
  OBVIOUS
<1>2. ASSUME NEW i \in 1..Len(s)
      PROVE  IsPrefix(w, DropFirst(s, i - 1)) <=>
               /\ Len(w) <= Len(s) - (i - 1)
               /\ \A j \in 1..Len(w) : w[j] = s[i - 1 + j]
  <2> DEFINE d == DropFirst(s, i - 1)
  <2>1. /\ d \in Seq(Letters) /\ Len(d) = Len(s) - (i - 1)
        /\ \A j \in 1..Len(s) - (i - 1) : d[j] = s[i - 1 + j]
    <3>1. i - 1 \in 0..Len(s)
      BY <1>1
    <3> QED BY <3>1, DropType
  <2> HIDE DEF d
  <2>2. IsPrefix(w, d) <=> Len(w) <= Len(d) /\ \A j \in 1..Len(w) : w[j] = d[j]
    BY <2>1, PrefixIs
  <2> QED BY <2>1, <2>2, <1>1 DEF d
<1> QED BY <1>2 DEF Occurrences

\* What is kept back is shorter than the tag, and no longer one may be it.
LEMMA OverlapIs ==
  ASSUME NEW s \in Seq(Letters), NEW tag \in Seq(Letters), Len(tag) >= 1
  PROVE  LET o == PartialTagOverlap(s, tag) IN
         /\ o \in 0..Len(s) /\ o < Len(tag)
         /\ \A j \in 1..o : tag[j] = s[Len(s) - o + j]
         /\ \A l \in 0..Len(s) : l < Len(tag) /\ (\A j \in 1..l : tag[j] = s[Len(s) - l + j]) => l <= o
<1>1. Len(s) \in Nat /\ Len(tag) \in Nat
  OBVIOUS
<1> DEFINE B == {Len(tag) - 1, Len(s)}
           n == Min(B)
           S == {l \in 0..n : IsSuffix(SubSeq(tag, 1, l), s)}
<1>2. n \in Nat /\ n <= Len(tag) - 1 /\ n <= Len(s) /\ \A l \in Nat : l <= Len(tag) - 1 /\ l <= Len(s) => l <= n
  <2>1. B \subseteq Nat /\ B # {}
    BY <1>1
  <2>2. Len(tag) - 1 \in B /\ Len(s) \in B /\ \A x \in B : x = Len(tag) - 1 \/ x = Len(s)
    OBVIOUS
  <2> HIDE DEF B
  <2>3. n \in B /\ \A j \in B : n <= j
    BY <2>1, MinOfSet
  <2> HIDE DEF n
  <2> QED BY <2>1, <2>2, <2>3
<1> HIDE DEF n
<1>3. ASSUME NEW l \in 0..n
      PROVE  l \in S <=> \A j \in 1..l : tag[j] = s[Len(s) - l + j]
  <2> DEFINE p == SubSeq(tag, 1, l)
  <2>1. p \in Seq(Letters) /\ Len(p) = l /\ \A j \in 1..l : p[j] = tag[j]
    BY <1>1, <1>2
  <2> HIDE DEF p
  <2>2. IsSuffix(p, s) <=> Len(p) <= Len(s) /\ \A j \in 1..Len(p) : p[j] = s[Len(s) - Len(p) + j]
    BY <2>1, SuffixIs
  <2>3. l <= Len(s)
    BY <1>2
  <2> QED BY <2>1, <2>2, <2>3 DEF p
<1>4. 0 \in S
  <2>1. 0 \in 0..n /\ \A j \in 1..0 : FALSE
    BY <1>2
  <2> HIDE DEF S
  <2> QED BY <2>1, <1>3
<1>5. Max(S) \in S /\ \A j \in S : Max(S) >= j
  <2>1. S \subseteq 0..n /\ S # {}
    BY <1>4
  <2> HIDE DEF S
  <2> QED BY <2>1, <1>2, MaxOfSet
<1> DEFINE o == PartialTagOverlap(s, tag)
<1>6. o = Max(S)
  BY DEF PartialTagOverlap, n
<1>7. o \in 0..n
  BY <1>5, <1>6
<1> HIDE DEF o, S
<1>8. \A j \in 1..o : tag[j] = s[Len(s) - o + j]
  BY <1>3, <1>5, <1>6, <1>7
<1>9. ASSUME NEW l \in 0..Len(s), l < Len(tag), \A j \in 1..l : tag[j] = s[Len(s) - l + j] PROVE l <= o
  <2>1. l \in 0..n
    BY <1>9, <1>1, <1>2
  <2>2. l \in S
    BY <2>1, <1>3, <1>9
  <2> QED BY <2>1, <2>2, <1>5, <1>6, <1>7
<1>10. o \in 0..Len(s) /\ o < Len(tag)
  BY <1>1, <1>2, <1>7
<1> QED BY <1>8, <1>9, <1>10 DEF o

-------------------------------------------------------------------------------
(* Meaning and Process are functions.                                          *)

Parts  == [text: Seq(Letters), think: Seq(Letters)]
Filtered == [text: Seq(Letters), think: Seq(Letters), inThink: BOOLEAN, partial: Seq(Letters)]
TextSize == [s \in Seq(Letters) |-> Len(s)]

\* The right sides of Meaning and Process, of the function they define.
MeaningBody(f, s, inThink) ==
  IF s = <<>> THEN [text |-> <<>>, think |-> <<>>]
  ELSE IF IsPrefix(Tag(inThink), s)
       THEN f[DropFirst(s, Len(Tag(inThink)))][~inThink]
       ELSE Prepend(inThink, <<Head(s)>>, f[Tail(s)][inThink])

ProcessBody(f, buf, inThink) ==
  LET tag   == Tag(inThink)
      at    == Occurrences(buf, tag)
      whole == Len(buf) - PartialTagOverlap(buf, tag)
  IN  IF at # {}
      THEN Prepend(inThink, SubSeq(buf, 1, Min(at) - 1),
                   f[DropFirst(buf, Min(at) - 1 + Len(tag))][~inThink])
      ELSE Prepend(inThink, SubSeq(buf, 1, whole),
                   [text |-> <<>>, think |-> <<>>, inThink |-> inThink,
                    partial |-> DropFirst(buf, whole)])

LEMMA MeaningStep ==
  ASSUME NEW s \in Seq(Letters), s # <<>>, NEW i \in BOOLEAN
  PROVE  /\ IsPrefix(Tag(i), s) =>
              DropFirst(s, Len(Tag(i))) \in Seq(Letters) /\ Len(DropFirst(s, Len(Tag(i)))) < Len(s)
         /\ Head(s) \in Letters /\ Tail(s) \in Seq(Letters) /\ Len(Tail(s)) < Len(s)
<1>1. Tag(i) \in Seq(Letters) /\ Len(Tag(i)) \in Nat /\ Len(Tag(i)) >= 1 /\ Len(s) \in Nat
  BY TagType
<1>2. ASSUME IsPrefix(Tag(i), s)
      PROVE  DropFirst(s, Len(Tag(i))) \in Seq(Letters) /\ Len(DropFirst(s, Len(Tag(i)))) < Len(s)
  <2>1. Len(Tag(i)) \in 0..Len(s)
    BY <1>1, <1>2 DEF IsPrefix
  <2>2. DropFirst(s, Len(Tag(i))) \in Seq(Letters) /\ Len(DropFirst(s, Len(Tag(i)))) = Len(s) - Len(Tag(i))
    BY <2>1, DropType
  <2> QED BY <2>2, <1>1
<1>3. Head(s) \in Letters /\ Tail(s) \in Seq(Letters) /\ Len(Tail(s)) = Len(s) - 1
  BY HeadTailProperties
<1> QED BY <1>1, <1>2, <1>3

LEMMA NotBoolean == ASSUME NEW i \in BOOLEAN PROVE (~i) \in BOOLEAN
OBVIOUS

\* What Prepend makes of a result, part by part.
LEMMA PrependParts ==
  ASSUME NEW i \in BOOLEAN, NEW s \in Seq(Letters), NEW r \in Parts
  PROVE  /\ Prepend(i, s, r) \in Parts
         /\ Prepend(i, s, r).text = IF i THEN r.text ELSE s \o r.text
         /\ Prepend(i, s, r).think = IF i THEN s \o r.think ELSE r.think
<1>1. /\ r.text \in Seq(Letters) /\ r.think \in Seq(Letters)
      /\ s \o r.text \in Seq(Letters) /\ s \o r.think \in Seq(Letters)
  BY DEF Parts
<1>2. CASE i
  BY <1>1, <1>2 DEF Prepend, Parts
<1>3. CASE ~i
  BY <1>1, <1>3 DEF Prepend, Parts
<1> QED BY <1>2, <1>3

LEMMA PrependFiltered ==
  ASSUME NEW i \in BOOLEAN, NEW s \in Seq(Letters), NEW r \in Filtered
  PROVE  /\ Prepend(i, s, r) \in Filtered
         /\ Prepend(i, s, r).text = IF i THEN r.text ELSE s \o r.text
         /\ Prepend(i, s, r).think = IF i THEN s \o r.think ELSE r.think
         /\ Prepend(i, s, r).inThink = r.inThink
         /\ Prepend(i, s, r).partial = r.partial
<1>1. /\ r.text \in Seq(Letters) /\ r.think \in Seq(Letters)
      /\ s \o r.text \in Seq(Letters) /\ s \o r.think \in Seq(Letters)
  BY DEF Filtered
<1>2. CASE i
  BY <1>1, <1>2 DEF Prepend, Filtered
<1>3. CASE ~i
  BY <1>1, <1>3 DEF Prepend, Filtered
<1> QED BY <1>2, <1>3

\* Where process cuts a text with a whole tag in it, and one with none.
LEMMA TagPosition ==
  ASSUME NEW buf \in Seq(Letters), NEW i \in BOOLEAN, Occurrences(buf, Tag(i)) # {}
  PROVE  LET at == Min(Occurrences(buf, Tag(i)))
             n  == at - 1 + Len(Tag(i)) IN
         /\ at \in Occurrences(buf, Tag(i)) /\ at \in 1..Len(buf)
         /\ \A j \in Occurrences(buf, Tag(i)) : at <= j
         /\ n \in 0..Len(buf) /\ n >= 1
         /\ SubSeq(buf, 1, at - 1) \in Seq(Letters)
         /\ Len(SubSeq(buf, 1, at - 1)) = at - 1
         /\ DropFirst(buf, n) \in Seq(Letters) /\ Len(DropFirst(buf, n)) = Len(buf) - n
<1> DEFINE O == Occurrences(buf, Tag(i))
           at == Min(O)
           n == at - 1 + Len(Tag(i))
<1>1. Tag(i) \in Seq(Letters) /\ Len(Tag(i)) \in Nat /\ Len(Tag(i)) >= 1 /\ Len(buf) \in Nat
  BY TagType
<1>2. /\ O \subseteq 1..Len(buf)
      /\ \A k \in 1..Len(buf) : k \in O => Len(Tag(i)) <= Len(buf) - (k - 1)
  BY <1>1, OccurrencesAre
<1> HIDE DEF O
<1>3. at \in O /\ \A j \in O : at <= j
  <2>1. O # {}
    BY DEF O
  <2>2. O \subseteq Nat
    BY <1>1, <1>2
  <2> QED BY <2>1, <2>2, MinOfSet
<1>4. at \in 1..Len(buf) /\ Len(Tag(i)) <= Len(buf) - (at - 1)
  BY <1>2, <1>3
<1> HIDE DEF at
<1>5. n \in 0..Len(buf) /\ n >= 1 /\ at - 1 \in 0..Len(buf)
  BY <1>1, <1>4
<1>6. DropFirst(buf, n) \in Seq(Letters) /\ Len(DropFirst(buf, n)) = Len(buf) - n
  BY <1>5, DropType
<1>7. SubSeq(buf, 1, at - 1) \in Seq(Letters) /\ Len(SubSeq(buf, 1, at - 1)) = at - 1
  BY <1>5, <1>1
<1> QED BY <1>3, <1>4, <1>5, <1>6, <1>7 DEF O, at

LEMMA OverlapPosition ==
  ASSUME NEW buf \in Seq(Letters), NEW i \in BOOLEAN
  PROVE  LET whole == Len(buf) - PartialTagOverlap(buf, Tag(i)) IN
         /\ whole \in 0..Len(buf)
         /\ SubSeq(buf, 1, whole) \in Seq(Letters)
         /\ DropFirst(buf, whole) \in Seq(Letters)
         /\ Len(DropFirst(buf, whole)) = Len(buf) - whole
         /\ Len(buf) - whole < Len(Tag(i))
<1> DEFINE o == PartialTagOverlap(buf, Tag(i))
           whole == Len(buf) - o
<1>1. Tag(i) \in Seq(Letters) /\ Len(Tag(i)) \in Nat /\ Len(Tag(i)) >= 1 /\ Len(buf) \in Nat
  BY TagType
<1>2. o \in 0..Len(buf) /\ o < Len(Tag(i))
  BY <1>1, OverlapIs
<1> HIDE DEF o
<1>3. whole \in 0..Len(buf) /\ Len(buf) - whole = o
  BY <1>1, <1>2
<1>4. SubSeq(buf, 1, whole) \in Seq(Letters)
  BY <1>3, <1>1
<1> HIDE DEF whole
<1>5. DropFirst(buf, whole) \in Seq(Letters) /\ Len(DropFirst(buf, whole)) = Len(buf) - whole
  BY <1>3, DropType
<1> QED BY <1>2, <1>3, <1>4, <1>5 DEF o, whole

\* The right sides have values of the type, and depend on shorter texts only.
LEMMA MeaningBodyOK ==
  ASSUME NEW f \in [Seq(Letters) -> [BOOLEAN -> Parts]], NEW s \in Seq(Letters), NEW i \in BOOLEAN
  PROVE  /\ MeaningBody(f, s, i) \in Parts
         /\ \A g : (\A y \in Seq(Letters) : Len(y) < Len(s) => f[y] = g[y])
              => MeaningBody(f, s, i) = MeaningBody(g, s, i)
<1>1. CASE s = <<>>
  BY <1>1 DEF MeaningBody, Parts
<1>2. CASE s # <<>> /\ IsPrefix(Tag(i), s)
  <2> DEFINE d == DropFirst(s, Len(Tag(i)))
  <2>1. d \in Seq(Letters) /\ Len(d) < Len(s)
    BY <1>2, MeaningStep
  <2> HIDE DEF d
  <2>2. \A g : MeaningBody(g, s, i) = g[d][~i]
    BY <1>2 DEF MeaningBody, d
  <2>3. (~i) \in BOOLEAN
    BY NotBoolean
  <2>4. f[d] \in [BOOLEAN -> Parts]
    BY <2>1
  <2>5. f[d][~i] \in Parts
    BY <2>3, <2>4
  <2> QED BY <2>1, <2>2, <2>5
<1>3. CASE s # <<>> /\ ~IsPrefix(Tag(i), s)
  <2> DEFINE t == Tail(s)
             h == <<Head(s)>>
  <2>1. t \in Seq(Letters) /\ Len(t) < Len(s) /\ h \in Seq(Letters)
    BY <1>3, MeaningStep
  <2> HIDE DEF t, h
  <2>2. \A g : MeaningBody(g, s, i) = Prepend(i, h, g[t][i])
    BY <1>3 DEF MeaningBody, t, h
  <2>4. f[t] \in [BOOLEAN -> Parts]
    BY <2>1
  <2>5. f[t][i] \in Parts
    BY <2>4
  <2>6. Prepend(i, h, f[t][i]) \in Parts
    BY <2>1, <2>5, PrependParts
  <2> QED BY <2>1, <2>2, <2>6
<1> QED BY <1>1, <1>2, <1>3

LEMMA ProcessBodyOK ==
  ASSUME NEW f \in [Seq(Letters) -> [BOOLEAN -> Filtered]], NEW s \in Seq(Letters), NEW i \in BOOLEAN
  PROVE  /\ ProcessBody(f, s, i) \in Filtered
         /\ \A g : (\A y \in Seq(Letters) : Len(y) < Len(s) => f[y] = g[y])
              => ProcessBody(f, s, i) = ProcessBody(g, s, i)
<1>1. CASE Occurrences(s, Tag(i)) # {}
  <2> DEFINE at == Min(Occurrences(s, Tag(i)))
             n == at - 1 + Len(Tag(i))
             d == DropFirst(s, n)
             h == SubSeq(s, 1, at - 1)
  <2>1. n \in 0..Len(s) /\ n >= 1 /\ d \in Seq(Letters) /\ Len(d) = Len(s) - n /\ h \in Seq(Letters)
    BY <1>1, TagPosition
  <2>2. \A g : ProcessBody(g, s, i) = Prepend(i, h, g[d][~i])
    BY <1>1 DEF ProcessBody
  <2> HIDE DEF d, h, n
  <2>3. Len(d) < Len(s) /\ (~i) \in BOOLEAN
    BY <2>1, NotBoolean
  <2>4. f[d] \in [BOOLEAN -> Filtered]
    BY <2>1
  <2>5. f[d][~i] \in Filtered
    BY <2>3, <2>4
  <2>6. Prepend(i, h, f[d][~i]) \in Filtered
    BY <2>1, <2>5, PrependFiltered
  <2> QED BY <2>1, <2>2, <2>3, <2>6
<1>2. CASE Occurrences(s, Tag(i)) = {}
  <2> DEFINE whole == Len(s) - PartialTagOverlap(s, Tag(i))
             d == DropFirst(s, whole)
             h == SubSeq(s, 1, whole)
             r == [text |-> <<>>, think |-> <<>>, inThink |-> i, partial |-> d]
  <2>1. h \in Seq(Letters) /\ d \in Seq(Letters)
    BY OverlapPosition
  <2>2. \A g : ProcessBody(g, s, i) = Prepend(i, h, r)
    BY <1>2 DEF ProcessBody
  <2> HIDE DEF d, h
  <2>3. r \in Filtered
    BY <2>1 DEF Filtered
  <2> HIDE DEF r
  <2>6. Prepend(i, h, r) \in Filtered
    BY <2>1, <2>3, PrependFiltered
  <2> QED BY <2>2, <2>6
<1> QED BY <1>1, <1>2

LEMMA TextSizes ==
  /\ TextSize \in [Seq(Letters) -> Nat]
  /\ \A s \in Seq(Letters) : TextSize[s] = Len(s)
BY DEF TextSize

\* Meaning and Process are the functions that their definitions describe.
LEMMA MeaningIs ==
  /\ Meaning \in [Seq(Letters) -> [BOOLEAN -> Parts]]
  /\ \A s \in Seq(Letters), i \in BOOLEAN : Meaning[s][i] = MeaningBody(Meaning, s, i)
<1> DEFINE S == Seq(Letters)
           T == [BOOLEAN -> Parts]
           phi(f) == [b \in S |-> [k \in BOOLEAN |-> MeaningBody(f, b, k)]]
           Phi == [f \in [S -> T] |-> phi(f)]
<1>1. ASSUME NEW f \in [S -> T] PROVE phi(f) \in [S -> T]
  <2>1. \A b \in S, k \in BOOLEAN : MeaningBody(f, b, k) \in Parts
    BY MeaningBodyOK
  <2> QED BY <2>1
<1>2. Phi \in [[S -> T] -> [S -> T]]
  <2> HIDE DEF phi
  <2> QED BY <1>1
<1>3. ASSUME NEW f \in [S -> T], NEW g, NEW x \in S,
             \A y \in S : Len(y) < Len(x) => f[y] = g[y]
      PROVE  phi(f)[x] = phi(g)[x]
  <2>1. ASSUME NEW k \in BOOLEAN PROVE MeaningBody(f, x, k) = MeaningBody(g, x, k)
    <3>1. \A h : (\A y \in Seq(Letters) : Len(y) < Len(x) => f[y] = h[y])
            => MeaningBody(f, x, k) = MeaningBody(h, x, k)
      BY MeaningBodyOK
    <3> QED BY <3>1, <1>3
  <2> QED BY <2>1
<1>4. \A f, g \in [S -> T] : \A x \in S :
        (\A y \in S : TextSize[y] < TextSize[x] => f[y] = g[y]) => Phi[f][x] = Phi[g][x]
  <2> SUFFICES ASSUME NEW f \in [S -> T], NEW g \in [S -> T], NEW x \in S,
                      \A y \in S : TextSize[y] < TextSize[x] => f[y] = g[y]
               PROVE  Phi[f][x] = Phi[g][x]
    BY Zenon
  <2>1. \A y \in S : Len(y) < Len(x) => f[y] = g[y]
    BY TextSizes
  <2> HIDE DEF phi
  <2>2. phi(f)[x] = phi(g)[x]
    BY <2>1, <1>3
  <2> QED BY <2>2
<1>5. T # {}
  <2>1. [text |-> <<>>, think |-> <<>>] \in Parts
    BY DEF Parts
  <2>2. [k \in BOOLEAN |-> [text |-> <<>>, think |-> <<>>]] \in T
    BY <2>1
  <2> QED BY <2>2
<1>6. PICK g \in [S -> T] : g = Phi[g]
  <2>1. TextSize \in [S -> Nat]
    BY TextSizes
  <2> HIDE DEF Phi, T, S
  <2>2. F!Recursion(S, T, TextSize, Phi)
    BY <1>2, <1>4, <1>5, <2>1, Zenon DEF F!Recursion
  <2> QED BY <2>2, F!RecursionExists
<1>7. g = phi(g)
  BY <1>6
<1>8. Meaning = CHOOSE f : f = phi(f)
  BY DEF Meaning, MeaningBody
<1> DEFINE M == Meaning
<1>9. M = phi(M)
  <2> HIDE DEF phi
  <2> QED BY <1>7, <1>8
<1> DEFINE A == {n \in Nat : \A x \in S : Len(x) < n => M[x] = g[x]}
<1>10. 0 \in A
  BY LenProperties
<1>11. ASSUME NEW n \in Nat, n \in A PROVE n + 1 \in A
  <2> SUFFICES ASSUME NEW x \in S, Len(x) < n + 1 PROVE M[x] = g[x]
    OBVIOUS
  <2>1. \A y \in S : Len(y) < Len(x) => g[y] = M[y]
    <3> SUFFICES ASSUME NEW y \in S, Len(y) < Len(x) PROVE g[y] = M[y]
      OBVIOUS
    <3>1. Len(x) \in Nat /\ Len(y) \in Nat
      BY LenProperties
    <3>2. Len(y) < n
      BY <3>1, <1>11
    <3> HIDE DEF M
    <3> QED BY <3>2, <1>11
  <2> HIDE DEF M, phi
  <2>2. phi(g)[x] = phi(M)[x]
    BY <2>1, <1>3
  <2> QED BY <2>2, <1>7, <1>9
<1>12. \A n \in Nat : n \in A
  <2> HIDE DEF A
  <2> QED BY <1>10, <1>11, F!NatSetInduction
<1>13. \A x \in S : M[x] = g[x]
  <2> SUFFICES ASSUME NEW x \in S PROVE M[x] = g[x]
    OBVIOUS
  <2>1. Len(x) \in Nat /\ Len(x) + 1 \in Nat /\ Len(x) < Len(x) + 1
    BY LenProperties
  <2>2. Len(x) + 1 \in A
    BY <2>1, <1>12
  <2> HIDE DEF M
  <2> QED BY <2>1, <2>2
<1> HIDE DEF M
<1>14. M = [x \in S |-> M[x]]
  BY <1>9
<1>15. M \in [S -> T]
  <2>1. \A x \in S : M[x] \in T
    <3> HIDE DEF T
    <3> QED BY <1>13
  <2> HIDE DEF T
  <2> QED BY <1>14, <2>1
<1>16. \A s \in S, i \in BOOLEAN : M[s][i] = MeaningBody(M, s, i)
  BY <1>9
<1> QED BY <1>15, <1>16 DEF M

LEMMA ProcessIs ==
  /\ Process \in [Seq(Letters) -> [BOOLEAN -> Filtered]]
  /\ \A s \in Seq(Letters), i \in BOOLEAN : Process[s][i] = ProcessBody(Process, s, i)
<1> DEFINE S == Seq(Letters)
           T == [BOOLEAN -> Filtered]
           phi(f) == [b \in S |-> [k \in BOOLEAN |-> ProcessBody(f, b, k)]]
           Phi == [f \in [S -> T] |-> phi(f)]
<1>1. ASSUME NEW f \in [S -> T] PROVE phi(f) \in [S -> T]
  <2>1. \A b \in S, k \in BOOLEAN : ProcessBody(f, b, k) \in Filtered
    BY ProcessBodyOK
  <2> QED BY <2>1
<1>2. Phi \in [[S -> T] -> [S -> T]]
  <2> HIDE DEF phi
  <2> QED BY <1>1
<1>3. ASSUME NEW f \in [S -> T], NEW g, NEW x \in S,
             \A y \in S : Len(y) < Len(x) => f[y] = g[y]
      PROVE  phi(f)[x] = phi(g)[x]
  <2>1. ASSUME NEW k \in BOOLEAN PROVE ProcessBody(f, x, k) = ProcessBody(g, x, k)
    <3>1. \A h : (\A y \in Seq(Letters) : Len(y) < Len(x) => f[y] = h[y])
            => ProcessBody(f, x, k) = ProcessBody(h, x, k)
      BY ProcessBodyOK
    <3> QED BY <3>1, <1>3
  <2> QED BY <2>1
<1>4. \A f, g \in [S -> T] : \A x \in S :
        (\A y \in S : TextSize[y] < TextSize[x] => f[y] = g[y]) => Phi[f][x] = Phi[g][x]
  <2> SUFFICES ASSUME NEW f \in [S -> T], NEW g \in [S -> T], NEW x \in S,
                      \A y \in S : TextSize[y] < TextSize[x] => f[y] = g[y]
               PROVE  Phi[f][x] = Phi[g][x]
    BY Zenon
  <2>1. \A y \in S : Len(y) < Len(x) => f[y] = g[y]
    BY TextSizes
  <2> HIDE DEF phi
  <2>2. phi(f)[x] = phi(g)[x]
    BY <2>1, <1>3
  <2> QED BY <2>2
<1>5. T # {}
  <2>1. [text |-> <<>>, think |-> <<>>, inThink |-> FALSE, partial |-> <<>>] \in Filtered
    BY DEF Filtered
  <2>2. [k \in BOOLEAN |-> [text |-> <<>>, think |-> <<>>, inThink |-> FALSE, partial |-> <<>>]] \in T
    BY <2>1
  <2> QED BY <2>2
<1>6. PICK g \in [S -> T] : g = Phi[g]
  <2>1. TextSize \in [S -> Nat]
    BY TextSizes
  <2> HIDE DEF Phi, T, S
  <2>2. F!Recursion(S, T, TextSize, Phi)
    BY <1>2, <1>4, <1>5, <2>1, Zenon DEF F!Recursion
  <2> QED BY <2>2, F!RecursionExists
<1>7. g = phi(g)
  BY <1>6
<1>8. Process = CHOOSE f : f = phi(f)
  BY DEF Process, ProcessBody
<1> DEFINE M == Process
<1>9. M = phi(M)
  <2> HIDE DEF phi
  <2> QED BY <1>7, <1>8
<1> DEFINE A == {n \in Nat : \A x \in S : Len(x) < n => M[x] = g[x]}
<1>10. 0 \in A
  BY LenProperties
<1>11. ASSUME NEW n \in Nat, n \in A PROVE n + 1 \in A
  <2> SUFFICES ASSUME NEW x \in S, Len(x) < n + 1 PROVE M[x] = g[x]
    OBVIOUS
  <2>1. \A y \in S : Len(y) < Len(x) => g[y] = M[y]
    <3> SUFFICES ASSUME NEW y \in S, Len(y) < Len(x) PROVE g[y] = M[y]
      OBVIOUS
    <3>1. Len(x) \in Nat /\ Len(y) \in Nat
      BY LenProperties
    <3>2. Len(y) < n
      BY <3>1, <1>11
    <3> HIDE DEF M
    <3> QED BY <3>2, <1>11
  <2> HIDE DEF M, phi
  <2>2. phi(g)[x] = phi(M)[x]
    BY <2>1, <1>3
  <2> QED BY <2>2, <1>7, <1>9
<1>12. \A n \in Nat : n \in A
  <2> HIDE DEF A
  <2> QED BY <1>10, <1>11, F!NatSetInduction
<1>13. \A x \in S : M[x] = g[x]
  <2> SUFFICES ASSUME NEW x \in S PROVE M[x] = g[x]
    OBVIOUS
  <2>1. Len(x) \in Nat /\ Len(x) + 1 \in Nat /\ Len(x) < Len(x) + 1
    BY LenProperties
  <2>2. Len(x) + 1 \in A
    BY <2>1, <1>12
  <2> HIDE DEF M
  <2> QED BY <2>1, <2>2
<1> HIDE DEF M
<1>14. M = [x \in S |-> M[x]]
  BY <1>9
<1>15. M \in [S -> T]
  <2>1. \A x \in S : M[x] \in T
    <3> HIDE DEF T
    <3> QED BY <1>13
  <2> HIDE DEF T
  <2> QED BY <1>14, <2>1
<1>16. \A s \in S, i \in BOOLEAN : M[s][i] = ProcessBody(M, s, i)
  BY <1>9
<1> QED BY <1>15, <1>16 DEF M

-------------------------------------------------------------------------------
(* Letters where no tag begins.                                                *)

\* A word stands in a text, after k letters.
StandsAfter(s, w, k) == Len(w) <= Len(s) - k /\ \A j \in 1..Len(w) : w[j] = s[k + j]

\* What one result and the next say together; one text is a beginning of the other.
Joined(p, r) == [text |-> p.text \o r.text, think |-> p.think \o r.think]
Comparable(p, y) == IsPrefix(p, y) \/ IsPrefix(y, p)

\* A tag stands where Occurrences and IsPrefix find it.
LEMMA OccurrencesStand ==
  ASSUME NEW s \in Seq(Letters), NEW w \in Seq(Letters)
  PROVE  /\ \A i \in 1..Len(s) : i \in Occurrences(s, w) <=> StandsAfter(s, w, i - 1)
         /\ IsPrefix(w, s) <=> StandsAfter(s, w, 0)
<1>1. \A i \in 1..Len(s) : i \in Occurrences(s, w) <=> StandsAfter(s, w, i - 1)
  BY OccurrencesAre DEF StandsAfter
<1>2. IsPrefix(w, s) <=> Len(w) <= Len(s) /\ \A j \in 1..Len(w) : w[j] = s[j]
  BY PrefixIs
<1>3. IsPrefix(w, s) <=> StandsAfter(s, w, 0)
  <2>1. Len(s) - 0 = Len(s) /\ \A j \in 1..Len(w) : 0 + j = j
    OBVIOUS
  <2> QED BY <1>2, <2>1 DEF StandsAfter
<1> QED BY <1>1, <1>3

\* Concatenation, letter by letter.
LEMMA ConcatIs ==
  ASSUME NEW S, NEW s \in Seq(S), NEW t \in Seq(S)
  PROVE  /\ s \o t \in Seq(S) /\ Len(s \o t) = Len(s) + Len(t)
         /\ Len(s) \in Nat /\ Len(t) \in Nat
         /\ \A j \in 1..Len(s) : (s \o t)[j] = s[j]
         /\ \A j \in 1..Len(t) : (s \o t)[Len(s) + j] = t[j]
OBVIOUS

LEMMA EqualSeqs ==
  ASSUME NEW S, NEW s \in Seq(S), NEW t \in Seq(S), Len(s) = Len(t), \A j \in 1..Len(s) : s[j] = t[j]
  PROVE  s = t
BY SeqEqual

LEMMA ConcatAssoc ==
  ASSUME NEW S, NEW s \in Seq(S), NEW t \in Seq(S), NEW u \in Seq(S)
  PROVE  (s \o t) \o u = s \o (t \o u) /\ s \o <<>> = s /\ <<>> \o s = s
OBVIOUS

\* A text is its two parts.
LEMMA CutText ==
  ASSUME NEW s \in Seq(Letters), NEW n \in 0..Len(s)
  PROVE  s = SubSeq(s, 1, n) \o DropFirst(s, n) /\ SubSeq(s, 1, n) \in Seq(Letters)
         /\ Len(SubSeq(s, 1, n)) = n /\ \A j \in 1..n : SubSeq(s, 1, n)[j] = s[j]
<1>1. DropFirst(s, n) \in Seq(Letters) /\ Len(DropFirst(s, n)) = Len(s) - n
      /\ \A j \in 1..Len(s) - n : DropFirst(s, n)[j] = s[n + j]
  BY DropType
<1>2. SubSeq(s, 1, n) \in Seq(Letters) /\ Len(SubSeq(s, 1, n)) = n
      /\ \A j \in 1..n : SubSeq(s, 1, n)[j] = s[j]
  OBVIOUS
<1> DEFINE p == SubSeq(s, 1, n)
           d == DropFirst(s, n)
<1>3. p \in Seq(Letters) /\ d \in Seq(Letters) /\ Len(p) = n /\ Len(d) = Len(s) - n
      /\ (\A j \in 1..n : p[j] = s[j]) /\ (\A j \in 1..Len(s) - n : d[j] = s[n + j])
  BY <1>1, <1>2
<1> HIDE DEF p, d
<1>4. Len(s) \in Nat /\ Len(p \o d) = Len(s) /\ p \o d \in Seq(Letters)
  <2>1. Len(s) \in Nat
    OBVIOUS
  <2>2. Len(p \o d) = n + (Len(s) - n) /\ p \o d \in Seq(Letters)
    BY <1>3, ConcatIs
  <2> QED BY <2>1, <2>2
<1>5. ASSUME NEW j \in 1..Len(s) PROVE s[j] = (p \o d)[j]
  <2>1. CASE j <= n
    BY <2>1, <1>3, ConcatIs
  <2>2. CASE j > n
    <3>1. j - n \in 1..Len(d) /\ n + (j - n) = j
      BY <2>2, <1>3, <1>4
    <3> DEFINE k == j - n
    <3> HIDE DEF k
    <3>2. k \in 1..Len(d) /\ n + k = j
      BY <3>1 DEF k
    <3>3. (p \o d)[n + k] = d[k] /\ d[k] = s[n + k]
      BY <3>2, <1>3, ConcatIs
    <3> QED BY <3>2, <3>3
  <2> QED BY <2>1, <2>2, <1>4
<1>6. s = p \o d
  BY <1>4, <1>5, EqualSeqs
<1> QED BY <1>2, <1>6 DEF p, d

\* What is put first in two steps, and in one.
LEMMA PrependTwice ==
  ASSUME NEW i \in BOOLEAN, NEW s \in Seq(Letters), NEW t \in Seq(Letters), NEW r \in Parts
  PROVE  /\ Prepend(i, s, Prepend(i, t, r)) = Prepend(i, s \o t, r)
         /\ Prepend(i, <<>>, r) = r
<1>1. r.text \in Seq(Letters) /\ r.think \in Seq(Letters) /\ r = [text |-> r.text, think |-> r.think]
  BY DEF Parts
<1>2. \A x \in Seq(Letters) : s \o (t \o x) = (s \o t) \o x /\ <<>> \o x = x
  BY SMTT(30)
<1>3. CASE i
  BY <1>1, <1>2, <1>3 DEF Prepend, Parts
<1>4. CASE ~i
  BY <1>1, <1>2, <1>4 DEF Prepend, Parts
<1> QED BY <1>3, <1>4

LEMMA PrependJoined ==
  ASSUME NEW i \in BOOLEAN, NEW s \in Seq(Letters), NEW p \in Filtered, NEW r \in Parts
  PROVE  Prepend(i, s, Joined(p, r)) = Joined(Prepend(i, s, p), r) /\ Joined(p, r) \in Parts
<1>1. r.text \in Seq(Letters) /\ r.think \in Seq(Letters) /\ p.text \in Seq(Letters) /\ p.think \in Seq(Letters)
  BY DEF Parts, Filtered
<1>2. \A x, y \in Seq(Letters) : s \o (x \o y) = (s \o x) \o y /\ x \o y \in Seq(Letters)
  OBVIOUS
<1>3. Joined(p, r) \in Parts
  BY <1>1, <1>2 DEF Joined, Parts
<1> DEFINE q == Prepend(i, s, p)
<1>4. /\ q.text = IF i THEN p.text ELSE s \o p.text
      /\ q.think = IF i THEN s \o p.think ELSE p.think
  BY PrependFiltered
<1> DEFINE a == Prepend(i, s, Joined(p, r))
<1>5. /\ a \in Parts
      /\ a.text = IF i THEN Joined(p, r).text ELSE s \o Joined(p, r).text
      /\ a.think = IF i THEN s \o Joined(p, r).think ELSE Joined(p, r).think
  BY <1>3, PrependParts
<1> HIDE DEF a, q
<1>6. a = [text |-> a.text, think |-> a.think]
  BY <1>5 DEF Parts
<1>7. Joined(p, r).text = p.text \o r.text /\ Joined(p, r).think = p.think \o r.think
  BY DEF Joined
<1>8. s \o (p.text \o r.text) = (s \o p.text) \o r.text /\ s \o (p.think \o r.think) = (s \o p.think) \o r.think
  BY <1>1, <1>2
<1>9. a.text = q.text \o r.text /\ a.think = q.think \o r.think
  BY <1>4, <1>5, <1>7, <1>8
<1> QED BY <1>3, <1>6, <1>9 DEF a, q, Joined

LEMMA TailStands ==
  ASSUME NEW s \in Seq(Letters), s # <<>>, NEW w \in Seq(Letters), NEW k \in Nat
  PROVE  StandsAfter(Tail(s), w, k) <=> StandsAfter(s, w, k + 1)
<1>1. /\ Tail(s) \in Seq(Letters) /\ Len(Tail(s)) = Len(s) - 1 /\ Len(s) \in Nat /\ Len(w) \in Nat
      /\ \A j \in 1..Len(s) - 1 : Tail(s)[j] = s[j + 1]
  OBVIOUS
<1>2. Len(w) <= Len(Tail(s)) - k <=> Len(w) <= Len(s) - (k + 1)
  BY <1>1
<1>3. ASSUME Len(w) <= Len(s) - (k + 1), NEW j \in 1..Len(w)
      PROVE  Tail(s)[k + j] = s[(k + 1) + j]
  <2>1. k + j \in 1..Len(s) - 1 /\ (k + j) + 1 = (k + 1) + j
    BY <1>1, <1>3
  <2> QED BY <2>1, <1>1
<1> QED BY <1>2, <1>3 DEF StandsAfter

(* Letters where no tag begins mean themselves. *)
LEMMA LettersMean ==
  ASSUME NEW i \in BOOLEAN, NEW y \in Seq(Letters)
  PROVE  \A d \in Seq(Letters) : (\A k \in 0..Len(d) - 1 : ~StandsAfter(d \o y, Tag(i), k))
           => Meaning[d \o y][i] = Prepend(i, d, Meaning[y][i])
<1> DEFINE Free(d) == \A k \in 0..Len(d) - 1 : ~StandsAfter(d \o y, Tag(i), k)
           Means(d) == Meaning[d \o y][i] = Prepend(i, d, Meaning[y][i])
           A == {n \in Nat : \A d \in Seq(Letters) : Len(d) = n /\ Free(d) => Means(d)}
<1>0. Meaning[y][i] \in Parts
  <2>1. Meaning[y] \in [BOOLEAN -> Parts]
    BY MeaningIs
  <2> QED BY <2>1
<1>1. 0 \in A
  <2> SUFFICES ASSUME NEW d \in Seq(Letters), Len(d) = 0 PROVE Means(d)
    OBVIOUS
  <2>1. d = <<>> /\ d \o y = y
    OBVIOUS
  <2> QED BY <2>1, <1>0, PrependTwice
<1>2. ASSUME NEW n \in Nat, n \in A PROVE n + 1 \in A
  <2> SUFFICES ASSUME NEW d \in Seq(Letters), Len(d) = n + 1, Free(d) PROVE Means(d)
    OBVIOUS
  <2> DEFINE e == Tail(d)
             h == <<Head(d)>>
             s == d \o y
  <2>1. /\ e \in Seq(Letters) /\ Len(e) = n /\ h \in Seq(Letters) /\ d = h \o e
        /\ s \in Seq(Letters) /\ s # <<>> /\ Head(s) = Head(d) /\ Tail(s) = e \o y
    <3>1. d # <<>>
      OBVIOUS
    <3>2. e \in Seq(Letters) /\ Len(e) = n /\ Head(d) \in Letters /\ d = h \o e
      BY <3>1
    <3>3. s = h \o (e \o y)
      BY <3>2
    <3>4. e \o y \in Seq(Letters)
      BY <3>2
    <3>5. h \o (e \o y) # <<>> /\ Head(h \o (e \o y)) = Head(d) /\ Tail(h \o (e \o y)) = e \o y
      BY <3>2, <3>4
    <3> QED BY <3>2, <3>3, <3>4, <3>5
  <2>2. Tag(i) \in Seq(Letters)
    BY TagType
  <2> HIDE DEF e, s
  <2>3. ~IsPrefix(Tag(i), s)
    <3>1. ~StandsAfter(s, Tag(i), 0)
      BY <1>2 DEF s
    <3> QED BY <3>1, <2>1, <2>2, OccurrencesStand
  <2>4. Meaning[s][i] = Prepend(i, h, Meaning[e \o y][i])
    BY <2>1, <2>3, MeaningIs DEF MeaningBody
  <2>5. Free(e)
    <3> SUFFICES ASSUME NEW k \in 0..Len(e) - 1 PROVE ~StandsAfter(e \o y, Tag(i), k)
      OBVIOUS
    <3>1. k \in Nat /\ k + 1 \in 0..Len(d) - 1
      BY <2>1
    <3>2. ~StandsAfter(s, Tag(i), k + 1)
      BY <3>1 DEF s
    <3>3. ~StandsAfter(Tail(s), Tag(i), k)
      BY <3>1, <3>2, <2>1, <2>2, TailStands
    <3> QED BY <3>3, <2>1
  <2>6. Means(e)
    BY <2>1, <2>5, <1>2
  <2>7. Prepend(i, h, Prepend(i, e, Meaning[y][i])) = Prepend(i, d, Meaning[y][i])
    <3> HIDE DEF h
    <3>1. Prepend(i, h, Prepend(i, e, Meaning[y][i])) = Prepend(i, h \o e, Meaning[y][i])
      BY <2>1, <1>0, PrependTwice
    <3> QED BY <2>1, <3>1
  <2> QED BY <2>4, <2>6, <2>7 DEF s
<1>3. \A n \in Nat : n \in A
  <2> HIDE DEF A
  <2> QED BY <1>1, <1>2, F!NatSetInduction
<1>4. ASSUME NEW d \in Seq(Letters), Free(d) PROVE Means(d)
  <2>1. Len(d) \in Nat
    OBVIOUS
  <2>2. Len(d) \in A
    BY <2>1, <1>3
  <2> HIDE DEF Free, Means
  <2> QED BY <2>2, <1>4
<1> QED BY <1>4

-------------------------------------------------------------------------------
(* Texts that agree.                                                           *)

LEMMA ConcatDrop ==
  ASSUME NEW t \in Seq(Letters), NEW u \in Seq(Letters)
  PROVE  /\ DropFirst(t \o u, Len(t)) = u
         /\ IsPrefix(t, t \o u)
<1> DEFINE s == t \o u
<1>1. /\ s \in Seq(Letters) /\ Len(s) = Len(t) + Len(u) /\ Len(t) \in Nat /\ Len(u) \in Nat
      /\ (\A j \in 1..Len(t) : s[j] = t[j]) /\ \A j \in 1..Len(u) : s[Len(t) + j] = u[j]
  BY ConcatIs
<1> HIDE DEF s
<1>2. Len(t) \in 0..Len(s) /\ Len(s) - Len(t) = Len(u)
  BY <1>1
<1>3. /\ DropFirst(s, Len(t)) \in Seq(Letters) /\ Len(DropFirst(s, Len(t))) = Len(u)
      /\ \A j \in 1..Len(u) : DropFirst(s, Len(t))[j] = s[Len(t) + j]
  BY <1>1, <1>2, DropType
<1>4. DropFirst(s, Len(t)) = u
  BY <1>1, <1>3, EqualSeqs
<1>5. IsPrefix(t, s)
  BY <1>1, PrefixIs
<1> QED BY <1>4, <1>5 DEF s

\* Two texts have the same letters as far as both go.
Agree(s, t) == \A j \in 1..Len(s) : j <= Len(t) => s[j] = t[j]

(* Texts that are comparable agree as far as both go, also behind the same    *)
(* letters.                                                                   *)
LEMMA ComparableAgree ==
  ASSUME NEW d \in Seq(Letters), NEW p \in Seq(Letters), NEW y \in Seq(Letters), Comparable(p, y)
  PROVE  Agree(d \o p, d \o y)
<1>1. Len(d) \in Nat /\ Len(p) \in Nat /\ Len(y) \in Nat
      /\ Len(d \o p) = Len(d) + Len(p) /\ Len(d \o y) = Len(d) + Len(y)
  BY ConcatIs
<1>2. \A j \in 1..Len(p) : j <= Len(y) => p[j] = y[j]
  <2>1. IsPrefix(p, y) <=> Len(p) <= Len(y) /\ \A j \in 1..Len(p) : p[j] = y[j]
    BY PrefixIs
  <2>2. IsPrefix(y, p) <=> Len(y) <= Len(p) /\ \A j \in 1..Len(y) : y[j] = p[j]
    BY PrefixIs
  <2> QED BY <1>1, <2>1, <2>2 DEF Comparable
<1> SUFFICES ASSUME NEW j \in 1..Len(d \o p), j <= Len(d \o y) PROVE (d \o p)[j] = (d \o y)[j]
  BY DEF Agree
<1>3. CASE j <= Len(d)
  BY <1>1, <1>3, ConcatIs
<1>4. CASE j > Len(d)
  <2> DEFINE k == j - Len(d)
  <2>1. k \in 1..Len(p) /\ k \in 1..Len(y) /\ Len(d) + k = j /\ k <= Len(y)
    BY <1>1, <1>4
  <2> HIDE DEF k
  <2>2. (d \o p)[Len(d) + k] = p[k] /\ (d \o y)[Len(d) + k] = y[k]
    BY <2>1, ConcatIs
  <2> QED BY <2>1, <2>2, <1>2
<1> QED BY <1>1, <1>3, <1>4

\* A word that stands in a text stands in one that agrees with it, as far as that goes.
LEMMA StandsInOther ==
  ASSUME NEW s \in Seq(Letters), NEW t \in Seq(Letters), NEW w \in Seq(Letters), NEW k \in Nat,
         Agree(s, t), StandsAfter(t, w, k)
  PROVE  \A j \in 1..Len(w) : k + j <= Len(s) => w[j] = s[k + j]
<1>1. Len(s) \in Nat /\ Len(t) \in Nat /\ Len(w) \in Nat
  OBVIOUS
<1> SUFFICES ASSUME NEW j \in 1..Len(w), k + j <= Len(s) PROVE w[j] = s[k + j]
  OBVIOUS
<1>2. Len(w) <= Len(t) - k /\ w[j] = t[k + j]
  BY DEF StandsAfter
<1>3. k + j \in 1..Len(s) /\ k + j <= Len(t)
  BY <1>1, <1>2
<1> QED BY <1>2, <1>3 DEF Agree

\* What process makes of buf, to the end of d, it makes of any text that goes
\* on as what it kept does, or ends there.
Faithful(buf, i, d) ==
  LET p == Process[buf][i] IN
  /\ d \in Seq(Letters)
  /\ buf = d \o p.partial
  /\ \A y \in Seq(Letters) : Comparable(p.partial, y) =>
       Meaning[d \o y][i] = Joined(p, Meaning[y][p.inThink])

\* The types of what both functions say.
LEMMA MeaningType ==
  ASSUME NEW s \in Seq(Letters), NEW i \in BOOLEAN
  PROVE  Meaning[s][i] \in Parts /\ Process[s][i] \in Filtered
<1>1. Meaning[s] \in [BOOLEAN -> Parts] /\ Process[s] \in [BOOLEAN -> Filtered]
  BY MeaningIs, ProcessIs
<1> QED BY <1>1

\* A text with no whole tag: all but what a tag may begin with is told.
LEMMA ProcessNoTag ==
  ASSUME NEW buf \in Seq(Letters), NEW i \in BOOLEAN, Occurrences(buf, Tag(i)) = {}
  PROVE  /\ Len(Process[buf][i].partial) < Len(Tag(Process[buf][i].inThink))
         /\ \E d : Faithful(buf, i, d)
<1> DEFINE tag == Tag(i)
           o == PartialTagOverlap(buf, tag)
           whole == Len(buf) - o
           d == SubSeq(buf, 1, whole)
           p == DropFirst(buf, whole)
           e == [text |-> <<>>, think |-> <<>>, inThink |-> i, partial |-> p]
           P == Process[buf][i]
<1>1. tag \in Seq(Letters) /\ Len(tag) \in Nat /\ Len(tag) >= 1 /\ Len(buf) \in Nat
  BY TagType
<1>2. /\ o \in 0..Len(buf) /\ o < Len(tag)
      /\ \A l \in 0..Len(buf) : l < Len(tag) /\ (\A j \in 1..l : tag[j] = buf[Len(buf) - l + j]) => l <= o
  BY <1>1, OverlapIs
<1>3. P = Prepend(i, d, e)
  BY ProcessIs DEF ProcessBody
<1> HIDE DEF o, tag
<1>4. whole \in 0..Len(buf) /\ Len(buf) - whole = o
  BY <1>1, <1>2
<1>5. /\ buf = d \o p /\ d \in Seq(Letters) /\ Len(d) = whole
      /\ p \in Seq(Letters) /\ Len(p) = o
  <2> HIDE DEF whole
  <2> QED BY <1>4, CutText, DropType
<1> HIDE DEF whole, d, p, P
<1>6. e \in Filtered
  BY <1>5 DEF Filtered
<1>7. P \in Filtered /\ P.inThink = i /\ P.partial = p
  BY <1>3, <1>5, <1>6, PrependFiltered
<1>8. ASSUME NEW y \in Seq(Letters), Comparable(p, y)
      PROVE  Meaning[d \o y][i] = Joined(P, Meaning[y][i])
  <2> DEFINE s == d \o y
  <2>1. s \in Seq(Letters) /\ Len(s) \in Nat
    BY <1>5, ConcatIs
  <2>2. Agree(buf, s)
    BY <1>5, <1>8, ComparableAgree
  <2> HIDE DEF s
  <2>3. ASSUME NEW k \in 0..Len(d) - 1 PROVE ~StandsAfter(s, tag, k)
    <3> SUFFICES ASSUME StandsAfter(s, tag, k) PROVE FALSE
      OBVIOUS
    <3>0. k \in Nat /\ k < whole /\ k < Len(buf) /\ k + 1 \in 1..Len(buf) /\ (k + 1) - 1 = k
      <4>1. Len(d) = whole /\ whole \in 0..Len(buf) /\ Len(buf) \in Nat
        BY <1>1, <1>4, <1>5
      <4>2. k \in 0..whole - 1
        BY <4>1
      <4> QED BY <4>1, <4>2
    <3>1. \A j \in 1..Len(tag) : k + j <= Len(buf) => tag[j] = buf[k + j]
      BY <1>1, <2>1, <2>2, <3>0, StandsInOther
    <3>2. CASE Len(tag) <= Len(buf) - k
      <4>1. \A j \in 1..Len(tag) : k + j <= Len(buf)
        BY <1>1, <3>0, <3>2
      <4>2. StandsAfter(buf, tag, (k + 1) - 1)
        BY <3>0, <3>1, <3>2, <4>1 DEF StandsAfter
      <4>3. k + 1 \in Occurrences(buf, tag)
        BY <1>1, <3>0, <4>2, OccurrencesStand
      <4> QED BY <4>3 DEF tag
    <3>3. CASE ~(Len(tag) <= Len(buf) - k)
      <4> DEFINE l == Len(buf) - k
      <4>1. l \in 0..Len(buf) /\ l < Len(tag) /\ Len(buf) - l = k
        BY <1>1, <3>0, <3>3
      <4>2. \A j \in 1..l : j \in 1..Len(tag) /\ k + j <= Len(buf)
        BY <1>1, <3>0, <4>1
      <4> HIDE DEF l
      <4>3. \A j \in 1..l : tag[j] = buf[Len(buf) - l + j]
        BY <3>1, <4>1, <4>2
      <4>4. l <= o
        BY <1>2, <4>1, <4>3
      <4> QED BY <4>1, <4>4, <3>0, <1>4, <1>1
    <3> QED BY <3>2, <3>3
  <2>4. Meaning[s][i] = Prepend(i, d, Meaning[y][i])
    BY <2>3, <1>5, LettersMean DEF s, tag
  <2>5. Meaning[y][i] \in Parts
    BY MeaningType
  <2>6. Joined(e, Meaning[y][i]) = Meaning[y][i]
    <3> DEFINE r == Meaning[y][i]
    <3>1. r = [text |-> r.text, think |-> r.think] /\ r.text \in Seq(Letters) /\ r.think \in Seq(Letters)
      BY <2>5 DEF Parts
    <3>2. <<>> \o r.text = r.text /\ <<>> \o r.think = r.think
      BY <3>1
    <3> HIDE DEF r
    <3> QED BY <3>1, <3>2 DEF Joined, r
  <2>7. Prepend(i, d, Joined(e, Meaning[y][i])) = Joined(Prepend(i, d, e), Meaning[y][i])
    BY <1>5, <1>6, <2>5, PrependJoined
  <2> QED BY <2>4, <2>6, <2>7, <1>3 DEF s
<1>9. Faithful(buf, i, d)
  BY <1>5, <1>7, <1>8 DEF Faithful, P
<1>10. Len(P.partial) < Len(Tag(P.inThink))
  BY <1>2, <1>5, <1>7 DEF tag
<1> QED BY <1>9, <1>10 DEF P

-------------------------------------------------------------------------------
(* What process tells is what is meant.                                        *)

\* What is kept is no whole tag, and the rest is told as it is meant.
Kept(buf, i) ==
  /\ Len(Process[buf][i].partial) < Len(Tag(Process[buf][i].inThink))
  /\ \E d : Faithful(buf, i, d)

LEMMA TextAssoc ==
  ASSUME NEW s \in Seq(Letters), NEW t \in Seq(Letters), NEW u \in Seq(Letters)
  PROVE  (s \o t) \o u = s \o (t \o u)
OBVIOUS

\* A text with a tag in it is what comes before, the tag, and the rest.
LEMMA TagCut ==
  ASSUME NEW buf \in Seq(Letters), NEW tag \in Seq(Letters), NEW m \in 1..Len(buf),
         StandsAfter(buf, tag, m - 1)
  PROVE  LET n == m - 1 + Len(tag) IN
         /\ n \in 0..Len(buf)
         /\ buf = SubSeq(buf, 1, m - 1) \o (tag \o DropFirst(buf, n))
<1> DEFINE n == m - 1 + Len(tag)
           d0 == SubSeq(buf, 1, m - 1)
           back == DropFirst(buf, m - 1)
           rest == DropFirst(buf, n)
<1>1. Len(buf) \in Nat /\ Len(tag) \in Nat /\ m - 1 \in 0..Len(buf)
  OBVIOUS
<1>2. n \in 0..Len(buf) /\ Len(tag) <= Len(buf) - (m - 1)
  BY <1>1 DEF StandsAfter
<1>3. /\ buf = d0 \o back /\ d0 \in Seq(Letters)
      /\ back \in Seq(Letters) /\ Len(back) = Len(buf) - (m - 1)
      /\ \A j \in 1..Len(buf) - (m - 1) : back[j] = buf[(m - 1) + j]
  BY <1>1, CutText, DropType
<1>4. /\ rest \in Seq(Letters) /\ Len(rest) = Len(buf) - n
      /\ \A j \in 1..Len(buf) - n : rest[j] = buf[n + j]
  BY <1>2, DropType
<1>5. back = tag \o rest
  <2> HIDE DEF back, rest
  <2>1. tag \o rest \in Seq(Letters) /\ Len(tag \o rest) = Len(back)
    <3>1. tag \o rest \in Seq(Letters) /\ Len(tag \o rest) = Len(tag) + Len(rest)
      BY <1>4, ConcatIs
    <3> QED BY <3>1, <1>1, <1>2, <1>3, <1>4
  <2>2. ASSUME NEW j \in 1..Len(back) PROVE back[j] = (tag \o rest)[j]
    <3>1. CASE j <= Len(tag)
      <4>1. j \in 1..Len(tag) /\ (tag \o rest)[j] = tag[j]
        BY <1>1, <1>4, <3>1, ConcatIs
      <4>2. tag[j] = buf[(m - 1) + j]
        BY <4>1 DEF StandsAfter
      <4> QED BY <4>1, <4>2, <1>3
    <3>2. CASE j > Len(tag)
      <4> DEFINE k == j - Len(tag)
      <4>1. k \in 1..Len(rest) /\ Len(tag) + k = j /\ (m - 1) + j = n + k
        BY <1>1, <1>2, <1>3, <1>4, <3>2
      <4> HIDE DEF k
      <4>2. (tag \o rest)[Len(tag) + k] = rest[k]
        BY <4>1, <1>4, ConcatIs
      <4>3. back[j] = buf[(m - 1) + j] /\ rest[k] = buf[n + k]
        BY <1>3, <1>4, <4>1
      <4> QED BY <4>1, <4>2, <4>3
    <3>3. Len(back) \in Nat
      BY <1>3, LenProperties
    <3>4. j <= Len(tag) \/ j > Len(tag)
      BY <3>3, <1>1
    <3> QED BY <3>1, <3>2, <3>4
  <2> QED BY <1>3, <2>1, <2>2, EqualSeqs
<1> QED BY <1>2, <1>3, <1>5

\* A text with a tag in it, if the rest of it is read faithfully.
LEMMA ProcessTag ==
  ASSUME NEW buf \in Seq(Letters), NEW i \in BOOLEAN, Occurrences(buf, Tag(i)) # {},
         \A s \in Seq(Letters) : Len(s) < Len(buf) => Kept(s, ~i)
  PROVE  Kept(buf, i)
<1> DEFINE tag == Tag(i)
           m == Min(Occurrences(buf, tag))
           n == m - 1 + Len(tag)
           d0 == SubSeq(buf, 1, m - 1)
           rest == DropFirst(buf, n)
           Q == Process[rest][~i]
           P == Process[buf][i]
<1>1. tag \in Seq(Letters) /\ Len(tag) \in Nat /\ Len(tag) >= 1 /\ Len(buf) \in Nat
  BY TagType
<1>2. /\ m \in Occurrences(buf, tag) /\ m \in 1..Len(buf)
      /\ \A j \in Occurrences(buf, tag) : m <= j
      /\ n \in 0..Len(buf) /\ n >= 1
      /\ d0 \in Seq(Letters) /\ Len(d0) = m - 1
      /\ rest \in Seq(Letters) /\ Len(rest) = Len(buf) - n
  BY TagPosition
<1>3. P = Prepend(i, d0, Q)
  BY ProcessIs DEF ProcessBody
<1> HIDE DEF m, tag
<1>4. StandsAfter(buf, tag, m - 1)
  BY <1>1, <1>2, OccurrencesStand
<1>5. buf = d0 \o (tag \o rest)
  BY <1>1, <1>2, <1>4, TagCut
<1> HIDE DEF n, d0, rest, P
<1>6. Kept(rest, ~i) /\ (~i) \in BOOLEAN
  <2>1. Len(rest) < Len(buf)
    BY <1>1, <1>2
  <2> QED BY <1>2, <2>1, NotBoolean
<1>7. PICK d1 : Faithful(rest, ~i, d1)
  BY <1>6 DEF Kept
<1>8. Q \in Filtered
  BY <1>2, <1>6, MeaningType
<1>9. /\ d1 \in Seq(Letters) /\ rest = d1 \o Q.partial
      /\ \A y \in Seq(Letters) : Comparable(Q.partial, y) =>
           Meaning[d1 \o y][~i] = Joined(Q, Meaning[y][Q.inThink])
  BY <1>7 DEF Faithful
<1>10. Len(Q.partial) < Len(Tag(Q.inThink))
  BY <1>6 DEF Kept
<1> HIDE DEF Q
<1>11. P \in Filtered /\ P.inThink = Q.inThink /\ P.partial = Q.partial
  BY <1>2, <1>3, <1>8, PrependFiltered
<1>12. Q.partial \in Seq(Letters) /\ Q.inThink \in BOOLEAN
  BY <1>8 DEF Filtered
<1> DEFINE d == d0 \o (tag \o d1)
<1>13. d \in Seq(Letters) /\ tag \o d1 \in Seq(Letters)
  BY <1>1, <1>2, <1>9, ConcatIs
<1>14. \A y \in Seq(Letters) : d \o y = d0 \o (tag \o (d1 \o y)) /\ tag \o (d1 \o y) \in Seq(Letters)
  <2> SUFFICES ASSUME NEW y \in Seq(Letters)
               PROVE  d \o y = d0 \o (tag \o (d1 \o y)) /\ tag \o (d1 \o y) \in Seq(Letters)
    OBVIOUS
  <2>1. d1 \o y \in Seq(Letters)
    BY <1>9, ConcatIs
  <2>2. d \o y = d0 \o ((tag \o d1) \o y)
    <3> DEFINE e == tag \o d1
    <3>1. e \in Seq(Letters) /\ d0 \in Seq(Letters)
      BY <1>2, <1>13
    <3>2. d \o y = (d0 \o e) \o y
      OBVIOUS
    <3> HIDE DEF e, d
    <3>3. (d0 \o e) \o y = d0 \o (e \o y)
      BY <3>1, TextAssoc
    <3> QED BY <3>2, <3>3 DEF e
  <2>3. (tag \o d1) \o y = tag \o (d1 \o y)
    BY <1>1, <1>9, TextAssoc, Zenon
  <2>4. tag \o (d1 \o y) \in Seq(Letters)
    BY <1>1, <2>1, ConcatIs
  <2> QED BY <2>2, <2>3, <2>4
<1>15. buf = d \o Q.partial
  BY <1>5, <1>9, <1>12, <1>14
<1> HIDE DEF d
<1>16. ASSUME NEW y \in Seq(Letters), Comparable(Q.partial, y)
       PROVE  Meaning[d \o y][i] = Joined(P, Meaning[y][P.inThink])
  <2> DEFINE u == d1 \o y
             z == tag \o u
             s == d0 \o z
  <2>1. u \in Seq(Letters) /\ z \in Seq(Letters) /\ s \in Seq(Letters) /\ d \o y = s
    BY <1>2, <1>9, <1>14, ConcatIs
  <2>2. ASSUME NEW k \in 0..Len(d0) - 1 PROVE ~StandsAfter(s, tag, k)
    <3> SUFFICES ASSUME StandsAfter(s, tag, k) PROVE FALSE
      OBVIOUS
    <3>1. k \in Nat /\ k < m - 1 /\ k + 1 \in 1..Len(buf) /\ (k + 1) - 1 = k
      <4>1. k \in 0..(m - 1) - 1 /\ m \in 1..Len(buf)
        BY <1>2
      <4> QED BY <4>1, <1>1
    <3>2. Agree(buf, s)
      <4> HIDE DEF s
      <4>1. Agree(d \o Q.partial, d \o y)
        BY <1>12, <1>13, <1>16, ComparableAgree
      <4> QED BY <4>1, <1>15, <2>1
    <3> HIDE DEF s
    <3>3. \A j \in 1..Len(tag) : k + j <= Len(buf) => tag[j] = buf[k + j]
      BY <1>1, <2>1, <3>1, <3>2, StandsInOther
    <3>4. \A j \in 1..Len(tag) : k + j <= Len(buf)
      BY <1>1, <1>2, <3>1 DEF n
    <3>5. Len(tag) <= Len(buf) - k
      BY <1>1, <1>2, <3>1 DEF n
    <3>6. StandsAfter(buf, tag, (k + 1) - 1)
      BY <3>1, <3>3, <3>4, <3>5 DEF StandsAfter
    <3>7. k + 1 \in Occurrences(buf, tag)
      BY <1>1, <3>1, <3>6, OccurrencesStand
    <3>8. m <= k + 1 /\ m \in Int
      BY <1>2, <3>7
    <3> QED BY <3>1, <3>8
  <2>3. Meaning[s][i] = Prepend(i, d0, Meaning[z][i])
    <3> HIDE DEF z
    <3> QED BY <1>2, <2>1, <2>2, LettersMean DEF tag
  <2>4. Meaning[z][i] = Meaning[u][~i]
    <3>1. z # <<>>
      <4>1. Len(z) = Len(tag) + Len(u) /\ Len(u) \in Nat
        BY <1>1, <2>1, ConcatIs
      <4> HIDE DEF z
      <4>2. Len(z) # 0
        BY <1>1, <4>1
      <4> QED BY <4>2
    <3>2. IsPrefix(tag, z) /\ DropFirst(z, Len(tag)) = u
      BY <1>1, <2>1, ConcatDrop
    <3> HIDE DEF z, u
    <3>3. Meaning[z][i] = MeaningBody(Meaning, z, i)
      BY <2>1, MeaningIs
    <3> QED BY <3>1, <3>2, <3>3 DEF MeaningBody, tag
  <2>5. Meaning[u][~i] = Joined(Q, Meaning[y][Q.inThink])
    BY <1>9, <1>16
  <2>6. Meaning[y][Q.inThink] \in Parts
    BY <1>12, MeaningType
  <2>7. Prepend(i, d0, Joined(Q, Meaning[y][Q.inThink])) = Joined(P, Meaning[y][Q.inThink])
    BY <1>2, <1>3, <1>8, <2>6, PrependJoined
  <2> HIDE DEF s, z, u
  <2> QED BY <2>1, <2>3, <2>4, <2>5, <2>7, <1>11
<1>17. Faithful(buf, i, d)
  BY <1>11, <1>13, <1>15, <1>16 DEF Faithful, P
<1>18. Len(P.partial) < Len(Tag(P.inThink))
  BY <1>10, <1>11
<1> QED BY <1>17, <1>18 DEF Kept, P

\* process tells what is meant, of every text.
LEMMA ProcessIsFaithful ==
  ASSUME NEW buf \in Seq(Letters), NEW i \in BOOLEAN
  PROVE  Kept(buf, i)
<1> DEFINE A == {n \in Nat : \A s \in Seq(Letters), k \in BOOLEAN : Len(s) < n => Kept(s, k)}
<1>1. 0 \in A
  BY LenProperties
<1>2. ASSUME NEW n \in Nat, n \in A PROVE n + 1 \in A
  <2> SUFFICES ASSUME NEW s \in Seq(Letters), NEW k \in BOOLEAN, Len(s) < n + 1 PROVE Kept(s, k)
    OBVIOUS
  <2>1. ASSUME NEW t \in Seq(Letters), Len(t) < Len(s) PROVE Kept(t, ~k)
    <3>1. Len(t) \in Nat /\ Len(s) \in Nat /\ (~k) \in BOOLEAN
      BY LenProperties, NotBoolean
    <3>2. Len(t) < n
      BY <2>1, <3>1
    <3> QED BY <3>1, <3>2, <1>2
  <2>2. CASE Occurrences(s, Tag(k)) = {}
    BY <2>2, ProcessNoTag DEF Kept
  <2>3. CASE Occurrences(s, Tag(k)) # {}
    BY <2>1, <2>3, ProcessTag
  <2> QED BY <2>2, <2>3
<1>3. \A n \in Nat : n \in A
  <2> HIDE DEF A
  <2> QED BY <1>1, <1>2, F!NatSetInduction
<1>4. Len(buf) \in Nat /\ Len(buf) + 1 \in Nat /\ Len(buf) < Len(buf) + 1
  BY LenProperties
<1>5. Len(buf) + 1 \in A
  BY <1>3, <1>4
<1> QED BY <1>4, <1>5

-------------------------------------------------------------------------------
(* Events, and a client that sees them.                                        *)

Slots == Seq(Nat \cup {NotOpened})

\* What st may be.
States ==
  [started: BOOLEAN, ended: BOOLEAN, next: Nat, thinking: BlockState, text: BlockState,
   slots: Seq(Nat \cup {NotOpened}), inThink: BOOLEAN, partial: Seq(Letters),
   told: Seq(Letters), wrote: Seq(Events(Letters)), client: ClientType]

\* The part of a state that a turn's end looks at, the blocks, and the ends
\* that the client has heard of.
Flow(s)   == <<s.started, s.ended, s.inThink, s.partial>>
Blocks(s) == <<s.next, s.thinking, s.text, s.slots>>
EndsOf(c)   == <<c.endings, c.stops>>

\* The events, field by field.
LEMMA ReasonEdit ==
  ASSUME NEW a, NEW b, NEW c, NEW d, NEW e, NEW f, NEW x
  PROVE  [[type |-> a, index |-> b, kind |-> c, text |-> d, call |-> e, stop_reason |-> f] EXCEPT !.stop_reason = x]
           = [type |-> a, index |-> b, kind |-> c, text |-> d, call |-> e, stop_reason |-> x]
OBVIOUS

LEMMA TextEdit ==
  ASSUME NEW a, NEW b, NEW c, NEW d, NEW e, NEW f, NEW x
  PROVE  [[type |-> a, index |-> b, kind |-> c, text |-> d, call |-> e, stop_reason |-> f] EXCEPT !.text = x]
           = [type |-> a, index |-> b, kind |-> c, text |-> x, call |-> e, stop_reason |-> f]
OBVIOUS

LEMMA BlockEdit ==
  ASSUME NEW a, NEW b, NEW c, NEW d, NEW e, NEW f, NEW x, NEW y
  PROVE  [[type |-> a, index |-> b, kind |-> c, text |-> d, call |-> e, stop_reason |-> f] EXCEPT !.index = x, !.kind = y]
           = [type |-> a, index |-> x, kind |-> y, text |-> d, call |-> e, stop_reason |-> f]
<1> DEFINE r == [type |-> a, index |-> b, kind |-> c, text |-> d, call |-> e, stop_reason |-> f]
           t == [r EXCEPT !.index = x, !.kind = y]
<1>1. /\ r = [z \in {"type", "index", "kind", "text", "call", "stop_reason"} |-> r[z]]
      /\ r.type = a /\ r.text = d /\ r.call = e /\ r.stop_reason = f
  OBVIOUS
<1> HIDE DEF r
<1>2. /\ t = [z \in {"type", "index", "kind", "text", "call", "stop_reason"} |-> t[z]]
      /\ t.type = a /\ t.text = d /\ t.call = e /\ t.stop_reason = f /\ t.index = x /\ t.kind = y
  BY <1>1
<1> HIDE DEF t
<1>3. t = [type |-> a, index |-> x, kind |-> y, text |-> d, call |-> e, stop_reason |-> f]
  BY <1>2
<1> QED BY <1>3 DEF r, t

LEMMA CallEdit ==
  ASSUME NEW a, NEW b, NEW c, NEW d, NEW e, NEW f, NEW x
  PROVE  [[type |-> a, index |-> b, kind |-> c, text |-> d, call |-> e, stop_reason |-> f] EXCEPT !.call = x]
           = [type |-> a, index |-> b, kind |-> c, text |-> d, call |-> x, stop_reason |-> f]
OBVIOUS

LEMMA BlockIs ==
  ASSUME NEW type, NEW n, NEW kind
  PROVE  Block(type, n, kind) = [type |-> type, index |-> n, kind |-> kind, text |-> <<>>, call |-> 0,
                                 stop_reason |-> "none"]
<1>1. Block(type, n, kind) = [[type |-> type, index |-> 0, kind |-> "none", text |-> <<>>, call |-> 0,
                               stop_reason |-> "none"] EXCEPT !.index = n, !.kind = kind]
  BY DEF Plain, Block
<1> QED BY <1>1, BlockEdit

\* Every event that stream writes is one.
LEMMA EventsAre ==
  ASSUME NEW n \in Nat, NEW k \in Nat, NEW type \in EventTypes, NEW kind \in Kinds,
         NEW text \in Seq(Letters), NEW reason \in StopReasons
  PROVE  /\ Plain(type) \in Events(Letters) /\ Plain(type).type = type
         /\ MessageDelta(reason) \in Events(Letters) /\ MessageDelta(reason).type = "message_delta"
         /\ Block(type, n, kind) \in Events(Letters)
         /\ Block(type, n, kind).type = type /\ Block(type, n, kind).index = n
         /\ TextDelta(n, text) \in Events(Letters)
         /\ TextDelta(n, text).type = "content_block_delta" /\ TextDelta(n, text).index = n
         /\ ToolUse(type, n, k) \in Events(Letters)
         /\ ToolUse(type, n, k).type = type /\ ToolUse(type, n, k).index = n
<1>1. <<>> \in Seq(Letters) /\ 0 \in Nat /\ "content_block_delta" \in EventTypes
      /\ "message_delta" \in EventTypes /\ "text" \in Kinds /\ "tool_use" \in Kinds
  BY DEF EventTypes, Kinds
<1>2. Plain(type) = [type |-> type, index |-> 0, kind |-> "none", text |-> <<>>, call |-> 0,
                     stop_reason |-> "none"]
  BY DEF Plain
<1>3. MessageDelta(reason) = [type |-> "message_delta", index |-> 0, kind |-> "none", text |-> <<>>,
                              call |-> 0, stop_reason |-> reason]
  <2>1. MessageDelta(reason) = [[type |-> "message_delta", index |-> 0, kind |-> "none", text |-> <<>>,
                                 call |-> 0, stop_reason |-> "none"] EXCEPT !.stop_reason = reason]
    BY DEF Plain, MessageDelta
  <2> QED BY <2>1, ReasonEdit
<1>4. Block(type, n, kind) = [type |-> type, index |-> n, kind |-> kind, text |-> <<>>, call |-> 0,
                              stop_reason |-> "none"]
  BY BlockIs
<1>5. TextDelta(n, text) = [type |-> "content_block_delta", index |-> n, kind |-> "text",
                            text |-> text, call |-> 0, stop_reason |-> "none"]
  <2>1. TextDelta(n, text) = [[type |-> "content_block_delta", index |-> n, kind |-> "text", text |-> <<>>,
                               call |-> 0, stop_reason |-> "none"] EXCEPT !.text = text]
    BY BlockIs DEF TextDelta
  <2> QED BY <2>1, TextEdit
<1>6. ToolUse(type, n, k) = [type |-> type, index |-> n, kind |-> "tool_use", text |-> <<>>,
                             call |-> k, stop_reason |-> "none"]
  <2>1. ToolUse(type, n, k) = [[type |-> type, index |-> n, kind |-> "tool_use", text |-> <<>>,
                                call |-> 0, stop_reason |-> "none"] EXCEPT !.call = k]
    BY BlockIs DEF ToolUse
  <2> QED BY <2>1, CallEdit
<1>7. Plain(type) \in Events(Letters) /\ MessageDelta(reason) \in Events(Letters)
  BY <1>1, <1>2, <1>3 DEF Events
<1>8. Block(type, n, kind) \in Events(Letters)
  BY <1>1, <1>4 DEF Events
<1>9. TextDelta(n, text) \in Events(Letters) /\ ToolUse(type, n, k) \in Events(Letters)
  BY <1>1, <1>5, <1>6 DEF Events
<1> QED BY <1>2, <1>3, <1>4, <1>5, <1>6, <1>7, <1>8, <1>9

LEMMA PlainEvent ==
  ASSUME NEW type \in EventTypes
  PROVE  Plain(type) \in Events(Letters) /\ Plain(type).type = type
<1>1. 0 \in Nat /\ "text" \in Kinds /\ <<>> \in Seq(Letters) /\ "end_turn" \in StopReasons
  BY DEF Kinds, StopReasons
<1> QED BY <1>1, EventsAre

LEMMA BlockEvent ==
  ASSUME NEW type \in EventTypes, NEW n \in Nat, NEW kind \in Kinds
  PROVE  /\ Block(type, n, kind) \in Events(Letters)
         /\ Block(type, n, kind).type = type /\ Block(type, n, kind).index = n
<1>1. 0 \in Nat /\ <<>> \in Seq(Letters)
  OBVIOUS
<1> QED BY <1>1, BlockIs DEF Events

LEMMA DeltaEvent ==
  ASSUME NEW n \in Nat, NEW text \in Seq(Letters)
  PROVE  /\ TextDelta(n, text) \in Events(Letters)
         /\ TextDelta(n, text).type = "content_block_delta" /\ TextDelta(n, text).index = n
<1>1. "message_start" \in EventTypes /\ "text" \in Kinds /\ "end_turn" \in StopReasons
  BY DEF EventTypes, Kinds, StopReasons
<1> QED BY <1>1, EventsAre

LEMMA ToolEvent ==
  ASSUME NEW type \in EventTypes, NEW n \in Nat, NEW k \in Nat
  PROVE  /\ ToolUse(type, n, k) \in Events(Letters)
         /\ ToolUse(type, n, k).type = type /\ ToolUse(type, n, k).index = n
<1>1. ToolUse(type, n, k) = [[type |-> type, index |-> n, kind |-> "tool_use", text |-> <<>>,
                              call |-> 0, stop_reason |-> "none"] EXCEPT !.call = k]
  BY BlockIs DEF ToolUse
<1>2. ToolUse(type, n, k) = [type |-> type, index |-> n, kind |-> "tool_use", text |-> <<>>,
                             call |-> k, stop_reason |-> "none"]
  BY <1>1, CallEdit
<1>3. <<>> \in Seq(Letters) /\ "tool_use" \in Kinds
  BY DEF Kinds
<1> QED BY <1>2, <1>3 DEF Events

LEMMA EndingEvent ==
  ASSUME NEW reason \in StopReasons
  PROVE  MessageDelta(reason) \in Events(Letters) /\ MessageDelta(reason).type = "message_delta"
<1>1. 0 \in Nat /\ "message_start" \in EventTypes /\ "text" \in Kinds /\ <<>> \in Seq(Letters)
  BY DEF EventTypes, Kinds
<1> QED BY <1>1, EventsAre

\* What a client knows after one event more.
LEMMA SeeIs ==
  ASSUME NEW c \in ClientType, NEW ev \in Events(Letters)
  PROVE  LET d == See(c, ev) IN
         /\ d \in ClientType
         /\ ev.type \notin {"message_delta", "message_stop"} => EndsOf(d) = EndsOf(c)
         /\ ev.type = "message_start" =>
              d.phase = "content" /\ d.open = c.open /\ d.next = c.next
              /\ (c.phase = "none" => d.illegal = c.illegal)
         /\ ev.type = "content_block_start" =>
              d.phase = c.phase /\ d.open = c.open \cup {ev.index} /\ d.next = c.next + 1
              /\ (c.phase = "content" /\ ev.index = c.next => d.illegal = c.illegal)
         /\ ev.type = "content_block_delta" =>
              d.phase = c.phase /\ d.open = c.open /\ d.next = c.next
              /\ (c.phase = "content" /\ ev.index \in c.open => d.illegal = c.illegal)
         /\ ev.type = "content_block_stop" =>
              d.phase = c.phase /\ d.open = c.open \ {ev.index} /\ d.next = c.next
              /\ (c.phase = "content" /\ ev.index \in c.open => d.illegal = c.illegal)
         /\ ev.type = "message_delta" =>
              d.phase = "ending" /\ d.open = c.open /\ d.next = c.next
              /\ d.endings = c.endings + 1 /\ d.stops = c.stops
              /\ (c.phase = "content" /\ c.open = {} => d.illegal = c.illegal)
         /\ ev.type = "message_stop" =>
              d.phase = "stopped" /\ d.open = c.open /\ d.next = c.next
              /\ d.endings = c.endings /\ d.stops = c.stops + 1
              /\ (c.phase = "ending" => d.illegal = c.illegal)
<1> DEFINE d == See(c, ev)
<1>1. ev.type \in EventTypes /\ ev.index \in Nat
  BY DEF Events
<1>2. /\ c.phase \in Phases /\ c.open \in SUBSET Nat /\ c.next \in Nat
      /\ c.illegal \in SUBSET EventTypes /\ c.endings \in Nat /\ c.stops \in Nat
  BY DEF ClientType
<1>3. d.illegal \in SUBSET EventTypes /\ (Legal(c, ev) => d.illegal = c.illegal)
  <2>1. d.illegal = IF Legal(c, ev) THEN c.illegal ELSE c.illegal \cup {ev.type}
    BY DEF See
  <2> QED BY <2>1, <1>1, <1>2
<1>4. CASE ev.type = "message_start"
  BY <1>1, <1>2, <1>3, <1>4 DEF See, Legal, ClientType, EndsOf, Phases
<1>5. CASE ev.type = "content_block_start"
  BY <1>1, <1>2, <1>3, <1>5 DEF See, Legal, ClientType, EndsOf
<1>6. CASE ev.type = "content_block_delta"
  BY <1>1, <1>2, <1>3, <1>6 DEF See, Legal, ClientType, EndsOf
<1>7. CASE ev.type = "content_block_stop"
  BY <1>1, <1>2, <1>3, <1>7 DEF See, Legal, ClientType, EndsOf
<1>8. CASE ev.type = "message_delta"
  BY <1>1, <1>2, <1>3, <1>8 DEF See, Legal, ClientType, EndsOf, Phases
<1>9. CASE ev.type = "message_stop"
  BY <1>1, <1>2, <1>3, <1>9 DEF See, Legal, ClientType, EndsOf, Phases
<1> QED BY <1>1, <1>4, <1>5, <1>6, <1>7, <1>8, <1>9 DEF EventTypes

-------------------------------------------------------------------------------
(* States of the stream, and changes to them.                                  *)

\* The fields of a state, and what changes of them are.
LEMMA StateFields ==
  ASSUME NEW s \in States
  PROVE  /\ s.started \in BOOLEAN /\ s.ended \in BOOLEAN /\ s.next \in Nat
         /\ s.thinking \in BlockState /\ s.text \in BlockState /\ s.slots \in Slots
         /\ s.inThink \in BOOLEAN /\ s.partial \in Seq(Letters) /\ s.told \in Seq(Letters)
         /\ s.wrote \in Seq(Events(Letters)) /\ s.client \in ClientType
BY DEF States, Slots

LEMMA EmitIs ==
  ASSUME NEW s \in States, NEW ev \in Events(Letters)
  PROVE  /\ Emit(s, ev) \in States
         /\ Emit(s, ev).client = See(s.client, ev) /\ Emit(s, ev).told = s.told
         /\ Flow(Emit(s, ev)) = Flow(s) /\ Blocks(Emit(s, ev)) = Blocks(s)
<1>1. See(s.client, ev) \in ClientType
  BY SeeIs, StateFields
<1>2. Append(s.wrote, ev) \in Seq(Events(Letters))
  BY StateFields
<1>3. Emit(s, ev) = [s EXCEPT !.client = See(s.client, ev), !.wrote = Append(s.wrote, ev)]
  BY DEF Emit
<1> DEFINE c == See(s.client, ev)
           w == Append(s.wrote, ev)
<1> HIDE DEF c, w
<1>4. Emit(s, ev) = [s EXCEPT !.client = c, !.wrote = w] /\ c \in ClientType /\ w \in Seq(Events(Letters))
  BY <1>1, <1>2, <1>3 DEF c, w
<1>5. Emit(s, ev) \in States
  BY <1>4 DEF States
<1>6. /\ Emit(s, ev).client = c /\ Emit(s, ev).told = s.told
      /\ Flow(Emit(s, ev)) = Flow(s) /\ Blocks(Emit(s, ev)) = Blocks(s)
  BY <1>4 DEF States, Flow, Blocks
<1> QED BY <1>5, <1>6 DEF c

LEMMA QuietIs ==
  ASSUME NEW s \in States
  PROVE  /\ Quiet(s) \in States /\ Quiet(s).client = s.client /\ Quiet(s).told = s.told
         /\ Flow(Quiet(s)) = Flow(s) /\ Blocks(Quiet(s)) = Blocks(s)
<1>1. <<>> \in Seq(Events(Letters))
  OBVIOUS
<1>2. Quiet(s) \in States
  BY <1>1 DEF Quiet, States
<1> QED BY <1>2 DEF Quiet, States, Flow, Blocks

LEMMA FlowFields ==
  ASSUME NEW s, NEW t, Flow(s) = Flow(t)
  PROVE  s.started = t.started /\ s.ended = t.ended /\ s.inThink = t.inThink /\ s.partial = t.partial
BY DEF Flow

LEMMA BlocksFields ==
  ASSUME NEW s, NEW t, Blocks(s) = Blocks(t)
  PROVE  s.next = t.next /\ s.thinking = t.thinking /\ s.text = t.text /\ s.slots = t.slots
BY DEF Blocks

\* States with one thing changed.
LEMMA ThinkingEdit ==
  ASSUME NEW s \in States, NEW b \in BlockState
  PROVE  LET t == [s EXCEPT !.thinking = b] IN
         /\ t \in States /\ t.client = s.client /\ t.told = s.told /\ Flow(t) = Flow(s)
         /\ Blocks(t) = <<s.next, b, s.text, s.slots>>
BY DEF States, Flow, Blocks

LEMMA SpeechEdit ==
  ASSUME NEW s \in States, NEW b \in BlockState
  PROVE  LET t == [s EXCEPT !.text = b] IN
         /\ t \in States /\ t.client = s.client /\ t.told = s.told /\ Flow(t) = Flow(s)
         /\ Blocks(t) = <<s.next, s.thinking, b, s.slots>>
BY DEF States, Flow, Blocks

LEMMA NextEdit ==
  ASSUME NEW s \in States, NEW n \in Nat
  PROVE  LET t == [s EXCEPT !.next = n] IN
         /\ t \in States /\ t.client = s.client /\ t.told = s.told /\ Flow(t) = Flow(s)
         /\ Blocks(t) = <<n, s.thinking, s.text, s.slots>>
BY DEF States, Flow, Blocks

LEMMA SlotsEdit ==
  ASSUME NEW s \in States, NEW q \in Slots
  PROVE  LET t == [s EXCEPT !.slots = q] IN
         /\ t \in States /\ t.client = s.client /\ t.told = s.told /\ Flow(t) = Flow(s)
         /\ Blocks(t) = <<s.next, s.thinking, s.text, q>>
BY DEF States, Flow, Blocks, Slots

LEMMA NextSlotsEdit ==
  ASSUME NEW s \in States, NEW n \in Nat, NEW q \in Slots
  PROVE  LET t == [s EXCEPT !.next = n, !.slots = q] IN
         /\ t \in States /\ t.client = s.client /\ t.told = s.told /\ Flow(t) = Flow(s)
         /\ Blocks(t) = <<n, s.thinking, s.text, q>>
BY DEF States, Flow, Blocks, Slots

-------------------------------------------------------------------------------
(* Blocks.                                                                     *)

\* The numbers of the blocks that stream takes to be open.
OpenBlocks(s) ==
  {b \in Nat : b = s.thinking \/ b = s.text \/ \E k \in DOMAIN s.slots : s.slots[k] = b}

\* Each has a number of its own, below the next.
Numbered(s) ==
  /\ \A b \in OpenBlocks(s) : b < s.next
  /\ s.thinking >= 0 => s.thinking # s.text
  /\ \A k \in DOMAIN s.slots : s.slots[k] >= 0 =>
       /\ s.slots[k] # s.thinking /\ s.slots[k] # s.text
       /\ \A j \in DOMAIN s.slots : s.slots[j] = s.slots[k] => j = k

\* While the message is not ended: the client has the same blocks open.
Sound(s) ==
  /\ s.client.phase = "content"
  /\ s.client.illegal = {}
  /\ s.client.next = s.next
  /\ s.client.open = OpenBlocks(s)
  /\ Numbered(s)

\* What the turns of the loop leave alone.
Follows(s, t) ==
  /\ t \in States
  /\ Flow(t) = Flow(s)
  /\ EndsOf(t.client) = EndsOf(s.client)

LEMMA FollowsOn ==
  ASSUME NEW s, NEW t, NEW u, Follows(s, t), Follows(t, u)
  PROVE  Follows(s, u)
BY DEF Follows

LEMMA FollowsSelf == ASSUME NEW s \in States PROVE Follows(s, s)
BY DEF Follows

LEMMA EmitFollows ==
  ASSUME NEW s \in States, NEW ev \in Events(Letters), ev.type \notin {"message_delta", "message_stop"}
  PROVE  Follows(s, Emit(s, ev))
BY EmitIs, SeeIs, StateFields DEF Follows

\* A delta, the opening of a block and its closing leave a sound state sound.
LEMMA SoundDelta ==
  ASSUME NEW s \in States, Sound(s), NEW ev \in Events(Letters),
         ev.type = "content_block_delta", ev.index \in OpenBlocks(s)
  PROVE  Sound(Emit(s, ev))
<1> DEFINE t == Emit(s, ev)
           d == See(s.client, ev)
<1>1. t.client = d /\ Blocks(t) = Blocks(s) /\ s.client \in ClientType
  BY EmitIs, StateFields
<1>2. d.phase = s.client.phase /\ d.open = s.client.open /\ d.next = s.client.next
      /\ d.illegal = s.client.illegal
  <2>1. s.client.phase = "content" /\ ev.index \in s.client.open
    BY DEF Sound
  <2> QED BY <1>1, <2>1, SeeIs
<1> HIDE DEF t, d
<1>3. s.next = t.next /\ s.thinking = t.thinking /\ s.text = t.text /\ s.slots = t.slots
  BY <1>1, BlocksFields
<1>4. OpenBlocks(t) = OpenBlocks(s) /\ (Numbered(s) => Numbered(t))
  BY <1>3 DEF OpenBlocks, Numbered
<1> QED BY <1>1, <1>2, <1>3, <1>4 DEF Sound, t

LEMMA SoundOpening ==
  ASSUME NEW s \in States, NEW t, Sound(s), NEW ev \in Events(Letters),
         ev.type = "content_block_start", ev.index = s.next, t.client = See(s.client, ev),
         t.next = s.next + 1, OpenBlocks(t) = OpenBlocks(s) \cup {s.next}, Numbered(t)
  PROVE  Sound(t)
<1>1. s.client \in ClientType
  BY StateFields
<1> QED BY <1>1, SeeIs DEF Sound

LEMMA SoundClosing ==
  ASSUME NEW s \in States, NEW t, Sound(s), NEW ev \in Events(Letters),
         ev.type = "content_block_stop", ev.index \in OpenBlocks(s), t.client = See(s.client, ev),
         t.next = s.next, OpenBlocks(t) = OpenBlocks(s) \ {ev.index}, Numbered(t)
  PROVE  Sound(t)
<1>1. s.client \in ClientType
  BY StateFields
<1> QED BY <1>1, SeeIs DEF Sound

\* What the steps of a turn make of a state, one lemma for each.
LEMMA CloseThinkingIs ==
  ASSUME NEW s \in States
  PROVE  LET t == CloseThinkingBlock(s) IN
         /\ Follows(s, t) /\ t.told = s.told
         /\ t.next = s.next /\ t.text = s.text /\ t.slots = s.slots
         /\ t.thinking < 0
         /\ Sound(s) => Sound(t)
<1> DEFINE t == CloseThinkingBlock(s)
           u == [s EXCEPT !.thinking = Closed]
           ev == Block("content_block_stop", s.thinking, "thinking")
<1>0. s.thinking \in BlockState /\ s.next \in Nat
  BY StateFields
<1>1. CASE s.thinking >= 0
  <2>1. ev \in Events(Letters) /\ ev.type = "content_block_stop" /\ ev.index = s.thinking /\ s.thinking \in Nat
    <3>1. s.thinking \in Nat /\ "content_block_stop" \in EventTypes /\ "thinking" \in Kinds
      BY <1>0, <1>1 DEF BlockState, NotOpened, Closed, EventTypes, Kinds
    <3> QED BY <3>1, BlockEvent
  <2>2. /\ u \in States /\ u.client = s.client /\ u.told = s.told /\ Flow(u) = Flow(s)
        /\ Blocks(u) = <<s.next, Closed, s.text, s.slots>>
    <3>1. Closed \in BlockState
      BY DEF BlockState
    <3> QED BY <3>1, ThinkingEdit
  <2>3. t = Emit(u, ev)
    BY <1>1 DEF CloseThinkingBlock
  <2> HIDE DEF t, u, ev
  <2>4. /\ t \in States /\ t.client = See(s.client, ev) /\ t.told = s.told
        /\ Flow(t) = Flow(s) /\ Blocks(t) = <<s.next, Closed, s.text, s.slots>>
    BY <2>1, <2>2, <2>3, EmitIs
  <2>5. t.next = s.next /\ t.thinking = Closed /\ t.text = s.text /\ t.slots = s.slots
    BY <2>4 DEF Blocks
  <2>6. Follows(s, t)
    <3>1. ev.type \notin {"message_delta", "message_stop"} /\ s.client \in ClientType
      BY <2>1, StateFields
    <3>2. EndsOf(See(s.client, ev)) = EndsOf(s.client)
      BY <2>1, <3>1, SeeIs
    <3> QED BY <2>4, <3>2 DEF Follows
  <2>7. ASSUME Sound(s) PROVE Sound(t)
    <3>1. s.thinking \in OpenBlocks(s)
      BY <2>1 DEF OpenBlocks
    <3>2. Numbered(s)
      BY <2>7 DEF Sound
    <3>3. \A k \in DOMAIN s.slots : s.slots[k] # s.thinking
      BY <3>2, <1>1 DEF Numbered
    <3>4. s.thinking # s.text
      BY <3>2, <1>1 DEF Numbered
    <3>5. OpenBlocks(t) = OpenBlocks(s) \ {s.thinking}
      BY <2>5, <3>3, <3>4 DEF OpenBlocks, Closed
    <3>6. Numbered(t)
      BY <3>2, <2>5, <3>5 DEF Numbered, Closed
    <3> QED BY <2>1, <2>4, <2>5, <2>7, <3>1, <3>5, <3>6, SoundClosing
  <2>8. t.thinking < 0
    BY <2>5 DEF Closed
  <2> QED BY <2>4, <2>5, <2>6, <2>7, <2>8 DEF t
<1>2. CASE ~(s.thinking >= 0)
  <2>1. t = s
    BY <1>2 DEF CloseThinkingBlock
  <2>2. s.thinking < 0
    BY <1>0, <1>2 DEF BlockState, NotOpened, Closed
  <2> QED BY <2>1, <2>2, FollowsSelf
<1> QED BY <1>1, <1>2

LEMMA CloseTextIs ==
  ASSUME NEW s \in States
  PROVE  LET t == CloseTextBlock(s) IN
         /\ Follows(s, t) /\ t.told = s.told
         /\ t.next = s.next /\ t.thinking = s.thinking /\ t.slots = s.slots
         /\ t.text < 0
         /\ s.text >= 0 => t.client = See(s.client, Block("content_block_stop", s.text, "text"))
         /\ ~(s.text >= 0) => t = s
<1> DEFINE t == CloseTextBlock(s)
           u == [s EXCEPT !.text = Closed]
           ev == Block("content_block_stop", s.text, "text")
<1>0. s.text \in BlockState /\ s.next \in Nat
  BY StateFields
<1>1. CASE s.text >= 0
  <2>1. ev \in Events(Letters) /\ ev.type = "content_block_stop" /\ ev.index = s.text /\ s.text \in Nat
    <3>1. s.text \in Nat /\ "content_block_stop" \in EventTypes /\ "text" \in Kinds
      BY <1>0, <1>1 DEF BlockState, NotOpened, Closed, EventTypes, Kinds
    <3> QED BY <3>1, BlockEvent
  <2>2. /\ u \in States /\ u.client = s.client /\ u.told = s.told /\ Flow(u) = Flow(s)
        /\ Blocks(u) = <<s.next, s.thinking, Closed, s.slots>>
    <3>1. Closed \in BlockState
      BY DEF BlockState
    <3> QED BY <3>1, SpeechEdit
  <2>3. t = Emit(u, ev)
    BY <1>1 DEF CloseTextBlock
  <2> HIDE DEF t, u, ev
  <2>4. /\ t \in States /\ t.client = See(s.client, ev) /\ t.told = s.told
        /\ Flow(t) = Flow(s) /\ Blocks(t) = <<s.next, s.thinking, Closed, s.slots>>
    BY <2>1, <2>2, <2>3, EmitIs
  <2>5. t.next = s.next /\ t.thinking = s.thinking /\ t.text = Closed /\ t.slots = s.slots
    BY <2>4 DEF Blocks
  <2>6. Follows(s, t)
    <3>1. ev.type \notin {"message_delta", "message_stop"} /\ s.client \in ClientType
      BY <2>1, StateFields
    <3>2. EndsOf(See(s.client, ev)) = EndsOf(s.client)
      BY <2>1, <3>1, SeeIs
    <3> QED BY <2>4, <3>2 DEF Follows
  <2>8. t.text < 0
    BY <2>5 DEF Closed
  <2> QED BY <1>1, <2>4, <2>5, <2>6, <2>8 DEF t, ev
<1>2. CASE ~(s.text >= 0)
  <2>1. t = s
    BY <1>2 DEF CloseTextBlock
  <2>2. s.text < 0
    BY <1>0, <1>2 DEF BlockState, NotOpened, Closed
  <2> QED BY <1>2, <2>1, <2>2, FollowsSelf
<1> QED BY <1>1, <1>2

LEMMA ToldEdit ==
  ASSUME NEW s \in States, NEW told \in Seq(Letters)
  PROVE  LET t == [s EXCEPT !.told = told] IN
         /\ t \in States /\ t.client = s.client /\ t.told = told /\ Flow(t) = Flow(s)
         /\ Blocks(t) = Blocks(s)
BY DEF States, Flow, Blocks

\* The same blocks and the same client: sound as before.
LEMMA SameBlocks ==
  ASSUME NEW s, NEW t, Blocks(t) = Blocks(s), t.client = s.client
  PROVE  OpenBlocks(t) = OpenBlocks(s) /\ (Sound(s) => Sound(t))
<1>1. t.next = s.next /\ t.thinking = s.thinking /\ t.text = s.text /\ t.slots = s.slots
  BY BlocksFields
<1>2. OpenBlocks(t) = OpenBlocks(s) /\ (Numbered(s) => Numbered(t))
  BY <1>1 DEF OpenBlocks, Numbered
<1> QED BY <1>1, <1>2 DEF Sound

LEMMA OpenBlockIs ==
  ASSUME NEW s \in States, NEW kind \in Kinds
  PROVE  LET t  == OpenBlock(s, kind)
             ev == Block("content_block_start", s.next, kind) IN
         /\ ev \in Events(Letters) /\ ev.type = "content_block_start" /\ ev.index = s.next
         /\ Follows(s, t) /\ t.told = s.told /\ t.client = See(s.client, ev)
         /\ t.next = s.next + 1 /\ t.thinking = s.thinking /\ t.text = s.text /\ t.slots = s.slots
<1> DEFINE t  == OpenBlock(s, kind)
           ev == Block("content_block_start", s.next, kind)
           u  == [s EXCEPT !.next = s.next + 1]
<1>0. s.next \in Nat /\ s.next + 1 \in Nat /\ s.client \in ClientType
  BY StateFields
<1>1. ev \in Events(Letters) /\ ev.type = "content_block_start" /\ ev.index = s.next
  <2>1. "content_block_start" \in EventTypes
    BY DEF EventTypes
  <2> QED BY <1>0, <2>1, BlockEvent
<1>2. /\ u \in States /\ u.client = s.client /\ u.told = s.told /\ Flow(u) = Flow(s)
      /\ Blocks(u) = <<s.next + 1, s.thinking, s.text, s.slots>>
  BY <1>0, NextEdit
<1>3. t = Emit(u, ev)
  BY DEF OpenBlock
<1> HIDE DEF t, u, ev
<1>4. /\ t \in States /\ t.client = See(s.client, ev) /\ t.told = s.told /\ Flow(t) = Flow(s)
      /\ Blocks(t) = <<s.next + 1, s.thinking, s.text, s.slots>>
  BY <1>1, <1>2, <1>3, EmitIs
<1>5. t.next = s.next + 1 /\ t.thinking = s.thinking /\ t.text = s.text /\ t.slots = s.slots
  BY <1>4 DEF Blocks
<1>6. Follows(s, t)
  <2>1. EndsOf(See(s.client, ev)) = EndsOf(s.client)
    BY <1>0, <1>1, SeeIs
  <2> QED BY <1>4, <2>1 DEF Follows
<1> QED BY <1>1, <1>4, <1>5, <1>6 DEF t, ev

LEMMA DeltaIs ==
  ASSUME NEW s \in States, NEW ev \in Events(Letters), ev.type = "content_block_delta"
  PROVE  LET t == Emit(s, ev) IN
         /\ Follows(s, t) /\ t.told = s.told
         /\ t.next = s.next /\ t.thinking = s.thinking /\ t.text = s.text /\ t.slots = s.slots
         /\ Sound(s) /\ ev.index \in OpenBlocks(s) => Sound(t)
<1> DEFINE t == Emit(s, ev)
<1>1. Follows(s, t)
  BY EmitFollows
<1>2. t.told = s.told /\ Blocks(t) = Blocks(s)
  BY EmitIs
<1>3. Sound(s) /\ ev.index \in OpenBlocks(s) => Sound(t)
  BY SoundDelta
<1> HIDE DEF t
<1>4. t.next = s.next /\ t.thinking = s.thinking /\ t.text = s.text /\ t.slots = s.slots
  BY <1>2, BlocksFields
<1> QED BY <1>1, <1>2, <1>3, <1>4 DEF t

LEMMA EmitThinkingIs ==
  ASSUME NEW s \in States, NEW some \in BOOLEAN
  PROVE  LET t == EmitThinkingDelta(s, some) IN
         /\ Follows(s, t) /\ t.told = s.told /\ t.text = s.text /\ t.slots = s.slots
         /\ Sound(s) => Sound(t)
<1> DEFINE o == OpenBlock(s, "thinking")
           ev == Block("content_block_start", s.next, "thinking")
           n == s.next
           w == [o EXCEPT !.thinking = n]
           t == IF some /\ s.thinking = NotOpened THEN w ELSE s
           dv == Block("content_block_delta", t.thinking, "thinking")
           r == EmitThinkingDelta(s, some)
<1>0. r = IF some /\ t.thinking >= 0 THEN Emit(t, dv) ELSE t
  BY DEF EmitThinkingDelta
<1>1. /\ Follows(s, t) /\ t.told = s.told /\ t.text = s.text /\ t.slots = s.slots
      /\ Sound(s) => Sound(t)
  <2>1. CASE some /\ s.thinking = NotOpened
    <3>0. "thinking" \in Kinds /\ s.next \in Nat /\ s.next \in BlockState
      BY StateFields DEF Kinds, BlockState
    <3>1. /\ ev \in Events(Letters) /\ ev.type = "content_block_start" /\ ev.index = n
          /\ Follows(s, o) /\ o.told = s.told /\ o.client = See(s.client, ev)
          /\ o.next = n + 1 /\ o.thinking = s.thinking /\ o.text = s.text /\ o.slots = s.slots
      BY <3>0, OpenBlockIs
    <3> HIDE DEF o, ev
    <3>2. o \in States
      BY <3>1 DEF Follows
    <3>3. /\ w \in States /\ w.client = o.client /\ w.told = o.told /\ Flow(w) = Flow(o)
          /\ Blocks(w) = <<o.next, n, o.text, o.slots>>
      BY <3>0, <3>2, ThinkingEdit
    <3>4. t = w
      BY <2>1
    <3> HIDE DEF t, w
    <3>5. w.next = n + 1 /\ w.thinking = n /\ w.text = s.text /\ w.slots = s.slots
      BY <3>1, <3>3 DEF Blocks
    <3>6. Follows(s, w)
      BY <3>1, <3>3 DEF Follows
    <3>7. ASSUME Sound(s) PROVE Sound(w)
      <4>1. Numbered(s)
        BY <3>7 DEF Sound
      <4>2. OpenBlocks(w) = OpenBlocks(s) \cup {n}
        BY <3>0, <3>5, <2>1 DEF OpenBlocks, NotOpened
      <4>3. \A b \in OpenBlocks(s) : b < n
        BY <4>1 DEF Numbered
      <4>4. s.text # n /\ \A k \in DOMAIN s.slots : s.slots[k] # n
        <5>1. n \notin OpenBlocks(s)
          BY <3>0, <4>3
        <5> QED BY <3>0, <5>1 DEF OpenBlocks
      <4>5. \A b \in OpenBlocks(w) : b < n + 1
        <5>1. OpenBlocks(s) \subseteq Nat
          BY DEF OpenBlocks
        <5> QED BY <3>0, <4>2, <4>3, <5>1
      <4>6. Numbered(w)
        <5>1. w.thinking # w.text
          BY <3>5, <4>4
        <5>2. ASSUME NEW k \in DOMAIN w.slots, w.slots[k] >= 0
              PROVE  /\ w.slots[k] # w.thinking /\ w.slots[k] # w.text
                     /\ \A j \in DOMAIN w.slots : w.slots[j] = w.slots[k] => j = k
          BY <3>5, <4>1, <4>4, <5>2 DEF Numbered
        <5>3. \A b \in OpenBlocks(w) : b < w.next
          BY <3>5, <4>5
        <5> QED BY <5>1, <5>2, <5>3 DEF Numbered
      <4> QED BY <3>1, <3>3, <3>5, <3>7, <4>2, <4>6, SoundOpening
    <3> QED BY <3>1, <3>3, <3>4, <3>5, <3>6, <3>7
  <2>2. CASE ~(some /\ s.thinking = NotOpened)
    BY <2>2, FollowsSelf
  <2> QED BY <2>1, <2>2
<1> HIDE DEF t
<1>2. t \in States
  BY <1>1 DEF Follows
<1>3. CASE some /\ t.thinking >= 0
  <2>1. t.thinking \in Nat
    BY <1>2, <1>3, StateFields DEF BlockState, NotOpened, Closed
  <2>2. dv \in Events(Letters) /\ dv.type = "content_block_delta" /\ dv.index = t.thinking
    <3>1. "content_block_delta" \in EventTypes /\ "thinking" \in Kinds
      BY DEF EventTypes, Kinds
    <3> QED BY <2>1, <3>1, BlockEvent
  <2>3. t.thinking \in OpenBlocks(t)
    BY <2>1 DEF OpenBlocks
  <2>4. r = Emit(t, dv)
    BY <1>0, <1>3
  <2> HIDE DEF dv, r
  <2>5. /\ Follows(t, r) /\ r.told = t.told /\ r.text = t.text /\ r.slots = t.slots
        /\ Sound(t) => Sound(r)
    BY <1>2, <2>2, <2>3, <2>4, DeltaIs
  <2>6. Follows(s, r)
    BY <1>1, <2>5, FollowsOn
  <2> QED BY <1>1, <2>5, <2>6 DEF r
<1>4. CASE ~(some /\ t.thinking >= 0)
  <2>1. r = t
    BY <1>0, <1>4
  <2> QED BY <1>1, <2>1
<1> QED BY <1>3, <1>4

LEMMA OpenTextIs ==
  ASSUME NEW s \in States, s.text = NotOpened
  PROVE  LET t == [OpenBlock(s, "text") EXCEPT !.text = s.next] IN
         /\ Follows(s, t) /\ t.told = s.told /\ t.slots = s.slots /\ t.text = s.next
         /\ Sound(s) => Sound(t)
<1> DEFINE o == OpenBlock(s, "text")
           ev == Block("content_block_start", s.next, "text")
           n == s.next
           w == [o EXCEPT !.text = n]
<1>0. "text" \in Kinds /\ s.next \in Nat /\ s.next \in BlockState
  BY StateFields DEF Kinds, BlockState
<1>1. /\ ev \in Events(Letters) /\ ev.type = "content_block_start" /\ ev.index = n
      /\ Follows(s, o) /\ o.told = s.told /\ o.client = See(s.client, ev)
      /\ o.next = n + 1 /\ o.thinking = s.thinking /\ o.text = s.text /\ o.slots = s.slots
  BY <1>0, OpenBlockIs
<1> HIDE DEF o, ev
<1>2. o \in States
  BY <1>1 DEF Follows
<1>3. /\ w \in States /\ w.client = o.client /\ w.told = o.told /\ Flow(w) = Flow(o)
      /\ Blocks(w) = <<o.next, o.thinking, n, o.slots>>
  BY <1>0, <1>2, SpeechEdit
<1> HIDE DEF w
<1>5. w.next = n + 1 /\ w.thinking = s.thinking /\ w.text = n /\ w.slots = s.slots
  BY <1>1, <1>3 DEF Blocks
<1>6. Follows(s, w)
  BY <1>1, <1>3 DEF Follows
<1>7. ASSUME Sound(s) PROVE Sound(w)
  <2>1. Numbered(s)
    BY <1>7 DEF Sound
  <2>2. OpenBlocks(w) = OpenBlocks(s) \cup {n}
    BY <1>0, <1>5 DEF OpenBlocks, NotOpened
  <2>3. (\A b \in OpenBlocks(s) : b < n) /\ OpenBlocks(s) \subseteq Nat
    BY <2>1 DEF Numbered, OpenBlocks
  <2>4. s.thinking # n /\ \A k \in DOMAIN s.slots : s.slots[k] # n
    <3>1. n \notin OpenBlocks(s)
      BY <1>0, <2>3
    <3> QED BY <1>0, <3>1 DEF OpenBlocks
  <2>5. Numbered(w)
    <3>1. w.thinking # w.text
      BY <1>5, <2>4
    <3>2. ASSUME NEW k \in DOMAIN w.slots, w.slots[k] >= 0
          PROVE  /\ w.slots[k] # w.thinking /\ w.slots[k] # w.text
                 /\ \A j \in DOMAIN w.slots : w.slots[j] = w.slots[k] => j = k
      BY <1>5, <2>1, <2>4, <3>2 DEF Numbered
    <3>3. \A b \in OpenBlocks(w) : b < w.next
      BY <1>0, <1>5, <2>2, <2>3
    <3> QED BY <3>1, <3>2, <3>3 DEF Numbered
  <2> QED BY <1>1, <1>3, <1>5, <1>7, <2>2, <2>5, SoundOpening
<1> QED BY <1>1, <1>3, <1>5, <1>6, <1>7 DEF w, o

LEMMA EmitTextIs ==
  ASSUME NEW s \in States, NEW content \in Seq(Letters)
  PROVE  LET t == EmitTextDelta(s, content) IN
         /\ Follows(s, t) /\ t.slots = s.slots
         /\ t.told = IF content = <<>> \/ s.text = Closed THEN s.told ELSE s.told \o content
         /\ s.text # Closed => t.text # Closed
         /\ Sound(s) => Sound(t)
<1> DEFINE r == EmitTextDelta(s, content)
           c == CloseThinkingBlock(s)
           w == [OpenBlock(c, "text") EXCEPT !.text = c.next]
           t == IF s.text = NotOpened THEN w ELSE s
           u == [t EXCEPT !.told = t.told \o content]
           ev == TextDelta(t.text, content)
<1>1. CASE content = <<>> \/ s.text = Closed
  <2>1. r = s
    BY <1>1 DEF EmitTextDelta
  <2> QED BY <1>1, <2>1, FollowsSelf
<1>2. CASE ~(content = <<>> \/ s.text = Closed)
  <2>1. r = Emit(u, ev)
    BY <1>2 DEF EmitTextDelta
  <2>2. /\ Follows(s, t) /\ t.told = s.told /\ t.slots = s.slots /\ t.text \in Nat
        /\ Sound(s) => Sound(t)
    <3>1. CASE s.text = NotOpened
      <4>1. /\ Follows(s, c) /\ c.told = s.told /\ c.text = s.text /\ c.slots = s.slots
            /\ Sound(s) => Sound(c)
        BY CloseThinkingIs
      <4> HIDE DEF c
      <4>2. c \in States
        BY <4>1 DEF Follows
      <4>3. /\ Follows(c, w) /\ w.told = c.told /\ w.slots = c.slots /\ w.text = c.next
            /\ Sound(c) => Sound(w)
        BY <3>1, <4>1, <4>2, OpenTextIs
      <4>4. c.next \in Nat
        BY <4>2, StateFields
      <4> HIDE DEF w
      <4>5. Follows(s, w)
        BY <4>1, <4>3, FollowsOn
      <4> QED BY <3>1, <4>1, <4>3, <4>4, <4>5
    <3>2. CASE s.text # NotOpened
      <4>1. s.text \in Nat
        BY <1>2, <3>2, StateFields DEF BlockState
      <4> QED BY <3>2, <4>1, FollowsSelf
    <3> QED BY <3>1, <3>2
  <2> HIDE DEF t
  <2>3. t \in States
    BY <2>2 DEF Follows
  <2>4. /\ u \in States /\ u.client = t.client /\ u.told = t.told \o content /\ Flow(u) = Flow(t)
        /\ Blocks(u) = Blocks(t)
    <3>1. t.told \o content \in Seq(Letters)
      BY <2>3, StateFields, ConcatIs
    <3> QED BY <2>3, <3>1, ToldEdit
  <2> HIDE DEF u
  <2>5. OpenBlocks(u) = OpenBlocks(t) /\ (Sound(t) => Sound(u)) /\ u.text = t.text /\ u.slots = t.slots
    BY <2>4, SameBlocks, BlocksFields
  <2>6. ev \in Events(Letters) /\ ev.type = "content_block_delta" /\ ev.index = t.text
    BY <2>2, DeltaEvent
  <2> HIDE DEF ev, r
  <2>7. t.text \in OpenBlocks(u)
    BY <2>2, <2>5 DEF OpenBlocks
  <2>8. /\ Follows(u, r) /\ r.told = u.told /\ r.text = u.text /\ r.slots = u.slots
        /\ Sound(u) => Sound(r)
    BY <2>1, <2>4, <2>6, <2>7, DeltaIs
  <2>9. Follows(s, r)
    <3>1. Follows(t, u)
      BY <2>4 DEF Follows
    <3> QED BY <2>2, <2>8, <3>1, FollowsOn
  <2>10. r.text # Closed
    BY <2>2, <2>5, <2>8 DEF Closed
  <2> QED BY <1>2, <2>2, <2>4, <2>5, <2>8, <2>9, <2>10 DEF r
<1> QED BY <1>1, <1>2

-------------------------------------------------------------------------------
(* Tool calls.                                                                 *)

\* A piece of a tool call.
Pieces == [index: Nat, args: BOOLEAN]

\* The slots, grown so that a call has one.
Grown(slots, call) ==
  LET more == call.index + 1 - Len(slots)
  IN  IF more > 0 THEN slots \o [i \in 1..more |-> NotOpened] ELSE slots

LEMMA GrownIs ==
  ASSUME NEW slots \in Slots, NEW call \in Pieces
  PROVE  LET q == Grown(slots, call) IN
         /\ q \in Slots /\ call.index + 1 \in DOMAIN q
         /\ DOMAIN slots \subseteq DOMAIN q
         /\ \A k \in DOMAIN slots : q[k] = slots[k]
         /\ \A k \in DOMAIN q : k \notin DOMAIN slots => q[k] = NotOpened
<1> DEFINE q == Grown(slots, call)
           more == call.index + 1 - Len(slots)
           back == [i \in 1..more |-> NotOpened]
<1>0. call.index \in Nat /\ Len(slots) \in Nat /\ DOMAIN slots = 1..Len(slots)
  BY DEF Pieces, Slots
<1>1. CASE more > 0
  <2>1. more \in Nat
    BY <1>0, <1>1
  <2>2. back \in Slots /\ Len(back) = more /\ \A i \in 1..more : back[i] = NotOpened
    BY <2>1 DEF Slots
  <2>3. q = slots \o back
    BY <1>1 DEF Grown
  <2> HIDE DEF back, q
  <2>4. /\ q \in Slots /\ Len(q) = Len(slots) + more
        /\ \A k \in 1..Len(slots) : q[k] = slots[k]
        /\ \A i \in 1..more : q[Len(slots) + i] = NotOpened
    <3>1. /\ slots \o back \in Seq(Nat \cup {NotOpened}) /\ Len(slots \o back) = Len(slots) + more
          /\ \A k \in 1..Len(slots) : (slots \o back)[k] = slots[k]
          /\ \A i \in 1..more : (slots \o back)[Len(slots) + i] = back[i]
      <4> DEFINE B == Nat \cup {NotOpened}
      <4>1. slots \in Seq(B) /\ back \in Seq(B)
        BY <2>2 DEF Slots
      <4> HIDE DEF B
      <4>2. /\ slots \o back \in Seq(B) /\ Len(slots \o back) = Len(slots) + Len(back)
            /\ \A k \in 1..Len(slots) : (slots \o back)[k] = slots[k]
            /\ \A i \in 1..Len(back) : (slots \o back)[Len(slots) + i] = back[i]
        BY <4>1, ConcatIs
      <4> QED BY <2>2, <4>2 DEF B
    <3> QED BY <2>2, <2>3, <3>1 DEF Slots
  <2>5. DOMAIN q = 1..call.index + 1
    BY <1>0, <2>4 DEF Slots
  <2>6. ASSUME NEW k \in DOMAIN q, k \notin DOMAIN slots PROVE q[k] = NotOpened
    <3>1. k - Len(slots) \in 1..more /\ Len(slots) + (k - Len(slots)) = k
      BY <1>0, <2>1, <2>5, <2>6
    <3> DEFINE i == k - Len(slots)
    <3>2. i \in 1..more /\ Len(slots) + i = k
      BY <3>1
    <3> HIDE DEF i
    <3> QED BY <3>2, <2>4
  <2>7. DOMAIN slots \subseteq DOMAIN q /\ call.index + 1 \in DOMAIN q
    BY <1>0, <1>1, <2>5
  <2> QED BY <1>0, <2>4, <2>6, <2>7 DEF q
<1>2. CASE ~(more > 0)
  <2>1. q = slots
    BY <1>2 DEF Grown
  <2>2. call.index + 1 \in DOMAIN slots
    BY <1>0, <1>2
  <2> QED BY <2>1, <2>2
<1> QED BY <1>1, <1>2

LEMMA SlotOfIs ==
  ASSUME NEW s \in States, NEW call \in Pieces
  PROVE  LET t == SlotOf(s, call)
             i == call.index + 1 IN
         /\ Follows(s, t) /\ t.told = s.told /\ t.text = s.text
         /\ i \in DOMAIN t.slots /\ t.slots[i] \in Nat
         /\ Sound(s) => Sound(t)
<1> DEFINE i == call.index + 1
           q == Grown(s.slots, call)
           c == CloseThinkingBlock(s)
           n == c.next
           f == [q EXCEPT ![i] = n]
           u == [c EXCEPT !.next = n + 1, !.slots = f]
           v == [s EXCEPT !.slots = q]
           ev == ToolUse("content_block_start", n, call.index)
           t == SlotOf(s, call)
<1>0. s.slots \in Slots /\ call.index \in Nat /\ i \in Nat
  BY StateFields DEF Pieces
<1>1. /\ q \in Slots /\ i \in DOMAIN q /\ DOMAIN s.slots \subseteq DOMAIN q
      /\ \A k \in DOMAIN s.slots : q[k] = s.slots[k]
      /\ \A k \in DOMAIN q : k \notin DOMAIN s.slots => q[k] = NotOpened
  BY <1>0, GrownIs
<1>2. q[i] \in Nat \cup {NotOpened}
  BY <1>1 DEF Slots
<1>3. t = IF q[i] # NotOpened THEN v ELSE Emit(u, ev)
  BY DEF SlotOf, Grown
<1>4. /\ Follows(s, c) /\ c.told = s.told /\ c.text = s.text /\ c.slots = s.slots
      /\ c.thinking < 0
      /\ Sound(s) => Sound(c)
  BY CloseThinkingIs
<1> HIDE DEF q, c, t, i
<1>5. c \in States /\ n \in Nat /\ n + 1 \in Nat /\ c.client \in ClientType
  <2>1. c \in States
    BY <1>4 DEF Follows
  <2> QED BY <2>1, StateFields
<1>6. CASE q[i] # NotOpened
  <2>1. /\ v \in States /\ v.client = s.client /\ v.told = s.told /\ Flow(v) = Flow(s)
        /\ Blocks(v) = <<s.next, s.thinking, s.text, q>>
    BY <1>1, SlotsEdit
  <2>2. t = v
    BY <1>3, <1>6
  <2> HIDE DEF v
  <2>3. t.next = s.next /\ t.thinking = s.thinking /\ t.text = s.text /\ t.slots = q
    BY <2>1, <2>2 DEF Blocks
  <2>4. Follows(s, t)
    BY <2>1, <2>2 DEF Follows
  <2>5. OpenBlocks(t) = OpenBlocks(s)
    <3>1. \A b \in Nat : (\E k \in DOMAIN q : q[k] = b) <=> (\E k \in DOMAIN s.slots : s.slots[k] = b)
      BY <1>1 DEF NotOpened
    <3> QED BY <2>3, <3>1 DEF OpenBlocks
  <2>6. ASSUME Numbered(s) PROVE Numbered(t)
    <3>1. ASSUME NEW k \in DOMAIN q, q[k] >= 0
          PROVE  /\ q[k] # s.thinking /\ q[k] # s.text
                 /\ \A j \in DOMAIN q : q[j] = q[k] => j = k
      <4>1. k \in DOMAIN s.slots /\ s.slots[k] = q[k]
        BY <1>1, <3>1 DEF NotOpened
      <4>2. /\ q[k] # s.thinking /\ q[k] # s.text
            /\ \A j \in DOMAIN s.slots : s.slots[j] = q[k] => j = k
        BY <2>6, <3>1, <4>1 DEF Numbered
      <4>3. ASSUME NEW j \in DOMAIN q, q[j] = q[k] PROVE j = k
        <5>1. j \in DOMAIN s.slots /\ s.slots[j] = q[j]
          BY <1>1, <3>1, <4>3 DEF NotOpened
        <5> QED BY <4>2, <4>3, <5>1
      <4> QED BY <4>2, <4>3
    <3>2. \A b \in OpenBlocks(t) : b < t.next
      BY <2>3, <2>5, <2>6 DEF Numbered
    <3>3. t.thinking >= 0 => t.thinking # t.text
      BY <2>3, <2>6 DEF Numbered
    <3> QED BY <2>3, <3>1, <3>2, <3>3 DEF Numbered
  <2>7. Sound(s) => Sound(t)
    BY <2>1, <2>2, <2>3, <2>5, <2>6 DEF Sound
  <2>8. i \in DOMAIN t.slots /\ t.slots[i] \in Nat
    BY <1>1, <1>2, <1>6, <2>3
  <2> QED BY <2>1, <2>2, <2>3, <2>4, <2>7, <2>8 DEF t, i
<1>7. CASE q[i] = NotOpened
  <2>0. /\ f \in Slots /\ DOMAIN f = DOMAIN q /\ f[i] = n
        /\ \A k \in DOMAIN q : k # i => f[k] = q[k]
    <3>1. n \in Nat \cup {NotOpened}
      BY <1>5
    <3> HIDE DEF n
    <3> QED BY <1>1, <3>1 DEF Slots
  <2> HIDE DEF f, n
  <2>1. /\ u \in States /\ u.client = c.client /\ u.told = c.told /\ Flow(u) = Flow(c)
        /\ Blocks(u) = <<n + 1, c.thinking, c.text, f>>
    BY <1>5, <2>0, NextSlotsEdit
  <2>2. ev \in Events(Letters) /\ ev.type = "content_block_start" /\ ev.index = n
    <3>1. "content_block_start" \in EventTypes
      BY DEF EventTypes
    <3> QED BY <1>0, <1>5, <3>1, ToolEvent
  <2>3. t = Emit(u, ev)
    BY <1>3, <1>7
  <2> HIDE DEF u, ev
  <2>4. /\ t \in States /\ t.client = See(c.client, ev) /\ t.told = c.told /\ Flow(t) = Flow(c)
        /\ Blocks(t) = <<n + 1, c.thinking, c.text, f>>
    BY <2>1, <2>2, <2>3, EmitIs
  <2>5. t.next = n + 1 /\ t.thinking = c.thinking /\ t.text = c.text /\ t.slots = f
    BY <2>4 DEF Blocks
  <2>6. Follows(s, t)
    <3>1. EndsOf(See(c.client, ev)) = EndsOf(c.client)
      BY <1>5, <2>2, SeeIs
    <3> QED BY <1>4, <2>4, <3>1 DEF Follows
  <2>7. ASSUME Sound(c) PROVE Sound(t)
    <3>1. Numbered(c)
      BY <2>7 DEF Sound
    <3>2. \A b \in Nat : (\E k \in DOMAIN f : f[k] = b) <=> b = n \/ \E k \in DOMAIN c.slots : c.slots[k] = b
      <4> SUFFICES ASSUME NEW b \in Nat
                   PROVE  (\E k \in DOMAIN f : f[k] = b) <=> b = n \/ \E k \in DOMAIN c.slots : c.slots[k] = b
        OBVIOUS
      <4>1. ASSUME NEW k \in DOMAIN f, f[k] = b, b # n PROVE \E j \in DOMAIN c.slots : c.slots[j] = b
        <5>1. k # i /\ q[k] = b /\ b # NotOpened
          BY <2>0, <4>1 DEF NotOpened
        <5>2. k \in DOMAIN c.slots /\ c.slots[k] = b
          BY <1>1, <1>4, <2>0, <4>1, <5>1
        <5> QED BY <5>2
      <4>2. ASSUME NEW k \in DOMAIN c.slots, c.slots[k] = b PROVE \E j \in DOMAIN f : f[j] = b
        <5>1. k \in DOMAIN q /\ q[k] = b
          BY <1>1, <1>4, <4>2
        <5>2. k # i
          BY <1>7, <5>1 DEF NotOpened
        <5> QED BY <2>0, <5>1, <5>2
      <4>3. i \in DOMAIN f /\ f[i] = n
        BY <1>1, <2>0
      <4> QED BY <4>1, <4>2, <4>3
    <3>3. OpenBlocks(t) = OpenBlocks(c) \cup {n}
      BY <1>5, <2>5, <3>2 DEF OpenBlocks, n
    <3>4. (\A b \in OpenBlocks(c) : b < n) /\ OpenBlocks(c) \subseteq Nat
      BY <3>1 DEF Numbered, OpenBlocks, n
    <3>5. n \notin OpenBlocks(c) /\ n \in Nat
      BY <1>5, <3>4 DEF n
    <3>6. c.thinking # n /\ c.text # n /\ \A k \in DOMAIN c.slots : c.slots[k] # n
      BY <3>5 DEF OpenBlocks
    <3>7. \A b \in OpenBlocks(t) : b < t.next
      BY <2>5, <3>3, <3>4, <3>5
    <3>8. t.thinking >= 0 => t.thinking # t.text
      BY <2>5, <3>1 DEF Numbered
    <3>9. ASSUME NEW k \in DOMAIN f, f[k] >= 0
          PROVE  /\ f[k] # c.thinking /\ f[k] # c.text
                 /\ \A j \in DOMAIN f : f[j] = f[k] => j = k
      <4>0. ASSUME NEW j \in DOMAIN f, j # i, f[j] >= 0
            PROVE j \in DOMAIN c.slots /\ f[j] = c.slots[j] /\ f[j] # n
        <5>1. f[j] = q[j] /\ j \in DOMAIN q
          BY <2>0, <4>0
        <5>2. q[j] # NotOpened
          BY <4>0, <5>1 DEF NotOpened
        <5>3. j \in DOMAIN c.slots /\ q[j] = c.slots[j]
          BY <1>1, <1>4, <5>1, <5>2
        <5> QED BY <3>6, <5>1, <5>3
      <4>1. CASE k = i
        <5>1. f[k] = n
          BY <2>0, <4>1
        <5>2. ASSUME NEW j \in DOMAIN f, f[j] = f[k], j # k PROVE FALSE
          BY <3>9, <4>0, <4>1, <5>1, <5>2
        <5> QED BY <3>6, <5>1, <5>2
      <4>2. CASE k # i
        <5>1. k \in DOMAIN c.slots /\ f[k] = c.slots[k] /\ f[k] # n
          BY <3>9, <4>0, <4>2
        <5>2. /\ f[k] # c.thinking /\ f[k] # c.text
              /\ \A j \in DOMAIN c.slots : c.slots[j] = f[k] => j = k
          BY <3>1, <3>9, <5>1 DEF Numbered
        <5>3. ASSUME NEW j \in DOMAIN f, f[j] = f[k] PROVE j = k
          <6>1. j # i
            BY <2>0, <5>1, <5>3
          <6>2. j \in DOMAIN c.slots /\ f[j] = c.slots[j]
            BY <3>9, <4>0, <5>3, <6>1
          <6> QED BY <5>2, <5>3, <6>2
        <5> QED BY <5>2, <5>3
      <4> QED BY <4>1, <4>2
    <3>10. Numbered(t)
      BY <2>5, <3>7, <3>8, <3>9 DEF Numbered
    <3> QED BY <1>5, <2>2, <2>4, <2>5, <2>7, <3>3, <3>10, SoundOpening DEF n
  <2>8. i \in DOMAIN t.slots /\ t.slots[i] \in Nat
    BY <1>1, <1>5, <2>0, <2>5 DEF n
  <2>9. t.told = s.told /\ t.text = s.text
    BY <1>4, <2>4, <2>5
  <2>10. Sound(s) => Sound(t)
    BY <1>4, <2>7
  <2> QED BY <2>6, <2>8, <2>9, <2>10 DEF t, i
<1> QED BY <1>6, <1>7

LEMMA ToolCallIs ==
  ASSUME NEW s \in States, NEW call \in Pieces
  PROVE  LET t == ToolCall(s, call) IN
         /\ Follows(s, t) /\ t.told = s.told /\ t.text = s.text
         /\ Sound(s) => Sound(t)
<1> DEFINE t == SlotOf(s, call)
           b == t.slots[call.index + 1]
           ev == ToolUse("content_block_delta", b, call.index)
           r == ToolCall(s, call)
<1>1. /\ Follows(s, t) /\ t.told = s.told /\ t.text = s.text
      /\ call.index + 1 \in DOMAIN t.slots /\ b \in Nat
      /\ Sound(s) => Sound(t)
  BY SlotOfIs
<1>2. r = IF call.args THEN Emit(t, ev) ELSE t
  BY DEF ToolCall
<1> HIDE DEF t, r
<1>3. CASE call.args
  <2>1. b \in OpenBlocks(t) /\ t \in States
    BY <1>1 DEF OpenBlocks, Follows
  <2>2. ev \in Events(Letters) /\ ev.type = "content_block_delta" /\ ev.index = b
    <3>1. "content_block_delta" \in EventTypes /\ call.index \in Nat
      BY DEF EventTypes, Pieces
    <3> QED BY <1>1, <3>1, ToolEvent
  <2> HIDE DEF ev
  <2>3. /\ Follows(t, r) /\ r.told = t.told /\ r.text = t.text
        /\ Sound(t) => Sound(r)
    BY <1>2, <1>3, <2>1, <2>2, DeltaIs
  <2>4. Follows(s, r)
    BY <1>1, <2>3, FollowsOn
  <2> QED BY <1>1, <2>3, <2>4 DEF r
<1>4. CASE ~call.args
  BY <1>1, <1>2, <1>4 DEF r
<1> QED BY <1>3, <1>4

-------------------------------------------------------------------------------
(* The loops over tool calls and slots.                                        *)

\* What holds after i turns of the loop over the tool calls.
CallsGood(s, q, i, t) ==
  /\ Follows(s, t) /\ t.told = s.told /\ t.text = s.text
  /\ Sound(s) => Sound(t)
CallLoop == INSTANCE FoldTheorems WITH Step <- ToolCall, Good <- CallsGood

LEMMA ToolCallsIs ==
  ASSUME NEW s \in States, NEW calls \in Seq(Pieces)
  PROVE  LET t == ToolCalls(s, calls) IN
         /\ Follows(s, t) /\ t.told = s.told /\ t.text = s.text
         /\ Sound(s) => Sound(t)
<1>1. ToolCalls(s, calls) = CallLoop!Run(s, calls)
  BY DEF ToolCalls, CallLoop!Run, FoldLeft, CallLoop!FoldLeft, MapThenFoldSet,
         CallLoop!MapThenFoldSet, Max, CallLoop!Max
<1>2. CallsGood(s, calls, 0, s)
  BY FollowsSelf DEF CallsGood
<1>3. ASSUME NEW i \in 0..Len(calls) - 1, NEW t, CallsGood(s, calls, i, t)
      PROVE  CallsGood(s, calls, i + 1, ToolCall(t, calls[i + 1]))
  <2>1. i + 1 \in 1..Len(calls)
    OBVIOUS
  <2>2. calls[i + 1] \in Pieces
    BY <2>1
  <2>3. t \in States
    BY <1>3 DEF CallsGood, Follows
  <2> DEFINE u == ToolCall(t, calls[i + 1])
  <2>4. Follows(t, u) /\ u.told = t.told /\ u.text = t.text /\ (Sound(t) => Sound(u))
    BY <2>2, <2>3, ToolCallIs
  <2> HIDE DEF u
  <2>5. CallsGood(s, calls, i + 1, u)
    BY <1>3, <2>4, FollowsOn DEF CallsGood
  <2> QED BY <2>5 DEF u
<1>4. CallsGood(s, calls, Len(calls), CallLoop!Run(s, calls))
  BY <1>2, <1>3, CallLoop!LoopInvariant
<1> QED BY <1>1, <1>4 DEF CallsGood

-------------------------------------------------------------------------------
(* The end of the message.                                                     *)

\* The slots that are closed after i turns.
SlotsGood(s, q, i, t) ==
  /\ Follows(s, t) /\ t.told = s.told /\ Blocks(t) = Blocks(s)
  /\ q = s.slots /\ Sound(s) =>
       /\ t.client.phase = "content" /\ t.client.illegal = {} /\ t.client.next = s.next
       /\ t.client.open = OpenBlocks(s) \ {q[k] : k \in 1..i}
CloseLoop == INSTANCE FoldTheorems WITH Step <- CloseSlot, Good <- SlotsGood

LEMMA CloseSlotsIs ==
  ASSUME NEW s \in States
  PROVE  LET t == CloseSlots(s) IN
         /\ Follows(s, t) /\ t.told = s.told /\ Blocks(t) = Blocks(s)
         /\ Sound(s) =>
              /\ t.client.phase = "content" /\ t.client.illegal = {} /\ t.client.next = s.next
              /\ t.client.open = OpenBlocks(s) \ {s.slots[k] : k \in DOMAIN s.slots}
<1> DEFINE q == s.slots
           B == Nat \cup {NotOpened}
<1>0. q \in Seq(B) /\ Len(q) \in Nat /\ DOMAIN q = 1..Len(q)
  BY StateFields DEF Slots
<1>1. CloseSlots(s) = CloseLoop!Run(s, q)
  BY DEF CloseSlots, CloseLoop!Run, FoldLeft, CloseLoop!FoldLeft, MapThenFoldSet,
         CloseLoop!MapThenFoldSet, Max, CloseLoop!Max
<1>2. SlotsGood(s, q, 0, s)
  <2>1. 1..0 = {}
    OBVIOUS
  <2> QED BY <2>1, FollowsSelf DEF SlotsGood, Sound
<1>3. ASSUME NEW i \in 0..Len(q) - 1, NEW t, SlotsGood(s, q, i, t)
      PROVE  SlotsGood(s, q, i + 1, CloseSlot(t, q[i + 1]))
  <2> DEFINE b == q[i + 1]
             ev == Block("content_block_stop", b, "tool_use")
             u == CloseSlot(t, b)
  <2>1. i + 1 \in 1..Len(q) /\ b \in B
    BY <1>0
  <2>2. t \in States /\ t.client \in ClientType
    BY <1>3, StateFields DEF SlotsGood, Follows
  <2>3. u = IF b >= 0 THEN Emit(t, ev) ELSE t
    BY DEF CloseSlot
  <2>4. {q[k] : k \in 1..i + 1} = {q[k] : k \in 1..i} \cup {b}
    <3>1. 1..i + 1 = (1..i) \cup {i + 1}
      OBVIOUS
    <3> QED BY <3>1
  <2>5. CASE b >= 0
    <3>1. b \in Nat
      BY <2>1, <2>5 DEF NotOpened
    <3>2. ev \in Events(Letters) /\ ev.type = "content_block_stop" /\ ev.index = b
      <4>1. "content_block_stop" \in EventTypes /\ "tool_use" \in Kinds
        BY DEF EventTypes, Kinds
      <4> QED BY <3>1, <4>1, BlockEvent
    <3> HIDE DEF b, ev, u
    <3>3. Follows(t, u) /\ u.told = t.told /\ Blocks(u) = Blocks(t) /\ u.client = See(t.client, ev)
      BY <2>2, <2>3, <2>5, <3>2, EmitFollows, EmitIs
    <3>4. ASSUME Sound(s)
          PROVE  /\ u.client.phase = "content" /\ u.client.illegal = {} /\ u.client.next = s.next
                 /\ u.client.open = OpenBlocks(s) \ {q[k] : k \in 1..i + 1}
      <4>1. /\ t.client.phase = "content" /\ t.client.illegal = {} /\ t.client.next = s.next
            /\ t.client.open = OpenBlocks(s) \ {q[k] : k \in 1..i}
        BY <1>3, <3>4 DEF SlotsGood
      <4>2. b \in OpenBlocks(s)
        BY <1>0, <2>1, <3>1 DEF OpenBlocks, b
      <4>3. \A k \in 1..i : q[k] # b
        <5>1. Numbered(s)
          BY <3>4 DEF Sound
        <5>2. \A j \in DOMAIN q : q[j] = q[i + 1] => j = i + 1
          BY <1>0, <2>1, <2>5, <5>1 DEF Numbered, b
        <5>3. \A k \in 1..i : k \in DOMAIN q /\ k # i + 1
          BY <1>0
        <5> QED BY <5>2, <5>3 DEF b
      <4>4. b \in t.client.open
        BY <4>1, <4>2, <4>3
      <4>5. /\ u.client.phase = t.client.phase /\ u.client.open = t.client.open \ {b}
            /\ u.client.next = t.client.next /\ u.client.illegal = t.client.illegal
        BY <2>2, <3>2, <3>3, <4>1, <4>4, SeeIs
      <4>6. u.client.open = OpenBlocks(s) \ ({q[k] : k \in 1..i} \cup {b})
        BY <4>1, <4>5
      <4> QED BY <2>4, <4>1, <4>5, <4>6
    <3>5. Follows(s, u) /\ u.told = s.told /\ Blocks(u) = Blocks(s)
      BY <1>3, <3>3, FollowsOn DEF SlotsGood
    <3>6. SlotsGood(s, q, i + 1, u)
      BY <3>4, <3>5 DEF SlotsGood
    <3> QED BY <3>6 DEF u, b
  <2>6. CASE ~(b >= 0)
    <3>1. u = t
      BY <2>3, <2>6
    <3>2. b \notin OpenBlocks(s)
      BY <2>1, <2>6 DEF OpenBlocks
    <3> HIDE DEF b, u
    <3>3. SlotsGood(s, q, i + 1, t)
      BY <1>3, <2>4, <3>2 DEF SlotsGood
    <3> QED BY <3>1, <3>3 DEF u, b
  <2> QED BY <2>5, <2>6
<1>4. SlotsGood(s, q, Len(q), CloseLoop!Run(s, q))
  <2> HIDE DEF q, B
  <2> QED BY <1>0, <1>2, <1>3, CloseLoop!LoopInvariant
<1> QED BY <1>0, <1>1, <1>4 DEF SlotsGood

-------------------------------------------------------------------------------
(* A turn of the loop.                                                         *)

\* Before the message.
Unstarted(s) ==
  /\ s.client = Fresh
  /\ s.next = 0 /\ s.thinking = NotOpened /\ s.text = NotOpened /\ s.slots = <<>>

\* Between two turns.
Begun(s) == IF s.started THEN Sound(s) ELSE Unstarted(s)

LEMMA StartedEdit ==
  ASSUME NEW s \in States
  PROVE  LET t == [s EXCEPT !.started = TRUE] IN
         /\ t \in States /\ t.client = s.client /\ t.told = s.told /\ Blocks(t) = Blocks(s)
         /\ t.started = TRUE /\ t.ended = s.ended /\ t.inThink = s.inThink /\ t.partial = s.partial
BY DEF States, Blocks

LEMMA EndedEdit ==
  ASSUME NEW s \in States
  PROVE  LET t == [s EXCEPT !.ended = TRUE] IN
         /\ t \in States /\ t.client = s.client /\ t.told = s.told /\ Blocks(t) = Blocks(s)
         /\ t.started = s.started /\ t.ended = TRUE /\ t.inThink = s.inThink /\ t.partial = s.partial
BY DEF States, Blocks

LEMMA PartialEdit ==
  ASSUME NEW s \in States
  PROVE  LET t == [s EXCEPT !.partial = <<>>] IN
         /\ t \in States /\ t.client = s.client /\ t.told = s.told /\ Blocks(t) = Blocks(s)
         /\ t.started = s.started /\ t.ended = s.ended /\ t.inThink = s.inThink /\ t.partial = <<>>
<1>1. <<>> \in Seq(Letters)
  OBVIOUS
<1> QED BY <1>1 DEF States, Blocks

LEMMA StartMessageIs ==
  ASSUME NEW s \in States
  PROVE  LET t == StartMessage(s) IN
         /\ t \in States /\ t.started /\ t.ended = s.ended
         /\ t.inThink = s.inThink /\ t.partial = s.partial /\ t.told = s.told /\ t.text = s.text
         /\ EndsOf(t.client) = EndsOf(s.client)
         /\ Begun(s) => Sound(t)
<1> DEFINE t == StartMessage(s)
           u == [s EXCEPT !.started = TRUE]
           ev == Plain("message_start")
<1>0. s.client \in ClientType /\ s.started \in BOOLEAN
  BY StateFields
<1>1. CASE s.started
  <2>1. t = s
    BY <1>1 DEF StartMessage
  <2> QED BY <1>1, <2>1 DEF Begun
<1>2. CASE ~s.started
  <2>1. t = Emit(u, ev)
    BY <1>2 DEF StartMessage
  <2>2. /\ u \in States /\ u.client = s.client /\ u.told = s.told /\ Blocks(u) = Blocks(s)
        /\ u.started = TRUE /\ u.ended = s.ended /\ u.inThink = s.inThink /\ u.partial = s.partial
    BY StartedEdit
  <2>3. ev \in Events(Letters) /\ ev.type = "message_start"
    <3>1. "message_start" \in EventTypes
      BY DEF EventTypes
    <3> QED BY <3>1, PlainEvent
  <2> HIDE DEF u, ev, t
  <2>4. /\ t \in States /\ t.client = See(s.client, ev) /\ t.told = s.told /\ Flow(t) = Flow(u)
        /\ Blocks(t) = Blocks(s)
    BY <2>1, <2>2, <2>3, EmitIs
  <2>5. t.started /\ t.ended = s.ended /\ t.inThink = s.inThink /\ t.partial = s.partial
    BY <2>2, <2>4, FlowFields
  <2>6. t.next = s.next /\ t.thinking = s.thinking /\ t.text = s.text /\ t.slots = s.slots
    BY <2>4, BlocksFields
  <2>7. EndsOf(t.client) = EndsOf(s.client)
    BY <1>0, <2>3, <2>4, SeeIs
  <2>8. ASSUME Unstarted(s) PROVE Sound(t)
    <3>1. /\ s.client.phase = "none" /\ s.client.open = {} /\ s.client.next = 0 /\ s.client.illegal = {}
      BY <2>8 DEF Unstarted, Fresh
    <3>2. /\ t.client.phase = "content" /\ t.client.open = {} /\ t.client.next = 0 /\ t.client.illegal = {}
      BY <1>0, <2>3, <2>4, <3>1, SeeIs
    <3>3. t.next = 0 /\ t.thinking = NotOpened /\ t.text = NotOpened /\ t.slots = <<>>
      BY <2>6, <2>8 DEF Unstarted
    <3>4. OpenBlocks(t) = {} /\ Numbered(t)
      BY <3>3 DEF OpenBlocks, Numbered, NotOpened
    <3> QED BY <3>2, <3>3, <3>4 DEF Sound
  <2>9. Begun(s) => Sound(t)
    BY <1>2, <2>8 DEF Begun
  <2> QED BY <2>4, <2>5, <2>6, <2>7, <2>9 DEF t
<1> QED BY <1>0, <1>1, <1>2

LEMMA ContentIs ==
  ASSUME NEW s \in States, NEW content \in Seq(Letters)
  PROVE  LET t == Content(s, content)
             p == Process[s.partial \o content][s.inThink] IN
         /\ t \in States /\ t.started = s.started /\ t.ended = s.ended
         /\ EndsOf(t.client) = EndsOf(s.client)
         /\ content = <<>> => t = s
         /\ content # <<>> => t.inThink = p.inThink /\ t.partial = p.partial
         /\ content # <<>> /\ s.text # Closed => t.told = s.told \o p.text
         /\ s.text # Closed => t.text # Closed
         /\ Sound(s) => Sound(t)
<1> DEFINE p == Process[s.partial \o content][s.inThink]
           u == [s EXCEPT !.inThink = p.inThink, !.partial = p.partial]
           v == EmitThinkingDelta(u, p.think # <<>>)
           r == EmitTextDelta(v, p.text)
           t == Content(s, content)
<1>1. CASE content = <<>>
  <2>1. t = s
    BY <1>1 DEF Content
  <2> QED BY <1>1, <2>1
<1>2. CASE content # <<>>
  <2>1. t = r
    BY <1>2 DEF Content
  <2>2. p \in Filtered
    <3>1. s.partial \o content \in Seq(Letters) /\ s.inThink \in BOOLEAN
      BY StateFields, ConcatIs
    <3> QED BY <3>1, MeaningType
  <2>3. p.inThink \in BOOLEAN /\ p.partial \in Seq(Letters) /\ p.text \in Seq(Letters)
    BY <2>2 DEF Filtered
  <2> HIDE DEF p, t
  <2>4. /\ u \in States /\ u.client = s.client /\ u.told = s.told /\ Blocks(u) = Blocks(s)
        /\ u.started = s.started /\ u.ended = s.ended /\ u.inThink = p.inThink /\ u.partial = p.partial
    BY <2>3 DEF States, Blocks
  <2> HIDE DEF u
  <2>5. (Sound(s) => Sound(u)) /\ u.text = s.text
    BY <2>4, SameBlocks, BlocksFields
  <2>6. /\ Follows(u, v) /\ v.told = u.told /\ v.text = u.text
        /\ Sound(u) => Sound(v)
    <3>1. (p.think # <<>>) \in BOOLEAN
      OBVIOUS
    <3> QED BY <2>4, <3>1, EmitThinkingIs
  <2> HIDE DEF v
  <2>7. /\ Follows(v, r)
        /\ r.told = IF p.text = <<>> \/ v.text = Closed THEN v.told ELSE v.told \o p.text
        /\ v.text # Closed => r.text # Closed
        /\ Sound(v) => Sound(r)
    <3>1. v \in States
      BY <2>6 DEF Follows
    <3> QED BY <2>3, <3>1, EmitTextIs
  <2> HIDE DEF r
  <2>8. Follows(u, r)
    BY <2>6, <2>7, FollowsOn
  <2>9. /\ r \in States /\ r.started = u.started /\ r.ended = u.ended
        /\ r.inThink = u.inThink /\ r.partial = u.partial /\ EndsOf(r.client) = EndsOf(u.client)
    BY <2>8, FlowFields DEF Follows
  <2>10. ASSUME s.text # Closed PROVE r.told = s.told \o p.text
    <3>1. p.text = <<>> => s.told \o p.text = s.told
      BY StateFields
    <3> QED BY <2>4, <2>5, <2>6, <2>7, <2>10, <3>1
  <2>11. /\ s.text # Closed => r.text # Closed
         /\ Sound(s) => Sound(r)
    BY <2>5, <2>6, <2>7
  <2>12. /\ t \in States /\ t.started = s.started /\ t.ended = s.ended
         /\ t.inThink = p.inThink /\ t.partial = p.partial
    BY <2>1, <2>4, <2>9
  <2>13. EndsOf(t.client) = EndsOf(s.client)
    BY <2>1, <2>4, <2>9
  <2>14. s.text # Closed => t.told = s.told \o p.text
    BY <2>1, <2>10
  <2>15. (s.text # Closed => t.text # Closed) /\ (Sound(s) => Sound(t))
    BY <2>1, <2>11
  <2> QED BY <1>2, <2>12, <2>13, <2>14, <2>15 DEF p, t
<1> QED BY <1>1, <1>2

LEMMA FlushIs ==
  ASSUME NEW s \in States
  PROVE  LET t == Flush(s) IN
         /\ t \in States /\ t.started = s.started /\ t.ended = s.ended /\ t.partial = <<>>
         /\ EndsOf(t.client) = EndsOf(s.client)
         /\ s.text # Closed => t.told = IF s.inThink THEN s.told ELSE s.told \o s.partial
         /\ Sound(s) => Sound(t)
<1> DEFINE u == [s EXCEPT !.partial = <<>>]
           v == EmitThinkingDelta(u, s.partial # <<>>)
           w == EmitTextDelta(u, s.partial)
           t == Flush(s)
<1>0. s.partial \in Seq(Letters) /\ s.told \in Seq(Letters) /\ s.inThink \in BOOLEAN
  BY StateFields
<1>1. t = IF s.inThink THEN v ELSE w
  BY DEF Flush
<1>2. /\ u \in States /\ u.client = s.client /\ u.told = s.told /\ Blocks(u) = Blocks(s)
      /\ u.started = s.started /\ u.ended = s.ended /\ u.partial = <<>>
  BY PartialEdit
<1> HIDE DEF u, t
<1>3. (Sound(s) => Sound(u)) /\ u.text = s.text
  BY <1>2, SameBlocks, BlocksFields
<1>4. CASE s.inThink
  <2>1. /\ Follows(u, v) /\ v.told = u.told
        /\ Sound(u) => Sound(v)
    <3>1. (s.partial # <<>>) \in BOOLEAN
      OBVIOUS
    <3> QED BY <1>2, <3>1, EmitThinkingIs
  <2> HIDE DEF v
  <2>2. v \in States /\ v.started = u.started /\ v.ended = u.ended /\ v.partial = u.partial
        /\ EndsOf(v.client) = EndsOf(u.client)
    BY <2>1, FlowFields DEF Follows
  <2>3. Sound(s) => Sound(v)
    BY <1>3, <2>1
  <2> QED BY <1>1, <1>2, <1>4, <2>1, <2>2, <2>3 DEF t
<1>5. CASE ~s.inThink
  <2>1. /\ Follows(u, w)
        /\ w.told = IF s.partial = <<>> \/ u.text = Closed THEN u.told ELSE u.told \o s.partial
        /\ Sound(u) => Sound(w)
    BY <1>0, <1>2, EmitTextIs
  <2> HIDE DEF w
  <2>2. w \in States /\ w.started = u.started /\ w.ended = u.ended /\ w.partial = u.partial
        /\ EndsOf(w.client) = EndsOf(u.client)
    BY <2>1, FlowFields DEF Follows
  <2>3. ASSUME s.text # Closed PROVE w.told = s.told \o s.partial
    <3>1. s.partial = <<>> => s.told \o s.partial = s.told
      BY <1>0
    <3> QED BY <1>2, <1>3, <2>1, <2>3, <3>1
  <2>4. Sound(s) => Sound(w)
    BY <1>3, <2>1
  <2> QED BY <1>1, <1>2, <1>5, <2>2, <2>3, <2>4 DEF t
<1> QED BY <1>0, <1>4, <1>5

\* The message has ended, and left nothing open.
Over(s) == s.client.phase = "ending" /\ s.client.open = {} /\ s.client.illegal = {}

\* However it comes, a finish_reason closes what is open, once.
LEMMA FinishIs ==
  ASSUME NEW s \in States, NEW reason \in FinishReasons
  PROVE  LET t == Finish(s, reason) IN
         /\ t \in States /\ t.started = s.started /\ t.ended = TRUE
         /\ t.client.stops = s.client.stops
         /\ s.ended => t = s
         /\ ~s.ended => t.partial = <<>> /\ t.client.endings = s.client.endings + 1
         /\ ~s.ended /\ s.text # Closed =>
              t.told = IF s.inThink THEN s.told ELSE s.told \o s.partial
         /\ ~s.ended /\ Sound(s) => Over(t)
<1> DEFINE a == [s EXCEPT !.ended = TRUE]
           b == Flush(a)
           c == CloseThinkingBlock(b)
           d == CloseSlots(c)
           e == CloseTextBlock(d)
           ev == MessageDelta(MapFinishReason(reason))
           t == Finish(s, reason)
<1>1. CASE s.ended
  <2>1. t = s
    BY <1>1 DEF Finish
  <2>2. s.ended = TRUE
    BY <1>1, StateFields
  <2> QED BY <1>1, <2>1, <2>2
<1>2. CASE ~s.ended
  <2>1. t = Emit(e, ev)
    BY <1>2 DEF Finish
  <2>2. /\ a \in States /\ a.client = s.client /\ a.told = s.told /\ Blocks(a) = Blocks(s)
        /\ a.started = s.started /\ a.ended = TRUE /\ a.inThink = s.inThink /\ a.partial = s.partial
    BY EndedEdit
  <2> HIDE DEF a, t
  <2>3. a.text = s.text /\ (Sound(s) => Sound(a))
    BY <2>2, SameBlocks, BlocksFields
  <2>4. /\ b \in States /\ b.started = a.started /\ b.ended = a.ended /\ b.partial = <<>>
        /\ EndsOf(b.client) = EndsOf(a.client)
        /\ a.text # Closed => b.told = IF a.inThink THEN a.told ELSE a.told \o a.partial
        /\ Sound(a) => Sound(b)
    BY <2>2, FlushIs
  <2> HIDE DEF b
  <2>5. /\ Follows(b, c) /\ c.told = b.told /\ c.thinking < 0
        /\ Sound(b) => Sound(c)
    BY <2>4, CloseThinkingIs
  <2> HIDE DEF c
  <2>6. c \in States
    BY <2>5 DEF Follows
  <2>7. /\ Follows(c, d) /\ d.told = c.told /\ Blocks(d) = Blocks(c)
        /\ Sound(c) =>
             /\ d.client.phase = "content" /\ d.client.illegal = {} /\ d.client.next = c.next
             /\ d.client.open = OpenBlocks(c) \ {c.slots[k] : k \in DOMAIN c.slots}
    BY <2>6, CloseSlotsIs
  <2> HIDE DEF d
  <2>8. d \in States
    BY <2>7 DEF Follows
  <2>9. /\ Follows(d, e) /\ e.told = d.told
        /\ d.text >= 0 => e.client = See(d.client, Block("content_block_stop", d.text, "text"))
        /\ ~(d.text >= 0) => e = d
    BY <2>8, CloseTextIs
  <2> HIDE DEF e
  <2>10. e \in States /\ e.client \in ClientType
    BY <2>9, StateFields DEF Follows
  <2>11. ev \in Events(Letters) /\ ev.type = "message_delta"
    <3>1. MapFinishReason(reason) \in StopReasons
      BY DEF MapFinishReason, FinishReasons, StopReasons
    <3> QED BY <3>1, EndingEvent
  <2> HIDE DEF ev
  <2>12. /\ t \in States /\ t.client = See(e.client, ev) /\ t.told = e.told /\ Flow(t) = Flow(e)
    BY <2>1, <2>10, <2>11, EmitIs
  <2>13. Follows(b, e)
    BY <2>5, <2>7, <2>9, FollowsOn
  <2>14. t.started = s.started /\ t.ended = TRUE /\ t.partial = <<>>
    <3>1. e.started = b.started /\ e.ended = b.ended /\ e.partial = b.partial
      BY <2>13, FlowFields DEF Follows
    <3>2. t.started = e.started /\ t.ended = e.ended /\ t.partial = e.partial
      BY <2>12, FlowFields
    <3> QED BY <3>1, <3>2, <2>2, <2>4
  <2>15. t.client.stops = s.client.stops /\ t.client.endings = s.client.endings + 1
    <3>1. EndsOf(e.client) = EndsOf(s.client)
      BY <2>2, <2>4, <2>13 DEF Follows
    <3>2. e.client.stops = s.client.stops /\ e.client.endings = s.client.endings
      BY <3>1 DEF EndsOf
    <3>3. t.client.stops = e.client.stops /\ t.client.endings = e.client.endings + 1
      BY <2>11, <2>12 DEF See
    <3> QED BY <3>2, <3>3
  <2>16. ASSUME s.text # Closed PROVE t.told = IF s.inThink THEN s.told ELSE s.told \o s.partial
    BY <2>2, <2>3, <2>4, <2>5, <2>7, <2>9, <2>12, <2>16
  <2>17. ASSUME Sound(s) PROVE Over(t)
    <3>1. Sound(c)
      BY <2>3, <2>4, <2>5, <2>17
    <3>2. /\ d.client.phase = "content" /\ d.client.illegal = {}
          /\ d.client.open = OpenBlocks(c) \ {c.slots[k] : k \in DOMAIN c.slots}
      BY <2>7, <3>1
    <3>3. d.text = c.text /\ d.slots = c.slots
      BY <2>7, BlocksFields
    <3>4. c.text \in BlockState /\ c.thinking \in BlockState
      BY <2>6, StateFields
    <3>5. d.client \in ClientType
      BY <2>8, StateFields
    <3>6. e.client.phase = "content" /\ e.client.illegal = {} /\ e.client.open = {}
      <4>1. CASE d.text >= 0
        <5> DEFINE stop == Block("content_block_stop", d.text, "text")
        <5>1. d.text \in Nat
          BY <3>3, <3>4, <4>1 DEF BlockState, NotOpened, Closed
        <5>2. "content_block_stop" \in EventTypes /\ "text" \in Kinds
          BY DEF EventTypes, Kinds
        <5>3. stop \in Events(Letters) /\ stop.type = "content_block_stop" /\ stop.index = d.text
          BY <5>1, <5>2, BlockEvent
        <5>4. e.client = See(d.client, stop)
          BY <2>9, <4>1
        <5> HIDE DEF stop
        <5>5. d.text \in OpenBlocks(c)
          BY <5>1, <3>3 DEF OpenBlocks
        <5>6. d.text \notin {c.slots[k] : k \in DOMAIN c.slots}
          BY <3>1, <3>3, <4>1 DEF Sound, Numbered
        <5>7. d.client.open = {d.text}
          BY <2>5, <3>2, <3>3, <5>5, <5>6 DEF OpenBlocks
        <5> QED BY <3>2, <3>5, <5>3, <5>4, <5>7, SeeIs
      <4>2. CASE ~(d.text >= 0)
        <5>1. e = d
          BY <2>9, <4>2
        <5>2. d.client.open = {}
          BY <2>5, <3>2, <3>3, <4>2 DEF OpenBlocks
        <5> QED BY <3>2, <5>1, <5>2
      <4> QED BY <4>1, <4>2
    <3>7. Legal(e.client, ev)
      BY <2>11, <3>6 DEF Legal
    <3> QED BY <2>11, <2>12, <3>6, <3>7 DEF Over, See
  <2> QED BY <1>2, <2>12, <2>14, <2>15, <2>16, <2>17 DEF t
<1> QED BY <1>1, <1>2

\* The chunks all of whose tool calls have a place: those that are dealt with.
PlacedChunks == [reasoning: BOOLEAN, tools: Seq(Pieces), content: Seq(Letters),
                 finish: FinishReasons \cup {"none"}]

LEMMA HandledIs ==
  ASSUME NEW x \in Chunks
  PROVE  Handled(x) \in PlacedChunks /\ (HasDelta(Handled(x)) => HasDelta(x))
<1> DEFINE C == [index: Int, args: BOOLEAN]
           n == Min(Misplaced(x)) - 1
<1>1. x \in [reasoning: BOOLEAN, tools: Seq(C), content: Seq(Letters), finish: FinishReasons \cup {"none"}]
  BY ChunkAssumption DEF ChunkType
<1>2. x.tools \in Seq(C) /\ DOMAIN x.tools = 1..Len(x.tools) /\ Len(x.tools) \in Nat
  BY <1>1
<1>3. ASSUME NEW k \in 1..Len(x.tools), k \notin Misplaced(x)
      PROVE  x.tools[k] \in Pieces
  <2>1. x.tools[k] \in C
    BY <1>2, ElementOfSeq
  <2>2. ~(x.tools[k].index < 0)
    BY <1>2, <1>3 DEF Misplaced
  <2> QED BY <2>1, <2>2 DEF Pieces
<1>4. CASE Misplaced(x) = {}
  <2>1. \A k \in 1..Len(x.tools) : x.tools[k] \in Pieces
    BY <1>3, <1>4
  <2>2. x.tools \in Seq(Pieces)
    BY <1>2, <2>1
  <2>3. Handled(x) = x
    BY <1>4 DEF Handled
  <2> HIDE DEF C
  <2> QED BY <1>1, <2>2, <2>3 DEF PlacedChunks
<1>5. CASE Misplaced(x) # {}
  <2> DEFINE t == SubSeq(x.tools, 1, n)
  <2>1. Misplaced(x) \subseteq 1..Len(x.tools)
    BY <1>2 DEF Misplaced
  <2>2. Min(Misplaced(x)) \in Misplaced(x) /\ \A j \in Misplaced(x) : Min(Misplaced(x)) <= j
    <3>1. Misplaced(x) \subseteq Nat
      BY <1>2, <2>1
    <3> QED BY <1>5, <3>1, MinOfSet
  <2>3. n \in Nat /\ n < Len(x.tools) /\ \A k \in 1..n : k \in 1..Len(x.tools) /\ k \notin Misplaced(x)
    BY <1>2, <2>1, <2>2
  <2> HIDE DEF n
  <2>4. \A k \in 1..n : x.tools[k] \in Pieces
    BY <1>3, <2>3
  <2>5. t \in Seq(Pieces)
    <3>1. t = [k \in 1..n |-> x.tools[k]]
      BY <1>2, <2>3
    <3> HIDE DEF t
    <3> QED BY <2>3, <2>4, <3>1
  <2>6. Handled(x) = [x EXCEPT !.tools = t, !.content = <<>>, !.finish = "none"]
    BY <1>5 DEF Handled, n
  <2>7. x.tools # <<>>
    BY <1>2, <1>5 DEF Misplaced
  <2>8. <<>> \in Seq(Letters)
    OBVIOUS
  <2> HIDE DEF t, C
  <2>9. Handled(x) \in PlacedChunks
    BY <1>1, <2>5, <2>6, <2>8 DEF PlacedChunks
  <2>10. HasDelta(x)
    BY <2>7 DEF HasDelta
  <2> QED BY <2>9, <2>10
<1> QED BY <1>4, <1>5

\* What a turn makes of a chunk before it looks at its finish_reason.
Delta(s, c) ==
  Content(ToolCalls(EmitThinkingDelta(StartMessage(s), c.reasoning), c.tools), c.content)

\* What the filter says, knows and keeps after that.
SaidBy(s, c) ==
  IF c.content = <<>> THEN [text |-> <<>>, inThink |-> s.inThink, partial |-> s.partial]
  ELSE LET p == Process[s.partial \o c.content][s.inThink]
       IN  [text |-> p.text, inThink |-> p.inThink, partial |-> p.partial]

LEMMA SaidIs ==
  ASSUME NEW s \in States, NEW c \in PlacedChunks
  PROVE  LET p == SaidBy(s, c) IN
         p.text \in Seq(Letters) /\ p.inThink \in BOOLEAN /\ p.partial \in Seq(Letters)
<1>0. c.content \in Seq(Letters)
  BY DEF PlacedChunks
<1>1. s.partial \in Seq(Letters) /\ s.inThink \in BOOLEAN /\ s.partial \o c.content \in Seq(Letters)
  BY <1>0, StateFields, ConcatIs
<1> DEFINE q == Process[s.partial \o c.content][s.inThink]
<1>2. q \in Filtered
  BY <1>1, MeaningType
<1>3. q.text \in Seq(Letters) /\ q.inThink \in BOOLEAN /\ q.partial \in Seq(Letters)
  BY <1>2 DEF Filtered
<1> HIDE DEF q
<1>4. CASE c.content = <<>>
  <2>1. SaidBy(s, c) = [text |-> <<>>, inThink |-> s.inThink, partial |-> s.partial]
    BY <1>4 DEF SaidBy
  <2>2. <<>> \in Seq(Letters)
    OBVIOUS
  <2> QED BY <1>1, <2>1, <2>2
<1>5. CASE c.content # <<>>
  <2>1. SaidBy(s, c) = [text |-> q.text, inThink |-> q.inThink, partial |-> q.partial]
    BY <1>5 DEF SaidBy, q
  <2> QED BY <1>3, <2>1
<1> QED BY <1>4, <1>5

LEMMA DeltaStateIs ==
  ASSUME NEW s \in States, NEW c \in PlacedChunks
  PROVE  LET t == Delta(s, c)
             p == SaidBy(s, c) IN
         /\ t \in States /\ t.started /\ t.ended = s.ended
         /\ EndsOf(t.client) = EndsOf(s.client)
         /\ t.inThink = p.inThink /\ t.partial = p.partial
         /\ s.text # Closed => t.told = s.told \o p.text
         /\ s.text # Closed => t.text # Closed
         /\ Begun(s) => Sound(t)
         /\ s.started /\ ~HasDelta(c) => t = s
<1> DEFINE a == StartMessage(s)
           b == EmitThinkingDelta(a, c.reasoning)
           d == ToolCalls(b, c.tools)
           t == Content(d, c.content)
           p == SaidBy(s, c)
<1>0. c.reasoning \in BOOLEAN /\ c.tools \in Seq(Pieces) /\ c.content \in Seq(Letters)
  BY DEF PlacedChunks
<1>1. Delta(s, c) = t
  BY DEF Delta
<1>2. /\ a \in States /\ a.started /\ a.ended = s.ended
      /\ a.inThink = s.inThink /\ a.partial = s.partial /\ a.told = s.told /\ a.text = s.text
      /\ EndsOf(a.client) = EndsOf(s.client)
      /\ Begun(s) => Sound(a)
  BY StartMessageIs
<1>3. s.started /\ ~HasDelta(c) => t = s
  <2> SUFFICES ASSUME s.started, ~HasDelta(c) PROVE t = s
    OBVIOUS
  <2>1. a = s
    BY DEF StartMessage
  <2>2. c.reasoning = FALSE /\ c.tools = <<>> /\ c.content = <<>>
    BY <1>0 DEF HasDelta
  <2>3. b = a
    <3> HIDE DEF a
    <3>1. b = EmitThinkingDelta(a, FALSE)
      BY <2>2
    <3> HIDE DEF b
    <3> QED BY <3>1 DEF EmitThinkingDelta
  <2> HIDE DEF a, b
  <2>4. d = b
    <3>1. d = ToolCalls(b, <<>>)
      BY <2>2
    <3>2. <<>> \in Seq(Pieces)
      OBVIOUS
    <3>3. CallLoop!Run(b, <<>>) = b
      BY CallLoop!RunEmpty
    <3>4. ToolCalls(b, <<>>) = CallLoop!Run(b, <<>>)
      BY DEF ToolCalls, CallLoop!Run, FoldLeft, CallLoop!FoldLeft, MapThenFoldSet,
             CallLoop!MapThenFoldSet, Max, CallLoop!Max
    <3> QED BY <3>1, <3>3, <3>4
  <2> HIDE DEF d
  <2>5. t = d
    BY <2>2 DEF Content
  <2> QED BY <2>1, <2>3, <2>4, <2>5
<1> HIDE DEF a
<1>4. /\ Follows(a, b) /\ b.told = a.told /\ b.text = a.text
      /\ Sound(a) => Sound(b)
  BY <1>0, <1>2, EmitThinkingIs
<1> HIDE DEF b
<1>5. b \in States
  BY <1>4 DEF Follows
<1>6. /\ Follows(b, d) /\ d.told = b.told /\ d.text = b.text
      /\ Sound(b) => Sound(d)
  BY <1>0, <1>5, ToolCallsIs
<1> HIDE DEF d
<1>7. /\ d \in States /\ d.started = a.started /\ d.ended = a.ended /\ d.inThink = a.inThink
      /\ d.partial = a.partial /\ EndsOf(d.client) = EndsOf(a.client)
  <2>1. Follows(a, d)
    BY <1>4, <1>6, FollowsOn
  <2> QED BY <2>1, FlowFields DEF Follows
<1> DEFINE q == Process[s.partial \o c.content][s.inThink]
<1>8. /\ t \in States /\ t.started = d.started /\ t.ended = d.ended
      /\ EndsOf(t.client) = EndsOf(d.client)
      /\ c.content = <<>> => t = d
      /\ c.content # <<>> => t.inThink = q.inThink /\ t.partial = q.partial
      /\ c.content # <<>> /\ d.text # Closed => t.told = d.told \o q.text
      /\ d.text # Closed => t.text # Closed
      /\ Sound(d) => Sound(t)
  <2> DEFINE o == Process[d.partial \o c.content][d.inThink]
  <2>1. o = q
    BY <1>2, <1>7
  <2>2. /\ t \in States /\ t.started = d.started /\ t.ended = d.ended
        /\ EndsOf(t.client) = EndsOf(d.client)
        /\ c.content = <<>> => t = d
        /\ c.content # <<>> => t.inThink = o.inThink /\ t.partial = o.partial
        /\ c.content # <<>> /\ d.text # Closed => t.told = d.told \o o.text
        /\ d.text # Closed => t.text # Closed
        /\ Sound(d) => Sound(t)
    BY <1>0, <1>7, ContentIs
  <2> HIDE DEF o, q, t
  <2> QED BY <2>1, <2>2
<1>9. CASE c.content = <<>>
  <2>1. p = [text |-> <<>>, inThink |-> s.inThink, partial |-> s.partial]
    BY <1>9 DEF SaidBy
  <2> HIDE DEF p, t
  <2>2. t = d /\ p.text = <<>> /\ p.inThink = s.inThink /\ p.partial = s.partial
    BY <1>8, <1>9, <2>1
  <2>3. t.told = s.told \o p.text
    <3>1. s.told \o <<>> = s.told
      BY StateFields
    <3> QED BY <3>1, <2>2, <1>2, <1>4, <1>6
  <2>4. t.text = s.text
    BY <2>2, <1>2, <1>4, <1>6
  <2>5. Begun(s) => Sound(t)
    BY <2>2, <1>2, <1>4, <1>6
  <2> QED BY <1>1, <1>2, <1>3, <1>7, <2>2, <2>3, <2>4, <2>5 DEF p, t
<1>10. CASE c.content # <<>>
  <2>1. p = [text |-> q.text, inThink |-> q.inThink, partial |-> q.partial]
    BY <1>10 DEF SaidBy
  <2> HIDE DEF p, t, q
  <2>2. p.text = q.text /\ p.inThink = q.inThink /\ p.partial = q.partial
    BY <2>1
  <2>3. t.inThink = p.inThink /\ t.partial = p.partial
    BY <1>8, <1>10, <2>2
  <2>4. d.text = s.text /\ d.told = s.told
    BY <1>2, <1>4, <1>6
  <2>5. s.text # Closed => t.told = s.told \o p.text
    BY <1>8, <1>10, <2>2, <2>4
  <2>6. s.text # Closed => t.text # Closed
    BY <1>8, <2>4
  <2>7. Begun(s) => Sound(t)
    BY <1>2, <1>4, <1>6, <1>8
  <2> QED BY <1>1, <1>2, <1>3, <1>7, <1>8, <2>3, <2>5, <2>6, <2>7 DEF p, t
<1> QED BY <1>9, <1>10

\* What a turn of the loop makes of s and a chunk.
TurnsTo(s, c, t) ==
  /\ t \in States /\ t.started /\ t.client.stops = s.client.stops
  /\ c.finish = "none" =>
       /\ t.ended = s.ended /\ t.client.endings = s.client.endings
       /\ t.inThink = SaidBy(s, c).inThink /\ t.partial = SaidBy(s, c).partial
       /\ s.text # Closed => t.told = s.told \o SaidBy(s, c).text /\ t.text # Closed
       /\ Begun(s) => Sound(t)
  /\ c.finish # "none" =>
       /\ t.ended = TRUE
       /\ s.ended => t.client.endings = s.client.endings
       /\ ~s.ended =>
            /\ t.client.endings = s.client.endings + 1 /\ t.partial = <<>>
            /\ s.text # Closed =>
                 t.told = (s.told \o SaidBy(s, c).text) \o
                            (IF SaidBy(s, c).inThink THEN <<>> ELSE SaidBy(s, c).partial)
            /\ Begun(s) => Over(t)
  /\ s.started /\ s.ended /\ ~HasDelta(c) => t = s

\* A whole turn.
LEMMA TurnIs ==
  ASSUME NEW s \in States, NEW c \in PlacedChunks
  PROVE  TurnsTo(s, c, Turn(s, c))
<1> DEFINE d == Delta(s, c)
           t == Turn(s, c)
           p == SaidBy(s, c)
<1>1. t = IF c.finish # "none" THEN Finish(d, c.finish) ELSE d
  BY DEF Turn, Delta
<1>2. /\ d \in States /\ d.started /\ d.ended = s.ended
      /\ EndsOf(d.client) = EndsOf(s.client)
      /\ d.inThink = p.inThink /\ d.partial = p.partial
      /\ s.text # Closed => d.told = s.told \o p.text
      /\ s.text # Closed => d.text # Closed
      /\ Begun(s) => Sound(d)
      /\ s.started /\ ~HasDelta(c) => d = s
  BY DeltaStateIs
<1>3. p.text \in Seq(Letters) /\ p.inThink \in BOOLEAN /\ p.partial \in Seq(Letters)
  BY SaidIs
<1>4. d.client.stops = s.client.stops /\ d.client.endings = s.client.endings
  BY <1>2 DEF EndsOf
<1> HIDE DEF d, p, t
<1>5. CASE c.finish = "none"
  <2>1. t = d
    BY <1>1, <1>5
  <2> QED BY <1>2, <1>4, <1>5, <2>1 DEF t, p, TurnsTo
<1>6. CASE c.finish # "none"
  <2>1. c.finish \in FinishReasons /\ t = Finish(d, c.finish)
    BY <1>1, <1>6 DEF PlacedChunks
  <2>2. /\ t \in States /\ t.started = d.started /\ t.ended = TRUE
        /\ t.client.stops = d.client.stops
        /\ d.ended => t = d
        /\ ~d.ended => t.partial = <<>> /\ t.client.endings = d.client.endings + 1
        /\ ~d.ended /\ d.text # Closed =>
             t.told = IF d.inThink THEN d.told ELSE d.told \o d.partial
        /\ ~d.ended /\ Sound(d) => Over(t)
    <3> DEFINE f == c.finish
               r == Finish(d, f)
    <3>1. f \in FinishReasons /\ t = r
      BY <2>1
    <3>2. d \in States
      BY <1>2
    <3> HIDE DEF f
    <3>3. /\ r \in States /\ r.started = d.started /\ r.ended = TRUE
          /\ r.client.stops = d.client.stops
          /\ d.ended => r = d
          /\ ~d.ended => r.partial = <<>> /\ r.client.endings = d.client.endings + 1
          /\ ~d.ended /\ d.text # Closed =>
               r.told = IF d.inThink THEN d.told ELSE d.told \o d.partial
          /\ ~d.ended /\ Sound(d) => Over(r)
      BY <3>1, <3>2, FinishIs
    <3> HIDE DEF r
    <3> QED BY <3>1, <3>3
  <2>3. ASSUME ~s.ended, s.text # Closed
        PROVE  t.told = (s.told \o p.text) \o IF p.inThink THEN <<>> ELSE p.partial
    <3>1. s.told \o p.text \in Seq(Letters)
      BY <1>3, StateFields, ConcatIs
    <3>2. (s.told \o p.text) \o <<>> = s.told \o p.text
      BY <3>1, ConcatAssoc
    <3>3. t.told = IF p.inThink THEN s.told \o p.text ELSE (s.told \o p.text) \o p.partial
      BY <1>2, <2>2, <2>3
    <3> QED BY <3>2, <3>3
  <2>4. s.ended => t.client.endings = s.client.endings
    BY <1>2, <1>4, <2>2
  <2>5. ~s.ended => t.client.endings = s.client.endings + 1 /\ t.partial = <<>>
    BY <1>2, <1>4, <2>2
  <2>6. ~s.ended /\ Begun(s) => Over(t)
    BY <1>2, <2>2
  <2>7. s.started /\ s.ended /\ ~HasDelta(c) => t = s
    BY <1>2, <2>2
  <2>8. t \in States /\ t.started /\ t.ended = TRUE /\ t.client.stops = s.client.stops
    BY <1>2, <1>4, <2>2
  <2>9. ~s.ended /\ s.text # Closed =>
          t.told = (s.told \o p.text) \o IF p.inThink THEN <<>> ELSE p.partial
    BY <2>3
  <2>10. /\ s.ended => t.client.endings = s.client.endings
         /\ ~s.ended =>
              /\ t.client.endings = s.client.endings + 1 /\ t.partial = <<>>
              /\ s.text # Closed =>
                   t.told = (s.told \o p.text) \o IF p.inThink THEN <<>> ELSE p.partial
              /\ Begun(s) => Over(t)
    BY <2>4, <2>5, <2>6, <2>9
  <2> QED BY <1>6, <2>7, <2>8, <2>10 DEF t, p, TurnsTo
<1> QED BY <1>5, <1>6

-------------------------------------------------------------------------------
(* What was told, of what came.                                                *)

\* What was told is the text of d, the filter keeps p of what came, and whatever
\* comes goes on from there.
Explains(told, i, p, f, d) ==
  /\ f = d \o p
  /\ \A y \in Seq(Letters) : Comparable(p, y) =>
       Meaning[d \o y][FALSE].text = told \o Meaning[y][i].text

Explained(told, i, p, f) == \E d \in Seq(Letters) : Explains(told, i, p, f, d)

\* What comes of the letters that were kept when nothing follows them.
KeptText(i, p) == IF i THEN <<>> ELSE p

\* All of f but what is kept was told.
ToldBut(told, p, f) == told = Meaning[SubSeq(f, 1, Len(f) - Len(p))][FALSE].text

LEMMA AgreeComparable ==
  ASSUME NEW s \in Seq(Letters), NEW t \in Seq(Letters), NEW c \in Seq(Letters), Agree(s \o c, t)
  PROVE  Comparable(s, t)
<1>1. Len(s) \in Nat /\ Len(t) \in Nat /\ Len(c) \in Nat /\ Len(s \o c) = Len(s) + Len(c)
      /\ \A j \in 1..Len(s) : (s \o c)[j] = s[j]
  BY ConcatIs
<1>2. \A j \in 1..Len(s) : j <= Len(t) => s[j] = t[j]
  <2> SUFFICES ASSUME NEW j \in 1..Len(s), j <= Len(t) PROVE s[j] = t[j]
    OBVIOUS
  <2>1. j \in 1..Len(s \o c)
    BY <1>1
  <2>2. (s \o c)[j] = t[j]
    BY <2>1 DEF Agree
  <2> QED BY <2>2, <1>1
<1>3. IsPrefix(s, t) <=> Len(s) <= Len(t) /\ \A j \in 1..Len(s) : s[j] = t[j]
  BY PrefixIs
<1>4. IsPrefix(t, s) <=> Len(t) <= Len(s) /\ \A j \in 1..Len(t) : t[j] = s[j]
  BY PrefixIs
<1> QED BY <1>1, <1>2, <1>3, <1>4 DEF Comparable

LEMMA PartText ==
  ASSUME NEW y \in Seq(Letters), NEW i \in BOOLEAN
  PROVE  Meaning[y][i].text \in Seq(Letters) /\ Process[y][i].text \in Seq(Letters)
         /\ Process[y][i].inThink \in BOOLEAN /\ Process[y][i].partial \in Seq(Letters)
<1>1. Meaning[y][i] \in Parts /\ Process[y][i] \in Filtered
  BY MeaningType
<1> DEFINE m == Meaning[y][i]
           p == Process[y][i]
<1> HIDE DEF m, p
<1>2. m.text \in Seq(Letters) /\ p.text \in Seq(Letters) /\ p.inThink \in BOOLEAN
      /\ p.partial \in Seq(Letters)
  BY <1>1 DEF Parts, Filtered, m, p
<1> QED BY <1>2 DEF m, p

\* One chunk more, cut wherever it may be, is accounted for as well.
LEMMA ExplainsOn ==
  ASSUME NEW told \in Seq(Letters), NEW i \in BOOLEAN, NEW p \in Seq(Letters),
         NEW f \in Seq(Letters), NEW d \in Seq(Letters), Explains(told, i, p, f, d),
         NEW c \in Seq(Letters)
  PROVE  LET q == Process[p \o c][i] IN
         /\ Len(q.partial) < Len(Tag(q.inThink))
         /\ \E e \in Seq(Letters) : Explains(told \o q.text, q.inThink, q.partial, f \o c, e)
<1> DEFINE buf == p \o c
           q == Process[buf][i]
<1>1. buf \in Seq(Letters)
  BY ConcatIs
<1>2. q.text \in Seq(Letters) /\ q.inThink \in BOOLEAN /\ q.partial \in Seq(Letters)
  BY <1>1, PartText
<1>3. Kept(buf, i)
  BY <1>1, ProcessIsFaithful
<1>4. Len(q.partial) < Len(Tag(q.inThink)) /\ \E z : Faithful(buf, i, z)
  BY <1>3 DEF Kept
<1>5. PICK z : Faithful(buf, i, z)
  BY <1>4
<1>6. /\ z \in Seq(Letters) /\ buf = z \o q.partial
      /\ \A y \in Seq(Letters) : Comparable(q.partial, y) =>
           Meaning[z \o y][i] = Joined(q, Meaning[y][q.inThink])
  BY <1>5 DEF Faithful
<1> DEFINE e == d \o z
<1> HIDE DEF q
<1>7. e \in Seq(Letters)
  BY <1>6, ConcatIs
<1>8. f \o c = e \o q.partial
  <2>1. f \o c = d \o (p \o c)
    BY ConcatAssoc DEF Explains
  <2>2. e \o q.partial = d \o (z \o q.partial)
    <3>1. z \in Seq(Letters) /\ q.partial \in Seq(Letters)
      BY <1>2, <1>6
    <3> DEFINE a == q.partial
    <3> HIDE DEF a
    <3>2. (d \o z) \o a = d \o (z \o a)
      BY <3>1, TextAssoc, ZenonT(60) DEF a
    <3> QED BY <3>2 DEF a
  <2> QED BY <2>1, <2>2, <1>6
<1>9. ASSUME NEW y \in Seq(Letters), Comparable(q.partial, y)
      PROVE  Meaning[e \o y][FALSE].text = (told \o q.text) \o Meaning[y][q.inThink].text
  <2> DEFINE x == z \o y
  <2>1. x \in Seq(Letters)
    BY <1>6, ConcatIs
  <2>2. Agree(z \o q.partial, x)
    BY <1>2, <1>6, <1>9, ComparableAgree
  <2>3. Agree(p \o c, x)
    BY <2>2, <1>6
  <2> HIDE DEF x
  <2>4. Comparable(p, x)
    BY <2>1, <2>3, AgreeComparable
  <2>5. Meaning[d \o x][FALSE].text = told \o Meaning[x][i].text
    BY <2>1, <2>4 DEF Explains
  <2>6. Meaning[x][i] = Joined(q, Meaning[y][q.inThink])
    BY <1>6, <1>9 DEF x
  <2>7. Meaning[x][i].text = q.text \o Meaning[y][q.inThink].text
    <3> DEFINE m == Meaning[y][q.inThink]
    <3> HIDE DEF m
    <3>1. Joined(q, m).text = q.text \o m.text
      BY DEF Joined
    <3> QED BY <2>6, <3>1 DEF m
  <2>8. e \o y = d \o x
    <3>1. z \in Seq(Letters)
      BY <1>6
    <3>2. (d \o z) \o y = d \o (z \o y)
      BY <3>1, SMTT(30)
    <3> QED BY <3>2 DEF x
  <2>9. Meaning[y][q.inThink].text \in Seq(Letters)
    BY <1>2, PartText
  <2>10. (told \o q.text) \o Meaning[y][q.inThink].text = told \o (q.text \o Meaning[y][q.inThink].text)
    <3> DEFINE a == q.text
               b == Meaning[y][q.inThink].text
    <3>1. a \in Seq(Letters) /\ b \in Seq(Letters)
      BY <1>2, <2>9
    <3> HIDE DEF a, b
    <3>2. (told \o a) \o b = told \o (a \o b)
      BY <3>1, SMTT(30)
    <3> QED BY <3>2 DEF a, b
  <2> HIDE DEF e
  <2> QED BY <2>5, <2>7, <2>8, <2>10
<1>10. Explains(told \o q.text, q.inThink, q.partial, f \o c, e)
  BY <1>8, <1>9 DEF Explains
<1> QED BY <1>4, <1>7, <1>10 DEF q

LEMMA EmptyMeans ==
  ASSUME NEW i \in BOOLEAN
  PROVE  Meaning[<<>>][i] = [text |-> <<>>, think |-> <<>>]
<1>1. <<>> \in Seq(Letters)
  OBVIOUS
<1>2. Meaning[<<>>][i] = MeaningBody(Meaning, <<>>, i)
  BY <1>1, MeaningIs
<1> QED BY <1>2 DEF MeaningBody

\* At the end, what was kept is text, or a tag that never came and is thinking.
LEMMA ExplainsAll ==
  ASSUME NEW told \in Seq(Letters), NEW i \in BOOLEAN, NEW p \in Seq(Letters),
         NEW f, Explained(told, i, p, f), Len(p) < Len(Tag(i))
  PROVE  Meaning[f][FALSE].text = told \o KeptText(i, p)
<1>0. PICK d \in Seq(Letters) : Explains(told, i, p, f, d)
  BY DEF Explained
<1>1. Comparable(p, p)
  BY PrefixIs DEF Comparable
<1>2. Meaning[f][FALSE].text = told \o Meaning[p][i].text
  BY <1>0, <1>1 DEF Explains
<1>3. <<>> \in Seq(Letters) /\ p \o <<>> = p /\ told \o <<>> = told
  BY ConcatAssoc
<1>4. Meaning[p][i] = Prepend(i, p, Meaning[<<>>][i])
  <2>1. \A k \in 0..Len(p) - 1 : ~StandsAfter(p \o <<>>, Tag(i), k)
    BY <1>3, TagType, LenProperties DEF StandsAfter
  <2>2. Meaning[p \o <<>>][i] = Prepend(i, p, Meaning[<<>>][i])
    BY <1>3, <2>1, LettersMean
  <2> QED BY <1>3, <2>2
<1>5. Meaning[p][i].text = IF i THEN <<>> ELSE p
  <2> DEFINE r == Meaning[<<>>][i]
  <2>1. r \in Parts /\ r.text = <<>>
    <3>1. r = [text |-> <<>>, think |-> <<>>]
      BY EmptyMeans
    <3> QED BY <1>3, <3>1 DEF Parts
  <2> HIDE DEF r
  <2>2. Prepend(i, p, r).text = IF i THEN r.text ELSE p \o r.text
    BY <2>1, PrependParts
  <2> QED BY <1>3, <1>4, <2>1, <2>2 DEF r
<1> QED BY <1>2, <1>5 DEF KeptText

\* Before it, all of what came was told but what is kept.
LEMMA ExplainsSoFar ==
  ASSUME NEW told \in Seq(Letters), NEW i \in BOOLEAN, NEW p \in Seq(Letters),
         NEW f, NEW d \in Seq(Letters), Explains(told, i, p, f, d)
  PROVE  ToldBut(told, p, f)
<1>1. <<>> \in Seq(Letters) /\ d \o <<>> = d /\ told \o <<>> = told
  BY ConcatAssoc
<1>2. Comparable(p, <<>>)
  <2>1. Len(<<>>) = 0 /\ Len(p) \in Nat
    OBVIOUS
  <2>2. IsPrefix(<<>>, p)
    BY <2>1 DEF IsPrefix
  <2> QED BY <2>2 DEF Comparable
<1>3. Meaning[d \o <<>>][FALSE].text = told \o Meaning[<<>>][i].text
  BY <1>1, <1>2 DEF Explains
<1>4. Meaning[<<>>][i].text = <<>>
  BY EmptyMeans
<1>5. SubSeq(f, 1, Len(f) - Len(p)) = d
  <2>1. f = d \o p
    BY DEF Explains
  <2> QED BY <2>1
<1> QED BY <1>1, <1>3, <1>4, <1>5 DEF ToldBut

-------------------------------------------------------------------------------
(* The invariant.                                                              *)

\* Ends are told once, and only what Stream ends with success is stopped.
EndInv ==
  /\ st.client.endings = IF st.ended THEN 1 ELSE 0
  /\ st.ended => st.started
  /\ result # "nil" => st.client.stops = 0
  /\ result = "nil" => st.client.stops = 1 \/ st.client = Fresh
  /\ result = "running" /\ ~st.started => Unstarted(st)

\* The blocks are in order, up to the end.
FormInv ==
  ~rude => /\ st.client.illegal = {}
           /\ result = "running" => IF st.ended THEN Over(st) ELSE Begun(st)

\* The text is told whole, up to what is kept.
Accounted(s, f) ==
  IF s.ended THEN s.partial = <<>> /\ s.told = Meaning[f][FALSE].text
  ELSE /\ s.text # Closed
       /\ Len(s.partial) < Len(Tag(s.inThink))
       /\ \E d \in Seq(Letters) : Explains(s.told, s.inThink, s.partial, f, d)

TextInv == ~rude => Accounted(st, fed)

LEMMA QuietFields ==
  ASSUME NEW s \in States
  PROVE  LET t == Quiet(s) IN
         /\ t \in States /\ t.client = s.client /\ t.told = s.told /\ t.text = s.text
         /\ t.started = s.started /\ t.ended = s.ended /\ t.inThink = s.inThink /\ t.partial = s.partial
         /\ Begun(s) => Begun(t)
         /\ Unstarted(s) => Unstarted(t)
<1> DEFINE t == Quiet(s)
<1>1. t \in States /\ t.client = s.client /\ t.told = s.told /\ Flow(t) = Flow(s) /\ Blocks(t) = Blocks(s)
  BY QuietIs
<1> HIDE DEF t
<1>2. t.next = s.next /\ t.thinking = s.thinking /\ t.text = s.text /\ t.slots = s.slots
  BY <1>1, BlocksFields
<1>3. t.started = s.started /\ t.ended = s.ended /\ t.inThink = s.inThink /\ t.partial = s.partial
  BY <1>1, FlowFields
<1>4. Unstarted(s) => Unstarted(t)
  BY <1>1, <1>2 DEF Unstarted
<1>5. Sound(s) => Sound(t)
  BY <1>1, SameBlocks
<1>6. Begun(s) => Begun(t)
  BY <1>3, <1>4, <1>5 DEF Begun
<1> QED BY <1>1, <1>2, <1>3, <1>4, <1>6 DEF t

\* message_stop.
LEMMA StopIs ==
  ASSUME NEW s \in States
  PROVE  LET t == Emit(Quiet(s), Plain("message_stop")) IN
         /\ t \in States /\ t.told = s.told /\ t.text = s.text
         /\ t.started = s.started /\ t.ended = s.ended /\ t.inThink = s.inThink /\ t.partial = s.partial
         /\ t.client.stops = s.client.stops + 1 /\ t.client.endings = s.client.endings
         /\ Over(s) => t.client.illegal = {}
<1> DEFINE q == Quiet(s)
           ev == Plain("message_stop")
           t == Emit(q, ev)
<1>1. /\ q \in States /\ q.client = s.client /\ q.told = s.told /\ q.text = s.text
      /\ q.started = s.started /\ q.ended = s.ended /\ q.inThink = s.inThink /\ q.partial = s.partial
  BY QuietFields
<1>2. ev \in Events(Letters) /\ ev.type = "message_stop"
  <2>1. "message_stop" \in EventTypes
    BY DEF EventTypes
  <2> QED BY <2>1, PlainEvent
<1> HIDE DEF q, ev
<1>3. /\ t \in States /\ t.client = See(s.client, ev) /\ t.told = s.told
      /\ Flow(t) = Flow(q) /\ Blocks(t) = Blocks(q)
  BY <1>1, <1>2, EmitIs
<1> HIDE DEF t
<1>4. t.text = s.text
  BY <1>1, <1>3, BlocksFields
<1>5. t.started = s.started /\ t.ended = s.ended /\ t.inThink = s.inThink /\ t.partial = s.partial
  BY <1>1, <1>3, FlowFields
<1>6. t.client.stops = s.client.stops + 1 /\ t.client.endings = s.client.endings
  BY <1>2, <1>3 DEF See
<1>7. Over(s) => t.client.illegal = {}
  BY <1>2, <1>3 DEF See, Legal, Over
<1> QED BY <1>3, <1>4, <1>5, <1>6, <1>7 DEF t, q, ev

LEMMA AccountedSame ==
  ASSUME NEW s, NEW t, NEW f, Accounted(s, f), t.told = s.told, t.text = s.text, t.ended = s.ended,
         t.inThink = s.inThink, t.partial = s.partial
  PROVE  Accounted(t, f)
BY DEF Accounted

\* A turn before the end.
LEMMA AccountedTurn ==
  ASSUME NEW s \in States, NEW f \in Seq(Letters), ~s.ended, Accounted(s, f), NEW c \in PlacedChunks
  PROVE  Accounted(Turn(s, c), f \o c.content)
<1> DEFINE p == SaidBy(s, c)
           t == Turn(s, c)
           g == f \o c.content
<1>0. c.content \in Seq(Letters) /\ s.told \in Seq(Letters) /\ s.inThink \in BOOLEAN /\ s.partial \in Seq(Letters)
  BY StateFields DEF PlacedChunks
<1>1. /\ s.text # Closed /\ Len(s.partial) < Len(Tag(s.inThink))
      /\ \E d \in Seq(Letters) : Explains(s.told, s.inThink, s.partial, f, d)
  BY DEF Accounted
<1>2. PICK d \in Seq(Letters) : Explains(s.told, s.inThink, s.partial, f, d)
  BY <1>1
<1>3. /\ p.text \in Seq(Letters) /\ p.inThink \in BOOLEAN /\ p.partial \in Seq(Letters)
  BY SaidIs
<1>4. /\ Len(p.partial) < Len(Tag(p.inThink))
      /\ \E e \in Seq(Letters) : Explains(s.told \o p.text, p.inThink, p.partial, g, e)
  <2>1. CASE c.content = <<>>
    <3>1. p = [text |-> <<>>, inThink |-> s.inThink, partial |-> s.partial]
      BY <2>1 DEF SaidBy
    <3> HIDE DEF p
    <3>2. p.text = <<>> /\ p.inThink = s.inThink /\ p.partial = s.partial
      BY <3>1
    <3>3. s.told \o p.text = s.told
      BY <1>0, <3>2
    <3>4. g = f
      BY <2>1
    <3> HIDE DEF g
    <3> QED BY <1>1, <3>2, <3>3, <3>4
  <2>2. CASE c.content # <<>>
    <3> DEFINE q == Process[s.partial \o c.content][s.inThink]
    <3>1. p = [text |-> q.text, inThink |-> q.inThink, partial |-> q.partial]
      BY <2>2 DEF SaidBy
    <3>2. /\ Len(q.partial) < Len(Tag(q.inThink))
          /\ \E e \in Seq(Letters) : Explains(s.told \o q.text, q.inThink, q.partial, g, e)
      BY <1>0, <1>2, ExplainsOn, ZenonT(60)
    <3> HIDE DEF p, q, g
    <3>3. p.text = q.text /\ p.inThink = q.inThink /\ p.partial = q.partial
      BY <3>1
    <3> QED BY <3>2, <3>3
  <2> QED BY <2>1, <2>2
<1>5. /\ c.finish = "none" =>
           /\ t.ended = s.ended
           /\ t.inThink = p.inThink /\ t.partial = p.partial
           /\ t.told = s.told \o p.text /\ t.text # Closed
      /\ c.finish # "none" =>
           /\ t.ended = TRUE /\ t.partial = <<>>
           /\ t.told = (s.told \o p.text) \o IF p.inThink THEN <<>> ELSE p.partial
  <2>1. TurnsTo(s, c, t)
    BY TurnIs
  <2> HIDE DEF t
  <2> QED BY <1>1, <2>1 DEF TurnsTo
<1> HIDE DEF p, t, g
<1>6. CASE c.finish = "none"
  BY <1>4, <1>5, <1>6 DEF Accounted, t, g
<1>7. CASE c.finish # "none"
  <2> DEFINE w == s.told \o p.text
             i == p.inThink
             r == p.partial
  <2>1. w \in Seq(Letters)
    BY <1>0, <1>3, ConcatIs
  <2>2. /\ i \in BOOLEAN /\ r \in Seq(Letters) /\ Len(r) < Len(Tag(i))
        /\ Explained(w, i, r, g)
    BY <1>3, <1>4 DEF Explained
  <2>3. t.ended = TRUE /\ t.partial = <<>> /\ t.told = w \o KeptText(i, r)
    BY <1>5, <1>7 DEF KeptText
  <2> HIDE DEF w, i, r
  <2>4. Meaning[g][FALSE].text = w \o KeptText(i, r)
    <3>1. w \in Seq(Letters) /\ i \in BOOLEAN /\ r \in Seq(Letters) /\ Len(r) < Len(Tag(i)) /\ Explained(w, i, r, g)
      BY <2>1, <2>2
    <3> QED BY <3>1, ExplainsAll, ZenonT(60)
  <2>5. t.told = Meaning[g][FALSE].text
    BY <2>3, <2>4
  <2> QED BY <2>3, <2>5 DEF Accounted, t, g
<1> QED BY <1>6, <1>7

-------------------------------------------------------------------------------
(* Steps.                                                                      *)

\* Every step keeps each part of the invariant.
LEMMA TypeStep ==
  ASSUME TypeOK, [Next]_vars
  PROVE  TypeOK'
<1>0. /\ st \in States /\ result \in {"running", "nil", "error", "panic"} /\ fed \in Seq(Letters)
      /\ rude \in BOOLEAN /\ chunks \in Nat
  BY DEF TypeOK, States
<1> DEFINE Typed == /\ st' \in States /\ result' \in {"running", "nil", "error", "panic"}
                    /\ fed' \in Seq(Letters) /\ rude' \in BOOLEAN /\ chunks' \in Nat
<1>1. Typed
  <2>1. ASSUME NEW x \in Chunks, Chunk(x) PROVE Typed
    <3> DEFINE c == Handled(x)
    <3>1. c \in PlacedChunks
      BY HandledIs
    <3>2. Quiet(st) \in States
      BY <1>0, QuietFields
    <3>3. Turn(Quiet(st), c) \in States
      BY <3>1, <3>2, TurnIs DEF TurnsTo
    <3>4. st' \in States
      BY <2>1, <3>3 DEF Chunk
    <3>5. fed' \in Seq(Letters)
      <4>1. c.content \in Seq(Letters)
        BY <3>1 DEF PlacedChunks
      <4>2. fed \o c.content \in Seq(Letters)
        BY <1>0, <4>1, ConcatIs
      <4> QED BY <1>0, <2>1, <4>2 DEF Chunk
    <3>6. rude' \in BOOLEAN
      <4>1. rude' = (rude \/ (st.ended /\ HasDelta(x)))
        BY <2>1 DEF Chunk
      <4>2. (rude \/ (st.ended /\ HasDelta(x))) \in BOOLEAN
        BY Zenon
      <4> QED BY <4>1, <4>2, Zenon
    <3>7. result' \in {"running", "panic"} /\ chunks' = chunks + 1
      BY <2>1 DEF Chunk
    <3> QED BY <1>0, <3>4, <3>5, <3>6, <3>7
  <2>2. CASE Done
    <3>1. Emit(Quiet(st), Plain("message_stop")) \in States
      BY <1>0, StopIs
    <3>2. rude' \in BOOLEAN
      <4>1. rude' = (rude \/ ~st.ended)
        BY <2>2 DEF Done
      <4>2. (rude \/ ~st.ended) \in BOOLEAN
        BY Zenon
      <4> QED BY <4>1, <4>2, Zenon
    <3> QED BY <1>0, <2>2, <3>1, <3>2 DEF Done
  <2>3. CASE CloseWithoutDone
    <3>1. Emit(Quiet(st), Plain("message_stop")) \in States /\ Quiet(st) \in States
      BY <1>0, StopIs, QuietFields
    <3> QED BY <1>0, <2>3, <3>1 DEF CloseWithoutDone
  <2>4. CASE Break
    <3>1. Quiet(st) \in States
      BY <1>0, QuietFields
    <3> QED BY <1>0, <2>4, <3>1 DEF Break
  <2>5. CASE UNCHANGED vars
    BY <1>0, <2>5 DEF vars
  <2> HIDE DEF Typed
  <2> QED BY <2>1, <2>2, <2>3, <2>4, <2>5 DEF Next
<1> QED BY <1>1 DEF TypeOK, States

LEMMA EndStep ==
  ASSUME TypeOK, EndInv, [Next]_vars
  PROVE  EndInv'
<1>0. st \in States
  BY DEF TypeOK, States
<1> DEFINE q == Quiet(st)
           e == Emit(q, Plain("message_stop"))
<1>1. /\ q \in States /\ q.client = st.client /\ q.started = st.started /\ q.ended = st.ended
      /\ Unstarted(st) => Unstarted(q)
  BY <1>0, QuietFields
<1>2. /\ e.started = st.started /\ e.ended = st.ended
      /\ e.client.stops = st.client.stops + 1 /\ e.client.endings = st.client.endings
  BY <1>0, StopIs
<1> HIDE DEF q, e
<1>3. ASSUME NEW x \in Chunks, Chunk(x) PROVE EndInv'
  <2> DEFINE c == Handled(x)
             t == Turn(q, c)
  <2>1. c \in PlacedChunks
    BY HandledIs
  <2>2. st' = t /\ result = "running" /\ result' # "nil"
    BY <1>3 DEF Chunk, q
  <2> HIDE DEF c
  <2>0. TurnsTo(q, c, t)
    BY <1>1, <2>1, TurnIs
  <2> HIDE DEF t
  <2>3. /\ t.started /\ t.client.stops = q.client.stops
        /\ c.finish = "none" => t.ended = q.ended /\ t.client.endings = q.client.endings
        /\ c.finish # "none" =>
             /\ t.ended = TRUE
             /\ q.ended => t.client.endings = q.client.endings
             /\ ~q.ended => t.client.endings = q.client.endings + 1
    BY <2>0 DEF TurnsTo
  <2> QED BY <1>1, <2>2, <2>3 DEF EndInv
<1>4. CASE Done
  <2>1. st' = e /\ result = "running" /\ result' = "nil"
    BY <1>4 DEF Done, e, q
  <2> QED BY <1>2, <2>1 DEF EndInv
<1>5. CASE CloseWithoutDone
  <2>1. /\ st' = IF st.ended THEN e ELSE q
        /\ result = "running" /\ result' = IF st.started /\ ~st.ended THEN "error" ELSE "nil"
    BY <1>5 DEF CloseWithoutDone, e, q
  <2>2. CASE st.ended
    <3>1. st' = e /\ result' = "nil" /\ st.client.stops = 0 /\ st.started
          /\ st.client.endings = IF st.ended THEN 1 ELSE 0
      BY <2>1, <2>2 DEF EndInv
    <3>2. e.started /\ e.ended /\ e.client.stops = 1 /\ e.client.endings = 1
      BY <1>2, <2>2, <3>1
    <3> QED BY <3>1, <3>2 DEF EndInv
  <2>3. CASE ~st.ended
    BY <1>1, <2>1, <2>3 DEF EndInv, Unstarted
  <2> QED BY <2>2, <2>3
<1>6. CASE Break
  <2>1. st' = q /\ result = "running" /\ result' = "error"
    BY <1>6 DEF Break, q
  <2> QED BY <1>1, <2>1 DEF EndInv
<1>7. CASE UNCHANGED vars
  BY <1>7 DEF vars, EndInv, Unstarted
<1> QED BY <1>3, <1>4, <1>5, <1>6, <1>7 DEF Next

LEMMA FormStep ==
  ASSUME TypeOK, EndInv, FormInv, [Next]_vars
  PROVE  FormInv'
<1>0. st \in States
  BY DEF TypeOK, States
<1> DEFINE q == Quiet(st)
           e == Emit(q, Plain("message_stop"))
<1>1. /\ q \in States /\ q.client = st.client /\ q.started = st.started /\ q.ended = st.ended
      /\ Begun(st) => Begun(q)
  BY <1>0, QuietFields
<1>2. Over(st) => e.client.illegal = {}
  BY <1>0, StopIs
<1> HIDE DEF q, e
<1>3. ASSUME NEW x \in Chunks, Chunk(x) PROVE FormInv'
  <2> DEFINE c == Handled(x)
             t == Turn(q, c)
  <2>1. c \in PlacedChunks /\ (HasDelta(c) => HasDelta(x))
    BY HandledIs
  <2>2. st' = t /\ result = "running" /\ (~rude' => ~rude /\ ~(st.ended /\ HasDelta(c)))
    BY <1>3, <2>1 DEF Chunk, q
  <2> HIDE DEF c
  <2>0. TurnsTo(q, c, t)
    BY <1>1, <2>1, TurnIs
  <2> HIDE DEF t
  <2>3. /\ t.started
        /\ c.finish = "none" => t.ended = q.ended /\ (Begun(q) => Sound(t))
        /\ c.finish # "none" => t.ended = TRUE /\ (~q.ended /\ Begun(q) => Over(t))
        /\ q.started /\ q.ended /\ ~HasDelta(c) => t = q
    BY <2>0 DEF TurnsTo
  <2> SUFFICES ASSUME ~rude' PROVE t.client.illegal = {} /\ (IF t.ended THEN Over(t) ELSE Begun(t))
    BY <2>2 DEF FormInv, Over, Begun
  <2>4. CASE st.ended
    <3>1. t = q /\ Over(st)
      BY <1>1, <2>2, <2>3, <2>4 DEF EndInv, FormInv
    <3> QED BY <1>1, <2>4, <3>1 DEF Over
  <2>5. CASE ~st.ended
    <3>1. Begun(q) /\ ~q.ended
      BY <1>1, <2>2, <2>5 DEF FormInv
    <3>2. CASE c.finish = "none"
      <4>1. Sound(t) /\ ~t.ended
        BY <2>3, <3>1, <3>2
      <4> QED BY <2>3, <4>1 DEF Begun, Sound
    <3>3. CASE c.finish # "none"
      <4>1. Over(t) /\ t.ended
        BY <2>3, <3>1, <3>3
      <4> QED BY <4>1 DEF Over
    <3> QED BY <3>2, <3>3
  <2> QED BY <2>4, <2>5
<1>4. CASE Done
  <2>1. st' = e /\ result = "running" /\ result' = "nil" /\ (~rude' => ~rude /\ st.ended)
    BY <1>4 DEF Done, e, q
  <2> QED BY <1>2, <2>1 DEF FormInv
<1>5. CASE CloseWithoutDone
  <2>1. /\ st' = IF st.ended THEN e ELSE q
        /\ result = "running" /\ result' # "running" /\ rude' = rude
    BY <1>5 DEF CloseWithoutDone, e, q
  <2> QED BY <1>1, <1>2, <2>1 DEF FormInv
<1>6. CASE Break
  <2>1. st' = q /\ result' # "running" /\ rude' = rude
    BY <1>6 DEF Break, q
  <2> QED BY <1>1, <2>1 DEF FormInv
<1>7. CASE UNCHANGED vars
  BY <1>7 DEF vars, FormInv, Over, Begun, Sound, Unstarted, OpenBlocks, Numbered
<1> QED BY <1>3, <1>4, <1>5, <1>6, <1>7 DEF Next

LEMMA TextStep ==
  ASSUME TypeOK, EndInv, TextInv, [Next]_vars
  PROVE  TextInv'
<1>0. st \in States /\ fed \in Seq(Letters)
  BY DEF TypeOK, States
<1> DEFINE q == Quiet(st)
           e == Emit(q, Plain("message_stop"))
<1>1. /\ q \in States /\ q.told = st.told /\ q.text = st.text /\ q.ended = st.ended
      /\ q.started = st.started /\ q.inThink = st.inThink /\ q.partial = st.partial
  BY <1>0, QuietFields
<1>2. /\ e.told = st.told /\ e.text = st.text /\ e.ended = st.ended
      /\ e.inThink = st.inThink /\ e.partial = st.partial
  BY <1>0, StopIs
<1> HIDE DEF q, e
<1>3. Accounted(st, fed) => Accounted(q, fed) /\ Accounted(e, fed)
  BY <1>1, <1>2, AccountedSame
<1>4. ASSUME NEW x \in Chunks, Chunk(x) PROVE TextInv'
  <2> DEFINE c == Handled(x)
             t == Turn(q, c)
  <2>1. c \in PlacedChunks /\ (HasDelta(c) => HasDelta(x))
    BY HandledIs
  <2>2. st' = t /\ result = "running" /\ (~rude' => ~rude /\ ~(st.ended /\ HasDelta(c)))
        /\ fed' = IF st.ended THEN fed ELSE fed \o c.content
    BY <1>4, <2>1 DEF Chunk, q
  <2> HIDE DEF c
  <2>0. TurnsTo(q, c, t)
    BY <1>1, <2>1, TurnIs
  <2>4. ~q.ended /\ Accounted(q, fed) => Accounted(t, fed \o c.content)
    BY <1>0, <1>1, <2>1, AccountedTurn
  <2> HIDE DEF t
  <2>3. q.started /\ q.ended /\ ~HasDelta(c) => t = q
    BY <2>0 DEF TurnsTo
  <2> SUFFICES ASSUME ~rude' PROVE Accounted(t, fed')
    BY <2>2 DEF TextInv
  <2>5. Accounted(q, fed)
    BY <1>3, <2>2 DEF TextInv
  <2>6. CASE st.ended
    BY <1>1, <2>2, <2>3, <2>5, <2>6 DEF EndInv
  <2>7. CASE ~st.ended
    BY <1>1, <2>2, <2>4, <2>5, <2>7
  <2> QED BY <2>6, <2>7
<1>5. CASE Done
  <2>1. st' = e /\ (~rude' => ~rude) /\ fed' = fed
    BY <1>5 DEF Done, e, q
  <2> QED BY <1>3, <2>1 DEF TextInv
<1>6. CASE CloseWithoutDone
  <2>1. (st' = e \/ st' = q) /\ rude' = rude /\ fed' = fed
    BY <1>6 DEF CloseWithoutDone, e, q
  <2> QED BY <1>3, <2>1 DEF TextInv
<1>7. CASE Break
  <2>1. st' = q /\ rude' = rude /\ fed' = fed
    BY <1>7 DEF Break, q
  <2> QED BY <1>3, <2>1 DEF TextInv
<1>8. CASE UNCHANGED vars
  BY <1>8 DEF vars, TextInv, Accounted
<1> QED BY <1>4, <1>5, <1>6, <1>7, <1>8 DEF Next

-------------------------------------------------------------------------------
(* The theorems.                                                               *)

\* The invariant that is inductive.
StreamInv == TypeOK /\ EndInv /\ FormInv /\ TextInv

LEMMA StreamInvInit == Init => StreamInv
<1> SUFFICES ASSUME Init PROVE StreamInv
  OBVIOUS
<1>1. /\ st = [started |-> FALSE, ended |-> FALSE, next |-> 0,
               thinking |-> NotOpened, text |-> NotOpened, slots |-> <<>>,
               inThink |-> FALSE, partial |-> <<>>, told |-> <<>>, wrote |-> <<>>,
               client |-> Fresh]
      /\ result = "running" /\ fed = <<>> /\ rude = FALSE /\ chunks = 0
  BY DEF Init
<1>2. <<>> \in Seq(Letters) /\ <<>> \in Seq(Events(Letters)) /\ <<>> \in Seq(Nat \cup {NotOpened})
  OBVIOUS
<1>3. Fresh \in ClientType
  BY DEF Fresh, ClientType, Phases
<1>4. st \in States
  BY <1>1, <1>2, <1>3 DEF States, BlockState
<1>5. TypeOK
  BY <1>1, <1>2, <1>4 DEF TypeOK, States
<1>6. /\ st.client = Fresh /\ ~st.started /\ ~st.ended /\ st.next = 0 /\ st.thinking = NotOpened
      /\ st.text = NotOpened /\ st.slots = <<>> /\ st.told = <<>> /\ st.partial = <<>>
      /\ st.inThink = FALSE
  BY <1>1
<1>7. EndInv /\ FormInv
  BY <1>1, <1>6 DEF EndInv, FormInv, Begun, Unstarted, Fresh
<1>8. TextInv
  <2>1. Explains(<<>>, FALSE, <<>>, <<>>, <<>>)
    <3>1. ASSUME NEW y \in Seq(Letters)
          PROVE  Meaning[<<>> \o y][FALSE].text = <<>> \o Meaning[y][FALSE].text
      <4>1. FALSE \in BOOLEAN
        OBVIOUS
      <4>2. Meaning[y][FALSE].text \in Seq(Letters)
        BY <4>1, PartText
      <4>3. <<>> \o y = y
        OBVIOUS
      <4> DEFINE m == Meaning[y][FALSE].text
      <4>4. <<>> \o m = m
        <5> HIDE DEF m
        <5> QED BY <4>2 DEF m
      <4> QED BY <4>3, <4>4
    <3>2. <<>> = <<>> \o <<>>
      OBVIOUS
    <3> QED BY <3>1, <3>2 DEF Explains
  <2>2. Len(<<>>) < Len(Tag(FALSE))
    <3>1. Len(<<>>) = 0 /\ Len(OpenTag) \in Nat /\ Len(OpenTag) # 0
      BY TagAssumption
    <3> QED BY <3>1 DEF Tag
  <2>3. st.text # Closed
    BY <1>6 DEF NotOpened, Closed
  <2>4. \E d \in Seq(Letters) : Explains(st.told, st.inThink, st.partial, fed, d)
    <3>1. Explains(st.told, st.inThink, st.partial, fed, <<>>)
      BY <1>1, <1>6, <2>1
    <3> QED BY <1>2, <3>1
  <2>5. Len(st.partial) < Len(Tag(st.inThink)) /\ ~st.ended
    BY <1>6, <2>2
  <2> QED BY <2>3, <2>4, <2>5 DEF TextInv, Accounted
<1> QED BY <1>5, <1>7, <1>8 DEF StreamInv

LEMMA StreamInvStep == StreamInv /\ [Next]_vars => StreamInv'
BY TypeStep, EndStep, FormStep, TextStep DEF StreamInv

\* Every step of both providers is one of this one, or leaves it alone.
LEMMA StreamMoves == [Stream /\ UNCHANGED style]_streamVars => [Next]_vars
<1>1. CASE UNCHANGED streamVars
  BY <1>1 DEF streamVars, servedVars
<1>2. CASE style = "openai" /\ ServedNext
  <2>1. ASSUME NEW c \in Chunks, ServeChunk(c) PROVE Next
    BY <2>1 DEF ServeChunk, Next
  <2>2. CASE ServeEnd
    BY <2>2 DEF ServeEnd, Next
  <2> QED BY <1>2, <2>1, <2>2 DEF ServedNext
<1>3. CASE UNCHANGED servedVars
  BY <1>3 DEF servedVars
<1> QED BY <1>1, <1>2, <1>3 DEF Stream

(***************************************************************************)
(* The invariant that the others follow from: what stream takes to be open *)
(* is what the client has open, under numbers that differ, until the end;  *)
(* what the filter keeps is the beginning of a tag at most; all that came  *)
(* before is told as the whole text means it.  openai.go:523-770.          *)
(***************************************************************************)
THEOREM StreamInvariant == StreamsSpec => []StreamInv
<1>1. StreamsInit => StreamInv
  BY StreamInvInit DEF StreamsInit, ServedInit
<1>2. StreamInv /\ [Stream /\ UNCHANGED style]_streamVars => StreamInv'
  BY StreamInvStep, StreamMoves
<1> QED BY <1>1, <1>2, PTL DEF StreamsSpec

(***************************************************************************)
(* Every variable of OpenAIProvider.stream has its type, whatever the      *)
(* upstream sends.  openai.go:523-770.                                     *)
(***************************************************************************)
THEOREM StreamTypeCorrect == StreamsSpec => []TypeOK
<1>1. StreamInv => TypeOK
  BY DEF StreamInv
<1> QED BY <1>1, StreamInvariant, PTL

(***************************************************************************)
(* Whatever mix and order of reasoning, text, tags and tool calls the      *)
(* chunks have, and however many, the client can follow the translation:   *)
(* blocks in order, deltas in open blocks, all closed before the end.      *)
(* openai.go:523-770.                                                      *)
(***************************************************************************)
THEOREM StreamWellFormed == StreamsSpec => []WellFormed
<1>1. StreamInv => WellFormed
  BY DEF StreamInv, FormInv, WellFormed
<1> QED BY <1>1, StreamInvariant, PTL

(***************************************************************************)
(* The client hears one end of the message, however often an upstream sends *)
(* a finish_reason or [DONE].  openai.go:526, 700-724, 752-770.            *)
(***************************************************************************)
THEOREM StreamOneEnding == StreamsSpec => []OneEnding
<1>1. StreamInv => OneEnding
  BY DEF StreamInv, EndInv, OneEnding, Fresh
<1> QED BY <1>1, StreamInvariant, PTL

(***************************************************************************)
(* Stream returns no error exactly if it wrote message_stop, or nothing at *)
(* all.  openai.go:752-770.                                                *)
(***************************************************************************)
THEOREM StreamResultFits == StreamsSpec => []ResultFitsStream
<1>1. StreamInv => ResultFitsStream
  BY DEF StreamInv, EndInv, ResultFitsStream
<1> QED BY <1>1, StreamInvariant, PTL

(***************************************************************************)
(* However the upstream cuts the text into chunks, and whatever the two    *)
(* tags are: no letter is lost, doubled or taken for thinking, and what is *)
(* held back comes out at the finish.  openai.go:384-435, 700-724.         *)
(***************************************************************************)
THEOREM StreamTextIntact == StreamsSpec => []TextIntact
<1>1. ASSUME StreamInv PROVE TextIntact
  <2> SUFFICES ASSUME ~rude
               PROVE  st.told = Meaning[SubSeq(fed, 1, Len(fed) - Len(st.partial))][FALSE].text
    BY DEF TextIntact
  <2>1. st \in States /\ fed \in Seq(Letters)
    BY <1>1 DEF StreamInv, TypeOK, States
  <2>2. Accounted(st, fed)
    BY <1>1 DEF StreamInv, TextInv
  <2>3. CASE st.ended
    <3>1. SubSeq(fed, 1, Len(fed) - Len(<<>>)) = fed
      BY <2>1
    <3> QED BY <2>2, <2>3, <3>1 DEF Accounted
  <2>4. CASE ~st.ended
    <3>1. PICK d \in Seq(Letters) : Explains(st.told, st.inThink, st.partial, fed, d)
      BY <2>2, <2>4 DEF Accounted
    <3>2. st.told \in Seq(Letters) /\ st.inThink \in BOOLEAN /\ st.partial \in Seq(Letters)
      BY <2>1, StateFields
    <3>3. ToldBut(st.told, st.partial, fed)
      BY <3>1, <3>2, ExplainsSoFar
    <3> QED BY <3>3 DEF ToldBut
  <2> QED BY <2>3, <2>4
<1> QED BY <1>1, StreamInvariant, PTL

-------------------------------------------------------------------------------
(* What the upstream has sent, and what the three clients have of it.          *)

(* The upstream.                                                               *)

SentParts == Seq(Words \cup Nat)

SentBlock == [kind: Kinds \cup {Opaque}, call: Nat, parts: SentParts, opaque: Nat]

UpstreamBlocks == Seq(SentBlock)

UpstreamEvents ==
  [type: EventTypes \cup {"error"}, index: Nat, kind: Kinds \cup {"none", Opaque}, text: Seq(Words),
   call: Nat, stop_reason: StopReasons \cup {"none"}]

Upstreams ==
  [client: [phase: Phases, open: SUBSET Nat, next: Nat, illegal: {{}}, endings: {0, 1}, stops: {0, 1}],
   text: Seq(Words), blocks: UpstreamBlocks, errors: {0, 1}, sent: Nat,
   line: {"event", "data", "empty"}, ev: UpstreamEvents]

\* The events of NextEvents, by the upstream's state.
Sendable(u, ev) ==
  \/ ev = ErrorEvent
  \/ /\ Legal(u.client, ev)
     /\ \/ ev = Plain("message_start")
        \/ ev = MessageDelta("end_turn")
        \/ ev = MessageDelta("tool_use")
        \/ ev = Plain("message_stop")
        \/ \E kind \in {"text", "thinking", Opaque} :
             ev = Block("content_block_start", u.client.next, kind)
        \/ ev = ToolUse("content_block_start", u.client.next, u.client.next)
        \/ \E b \in u.client.open : ev = Block("content_block_stop", b, "none")
        \/ \E b \in u.client.open, w \in Words :
             /\ u.blocks[b + 1].kind \in {"text", "thinking"}
             /\ ev = WordDelta(u.blocks[b + 1].kind, b, <<w>>)
        \/ \E b \in u.client.open :
             /\ u.blocks[b + 1].kind \in {"text", "thinking"}
             /\ ev = Block("content_block_delta", b, Opaque)
        \/ \E b \in u.client.open :
             /\ u.blocks[b + 1].kind \notin {"text", "thinking"}
             /\ ev = ToolUse("content_block_delta", b, b)

\* What it has sent is the beginning of a message.
UpstreamInv(u) ==
  /\ u \in Upstreams
  /\ u.client.next = Len(u.blocks)
  /\ \A b \in u.client.open : b < u.client.next
  /\ u.client.phase = "none" => u.client.next = 0
  /\ u.client.endings = IF u.client.phase \in {"ending", "stopped"} THEN 1 ELSE 0
  /\ u.client.stops = IF u.client.phase = "stopped" THEN 1 ELSE 0

\* The lines that have been read of the event that is on its way.
LinesRead(u) ==
  CASE u.line = "event" -> NoLines
    [] u.line = "data"  -> [event |-> u.ev.type, data |-> <<>>]
    [] u.line = "empty" -> [event |-> u.ev.type, data |-> <<u.ev>>]

OnTheWay(u) == u.line # "event" => u.errors = 0 /\ Sendable(u, u.ev)

(* The converter and its client.                                               *)

ToolBlocks(u)  == {b \in DOMAIN u.blocks : u.blocks[b].kind = "tool_use"}
ToolIndexes(u) == {i \in 0..Len(u.blocks) - 1 : u.blocks[i + 1].kind = "tool_use"}

ConvClients ==
  [roles: {0, 1}, text: Seq(Words), reasoning: BOOLEAN, calls: Seq([id: Nat, args: Seq(Nat)]),
   finish: {"none", "stop", "length", "tool_calls"}, done: BOOLEAN, jumbled: {FALSE}]

ConvStates(D) == [emittedRole: BOOLEAN, toolIdx: [D -> Nat], client: ConvClients]

\* There was some thinking.
Thought(u) == \E b \in DOMAIN u.blocks : u.blocks[b].kind = "thinking" /\ u.blocks[b].parts # <<>>

\* The place of a block among the tool calls.
Place(u, b) == Cardinality({k \in ToolBlocks(u) : k <= b})

\* Every tool_use block is the call at its place.
PiecesFit(u, idx, calls) ==
  /\ \A b \in ToolBlocks(u) : idx[b - 1] + 1 = Place(u, b)
  /\ \A b \in ToolBlocks(u) :
       calls[idx[b - 1] + 1] = [id |-> u.blocks[b].call, args |-> u.blocks[b].parts]
  /\ \A a, b \in ToolBlocks(u) : idx[a - 1] = idx[b - 1] => a = b

ConvFits(u, c) ==
  /\ c.emittedRole = (u.client.phase # "none")
  /\ c.client.roles = IF u.client.phase = "none" THEN 0 ELSE 1
  /\ c.client.text = u.text
  /\ c.client.reasoning = Thought(u)
  /\ PiecesFit(u, c.toolIdx, c.client.calls)
  /\ Len(c.client.calls) = Cardinality(ToolBlocks(u))
  /\ Len(c.client.calls) = Cardinality(ToolIndexes(u))
  /\ \A b \in ToolIndexes(u) : c.toolIdx[b] < Len(c.client.calls)
  /\ (c.client.finish # "none") = (u.client.endings = 1)
  /\ c.client.done = (u.client.phase = "stopped")

Converted(u, c) == c \in ConvStates(ToolIndexes(u)) /\ ConvFits(u, c)

(* The message that is put together.                                           *)

GatheredBlocks ==
  [kind: Kinds \cup {Opaque}, text: Seq(Words), thinking: Seq(Words), call: Nat, args: Seq(Nat)]

\* A block is gathered of one that was sent: what is asked for in the end.
BlockFits(b, g) ==
  /\ g.kind = b.kind /\ g.call = b.call
  /\ b.kind = "text" => g.text = b.parts
  /\ b.kind = "thinking" => g.thinking = b.parts
  /\ b.kind = "tool_use" => g.args = b.parts

MessageStates(n) ==
  [started: BOOLEAN, blocks: [0..n - 1 -> GatheredBlocks], order: Seq(Nat),
   stop_reason: {"none", "end_turn", "tool_use"}]

MessageFits(u, m) ==
  /\ m.order = [b \in 1..Len(u.blocks) |-> b - 1]
  /\ \A i \in 0..Len(u.blocks) - 1 : BlockFits(u.blocks[i + 1], m.blocks[i])
  /\ (m.stop_reason # "none") = (u.client.endings = 1)

Gathered(u, m) == m \in MessageStates(Len(u.blocks)) /\ MessageFits(u, m)

(* The copy.                                                                   *)

CopyInv ==
  /\ UpstreamInv(up) /\ OnTheWay(up)
  /\ copy = LinesRead(up)
  /\ sse = [lines |-> NoLines, client |-> up.client, blocks |-> up.blocks,
            errors |-> IF outcome = "told" THEN up.errors + 1 ELSE up.errors]
  /\ buffer = NoLines
  /\ Converted(up, converted)
  /\ Gathered(up, gathered)

-------------------------------------------------------------------------------
(* The events of the upstream.                                                 *)

\* The names that events are made of.
LEMMA EventNames ==
  /\ \A type \in {"message_start", "content_block_start", "content_block_delta",
                  "content_block_stop", "message_delta", "message_stop", "error"} :
       type \in EventTypes \cup {"error"}
  /\ \A kind \in {"text", "thinking", "tool_use", "none", Opaque} : kind \in Kinds \cup {"none", Opaque}
  /\ \A reason \in {"end_turn", "tool_use", "none"} : reason \in StopReasons \cup {"none"}
  /\ <<>> \in Seq(Words) /\ 0 \in Nat
BY DEF EventTypes, Kinds, StopReasons

\* The events that the upstream sends, field by field, and that each is one.
LEMMA MessageDeltaIs ==
  ASSUME NEW reason
  PROVE  MessageDelta(reason) = [type |-> "message_delta", index |-> 0, kind |-> "none",
                                 text |-> <<>>, call |-> 0, stop_reason |-> reason]
<1>1. MessageDelta(reason) = [[type |-> "message_delta", index |-> 0, kind |-> "none", text |-> <<>>,
                               call |-> 0, stop_reason |-> "none"] EXCEPT !.stop_reason = reason]
  BY DEF Plain, MessageDelta
<1> QED BY <1>1, ReasonEdit

LEMMA WordDeltaIs ==
  ASSUME NEW kind, NEW n, NEW text
  PROVE  WordDelta(kind, n, text) = [type |-> "content_block_delta", index |-> n, kind |-> kind,
                                     text |-> text, call |-> 0, stop_reason |-> "none"]
<1>1. WordDelta(kind, n, text) = [[type |-> "content_block_delta", index |-> n, kind |-> kind, text |-> <<>>,
                                   call |-> 0, stop_reason |-> "none"] EXCEPT !.text = text]
  BY BlockIs DEF WordDelta
<1> QED BY <1>1, TextEdit

LEMMA ToolUseIs ==
  ASSUME NEW type, NEW n, NEW call
  PROVE  ToolUse(type, n, call) = [type |-> type, index |-> n, kind |-> "tool_use",
                                   text |-> <<>>, call |-> call, stop_reason |-> "none"]
<1>1. ToolUse(type, n, call) = [[type |-> type, index |-> n, kind |-> "tool_use", text |-> <<>>,
                                 call |-> 0, stop_reason |-> "none"] EXCEPT !.call = call]
  BY BlockIs DEF ToolUse
<1> QED BY <1>1, CallEdit

LEMMA PlainMade ==
  ASSUME NEW type \in EventTypes \cup {"error"}
  PROVE  LET ev == Plain(type) IN ev \in UpstreamEvents /\ ev.type = type /\ ev.text = <<>>
<1>1. Plain(type) = [type |-> type, index |-> 0, kind |-> "none", text |-> <<>>, call |-> 0,
                     stop_reason |-> "none"]
  BY DEF Plain
<1> QED BY <1>1, EventNames DEF UpstreamEvents

LEMMA EndingMade ==
  ASSUME NEW reason \in {"end_turn", "tool_use"}
  PROVE  LET ev == MessageDelta(reason) IN
         /\ ev \in UpstreamEvents /\ ev.type = "message_delta" /\ ev.text = <<>>
         /\ ev.stop_reason = reason
<1>1. "message_delta" \in EventTypes \cup {"error"} /\ reason \in StopReasons \cup {"none"}
      /\ "none" \in Kinds \cup {"none", Opaque}
  BY EventNames
<1> QED BY <1>1, MessageDeltaIs, EventNames DEF UpstreamEvents

LEMMA BlockMade ==
  ASSUME NEW type \in EventTypes \cup {"error"}, NEW n \in Nat, NEW kind \in Kinds \cup {"none", Opaque}
  PROVE  LET ev == Block(type, n, kind) IN
         /\ ev \in UpstreamEvents /\ ev.type = type /\ ev.index = n /\ ev.kind = kind
         /\ ev.text = <<>>
<1>1. "none" \in StopReasons \cup {"none"} /\ <<>> \in Seq(Words) /\ 0 \in Nat
  BY EventNames
<1> QED BY <1>1, BlockIs DEF UpstreamEvents

LEMMA DeltaMade ==
  ASSUME NEW kind \in {"text", "thinking"}, NEW n \in Nat, NEW text \in Seq(Words)
  PROVE  LET ev == WordDelta(kind, n, text) IN
         /\ ev \in UpstreamEvents /\ ev.type = "content_block_delta" /\ ev.index = n
         /\ ev.kind = kind /\ ev.text = text
<1>1. "none" \in StopReasons \cup {"none"} /\ kind \in Kinds \cup {"none", Opaque}
      /\ "content_block_delta" \in EventTypes \cup {"error"} /\ 0 \in Nat
  BY EventNames
<1> QED BY <1>1, WordDeltaIs DEF UpstreamEvents

LEMMA ToolMade ==
  ASSUME NEW type \in EventTypes \cup {"error"}, NEW n \in Nat, NEW call \in Nat
  PROVE  LET ev == ToolUse(type, n, call) IN
         /\ ev \in UpstreamEvents /\ ev.type = type /\ ev.index = n /\ ev.kind = "tool_use"
         /\ ev.text = <<>> /\ ev.call = call
<1>1. "none" \in StopReasons \cup {"none"} /\ "tool_use" \in Kinds \cup {"none", Opaque}
      /\ <<>> \in Seq(Words)
  BY EventNames
<1> QED BY <1>1, ToolUseIs DEF UpstreamEvents

\* A delta suits a block.
Suits(b, ev) ==
  \/ b.kind \in {"text", "thinking"} /\ ev.kind = b.kind /\ ev.text # <<>>
  \/ b.kind \in {"text", "thinking"} /\ ev.kind = Opaque
  \/ b.kind \in {"tool_use", Opaque} /\ ev.kind = "tool_use"

\* What an event is like that the upstream may send: its fields, and that it is
\* in its place.
Starting(u, ev)  == ev.type = "message_start" /\ u.client.phase = "none" /\ ev.text = <<>>
Opening(u, ev)   == /\ ev.type = "content_block_start" /\ u.client.phase = "content"
                    /\ ev.index = u.client.next /\ ev.kind \in Kinds \cup {Opaque}
                    /\ ev.text = <<>>
Growing(u, ev)   == /\ ev.type = "content_block_delta" /\ u.client.phase = "content"
                    /\ ev.index \in u.client.open /\ Suits(u.blocks[ev.index + 1], ev)
Closing(u, ev)   == /\ ev.type = "content_block_stop" /\ u.client.phase = "content"
                    /\ ev.index \in u.client.open /\ ev.text = <<>>
Finishing(u, ev) == /\ ev.type = "message_delta" /\ u.client.phase = "content"
                    /\ u.client.open = {} /\ ev.stop_reason \in {"end_turn", "tool_use"}
                    /\ ev.text = <<>>
Stopping(u, ev)  == ev.type = "message_stop" /\ u.client.phase = "ending" /\ ev.text = <<>>

InPlace(u, ev) ==
  \/ Starting(u, ev) \/ Opening(u, ev) \/ Growing(u, ev) \/ Closing(u, ev)
  \/ Finishing(u, ev) \/ Stopping(u, ev)

\* The error event is an event, too.
LEMMA ErrorFields ==
  /\ ErrorEvent \in UpstreamEvents /\ ErrorEvent.type = "error" /\ ErrorEvent.text = <<>>
BY PlainMade, EventNames DEF ErrorEvent

\* An event that may be sent is the error event, or in its place.
LEMMA SendableIs ==
  ASSUME NEW u, NEW ev, UpstreamInv(u), Sendable(u, ev)
  PROVE  /\ ev \in UpstreamEvents
         /\ ev = ErrorEvent \/ (ev # ErrorEvent /\ Legal(u.client, ev) /\ InPlace(u, ev))
<1> DEFINE n == u.client.next
<1>t. /\ u.client \in [phase: Phases, open: SUBSET Nat, next: Nat, illegal: {{}}, endings: {0, 1},
                       stops: {0, 1}]
      /\ u.blocks \in Seq(SentBlock)
      /\ n = Len(u.blocks)
      /\ \A b \in u.client.open : b < n
  BY DEF UpstreamInv, Upstreams, UpstreamBlocks
<1>0. /\ u.blocks \in Seq(SentBlock)
      /\ n = Len(u.blocks) /\ n \in Nat
      /\ \A b \in u.client.open : b \in Nat /\ b < n
  <2>1. u.client.open \in SUBSET Nat /\ n \in Nat
    BY <1>t
  <2> HIDE DEF n
  <2> QED BY <1>t, <2>1
<1>e. /\ <<>> \in Seq(Words) /\ 0 \in Nat
      /\ \A w \in Words : <<w>> \in Seq(Words) /\ <<w>> # <<>>
  OBVIOUS
<1>k. ASSUME NEW b \in u.client.open
      PROVE  b \in Nat /\ b + 1 \in DOMAIN u.blocks /\ u.blocks[b + 1].kind \in Kinds \cup {Opaque}
  <2>1. b \in Nat /\ b + 1 \in 1..Len(u.blocks)
    BY <1>0
  <2>2. u.blocks[b + 1] \in SentBlock
    BY <2>1, <1>0, ElementOfSeq
  <2>3. u.blocks[b + 1].kind \in Kinds \cup {Opaque}
    BY <2>2 DEF SentBlock
  <2> QED BY <2>1, <2>3, <1>0
<1> HIDE DEF n
<1>1. CASE ev = ErrorEvent
  BY <1>1, ErrorFields
<1>2. CASE Legal(u.client, ev) /\ ev = Plain("message_start")
  <2>1. ev \in UpstreamEvents /\ ev.type = "message_start" /\ ev.text = <<>>
    BY <1>2, PlainMade, EventNames
  <2> QED BY <1>2, <2>1, ErrorFields DEF Legal, InPlace, Starting
<1>3. CASE Legal(u.client, ev) /\ \E r \in {"end_turn", "tool_use"} : ev = MessageDelta(r)
  <2> PICK r \in {"end_turn", "tool_use"} : ev = MessageDelta(r)
    BY <1>3
  <2>1. ev \in UpstreamEvents /\ ev.type = "message_delta" /\ ev.text = <<>> /\ ev.stop_reason = r
    BY EndingMade
  <2> QED BY <1>3, <2>1, ErrorFields DEF Legal, InPlace, Finishing
<1>4. CASE Legal(u.client, ev) /\ ev = Plain("message_stop")
  <2>1. ev \in UpstreamEvents /\ ev.type = "message_stop" /\ ev.text = <<>>
    BY <1>4, PlainMade, EventNames
  <2> QED BY <1>4, <2>1, ErrorFields DEF Legal, InPlace, Stopping
<1>5. CASE Legal(u.client, ev) /\ \/ \E kind \in {"text", "thinking", Opaque} :
                                       ev = Block("content_block_start", u.client.next, kind)
                                  \/ ev = ToolUse("content_block_start", u.client.next, u.client.next)
  <2> n \in Nat /\ n = u.client.next
    BY <1>0 DEF n
  <2>1. ASSUME NEW kind \in {"text", "thinking", Opaque}, ev = Block("content_block_start", n, kind)
        PROVE  ev \in UpstreamEvents /\ ev # ErrorEvent /\ InPlace(u, ev)
    <3>1. ev \in UpstreamEvents /\ ev.type = "content_block_start" /\ ev.text = <<>>
          /\ ev.kind = kind
      BY <2>1, BlockMade, EventNames
    <3>2. kind \in Kinds \cup {Opaque}
      BY DEF Kinds
    <3> QED BY <1>5, <3>1, <3>2, ErrorFields DEF Legal, InPlace, Opening
  <2>2. CASE ev = ToolUse("content_block_start", n, n)
    <3>1. ev \in UpstreamEvents /\ ev.type = "content_block_start" /\ ev.text = <<>>
          /\ ev.kind = "tool_use"
      BY <2>2, ToolMade, EventNames
    <3>2. "tool_use" \in Kinds \cup {Opaque}
      BY DEF Kinds
    <3> QED BY <1>5, <3>1, <3>2, ErrorFields DEF Legal, InPlace, Opening
  <2> QED BY <1>5, <2>1, <2>2
<1>6. CASE Legal(u.client, ev) /\ \E b \in u.client.open : ev = Block("content_block_stop", b, "none")
  <2> PICK b \in u.client.open : ev = Block("content_block_stop", b, "none")
    BY <1>6
  <2>1. ev \in UpstreamEvents /\ ev.type = "content_block_stop" /\ ev.text = <<>>
    BY <1>k, BlockMade, EventNames
  <2> QED BY <1>6, <2>1, ErrorFields DEF Legal, InPlace, Closing
<1>7. CASE Legal(u.client, ev) /\ \E b \in u.client.open, w \in Words :
             /\ u.blocks[b + 1].kind \in {"text", "thinking"}
             /\ ev = WordDelta(u.blocks[b + 1].kind, b, <<w>>)
  <2> PICK b \in u.client.open, w \in Words :
             /\ u.blocks[b + 1].kind \in {"text", "thinking"}
             /\ ev = WordDelta(u.blocks[b + 1].kind, b, <<w>>)
    BY <1>7
  <2> DEFINE kind == u.blocks[b + 1].kind
             x == <<w>>
  <2>0. b \in Nat /\ x \in Seq(Words) /\ x # <<>> /\ kind \in {"text", "thinking"}
        /\ ev = WordDelta(kind, b, x)
    BY <1>k, <1>e
  <2> HIDE DEF kind, x
  <2>1. ev \in UpstreamEvents /\ ev.type = "content_block_delta" /\ ev.kind = kind
        /\ ev.index = b /\ ev.text = x
    BY <2>0, DeltaMade
  <2>3. Legal(u.client, ev) /\ ev # ErrorEvent
    BY <1>7, <2>1, ErrorFields
  <2>4. Suits(u.blocks[ev.index + 1], ev)
    <3>1. u.blocks[ev.index + 1].kind = kind
      BY <2>1 DEF kind
    <3> QED BY <2>0, <2>1, <3>1 DEF Suits
  <2>5. Growing(u, ev)
    BY <2>1, <2>3, <2>4 DEF Legal, Growing
  <2> QED BY <2>1, <2>3, <2>5 DEF InPlace
<1>8. CASE Legal(u.client, ev) /\ \E b \in u.client.open :
             /\ u.blocks[b + 1].kind \in {"text", "thinking"}
             /\ ev = Block("content_block_delta", b, Opaque)
  <2> PICK b \in u.client.open :
             /\ u.blocks[b + 1].kind \in {"text", "thinking"}
             /\ ev = Block("content_block_delta", b, Opaque)
    BY <1>8
  <2>1. ev \in UpstreamEvents /\ ev.type = "content_block_delta" /\ ev.kind = Opaque
        /\ ev.index = b
    BY <1>k, BlockMade, EventNames
  <2> QED BY <1>8, <2>1, ErrorFields DEF Legal, InPlace, Growing, Suits
<1>9. CASE Legal(u.client, ev) /\ \E b \in u.client.open :
             /\ u.blocks[b + 1].kind \notin {"text", "thinking"}
             /\ ev = ToolUse("content_block_delta", b, b)
  <2> PICK b \in u.client.open :
             /\ u.blocks[b + 1].kind \notin {"text", "thinking"}
             /\ ev = ToolUse("content_block_delta", b, b)
    BY <1>9
  <2>1. ev \in UpstreamEvents /\ ev.type = "content_block_delta" /\ ev.kind = "tool_use"
        /\ ev.index = b
    BY <1>k, ToolMade, EventNames
  <2>2. u.blocks[b + 1].kind \in {"tool_use", Opaque}
    BY <1>k DEF Kinds
  <2> QED BY <1>9, <2>1, <2>2, ErrorFields DEF Legal, InPlace, Growing, Suits
<1> QED BY <1>1, <1>2, <1>3, <1>4, <1>5, <1>6, <1>7, <1>8, <1>9, Zenon DEF Sendable

\* NextEvents holds no other.
LEMMA NextEventsSendable ==
  ASSUME UpstreamInv(up), NEW ev \in NextEvents
  PROVE  Sendable(up, ev)
<1>1. up.client.open \in SUBSET Nat /\ up.client.next \in Nat
  BY DEF UpstreamInv, Upstreams
<1>2. ASSUME ev \in Starts(up.client.next), Legal(up.client, ev) PROVE Sendable(up, ev)
  BY <1>2 DEF Starts, Sendable
<1>3. ASSUME NEW b \in up.client.open, ev \in BlockEvents(b), Legal(up.client, ev)
      PROVE  Sendable(up, ev)
  BY <1>3 DEF BlockEvents, Deltas, Sendable
<1>4. CASE ev = ErrorEvent
  BY <1>4 DEF Sendable
<1>5. CASE ev # ErrorEvent
  <2>1. Legal(up.client, ev)
    BY <1>5 DEF NextEvents
  <2>2. \/ ev \in {Plain("message_start"), MessageDelta("end_turn"), MessageDelta("tool_use"),
                   Plain("message_stop")}
        \/ ev \in Starts(up.client.next)
        \/ \E b \in up.client.open : ev \in BlockEvents(b)
    BY <1>5, Zenon DEF NextEvents
  <2>3. CASE ev \in {Plain("message_start"), MessageDelta("end_turn"), MessageDelta("tool_use"),
                   Plain("message_stop")}
    BY <2>1, <2>3 DEF Sendable
  <2> QED BY <2>1, <2>2, <2>3, <1>2, <1>3
<1> QED BY <1>4, <1>5

-------------------------------------------------------------------------------
(* The upstream, one event later.                                              *)

\* Sent, as an operator.
After(u, ev) ==
  [u EXCEPT !.client = IF ev = ErrorEvent THEN @ ELSE See(@, ev),
            !.text = IF ev.kind = "text" THEN @ \o ev.text ELSE @,
            !.blocks = Added(@, ev),
            !.errors = IF ev = ErrorEvent THEN 1 ELSE 0,
            !.sent = @ + 1,
            !.line = "event"]

LEMMA AfterFields ==
  ASSUME NEW u \in Upstreams, NEW ev
  PROVE  LET t == After(u, ev) IN
         /\ t.client = IF ev = ErrorEvent THEN u.client ELSE See(u.client, ev)
         /\ t.text = IF ev.kind = "text" THEN u.text \o ev.text ELSE u.text
         /\ t.blocks = Added(u.blocks, ev)
         /\ t.errors = IF ev = ErrorEvent THEN 1 ELSE 0
         /\ t.sent = u.sent + 1 /\ t.line = "event" /\ t.ev = u.ev
BY DEF After, Upstreams

\* The client after an event that is in its place.
LEMMA SeeInPlace ==
  ASSUME NEW u, UpstreamInv(u), NEW ev \in UpstreamEvents, ev # ErrorEvent, Legal(u.client, ev), InPlace(u, ev)
  PROVE  LET d == See(u.client, ev)
             c == u.client
         IN  /\ d \in [phase: Phases, open: SUBSET Nat, next: Nat, illegal: {{}}, endings: {0, 1},
                       stops: {0, 1}]
             /\ Starting(u, ev) => /\ d.phase = "content" /\ d.open = c.open /\ d.next = c.next
                                   /\ d.endings = c.endings /\ d.stops = c.stops
             /\ Opening(u, ev) => /\ d.phase = c.phase /\ d.open = c.open \cup {ev.index}
                                  /\ d.next = c.next + 1
                                  /\ d.endings = c.endings /\ d.stops = c.stops
             /\ Growing(u, ev) => /\ d.phase = c.phase /\ d.open = c.open /\ d.next = c.next
                                  /\ d.endings = c.endings /\ d.stops = c.stops
             /\ Closing(u, ev) => /\ d.phase = c.phase /\ d.open = c.open \ {ev.index} /\ d.next = c.next
                                  /\ d.endings = c.endings /\ d.stops = c.stops
             /\ Finishing(u, ev) => /\ d.phase = "ending" /\ d.open = c.open /\ d.next = c.next
                                    /\ d.endings = c.endings + 1 /\ d.stops = c.stops
             /\ Stopping(u, ev) => /\ d.phase = "stopped" /\ d.open = c.open /\ d.next = c.next
                                   /\ d.endings = c.endings /\ d.stops = c.stops + 1
<1> DEFINE c == u.client
           d == See(c, ev)
<1>1. /\ c.phase \in Phases /\ c.open \in SUBSET Nat /\ c.next \in Nat /\ c.illegal = {}
      /\ c.endings \in {0, 1} /\ c.stops \in {0, 1}
      /\ c.endings = IF c.phase \in {"ending", "stopped"} THEN 1 ELSE 0
      /\ c.stops = IF c.phase = "stopped" THEN 1 ELSE 0
  BY DEF UpstreamInv, Upstreams
<1>2. ev.index \in Nat /\ Legal(c, ev)
  BY DEF UpstreamEvents
<1> HIDE DEF c
<1>3. d.illegal = {}
  BY <1>1, <1>2 DEF See
<1>4. CASE Starting(u, ev)
  BY <1>1, <1>2, <1>3, <1>4 DEF Starting, Opening, Growing, Closing, Finishing, Stopping, See, Phases, c
<1>5. CASE Opening(u, ev)
  BY <1>1, <1>2, <1>3, <1>5 DEF Starting, Opening, Growing, Closing, Finishing, Stopping, See, Phases, c
<1>6. CASE Growing(u, ev)
  BY <1>1, <1>2, <1>3, <1>6 DEF Starting, Opening, Growing, Closing, Finishing, Stopping, See, Phases, c
<1>7. CASE Closing(u, ev)
  BY <1>1, <1>2, <1>3, <1>7 DEF Starting, Opening, Growing, Closing, Finishing, Stopping, See, Phases, c
<1>8. CASE Finishing(u, ev)
  BY <1>1, <1>2, <1>3, <1>8 DEF Starting, Opening, Growing, Closing, Finishing, Stopping, See, Phases, c
<1>9. CASE Stopping(u, ev)
  BY <1>1, <1>2, <1>3, <1>9 DEF Starting, Opening, Growing, Closing, Finishing, Stopping, See, Phases, c
<1> QED BY <1>4, <1>5, <1>6, <1>7, <1>8, <1>9 DEF InPlace, c

\* What a delta adds to a block.
LEMMA PartsAre ==
  ASSUME NEW ev \in UpstreamEvents
  PROVE  /\ PartsOf(ev) \in SentParts
         /\ ev.kind \in {"text", "thinking"} => PartsOf(ev) = ev.text
         /\ ev.kind = "tool_use" => PartsOf(ev) = <<ev.call>>
         /\ ev.kind = Opaque => PartsOf(ev) = <<>>
<1>1. ev.text \in Seq(Words) /\ ev.call \in Nat
  BY DEF UpstreamEvents
<1>2. ev.text \in SentParts
  <2> DEFINE x == ev.text
             n == Len(x)
  <2>1. x \in Seq(Words) /\ n \in Nat /\ x \in [1..n -> Words]
    BY <1>1
  <2> HIDE DEF x, n
  <2>2. x \in [1..n -> Words \cup Nat]
    BY <2>1
  <2>3. x \in Seq(Words \cup Nat)
    BY <2>1, <2>2
  <2> QED BY <2>3 DEF SentParts, x
<1>3. <<ev.call>> \in SentParts /\ <<>> \in SentParts
  BY <1>1 DEF SentParts
<1> QED BY <1>2, <1>3 DEF PartsOf, Opaque

LEMMA AddPiecesIs ==
  ASSUME NEW r \in SentBlock, NEW ev \in UpstreamEvents
  PROVE  LET v == AddPieces(r, ev) IN
         /\ v \in SentBlock /\ v.kind = r.kind /\ v.call = r.call
         /\ v.parts = r.parts \o PartsOf(ev)
<1> DEFINE x == r.parts \o PartsOf(ev)
           y == IF ev.kind = Opaque THEN r.opaque + 1 ELSE r.opaque
           K == Kinds \cup {Opaque}
<1>1. r \in [kind: K, call: Nat, parts: SentParts, opaque: Nat]
  BY DEF SentBlock
<1>2. x \in SentParts
  <2>1. r.parts \in SentParts /\ PartsOf(ev) \in SentParts
    BY <1>1, PartsAre
  <2> QED BY <2>1 DEF SentParts
<1>3. y \in Nat
  BY <1>1
<1>4. AddPieces(r, ev) = [r EXCEPT !.parts = x, !.opaque = y]
  BY DEF AddPieces
<1> HIDE DEF x, y, K
<1>5. LET v == [r EXCEPT !.parts = x, !.opaque = y] IN
      /\ v \in [kind: K, call: Nat, parts: SentParts, opaque: Nat]
      /\ v.kind = r.kind /\ v.call = r.call /\ v.parts = x
  BY <1>1, <1>2, <1>3
<1> QED BY <1>4, <1>5 DEF SentBlock, x, K

\* Its blocks.
LEMMA AddedIs ==
  ASSUME NEW u, UpstreamInv(u), NEW ev \in UpstreamEvents, ev = ErrorEvent \/ InPlace(u, ev)
  PROVE  LET s == u.blocks
             t == Added(u.blocks, ev)
         IN  /\ t \in UpstreamBlocks
             /\ Opening(u, ev) =>
                  /\ Len(t) = Len(s) + 1
                  /\ \A i \in 1..Len(s) : t[i] = s[i]
                  /\ t[Len(s) + 1] = [kind |-> ev.kind, call |-> ev.call, parts |-> <<>>, opaque |-> 0]
             /\ Growing(u, ev) =>
                  /\ Len(t) = Len(s)
                  /\ ev.index + 1 \in 1..Len(s)
                  /\ s[ev.index + 1] \in SentBlock
                  /\ \A i \in 1..Len(s) : i # ev.index + 1 => t[i] = s[i]
                  /\ t[ev.index + 1] = AddPieces(s[ev.index + 1], ev)
             /\ ~Opening(u, ev) /\ ~Growing(u, ev) => t = s
<1> DEFINE s == u.blocks
           t == Added(s, ev)
<1>1. s \in Seq(SentBlock) /\ ev.index \in Nat /\ ev.call \in Nat
  BY DEF UpstreamInv, Upstreams, UpstreamBlocks, UpstreamEvents
<1>2. Len(s) \in Nat /\ DOMAIN s = 1..Len(s)
  BY <1>1
<1>3. \A b \in u.client.open : b \in Nat /\ b < Len(s)
  <2>1. u.client.open \in SUBSET Nat
    BY DEF UpstreamInv, Upstreams
  <2> QED BY <2>1 DEF UpstreamInv
<1>o. Opening(u, ev) => ev.type = "content_block_start" /\ ev.kind \in Kinds \cup {Opaque}
  BY DEF Opening
<1>g. Growing(u, ev) => ev.type = "content_block_delta" /\ ev.index \in u.client.open
  BY DEF Growing
<1>n. ~Opening(u, ev) /\ ~Growing(u, ev) =>
        ev.type # "content_block_start" /\ ev.type # "content_block_delta"
  BY ErrorFields DEF InPlace, Starting, Closing, Finishing, Stopping
<1> HIDE DEF s
<1>4. CASE Opening(u, ev)
  <2> DEFINE x == [kind |-> ev.kind, call |-> ev.call, parts |-> <<>>, opaque |-> 0]
  <2>1. t = Append(s, x)
    BY <1>4, <1>o DEF Added
  <2>2. x \in SentBlock
    <3>1. <<>> \in SentParts
      BY DEF SentParts
    <3> QED BY <3>1, <1>1, <1>4, <1>o DEF SentBlock
  <2> HIDE DEF t, x
  <2>3. t \in Seq(SentBlock) /\ Len(t) = Len(s) + 1 /\ (\A i \in 1..Len(s) : t[i] = s[i]) /\ t[Len(s) + 1] = x
    BY <1>1, <1>2, <2>1, <2>2, AppendProperties
  <2>4. ~Growing(u, ev)
    BY <1>4, <1>o, <1>g
  <2> QED BY <1>4, <2>3, <2>4 DEF UpstreamBlocks, t, s, x
<1>5. CASE Growing(u, ev)
  <2> DEFINE k == ev.index + 1
             v == AddPieces(s[k], ev)
  <2>1. k \in 1..Len(s)
    BY <1>5, <1>g, <1>1, <1>2, <1>3
  <2>v. t = [s EXCEPT ![k] = v]
    BY <1>5, <1>g DEF Added
  <2> HIDE DEF k, t
  <2>3. s[k] \in SentBlock
    BY <1>1, <2>1, ElementOfSeq
  <2>5. v \in SentBlock
    <3> DEFINE r == s[k]
    <3> HIDE DEF r
    <3>1. AddPieces(r, ev) \in SentBlock
      BY <2>3, AddPiecesIs DEF r
    <3> QED BY <3>1 DEF r
  <2> HIDE DEF v
  <2>6. s \in [1..Len(s) -> SentBlock]
    BY <1>1
  <2>7. /\ t \in [1..Len(s) -> SentBlock] /\ (\A i \in 1..Len(s) : i # k => t[i] = s[i])
        /\ t[k] = v
    BY <2>1, <2>5, <2>6, <2>v
  <2>9. t \in Seq(SentBlock) /\ Len(t) = Len(s)
    BY <2>7, <1>2
  <2>8. ~Opening(u, ev)
    BY <1>5, <1>o, <1>g
  <2> QED BY <1>5, <2>1, <2>3, <2>7, <2>8, <2>9 DEF UpstreamBlocks, t, k, s, v
<1>6. CASE ~Opening(u, ev) /\ ~Growing(u, ev)
  BY <1>1, <1>6, <1>n DEF Added, UpstreamBlocks, s
<1> QED BY <1>4, <1>5, <1>6

\* What it has sent is the beginning of a message still.
LEMMA UpstreamAfter ==
  ASSUME NEW u, UpstreamInv(u), NEW ev, Sendable(u, ev)
  PROVE  UpstreamInv(After(u, ev))
<1> DEFINE t == After(u, ev)
           C == [phase: Phases, open: SUBSET Nat, next: Nat, illegal: {{}}, endings: {0, 1},
                 stops: {0, 1}]
<1>1. /\ ev \in UpstreamEvents /\ u \in Upstreams
      /\ ev = ErrorEvent \/ (ev # ErrorEvent /\ Legal(u.client, ev) /\ InPlace(u, ev))
  BY SendableIs DEF UpstreamInv
<1>2. /\ t.client = IF ev = ErrorEvent THEN u.client ELSE See(u.client, ev)
      /\ t.text = IF ev.kind = "text" THEN u.text \o ev.text ELSE u.text
      /\ t.blocks = Added(u.blocks, ev)
  BY <1>1, AfterFields
<1>3. /\ t.blocks \in UpstreamBlocks
      /\ Opening(u, ev) => Len(t.blocks) = Len(u.blocks) + 1
      /\ ~Opening(u, ev) => Len(t.blocks) = Len(u.blocks)
  BY <1>1, <1>2, AddedIs, ZenonT(60)
<1>4. /\ u.client \in C /\ u.text \in Seq(Words) /\ ev.text \in Seq(Words) /\ u.sent \in Nat
  BY <1>1 DEF Upstreams, UpstreamEvents
<1>5. t.text \in Seq(Words)
  <2>1. u.text \o ev.text \in Seq(Words)
    BY <1>4
  <2> QED BY <2>1, <1>2, <1>4
<1>6. t.client \in C
  <2>1. CASE ev = ErrorEvent
    BY <2>1, <1>2, <1>4
  <2>2. CASE ev # ErrorEvent
    <3>1. See(u.client, ev) \in C
      BY <2>2, <1>1, SeeInPlace
    <3> QED BY <2>2, <3>1, <1>2
  <2> QED BY <2>1, <2>2
<1>7. t \in Upstreams
  <2> DEFINE B == UpstreamBlocks
             E == UpstreamEvents
             S == Seq(Words)
             e == IF ev = ErrorEvent THEN 1 ELSE 0
             n == u.sent + 1
             c == t.client
             x == t.text
             b == t.blocks
  <2>1. t = [u EXCEPT !.client = c, !.text = x, !.blocks = b, !.errors = e, !.sent = n,
                      !.line = "event"]
    BY <1>1, <1>2 DEF After, Upstreams
  <2>2. c \in C /\ x \in S /\ b \in B /\ e \in {0, 1} /\ n \in Nat
    BY <1>3, <1>4, <1>5, <1>6
  <2>3. u \in [client: C, text: S, blocks: B, errors: {0, 1}, sent: Nat,
               line: {"event", "data", "empty"}, ev: E]
    BY <1>1 DEF Upstreams
  <2> HIDE DEF t, B, E, S, e, n, c, x, b, C
  <2>4. t \in [client: C, text: S, blocks: B, errors: {0, 1}, sent: Nat,
               line: {"event", "data", "empty"}, ev: E]
    BY <2>1, <2>2, <2>3
  <2> QED BY <2>4 DEF Upstreams, C, S, B, E
<1>8. /\ u.client.next = Len(u.blocks)
      /\ \A b \in u.client.open : b < u.client.next
      /\ u.client.phase = "none" => u.client.next = 0
      /\ u.client.endings = IF u.client.phase \in {"ending", "stopped"} THEN 1 ELSE 0
      /\ u.client.stops = IF u.client.phase = "stopped" THEN 1 ELSE 0
      /\ u.client.open \in SUBSET Nat /\ u.client.next \in Nat
  BY <1>4 DEF UpstreamInv
<1>9. /\ t.client.next = Len(t.blocks)
      /\ \A b \in t.client.open : b < t.client.next
      /\ t.client.phase = "none" => t.client.next = 0
      /\ t.client.endings = IF t.client.phase \in {"ending", "stopped"} THEN 1 ELSE 0
      /\ t.client.stops = IF t.client.phase = "stopped" THEN 1 ELSE 0
  <2> HIDE DEF t
  <2>1. CASE ev = ErrorEvent
    <3>1. ~Opening(u, ev)
      BY <2>1, ErrorFields DEF Opening
    <3> QED BY <2>1, <3>1, <1>2, <1>3, <1>8
  <2>2. CASE ev # ErrorEvent /\ Opening(u, ev)
    <3>1. /\ t.client.phase = u.client.phase /\ t.client.open = u.client.open \cup {ev.index}
          /\ t.client.next = u.client.next + 1
          /\ t.client.endings = u.client.endings /\ t.client.stops = u.client.stops
      BY <2>2, <1>1, <1>2, SeeInPlace
    <3>2. u.client.phase = "content" /\ ev.index = u.client.next
      BY <2>2 DEF Opening
    <3> QED BY <2>2, <3>1, <3>2, <1>3, <1>8
  <2>3. CASE ev # ErrorEvent /\ Starting(u, ev)
    <3>1. t.client.phase = "content" /\ t.client.open = u.client.open /\ t.client.next = u.client.next
          /\ t.client.endings = u.client.endings /\ t.client.stops = u.client.stops
      BY <2>3, <1>1, <1>2, SeeInPlace
    <3>2. u.client.phase = "none" /\ ~Opening(u, ev)
      BY <2>3 DEF Starting, Opening
    <3> QED BY <2>3, <3>1, <3>2, <1>3, <1>8
  <2>4. CASE ev # ErrorEvent /\ (Growing(u, ev) \/ Closing(u, ev))
    <3>1. t.client.phase = u.client.phase /\ t.client.open \subseteq u.client.open
          /\ t.client.next = u.client.next
          /\ t.client.endings = u.client.endings /\ t.client.stops = u.client.stops
      BY <2>4, <1>1, <1>2, SeeInPlace
    <3>2. u.client.phase = "content" /\ ~Opening(u, ev)
      BY <2>4 DEF Growing, Closing, Opening
    <3> QED BY <2>4, <3>1, <3>2, <1>3, <1>8
  <2>5. CASE ev # ErrorEvent /\ Finishing(u, ev)
    <3>1. t.client.phase = "ending" /\ t.client.open = u.client.open /\ t.client.next = u.client.next
          /\ t.client.endings = u.client.endings + 1 /\ t.client.stops = u.client.stops
      BY <2>5, <1>1, <1>2, SeeInPlace
    <3>2. u.client.phase = "content" /\ ~Opening(u, ev)
      BY <2>5 DEF Finishing, Opening
    <3> QED BY <2>5, <3>1, <3>2, <1>3, <1>8
  <2>6. CASE ev # ErrorEvent /\ Stopping(u, ev)
    <3>1. t.client.phase = "stopped" /\ t.client.open = u.client.open /\ t.client.next = u.client.next
          /\ t.client.endings = u.client.endings /\ t.client.stops = u.client.stops + 1
      BY <2>6, <1>1, <1>2, SeeInPlace
    <3>2. u.client.phase = "ending" /\ ~Opening(u, ev)
      BY <2>6 DEF Stopping, Opening
    <3> QED BY <2>6, <3>1, <3>2, <1>3, <1>8
  <2> QED BY <1>1, <2>1, <2>2, <2>3, <2>4, <2>5, <2>6 DEF InPlace
<1> HIDE DEF t
<1>10. UpstreamInv(t)
  BY <1>7, <1>9 DEF UpstreamInv
<1> QED BY <1>10 DEF t

-------------------------------------------------------------------------------
(* The converter.                                                              *)

\* How many tool calls there are: as many as before, or one more.
LEMMA SameTools ==
  ASSUME NEW u, NEW t, u.blocks \in UpstreamBlocks, t.blocks \in UpstreamBlocks,
         Len(t.blocks) = Len(u.blocks),
         \A i \in 1..Len(u.blocks) : t.blocks[i].kind = u.blocks[i].kind
  PROVE  ToolBlocks(t) = ToolBlocks(u) /\ ToolIndexes(t) = ToolIndexes(u)
<1>1. DOMAIN u.blocks = 1..Len(u.blocks) /\ DOMAIN t.blocks = 1..Len(u.blocks)
      /\ Len(u.blocks) \in Nat
  BY DEF UpstreamBlocks
<1>2. \A i \in 0..Len(u.blocks) - 1 : i + 1 \in 1..Len(u.blocks)
  BY <1>1
<1> QED BY <1>1, <1>2 DEF ToolBlocks, ToolIndexes

LEMMA MoreTools ==
  ASSUME NEW u, NEW t, u.blocks \in UpstreamBlocks, t.blocks \in UpstreamBlocks,
         Len(t.blocks) = Len(u.blocks) + 1,
         \A i \in 1..Len(u.blocks) : t.blocks[i].kind = u.blocks[i].kind
  PROVE  LET n == Len(u.blocks) IN
         /\ n \in Nat
         /\ IsFiniteSet(ToolBlocks(u)) /\ IsFiniteSet(ToolIndexes(u))
         /\ n + 1 \notin ToolBlocks(u) /\ n \notin ToolIndexes(u)
         /\ t.blocks[n + 1].kind = "tool_use" =>
              ToolBlocks(t) = ToolBlocks(u) \cup {n + 1} /\ ToolIndexes(t) = ToolIndexes(u) \cup {n}
         /\ t.blocks[n + 1].kind # "tool_use" =>
              ToolBlocks(t) = ToolBlocks(u) /\ ToolIndexes(t) = ToolIndexes(u)
<1> DEFINE n == Len(u.blocks)
<1>1. DOMAIN u.blocks = 1..n /\ DOMAIN t.blocks = 1..n + 1 /\ n \in Nat /\ Len(t.blocks) = n + 1
  BY DEF UpstreamBlocks
<1>2. \A i \in 0..n - 1 : i + 1 \in 1..n
  BY <1>1
<1> HIDE DEF n
<1>3. ToolBlocks(u) \subseteq 1..n /\ ToolIndexes(u) \subseteq 0..n - 1
  BY <1>1 DEF ToolBlocks, ToolIndexes, n
<1>4. IsFiniteSet(1..n) /\ IsFiniteSet(0..n - 1)
  BY <1>1, FS_Interval
<1>5. IsFiniteSet(ToolBlocks(u)) /\ IsFiniteSet(ToolIndexes(u))
  BY <1>3, <1>4, FS_Subset
<1>6. n + 1 \notin ToolBlocks(u) /\ n \notin ToolIndexes(u)
  BY <1>1, <1>3
<1>7. /\ \A i : i \in 1..n + 1 <=> i \in 1..n \/ i = n + 1
      /\ \A i : i \in 0..(n + 1) - 1 <=> i \in 0..n - 1 \/ i = n
  BY <1>1
<1>8. ToolBlocks(t) = {i \in 1..n + 1 : t.blocks[i].kind = "tool_use"}
  BY <1>1 DEF ToolBlocks
<1>9. ToolIndexes(t) = {i \in 0..(n + 1) - 1 : t.blocks[i + 1].kind = "tool_use"}
  BY <1>1 DEF ToolIndexes
<1>10. ToolBlocks(u) = {i \in 1..n : t.blocks[i].kind = "tool_use"}
  BY <1>1 DEF ToolBlocks, n
<1>11. ToolIndexes(u) = {i \in 0..n - 1 : t.blocks[i + 1].kind = "tool_use"}
  BY <1>1, <1>2 DEF ToolIndexes, n
<1>12. CASE t.blocks[n + 1].kind = "tool_use"
  BY <1>1, <1>5, <1>6, <1>7, <1>8, <1>9, <1>10, <1>11, <1>12 DEF n
<1>13. CASE t.blocks[n + 1].kind # "tool_use"
  BY <1>1, <1>5, <1>6, <1>7, <1>8, <1>9, <1>10, <1>11, <1>13 DEF n
<1> QED BY <1>12, <1>13

\* What there is of thinking, and of tool calls, if those blocks are the same.
LEMMA SameThought ==
  ASSUME NEW u, NEW t, DOMAIN t.blocks = DOMAIN u.blocks,
         \A b \in DOMAIN u.blocks : t.blocks[b].kind = u.blocks[b].kind,
         \A b \in DOMAIN u.blocks : u.blocks[b].kind = "thinking" => t.blocks[b].parts = u.blocks[b].parts
  PROVE  Thought(t) = Thought(u)
<1>1. ASSUME Thought(u) PROVE Thought(t)
  BY <1>1 DEF Thought
<1>2. ASSUME Thought(t) PROVE Thought(u)
  BY <1>2 DEF Thought
<1>3. Thought(t) <=> Thought(u)
  BY <1>1, <1>2
<1>4. Thought(t) \in BOOLEAN /\ Thought(u) \in BOOLEAN
  BY DEF Thought
<1> QED BY <1>3, <1>4

LEMMA SameCalls ==
  ASSUME NEW u, NEW t, NEW idx, NEW calls, PiecesFit(u, idx, calls), ToolBlocks(t) = ToolBlocks(u),
         \A b \in ToolBlocks(u) : /\ t.blocks[b].call = u.blocks[b].call
                                  /\ t.blocks[b].parts = u.blocks[b].parts
  PROVE  PiecesFit(t, idx, calls)
<1>1. \A b : Place(t, b) = Place(u, b)
  BY DEF Place
<1> QED BY <1>1 DEF PiecesFit

\* Where the tool_use blocks are in blockToolIdx.
LEMMA ToolIndexOf ==
  ASSUME NEW u, u.blocks \in UpstreamBlocks, NEW b \in ToolBlocks(u)
  PROVE  b \in 1..Len(u.blocks) /\ b - 1 \in ToolIndexes(u) /\ b - 1 < Len(u.blocks) /\ b \in Nat
<1>1. Len(u.blocks) \in Nat /\ DOMAIN u.blocks = 1..Len(u.blocks)
  BY DEF UpstreamBlocks
<1>2. b \in 1..Len(u.blocks) /\ u.blocks[b].kind = "tool_use"
  BY <1>1 DEF ToolBlocks
<1>3. b - 1 \in 0..Len(u.blocks) - 1 /\ (b - 1) + 1 = b /\ b \in Nat /\ b - 1 < Len(u.blocks)
  BY <1>1, <1>2
<1> QED BY <1>2, <1>3 DEF ToolIndexes

\* One call more, in the converter's books and in the client's.
CallBegun(u, t, idx, f, calls, id) ==
  /\ u.blocks \in UpstreamBlocks
  /\ calls \in Seq([id: Nat, args: Seq(Nat)])
  /\ IsFiniteSet(ToolBlocks(u)) /\ Len(calls) = Cardinality(ToolBlocks(u))
  /\ \A b \in ToolIndexes(u) : idx[b] \in Nat /\ idx[b] < Len(calls)
  /\ ToolBlocks(t) = ToolBlocks(u) \cup {Len(u.blocks) + 1}
  /\ \A b \in 1..Len(u.blocks) : t.blocks[b] = u.blocks[b]
  /\ t.blocks[Len(u.blocks) + 1].parts = <<>>
  /\ id \in Nat /\ t.blocks[Len(u.blocks) + 1].call = id
  /\ f[Len(u.blocks)] = Len(calls) /\ \A b \in ToolIndexes(u) : f[b] = idx[b]

LEMMA MoreCalls ==
  ASSUME NEW u, NEW t, NEW idx, NEW f, NEW calls, NEW id, PiecesFit(u, idx, calls),
         CallBegun(u, t, idx, f, calls, id)
  PROVE  PiecesFit(t, f, Append(calls, [id |-> id, args |-> <<>>]))
<1>0. /\ u.blocks \in UpstreamBlocks
      /\ calls \in Seq([id: Nat, args: Seq(Nat)])
      /\ IsFiniteSet(ToolBlocks(u)) /\ Len(calls) = Cardinality(ToolBlocks(u))
      /\ \A b \in ToolIndexes(u) : idx[b] \in Nat /\ idx[b] < Len(calls)
      /\ ToolBlocks(t) = ToolBlocks(u) \cup {Len(u.blocks) + 1}
      /\ \A b \in 1..Len(u.blocks) : t.blocks[b] = u.blocks[b]
      /\ t.blocks[Len(u.blocks) + 1].parts = <<>>
      /\ id \in Nat /\ t.blocks[Len(u.blocks) + 1].call = id
      /\ f[Len(u.blocks)] = Len(calls) /\ \A b \in ToolIndexes(u) : f[b] = idx[b]
  BY DEF CallBegun
<1> DEFINE n == Len(u.blocks)
           k == Len(calls)
           x == [id |-> id, args |-> <<>>]
           c == Append(calls, x)
           C == [id: Nat, args: Seq(Nat)]
<1>1. n \in Nat /\ k \in Nat
  BY <1>0 DEF UpstreamBlocks
<1>2. Len(c) = k + 1 /\ (\A j \in 1..k : c[j] = calls[j]) /\ c[k + 1] = x
  <2>1. x \in C /\ calls \in Seq(C)
    <3>1. <<>> \in Seq(Nat)
      OBVIOUS
    <3> QED BY <3>1, <1>0
  <2> HIDE DEF x, C
  <2> QED BY <2>1, AppendProperties
<1>3. ASSUME NEW b \in ToolBlocks(u)
      PROVE  /\ b \in 1..n /\ f[b - 1] = idx[b - 1] /\ idx[b - 1] \in Nat /\ idx[b - 1] < k
             /\ b # n + 1
  <2>1. b \in 1..n /\ b - 1 \in ToolIndexes(u)
    BY <1>0, ToolIndexOf
  <2>2. f[b - 1] = idx[b - 1] /\ idx[b - 1] \in Nat /\ idx[b - 1] < k
    BY <2>1, <1>0
  <2> HIDE DEF n, k
  <2> QED BY <2>1, <2>2, <1>1
<1>4. f[(n + 1) - 1] = k
  BY <1>0, <1>1
<1>5. \A b \in ToolBlocks(t) : b \in ToolBlocks(u) \/ b = n + 1
  BY <1>0
<1>6. ASSUME NEW b \in ToolBlocks(u) PROVE Place(t, b) = Place(u, b)
  <2>1. b \in 1..n
    BY <1>3
  <2> HIDE DEF n
  <2>2. ~(n + 1 <= b)
    BY <2>1, <1>1
  <2>3. {j \in ToolBlocks(t) : j <= b} = {j \in ToolBlocks(u) : j <= b}
    BY <2>2, <1>0 DEF n
  <2> QED BY <2>3 DEF Place
<1>7. Place(t, n + 1) = k + 1
  <2>1. \A b \in ToolBlocks(u) : b \in 1..n
    BY <1>3
  <2>2. n + 1 \notin ToolBlocks(u)
    BY <1>3
  <2>3. ToolBlocks(t) = ToolBlocks(u) \cup {n + 1} /\ IsFiniteSet(ToolBlocks(u))
        /\ k = Cardinality(ToolBlocks(u))
    BY <1>0
  <2> HIDE DEF n, k
  <2>4. {j \in ToolBlocks(t) : j <= n + 1} = ToolBlocks(u) \cup {n + 1}
    BY <2>1, <2>3, <1>1
  <2>5. Cardinality(ToolBlocks(u) \cup {n + 1}) = Cardinality(ToolBlocks(u)) + 1
    BY <2>2, <2>3, FS_AddElement
  <2> QED BY <2>3, <2>4, <2>5 DEF Place
<1>8. \A b \in ToolBlocks(u) : /\ idx[b - 1] + 1 = Place(u, b)
                               /\ calls[idx[b - 1] + 1] = [id |-> u.blocks[b].call, args |-> u.blocks[b].parts]
  BY DEF PiecesFit
<1>9. \A a, b \in ToolBlocks(u) : idx[a - 1] = idx[b - 1] => a = b
  BY DEF PiecesFit
<1>t. /\ t.blocks[n + 1].call = id /\ t.blocks[n + 1].parts = <<>>
      /\ \A b \in 1..n : t.blocks[b] = u.blocks[b]
  BY <1>0
<1>10. ASSUME NEW b \in ToolBlocks(t)
       PROVE  /\ f[b - 1] + 1 = Place(t, b)
              /\ c[f[b - 1] + 1] = [id |-> t.blocks[b].call, args |-> t.blocks[b].parts]
  <2>1. CASE b = n + 1
    <3> HIDE DEF n, k, c
    <3> QED BY <2>1, <1>2, <1>4, <1>7, <1>t DEF x
  <2>2. CASE b \in ToolBlocks(u)
    <3> DEFINE j == idx[b - 1]
    <3>1. j \in Nat /\ j < k /\ f[b - 1] = j /\ b \in 1..n
      BY <2>2, <1>3
    <3>2. j + 1 = Place(u, b) /\ calls[j + 1] = [id |-> u.blocks[b].call, args |-> u.blocks[b].parts]
      BY <2>2, <1>8
    <3> HIDE DEF n, k, c, j
    <3>3. j + 1 \in 1..k
      BY <3>1, <1>1
    <3>4. c[j + 1] = calls[j + 1] /\ t.blocks[b] = u.blocks[b] /\ Place(t, b) = Place(u, b)
      BY <2>2, <3>1, <3>3, <1>2, <1>6, <1>t
    <3> QED BY <3>1, <3>2, <3>4
  <2> QED BY <2>1, <2>2, <1>5
<1>11. ASSUME NEW a \in ToolBlocks(t), NEW b \in ToolBlocks(t), f[a - 1] = f[b - 1]
       PROVE  a = b
  <2>1. CASE a = n + 1 /\ b = n + 1
    BY <2>1
  <2>2. CASE a \in ToolBlocks(u) /\ b \in ToolBlocks(u)
    BY <2>2, <1>3, <1>9, <1>11
  <2>3. CASE a = n + 1 /\ b \in ToolBlocks(u)
    <3>1. f[a - 1] = k /\ f[b - 1] \in Nat /\ f[b - 1] < k
      BY <2>3, <1>3, <1>4
    <3> HIDE DEF k
    <3> QED BY <3>1, <1>1, <1>11
  <2>4. CASE b = n + 1 /\ a \in ToolBlocks(u)
    <3>1. f[b - 1] = k /\ f[a - 1] \in Nat /\ f[a - 1] < k
      BY <2>4, <1>3, <1>4
    <3> HIDE DEF k
    <3> QED BY <3>1, <1>1, <1>11
  <2> QED BY <2>1, <2>2, <2>3, <2>4, <1>5
<1> HIDE DEF n, k, x, c
<1>12. PiecesFit(t, f, c)
  BY <1>10, <1>11 DEF PiecesFit
<1> QED BY <1>12 DEF c, x

\* One piece more, of the call at its place.
Longer(u, t, b0, piece, idx, calls, d) ==
  /\ ToolBlocks(t) = ToolBlocks(u) /\ b0 \in ToolBlocks(u)
  /\ \A b \in ToolBlocks(u) : b # b0 => t.blocks[b] = u.blocks[b]
  /\ t.blocks[b0].call = u.blocks[b0].call
  /\ t.blocks[b0].parts = Append(u.blocks[b0].parts, piece)
  /\ \A b \in ToolBlocks(u) : idx[b - 1] \in Nat /\ idx[b - 1] + 1 \in DOMAIN calls
  /\ \A j \in DOMAIN calls : j # idx[b0 - 1] + 1 => d[j] = calls[j]
  /\ d[idx[b0 - 1] + 1] = [id |-> calls[idx[b0 - 1] + 1].id,
                           args |-> Append(calls[idx[b0 - 1] + 1].args, piece)]

LEMMA LongerCall ==
  ASSUME NEW u, NEW t, NEW b0, NEW piece, NEW idx, NEW calls, NEW d, PiecesFit(u, idx, calls),
         Longer(u, t, b0, piece, idx, calls, d)
  PROVE  PiecesFit(t, idx, d)
<1>0. /\ ToolBlocks(t) = ToolBlocks(u) /\ b0 \in ToolBlocks(u)
      /\ \A b \in ToolBlocks(u) : b # b0 => t.blocks[b] = u.blocks[b]
      /\ t.blocks[b0].call = u.blocks[b0].call
      /\ t.blocks[b0].parts = Append(u.blocks[b0].parts, piece)
      /\ \A b \in ToolBlocks(u) : idx[b - 1] \in Nat /\ idx[b - 1] + 1 \in DOMAIN calls
      /\ \A j \in DOMAIN calls : j # idx[b0 - 1] + 1 => d[j] = calls[j]
      /\ d[idx[b0 - 1] + 1] = [id |-> calls[idx[b0 - 1] + 1].id,
                               args |-> Append(calls[idx[b0 - 1] + 1].args, piece)]
  BY DEF Longer
<1>1. \A b : Place(t, b) = Place(u, b)
  BY <1>0 DEF Place
<1>2. \A b \in ToolBlocks(u) : /\ idx[b - 1] + 1 = Place(u, b)
                               /\ calls[idx[b - 1] + 1] = [id |-> u.blocks[b].call, args |-> u.blocks[b].parts]
  BY DEF PiecesFit
<1>3. \A a, b \in ToolBlocks(u) : idx[a - 1] = idx[b - 1] => a = b
  BY DEF PiecesFit
<1>4. ASSUME NEW b \in ToolBlocks(u)
      PROVE  d[idx[b - 1] + 1] = [id |-> t.blocks[b].call, args |-> t.blocks[b].parts]
  <2>1. CASE b = b0
    <3> DEFINE i == idx[b0 - 1] + 1
               r == calls[i]
               y == u.blocks[b0].parts
               m == u.blocks[b0].call
    <3>1. r = [id |-> m, args |-> y]
      BY <1>0, <1>2
    <3>2. d[i] = [id |-> r.id, args |-> Append(r.args, piece)]
      BY <1>0
    <3>3. t.blocks[b0].call = m /\ t.blocks[b0].parts = Append(y, piece)
      BY <1>0
    <3> HIDE DEF i, r, y, m
    <3>4. r.id = m /\ r.args = y
      BY <3>1
    <3>5. d[i] = [id |-> t.blocks[b0].call, args |-> t.blocks[b0].parts]
      BY <3>2, <3>3, <3>4
    <3> QED BY <2>1, <3>5 DEF i
  <2>2. CASE b # b0
    <3> DEFINE i == idx[b - 1]
               j == idx[b0 - 1]
    <3>1. i # j /\ i \in Nat /\ j \in Nat /\ i + 1 \in DOMAIN calls
      BY <2>2, <1>0, <1>3
    <3>2. \A x \in DOMAIN calls : x # j + 1 => d[x] = calls[x]
      BY <1>0
    <3>3. calls[i + 1] = [id |-> u.blocks[b].call, args |-> u.blocks[b].parts] /\ t.blocks[b] = u.blocks[b]
      BY <2>2, <1>0, <1>2
    <3> HIDE DEF i, j
    <3>4. i + 1 # j + 1
      BY <3>1
    <3>5. d[i + 1] = calls[i + 1]
      BY <3>1, <3>2, <3>4
    <3>6. d[i + 1] = [id |-> t.blocks[b].call, args |-> t.blocks[b].parts]
      BY <3>3, <3>5
    <3> QED BY <3>6 DEF i
  <2> QED BY <2>1, <2>2
<1> QED BY <1>0, <1>1, <1>2, <1>3, <1>4 DEF PiecesFit

-------------------------------------------------------------------------------
(* A client of OpenAI's API.                                                   *)

\* The clients' answers to the chunks.
LEMMA RoleTaken ==
  ASSUME NEW cl \in ConvClients, cl.roles = 0
  PROVE  LET d == TakeRole(cl) IN
         /\ d \in ConvClients /\ d.roles = 1 /\ d.text = cl.text /\ d.calls = cl.calls
         /\ d.reasoning = cl.reasoning /\ d.finish = cl.finish /\ d.done = cl.done
<1>1. TakeRole(cl) = [cl EXCEPT !.roles = 1]
  BY DEF TakeRole
<1> QED BY <1>1 DEF ConvClients

Timely(cl) == cl.roles = 1 /\ cl.finish = "none" /\ cl.done = FALSE

LEMMA TextTaken ==
  ASSUME NEW cl \in ConvClients, Timely(cl), NEW text \in Seq(Words)
  PROVE  LET d == TakeText(cl, text) IN
         /\ d \in ConvClients /\ d.roles = cl.roles /\ d.text = cl.text \o text /\ d.calls = cl.calls
         /\ d.reasoning = cl.reasoning /\ d.finish = cl.finish /\ d.done = cl.done
<1> DEFINE x == cl.text \o text
<1>1. cl.text \in Seq(Words) /\ cl.jumbled = FALSE
  BY DEF ConvClients
<1>2. x \in Seq(Words)
  BY <1>1
<1>3. (cl.jumbled \/ Untimely(cl)) = FALSE
  BY <1>1 DEF Untimely, Timely
<1>4. TakeText(cl, text) = [cl EXCEPT !.text = x, !.jumbled = FALSE]
  BY <1>3 DEF TakeText
<1> HIDE DEF x
<1>5. LET d == [cl EXCEPT !.text = x, !.jumbled = FALSE] IN
      /\ d \in ConvClients /\ d.roles = cl.roles /\ d.text = x /\ d.calls = cl.calls
      /\ d.reasoning = cl.reasoning /\ d.finish = cl.finish /\ d.done = cl.done
  BY <1>2 DEF ConvClients
<1> QED BY <1>4, <1>5 DEF x

LEMMA ReasoningTaken ==
  ASSUME NEW cl \in ConvClients, Timely(cl)
  PROVE  LET d == TakeReasoning(cl) IN
         /\ d \in ConvClients /\ d.roles = cl.roles /\ d.text = cl.text /\ d.calls = cl.calls
         /\ d.reasoning = TRUE /\ d.finish = cl.finish /\ d.done = cl.done
<1>1. (cl.jumbled \/ Untimely(cl)) = FALSE
  <2>1. cl.jumbled = FALSE
    BY DEF ConvClients
  <2> QED BY <2>1 DEF Untimely, Timely
<1>2. TakeReasoning(cl) = [cl EXCEPT !.reasoning = TRUE, !.jumbled = FALSE]
  BY <1>1 DEF TakeReasoning
<1> QED BY <1>2 DEF ConvClients

LEMMA CallTaken ==
  ASSUME NEW cl \in ConvClients, Timely(cl), NEW id \in Nat
  PROVE  LET d == TakeCall(cl, Len(cl.calls), id) IN
         /\ d \in ConvClients /\ d.roles = cl.roles /\ d.text = cl.text
         /\ d.calls = Append(cl.calls, [id |-> id, args |-> <<>>]) /\ Len(d.calls) = Len(cl.calls) + 1
         /\ d.reasoning = cl.reasoning /\ d.finish = cl.finish /\ d.done = cl.done
<1> DEFINE C == [id: Nat, args: Seq(Nat)]
           x == Append(cl.calls, [id |-> id, args |-> <<>>])
<1>1. cl.calls \in Seq(C) /\ cl.jumbled = FALSE /\ [id |-> id, args |-> <<>>] \in C
  <2>1. cl.calls \in Seq(C) /\ cl.jumbled = FALSE
    BY DEF ConvClients
  <2>2. <<>> \in Seq(Nat)
    OBVIOUS
  <2>3. [id |-> id, args |-> <<>>] \in C
    BY <2>2
  <2> QED BY <2>1, <2>3
<1>2. x \in Seq(C) /\ Len(x) = Len(cl.calls) + 1
  <2> DEFINE r == [id |-> id, args |-> <<>>]
  <2>1. r \in C /\ x = Append(cl.calls, r)
    BY <1>1
  <2> HIDE DEF C, r, x
  <2> QED BY <1>1, <2>1
<1>3. (cl.jumbled \/ Untimely(cl) \/ Len(cl.calls) # Len(cl.calls)) = FALSE
  BY <1>1 DEF Untimely, Timely
<1>4. TakeCall(cl, Len(cl.calls), id) = [cl EXCEPT !.calls = x, !.jumbled = FALSE]
  BY <1>3 DEF TakeCall
<1> HIDE DEF x
<1>5. LET d == [cl EXCEPT !.calls = x, !.jumbled = FALSE] IN
      /\ d \in ConvClients /\ d.roles = cl.roles /\ d.text = cl.text /\ d.calls = x
      /\ d.reasoning = cl.reasoning /\ d.finish = cl.finish /\ d.done = cl.done
  BY <1>2 DEF ConvClients
<1> QED BY <1>2, <1>4, <1>5 DEF x

LEMMA WithArgs ==
  ASSUME NEW calls \in Seq([id: Nat, args: Seq(Nat)]), NEW k \in 1..Len(calls), NEW piece \in Nat
  PROVE  LET x == [calls EXCEPT ![k].args = Append(@, piece)] IN
         /\ x \in Seq([id: Nat, args: Seq(Nat)]) /\ Len(x) = Len(calls)
         /\ \A j \in 1..Len(calls) : j # k => x[j] = calls[j]
         /\ x[k] = [id |-> calls[k].id, args |-> Append(calls[k].args, piece)]
<1> DEFINE C == [id: Nat, args: Seq(Nat)]
           x == [calls EXCEPT ![k].args = Append(@, piece)]
           r == calls[k]
           y == Append(r.args, piece)
           v == [r EXCEPT !.args = y]
<1>1. r \in C
  BY ElementOfSeq
<1>2. y \in Seq(Nat)
  BY <1>1
<1>3. v \in C
  <2> HIDE DEF y, r
  <2> QED BY <1>1, <1>2
<1>4. x = [calls EXCEPT ![k] = v]
  <2> DEFINE g(a, j, p) == [a EXCEPT ![j].args = Append(@, p)]
  <2>1. ASSUME NEW a, NEW j, NEW p
        PROVE  g(a, j, p) = [a EXCEPT ![j] = [a[j] EXCEPT !.args = Append(a[j].args, p)]]
    OBVIOUS
  <2>2. x = g(calls, k, piece)
    OBVIOUS
  <2> HIDE DEF g, x
  <2> QED BY <2>1, <2>2
<1>v. v = [id |-> r.id, args |-> y]
  <2> DEFINE S == Seq(Nat)
  <2> HIDE DEF r, y, S
  <2>1. r \in [id: Nat, args: S] /\ y \in S
    BY <1>1, <1>2 DEF S
  <2>2. v \in [id: Nat, args: S] /\ v.id = r.id /\ v.args = y
    BY <2>1
  <2> HIDE DEF v
  <2> QED BY <2>2
<1> HIDE DEF v, x, C, r, y
<1>5. calls \in [1..Len(calls) -> C] /\ Len(calls) \in Nat
  <2>1. calls \in Seq(C)
    BY DEF C
  <2> QED BY <2>1
<1>6. x \in [1..Len(calls) -> C]
  BY <1>3, <1>4, <1>5
<1>7. x \in Seq(C) /\ Len(x) = Len(calls)
  <2> DEFINE n == Len(calls)
  <2>1. n \in Nat /\ x \in [1..n -> C]
    BY <1>5, <1>6
  <2> HIDE DEF n
  <2>2. x \in Seq(C) /\ Len(x) = n
    BY <2>1
  <2> QED BY <2>2 DEF n
<1>8. (\A j \in 1..Len(calls) : j # k => x[j] = calls[j]) /\ x[k] = v
  BY <1>4, <1>5
<1> QED BY <1>7, <1>8, <1>v DEF x, C, r, y

LEMMA ArgumentsTaken ==
  ASSUME NEW cl \in ConvClients, Timely(cl), NEW idx \in Nat, idx < Len(cl.calls), NEW piece \in Nat
  PROVE  LET d == TakeArguments(cl, idx, piece) IN
         /\ d \in ConvClients /\ d.roles = cl.roles /\ d.text = cl.text
         /\ Len(d.calls) = Len(cl.calls)
         /\ \A j \in 1..Len(cl.calls) : j # idx + 1 => d.calls[j] = cl.calls[j]
         /\ d.calls[idx + 1] = [id |-> cl.calls[idx + 1].id, args |-> Append(cl.calls[idx + 1].args, piece)]
         /\ d.reasoning = cl.reasoning /\ d.finish = cl.finish /\ d.done = cl.done
<1> DEFINE C == [id: Nat, args: Seq(Nat)]
           x == [cl.calls EXCEPT ![idx + 1].args = Append(@, piece)]
<1>1. cl.calls \in Seq(C) /\ cl.jumbled = FALSE
  BY DEF ConvClients
<1>2. idx + 1 \in 1..Len(cl.calls) /\ DOMAIN cl.calls = 1..Len(cl.calls)
  BY <1>1
<1>3. /\ x \in Seq(C) /\ Len(x) = Len(cl.calls)
      /\ \A j \in 1..Len(cl.calls) : j # idx + 1 => x[j] = cl.calls[j]
      /\ x[idx + 1] = [id |-> cl.calls[idx + 1].id, args |-> Append(cl.calls[idx + 1].args, piece)]
  BY <1>1, <1>2, WithArgs
<1>4. (cl.jumbled \/ Untimely(cl)) = FALSE
  BY <1>1 DEF Untimely, Timely
<1>5. TakeArguments(cl, idx, piece) = [cl EXCEPT !.calls = x, !.jumbled = FALSE]
  <2>1. TakeArguments(cl, idx, piece) =
          [cl EXCEPT !.calls[idx + 1].args = Append(@, piece), !.jumbled = FALSE]
    BY <1>2, <1>4 DEF TakeArguments
  <2>2. cl.calls = [cl EXCEPT !.jumbled = FALSE].calls
    BY DEF ConvClients
  <2> QED BY <2>1 DEF ConvClients
<1> HIDE DEF x
<1>6. LET d == [cl EXCEPT !.calls = x, !.jumbled = FALSE] IN
      /\ d \in ConvClients /\ d.roles = cl.roles /\ d.text = cl.text /\ d.calls = x
      /\ d.reasoning = cl.reasoning /\ d.finish = cl.finish /\ d.done = cl.done
  BY <1>3 DEF ConvClients
<1> QED BY <1>3, <1>5, <1>6

LEMMA FinishTaken ==
  ASSUME NEW cl \in ConvClients, Timely(cl), NEW reason \in {"stop", "length", "tool_calls"}
  PROVE  LET d == TakeFinish(cl, reason) IN
         /\ d \in ConvClients /\ d.roles = cl.roles /\ d.text = cl.text /\ d.calls = cl.calls
         /\ d.reasoning = cl.reasoning /\ d.finish = reason /\ d.done = cl.done
<1>1. (cl.jumbled \/ Untimely(cl)) = FALSE
  <2>1. cl.jumbled = FALSE
    BY DEF ConvClients
  <2> QED BY <2>1 DEF Untimely, Timely
<1>2. TakeFinish(cl, reason) = [cl EXCEPT !.finish = reason, !.jumbled = FALSE]
  BY <1>1 DEF TakeFinish
<1> QED BY <1>2 DEF ConvClients

LEMMA DoneTaken ==
  ASSUME NEW cl \in ConvClients, cl.done = FALSE, cl.finish # "none"
  PROVE  LET d == TakeDone(cl) IN
         /\ d \in ConvClients /\ d.roles = cl.roles /\ d.text = cl.text /\ d.calls = cl.calls
         /\ d.reasoning = cl.reasoning /\ d.finish = cl.finish /\ d.done = TRUE
<1>1. (cl.jumbled \/ cl.done \/ cl.finish = "none") = FALSE
  BY DEF ConvClients
<1>2. TakeDone(cl) = [cl EXCEPT !.done = TRUE, !.jumbled = FALSE]
  BY <1>1 DEF TakeDone
<1> QED BY <1>2 DEF ConvClients

-------------------------------------------------------------------------------
(* The converter.                                                              *)

\* A block that begins adds no thinking, and a delta only to a block of thinking.
LEMMA ThoughtOpening ==
  ASSUME NEW u, NEW t, u.blocks \in UpstreamBlocks, t.blocks \in UpstreamBlocks,
         Len(t.blocks) = Len(u.blocks) + 1,
         \A i \in 1..Len(u.blocks) : t.blocks[i] = u.blocks[i],
         t.blocks[Len(u.blocks) + 1].parts = <<>>
  PROVE  Thought(t) = Thought(u)
<1> DEFINE n == Len(u.blocks)
<1>1. n \in Nat /\ DOMAIN u.blocks = 1..n /\ DOMAIN t.blocks = 1..n + 1
  BY DEF UpstreamBlocks
<1>2. /\ \A i \in 1..n : t.blocks[i] = u.blocks[i]
      /\ t.blocks[n + 1].parts = <<>>
  OBVIOUS
<1> HIDE DEF n
<1>3. ASSUME Thought(u) PROVE Thought(t)
  BY <1>1, <1>2, <1>3 DEF Thought
<1>4. ASSUME Thought(t) PROVE Thought(u)
  <2>1. PICK b \in 1..n + 1 : t.blocks[b].kind = "thinking" /\ t.blocks[b].parts # <<>>
    BY <1>1, <1>4 DEF Thought
  <2>2. b \in 1..n
    BY <2>1, <1>1, <1>2
  <2> QED BY <2>1, <2>2, <1>1, <1>2 DEF Thought
<1>5. Thought(t) \in BOOLEAN /\ Thought(u) \in BOOLEAN
  BY DEF Thought
<1>6. Thought(t) <=> Thought(u)
  BY <1>3, <1>4
<1> QED BY <1>5, <1>6

\* What a delta means for the blocks of thinking and of tool calls.
LEMMA GrowingMeans ==
  ASSUME NEW u, NEW t, UpstreamInv(u), NEW ev \in UpstreamEvents, InPlace(u, ev), Growing(u, ev),
         t.blocks = Added(u.blocks, ev), ToolBlocks(t) = ToolBlocks(u)
  PROVE  LET k == ev.index + 1
             r == u.blocks[k]
         IN  /\ k \in DOMAIN u.blocks /\ r \in SentBlock /\ Suits(r, ev)
             /\ ev.kind = "thinking" => Thought(t) = TRUE
             /\ ev.kind # "thinking" => Thought(t) = Thought(u)
             /\ r.kind # "tool_use" => \A idx, calls : PiecesFit(u, idx, calls) => PiecesFit(t, idx, calls)
             /\ t.blocks[k].call = r.call
             /\ ev.kind = "tool_use" => t.blocks[k].parts = Append(r.parts, ev.call)
             /\ \A b \in ToolBlocks(u) : b # k => t.blocks[b] = u.blocks[b]
<1> DEFINE k == ev.index + 1
           s == u.blocks
           v == t.blocks
           r == s[k]
<1>1. s \in Seq(SentBlock) /\ v \in Seq(SentBlock)
  <2>1. u.blocks \in UpstreamBlocks
    BY DEF UpstreamInv, Upstreams
  <2>2. Added(u.blocks, ev) \in UpstreamBlocks
    BY AddedIs
  <2> QED BY <2>1, <2>2 DEF UpstreamBlocks
<1>2. /\ Len(v) = Len(s) /\ k \in 1..Len(s) /\ r \in SentBlock
      /\ \A i \in 1..Len(s) : i # k => v[i] = s[i]
      /\ v[k] = AddPieces(r, ev)
  BY AddedIs
<1>3. Suits(r, ev)
  BY DEF Growing
<1> HIDE DEF r, s, v, k
<1>4. v[k] \in SentBlock /\ v[k].kind = r.kind /\ v[k].call = r.call /\ v[k].parts = r.parts \o PartsOf(ev)
  BY <1>2, AddPiecesIs
<1>5. DOMAIN s = 1..Len(s) /\ DOMAIN v = DOMAIN s
  BY <1>1, <1>2
<1>6. r.parts \in SentParts
  BY <1>2 DEF SentBlock
<1>7. ev.kind = "tool_use" => v[k].parts = Append(r.parts, ev.call)
  <2>1. ASSUME NEW p \in SentParts, NEW x PROVE p \o <<x>> = Append(p, x)
    BY DEF SentParts
  <2> QED BY <2>1, <1>4, <1>6, PartsAre
<1>8. ev.kind = "thinking" => Thought(t) = TRUE
  <2> SUFFICES ASSUME ev.kind = "thinking" PROVE Thought(t) = TRUE
    OBVIOUS
  <2>1. r.kind = "thinking" /\ ev.text # <<>>
    BY <1>3 DEF Suits, Opaque
  <2>2. PartsOf(ev) = ev.text /\ PartsOf(ev) \in SentParts
    BY PartsAre
  <2>3. ASSUME NEW p \in SentParts, NEW q \in SentParts, q # <<>> PROVE p \o q # <<>>
    BY <2>3 DEF SentParts
  <2>4. v[k].parts # <<>>
    BY <2>1, <2>2, <2>3, <1>4, <1>6
  <2>5. Thought(t)
    BY <2>1, <2>4, <1>2, <1>4, <1>5 DEF Thought, v
  <2> QED BY <2>5 DEF Thought
<1>9. ev.kind # "thinking" => Thought(t) = Thought(u)
  <2> SUFFICES ASSUME ev.kind # "thinking" PROVE Thought(t) = Thought(u)
    OBVIOUS
  <2>1. r.kind = "thinking" => v[k].parts = r.parts
    <3> SUFFICES ASSUME r.kind = "thinking" PROVE v[k].parts = r.parts
      OBVIOUS
    <3>1. ev.kind = Opaque
      BY <1>3 DEF Suits, Opaque
    <3>2. PartsOf(ev) = <<>>
      BY <3>1, PartsAre
    <3>3. ASSUME NEW p \in SentParts PROVE p \o <<>> = p
      BY DEF SentParts
    <3> QED BY <3>2, <3>3, <1>4, <1>6
  <2>2. \A b \in DOMAIN s : v[b].kind = s[b].kind
    BY <1>2, <1>4, <1>5 DEF r
  <2>3. \A b \in DOMAIN s : s[b].kind = "thinking" => v[b].parts = s[b].parts
    BY <2>1, <1>2, <1>5 DEF r
  <2> QED BY <2>2, <2>3, <1>5, SameThought DEF v, s
<1>10. \A b \in ToolBlocks(u) : b # k => v[b] = s[b]
  <2>1. \A b \in ToolBlocks(u) : b \in DOMAIN s
    BY DEF ToolBlocks, s
  <2> QED BY <2>1, <1>2, <1>5
<1>11. r.kind # "tool_use" => \A idx, calls : PiecesFit(u, idx, calls) => PiecesFit(t, idx, calls)
  <2> SUFFICES ASSUME r.kind # "tool_use", NEW idx, NEW calls, PiecesFit(u, idx, calls)
               PROVE  PiecesFit(t, idx, calls)
    OBVIOUS
  <2>1. k \notin ToolBlocks(u)
    BY DEF ToolBlocks, r, s
  <2>2. \A b \in ToolBlocks(u) : v[b] = s[b]
    BY <2>1, <1>10
  <2>3. \A b \in ToolBlocks(u) : t.blocks[b].call = u.blocks[b].call /\ t.blocks[b].parts = u.blocks[b].parts
    BY <2>2 DEF v, s
  <2> QED BY <2>3, SameCalls
<1> QED BY <1>2, <1>3, <1>4, <1>5, <1>7, <1>8, <1>9, <1>10, <1>11 DEF r, s, v, k

\* convertEvent follows the upstream by one event.
LEMMA ConvertedAfter ==
  ASSUME NEW u, UpstreamInv(u), NEW ev, Sendable(u, ev), NEW c, Converted(u, c)
  PROVE  Converted(After(u, ev), ConvertEvent(c, ev))
<1> DEFINE t == After(u, ev)
           d == ConvertEvent(c, ev)
           D == ToolIndexes(u)
           cl == c.client
<1>1. /\ ev \in UpstreamEvents /\ u \in Upstreams
      /\ ev = ErrorEvent \/ (ev # ErrorEvent /\ Legal(u.client, ev) /\ InPlace(u, ev))
  BY SendableIs DEF UpstreamInv
<1>2. /\ t.client = IF ev = ErrorEvent THEN u.client ELSE See(u.client, ev)
      /\ t.text = IF ev.kind = "text" THEN u.text \o ev.text ELSE u.text
      /\ t.blocks = Added(u.blocks, ev)
  BY <1>1, AfterFields
<1>3. UpstreamInv(t)
  BY UpstreamAfter
<1>4. /\ u.blocks \in UpstreamBlocks /\ t.blocks \in UpstreamBlocks
      /\ ev.text \in Seq(Words) /\ u.text \in Seq(Words)
      /\ ev.index \in Nat /\ ev.call \in Nat
  BY <1>1, <1>3 DEF UpstreamInv, Upstreams, UpstreamEvents
<1>5. c \in ConvStates(D) /\ ConvFits(u, c)
  BY DEF Converted
<1>6. cl \in ConvClients /\ c.toolIdx \in [D -> Nat] /\ DOMAIN c.toolIdx = D
  BY <1>5 DEF ConvStates
<1>7. /\ u.client.endings = IF u.client.phase \in {"ending", "stopped"} THEN 1 ELSE 0
      /\ t.client.endings = IF t.client.phase \in {"ending", "stopped"} THEN 1 ELSE 0
  BY <1>3 DEF UpstreamInv
<1>8. u.client.phase = "content" => Timely(cl)
  <2> SUFFICES ASSUME u.client.phase = "content" PROVE Timely(cl)
    OBVIOUS
  <2>1. u.client.endings = 0
    BY <1>7
  <2>2. cl.roles = 1 /\ ~(cl.finish # "none")
    BY <2>1, <1>5 DEF ConvFits
  <2>3. cl.done = (u.client.phase = "stopped") /\ cl.done \in BOOLEAN
    BY <1>5, <1>6 DEF ConvFits, ConvClients
  <2>4. ~cl.done
    BY <2>3
  <2> HIDE DEF cl
  <2> QED BY <2>2, <2>3, <2>4 DEF Timely
\* No new block.
<1>9. ~Opening(u, ev) => ToolBlocks(t) = ToolBlocks(u) /\ ToolIndexes(t) = D
  <2> SUFFICES ASSUME ~Opening(u, ev) PROVE ToolBlocks(t) = ToolBlocks(u) /\ ToolIndexes(t) = D
    OBVIOUS
  <2>1. Len(t.blocks) = Len(u.blocks) /\ \A i \in 1..Len(u.blocks) : t.blocks[i].kind = u.blocks[i].kind
    <3> DEFINE s == u.blocks
               v == Added(u.blocks, ev)
    <3>1. Growing(u, ev) => Len(v) = Len(s) /\ \A i \in 1..Len(s) : v[i].kind = s[i].kind
      <4> SUFFICES ASSUME Growing(u, ev) PROVE Len(v) = Len(s) /\ \A i \in 1..Len(s) : v[i].kind = s[i].kind
        OBVIOUS
      <4> DEFINE k == ev.index + 1
                 r == s[k]
      <4>1. /\ Len(v) = Len(s) /\ k \in 1..Len(s) /\ r \in SentBlock
            /\ \A i \in 1..Len(s) : i # k => v[i] = s[i]
            /\ v[k] = AddPieces(r, ev)
        BY <1>1, AddedIs
      <4> HIDE DEF r, v, k
      <4>2. AddPieces(r, ev).kind = r.kind
        BY <4>1, <1>1, AddPiecesIs
      <4> QED BY <4>1, <4>2 DEF r
    <3>2. ~Growing(u, ev) => v = s
      BY <1>1, AddedIs
    <3>3. t.blocks = v
      BY <1>2
    <3> HIDE DEF v, t
    <3> QED BY <3>1, <3>2, <3>3
  <2> HIDE DEF t
  <2> QED BY <2>1, <1>4, SameTools
<1>10. ev.text = <<>> \/ ev.kind # "text" => t.text = u.text
  <2>1. u.text \o <<>> = u.text
    BY <1>4
  <2> QED BY <1>2, <2>1
\* Nothing new in the blocks.
<1>s. ~Opening(u, ev) /\ ~Growing(u, ev) =>
        Thought(t) = Thought(u) /\ PiecesFit(t, c.toolIdx, cl.calls)
  <2> SUFFICES ASSUME ~Opening(u, ev), ~Growing(u, ev)
               PROVE  Thought(t) = Thought(u) /\ PiecesFit(t, c.toolIdx, cl.calls)
    OBVIOUS
  <2>1. t.blocks = u.blocks
    BY <1>1, <1>2, AddedIs
  <2>2. PiecesFit(u, c.toolIdx, cl.calls)
    BY <1>5 DEF ConvFits
  <2> HIDE DEF t, cl
  <2>3. Thought(t) = Thought(u)
    BY <2>1, SameThought
  <2>4. PiecesFit(t, c.toolIdx, cl.calls)
    BY <2>1, <2>2, <1>9, SameCalls
  <2> QED BY <2>3, <2>4
<1> HIDE DEF t, d, D, cl
<1> SUFFICES d \in ConvStates(ToolIndexes(t)) /\ ConvFits(t, d)
  BY DEF Converted, t, d
<1>11. CASE ev = ErrorEvent
  <2>1. d = c
    BY <1>11, ErrorFields DEF d, ConvertEvent
  <2>2. ~Opening(u, ev) /\ ~Growing(u, ev) /\ t.client = u.client /\ t.text = u.text
    BY <1>11, <1>2, <1>10, ErrorFields DEF Opening, Growing
  <2> QED BY <2>1, <2>2, <1>5, <1>9, <1>s DEF ConvFits, D, cl
<1>12. CASE ev # ErrorEvent /\ Starting(u, ev)
  <2>1. ev.type = "message_start" /\ u.client.phase = "none" /\ ev.text = <<>> /\ ~Opening(u, ev)
        /\ ~Growing(u, ev)
    BY <1>12 DEF Starting, Opening, Growing
  <2>2. t.client.phase = "content" /\ t.client.endings = u.client.endings
    BY <1>12, <1>1, <1>2, SeeInPlace
  <2>3. c.emittedRole = FALSE /\ cl.roles = 0
    BY <2>1, <1>5 DEF ConvFits, cl
  <2> DEFINE e == TakeRole(cl)
  <2>4. /\ e \in ConvClients /\ e.roles = 1 /\ e.text = cl.text /\ e.calls = cl.calls
        /\ e.reasoning = cl.reasoning /\ e.finish = cl.finish /\ e.done = cl.done
    BY <1>6, <2>3, RoleTaken
  <2>5. d = [c EXCEPT !.emittedRole = TRUE, !.client = e]
    BY <2>1, <2>3 DEF d, ConvertEvent, OnMessageStart, cl
  <2> HIDE DEF e
  <2>6. d \in ConvStates(D) /\ d.emittedRole = TRUE /\ d.client = e /\ d.toolIdx = c.toolIdx
    BY <2>4, <2>5, <1>5 DEF ConvStates
  <2> QED BY <2>1, <2>2, <2>4, <2>6, <1>5, <1>9, <1>10, <1>s DEF ConvFits, cl, D
<1>13. CASE ev # ErrorEvent /\ Opening(u, ev)
  <2> DEFINE n == Len(u.blocks)
  <2>1. /\ ev.type = "content_block_start" /\ u.client.phase = "content" /\ ev.text = <<>>
        /\ ev.index = n
    BY <1>13 DEF Opening, UpstreamInv
  <2>2. t.client.phase = "content" /\ t.client.endings = u.client.endings
    BY <2>1, <1>13, <1>1, <1>2, SeeInPlace
  <2>3. /\ Len(t.blocks) = n + 1 /\ \A i \in 1..n : t.blocks[i] = u.blocks[i]
        /\ t.blocks[n + 1].kind = ev.kind /\ t.blocks[n + 1].call = ev.call
        /\ t.blocks[n + 1].parts = <<>>
    <3> DEFINE s == u.blocks
               v == Added(u.blocks, ev)
    <3>1. /\ Len(v) = Len(s) + 1 /\ \A i \in 1..Len(s) : v[i] = s[i]
          /\ v[Len(s) + 1] = [kind |-> ev.kind, call |-> ev.call, parts |-> <<>>, opaque |-> 0]
      BY <1>1, <1>13, AddedIs
    <3>2. t.blocks = v
      BY <1>2
    <3> HIDE DEF v
    <3> QED BY <3>1, <3>2
  <2>t. Thought(t) = Thought(u)
    BY <2>3, <1>4, ThoughtOpening
  <2>4. /\ n \in Nat
        /\ IsFiniteSet(ToolBlocks(u)) /\ IsFiniteSet(D)
        /\ n + 1 \notin ToolBlocks(u) /\ n \notin D
        /\ ev.kind = "tool_use" =>
             ToolBlocks(t) = ToolBlocks(u) \cup {n + 1} /\ ToolIndexes(t) = D \cup {n}
        /\ ev.kind # "tool_use" =>
             ToolBlocks(t) = ToolBlocks(u) /\ ToolIndexes(t) = D
    BY <2>3, <1>4, MoreTools DEF D
  <2> HIDE DEF n
  <2>5. CASE ev.kind # "tool_use"
    <3>1. d = c
      BY <2>1, <2>5 DEF d, ConvertEvent, OnBlockStart
    <3>2. PiecesFit(t, c.toolIdx, cl.calls)
      <4>1. \A b \in ToolBlocks(u) : b \in 1..n
        BY <1>4, ToolIndexOf DEF n
      <4>2. \A b \in ToolBlocks(u) : t.blocks[b].call = u.blocks[b].call
                                     /\ t.blocks[b].parts = u.blocks[b].parts
        BY <4>1, <2>3
      <4>3. PiecesFit(u, c.toolIdx, cl.calls)
        BY <1>5 DEF ConvFits, cl
      <4> QED BY <4>2, <4>3, <2>4, <2>5, SameCalls
    <3> QED BY <2>1, <2>2, <2>4, <2>5, <2>t, <3>1, <3>2, <1>5, <1>10 DEF ConvFits, D, cl
  <2>6. CASE ev.kind = "tool_use"
    <3> DEFINE k == Len(cl.calls)
               e == TakeCall(cl, k, ev.call)
               f == Put(c.toolIdx, n, k)
    <3>1. k \in Nat /\ k = Cardinality(D) /\ k = Cardinality(ToolBlocks(u))
      <4>1. k = Cardinality(D) /\ k = Cardinality(ToolBlocks(u))
        BY <1>5 DEF ConvFits, cl, D
      <4> QED BY <4>1, <2>4, FS_CardinalityType
    <3>2. Cardinality(ToolBlocks(t)) = k + 1 /\ Cardinality(ToolIndexes(t)) = k + 1
      <4>1. Cardinality(ToolBlocks(u) \cup {n + 1}) = Cardinality(ToolBlocks(u)) + 1
        BY <2>4, FS_AddElement
      <4>2. Cardinality(D \cup {n}) = Cardinality(D) + 1
        BY <2>4, FS_AddElement
      <4> HIDE DEF k
      <4> QED BY <4>1, <4>2, <3>1, <2>4, <2>6
    <3>3. /\ e \in ConvClients /\ e.roles = cl.roles /\ e.text = cl.text
          /\ e.calls = Append(cl.calls, [id |-> ev.call, args |-> <<>>]) /\ Len(e.calls) = k + 1
          /\ e.reasoning = cl.reasoning /\ e.finish = cl.finish /\ e.done = cl.done
      BY <1>4, <1>6, <1>8, <2>1, CallTaken
    <3>4. d = [c EXCEPT !.toolIdx = f, !.client = e]
      BY <2>1, <2>6, <3>1, <1>6 DEF d, ConvertEvent, OnBlockStart, cl
    <3>5. f \in [D \cup {n} -> Nat] /\ \A x \in D \cup {n} : f[x] = IF x = n THEN k ELSE c.toolIdx[x]
      <4> HIDE DEF k
      <4> QED BY <1>6, <3>1 DEF Put
    <3> HIDE DEF e, f, k
    <3>6. d \in ConvStates(ToolIndexes(t)) /\ d.emittedRole = c.emittedRole /\ d.client = e /\ d.toolIdx = f
      BY <2>4, <2>6, <3>3, <3>4, <3>5, <1>5 DEF ConvStates
    <3>7. \A b \in D : c.toolIdx[b] \in Nat /\ c.toolIdx[b] < k
      BY <1>5, <1>6 DEF ConvFits, cl, D, k
    <3>8. \A b \in ToolIndexes(t) : f[b] < k + 1
      BY <2>4, <2>6, <3>1, <3>5, <3>7
    <3>9. PiecesFit(t, f, e.calls)
      <4>1. PiecesFit(u, c.toolIdx, cl.calls) /\ Len(cl.calls) = Cardinality(ToolBlocks(u))
        BY <1>5 DEF ConvFits, cl
      <4>2. cl.calls \in Seq([id: Nat, args: Seq(Nat)])
        BY <1>6 DEF ConvClients
      <4>3. f[Len(u.blocks)] = Len(cl.calls) /\ \A b \in ToolIndexes(u) : f[b] = c.toolIdx[b]
        BY <3>5, <2>4 DEF n, k, D
      <4>4. \A b \in ToolIndexes(u) : c.toolIdx[b] \in Nat /\ c.toolIdx[b] < Len(cl.calls)
        BY <3>7 DEF D, k
      <4>5. /\ ToolBlocks(t) = ToolBlocks(u) \cup {Len(u.blocks) + 1}
            /\ \A i \in 1..Len(u.blocks) : t.blocks[i] = u.blocks[i]
            /\ t.blocks[Len(u.blocks) + 1].call = ev.call
            /\ t.blocks[Len(u.blocks) + 1].parts = <<>>
        BY <2>3, <2>4, <2>6 DEF n
      <4>6. CallBegun(u, t, c.toolIdx, f, cl.calls, ev.call)
        BY <4>1, <4>2, <4>3, <4>4, <4>5, <1>4, <2>4 DEF CallBegun
      <4>7. PiecesFit(t, f, Append(cl.calls, [id |-> ev.call, args |-> <<>>]))
        BY <4>1, <4>6, MoreCalls
      <4> QED BY <4>7, <3>3
    <3> QED BY <2>1, <2>2, <2>t, <3>2, <3>3, <3>6, <3>8, <3>9, <1>5, <1>10 DEF ConvFits, cl
  <2> QED BY <2>5, <2>6
<1>14. CASE ev # ErrorEvent /\ Growing(u, ev)
  <2>1. ev.type = "content_block_delta" /\ u.client.phase = "content" /\ ~Opening(u, ev)
    BY <1>14 DEF Growing, Opening
  <2>2. t.client.phase = "content" /\ t.client.endings = u.client.endings
    BY <2>1, <1>14, <1>1, <1>2, SeeInPlace
  <2> DEFINE k == ev.index + 1
             r == u.blocks[k]
  <2>3. /\ k \in DOMAIN u.blocks /\ r \in SentBlock /\ Suits(r, ev)
        /\ ev.kind = "thinking" => Thought(t) = TRUE
        /\ ev.kind # "thinking" => Thought(t) = Thought(u)
        /\ r.kind # "tool_use" => \A idx, calls : PiecesFit(u, idx, calls) => PiecesFit(t, idx, calls)
        /\ t.blocks[k].call = r.call
        /\ ev.kind = "tool_use" => t.blocks[k].parts = Append(r.parts, ev.call)
        /\ \A b \in ToolBlocks(u) : b # k => t.blocks[b] = u.blocks[b]
    <3>1. UpstreamInv(u) /\ ev \in UpstreamEvents /\ InPlace(u, ev) /\ Growing(u, ev)
          /\ t.blocks = Added(u.blocks, ev) /\ ToolBlocks(t) = ToolBlocks(u)
      BY <1>1, <1>2, <1>9, <1>14, <2>1
    <3> QED BY <3>1, GrowingMeans
  <2>4. k \in 1..Len(u.blocks) /\ ev.index \in 0..Len(u.blocks) - 1
    <3>1. DOMAIN u.blocks = 1..Len(u.blocks) /\ Len(u.blocks) \in Nat
      BY <1>4 DEF UpstreamBlocks
    <3> QED BY <2>3, <3>1, <1>4
  <2>5. PiecesFit(u, c.toolIdx, cl.calls)
    BY <1>5 DEF ConvFits, cl
  <2> HIDE DEF r
  <2>6. CASE ev.kind = "text"
    <3> DEFINE e == TakeText(cl, ev.text)
    <3>1. /\ e \in ConvClients /\ e.roles = cl.roles /\ e.text = cl.text \o ev.text /\ e.calls = cl.calls
          /\ e.reasoning = cl.reasoning /\ e.finish = cl.finish /\ e.done = cl.done
      BY <1>4, <1>6, <1>8, <2>1, TextTaken
    <3>2. d = [c EXCEPT !.client = e]
      BY <2>1, <2>6 DEF d, ConvertEvent, OnBlockDelta, cl
    <3> HIDE DEF e
    <3>3. d \in ConvStates(D) /\ d.emittedRole = c.emittedRole /\ d.client = e /\ d.toolIdx = c.toolIdx
      BY <3>1, <3>2, <1>5 DEF ConvStates
    <3>4. r.kind = "text"
      BY <2>3, <2>6 DEF Suits, Opaque
    <3>5. Thought(t) = Thought(u) /\ PiecesFit(t, c.toolIdx, cl.calls)
      BY <3>4, <2>3, <2>5, <2>6
    <3> QED BY <2>1, <2>2, <2>6, <3>1, <3>3, <3>5, <1>2, <1>5, <1>9 DEF ConvFits, cl, D
  <2>7. CASE ev.kind = "thinking"
    <3> DEFINE e == TakeReasoning(cl)
    <3>1. /\ e \in ConvClients /\ e.roles = cl.roles /\ e.text = cl.text /\ e.calls = cl.calls
          /\ e.reasoning = TRUE /\ e.finish = cl.finish /\ e.done = cl.done
      BY <1>6, <1>8, <2>1, ReasoningTaken
    <3>2. d = [c EXCEPT !.client = e]
      BY <2>1, <2>7 DEF d, ConvertEvent, OnBlockDelta, cl
    <3> HIDE DEF e
    <3>3. d \in ConvStates(D) /\ d.emittedRole = c.emittedRole /\ d.client = e /\ d.toolIdx = c.toolIdx
      BY <3>1, <3>2, <1>5 DEF ConvStates
    <3>4. r.kind = "thinking"
      BY <2>3, <2>7 DEF Suits, Opaque
    <3>5. Thought(t) = TRUE /\ PiecesFit(t, c.toolIdx, cl.calls)
      BY <3>4, <2>3, <2>5, <2>7
    <3> QED BY <2>1, <2>2, <2>7, <3>1, <3>3, <3>5, <1>5, <1>9, <1>10 DEF ConvFits, cl, D
  <2>8. CASE ev.kind = Opaque \/ (ev.kind = "tool_use" /\ r.kind # "tool_use")
    <3>1. ev.kind = Opaque => r.kind # "tool_use"
      BY <2>3 DEF Suits, Opaque
    <3>2. ev.kind # "text" /\ ev.kind # "thinking"
      BY <2>8 DEF Opaque
    <3>3. Thought(t) = Thought(u) /\ PiecesFit(t, c.toolIdx, cl.calls)
      BY <3>1, <3>2, <2>3, <2>5, <2>8
    <3>4. d = c
      <4>1. CASE ev.kind = Opaque
        BY <4>1, <2>1 DEF d, ConvertEvent, OnBlockDelta, Opaque
      <4>2. CASE ev.kind = "tool_use" /\ r.kind # "tool_use"
        <5>1. ev.index \notin D
          BY <4>2 DEF D, ToolIndexes, r
        <5> QED BY <4>2, <5>1, <2>1, <1>6 DEF d, ConvertEvent, OnBlockDelta
      <4> QED BY <4>1, <4>2, <2>8
    <3> QED BY <2>1, <2>2, <3>2, <3>3, <3>4, <1>5, <1>9, <1>10 DEF ConvFits, cl, D
  <2>9. CASE ev.kind = "tool_use" /\ r.kind = "tool_use"
    <3> DEFINE j == c.toolIdx[ev.index]
               e == TakeArguments(cl, j, ev.call)
    <3>0. ev.index \in D
      BY <2>4, <2>9 DEF ToolIndexes, D, r
    <3>1. j \in Nat /\ j < Len(cl.calls)
      BY <3>0, <1>5, <1>6 DEF ConvFits, cl, D
    <3> HIDE DEF j
    <3>2. /\ e \in ConvClients /\ e.roles = cl.roles /\ e.text = cl.text
          /\ Len(e.calls) = Len(cl.calls)
          /\ e.reasoning = cl.reasoning /\ e.finish = cl.finish /\ e.done = cl.done
      BY <1>4, <1>6, <1>8, <2>1, <3>1, ArgumentsTaken
    <3>c. /\ \A i \in 1..Len(cl.calls) : i # j + 1 => e.calls[i] = cl.calls[i]
          /\ e.calls[j + 1] = [id |-> cl.calls[j + 1].id, args |-> Append(cl.calls[j + 1].args, ev.call)]
      BY <1>4, <1>6, <1>8, <2>1, <3>1, ArgumentsTaken
    <3>3. d = [c EXCEPT !.client = e]
      BY <2>1, <2>9, <3>0, <1>6 DEF d, ConvertEvent, OnBlockDelta, cl, j
    <3> HIDE DEF e
    <3>4. d \in ConvStates(D) /\ d.emittedRole = c.emittedRole /\ d.client = e /\ d.toolIdx = c.toolIdx
      BY <3>2, <3>3, <1>5 DEF ConvStates
    <3>5. PiecesFit(t, c.toolIdx, e.calls)
      <4>1. k \in ToolBlocks(u)
        BY <2>3, <2>9 DEF ToolBlocks, r
      <4>2. k - 1 = ev.index /\ Len(cl.calls) \in Nat /\ DOMAIN cl.calls = 1..Len(cl.calls)
        BY <1>4, <1>6 DEF ConvClients
      <4>3. \A b \in ToolBlocks(u) : c.toolIdx[b - 1] \in Nat /\ c.toolIdx[b - 1] + 1 \in DOMAIN cl.calls
        <5> SUFFICES ASSUME NEW b \in ToolBlocks(u)
                     PROVE  c.toolIdx[b - 1] \in Nat /\ c.toolIdx[b - 1] + 1 \in DOMAIN cl.calls
          OBVIOUS
        <5>1. b - 1 \in D
          BY <1>4, ToolIndexOf DEF D
        <5>2. c.toolIdx[b - 1] \in Nat /\ c.toolIdx[b - 1] < Len(cl.calls)
          BY <5>1, <1>5, <1>6 DEF ConvFits, cl, D
        <5> QED BY <5>2, <4>2
      <4>4. j = c.toolIdx[k - 1]
        BY <4>2 DEF j
      <4> HIDE DEF k
      <4>5. t.blocks[k].call = u.blocks[k].call /\ t.blocks[k].parts = Append(u.blocks[k].parts, ev.call)
        BY <2>3, <2>9 DEF r
      <4>6. \A b \in ToolBlocks(u) : b # k => t.blocks[b] = u.blocks[b]
        BY <2>3
      <4>7. /\ \A i \in DOMAIN cl.calls : i # c.toolIdx[k - 1] + 1 => e.calls[i] = cl.calls[i]
            /\ e.calls[c.toolIdx[k - 1] + 1] = [id |-> cl.calls[c.toolIdx[k - 1] + 1].id,
                                                args |-> Append(cl.calls[c.toolIdx[k - 1] + 1].args, ev.call)]
        BY <3>c, <4>2, <4>4
      <4>8. Longer(u, t, k, ev.call, c.toolIdx, cl.calls, e.calls)
        BY <4>1, <4>3, <4>5, <4>6, <4>7, <1>9, <2>1 DEF Longer
      <4> QED BY <4>8, <2>5, LongerCall
    <3>6. Thought(t) = Thought(u)
      BY <2>3, <2>9
    <3> QED BY <2>1, <2>2, <2>9, <3>2, <3>4, <3>5, <3>6, <1>5, <1>9, <1>10 DEF ConvFits, cl, D
  <2>10. ev.kind = "text" \/ ev.kind = "thinking" \/ ev.kind = Opaque \/ ev.kind = "tool_use"
    BY <2>3 DEF Suits
  <2> QED BY <2>6, <2>7, <2>8, <2>9, <2>10
<1>15. CASE ev # ErrorEvent /\ Closing(u, ev)
  <2>1. ev.type = "content_block_stop" /\ ~Opening(u, ev) /\ ~Growing(u, ev) /\ ev.text = <<>>
    BY <1>15 DEF Closing, Opening, Growing
  <2>2. t.client.phase = u.client.phase /\ t.client.endings = u.client.endings
    BY <1>15, <1>1, <1>2, SeeInPlace
  <2>3. d = c
    BY <2>1 DEF d, ConvertEvent
  <2> QED BY <2>1, <2>2, <2>3, <1>5, <1>9, <1>10, <1>s DEF ConvFits, D, cl
<1>16. CASE ev # ErrorEvent /\ Finishing(u, ev)
  <2>1. /\ ev.type = "message_delta" /\ u.client.phase = "content" /\ ~Opening(u, ev) /\ ev.text = <<>>
        /\ ev.stop_reason \in {"end_turn", "tool_use"} /\ ~Growing(u, ev)
    BY <1>16 DEF Finishing, Opening, Growing
  <2>2. t.client.phase = "ending"
    BY <1>16, <1>1, <1>2, SeeInPlace
  <2> DEFINE r == FinishReasonOf(ev.stop_reason)
             e == TakeFinish(cl, r)
  <2>3. r \in {"stop", "length", "tool_calls"}
    BY DEF FinishReasonOf
  <2> HIDE DEF r
  <2>4. /\ e \in ConvClients /\ e.roles = cl.roles /\ e.text = cl.text /\ e.calls = cl.calls
        /\ e.reasoning = cl.reasoning /\ e.finish = r /\ e.done = cl.done
    BY <1>6, <1>8, <2>1, <2>3, FinishTaken
  <2>5. d = [c EXCEPT !.client = e]
    BY <2>1 DEF d, ConvertEvent, cl, r
  <2> HIDE DEF e
  <2>6. d \in ConvStates(D) /\ d.emittedRole = c.emittedRole /\ d.client = e /\ d.toolIdx = c.toolIdx
    BY <2>4, <2>5, <1>5 DEF ConvStates
  <2> QED BY <2>1, <2>2, <2>3, <2>4, <2>6, <1>5, <1>7, <1>9, <1>10, <1>s DEF ConvFits, cl, D
<1>17. CASE ev # ErrorEvent /\ Stopping(u, ev)
  <2>1. ev.type = "message_stop" /\ u.client.phase = "ending" /\ ~Opening(u, ev) /\ ~Growing(u, ev) /\ ev.text = <<>>
    BY <1>17 DEF Stopping, Opening, Growing
  <2>2. t.client.phase = "stopped"
    BY <1>17, <1>1, <1>2, SeeInPlace
  <2> DEFINE e == TakeDone(cl)
  <2>3. cl.done = FALSE /\ cl.finish # "none"
    BY <2>1, <1>5, <1>7 DEF ConvFits, cl
  <2>4. /\ e \in ConvClients /\ e.roles = cl.roles /\ e.text = cl.text /\ e.calls = cl.calls
        /\ e.reasoning = cl.reasoning /\ e.finish = cl.finish /\ e.done = TRUE
    BY <1>6, <2>3, DoneTaken
  <2>5. d = [c EXCEPT !.client = e]
    BY <2>1 DEF d, ConvertEvent, cl
  <2> HIDE DEF e
  <2>6. d \in ConvStates(D) /\ d.emittedRole = c.emittedRole /\ d.client = e /\ d.toolIdx = c.toolIdx
    BY <2>4, <2>5, <1>5 DEF ConvStates
  <2> QED BY <2>1, <2>2, <2>3, <2>4, <2>6, <1>5, <1>7, <1>9, <1>10, <1>s DEF ConvFits, cl, D
<1> QED BY <1>1, <1>11, <1>12, <1>13, <1>14, <1>15, <1>16, <1>17 DEF InPlace

-------------------------------------------------------------------------------
(* The message put together.                                                   *)

\* A block that grows, and a block that begins.
LEMMA GrowIs ==
  ASSUME NEW g \in GatheredBlocks, NEW ev \in UpstreamEvents
  PROVE  LET h == Grow(g, ev) IN
         /\ h \in GatheredBlocks /\ h.kind = g.kind /\ h.call = g.call
         /\ h.text = IF ev.kind = "text" THEN g.text \o ev.text ELSE g.text
         /\ h.thinking = IF ev.kind = "thinking" THEN g.thinking \o ev.text ELSE g.thinking
         /\ h.args = IF ev.kind = "tool_use" THEN Append(g.args, ev.call) ELSE g.args
<1> DEFINE x == g.text \o ev.text
           y == g.thinking \o ev.text
           z == Append(g.args, ev.call)
           W == Seq(Words)
           N == Seq(Nat)
           K == Kinds \cup {Opaque}
<1>1. g \in [kind: K, text: W, thinking: W, call: Nat, args: N] /\ ev.text \in W /\ ev.call \in Nat
  BY DEF GatheredBlocks, UpstreamEvents
<1>2. x \in W /\ y \in W /\ z \in N
  <2>1. g.text \in Seq(Words) /\ g.thinking \in Seq(Words) /\ g.args \in Seq(Nat)
    BY <1>1
  <2> QED BY <2>1, <1>1
<1>3. Grow(g, ev) = CASE ev.kind = "text" -> [g EXCEPT !.text = x]
                      [] ev.kind = "thinking" -> [g EXCEPT !.thinking = y]
                      [] ev.kind = "tool_use" -> [g EXCEPT !.args = z]
                      [] OTHER -> g
  BY DEF Grow
<1> HIDE DEF x, y, z, W, N, K
<1> DEFINE h == Grow(g, ev)
<1> HIDE DEF h
<1>4. /\ h \in [kind: K, text: W, thinking: W, call: Nat, args: N] /\ h.kind = g.kind /\ h.call = g.call
      /\ h.text = IF ev.kind = "text" THEN x ELSE g.text
      /\ h.thinking = IF ev.kind = "thinking" THEN y ELSE g.thinking
      /\ h.args = IF ev.kind = "tool_use" THEN z ELSE g.args
  <2>1. CASE ev.kind = "text"
    BY <2>1, <1>1, <1>2, <1>3 DEF h
  <2>2. CASE ev.kind = "thinking"
    BY <2>2, <1>1, <1>2, <1>3 DEF h
  <2>3. CASE ev.kind = "tool_use"
    BY <2>3, <1>1, <1>2, <1>3 DEF h
  <2>4. CASE ev.kind \notin {"text", "thinking", "tool_use"}
    BY <2>4, <1>1, <1>2, <1>3 DEF h
  <2> QED BY <2>1, <2>2, <2>3, <2>4
<1> QED BY <1>4 DEF h, x, y, z, W, N, K, GatheredBlocks

LEMMA GrowFits ==
  ASSUME NEW b \in SentBlock, NEW g \in GatheredBlocks, NEW ev \in UpstreamEvents, Suits(b, ev),
         BlockFits(b, g)
  PROVE  Grow(g, ev) \in GatheredBlocks /\ BlockFits(AddPieces(b, ev), Grow(g, ev))
<1> DEFINE v == AddPieces(b, ev)
           h == Grow(g, ev)
<1>1. v.kind = b.kind /\ v.call = b.call /\ v.parts = b.parts \o PartsOf(ev) /\ b.parts \in SentParts
  <2>1. b.parts \in SentParts
    BY DEF SentBlock
  <2> QED BY <2>1, AddPiecesIs
<1>2. /\ h \in GatheredBlocks /\ h.kind = g.kind /\ h.call = g.call
      /\ h.text = IF ev.kind = "text" THEN g.text \o ev.text ELSE g.text
      /\ h.thinking = IF ev.kind = "thinking" THEN g.thinking \o ev.text ELSE g.thinking
      /\ h.args = IF ev.kind = "tool_use" THEN Append(g.args, ev.call) ELSE g.args
  BY GrowIs
<1>3. /\ g.kind = b.kind /\ g.call = b.call
      /\ b.kind = "text" => g.text = b.parts
      /\ b.kind = "thinking" => g.thinking = b.parts
      /\ b.kind = "tool_use" => g.args = b.parts
  BY DEF BlockFits
<1>4. /\ b.parts \o <<>> = b.parts
      /\ \A x : b.parts \o <<x>> = Append(b.parts, x)
  BY <1>1 DEF SentParts
<1>5. /\ ev.kind \in {"text", "thinking"} => PartsOf(ev) = ev.text
      /\ ev.kind = "tool_use" => PartsOf(ev) = <<ev.call>>
      /\ ev.kind = Opaque => PartsOf(ev) = <<>>
  BY PartsAre
<1> HIDE DEF v, h
<1>6. b.kind = "text" => h.text = v.parts
  BY <1>1, <1>2, <1>3, <1>4, <1>5 DEF Suits, Opaque
<1>7. b.kind = "thinking" => h.thinking = v.parts
  BY <1>1, <1>2, <1>3, <1>4, <1>5 DEF Suits, Opaque
<1>8. b.kind = "tool_use" => h.args = v.parts
  BY <1>1, <1>2, <1>3, <1>4, <1>5 DEF Suits, Opaque
<1>9. BlockFits(v, h)
  BY <1>1, <1>2, <1>3, <1>6, <1>7, <1>8 DEF BlockFits
<1> QED BY <1>2, <1>9 DEF v, h

LEMMA BlockOfIs ==
  ASSUME NEW ev \in UpstreamEvents, ev.kind \in Kinds \cup {Opaque}
  PROVE  /\ BlockOf(ev) \in GatheredBlocks
         /\ BlockFits([kind |-> ev.kind, call |-> ev.call, parts |-> <<>>, opaque |-> 0], BlockOf(ev))
<1>1. ev.call \in Nat /\ <<>> \in Seq(Words) /\ <<>> \in Seq(Nat)
  BY DEF UpstreamEvents
<1> QED BY <1>1 DEF BlockOf, GatheredBlocks, BlockFits

\* So does sseBytesToMessage.
LEMMA GatheredAfter ==
  ASSUME NEW u, UpstreamInv(u), NEW ev, Sendable(u, ev), NEW m, Gathered(u, m)
  PROVE  Gathered(After(u, ev), Gather(m, ev))
<1> DEFINE t == After(u, ev)
           d == Gather(m, ev)
           n == Len(u.blocks)
           s == u.blocks
           v == t.blocks
<1>1. /\ ev \in UpstreamEvents /\ u \in Upstreams
      /\ ev = ErrorEvent \/ (ev # ErrorEvent /\ Legal(u.client, ev) /\ InPlace(u, ev))
  BY SendableIs DEF UpstreamInv
<1>2. /\ t.client = IF ev = ErrorEvent THEN u.client ELSE See(u.client, ev)
      /\ v = Added(s, ev)
  BY <1>1, AfterFields
<1>3. UpstreamInv(t)
  BY UpstreamAfter
<1>4. s \in UpstreamBlocks /\ v \in UpstreamBlocks /\ ev.index \in Nat
  BY <1>1, <1>3 DEF UpstreamInv, Upstreams, UpstreamEvents
<1>5. m \in MessageStates(n) /\ MessageFits(u, m)
  BY DEF Gathered
<1>6. n \in Nat /\ m.blocks \in [0..n - 1 -> GatheredBlocks] /\ DOMAIN m.blocks = 0..n - 1
  BY <1>4, <1>5 DEF MessageStates, UpstreamBlocks
<1>7. /\ u.client.endings = IF u.client.phase \in {"ending", "stopped"} THEN 1 ELSE 0
      /\ t.client.endings = IF t.client.phase \in {"ending", "stopped"} THEN 1 ELSE 0
  BY <1>3 DEF UpstreamInv
<1>8. ~Opening(u, ev) /\ ~Growing(u, ev) => v = s
  <2> HIDE DEF v
  <2> QED BY <1>1, <1>2, AddedIs
<1> HIDE DEF t, d, n, s, v
<1> SUFFICES d \in MessageStates(Len(v)) /\ MessageFits(t, d)
  BY DEF Gathered, t, d, v
\* Events that are not of a block, and the end of one.
<1>9. ASSUME v = s, t.client.endings = u.client.endings, d = m
      PROVE  d \in MessageStates(Len(v)) /\ MessageFits(t, d)
  BY <1>9, <1>5 DEF MessageFits, v, s, n
<1>11. CASE ev = ErrorEvent
  <2>1. d = m
    BY <1>11, ErrorFields DEF d, Gather
  <2>2. ~Opening(u, ev) /\ ~Growing(u, ev) /\ t.client = u.client
    BY <1>11, <1>2, ErrorFields DEF Opening, Growing
  <2> QED BY <2>1, <2>2, <1>8, <1>9
<1>12. CASE ev # ErrorEvent /\ Starting(u, ev)
  <2>1. ev.type = "message_start" /\ ~Opening(u, ev) /\ ~Growing(u, ev)
    BY <1>12 DEF Starting, Opening, Growing
  <2>2. t.client.endings = u.client.endings
    BY <1>12, <1>1, <1>2, SeeInPlace
  <2>3. d = [m EXCEPT !.started = TRUE]
    BY <2>1 DEF d, Gather
  <2>4. /\ d \in MessageStates(n) /\ d.blocks = m.blocks /\ d.order = m.order
        /\ d.stop_reason = m.stop_reason
    BY <2>3, <1>5 DEF MessageStates
  <2>5. v = s
    BY <2>1, <1>8
  <2> QED BY <2>2, <2>4, <2>5, <1>5 DEF MessageFits, v, s, n
<1>13. CASE ev # ErrorEvent /\ Opening(u, ev)
  <2>1. /\ ev.type = "content_block_start" /\ ev.index = n /\ ev.kind \in Kinds \cup {Opaque}
    BY <1>13 DEF Opening, UpstreamInv, n
  <2>2. t.client.endings = u.client.endings
    BY <1>13, <1>1, <1>2, SeeInPlace
  <2>3. /\ Len(v) = n + 1 /\ \A i \in 1..n : v[i] = s[i]
        /\ v[n + 1] = [kind |-> ev.kind, call |-> ev.call, parts |-> <<>>, opaque |-> 0]
    BY <1>1, <1>2, <1>13, AddedIs DEF n, s
  <2> DEFINE b == BlockOf(ev)
             f == Put(m.blocks, n, b)
             o == Append(m.order, n)
  <2>4. b \in GatheredBlocks /\ BlockFits(v[n + 1], b)
    BY <2>1, <2>3, <1>1, BlockOfIs
  <2>5. d = [m EXCEPT !.blocks = f, !.order = o]
    BY <2>1 DEF d, Gather
  <2> HIDE DEF b
  <2>6. 0..(n + 1) - 1 = (0..n - 1) \cup {n}
    BY <1>6
  <2>7. f \in [(0..n - 1) \cup {n} -> GatheredBlocks]
        /\ \A i \in (0..n - 1) \cup {n} : f[i] = IF i = n THEN b ELSE m.blocks[i]
    BY <1>6, <2>4 DEF Put
  <2>8. m.order \in Seq(Nat) /\ m.order = [i \in 1..n |-> i - 1]
    BY <1>5 DEF MessageStates, MessageFits, n
  <2>9. o \in Seq(Nat) /\ o = [i \in 1..n + 1 |-> i - 1]
    <3>1. Len(m.order) = n /\ \A i \in 1..n : m.order[i] = i - 1
      BY <2>8, <1>6
    <3> DEFINE q == m.order
    <3> HIDE DEF q
    <3>2. q \in Seq(Nat) /\ Len(q) = n /\ \A i \in 1..n : q[i] = i - 1
      BY <2>8, <3>1 DEF q
    <3>3. Append(q, n) \in Seq(Nat) /\ Append(q, n) = [i \in 1..n + 1 |-> i - 1]
      <4> DEFINE p == Append(q, n)
                 r == [i \in 1..n + 1 |-> i - 1]
      <4>1. p \in Seq(Nat) /\ Len(p) = n + 1 /\ (\A i \in 1..n : p[i] = q[i]) /\ p[n + 1] = n
        BY <3>2, <1>6
      <4>2. \A i \in 1..n + 1 : i - 1 \in Nat /\ (i \in 1..n \/ i = n + 1)
        BY <1>6
      <4>3. r \in Seq(Nat) /\ Len(r) = n + 1 /\ \A i \in 1..n + 1 : r[i] = i - 1
        BY <4>2, <1>6
      <4> HIDE DEF p, r
      <4>4. \A i \in 1..n + 1 : p[i] = r[i]
        BY <4>1, <4>2, <4>3, <3>2, <1>6
      <4>5. p = r
        BY <4>1, <4>3, <4>4, EqualSeqs
      <4> QED BY <4>1, <4>5 DEF p, r
    <3> QED BY <3>3 DEF q
  <2> HIDE DEF f, o
  <2>10. d \in MessageStates(n + 1) /\ d.blocks = f /\ d.order = o /\ d.stop_reason = m.stop_reason
    BY <2>5, <2>6, <2>7, <2>9, <1>5 DEF MessageStates
  <2>11. ASSUME NEW i \in 0..(n + 1) - 1
         PROVE  BlockFits(v[i + 1], f[i])
    <3>1. CASE i = n
      BY <3>1, <2>4, <2>6, <2>7
    <3>2. CASE i \in 0..n - 1
      <4>1. f[i] = m.blocks[i] /\ i + 1 \in 1..n
        BY <3>2, <2>7, <1>6
      <4>2. BlockFits(s[i + 1], m.blocks[i])
        BY <3>2, <1>5 DEF MessageFits, n, s
      <4> QED BY <4>1, <4>2, <2>3
    <3> QED BY <3>1, <3>2, <2>6
  <2>12. Len(t.blocks) = n + 1 /\ t.blocks = v
    BY <2>3 DEF v
  <2> QED BY <2>2, <2>3, <2>9, <2>10, <2>11, <2>12, <1>5 DEF MessageFits
<1>14. CASE ev # ErrorEvent /\ Growing(u, ev)
  <2>1. ev.type = "content_block_delta" /\ Suits(s[ev.index + 1], ev)
    BY <1>14 DEF Growing, s
  <2>2. t.client.endings = u.client.endings
    BY <1>14, <1>1, <1>2, SeeInPlace, SMTT(30)
  <2> DEFINE k == ev.index
             g == Grow(m.blocks[k], ev)
  <2>3. /\ Len(v) = n /\ k + 1 \in 1..n /\ s[k + 1] \in SentBlock
        /\ \A i \in 1..n : i # k + 1 => v[i] = s[i]
        /\ v[k + 1] = AddPieces(s[k + 1], ev)
    BY <1>1, <1>2, <1>14, AddedIs DEF n, s
  <2>4. k \in 0..n - 1
    BY <2>3, <1>4, <1>6
  <2>5. d = [m EXCEPT !.blocks = [m.blocks EXCEPT ![k] = g]]
    <3> DEFINE h(a, j) == [a EXCEPT !.blocks[j] = Grow(@, ev)]
    <3>1. ASSUME NEW a, NEW j PROVE h(a, j) = [a EXCEPT !.blocks = [a.blocks EXCEPT ![j] = Grow(a.blocks[j], ev)]]
      OBVIOUS
    <3>2. d = h(m, k)
      BY <2>1, <2>4, <1>6 DEF d, Gather, GatherDelta
    <3> HIDE DEF h
    <3> QED BY <3>1, <3>2
  <2>9. g \in GatheredBlocks /\ BlockFits(v[k + 1], g)
    <3> DEFINE r == m.blocks[k]
               b == s[k + 1]
    <3>1. r \in GatheredBlocks /\ BlockFits(b, r)
      BY <2>4, <1>5, <1>6 DEF MessageFits, n, s
    <3>2. b \in SentBlock /\ Suits(b, ev) /\ v[k + 1] = AddPieces(b, ev)
      BY <2>1, <2>3
    <3> HIDE DEF r, b
    <3>3. Grow(r, ev) \in GatheredBlocks /\ BlockFits(AddPieces(b, ev), Grow(r, ev))
      BY <3>1, <3>2, <1>1, GrowFits
    <3> QED BY <3>2, <3>3 DEF r
  <2> HIDE DEF g, k
  <2> DEFINE f == [m.blocks EXCEPT ![k] = g]
  <2>10. f \in [0..n - 1 -> GatheredBlocks]
         /\ \A i \in 0..n - 1 : f[i] = IF i = k THEN g ELSE m.blocks[i]
    BY <2>4, <2>9, <1>6
  <2> HIDE DEF f
  <2>11. /\ d \in MessageStates(n) /\ d.blocks = f /\ d.order = m.order
         /\ d.stop_reason = m.stop_reason
    BY <2>5, <2>10, <1>5 DEF MessageStates, f
  <2>12. ASSUME NEW i \in 0..n - 1
         PROVE  BlockFits(v[i + 1], f[i])
    <3>1. BlockFits(s[i + 1], m.blocks[i])
      BY <1>5 DEF MessageFits, n, s
    <3>2. i + 1 \in 1..n /\ k + 1 \in 1..n /\ (i # k => i + 1 # k + 1)
      BY <2>4, <1>6
    <3>3. CASE i = k
      BY <3>1, <3>2, <3>3, <2>3, <2>9, <2>10
    <3>4. CASE i # k
      BY <3>1, <3>2, <3>4, <2>3, <2>10
    <3> QED BY <3>3, <3>4
  <2>13. Len(t.blocks) = n /\ t.blocks = v
    BY <2>3 DEF v
  <2> QED BY <2>2, <2>3, <2>11, <2>12, <2>13, <1>5 DEF MessageFits, n
<1>15. CASE ev # ErrorEvent /\ Closing(u, ev)
  <2>1. ev.type = "content_block_stop" /\ ~Opening(u, ev) /\ ~Growing(u, ev)
    BY <1>15 DEF Closing, Opening, Growing
  <2>2. t.client.endings = u.client.endings
    BY <1>15, <1>1, <1>2, SeeInPlace
  <2>3. d = m
    BY <2>1 DEF d, Gather
  <2> QED BY <2>1, <2>2, <2>3, <1>8, <1>9
<1>16. CASE ev # ErrorEvent /\ Finishing(u, ev)
  <2>1. /\ ev.type = "message_delta" /\ ~Opening(u, ev) /\ ~Growing(u, ev)
        /\ ev.stop_reason \in {"end_turn", "tool_use"}
    BY <1>16 DEF Finishing, Opening, Growing
  <2>2. t.client.endings = 1
    <3>1. t.client.phase = "ending"
      BY <1>16, <1>1, <1>2, SeeInPlace
    <3> QED BY <3>1, <1>7
  <2>3. d = [m EXCEPT !.stop_reason = ev.stop_reason]
    BY <2>1 DEF d, Gather
  <2>4. /\ d \in MessageStates(n) /\ d.blocks = m.blocks /\ d.order = m.order
        /\ d.stop_reason # "none"
    BY <2>1, <2>3, <1>5 DEF MessageStates
  <2>5. v = s
    BY <2>1, <1>8
  <2> QED BY <2>2, <2>4, <2>5, <1>5 DEF MessageFits, v, s, n
<1>17. CASE ev # ErrorEvent /\ Stopping(u, ev)
  <2>1. ev.type = "message_stop" /\ ~Opening(u, ev) /\ ~Growing(u, ev)
    BY <1>17 DEF Stopping, Opening, Growing
  <2>2. t.client.endings = u.client.endings
    BY <1>17, <1>1, <1>2, SeeInPlace
  <2>3. d = m
    BY <2>1 DEF d, Gather
  <2> QED BY <2>1, <2>2, <2>3, <1>8, <1>9
<1> QED BY <1>1, <1>11, <1>12, <1>13, <1>14, <1>15, <1>16, <1>17 DEF InPlace

-------------------------------------------------------------------------------
(* Lines.                                                                      *)

\* The loops over lines and over events.
FollowLoop  == INSTANCE FoldTheorems WITH Step <- Follow, Good <- LAMBDA s, q, i, t : TRUE
CollectLoop == INSTANCE FoldTheorems WITH Step <- Collect, Good <- LAMBDA s, q, i, t : TRUE
ConvertLoop == INSTANCE FoldTheorems WITH Step <- ConvertEvent, Good <- LAMBDA s, q, i, t : TRUE
GatherLoop  == INSTANCE FoldTheorems WITH Step <- Gather, Good <- LAMBDA s, q, i, t : TRUE

FollowAll(s, lines)    == FoldLeft(Follow, s, lines)
CollectAll(s, lines)   == FoldLeft(Collect, s, lines)
ConvertAll(c, events)  == FoldLeft(ConvertEvent, c, events)
GatherAll(m, events)   == FoldLeft(Gather, m, events)

\* Three lines, or one event.
LEMMA FollowThree ==
  ASSUME NEW s, NEW x, NEW y, NEW z
  PROVE  FollowAll(s, <<x, y, z>>) = Follow(Follow(Follow(s, x), y), z)
<1>1. FollowAll(s, <<x, y, z>>) = FollowLoop!Run(s, <<x, y, z>>)
  BY DEF FollowAll, FollowLoop!Run, FoldLeft, FollowLoop!FoldLeft, MapThenFoldSet, FollowLoop!MapThenFoldSet,
         Max, FollowLoop!Max
<1> QED BY <1>1, FollowLoop!RunThree

LEMMA CollectThree ==
  ASSUME NEW s, NEW x, NEW y, NEW z
  PROVE  CollectAll(s, <<x, y, z>>) = Collect(Collect(Collect(s, x), y), z)
<1>1. CollectAll(s, <<x, y, z>>) = CollectLoop!Run(s, <<x, y, z>>)
  BY DEF CollectAll, CollectLoop!Run, FoldLeft, CollectLoop!FoldLeft, MapThenFoldSet, CollectLoop!MapThenFoldSet,
         Max, CollectLoop!Max
<1> QED BY <1>1, CollectLoop!RunThree

LEMMA ConvertOne ==
  ASSUME NEW c, NEW ev
  PROVE  ConvertAll(c, <<ev>>) = ConvertEvent(c, ev)
<1>1. ConvertAll(c, <<ev>>) = ConvertLoop!Run(c, <<ev>>)
  BY DEF ConvertAll, ConvertLoop!Run, FoldLeft, ConvertLoop!FoldLeft, MapThenFoldSet, ConvertLoop!MapThenFoldSet,
         Max, ConvertLoop!Max
<1> QED BY <1>1, ConvertLoop!RunOne

LEMMA GatherOne ==
  ASSUME NEW m, NEW ev
  PROVE  GatherAll(m, <<ev>>) = Gather(m, ev)
<1>1. GatherAll(m, <<ev>>) = GatherLoop!Run(m, <<ev>>)
  BY DEF GatherAll, GatherLoop!Run, FoldLeft, GatherLoop!FoldLeft, MapThenFoldSet, GatherLoop!MapThenFoldSet,
         Max, GatherLoop!Max
<1> QED BY <1>1, GatherLoop!RunOne

\* Three lines are an event.
WholeEvent(ev) == <<EventLine(ev.type), DataLine(ev), EmptyLine>>

LEMMA KeepIs ==
  ASSUME NEW lines, NEW name, NEW data, NEW ev
  PROVE  /\ Keep(NoLines, EventLine(name)) = [event |-> name, data |-> <<>>]
         /\ Keep([event |-> name, data |-> <<>>], DataLine(ev)) = [event |-> name, data |-> <<ev>>]
         /\ Keep(lines, EmptyLine) = NoLines
         /\ Ends(lines, EventLine(name)) = <<>> /\ Ends(lines, DataLine(ev)) = <<>>
         /\ name # NoName => Ends([event |-> name, data |-> <<ev>>], EmptyLine) = <<ev>>
<1>1. Keep(NoLines, EventLine(name)) = [event |-> name, data |-> <<>>]
  BY DEF Keep, NoLines, EventLine
<1>2. Append(<<>>, ev) = <<ev>> /\ Len(<<ev>>) = 1 /\ <<ev>>[1] = ev
  OBVIOUS
<1>3. Keep([event |-> name, data |-> <<>>], DataLine(ev)) = [event |-> name, data |-> <<ev>>]
  <2>1. Keep([event |-> name, data |-> <<>>], DataLine(ev))
          = [event |-> name, data |-> Append(<<>>, ev)]
    BY DEF Keep, DataLine
  <2> QED BY <1>2, <2>1
<1>4. Keep(lines, EmptyLine) = NoLines
  BY DEF Keep, EmptyLine
<1>5. Ends(lines, EventLine(name)) = <<>> /\ Ends(lines, DataLine(ev)) = <<>>
  BY DEF Ends, EventLine, DataLine
<1>6. name # NoName => Ends([event |-> name, data |-> <<ev>>], EmptyLine) = <<ev>>
  BY <1>2 DEF Ends, EmptyLine
<1> QED BY <1>1, <1>3, <1>4, <1>5, <1>6

\* Three lines are read as the event they were written for.
LEMMA EventIsRead ==
  ASSUME NEW ev \in UpstreamEvents
  PROVE  EventsOf(NoLines, WholeEvent(ev)) = [lines |-> NoLines, evs |-> <<ev>>]
<1> DEFINE s0 == [lines |-> NoLines, evs |-> <<>>]
           s1 == [lines |-> [event |-> ev.type, data |-> <<>>], evs |-> <<>>]
           s2 == [lines |-> [event |-> ev.type, data |-> <<ev>>], evs |-> <<>>]
<1>1. ev.type # NoName
  BY DEF UpstreamEvents, EventTypes, NoName
<1>0. <<>> \o <<>> = <<>> /\ <<>> \o <<ev>> = <<ev>>
  OBVIOUS
<1>2. Collect(s0, EventLine(ev.type)) = s1
  BY <1>0, KeepIs DEF Collect
<1>3. Collect(s1, DataLine(ev)) = s2
  BY <1>0, KeepIs DEF Collect
<1>4. Collect(s2, EmptyLine) = [lines |-> NoLines, evs |-> <<ev>>]
  BY <1>0, <1>1, KeepIs DEF Collect
<1>5. EventsOf(NoLines, WholeEvent(ev))
        = Collect(Collect(Collect(s0, EventLine(ev.type)), DataLine(ev)), EmptyLine)
  <2>1. EventsOf(NoLines, WholeEvent(ev)) = CollectAll(s0, WholeEvent(ev))
    BY DEF EventsOf, CollectAll
  <2> HIDE DEF s0
  <2> QED BY <2>1, CollectThree DEF WholeEvent
<1> HIDE DEF s0, s1, s2
<1> QED BY <1>2, <1>3, <1>4, <1>5

LEMMA FollowNothing ==
  ASSUME NEW s, NEW line, Ends(s.lines, line) = <<>>
  PROVE  Follow(s, line) = [s EXCEPT !.lines = Keep(s.lines, line)]
BY DEF Follow

LEMMA EventIsFollowed ==
  ASSUME NEW cl, NEW bs, NEW n \in Nat, NEW ev \in UpstreamEvents
  PROVE  FollowAll([lines |-> NoLines, client |-> cl, blocks |-> bs, errors |-> n], WholeEvent(ev))
           = [lines |-> NoLines,
              client |-> IF ev = ErrorEvent THEN cl ELSE See(cl, ev),
              blocks |-> IF ev = ErrorEvent THEN bs ELSE Added(bs, ev),
              errors |-> IF ev = ErrorEvent THEN n + 1 ELSE n]
<1> DEFINE s(l) == [lines |-> l, client |-> cl, blocks |-> bs, errors |-> n]
           l1 == [event |-> ev.type, data |-> <<>>]
           l2 == [event |-> ev.type, data |-> <<ev>>]
           end == [lines |-> NoLines,
                   client |-> IF ev = ErrorEvent THEN cl ELSE See(cl, ev),
                   blocks |-> IF ev = ErrorEvent THEN bs ELSE Added(bs, ev),
                   errors |-> IF ev = ErrorEvent THEN n + 1 ELSE n]
<1>1. ev.type # NoName
  BY DEF UpstreamEvents, EventTypes, NoName
<1>2. Follow(s(NoLines), EventLine(ev.type)) = s(l1)
  <2>1. Keep(NoLines, EventLine(ev.type)) = l1 /\ Ends(NoLines, EventLine(ev.type)) = <<>>
    BY KeepIs
  <2> HIDE DEF l1
  <2>2. s(NoLines).lines = NoLines /\ [s(NoLines) EXCEPT !.lines = l1] = s(l1)
    OBVIOUS
  <2> HIDE DEF s
  <2> QED BY <2>1, <2>2, FollowNothing
<1>3. Follow(s(l1), DataLine(ev)) = s(l2)
  <2>1. Keep(l1, DataLine(ev)) = l2 /\ Ends(l1, DataLine(ev)) = <<>>
    BY KeepIs
  <2> HIDE DEF l1, l2
  <2>2. s(l1).lines = l1 /\ [s(l1) EXCEPT !.lines = l2] = s(l2)
    OBVIOUS
  <2> HIDE DEF s
  <2> QED BY <2>1, <2>2, FollowNothing
<1>4. Follow(s(l2), EmptyLine) = end
  <2>1. Keep(l2, EmptyLine) = NoLines /\ Ends(l2, EmptyLine) = <<ev>>
    BY <1>1, KeepIs
  <2>2. <<ev>> # <<>> /\ <<ev>>[1] = ev /\ (<<ev>> = <<ErrorEvent>> <=> ev = ErrorEvent)
    OBVIOUS
  <2> HIDE DEF l2
  <2> QED BY <2>1, <2>2 DEF Follow
<1>5. FollowAll(s(NoLines), WholeEvent(ev))
        = Follow(Follow(Follow(s(NoLines), EventLine(ev.type)), DataLine(ev)), EmptyLine)
  BY FollowThree DEF WholeEvent
<1> HIDE DEF l1, l2, s, end
<1>6. FollowAll(s(NoLines), WholeEvent(ev)) = end
  BY <1>2, <1>3, <1>4, <1>5
<1> QED BY <1>6 DEF s, end

\* What ReadEmpty writes.
LEMMA LinesAre ==
  ASSUME NEW ev \in UpstreamEvents, copy = [event |-> ev.type, data |-> <<ev>>]
  PROVE  Append(Lines, EmptyLine) = WholeEvent(ev)
<1> DEFINE a == EventLine(ev.type)
           b == DataLine(ev)
           S == {a, b, EmptyLine}
<1>1. ev.type # NoName
  BY DEF UpstreamEvents, EventTypes, NoName
<1>2. copy.event = ev.type /\ copy.data = <<ev>>
  OBVIOUS
<1>3. Lines = <<a>> \o [i \in DOMAIN <<ev>> |-> DataLine(<<ev>>[i])]
  BY <1>1, <1>2 DEF Lines
<1>4. [i \in DOMAIN <<ev>> |-> DataLine(<<ev>>[i])] = <<b>>
  <2>1. DOMAIN <<ev>> = 1..1 /\ <<ev>>[1] = ev
    OBVIOUS
  <2>2. \A i \in 1..1 : i = 1
    OBVIOUS
  <2>3. [i \in DOMAIN <<ev>> |-> DataLine(<<ev>>[i])] = [i \in 1..1 |-> b]
    BY <2>1, <2>2
  <2> HIDE DEF b
  <2>4. [i \in 1..1 |-> b] = <<b>>
    OBVIOUS
  <2> QED BY <2>3, <2>4
<1> HIDE DEF a, b
<1>5. Append(<<a>> \o <<b>>, EmptyLine) = <<a, b, EmptyLine>>
  <2> DEFINE e == EmptyLine
             p == Append(<<a>> \o <<b>>, e)
  <2> HIDE DEF e
  <2>1. p \in Seq({a, b, e}) /\ <<a, b, e>> \in Seq({a, b, e}) /\ Len(p) = 3 /\ Len(<<a, b, e>>) = 3
    OBVIOUS
  <2>2. \A i \in 1..3 : p[i] = <<a, b, e>>[i]
    OBVIOUS
  <2> HIDE DEF p
  <2>3. p = <<a, b, e>>
    BY <2>1, <2>2, SeqEqual
  <2> QED BY <2>3 DEF p, e
<1> QED BY <1>3, <1>4, <1>5 DEF WholeEvent, a, b

-------------------------------------------------------------------------------
(* The steps of the copy.                                                      *)

LEMMA CopyInvInit == CopyInit => CopyInv
<1> SUFFICES ASSUME CopyInit PROVE CopyInv
  OBVIOUS
<1> DEFINE u == [client |-> Fresh, text |-> <<>>, blocks |-> <<>>, errors |-> 0, sent |-> 0,
                 line |-> "event", ev |-> Plain("message_start")]
<1>1. up = u /\ up.client = Fresh /\ up.text = <<>> /\ up.blocks = <<>> /\ up.errors = 0 /\ up.line = "event"
  BY DEF CopyInit
<1>2. UpstreamInv(up)
  <2>1. Plain("message_start") \in UpstreamEvents
    BY PlainMade, EventNames
  <2>2. Fresh \in [phase: Phases, open: SUBSET Nat, next: Nat, illegal: {{}}, endings: {0, 1}, stops: {0, 1}]
    BY DEF Fresh, Phases
  <2>3. <<>> \in Seq(Words) /\ <<>> \in UpstreamBlocks
    BY DEF UpstreamBlocks
  <2>4. up \in Upstreams
    BY <1>1, <2>1, <2>2, <2>3 DEF Upstreams
  <2>5. up.client.next = 0 /\ up.client.open = {} /\ up.client.phase = "none" /\ up.client.endings = 0
        /\ up.client.stops = 0 /\ Len(up.blocks) = 0
    BY <1>1 DEF Fresh
  <2> QED BY <2>4, <2>5 DEF UpstreamInv
<1>3. OnTheWay(up) /\ copy = LinesRead(up)
  BY <1>1 DEF OnTheWay, LinesRead, CopyInit
<1>4. sse = [lines |-> NoLines, client |-> up.client, blocks |-> up.blocks,
             errors |-> IF outcome = "told" THEN up.errors + 1 ELSE up.errors]
  BY <1>1 DEF CopyInit
<1>5. ToolBlocks(up) = {} /\ ToolIndexes(up) = {} /\ Cardinality({}) = 0
  <2>1. DOMAIN up.blocks = {} /\ 0..Len(up.blocks) - 1 = {}
    BY <1>1
  <2> QED BY <2>1, FS_EmptySet DEF ToolBlocks, ToolIndexes
<1>6. Converted(up, converted)
  <2>1. converted = [emittedRole |-> FALSE, toolIdx |-> [b \in {} |-> 0], client |-> NewClient]
    BY DEF CopyInit, NewConverter
  <2>2. [b \in {} |-> 0] \in [{} -> Nat] /\ DOMAIN [b \in {} |-> 0] = {}
    OBVIOUS
  <2>3. NewClient \in ConvClients /\ NewClient.calls = <<>> /\ NewClient.roles = 0 /\ NewClient.text = <<>>
        /\ NewClient.finish = "none" /\ NewClient.done = FALSE /\ NewClient.reasoning = FALSE
    BY DEF NewClient, ConvClients
  <2>4. up.client.phase = "none" /\ up.client.endings = 0
    BY <1>1 DEF Fresh
  <2>5. Len(<<>>) = 0
    OBVIOUS
  <2> DEFINE f == [b \in {} |-> 0]
  <2> HIDE DEF f
  <2>6. converted \in [emittedRole: BOOLEAN, toolIdx: [{} -> Nat], client: ConvClients]
        /\ converted.client = NewClient /\ converted.emittedRole = FALSE /\ DOMAIN converted.toolIdx = {}
    BY <2>1, <2>2, <2>3 DEF f
  <2>7. converted \in ConvStates(ToolIndexes(up))
    BY <1>5, <2>6 DEF ConvStates
  <2>8. ConvFits(up, converted)
    <3>1. /\ converted.emittedRole = (up.client.phase # "none")
          /\ converted.client.done = (up.client.phase = "stopped")
      <4>1. (up.client.phase # "none") = FALSE /\ (up.client.phase = "stopped") = FALSE
        BY <2>4
      <4>2. converted.emittedRole = FALSE /\ converted.client.done = FALSE
        BY <2>3, <2>6
      <4> QED BY <4>1, <4>2, Zenon
    <3>2. (converted.client.finish # "none") = (up.client.endings = 1)
      <4>1. (converted.client.finish # "none") = FALSE /\ (up.client.endings = 1) = FALSE
        BY <2>3, <2>4, <2>6
      <4> QED BY <4>1, Zenon
    <3>3. /\ converted.client.roles = IF up.client.phase = "none" THEN 0 ELSE 1
          /\ converted.client.text = up.text
      BY <1>1, <2>3, <2>4, <2>6
    <3>4. /\ Len(converted.client.calls) = Cardinality(ToolBlocks(up))
          /\ Len(converted.client.calls) = Cardinality(ToolIndexes(up))
          /\ \A b \in ToolIndexes(up) : converted.toolIdx[b] < Len(converted.client.calls)
      BY <1>5, <2>3, <2>5, <2>6
    <3>5. converted.client.reasoning = Thought(up)
      <4>1. converted.client.reasoning = FALSE
        BY <2>3, <2>6
      <4>2. Thought(up) = FALSE
        <5>1. DOMAIN up.blocks = {}
          BY <1>1
        <5>2. ~Thought(up)
          BY <5>1 DEF Thought
        <5> QED BY <5>2 DEF Thought
      <4> QED BY <4>1, <4>2
    <3>6. PiecesFit(up, converted.toolIdx, converted.client.calls)
      BY <1>5 DEF PiecesFit
    <3> QED BY <3>1, <3>2, <3>3, <3>4, <3>5, <3>6 DEF ConvFits
  <2> QED BY <2>7, <2>8 DEF Converted
<1>7. Gathered(up, gathered)
  <2>1. gathered = [started |-> FALSE, blocks |-> [b \in {} |-> 0], order |-> <<>>, stop_reason |-> "none"]
    BY DEF CopyInit, NoMessage
  <2>2. 0..Len(up.blocks) - 1 = {} /\ 1..Len(up.blocks) = {} /\ [b \in {} |-> 0] \in [{} -> GatheredBlocks]
    BY <1>1
  <2>3. <<>> \in Seq(Nat) /\ <<>> = [b \in {} |-> b - 1]
    OBVIOUS
  <2>4. up.client.endings = 0
    BY <1>1 DEF Fresh
  <2>5. [b \in 1..Len(up.blocks) |-> b - 1] = [b \in {} |-> b - 1]
    BY <2>2
  <2> DEFINE f == [b \in {} |-> 0]
  <2> HIDE DEF f
  <2>6. gathered \in [started: BOOLEAN, blocks: [{} -> GatheredBlocks], order: Seq(Nat),
                      stop_reason: {"none", "end_turn", "tool_use"}]
        /\ gathered.order = <<>> /\ gathered.stop_reason = "none"
    BY <2>1, <2>2, <2>3 DEF f
  <2> QED BY <2>2, <2>3, <2>4, <2>5, <2>6 DEF Gathered, MessageStates, MessageFits
<1> QED BY <1>2, <1>3, <1>4, <1>6, <1>7 DEF CopyInv, CopyInit

\* What Converted and Gathered look at.
LEMMA SameUpstream ==
  ASSUME NEW u, NEW v, u.client = v.client, u.text = v.text, u.blocks = v.blocks
  PROVE  /\ \A c : Converted(u, c) => Converted(v, c)
         /\ \A m : Gathered(u, m) => Gathered(v, m)
<1>1. ToolBlocks(u) = ToolBlocks(v) /\ ToolIndexes(u) = ToolIndexes(v)
  BY DEF ToolBlocks, ToolIndexes
<1>2. Thought(u) = Thought(v)
  BY DEF Thought
<1>3. \A idx, calls : PiecesFit(u, idx, calls) => PiecesFit(v, idx, calls)
  BY <1>1, SameCalls
<1>4. ASSUME NEW c, Converted(u, c) PROVE Converted(v, c)
  BY <1>1, <1>2, <1>3, <1>4 DEF Converted, ConvFits
<1>5. ASSUME NEW m, Gathered(u, m) PROVE Gathered(v, m)
  BY <1>5 DEF Gathered, MessageFits
<1> QED BY <1>4, <1>5

\* One more line on the way.
OneLine(u, line, ev) == [u EXCEPT !.line = line, !.ev = ev]

LEMMA LineRead ==
  ASSUME NEW u, UpstreamInv(u), NEW ev \in UpstreamEvents, NEW line \in {"event", "data", "empty"}
  PROVE  LET v == OneLine(u, line, ev)
         IN  /\ UpstreamInv(v) /\ v.line = line /\ v.ev = ev /\ v.client = u.client /\ v.text = u.text
             /\ v.blocks = u.blocks /\ v.errors = u.errors
<1> DEFINE v == OneLine(u, line, ev)
<1>0. u \in Upstreams
  BY DEF UpstreamInv
<1>1. /\ v \in Upstreams /\ v.line = line /\ v.ev = ev /\ v.client = u.client /\ v.text = u.text
      /\ v.blocks = u.blocks /\ v.errors = u.errors
  BY <1>0 DEF Upstreams, OneLine
<1> HIDE DEF v
<1>2. UpstreamInv(v)
  BY <1>1 DEF UpstreamInv
<1>3. UpstreamInv(v) /\ v.line = line /\ v.ev = ev /\ v.client = u.client /\ v.text = u.text
      /\ v.blocks = u.blocks /\ v.errors = u.errors
  BY <1>1, <1>2
<1> QED BY <1>3 DEF v

LEMMA SendableSame ==
  ASSUME NEW u, NEW v, NEW ev, u.client = v.client, u.blocks = v.blocks, Sendable(u, ev)
  PROVE  Sendable(v, ev)
BY DEF Sendable

\* While an event is on its way nobody has anything new.
LEMMA OnlyLines ==
  ASSUME CopyInv, UpstreamInv(up'), up'.client = up.client, up'.text = up.text, up'.blocks = up.blocks,
         up'.errors = up.errors, OnTheWay(up'), copy' = LinesRead(up'),
         UNCHANGED <<sse, buffer, converted, gathered, outcome>>
  PROVE  CopyInv'
<1>1. Converted(up', converted) /\ Gathered(up', gathered)
  BY SameUpstream DEF CopyInv
<1> QED BY <1>1 DEF CopyInv

\* Each action of the copy.
LEMMA ReadEventStep == CopyInv /\ ReadEvent => CopyInv'
<1> SUFFICES ASSUME CopyInv, ReadEvent PROVE CopyInv'
  OBVIOUS
<1>1. /\ up.line = "event" /\ up.errors = 0 /\ UNCHANGED <<sse, buffer, converted, gathered, outcome>>
  BY DEF ReadEvent
<1>2. PICK ev \in NextEvents : up' = [up EXCEPT !.line = "data", !.ev = ev]
                               /\ copy' = [copy EXCEPT !.event = ev.type]
  BY Zenon DEF ReadEvent
<1>3. UpstreamInv(up) /\ Sendable(up, ev) /\ ev \in UpstreamEvents
  BY NextEventsSendable, SendableIs DEF CopyInv
<1>4. UpstreamInv(up') /\ up'.line = "data" /\ up'.ev = ev /\ up'.client = up.client /\ up'.text = up.text
      /\ up'.blocks = up.blocks /\ up'.errors = up.errors
  <2>1. up' = OneLine(up, "data", ev)
    BY <1>2 DEF OneLine
  <2> QED BY <2>1, <1>3, LineRead
<1>5. OnTheWay(up')
  BY <1>1, <1>3, <1>4, SendableSame DEF OnTheWay
<1>6. copy' = LinesRead(up')
  <2>1. copy = NoLines
    BY <1>1 DEF CopyInv, LinesRead
  <2>2. copy' = [event |-> ev.type, data |-> <<>>]
    BY <1>2, <2>1 DEF NoLines
  <2> QED BY <1>4, <2>2 DEF LinesRead
<1> QED BY <1>1, <1>4, <1>5, <1>6, OnlyLines

LEMMA ReadDataStep == CopyInv /\ ReadData => CopyInv'
<1> SUFFICES ASSUME CopyInv, ReadData PROVE CopyInv'
  OBVIOUS
<1>1. /\ up.line = "data" /\ UNCHANGED <<sse, buffer, converted, gathered, outcome>>
      /\ up' = [up EXCEPT !.line = "empty"] /\ copy' = [copy EXCEPT !.data = Append(@, up.ev)]
  BY DEF ReadData
<1>2. UpstreamInv(up) /\ up \in Upstreams /\ up.ev \in UpstreamEvents /\ OnTheWay(up)
  BY DEF CopyInv, UpstreamInv, Upstreams
<1>3. up' = OneLine(up, "empty", up.ev)
  BY <1>1, <1>2 DEF Upstreams, OneLine
<1>4. UpstreamInv(up') /\ up'.line = "empty" /\ up'.ev = up.ev /\ up'.client = up.client /\ up'.text = up.text
      /\ up'.blocks = up.blocks /\ up'.errors = up.errors
  BY <1>2, <1>3, LineRead
<1>5. OnTheWay(up')
  BY <1>1, <1>2, <1>4, SendableSame DEF OnTheWay
<1>6. copy' = LinesRead(up')
  <2>1. copy = [event |-> up.ev.type, data |-> <<>>]
    BY <1>1 DEF CopyInv, LinesRead
  <2>2. Append(<<>>, up.ev) = <<up.ev>>
    OBVIOUS
  <2>3. copy' = [event |-> up.ev.type, data |-> <<up.ev>>]
    BY <1>1, <2>1, <2>2
  <2> QED BY <1>4, <2>3 DEF LinesRead
<1> QED BY <1>1, <1>4, <1>5, <1>6, OnlyLines

LEMMA ReadEmptyAloneStep == CopyInv /\ ReadEmptyAlone => CopyInv'
<1> SUFFICES ASSUME CopyInv, ReadEmptyAlone PROVE CopyInv'
  OBVIOUS
<1>1. /\ up.line = "data" /\ UNCHANGED <<sse, buffer, converted, gathered, outcome>>
      /\ up' = [up EXCEPT !.line = "event"] /\ copy' = NoLines
  BY DEF ReadEmptyAlone
<1>2. UpstreamInv(up) /\ up \in Upstreams /\ up.ev \in UpstreamEvents
  BY DEF CopyInv, UpstreamInv, Upstreams
<1>3. up' = OneLine(up, "event", up.ev)
  BY <1>1, <1>2 DEF Upstreams, OneLine
<1>4. UpstreamInv(up') /\ up'.line = "event" /\ up'.client = up.client /\ up'.text = up.text
      /\ up'.blocks = up.blocks /\ up'.errors = up.errors
  BY <1>2, <1>3, LineRead
<1>5. OnTheWay(up') /\ copy' = LinesRead(up')
  BY <1>1, <1>4 DEF OnTheWay, LinesRead
<1> QED BY <1>1, <1>4, <1>5, OnlyLines

\* The empty line: the three clients have the event, whole.
LEMMA ReadEmptyStep == CopyInv /\ ReadEmpty => CopyInv'
<1> SUFFICES ASSUME CopyInv, ReadEmpty PROVE CopyInv'
  OBVIOUS
<1> DEFINE ev == up.ev
           written == Append(Lines, EmptyLine)
<1>1. /\ up.line = "empty" /\ outcome = "reading" /\ outcome' = "reading" /\ copy' = NoLines
      /\ Sent /\ Write(written)
  BY DEF ReadEmpty, Reading
<1>2. up' = After(up, ev)
  BY <1>1 DEF Sent, After
<1>3. UpstreamInv(up) /\ Sendable(up, ev) /\ up.errors = 0 /\ up \in Upstreams /\ buffer = NoLines
      /\ Converted(up, converted) /\ Gathered(up, gathered)
  BY <1>1 DEF CopyInv, OnTheWay, UpstreamInv
<1>4. ev \in UpstreamEvents
  BY <1>3, SendableIs
<1>5. written = WholeEvent(ev)
  <2>1. copy = [event |-> ev.type, data |-> <<ev>>]
    BY <1>1 DEF CopyInv, LinesRead
  <2> QED BY <1>4, <2>1, LinesAre
<1>6. /\ sse' = FollowAll(sse, WholeEvent(ev))
      /\ buffer' = EventsOf(NoLines, WholeEvent(ev)).lines
      /\ converted' = ConvertAll(converted, EventsOf(NoLines, WholeEvent(ev)).evs)
      /\ gathered' = GatherAll(gathered, EventsOf(NoLines, WholeEvent(ev)).evs)
  <2>1. /\ sse' = FollowAll(sse, written)
        /\ buffer' = EventsOf(buffer, written).lines
        /\ converted' = ConvertAll(converted, EventsOf(buffer, written).evs)
        /\ gathered' = GatherAll(gathered, EventsOf(buffer, written).evs)
    BY <1>1 DEF Write, FollowAll, ConvertAll, GatherAll
  <2> HIDE DEF written, ev
  <2> QED BY <2>1, <1>3, <1>5
<1> HIDE DEF ev, written
<1>7. EventsOf(NoLines, WholeEvent(ev)) = [lines |-> NoLines, evs |-> <<ev>>]
  BY <1>4, EventIsRead
<1>8. buffer' = NoLines /\ converted' = ConvertEvent(converted, ev) /\ gathered' = Gather(gathered, ev)
  BY <1>6, <1>7, ConvertOne, GatherOne
<1>9. /\ up'.client = IF ev = ErrorEvent THEN up.client ELSE See(up.client, ev)
      /\ up'.blocks = Added(up.blocks, ev)
      /\ up'.errors = IF ev = ErrorEvent THEN 1 ELSE 0
      /\ up'.line = "event"
  BY <1>2, <1>3, AfterFields
<1>10. sse' = [lines |-> NoLines, client |-> up'.client, blocks |-> up'.blocks, errors |-> up'.errors]
  <2>1. sse = [lines |-> NoLines, client |-> up.client, blocks |-> up.blocks, errors |-> 0]
    BY <1>1, <1>3 DEF CopyInv
  <2>2. sse' = [lines |-> NoLines,
                client |-> IF ev = ErrorEvent THEN up.client ELSE See(up.client, ev),
                blocks |-> IF ev = ErrorEvent THEN up.blocks ELSE Added(up.blocks, ev),
                errors |-> IF ev = ErrorEvent THEN 0 + 1 ELSE 0]
    BY <1>4, <1>6, <2>1, EventIsFollowed
  <2>3. ev = ErrorEvent => Added(up.blocks, ev) = up.blocks
    BY ErrorFields DEF Added
  <2> QED BY <2>2, <2>3, <1>9
<1>11. UpstreamInv(up') /\ Converted(up', converted') /\ Gathered(up', gathered')
  BY <1>2, <1>3, <1>8, UpstreamAfter, ConvertedAfter, GatheredAfter
<1>12. OnTheWay(up') /\ copy' = LinesRead(up')
  BY <1>1, <1>9 DEF OnTheWay, LinesRead
<1> QED BY <1>1, <1>8, <1>10, <1>11, <1>12 DEF CopyInv

\* The router's own error event.
LEMMA TellErrorStep == CopyInv /\ TellError => CopyInv'
<1> SUFFICES ASSUME CopyInv, TellError PROVE CopyInv'
  OBVIOUS
<1>1. /\ outcome = "error" /\ outcome' = "told" /\ UNCHANGED <<up, copy, buffer, converted, gathered>>
  BY DEF TellError
<1>2. sse' = FollowAll(sse, WholeEvent(ErrorEvent))
  BY ErrorFields DEF TellError, FollowAll, WholeEvent
<1>3. sse = [lines |-> NoLines, client |-> up.client, blocks |-> up.blocks, errors |-> up.errors]
      /\ up.errors \in Nat
  BY <1>1 DEF CopyInv, UpstreamInv, Upstreams
<1>4. sse' = [lines |-> NoLines, client |-> up.client, blocks |-> up.blocks, errors |-> up.errors + 1]
  BY <1>2, <1>3, ErrorFields, EventIsFollowed
<1> QED BY <1>1, <1>4 DEF CopyInv

LEMMA CopyInvStep == CopyInv /\ [CopyNext]_copyVars => CopyInv'
<1> SUFFICES ASSUME CopyInv, [CopyNext]_copyVars PROVE CopyInv'
  OBVIOUS
<1>1. CASE UNCHANGED copyVars
  BY <1>1 DEF copyVars, CopyInv
<1>2. CASE EndOfBody \/ ReadFails
  BY <1>2 DEF EndOfBody, ReadFails, Reading, CopyInv
<1> QED BY <1>1, <1>2, ReadEventStep, ReadDataStep, ReadEmptyAloneStep, ReadEmptyStep, TellErrorStep DEF CopyNext

\* A step of either provider is one of the copy, or leaves it alone.
LEMMA CopyMoves == [Stream /\ UNCHANGED style]_streamVars => [CopyNext]_copyVars
BY DEF streamVars, Stream

\* sort.Ints has nothing to do.
LEMMA InOrder ==
  ASSUME NEW n \in Nat
  PROVE  Ascending([b \in 1..n |-> b - 1]) = [b \in 1..n |-> b - 1]
<1> DEFINE s == [b \in 1..n |-> b - 1]
           P(x, i) == /\ Cardinality({j \in DOMAIN s : s[j] < x}) < i
                      /\ Cardinality({j \in DOMAIN s : s[j] <= x}) >= i
<1>1. DOMAIN s = 1..n /\ \A j \in 1..n : s[j] = j - 1
  OBVIOUS
<1>2. Range(s) = 0..n - 1
  <2>1. ASSUME NEW x \in 0..n - 1 PROVE x \in Range(s)
    <3>1. x + 1 \in DOMAIN s /\ s[x + 1] = x
      BY <1>1
    <3> QED BY <3>1 DEF Range
  <2>2. ASSUME NEW x \in Range(s) PROVE x \in 0..n - 1
    BY DEF Range
  <2> QED BY <2>1, <2>2
<1> HIDE DEF s
<1>3. ASSUME NEW x \in 0..n - 1
      PROVE  /\ Cardinality({j \in DOMAIN s : s[j] < x}) = x
             /\ Cardinality({j \in DOMAIN s : s[j] <= x}) = x + 1
  <2>1. {j \in DOMAIN s : s[j] < x} = 1..x /\ {j \in DOMAIN s : s[j] <= x} = 1..x + 1
    BY <1>1
  <2>2. Cardinality(1..x) = x /\ Cardinality(1..x + 1) = x + 1
    BY FS_Interval
  <2> QED BY <2>1, <2>2
<1>4. ASSUME NEW i \in 1..n
      PROVE  (CHOOSE x \in Range(s) : P(x, i)) = i - 1
  <2>1. ASSUME NEW x \in Range(s) PROVE P(x, i) <=> x = i - 1
    BY <1>2, <1>3
  <2>2. i - 1 \in Range(s)
    BY <1>2
  <2> HIDE DEF P
  <2> QED BY <2>1, <2>2
<1>5. Ascending(s) = [i \in 1..n |-> i - 1]
  <2>1. Ascending(s) = [i \in DOMAIN s |-> CHOOSE x \in Range(s) : P(x, i)]
    BY DEF Ascending
  <2> HIDE DEF P
  <2> QED BY <2>1, <1>1, <1>4
<1> QED BY <1>5 DEF s

\* The blocks up to one that get into the message, and what they are there.
KnownUpTo(q, i) == {k \in 1..i : q[k].kind \in Kinds}

Elements(q) == {q[k] : k \in 1..Len(q)}
Contents(q) == {ContentOf(q[k]) : k \in 1..Len(q)}

ContentSoFar(s, q, i, t) ==
  /\ q \in Seq(Elements(q)) /\ t \in Seq(Contents(q))
  /\ Len(t) = Cardinality(KnownUpTo(q, i))
  /\ \A b \in KnownUpTo(q, i) : t[Cardinality(KnownUpTo(q, b))] = ContentOf(q[b])

ContentLoop == INSTANCE FoldTheorems WITH Step <- AddContent, Good <- ContentSoFar

LEMMA KnownCount ==
  ASSUME NEW q, NEW i \in Nat
  PROVE  /\ IsFiniteSet(KnownUpTo(q, i)) /\ Cardinality(KnownUpTo(q, i)) \in Nat
         /\ KnownUpTo(q, 0) = {}
         /\ q[i + 1].kind \in Kinds => KnownUpTo(q, i + 1) = KnownUpTo(q, i) \cup {i + 1}
         /\ q[i + 1].kind \notin Kinds => KnownUpTo(q, i + 1) = KnownUpTo(q, i)
         /\ i + 1 \notin KnownUpTo(q, i)
         /\ \A b \in KnownUpTo(q, i) : Cardinality(KnownUpTo(q, b)) \in 1..Cardinality(KnownUpTo(q, i))
<1> DEFINE K(j) == KnownUpTo(q, j)
<1>1. \A j \in Nat : K(j) \subseteq 1..j
  BY DEF KnownUpTo
<1>2. ASSUME NEW j \in Nat PROVE IsFiniteSet(K(j)) /\ Cardinality(K(j)) \in Nat
  <2>1. IsFiniteSet(1..j)
    BY FS_Interval
  <2>2. IsFiniteSet(K(j))
    BY <2>1, <1>1, FS_Subset
  <2> QED BY <2>2, FS_CardinalityType
<1>3. K(0) = {}
  BY <1>1
<1>4. \A j : j \in 1..i + 1 <=> j \in 1..i \/ j = i + 1
  OBVIOUS
<1>5. i + 1 \notin K(i)
  BY <1>1
<1>6. ASSUME NEW b \in K(i) PROVE Cardinality(K(b)) \in 1..Cardinality(K(i))
  <2>1. b \in 1..i /\ b \in Nat /\ b \in K(b) /\ K(b) \subseteq K(i)
    BY DEF KnownUpTo
  <2> HIDE DEF K
  <2>2. Cardinality(K(b)) # 0
    BY <2>1, <1>2, FS_EmptySet
  <2>3. Cardinality(K(b)) <= Cardinality(K(i))
    BY <2>1, <1>2, FS_Subset
  <2>4. Cardinality(K(b)) \in Nat /\ Cardinality(K(i)) \in Nat
    BY <2>1, <1>2
  <2> QED BY <2>2, <2>3, <2>4
<1>7. q[i + 1].kind \in Kinds => K(i + 1) = K(i) \cup {i + 1}
  BY <1>4 DEF KnownUpTo
<1>8. q[i + 1].kind \notin Kinds => K(i + 1) = K(i)
  BY <1>4 DEF KnownUpTo
<1> QED BY <1>2, <1>3, <1>5, <1>6, <1>7, <1>8

LEMMA ContentStep ==
  ASSUME NEW s, NEW q, NEW i \in 0..Len(q) - 1, NEW t, ContentSoFar(s, q, i, t)
  PROVE  ContentSoFar(s, q, i + 1, AddContent(t, q[i + 1]))
<1> DEFINE r == q[i + 1]
           x == ContentOf(r)
           C == Contents(q)
           v == AddContent(t, r)
           K(j) == KnownUpTo(q, j)
           c(j) == Cardinality(K(j))
<1>1. /\ q \in Seq(Elements(q)) /\ t \in Seq(C) /\ Len(t) = c(i)
      /\ \A b \in K(i) : t[c(b)] = ContentOf(q[b])
  BY DEF ContentSoFar
<1>2. i \in Nat /\ i + 1 \in 1..Len(q)
  <2>1. Len(q) \in Nat
    BY <1>1
  <2> QED BY <2>1
<1>4. x \in C
  BY <1>2 DEF Contents
<1>5. /\ IsFiniteSet(K(i)) /\ c(i) \in Nat /\ i + 1 \notin K(i)
      /\ r.kind \in Kinds => K(i + 1) = K(i) \cup {i + 1}
      /\ r.kind \notin Kinds => K(i + 1) = K(i)
      /\ \A b \in K(i) : c(b) \in 1..c(i)
  BY <1>2, KnownCount
<1>6. v = IF r.kind \in Kinds THEN Append(t, x) ELSE t
  BY DEF AddContent
<1>7. c(i + 1) = IF r.kind \in Kinds THEN c(i) + 1 ELSE c(i)
  BY <1>5, FS_AddElement
<1> HIDE DEF r, x, v, c, K, C
<1>8. v \in Seq(C) /\ Len(v) = c(i + 1)
  BY <1>1, <1>4, <1>6, <1>7
<1>9. ASSUME NEW b \in K(i + 1) PROVE v[c(b)] = ContentOf(q[b])
  <2>1. CASE b \in K(i)
    <3>1. c(b) \in 1..Len(t) /\ t[c(b)] = ContentOf(q[b])
      BY <2>1, <1>1, <1>5
    <3> DEFINE j == c(b)
    <3> HIDE DEF j
    <3>2. j \in 1..Len(t) => Append(t, x)[j] = t[j]
      BY <1>1, <1>4, AppendProperties
    <3> QED BY <3>1, <3>2, <1>6 DEF j
  <2>2. CASE b = i + 1 /\ r.kind \in Kinds
    <3>1. c(b) = Len(t) + 1
      BY <2>2, <1>1, <1>7
    <3>2. Append(t, x)[Len(t) + 1] = x
      BY <1>1, <1>4, AppendProperties
    <3> QED BY <2>2, <3>1, <3>2, <1>6 DEF x, r
  <2> QED BY <2>1, <2>2, <1>5
<1> QED BY <1>1, <1>8, <1>9 DEF ContentSoFar, K, c, v, r, C

\* The loop over all blocks.
LEMMA ContentIsAll ==
  ASSUME NEW T, NEW q \in Seq(T)
  PROVE  LET t == FoldLeft(AddContent, <<>>, q) IN
         /\ t \in Seq(Contents(q)) /\ Len(t) = Cardinality(KnownUpTo(q, Len(q)))
         /\ \A b \in KnownUpTo(q, Len(q)) : t[Cardinality(KnownUpTo(q, b))] = ContentOf(q[b])
<1> DEFINE t == FoldLeft(AddContent, <<>>, q)
<1>1. t = ContentLoop!Run(<<>>, q)
  BY DEF ContentLoop!Run, FoldLeft, ContentLoop!FoldLeft, MapThenFoldSet, ContentLoop!MapThenFoldSet,
         Max, ContentLoop!Max
<1>2. ContentSoFar(<<>>, q, 0, <<>>)
  <2>1. KnownUpTo(q, 0) = {} /\ Cardinality({}) = 0
    BY KnownCount, FS_EmptySet
  <2>2. <<>> \in Seq(Contents(q)) /\ Len(<<>>) = 0
    OBVIOUS
  <2>3. q \in Seq(Elements(q))
    <3>1. q \in [1..Len(q) -> Elements(q)] /\ Len(q) \in Nat
      BY DEF Elements
    <3> DEFINE n == Len(q)
               E == Elements(q)
    <3> HIDE DEF E
    <3>2. \A n1 \in Nat : \A f \in [1..n1 -> E] : f \in Seq(E)
      OBVIOUS
    <3> QED BY <3>1, <3>2 DEF E
  <2> QED BY <2>1, <2>2, <2>3 DEF ContentSoFar
<1>3. \A i \in 0..Len(q) - 1 : \A x :
        ContentSoFar(<<>>, q, i, x) => ContentSoFar(<<>>, q, i + 1, AddContent(x, q[i + 1]))
  BY ContentStep
<1>4. ContentSoFar(<<>>, q, Len(q), ContentLoop!Run(<<>>, q))
  BY <1>2, <1>3, ContentLoop!LoopInvariant
<1> HIDE DEF t
<1>5. ContentSoFar(<<>>, q, Len(q), t)
  BY <1>1, <1>4
<1>6. /\ t \in Seq(Contents(q)) /\ Len(t) = Cardinality(KnownUpTo(q, Len(q)))
      /\ \A b \in KnownUpTo(q, Len(q)) : t[Cardinality(KnownUpTo(q, b))] = ContentOf(q[b])
  BY <1>5 DEF ContentSoFar
<1> QED BY <1>6 DEF t

\* What sseBytesToMessage has put together.
LEMMA AllGathered ==
  ASSUME CopyInv
  PROVE  Lists(ContentBlocks(gathered),
               [b \in SentOf({"text", "thinking", "tool_use"}) |->
                  [kind |-> up.blocks[b].kind, call |-> up.blocks[b].call, parts |-> up.blocks[b].parts]])
<1> DEFINE s == up.blocks
           n == Len(s)
           m == gathered
           K == SentOf({"text", "thinking", "tool_use"})
           f == [b \in K |-> [kind |-> s[b].kind, call |-> s[b].call, parts |-> s[b].parts]]
           q == [i \in 1..n |-> m.blocks[i - 1]]
           t == ContentBlocks(m)
<1>1. s \in Seq(SentBlock) /\ n \in Nat /\ DOMAIN s = 1..n
  <2>1. s \in UpstreamBlocks
    BY DEF CopyInv, UpstreamInv, Upstreams
  <2> QED BY <2>1 DEF UpstreamBlocks
<1>2. /\ m.order = [b \in 1..n |-> b - 1]
      /\ \A i \in 0..n - 1 : BlockFits(s[i + 1], m.blocks[i])
      /\ m.blocks \in [0..n - 1 -> GatheredBlocks]
  BY DEF CopyInv, Gathered, MessageFits, MessageStates
<1> HIDE DEF n, m
<1>3. Ascending(m.order) = [b \in 1..n |-> b - 1]
  BY <1>1, <1>2, InOrder
<1>4. \A i \in 1..n : i - 1 \in 0..n - 1 /\ (i - 1) + 1 = i
  BY <1>1
<1>5. t = FoldLeft(AddContent, <<>>, q)
  <2> DEFINE o == [b \in 1..n |-> b - 1]
  <2>1. [i \in DOMAIN o |-> m.blocks[o[i]]] = q
    OBVIOUS
  <2>2. Ascending(m.order) = o
    BY <1>3
  <2> HIDE DEF o, q
  <2> QED BY <2>1, <2>2 DEF ContentBlocks
<1>6. q \in Seq(GatheredBlocks) /\ Len(q) = n /\ \A i \in 1..n : BlockFits(s[i], q[i])
  <2>1. \A i \in 1..n : q[i] = m.blocks[i - 1] /\ q[i] \in GatheredBlocks
    BY <1>2, <1>4
  <2>2. \A i \in 1..n : BlockFits(s[i], q[i])
    BY <2>1, <1>2, <1>4
  <2>3. q \in [1..n -> GatheredBlocks]
    BY <2>1
  <2> HIDE DEF q
  <2>4. q \in Seq(GatheredBlocks) /\ Len(q) = n
    BY <2>3, <1>1
  <2> QED BY <2>2, <2>4
<1> HIDE DEF q, t, s
<1>7. /\ Len(t) = Cardinality(KnownUpTo(q, n))
      /\ \A b \in KnownUpTo(q, n) : t[Cardinality(KnownUpTo(q, b))] = ContentOf(q[b])
  BY <1>5, <1>6, ContentIsAll
<1>8. K = {b \in 1..n : s[b].kind \in Kinds}
  BY <1>1 DEF SentOf, Kinds, s
<1>9. \A b \in 1..n : q[b].kind = s[b].kind
  BY <1>6 DEF BlockFits
<1> HIDE DEF K
<1>10. K = KnownUpTo(q, n)
  BY <1>8, <1>9 DEF KnownUpTo
<1>11. ASSUME NEW b \in K PROVE {k \in K : k <= b} = KnownUpTo(q, b)
  <2>1. b \in 1..n
    BY <1>8
  <2>2. \A k : k \in 1..n /\ k <= b <=> k \in 1..b
    BY <2>1, <1>1
  <2> QED BY <2>2, <1>10 DEF KnownUpTo
<1>12. ASSUME NEW b \in K
       PROVE  ContentOf(q[b]) = [kind |-> s[b].kind, call |-> s[b].call, parts |-> s[b].parts]
  <2>1. b \in 1..n /\ s[b].kind \in Kinds
    BY <1>8
  <2> DEFINE x == s[b]
             y == q[b]
  <2>2. BlockFits(x, y) /\ x.kind \in Kinds
    BY <2>1, <1>6
  <2> HIDE DEF x, y
  <2>3. ContentOf(y) = [kind |-> x.kind, call |-> x.call, parts |-> x.parts]
    BY <2>2 DEF BlockFits, ContentOf, Kinds
  <2> QED BY <2>3 DEF x, y
<1>13. DOMAIN f = K /\ \A b \in K : f[b] = [kind |-> s[b].kind, call |-> s[b].call, parts |-> s[b].parts]
  OBVIOUS
<1> HIDE DEF f
<1>14. Lists(t, f)
  BY <1>7, <1>10, <1>11, <1>12, <1>13 DEF Lists
<1> QED BY <1>14 DEF t, f, K, s, m

\* What the converter's client has of the tool calls.
LEMMA AllCalled ==
  ASSUME CopyInv
  PROVE  Lists(converted.client.calls,
               [b \in SentOf({"tool_use"}) |-> [id |-> up.blocks[b].call, args |-> up.blocks[b].parts]])
<1> DEFINE f == [b \in SentOf({"tool_use"}) |-> [id |-> up.blocks[b].call, args |-> up.blocks[b].parts]]
           calls == converted.client.calls
<1>1. SentOf({"tool_use"}) = ToolBlocks(up)
  BY DEF SentOf, ToolBlocks
<1>2. PiecesFit(up, converted.toolIdx, calls) /\ Len(calls) = Cardinality(ToolBlocks(up))
  BY DEF CopyInv, Converted, ConvFits
<1>3. \A b \in ToolBlocks(up) : calls[Place(up, b)] = [id |-> up.blocks[b].call, args |-> up.blocks[b].parts]
  BY <1>2 DEF PiecesFit
<1>4. DOMAIN f = ToolBlocks(up)
      /\ \A b \in ToolBlocks(up) : f[b] = [id |-> up.blocks[b].call, args |-> up.blocks[b].parts]
  BY <1>1
<1> HIDE DEF f, calls
<1>5. \A b \in ToolBlocks(up) : Cardinality({k \in DOMAIN f : k <= b}) = Place(up, b)
  BY <1>4 DEF Place
<1>6. \A b \in DOMAIN f : calls[Cardinality({k \in DOMAIN f : k <= b})] = f[b]
  BY <1>3, <1>4, <1>5
<1>7. Lists(calls, f)
  BY <1>2, <1>4, <1>6 DEF Lists
<1> QED BY <1>7 DEF f, calls

-------------------------------------------------------------------------------
(* The theorems.                                                               *)

(***************************************************************************)
(* The invariant that the others follow from: what the upstream has sent is *)
(* the beginning of a message; of an event that is on its way Stream has the *)
(* lines that came, and nobody else has any; each of the three clients stands *)
(* where the whole events, and only they, have brought it.                 *)
(* anthropic.go:123-182, convert.go:436-614, sse.go:25-196.                *)
(***************************************************************************)
THEOREM CopyInvariant == StreamsSpec => []CopyInv
<1>1. StreamsInit => CopyInv
  BY CopyInvInit DEF StreamsInit
<1>2. CopyInv /\ [Stream /\ UNCHANGED style]_streamVars => CopyInv'
  BY CopyInvStep, CopyMoves
<1> QED BY <1>1, <1>2, PTL DEF StreamsSpec

(***************************************************************************)
(* However many events, blocks and words, of whatever types, and wherever  *)
(* in an event the body is cut or fails: of the events that were sent      *)
(* whole the client that is streamed to has everything, blocks and deltas  *)
(* of types that the router does not know included; the buffered message   *)
(* has the text, thinking and tool_use blocks, each with all of its text,  *)
(* thinking or arguments, and of the rest nothing; the client of           *)
(* chat/completions has all text, every tool call with its arguments, and  *)
(* whether there was thinking.                                             *)
(* anthropic.go:123-176, convert.go:475-614, sse.go:19-196.                *)
(***************************************************************************)
THEOREM CopyIsWhole == StreamsSpec => []CopyWhole
<1>1. ASSUME CopyInv PROVE CopyWhole
  <2>1. sse.client = up.client /\ sse.blocks = up.blocks /\ sse.lines = NoLines
    BY <1>1 DEF CopyInv
  <2>2. ~converted.client.jumbled /\ converted.client.text = up.text
        /\ converted.client.reasoning = Thought(up)
    BY <1>1 DEF CopyInv, Converted, ConvStates, ConvFits, ConvClients
  <2>3. Thought(up) = \E b \in SentOf({"thinking"}) : up.blocks[b].parts # <<>>
    <3>1. Thought(up) <=> \E b \in SentOf({"thinking"}) : up.blocks[b].parts # <<>>
      BY DEF Thought, SentOf
    <3>2. Thought(up) \in BOOLEAN
      BY DEF Thought
    <3> QED BY <3>1, <3>2
  <2>4. converted.client.reasoning = \E b \in SentOf({"thinking"}) : up.blocks[b].parts # <<>>
    BY <2>2, <2>3
  <2> QED BY <1>1, <2>1, <2>2, <2>4, AllGathered, AllCalled DEF CopyWhole
<1> QED BY <1>1, CopyInvariant, PTL

(***************************************************************************)
(* A stream that fails after output began is told to the client once more  *)
(* than the upstream itself told it, in an event of its own.               *)
(* router.go:257-259.                                                      *)
(***************************************************************************)
THEOREM LossIsAlwaysTold == StreamsSpec => []LossIsTold
<1>1. CopyInv => LossIsTold
  BY DEF CopyInv, LossIsTold
<1> QED BY <1>1, CopyInvariant, PTL

(***************************************************************************)
(* A body that just ends is a success for Stream, but a finish, [DONE] or  *)
(* a stop_reason is there only if the upstream sent it.                    *)
(* anthropic.go:178-182, convert.go:577-614, sse.go:19.                    *)
(***************************************************************************)
THEOREM EarlyEndAlwaysShows == StreamsSpec => []EarlyEndShows
<1>1. ASSUME CopyInv PROVE EarlyEndShows
  <2>1. sse.client = up.client
    BY <1>1 DEF CopyInv
  <2> QED BY <1>1, <2>1 DEF CopyInv, Converted, ConvFits, Gathered, MessageFits, EarlyEndShows
<1> QED BY <1>1, CopyInvariant, PTL
===============================================================================
