----------------------------- MODULE ConfigProofs ------------------------------
(***************************************************************************)
(* Theorems about ConfigManager, for any documents, writers and bounds:    *)
(* types, the refinement of ConfigStore, and that an edit goes live.       *)
(***************************************************************************)
EXTENDS ConfigManager, SequenceTheorems, TLAPS

\* For its induction; no fold is in ConfigManager.
Loops == INSTANCE FoldTheorems WITH Step <- Append, Good <- Content

-------------------------------------------------------------------------------
(* What the loop of DeleteModel keeps.                                         *)

Entry == [alias: Aliases, value: Values]

\* The function that Without is the last value of.
IsKept(kept, models, alias, n) ==
  kept = [i \in 0..n |->
            IF i = 0 THEN <<>>
            ELSE IF models[i].alias = alias THEN kept[i - 1] ELSE Append(kept[i - 1], models[i])]

LEMMA KeptExists ==
  ASSUME NEW models, NEW alias
  PROVE  \A n \in Nat : \E kept : IsKept(kept, models, alias, n)
<1> DEFINE T == {n \in Nat : \E kept : IsKept(kept, models, alias, n)}
<1>1. 0 \in T
  <2> DEFINE k == [i \in 0..0 |-> <<>>]
  <2>1. k = [i \in 0..0 |->
               IF i = 0 THEN <<>>
               ELSE IF models[i].alias = alias THEN k[i - 1] ELSE Append(k[i - 1], models[i])]
    OBVIOUS
  <2> HIDE DEF k
  <2> QED BY <2>1 DEF IsKept
<1>2. ASSUME NEW n \in Nat, n \in T PROVE n + 1 \in T
  <2>1. PICK f : IsKept(f, models, alias, n)
    BY <1>2
  <2> DEFINE last == IF models[n + 1].alias = alias THEN f[n] ELSE Append(f[n], models[n + 1])
             g == [i \in 0..n + 1 |-> IF i = n + 1 THEN last ELSE f[i]]
             h(i) == IF i = 0 THEN <<>>
                     ELSE IF models[i].alias = alias THEN g[i - 1] ELSE Append(g[i - 1], models[i])
  <2>2. ASSUME NEW i \in 0..n + 1 PROVE g[i] = h(i)
    <3>1. CASE i = n + 1
      <4>1. n + 1 \in 0..n + 1 /\ n \in 0..n + 1 /\ n # n + 1 /\ n + 1 # 0 /\ (n + 1) - 1 = n
        OBVIOUS
      <4>2. g[n + 1] = last /\ g[n] = f[n]
        BY <4>1
      <4> HIDE DEF g
      <4> QED BY <3>1, <4>1, <4>2
    <3>2. CASE i \in 0..n
      <4>1. i # n + 1 /\ (i # 0 => i - 1 \in 0..n + 1 /\ i - 1 # n + 1)
        BY <3>2
      <4>2. g[i] = f[i] /\ (i # 0 => g[i - 1] = f[i - 1])
        BY <4>1
      <4>3. f[i] = IF i = 0 THEN <<>>
                   ELSE IF models[i].alias = alias THEN f[i - 1] ELSE Append(f[i - 1], models[i])
        BY <2>1, <3>2 DEF IsKept
      <4> HIDE DEF g
      <4> QED BY <4>2, <4>3
    <3> QED BY <3>1, <3>2
  <2>3. g = [i \in 0..n + 1 |-> h(i)]
    BY <2>2
  <2>4. IsKept(g, models, alias, n + 1)
    BY <2>3 DEF IsKept
  <2> QED BY <2>4
<1> HIDE DEF T
<1>3. \A n \in Nat : n \in T
  BY <1>1, <1>2, Loops!NatSetInduction
<1> QED BY <1>3 DEF T

LEMMA WithoutIsKept ==
  ASSUME NEW models, NEW alias, Len(models) \in Nat
  PROVE  \E kept : IsKept(kept, models, alias, Len(models)) /\ Without(models, alias) = kept[Len(models)]
<1>1. Without(models, alias) = (CHOOSE k : IsKept(k, models, alias, Len(models)))[Len(models)]
  BY DEF Without, IsKept
<1>2. \E k : IsKept(k, models, alias, Len(models))
  BY KeptExists
<1> QED BY <1>1, <1>2

-------------------------------------------------------------------------------
(* The value of the first entry for an alias.                                  *)

Of(models, e)      == {i \in DOMAIN models : models[i].alias = e}
First(models, e)   == CHOOSE i \in Of(models, e) : \A j \in Of(models, e) : i <= j
ValueOf(models, e) == models[First(models, e)].value
Listed(models)     == {models[i].alias : i \in DOMAIN models}

LEMMA FirstOf ==
  ASSUME NEW models \in Seq(Entry), NEW e \in Listed(models)
  PROVE  First(models, e) \in Of(models, e) /\ \A j \in Of(models, e) : First(models, e) <= j
<1>1. DOMAIN models \subseteq Nat
  BY LenProperties
<1>2. Of(models, e) \subseteq Nat /\ Of(models, e) # {}
  BY <1>1 DEF Of, Listed
<1>3. \E i \in Of(models, e) : \A j \in Of(models, e) : i <= j
  BY <1>2, Loops!LeastOfSet
<1> QED BY <1>3 DEF First

LEMMA FirstIs ==
  ASSUME NEW models, NEW e, Of(models, e) \subseteq Nat,
         NEW i \in Of(models, e), \A j \in Of(models, e) : i <= j
  PROVE  First(models, e) = i
<1>1. \A k \in Of(models, e) : (\A j \in Of(models, e) : k <= j) => k = i
  OBVIOUS
<1> QED BY <1>1 DEF First

\* One entry more counts only if there was none for its alias.
LEMMA AppendMeans ==
  ASSUME NEW models \in Seq(Entry), NEW m \in Entry
  PROVE  /\ Append(models, m) \in Seq(Entry)
         /\ Listed(Append(models, m)) = Listed(models) \cup {m.alias}
         /\ \A e \in Listed(models) : ValueOf(Append(models, m), e) = ValueOf(models, e)
         /\ m.alias \notin Listed(models) => ValueOf(Append(models, m), m.alias) = m.value
<1> DEFINE ms == Append(models, m)
           n == Len(models)
<1>1. /\ n \in Nat /\ DOMAIN models = 1..n /\ ms \in Seq(Entry) /\ DOMAIN ms = 1..n + 1
      /\ ms[n + 1] = m /\ \A i \in 1..n : ms[i] = models[i]
  BY AppendProperties, LenProperties
<1> HIDE DEF ms, n
<1>2. DOMAIN ms = DOMAIN models \cup {n + 1} /\ n + 1 \notin DOMAIN models
  BY <1>1
<1>3. Listed(ms) = Listed(models) \cup {m.alias}
  BY <1>1, <1>2 DEF Listed
<1>4. ASSUME NEW e \in Listed(models) PROVE ValueOf(ms, e) = ValueOf(models, e)
  <2>1. First(models, e) \in Of(models, e) /\ \A j \in Of(models, e) : First(models, e) <= j
    BY FirstOf
  <2>2. Of(ms, e) \subseteq Of(models, e) \cup {n + 1} /\ Of(models, e) \subseteq Of(ms, e)
    BY <1>1, <1>2 DEF Of
  <2>3. First(models, e) \in 1..n
    BY <1>1, <2>1 DEF Of
  <2>4. \A j \in Of(ms, e) : First(models, e) <= j
    BY <1>1, <2>1, <2>2, <2>3
  <2>5. Of(ms, e) \subseteq Nat
    BY <1>1 DEF Of
  <2>6. First(ms, e) = First(models, e)
    BY <2>1, <2>2, <2>4, <2>5, FirstIs
  <2> QED BY <1>1, <2>3, <2>6 DEF ValueOf
<1>5. ASSUME m.alias \notin Listed(models) PROVE ValueOf(ms, m.alias) = m.value
  <2>1. Of(ms, m.alias) = {n + 1}
    BY <1>1, <1>2, <1>5 DEF Of, Listed
  <2>2. /\ Of(ms, m.alias) \subseteq Nat /\ n + 1 \in Of(ms, m.alias)
        /\ \A j \in Of(ms, m.alias) : n + 1 <= j
    BY <1>1, <2>1
  <2>3. First(ms, m.alias) = n + 1
    BY <2>2, FirstIs
  <2> QED BY <1>1, <2>3 DEF ValueOf
<1> QED BY <1>1, <1>3, <1>4, <1>5 DEF ms

\* DeleteModel takes every entry of the alias away, and leaves the others' values.
LEMMA WithoutMeans ==
  ASSUME NEW models \in Seq(Entry), NEW alias
  PROVE  /\ Without(models, alias) \in Seq(Entry)
         /\ Listed(Without(models, alias)) = Listed(models) \ {alias}
         /\ \A e \in Listed(Without(models, alias)) :
              ValueOf(Without(models, alias), e) = ValueOf(models, e)
<1> DEFINE n == Len(models)
<1>1. n \in Nat /\ DOMAIN models = 1..n /\ \A i \in 1..n : models[i] \in Entry
  BY LenProperties, ElementOfSeq
<1>2. PICK kept : IsKept(kept, models, alias, n) /\ Without(models, alias) = kept[n]
  BY <1>1, WithoutIsKept
<1> DEFINE P(i) == SubSeq(models, 1, i)
           Q(i) == /\ kept[i] \in Seq(Entry) /\ P(i) \in Seq(Entry)
                   /\ Listed(kept[i]) = Listed(P(i)) \ {alias}
                   /\ \A e \in Listed(kept[i]) : ValueOf(kept[i], e) = ValueOf(P(i), e)
           T == {i \in Nat : i <= n => Q(i)}
<1>3. 0 \in T
  <2>1. P(0) = <<>> /\ kept[0] = <<>>
    BY <1>1, <1>2, SubSeqEmpty DEF IsKept
  <2>2. Listed(<<>>) = {} /\ <<>> \in Seq(Entry)
    BY DEF Listed
  <2> HIDE DEF P
  <2> QED BY <2>1, <2>2
<1>4. ASSUME NEW i \in Nat, i \in T PROVE i + 1 \in T
  <2> SUFFICES ASSUME i + 1 <= n PROVE Q(i + 1)
    OBVIOUS
  <2> DEFINE m == models[i + 1]
  <2>1. i \in 0..n /\ i + 1 \in 1..n /\ i + 1 # 0 /\ (i + 1) - 1 = i /\ i <= n
    BY <1>1
  <2>2. Q(i)
    BY <1>4, <2>1
  <2>3. P(i + 1) = Append(P(i), m) /\ m \in Entry
    <3>1. 1 \in 1..n /\ i + 1 \in 1..n
      BY <1>1, <2>1
    <3>2. P(i + 1) = P(i) \o <<m>>
      BY <2>1, <3>1, SubSeqRecursiveSecond
    <3>3. m \in Entry
      BY <1>1, <2>1
    <3> HIDE DEF m, P, n
    <3> QED BY <2>2, <3>2, <3>3, AppendIsConcat
  <2>4. kept[i + 1] = IF m.alias = alias THEN kept[i] ELSE Append(kept[i], m)
    <3>1. i + 1 \in 0..n
      BY <2>1
    <3> HIDE DEF n
    <3>2. kept[i + 1] = IF i + 1 = 0 THEN <<>>
                        ELSE IF models[i + 1].alias = alias THEN kept[(i + 1) - 1]
                             ELSE Append(kept[(i + 1) - 1], models[i + 1])
      BY <1>2, <3>1 DEF IsKept
    <3> QED BY <2>1, <3>2
  <2> DEFINE ps == P(i)
             ks == kept[i]
  <2>5. /\ Append(ps, m) \in Seq(Entry)
        /\ Listed(Append(ps, m)) = Listed(ps) \cup {m.alias}
        /\ \A e \in Listed(ps) : ValueOf(Append(ps, m), e) = ValueOf(ps, e)
        /\ m.alias \notin Listed(ps) => ValueOf(Append(ps, m), m.alias) = m.value
    BY <2>2, <2>3, AppendMeans
  <2>6. /\ Append(ks, m) \in Seq(Entry)
        /\ Listed(Append(ks, m)) = Listed(ks) \cup {m.alias}
        /\ \A e \in Listed(ks) : ValueOf(Append(ks, m), e) = ValueOf(ks, e)
        /\ m.alias \notin Listed(ks) => ValueOf(Append(ks, m), m.alias) = m.value
    BY <2>2, <2>3, AppendMeans
  <2>7. CASE m.alias = alias
    <3> HIDE DEF P, m, n
    <3> QED BY <2>2, <2>3, <2>4, <2>5, <2>7
  <2>8. CASE m.alias # alias
    <3> HIDE DEF P, m, n
    <3> QED BY <2>2, <2>3, <2>4, <2>5, <2>6, <2>8
  <2> QED BY <2>7, <2>8
<1> HIDE DEF T
<1>5. \A i \in Nat : i \in T
  BY <1>3, <1>4, Loops!NatSetInduction
<1>6. Q(n)
  BY <1>1, <1>5 DEF T
<1>7. P(n) = models
  BY SubSeqFull
<1> HIDE DEF P
<1> QED BY <1>2, <1>6, <1>7

-------------------------------------------------------------------------------
(* What an edit makes of a document, and of what the document means.           *)

LEMMA DocIs ==
  ASSUME NEW doc \in Docs
  PROVE  /\ doc.models \in Seq(Entry)
         /\ \E S \in SUBSET ProviderIDs : doc.providers \in [S -> Values]
         /\ doc = [models |-> doc.models, providers |-> doc.providers]
BY DEF Docs, Entry

LEMMA IsDoc ==
  ASSUME NEW models \in Seq(Entry), NEW S \in SUBSET ProviderIDs, NEW ps \in [S -> Values]
  PROVE  [models |-> models, providers |-> ps] \in Docs
BY DEF Docs, Entry

LEMMA EmptyDocIs == EmptyDoc \in Docs /\ Meaning(EmptyDoc) = Store!Empty
<1>1. EmptyDoc = [models |-> <<>>, providers |-> [p \in {} |-> p]]
  BY DEF EmptyDoc
<1>2. [p \in {} |-> p] \in [{} -> Values] /\ <<>> \in Seq(Entry) /\ {} \in SUBSET ProviderIDs
  OBVIOUS
<1>3. EmptyDoc \in Docs
  BY <1>1, <1>2, IsDoc, Zenon
<1>4. DOMAIN <<>> = {}
  OBVIOUS
<1>5. Meaning(EmptyDoc) = Store!Empty
  BY <1>1, <1>4 DEF Meaning, Store!Empty
<1> QED BY <1>3, <1>5

Means(models, providers) ==
  [e \in Listed(models) \cup DOMAIN providers |->
     IF e \in Listed(models) THEN ValueOf(models, e) ELSE providers[e]]

LEMMA MeaningIs ==
  ASSUME NEW doc
  PROVE  Meaning(doc) = Means(doc.models, doc.providers)
BY DEF Meaning, Means, ValueOf, First, Of, Listed

LEMMA MeaningIsReadable == \A doc \in Docs : Meaning(doc) # Unreadable
<1> SUFFICES ASSUME NEW doc \in Docs PROVE Meaning(doc) # Unreadable
  OBVIOUS
<1> DEFINE ms == doc.models
           ps == doc.providers
           D  == Listed(ms) \cup DOMAIN ps
<1>1. ms \in Seq(Entry) /\ \E S \in SUBSET ProviderIDs : ps \in [S -> Values]
  BY DocIs
<1> HIDE DEF ms, ps
<1>2. DOMAIN ms = 1..Len(ms) /\ \A i \in DOMAIN ms : ms[i] \in Entry
  BY <1>1, LenProperties, ElementOfSeq
<1>3. Listed(ms) \subseteq Aliases
  BY <1>2 DEF Listed, Entry
<1>4. D \in SUBSET (Aliases \cup ProviderIDs)
  BY <1>1, <1>3
<1>5. ASSUME NEW e \in Listed(ms) PROVE ValueOf(ms, e) \in Values
  <2>1. First(ms, e) \in DOMAIN ms
    BY <1>1, FirstOf DEF Of
  <2> QED BY <1>2, <2>1 DEF ValueOf, Entry
<1>6. \A e \in DOMAIN ps : ps[e] \in Values
  BY <1>1
<1>7. Means(ms, ps) \in [D -> Values]
  BY <1>5, <1>6 DEF Means
<1>8. Unreadable \notin [D -> Values]
  BY <1>4, ConfigAssumption
<1> QED BY <1>7, <1>8, MeaningIs DEF ms, ps

\* The four mutations of write.go, as ConfigStore has them.
PutIn(m, e, v) == [x \in DOMAIN m \cup {e} |-> IF x = e THEN v ELSE m[x]]
DropFrom(m, e) == [x \in DOMAIN m \ {e} |-> m[x]]

LEMMA UpsertModelMeans ==
  ASSUME NEW doc \in Docs, NEW alias \in Aliases, NEW value \in Values
  PROVE  /\ UpsertModel(doc, alias, value) \in Docs
         /\ Meaning(UpsertModel(doc, alias, value)) = PutIn(Meaning(doc), alias, value)
<1> DEFINE ms == doc.models
           ps == doc.providers
           new == UpsertModel(doc, alias, value)
           entry == [alias |-> alias, value |-> value]
<1>1. /\ ms \in Seq(Entry) /\ \E S \in SUBSET ProviderIDs : ps \in [S -> Values]
      /\ doc = [models |-> ms, providers |-> ps]
  BY DocIs
<1>2. entry \in Entry /\ entry.alias = alias /\ entry.value = value
  BY DEF Entry
<1>3. \A k : [doc EXCEPT !.models = k] = [models |-> k, providers |-> ps]
  BY <1>1
<1> HIDE DEF ms, ps, entry
<1>4. CASE Of(ms, alias) = {}
  <2>1. new = [models |-> Append(ms, entry), providers |-> ps]
    BY <1>1, <1>3, <1>4 DEF UpsertModel, Of, ms, entry
  <2>2. alias \notin Listed(ms)
    BY <1>4 DEF Of, Listed
  <2>3. /\ Append(ms, entry) \in Seq(Entry)
        /\ Listed(Append(ms, entry)) = Listed(ms) \cup {alias}
        /\ \A e \in Listed(ms) : ValueOf(Append(ms, entry), e) = ValueOf(ms, e)
        /\ ValueOf(Append(ms, entry), alias) = value
    BY <1>1, <1>2, <2>2, AppendMeans
  <2>4. new \in Docs
    BY <1>1, <2>1, <2>3, IsDoc
  <2>5. new.models = Append(ms, entry) /\ new.providers = ps
    BY <2>1
  <2> DEFINE ns == Append(ms, entry)
  <2> HIDE DEF ns, new
  <2>6. Means(ns, ps) = PutIn(Means(ms, ps), alias, value)
    BY <2>3 DEF Means, PutIn, ns
  <2> QED BY <2>4, <2>5, <2>6, MeaningIs DEF new, ns, ms, ps
<1>5. CASE Of(ms, alias) # {}
  <2> DEFINE i0 == First(ms, alias)
             ns == [ms EXCEPT ![i0] = entry]
             n == Len(ms)
  <2>1. alias \in Listed(ms)
    BY <1>5 DEF Of, Listed
  <2>2. i0 \in Of(ms, alias) /\ \A j \in Of(ms, alias) : i0 <= j
    BY <1>1, <2>1, FirstOf
  <2>3. new = [models |-> ns, providers |-> ps]
    BY <1>1, <1>3, <1>5 DEF UpsertModel, Of, First, ms, entry
  <2> HIDE DEF i0
  <2>4. n \in Nat /\ DOMAIN ms = 1..n /\ i0 \in 1..n
    BY <1>1, <2>2, LenProperties DEF Of
  <2>5. ns \in Seq(Entry) /\ Len(ns) = n /\ \A j \in 1..n : ns[j] = IF j = i0 THEN entry ELSE ms[j]
    BY <1>1, <1>2, <2>4, ExceptSeq
  <2>6. DOMAIN ns = 1..n
    BY <2>4
  <2> HIDE DEF ns, n
  <2>7. \A j \in 1..n : ns[j].alias = ms[j].alias
    BY <1>2, <2>2, <2>5 DEF Of
  <2>8. \A e : Of(ns, e) = Of(ms, e)
    BY <2>4, <2>6, <2>7 DEF Of
  <2>9. Listed(ns) = Listed(ms) /\ \A e : First(ns, e) = First(ms, e)
    <3>1. Listed(ns) = Listed(ms)
      BY <2>4, <2>6, <2>7 DEF Listed
    <3>2. \A e : First(ns, e) = First(ms, e)
      BY <2>8 DEF First
    <3> QED BY <3>1, <3>2
  <2>10. ASSUME NEW e \in Listed(ms)
         PROVE  ValueOf(ns, e) = IF e = alias THEN value ELSE ValueOf(ms, e)
    <3>1. First(ms, e) \in Of(ms, e)
      BY <1>1, FirstOf
    <3>2. First(ms, e) \in 1..n /\ ms[First(ms, e)].alias = e
      BY <2>4, <3>1 DEF Of
    <3>3. First(ms, e) = i0 <=> e = alias
      BY <2>2, <3>2 DEF i0, Of
    <3> QED BY <1>2, <2>5, <2>9, <3>2, <3>3 DEF ValueOf
  <2>11. new \in Docs
    BY <1>1, <2>3, <2>5, IsDoc
  <2>12. new.models = ns /\ new.providers = ps
    BY <2>3
  <2> HIDE DEF new
  <2>13. Means(ns, ps) = PutIn(Means(ms, ps), alias, value)
    BY <2>1, <2>9, <2>10 DEF Means, PutIn
  <2> QED BY <2>11, <2>12, <2>13, MeaningIs DEF new, ms, ps
<1> QED BY <1>4, <1>5

LEMMA DeleteModelMeans ==
  ASSUME NEW doc \in Docs, NEW alias \in Aliases
  PROVE  /\ DeleteModel(doc, alias) \in Docs
         /\ Meaning(DeleteModel(doc, alias)) = DropFrom(Meaning(doc), alias)
<1> DEFINE ms == doc.models
           ps == doc.providers
           ns == Without(ms, alias)
           new == DeleteModel(doc, alias)
<1>1. /\ ms \in Seq(Entry) /\ \E S \in SUBSET ProviderIDs : ps \in [S -> Values]
      /\ doc = [models |-> ms, providers |-> ps]
  BY DocIs
<1>2. new = [models |-> ns, providers |-> ps]
  BY <1>1 DEF DeleteModel
<1> HIDE DEF ms, ps
<1>3. /\ ns \in Seq(Entry)
      /\ Listed(ns) = Listed(ms) \ {alias}
      /\ \A e \in Listed(ns) : ValueOf(ns, e) = ValueOf(ms, e)
  BY <1>1, WithoutMeans
<1> HIDE DEF ns
<1>4. new \in Docs
  BY <1>1, <1>2, <1>3, IsDoc
<1>5. alias \notin DOMAIN ps
  BY <1>1, ConfigAssumption
<1>6. new.models = ns /\ new.providers = ps
  BY <1>2
<1> HIDE DEF new
<1>7. Means(ns, ps) = DropFrom(Means(ms, ps), alias)
  BY <1>3, <1>5 DEF Means, DropFrom
<1> QED BY <1>4, <1>6, <1>7, MeaningIs DEF new, ms, ps

LEMMA ProviderMeans ==
  ASSUME NEW doc \in Docs, NEW id \in ProviderIDs, NEW value \in Values
  PROVE  /\ UpsertProvider(doc, id, value) \in Docs
         /\ Meaning(UpsertProvider(doc, id, value)) = PutIn(Meaning(doc), id, value)
         /\ DeleteProvider(doc, id) \in Docs
         /\ Meaning(DeleteProvider(doc, id)) = DropFrom(Meaning(doc), id)
<1> DEFINE ms == doc.models
           ps == doc.providers
           up1 == [p \in DOMAIN ps \cup {id} |-> IF p = id THEN value ELSE ps[p]]
           dn1 == [p \in DOMAIN ps \ {id} |-> ps[p]]
           new == UpsertProvider(doc, id, value)
           old == DeleteProvider(doc, id)
<1>1. /\ ms \in Seq(Entry) /\ \E S \in SUBSET ProviderIDs : ps \in [S -> Values]
      /\ doc = [models |-> ms, providers |-> ps]
  BY DocIs
<1>2. new = [models |-> ms, providers |-> up1] /\ old = [models |-> ms, providers |-> dn1]
  BY <1>1 DEF UpsertProvider, DeleteProvider
<1> HIDE DEF ms, ps
<1>3. PICK S \in SUBSET ProviderIDs : ps \in [S -> Values]
  BY <1>1
<1>4. /\ S \cup {id} \in SUBSET ProviderIDs /\ up1 \in [S \cup {id} -> Values]
      /\ S \ {id} \in SUBSET ProviderIDs /\ dn1 \in [S \ {id} -> Values]
  BY <1>3
<1>5. id \notin Listed(ms)
  <2>1. \A i \in DOMAIN ms : ms[i] \in Entry
    BY <1>1, LenProperties, ElementOfSeq
  <2>2. \A m \in Entry : m.alias \in Aliases
    BY DEF Entry
  <2>3. id \notin Aliases
    BY ConfigAssumption
  <2> QED BY <2>1, <2>2, <2>3 DEF Listed
<1>6. DOMAIN up1 = DOMAIN ps \cup {id} /\ \A p \in DOMAIN up1 : up1[p] = IF p = id THEN value ELSE ps[p]
  OBVIOUS
<1>7. DOMAIN dn1 = DOMAIN ps \ {id} /\ \A p \in DOMAIN dn1 : dn1[p] = ps[p]
  OBVIOUS
<1> HIDE DEF up1, dn1
<1>8. new \in Docs /\ old \in Docs
  BY <1>1, <1>2, <1>4, IsDoc
<1>9. new.models = ms /\ new.providers = up1 /\ old.models = ms /\ old.providers = dn1
  BY <1>2
<1> HIDE DEF new, old
<1>10. Means(ms, up1) = PutIn(Means(ms, ps), id, value)
  BY <1>5, <1>6 DEF Means, PutIn
<1>11. Means(ms, dn1) = DropFrom(Means(ms, ps), id)
  BY <1>5, <1>7 DEF Means, DropFrom
<1> QED BY <1>8, <1>9, <1>10, <1>11, MeaningIs DEF new, old, ms, ps

LEMMA EditMeans ==
  ASSUME NEW doc \in Docs, NEW e \in Edits
  PROVE  /\ Apply(doc, e) \in Docs
         /\ e.name \in Aliases \cup ProviderIDs /\ e.value \in Values
         /\ \/ Meaning(Apply(doc, e)) = PutIn(Meaning(doc), e.name, e.value)
            \/ Meaning(Apply(doc, e)) = DropFrom(Meaning(doc), e.name)
<1>1. /\ e.kind \in EditKinds /\ e.value \in Values
      /\ e.name \in (IF e.kind \in {"UpsertModel", "DeleteModel"} THEN Aliases ELSE ProviderIDs)
  BY ConfigAssumption
<1>2. CASE e.kind = "UpsertModel"
  BY <1>1, <1>2, UpsertModelMeans DEF Apply
<1>3. CASE e.kind = "DeleteModel"
  BY <1>1, <1>3, DeleteModelMeans DEF Apply
<1>4. CASE e.kind = "UpsertProvider"
  BY <1>1, <1>4, ProviderMeans DEF Apply
<1>5. CASE e.kind = "DeleteProvider"
  BY <1>1, <1>5, ProviderMeans DEF Apply
<1> QED BY <1>1, <1>2, <1>3, <1>4, <1>5 DEF EditKinds

-------------------------------------------------------------------------------
(* Types.                                                                      *)

\* TypeOK by who has what; and what somebody holds, to put it in memory or on
\* disk, is a configuration.
WatchOK  == watch \in 0..Len(inodes)
EditOK   == /\ edit \in {NoEdit} \cup [at: {"write"}, request: Edits, base: Contents, alone: BOOLEAN]
                         \cup [at: {"publish"}, content: Contents]
            /\ edit.at = "write" => edit.base.doc # Unreadable
            /\ edit.at = "publish" => edit.content.doc # Unreadable
RawOK    == raw \in {NoRaw} \cup [at: {"write"}, inode: 1..Len(inodes), body: Bodies]
WatcherOK == /\ watcher \in [at: {"start", "select", "readd", "stopped"}]
                   \cup [at: {"swap"}, content: Contents, event: {"write", "rename"}]
             /\ watcher.at = "swap" => watcher.content.doc # Unreadable
CurrentOK == current \in Contents /\ current.doc # Unreadable
FilesOK   == /\ inodes \in Seq(Contents) /\ writes \in Nat /\ path \in 0..Len(inodes)
             /\ events \in Seq({"write", "rename"})

TypeInv ==
  /\ FilesOK /\ WatchOK /\ CurrentOK /\ EditOK /\ RawOK /\ WatcherOK
  /\ up \in BOOLEAN /\ crashes \in Nat

LEMMA TypeInvIsTyped == TypeInv => TypeOK
BY DEF TypeInv, TypeOK, FilesOK, WatchOK, CurrentOK, EditOK, RawOK, WatcherOK

LEMMA ContentIs ==
  ASSUME TypeInv, NEW doc \in Docs \cup {Unreadable}, NEW whole \in BOOLEAN,
         NEW by \in {"dashboard", "hand", "reload"}, NEW told \in BOOLEAN
  PROVE  Content(doc, whole, by, told) \in Contents /\ Content(doc, whole, by, told).doc = doc
BY DEF Content, Contents, TypeInv, FilesOK

LEMMA BodyIs == /\ \A body \in Bodies : body \in Docs \cup {Unreadable}
                /\ EmptyDoc \in Docs /\ EmptyDoc # Unreadable
BY EmptyDocIs, ConfigAssumption

LEMMA HereIs ==
  ASSUME TypeInv, path # 0
  PROVE  path \in 1..Len(inodes) /\ Here \in Contents /\ Here.doc \in Docs \cup {Unreadable}
<1>1. path \in 1..Len(inodes) /\ inodes \in Seq(Contents)
  BY LenProperties DEF TypeInv, FilesOK
<1>2. Here \in Contents
  BY <1>1, ElementOfSeq DEF Here
<1> QED BY <1>1, <1>2 DEF Contents

LEMMA NewInode ==
  ASSUME TypeInv, NEW c \in Contents, inodes' = Append(inodes, c)
  PROVE  /\ inodes' \in Seq(Contents) /\ Len(inodes) \in Nat /\ Len(inodes') = Len(inodes) + 1
         /\ inodes'[Len(inodes) + 1] = c
         /\ \A i \in 1..Len(inodes) : inodes'[i] = inodes[i]
BY AppendProperties, LenProperties DEF TypeInv, FilesOK

LEMMA SameInode ==
  ASSUME TypeInv, NEW c \in Contents, NEW n \in 1..Len(inodes), inodes' = [inodes EXCEPT ![n] = c]
  PROVE  /\ inodes' \in Seq(Contents) /\ Len(inodes) \in Nat /\ Len(inodes') = Len(inodes)
         /\ \A i \in 1..Len(inodes) : inodes'[i] = IF i = n THEN c ELSE inodes[i]
BY ExceptSeq, LenProperties DEF TypeInv, FilesOK

LEMMA NotifyOK ==
  ASSUME TypeInv, NEW n, NEW event \in {"write", "rename"}, Notify(n, event)
  PROVE  events' \in Seq({"write", "rename"})
BY AppendProperties DEF TypeInv, FilesOK, Notify

LEMMA ByHandType == ASSUME TypeInv, ByHand PROVE EditOK'
<1>1. EditOK
  BY DEF TypeInv
<1>2. CASE edit.at = "write"
  <2>1. edit \in [at: {"write"}, request: Edits, base: Contents, alone: BOOLEAN]
    BY <1>1, <1>2 DEF EditOK, NoEdit
  <2>2. edit' = [edit EXCEPT !.alone = FALSE]
    BY <1>2 DEF ByHand
  <2> QED BY <1>1, <1>2, <2>1, <2>2 DEF EditOK
<1>3. CASE edit.at # "write"
  BY <1>1, <1>3 DEF ByHand, EditOK
<1> QED BY <1>2, <1>3

LEMMA PutNewType ==
  ASSUME TypeInv, NEW c \in Contents, PutNew(c)
  PROVE  /\ FilesOK' /\ WatchOK' /\ Len(inodes) \in Nat /\ Len(inodes') = Len(inodes) + 1
         /\ inodes'[path'] = c /\ path' = Len(inodes) + 1
         /\ raw' = raw => RawOK'
<1>1. /\ inodes' \in Seq(Contents) /\ Len(inodes) \in Nat /\ Len(inodes') = Len(inodes) + 1
      /\ inodes'[Len(inodes) + 1] = c
  BY NewInode DEF PutNew
<1>2. writes' = writes + 1 /\ path' = Len(inodes) + 1 /\ events' = events /\ watch' \in {0, watch}
  BY DEF PutNew, WatchWithout
<1>3. raw' = raw => RawOK'
  BY <1>1 DEF TypeInv, RawOK
<1> QED BY <1>1, <1>2, <1>3 DEF TypeInv, FilesOK, WatchOK

LEMMA InPlaceType ==
  ASSUME TypeInv, NEW c \in Contents, NEW n \in 1..Len(inodes), WriteInPlace(n, c)
  PROVE  /\ FilesOK' /\ Len(inodes') = Len(inodes) /\ path' = path
         /\ \A i \in 1..Len(inodes) : inodes'[i] = IF i = n THEN c ELSE inodes[i]
<1>1. /\ inodes' \in Seq(Contents) /\ Len(inodes') = Len(inodes)
      /\ \A i \in 1..Len(inodes) : inodes'[i] = IF i = n THEN c ELSE inodes[i]
  BY SameInode DEF WriteInPlace
<1>2. events' \in Seq({"write", "rename"})
  BY NotifyOK DEF WriteInPlace
<1>3. writes' = writes + 1 /\ path' = path
  BY DEF WriteInPlace
<1> QED BY <1>1, <1>2, <1>3 DEF TypeInv, FilesOK

LEMMA InitType == Init => TypeInv
<1> SUFFICES ASSUME Init PROVE TypeInv
  OBVIOUS
<1> DEFINE c == [doc |-> FirstDoc, whole |-> TRUE, by |-> "hand", told |-> FALSE, gen |-> 1]
<1>1. /\ inodes = <<c>> /\ writes = 1 /\ path = 1 /\ watch = 0 /\ events = <<>> /\ current = inodes[1]
      /\ edit = NoEdit /\ raw = NoRaw /\ watcher = [at |-> "start"] /\ up = TRUE /\ crashes = 0
  BY DEF Init
<1>2. c \in Contents /\ c.doc # Unreadable
  BY ConfigAssumption DEF Contents
<1> HIDE DEF c
<1>3. inodes \in Seq(Contents) /\ Len(inodes) = 1 /\ inodes[1] = c
  BY <1>1, <1>2
<1> QED BY <1>1, <1>2, <1>3
        DEF TypeInv, FilesOK, WatchOK, CurrentOK, EditOK, RawOK, WatcherOK, NoEdit, NoRaw

LEMMA ParseForEditType == ASSUME TypeInv, NEW e \in Edits, ParseForEdit(e) PROVE TypeInv'
<1>1. /\ UNCHANGED <<fileVars, current, raw, watcher, up, crashes>> /\ path # 0 /\ Here.doc # Unreadable
      /\ edit' = [at |-> "write", request |-> e, base |-> Here, alone |-> raw = NoRaw]
  BY DEF ParseForEdit, Readable
<1>2. Here \in Contents
  BY <1>1, HereIs
<1>3. EditOK'
  BY <1>1, <1>2 DEF EditOK
<1> QED BY <1>1, <1>3 DEF TypeInv, fileVars, FilesOK, WatchOK, CurrentOK, RawOK, WatcherOK

LEMMA EditStepType == ASSUME TypeInv, EditStep PROVE TypeInv'
<1>1. CASE WriteFails
  BY <1>1 DEF TypeInv, WriteFails, EditOK, NoEdit, fileVars, FilesOK, WatchOK, CurrentOK, RawOK, WatcherOK
<1>2. CASE Rename
  <2> DEFINE doc == Apply(edit.base.doc, edit.request)
             c == Content(doc, TRUE, "dashboard", FALSE)
  <2>1. /\ edit.at = "write" /\ PutNew(c) /\ edit' = [at |-> "publish", content |-> c]
        /\ UNCHANGED <<current, raw, watcher, up, crashes>>
    BY <1>2 DEF Rename
  <2>2. edit.base \in Contents /\ edit.request \in Edits /\ edit.base.doc # Unreadable
    BY <2>1 DEF TypeInv, EditOK, NoEdit
  <2>3. edit.base.doc \in Docs
    BY <2>2 DEF Contents
  <2>4. doc \in Docs
    BY <2>2, <2>3, EditMeans
  <2> HIDE DEF doc
  <2>5. c \in Contents /\ c.doc # Unreadable
    <3>1. doc # Unreadable
      BY <2>4, ConfigAssumption
    <3> QED BY <2>4, <3>1, ContentIs
  <2> HIDE DEF c
  <2>6. FilesOK' /\ WatchOK' /\ RawOK'
    BY <2>1, <2>5, PutNewType
  <2>7. EditOK'
    BY <2>1, <2>5 DEF EditOK
  <2> QED BY <2>1, <2>6, <2>7 DEF TypeInv, CurrentOK, WatcherOK
<1>3. CASE Publish
  <2>1. /\ edit.at = "publish" /\ edit' = NoEdit /\ current' = edit.content
        /\ UNCHANGED <<fileVars, raw, watcher, up, crashes>>
    BY <1>3 DEF Publish
  <2>2. CurrentOK'
    BY <2>1 DEF TypeInv, EditOK, NoEdit, CurrentOK
  <2> QED BY <2>1, <2>2 DEF TypeInv, EditOK, NoEdit, fileVars, FilesOK, WatchOK, RawOK, WatcherOK
<1> QED BY <1>1, <1>2, <1>3 DEF EditStep

LEMMA OpenTruncateType == ASSUME TypeInv, NEW body \in Bodies, OpenTruncate(body) PROVE TypeInv'
<1>1. /\ ByHand /\ UNCHANGED <<current, watcher, up, crashes>>
  BY DEF OpenTruncate
<1>2. EditOK'
  BY <1>1, ByHandType
<1>3. CASE path = 0
  <2> DEFINE c == Content(EmptyDoc, FALSE, "hand", FALSE)
  <2>1. PutNew(c) /\ raw' = [at |-> "write", inode |-> Len(inodes) + 1, body |-> body]
    BY <1>3 DEF OpenTruncate
  <2>2. c \in Contents
    BY BodyIs, ContentIs
  <2> HIDE DEF c
  <2>3. FilesOK' /\ WatchOK' /\ Len(inodes) \in Nat /\ Len(inodes') = Len(inodes) + 1
    BY <2>1, <2>2, PutNewType
  <2>4. RawOK'
    BY <2>1, <2>3 DEF RawOK
  <2> QED BY <1>1, <1>2, <2>3, <2>4 DEF TypeInv, CurrentOK, WatcherOK
<1>4. CASE path # 0
  <2> DEFINE c == Content(EmptyDoc, FALSE, "hand", watch = path)
  <2>1. /\ WriteInPlace(path, c) /\ raw' = [at |-> "write", inode |-> path, body |-> body]
        /\ UNCHANGED watch
    BY <1>4 DEF OpenTruncate
  <2>2. c \in Contents /\ path \in 1..Len(inodes)
    BY <1>4, BodyIs, ContentIs, HereIs
  <2> HIDE DEF c
  <2>3. FilesOK' /\ Len(inodes') = Len(inodes) /\ path' = path
    BY <2>1, <2>2, InPlaceType
  <2>4. RawOK' /\ WatchOK'
    BY <2>1, <2>2, <2>3 DEF TypeInv, RawOK, WatchOK
  <2> QED BY <1>1, <1>2, <2>3, <2>4 DEF TypeInv, CurrentOK, WatcherOK
<1> QED BY <1>3, <1>4

LEMMA RawStepType == ASSUME TypeInv, RawStep PROVE TypeInv'
<1>1. raw.at = "write" /\ raw' = NoRaw /\ watch' \in {0, watch} /\ UNCHANGED <<current, watcher, up, crashes>>
  BY DEF RawStep, WriteBody, WriteBodyFails, CloseRaw
<1>2. raw.inode \in 1..Len(inodes) /\ raw.body \in Bodies
  BY <1>1 DEF TypeInv, RawOK, NoRaw
<1>3. CASE WriteBody
  <2> DEFINE c == Content(raw.body, TRUE, "hand", watch = raw.inode)
  <2>1. WriteInPlace(raw.inode, c) /\ ByHand
    BY <1>3 DEF WriteBody
  <2>2. c \in Contents
    BY <1>2, BodyIs, ContentIs
  <2> HIDE DEF c
  <2>3. FilesOK' /\ Len(inodes') = Len(inodes)
    BY <1>2, <2>1, <2>2, InPlaceType
  <2>4. EditOK'
    BY <2>1, ByHandType
  <2> QED BY <1>1, <2>3, <2>4 DEF TypeInv, CurrentOK, WatcherOK, RawOK, WatchOK
<1>4. CASE WriteBodyFails
  <2>1. UNCHANGED <<inodes, writes, path, events, edit>>
    BY <1>4 DEF WriteBodyFails
  <2> QED BY <1>1, <2>1 DEF TypeInv, CurrentOK, WatcherOK, RawOK, WatchOK, FilesOK, EditOK
<1> QED BY <1>3, <1>4 DEF RawStep

LEMMA EditorType ==
  ASSUME TypeInv, NEW body \in Bodies, EditorReplaces(body) \/ EditorCreates(body)
  PROVE  TypeInv'
<1> DEFINE c == Content(body, TRUE, "hand", FALSE)
<1>1. PutNew(c) /\ ByHand /\ UNCHANGED <<current, raw, watcher, up, crashes>>
  BY DEF EditorReplaces, EditorCreates
<1>2. c \in Contents
  BY BodyIs, ContentIs
<1> HIDE DEF c
<1>3. FilesOK' /\ WatchOK' /\ RawOK' /\ EditOK'
  BY <1>1, <1>2, PutNewType, ByHandType
<1> QED BY <1>1, <1>3 DEF TypeInv, CurrentOK, WatcherOK

LEMMA EditorMovesAwayType == ASSUME TypeInv, EditorMovesAway PROVE TypeInv'
<1>1. /\ path' = 0 /\ watch' \in {0, watch} /\ Notify(path, "rename") /\ ByHand
      /\ UNCHANGED <<inodes, writes, current, raw, watcher, up, crashes>>
  BY DEF EditorMovesAway
<1>2. EditOK' /\ events' \in Seq({"write", "rename"})
  BY <1>1, ByHandType, NotifyOK
<1> QED BY <1>1, <1>2, LenProperties DEF TypeInv, FilesOK, WatchOK, RawOK, CurrentOK, WatcherOK

LEMMA WatcherStepType == ASSUME TypeInv, WatcherStep PROVE TypeInv'
<1>1. FilesOK /\ WatchOK /\ CurrentOK /\ EditOK /\ RawOK /\ WatcherOK /\ up \in BOOLEAN /\ crashes \in Nat
  BY DEF TypeInv
<1>2. CASE AddWatch \/ Readd
  <2>1. /\ UNCHANGED <<inodes, writes, path, events, current, edit, raw, up, crashes>>
        /\ watch' \in {path, watch}
        /\ watcher' \in [at: {"start", "select", "readd", "stopped"}]
    BY <1>2 DEF AddWatch, Readd
  <2>2. watcher'.at # "swap"
    BY <2>1
  <2> QED BY <1>1, <2>1, <2>2 DEF TypeInv, FilesOK, WatchOK, CurrentOK, EditOK, RawOK, WatcherOK
<1>3. CASE ParseForReload
  <2>1. /\ UNCHANGED <<inodes, writes, path, watch, current, edit, raw, up, crashes>>
        /\ events # <<>> /\ events' = Tail(events)
        /\ watcher' = IF Readable THEN [at |-> "swap", content |-> Here, event |-> Head(events)]
                      ELSE AfterReload(Head(events))
    BY <1>3 DEF ParseForReload
  <2>2. Head(events) \in {"write", "rename"} /\ Tail(events) \in Seq({"write", "rename"})
    BY <1>1, <2>1, HeadTailProperties DEF FilesOK
  <2>3. WatcherOK'
    <3>1. CASE Readable
      <4>1. Here \in Contents /\ Here.doc # Unreadable
        BY <3>1, HereIs DEF Readable
      <4> QED BY <2>1, <2>2, <3>1, <4>1 DEF WatcherOK
    <3>2. CASE ~Readable
      BY <2>1, <3>2 DEF WatcherOK, AfterReload
    <3> QED BY <3>1, <3>2
  <2> QED BY <1>1, <2>1, <2>2, <2>3 DEF TypeInv, FilesOK, WatchOK, CurrentOK, EditOK, RawOK
<1>4. CASE Swap
  <2>1. /\ UNCHANGED <<fileVars, edit, raw, up, crashes>> /\ watcher.at = "swap"
        /\ current' = [watcher.content EXCEPT !.by = "reload"]
        /\ watcher' = AfterReload(watcher.event)
    BY <1>4 DEF Swap
  <2>2. watcher.content \in Contents /\ watcher.content.doc # Unreadable
    BY <1>1, <2>1 DEF WatcherOK
  <2>3. CurrentOK'
    BY <2>1, <2>2 DEF CurrentOK, Contents
  <2>4. WatcherOK'
    BY <2>1 DEF WatcherOK, AfterReload
  <2> QED BY <1>1, <2>1, <2>3, <2>4 DEF TypeInv, fileVars, FilesOK, WatchOK, EditOK, RawOK
<1> QED BY <1>2, <1>3, <1>4 DEF WatcherStep

LEMMA ProcessType == ASSUME TypeInv, Crash \/ GenerateIfMissing \/ Load PROVE TypeInv'
<1>1. FilesOK /\ WatchOK /\ CurrentOK /\ EditOK /\ RawOK /\ WatcherOK /\ up \in BOOLEAN /\ crashes \in Nat
  BY DEF TypeInv
<1>2. CASE Crash
  <2>1. /\ UNCHANGED <<inodes, writes, path, current>>
        /\ watch' = 0 /\ events' = <<>> /\ edit' = NoEdit /\ raw' = NoRaw /\ watcher' = [at |-> "stopped"]
        /\ up' = FALSE /\ crashes' = crashes + 1
    BY <1>2 DEF Crash
  <2>2. Len(inodes) \in Nat
    BY <1>1, LenProperties DEF FilesOK
  <2>3. FilesOK' /\ WatchOK' /\ CurrentOK'
    BY <1>1, <2>1, <2>2 DEF FilesOK, WatchOK, CurrentOK
  <2>4. EditOK' /\ RawOK' /\ WatcherOK'
    BY <2>1 DEF EditOK, RawOK, WatcherOK, NoEdit, NoRaw
  <2>5. up' \in BOOLEAN
    BY <2>1, Zenon
  <2>6. crashes' \in Nat
    BY <1>1, <2>1
  <2> QED BY <2>3, <2>4, <2>5, <2>6 DEF TypeInv
<1>3. CASE GenerateIfMissing
  <2> DEFINE c == Content(EmptyDoc, TRUE, "hand", FALSE)
  <2>1. PutNew(c) /\ UNCHANGED <<current, edit, raw, watcher, up, crashes>>
    BY <1>3 DEF GenerateIfMissing
  <2>2. c \in Contents
    BY BodyIs, ContentIs
  <2> HIDE DEF c
  <2>3. FilesOK' /\ WatchOK' /\ RawOK'
    BY <2>1, <2>2, PutNewType
  <2> QED BY <1>1, <2>1, <2>3 DEF TypeInv, CurrentOK, EditOK, WatcherOK
<1>4. CASE Load
  <2>1. /\ path # 0 /\ Here.doc # Unreadable /\ current' = Here
        /\ watcher' = [at |-> "start"] /\ up' = TRUE
        /\ UNCHANGED <<fileVars, edit, raw, crashes>>
    BY <1>4 DEF Load, Readable
  <2>2. CurrentOK' /\ WatcherOK'
    BY <2>1, HereIs DEF CurrentOK, WatcherOK
  <2> QED BY <1>1, <2>1, <2>2 DEF TypeInv, fileVars, FilesOK, WatchOK, EditOK, RawOK
<1> QED BY <1>2, <1>3, <1>4

LEMMA NextType == TypeInv /\ [Next]_vars => TypeInv'
<1> SUFFICES ASSUME TypeInv, [Next]_vars PROVE TypeInv'
  OBVIOUS
<1>1. CASE Next
  BY <1>1, ParseForEditType, EditStepType, OpenTruncateType, EditorType, RawStepType,
     EditorMovesAwayType, WatcherStepType, ProcessType DEF Next
<1>2. CASE UNCHANGED vars
  BY <1>2 DEF TypeInv, vars, fileVars, FilesOK, WatchOK, CurrentOK, EditOK, RawOK, WatcherOK
<1> QED BY <1>1, <1>2

(***************************************************************************)
(* Every variable has its type: in memory there is always a document.      *)
(***************************************************************************)
THEOREM TypeCorrect == Spec => []TypeOK
<1> QED BY TypeInvIsTyped, InitType, NextType, PTL DEF Spec

-------------------------------------------------------------------------------
(* On disk, ConfigManager is ConfigStore.                                      *)

\* As long as nobody writes the file by hand, an edit works on what is at the path.
AloneInv ==
  /\ edit # NoEdit => up
  /\ edit.at = "write" /\ edit.alone => path # 0 /\ Here.doc = edit.base.doc

StoreInv == TypeInv /\ AloneInv

\* What a step is to the store.
StoreStep == Overwrites \/ Store!Next \/ Saved' = Saved

LEMMA SavedSame ==
  ASSUME path' = path, path # 0 => inodes'[path].doc = inodes[path].doc
  PROVE  Saved' = Saved
BY DEF Saved, Here

LEMMA HandWrites ==
  ASSUME \/ path' = 0
         \/ path' # 0 /\ (inodes'[path'].doc \in Bodies \/ inodes'[path'].doc = EmptyDoc)
  PROVE  Store!Next
<1>1. CASE path' = 0
  <2>1. Saved' = MeaningOf(Unreadable)
    BY <1>1 DEF Saved, MeaningOf
  <2> QED BY <2>1 DEF Store!Next, Store!Write
<1>2. CASE path' # 0 /\ inodes'[path'].doc \in Bodies
  <2>1. Saved' = MeaningOf(inodes'[path'].doc)
    BY <1>2 DEF Saved, Here, MeaningOf
  <2> QED BY <1>2, <2>1 DEF Store!Next, Store!Write
<1>3. CASE path' # 0 /\ inodes'[path'].doc = EmptyDoc
  <2>1. Saved' = MeaningOf(EmptyDoc)
    BY <1>3 DEF Saved, Here, MeaningOf
  <2>2. MeaningOf(EmptyDoc) = Store!Empty
    BY EmptyDocIs, ConfigAssumption DEF MeaningOf
  <2> QED BY <2>1, <2>2 DEF Store!Next, Store!Write
<1> QED BY <1>1, <1>2, <1>3

\* Nobody is alone with the file any more.
LEMMA ByHandAlone ==
  ASSUME StoreInv, ByHand, UNCHANGED up
  PROVE  AloneInv'
<1>1. EditOK /\ AloneInv
  BY DEF StoreInv, TypeInv
<1>2. CASE edit.at = "write"
  <2>1. edit \in [at: {"write"}, request: Edits, base: Contents, alone: BOOLEAN]
    BY <1>1, <1>2 DEF EditOK, NoEdit
  <2>2. edit' = [edit EXCEPT !.alone = FALSE]
    BY <1>2 DEF ByHand
  <2>3. edit'.alone = FALSE /\ edit' # NoEdit /\ edit # NoEdit
    BY <2>1, <2>2 DEF NoEdit
  <2> QED BY <1>1, <2>3 DEF AloneInv
<1>3. CASE edit.at # "write"
  BY <1>1, <1>3 DEF ByHand, AloneInv
<1> QED BY <1>2, <1>3

LEMMA InitStore == Init => StoreInv /\ Store!Init
<1> SUFFICES ASSUME Init PROVE StoreInv /\ Store!Init
  OBVIOUS
<1>1. TypeInv
  BY InitType
<1>2. edit = NoEdit /\ path = 1 /\ inodes[1].doc = FirstDoc
  BY DEF Init
<1>3. AloneInv
  BY <1>2 DEF AloneInv, NoEdit
<1>4. FirstDoc # Unreadable
  BY ConfigAssumption
<1>5. Saved = Meaning(FirstDoc)
  BY <1>2, <1>4 DEF Saved, Here, MeaningOf
<1> QED BY <1>1, <1>3, <1>5 DEF StoreInv, Store!Init

\* Steps that leave the file alone.
LEMMA QuietStore ==
  ASSUME StoreInv, UNCHANGED <<inodes, path>>, edit' = NoEdit \/ (edit' = edit /\ up' = up)
  PROVE  AloneInv' /\ StoreStep
<1>1. AloneInv'
  BY DEF StoreInv, AloneInv, Here, NoEdit
<1>2. Saved' = Saved
  BY SavedSame
<1> QED BY <1>1, <1>2 DEF StoreStep

LEMMA ParseForEditStore ==
  ASSUME StoreInv, NEW e \in Edits, ParseForEdit(e) PROVE AloneInv' /\ StoreStep
<1>1. UNCHANGED <<inodes, path>> /\ up /\ up' = up /\ path # 0
      /\ edit' = [at |-> "write", request |-> e, base |-> Here, alone |-> raw = NoRaw]
  BY DEF ParseForEdit, Readable, fileVars
<1>2. AloneInv'
  BY <1>1 DEF AloneInv, Here
<1>3. Saved' = Saved
  BY <1>1, SavedSame
<1> QED BY <1>2, <1>3 DEF StoreStep

LEMMA RenameStore == ASSUME StoreInv, Rename PROVE AloneInv' /\ StoreStep
<1> DEFINE base == edit.base.doc
           e    == edit.request
           c    == Content(Apply(base, e), TRUE, "dashboard", FALSE)
<1>1. edit.at = "write" /\ PutNew(c) /\ edit' = [at |-> "publish", content |-> c] /\ up' = up
  BY DEF Rename
<1>2. edit \in [at: {"write"}, request: Edits, base: Contents, alone: BOOLEAN] /\ base # Unreadable
  BY <1>1 DEF StoreInv, TypeInv, EditOK, NoEdit
<1>3. base \in Docs /\ e \in Edits
  BY <1>2 DEF Contents
<1>4. /\ Apply(base, e) \in Docs
      /\ e.name \in Aliases \cup ProviderIDs /\ e.value \in Values
      /\ \/ Meaning(Apply(base, e)) = PutIn(Meaning(base), e.name, e.value)
         \/ Meaning(Apply(base, e)) = DropFrom(Meaning(base), e.name)
  BY <1>3, EditMeans
<1>5. c \in Contents /\ c.doc = Apply(base, e)
  BY <1>4, ContentIs DEF StoreInv
<1> HIDE DEF c, base, e
<1>6. inodes'[path'] = c /\ path' # 0
  BY <1>1, <1>5, PutNewType DEF StoreInv
<1>7. Apply(base, e) # Unreadable
  BY <1>4, ConfigAssumption
<1>8. Saved' = Meaning(Apply(base, e))
  BY <1>5, <1>6, <1>7 DEF Saved, Here, MeaningOf
<1>9. AloneInv'
  BY <1>1, <1>2 DEF StoreInv, AloneInv, NoEdit
<1>10. CASE ~edit.alone
  BY <1>1, <1>9, <1>10 DEF Overwrites, StoreStep
<1>11. CASE edit.alone
  <2>1. path # 0 /\ Here.doc = base
    BY <1>1, <1>11 DEF StoreInv, AloneInv, base
  <2>2. Saved = Meaning(base)
    BY <1>2, <2>1 DEF Saved, MeaningOf
  <2>3. Saved # Unreadable
    BY <1>3, <2>2, MeaningIsReadable
  <2>4. Store!Put(e.name, e.value) \/ Store!Drop(e.name)
    BY <1>4, <1>8, <2>2, <2>3 DEF Store!Put, Store!Drop, PutIn, DropFrom
  <2> QED BY <1>4, <1>9, <2>4 DEF StoreStep, Store!Next
<1> QED BY <1>2, <1>10, <1>11

LEMMA PublishStore == ASSUME StoreInv, Publish PROVE AloneInv' /\ StoreStep
<1>1. UNCHANGED <<inodes, path>> /\ edit' = NoEdit
  BY DEF Publish, fileVars
<1> QED BY <1>1, QuietStore

LEMMA OpenTruncateStore ==
  ASSUME StoreInv, NEW body \in Bodies, OpenTruncate(body) PROVE AloneInv' /\ StoreStep
<1>1. ByHand /\ up' = up
  BY DEF OpenTruncate
<1>2. path' # 0 /\ inodes'[path'].doc = EmptyDoc
  <2>1. CASE path = 0
    <3> DEFINE c == Content(EmptyDoc, FALSE, "hand", FALSE)
    <3>1. PutNew(c)
      BY <2>1 DEF OpenTruncate
    <3>2. c \in Contents /\ c.doc = EmptyDoc
      BY BodyIs, ContentIs DEF StoreInv
    <3> HIDE DEF c
    <3> QED BY <3>1, <3>2, PutNewType DEF StoreInv
  <2>2. CASE path # 0
    <3> DEFINE c == Content(EmptyDoc, FALSE, "hand", watch = path)
    <3>1. WriteInPlace(path, c)
      BY <2>2 DEF OpenTruncate
    <3>2. c \in Contents /\ c.doc = EmptyDoc /\ path \in 1..Len(inodes)
      BY <2>2, BodyIs, ContentIs, HereIs DEF StoreInv
    <3> HIDE DEF c
    <3> QED BY <2>2, <3>1, <3>2, InPlaceType DEF StoreInv
  <2> QED BY <2>1, <2>2
<1> QED BY <1>1, <1>2, ByHandAlone, HandWrites DEF StoreStep

LEMMA WriteBodyStore == ASSUME StoreInv, WriteBody PROVE AloneInv' /\ StoreStep
<1> DEFINE c == Content(raw.body, TRUE, "hand", watch = raw.inode)
           n == raw.inode
<1>1. raw.at = "write" /\ WriteInPlace(n, c) /\ ByHand /\ up' = up
  BY DEF WriteBody
<1>2. n \in 1..Len(inodes) /\ raw.body \in Bodies
  BY <1>1 DEF StoreInv, TypeInv, RawOK, NoRaw
<1>3. c \in Contents /\ c.doc = raw.body
  BY <1>2, BodyIs, ContentIs DEF StoreInv
<1> HIDE DEF c, n
<1>4. path' = path /\ \A i \in 1..Len(inodes) : inodes'[i] = IF i = n THEN c ELSE inodes[i]
  BY <1>1, <1>2, <1>3, InPlaceType DEF StoreInv
<1>5. AloneInv'
  BY <1>1, ByHandAlone
<1>6. CASE path # 0 /\ path = n
  BY <1>2, <1>3, <1>4, <1>5, <1>6, HandWrites DEF StoreStep
<1>7. CASE path = 0 \/ path # n
  <2>1. path # 0 => path \in 1..Len(inodes)
    BY HereIs DEF StoreInv
  <2>2. Saved' = Saved
    BY <1>4, <1>7, <2>1, SavedSame
  <2> QED BY <1>5, <2>2 DEF StoreStep
<1> QED BY <1>6, <1>7

LEMMA EditorStore ==
  ASSUME StoreInv, NEW body \in Bodies, EditorReplaces(body) \/ EditorCreates(body)
  PROVE  AloneInv' /\ StoreStep
<1> DEFINE c == Content(body, TRUE, "hand", FALSE)
<1>1. PutNew(c) /\ ByHand /\ up' = up
  BY DEF EditorReplaces, EditorCreates
<1>2. c \in Contents /\ c.doc = body
  BY BodyIs, ContentIs DEF StoreInv
<1> HIDE DEF c
<1>3. path' # 0 /\ inodes'[path'].doc \in Bodies
  BY <1>1, <1>2, PutNewType DEF StoreInv
<1> QED BY <1>1, <1>3, ByHandAlone, HandWrites DEF StoreStep

LEMMA EditorMovesAwayStore == ASSUME StoreInv, EditorMovesAway PROVE AloneInv' /\ StoreStep
<1>1. path' = 0 /\ ByHand /\ up' = up
  BY DEF EditorMovesAway
<1> QED BY <1>1, ByHandAlone, HandWrites DEF StoreStep

LEMMA GenerateStore == ASSUME StoreInv, GenerateIfMissing PROVE AloneInv' /\ StoreStep
<1> DEFINE c == Content(EmptyDoc, TRUE, "hand", FALSE)
<1>1. PutNew(c) /\ ~up /\ UNCHANGED <<edit, up>>
  BY DEF GenerateIfMissing
<1>2. c \in Contents /\ c.doc = EmptyDoc
  BY BodyIs, ContentIs DEF StoreInv
<1> HIDE DEF c
<1>3. path' # 0 /\ inodes'[path'].doc = EmptyDoc
  BY <1>1, <1>2, PutNewType DEF StoreInv
<1>4. AloneInv'
  BY <1>1 DEF StoreInv, AloneInv, NoEdit
<1> QED BY <1>3, <1>4, HandWrites DEF StoreStep

LEMMA LoadStore == ASSUME StoreInv, Load PROVE AloneInv' /\ StoreStep
<1>1. ~up /\ up' = TRUE /\ UNCHANGED <<inodes, path, edit>>
  BY DEF Load, fileVars
<1>2. edit = NoEdit
  BY <1>1 DEF StoreInv, AloneInv
<1> QED BY <1>1, <1>2, QuietStore

LEMMA NextStore == StoreInv /\ [Next]_vars => StoreInv' /\ StoreStep
<1> SUFFICES ASSUME StoreInv, [Next]_vars PROVE StoreInv' /\ StoreStep
  OBVIOUS
<1>1. TypeInv'
  BY NextType DEF StoreInv
<1>2. ASSUME \/ WriteFails \/ WriteBodyFails \/ WatcherStep \/ Crash \/ UNCHANGED vars
      PROVE  AloneInv' /\ StoreStep
  <2>1. UNCHANGED <<inodes, path>> /\ (edit' = NoEdit \/ (edit' = edit /\ up' = up))
    BY <1>2 DEF WriteFails, WriteBodyFails, WatcherStep, AddWatch, ParseForReload, Swap, Readd, Crash,
                vars, fileVars
  <2> QED BY <2>1, QuietStore
<1>3. AloneInv' /\ StoreStep
  BY <1>2, ParseForEditStore, RenameStore, PublishStore, OpenTruncateStore, WriteBodyStore,
     EditorStore, EditorMovesAwayStore, GenerateStore, LoadStore
     DEF Next, EditStep, RawStep
<1> QED BY <1>1, <1>3 DEF StoreInv

(***************************************************************************)
(* What config.toml says changes as ConfigStore lets it: the dashboard's   *)
(* edits are atomic and none is lost, however late the watcher is, which-  *)
(* ever write fails and wherever the process dies; but for an edit during  *)
(* which the file was written by hand.                                     *)
(***************************************************************************)
THEOREM ConfigImplementsStore == Spec => StoreImplemented
<1>1. StoreInv /\ [Next]_vars => StoreInv'
  BY NextStore
<1>2. StoreInv /\ [Next]_vars => [Overwrites \/ Store!Next]_Saved
  BY NextStore DEF StoreStep
<1> QED BY <1>1, <1>2, InitStore, PTL DEF Spec, StoreImplemented

-------------------------------------------------------------------------------
(* A dashboard edit goes live.                                                 *)

\* Between the rename and the end of the handler, what the dashboard put at the
\* path is what this handler will publish.
LiveInv ==
  /\ edit # NoEdit => up
  /\ path # 0 /\ Here.by = "dashboard" =>
       /\ edit.at = "publish" => Here.gen = edit.content.gen
       /\ up /\ edit.at # "publish" => current.gen = Here.gen \/ current.by = "reload"

Inv == TypeInv /\ LiveInv

\* Somebody writes by hand: what the dashboard put at the path is not there.
LEMMA HandWriteLive ==
  ASSUME Inv, edit' = edit \/ ByHand, UNCHANGED <<current, up>>,
         path' # 0 => inodes'[path'].by = "hand" \/ (path' = path /\ inodes'[path'] = inodes[path])
  PROVE  LiveInv'
<1>1. /\ edit'.at = edit.at
      /\ edit' # NoEdit => edit # NoEdit
      /\ edit.at = "publish" => edit' = edit
  <2>1. CASE edit.at = "write"
    <3>1. edit \in [at: {"write"}, request: Edits, base: Contents, alone: BOOLEAN]
      BY <2>1 DEF Inv, TypeInv, EditOK, NoEdit
    <3> QED BY <2>1, <3>1 DEF ByHand, NoEdit
  <2>2. CASE edit.at # "write"
    BY <2>2 DEF ByHand
  <2> QED BY <2>1, <2>2
<1> QED BY <1>1 DEF Inv, LiveInv, Here

\* Steps that leave files and memory alone.
LEMMA QuietLive ==
  ASSUME Inv, UNCHANGED <<inodes, path, current>>,
         \/ edit' = NoEdit /\ (edit.at = "publish" => ~up')
         \/ edit' = edit
         \/ up /\ edit.at # "publish" /\ edit'.at # "publish",
         up' = up \/ (~up' /\ edit' = NoEdit)
  PROVE  LiveInv'
BY DEF Inv, LiveInv, Here, NoEdit

LEMMA RenameLive == ASSUME Inv, Rename PROVE LiveInv'
<1> DEFINE c == Content(Apply(edit.base.doc, edit.request), TRUE, "dashboard", FALSE)
<1>1. edit.at = "write" /\ PutNew(c) /\ edit' = [at |-> "publish", content |-> c] /\ up' = up
  BY DEF Rename
<1>2. edit.base \in Contents /\ edit.request \in Edits /\ edit.base.doc # Unreadable
  BY <1>1 DEF Inv, TypeInv, EditOK, NoEdit
<1>3. Apply(edit.base.doc, edit.request) \in Docs
  BY <1>2, EditMeans DEF Contents
<1>4. c \in Contents
  BY <1>3, ContentIs DEF Inv
<1> HIDE DEF c
<1>5. inodes'[path'] = c
  BY <1>1, <1>4, PutNewType DEF Inv
<1>6. edit'.at = "publish" /\ edit'.content = c /\ edit # NoEdit
  BY <1>1 DEF NoEdit
<1> QED BY <1>1, <1>5, <1>6 DEF Inv, LiveInv, Here

LEMMA PublishLive == ASSUME Inv, Publish PROVE LiveInv'
<1>1. /\ edit.at = "publish" /\ edit' = NoEdit /\ current' = edit.content
      /\ UNCHANGED <<inodes, path, up>>
  BY DEF Publish, fileVars
<1> QED BY <1>1 DEF Inv, LiveInv, Here, NoEdit

LEMMA OpenTruncateLive == ASSUME Inv, NEW body \in Bodies, OpenTruncate(body) PROVE LiveInv'
<1>1. ByHand /\ UNCHANGED <<current, up>>
  BY DEF OpenTruncate
<1>2. CASE path = 0
  <2> DEFINE c == Content(EmptyDoc, FALSE, "hand", FALSE)
  <2>1. PutNew(c) /\ c.by = "hand"
    BY <1>2 DEF OpenTruncate, Content
  <2>2. c \in Contents
    BY BodyIs, ContentIs DEF Inv
  <2> HIDE DEF c
  <2>3. inodes'[path'] = c
    BY <2>1, <2>2, PutNewType DEF Inv
  <2> QED BY <1>1, <2>1, <2>3, HandWriteLive
<1>3. CASE path # 0
  <2> DEFINE c == Content(EmptyDoc, FALSE, "hand", watch = path)
  <2>1. WriteInPlace(path, c) /\ c.by = "hand"
    BY <1>3 DEF OpenTruncate, Content
  <2>2. c \in Contents /\ path \in 1..Len(inodes)
    BY <1>3, BodyIs, ContentIs, HereIs DEF Inv
  <2> HIDE DEF c
  <2>3. inodes'[path'] = c
    BY <2>1, <2>2, InPlaceType DEF Inv
  <2> QED BY <1>1, <2>1, <2>3, HandWriteLive
<1> QED BY <1>2, <1>3

LEMMA WriteBodyLive == ASSUME Inv, WriteBody PROVE LiveInv'
<1> DEFINE n == raw.inode
           c == Content(raw.body, TRUE, "hand", watch = n)
<1>1. raw.at = "write" /\ WriteInPlace(n, c) /\ ByHand /\ UNCHANGED <<current, up>> /\ c.by = "hand"
  BY DEF WriteBody, Content
<1>2. n \in 1..Len(inodes) /\ raw.body \in Bodies
  BY <1>1 DEF Inv, TypeInv, RawOK, NoRaw
<1>3. c \in Contents
  BY <1>2, BodyIs, ContentIs DEF Inv
<1> HIDE DEF c, n
<1>4. path' = path /\ \A i \in 1..Len(inodes) : inodes'[i] = IF i = n THEN c ELSE inodes[i]
  BY <1>1, <1>2, <1>3, InPlaceType DEF Inv
<1>5. path # 0 => path \in 1..Len(inodes)
  BY HereIs DEF Inv
<1> QED BY <1>1, <1>4, <1>5, HandWriteLive

LEMMA NewFileLive ==
  ASSUME Inv, NEW doc \in Docs \cup {Unreadable}, PutNew(Content(doc, TRUE, "hand", FALSE)),
         edit' = edit \/ ByHand, UNCHANGED <<current, up>>
  PROVE  LiveInv'
<1> DEFINE c == Content(doc, TRUE, "hand", FALSE)
<1>1. c \in Contents /\ c.by = "hand"
  <2>1. c \in Contents
    BY ContentIs DEF Inv
  <2> QED BY <2>1 DEF Content
<1> HIDE DEF c
<1>2. inodes'[path'] = c
  <2>1. PutNew(c)
    BY DEF c
  <2> QED BY <1>1, <2>1, PutNewType DEF Inv
<1> QED BY <1>1, <1>2, HandWriteLive

LEMMA SwapLive == ASSUME Inv, Swap PROVE LiveInv'
<1>1. /\ UNCHANGED <<inodes, path, edit, up>> /\ edit = NoEdit /\ watcher.at = "swap"
      /\ current' = [watcher.content EXCEPT !.by = "reload"]
  BY DEF Swap, fileVars
<1>2. watcher.content \in Contents
  BY <1>1 DEF Inv, TypeInv, WatcherOK
<1>3. current'.by = "reload"
  BY <1>1, <1>2 DEF Contents
<1> QED BY <1>1, <1>3 DEF Inv, LiveInv, Here, NoEdit

LEMMA NextLive == Inv /\ [Next]_vars => Inv'
<1> SUFFICES ASSUME Inv, [Next]_vars PROVE LiveInv'
  BY NextType DEF Inv
<1>1. ASSUME NEW e \in Edits, ParseForEdit(e) PROVE LiveInv'
  BY <1>1, QuietLive DEF ParseForEdit, fileVars, NoEdit
<1>2. CASE WriteFails \/ WriteBodyFails \/ AddWatch \/ ParseForReload \/ Readd \/ Crash \/ UNCHANGED vars
  <2>1. /\ UNCHANGED <<inodes, path, current>>
        /\ edit' = edit \/ (edit' = NoEdit /\ (edit.at = "publish" => ~up'))
        /\ up' = up \/ (~up' /\ edit' = NoEdit)
    BY <1>2 DEF WriteFails, WriteBodyFails, AddWatch, ParseForReload, Readd, Crash, vars, fileVars
  <2> QED BY <2>1, QuietLive
<1>3. ASSUME NEW body \in Bodies, EditorReplaces(body) \/ EditorCreates(body) PROVE LiveInv'
  BY <1>3, BodyIs, NewFileLive DEF EditorReplaces, EditorCreates
<1>4. CASE EditorMovesAway
  BY <1>4, HandWriteLive DEF EditorMovesAway
<1>5. CASE GenerateIfMissing
  BY <1>5, BodyIs, NewFileLive DEF GenerateIfMissing
<1>6. CASE Load
  BY <1>6 DEF Load, fileVars, Inv, LiveInv, Here, NoEdit
<1> QED BY <1>1, <1>2, <1>3, <1>4, <1>5, <1>6, RenameLive, PublishLive, OpenTruncateLive,
        WriteBodyLive, SwapLive DEF Next, EditStep, RawStep, WatcherStep

LEMMA InitLive == Init => Inv
<1> SUFFICES ASSUME Init PROVE LiveInv
  BY InitType DEF Inv
<1>1. path = 1 /\ inodes[1].by = "hand" /\ edit = NoEdit
  BY DEF Init
<1> QED BY <1>1 DEF LiveInv, Here

(***************************************************************************)
(* A dashboard edit is live when its handler is done, or a reload put      *)
(* something else in its place: whoever else writes the file, in whatever  *)
(* order, and wherever the process dies.                                   *)
(***************************************************************************)
THEOREM DashboardEditIsLiveHolds == Spec => []DashboardEditIsLive
<1>1. Inv => DashboardEditIsLive
  BY DEF Inv, LiveInv, DashboardEditIsLive, NoEdit
<1> QED BY <1>1, InitLive, NextLive, PTL DEF Spec
===============================================================================
