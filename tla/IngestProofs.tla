---------------------------- MODULE IngestProofs ----------------------------
(***************************************************************************)
(* Proofs about the records that a run fetched: for any listing and topic, *)
(* which names deduplication keeps, that it keeps one entry for a paper,   *)
(* under its own name, that records which come again change none, and      *)
(* which batches are selected.                                             *)
(***************************************************************************)
EXTENDS Ingest, FiniteSetTheorems, WellFoundedInduction, TLAPS

\* Entries as normalize makes them and merging keeps them: the name of a paper is that
\* of its strongest ID.
Entries ==
  {p \in [identifier : Nat \X Nat, source : DOMAIN SourceRank, title : Nat,
          published : Nat, categories : SUBSET STRING, doi : Nat, arxiv_id : Nat] :
     /\ p.source = "arxiv" => p.arxiv_id # 0
     /\ p.arxiv_id # 0 => p.identifier = <<NameRank.arxiv, p.arxiv_id>>
     /\ p.arxiv_id = 0 /\ p.doi # 0 => p.identifier = <<NameRank.doi, p.doi>>}

LEMMA Ranks ==
  /\ \A s \in DOMAIN SourceRank : SourceRank[s] \in Nat /\ NameRank[s] \in Nat
  /\ \A s \in DOMAIN SourceRank : SourceRank[s] <= 0 => s = "arxiv"
  /\ SourceRank["arxiv"] = 0 /\ "arxiv" \in DOMAIN SourceRank
  /\ NameRank.arxiv = 1 /\ NameRank.doi = 5
BY DEF SourceRank, NameRank

LEMMA EntryFacts ==
  ASSUME NEW p \in Entries
  PROVE  /\ p.identifier[1] \in Nat /\ p.identifier[2] \in Nat
         /\ p.identifier = <<p.identifier[1], p.identifier[2]>>
         /\ SourceRank[p.source] \in Nat /\ StrongPriority(p) \in 0 .. 2
         /\ PreferenceKey(p) \in [1 .. 4 -> Nat] /\ ProcessingKey(p) \in [1 .. 6 -> Nat]
<1>1. /\ p.identifier \in Nat \X Nat /\ p.source \in DOMAIN SourceRank
      /\ p.title \in Nat /\ p.published \in Nat
  BY DEF Entries
<1>2. /\ p.identifier[1] \in Nat /\ p.identifier[2] \in Nat
      /\ p.identifier = <<p.identifier[1], p.identifier[2]>>
  BY <1>1
<1>3. StrongPriority(p) \in 0 .. 2
  BY DEF StrongPriority
<1>4. SourceRank[p.source] \in Nat
  BY <1>1, Ranks
<1> QED BY <1>1, <1>2, <1>3, <1>4 DEF PreferenceKey, ProcessingKey

-----------------------------------------------------------------------------
(***************************************************************************)
(* The order of tuples of numbers.                                         *)
(***************************************************************************)
LEMMA BeforeTransitive ==
  ASSUME NEW n \in Nat, NEW a \in [1 .. n -> Nat], NEW b \in [1 .. n -> Nat],
         NEW c \in [1 .. n -> Nat], Before(a, b), Before(b, c)
  PROVE  Before(a, c)
<1>1. PICK i \in 1 .. n : a[i] < b[i] /\ \A j \in 1 .. i - 1 : a[j] = b[j]
  BY DEF Before
<1>2. PICK k \in 1 .. n : b[k] < c[k] /\ \A j \in 1 .. k - 1 : b[j] = c[j]
  BY DEF Before
<1>3. CASE i <= k
  <2>1. b[i] <= c[i]
    BY SMTT(20), <1>2, <1>3
  <2>2. a[i] < c[i] /\ \A j \in 1 .. i - 1 : a[j] = c[j]
    BY SMTT(20), <1>1, <1>2, <1>3, <2>1
  <2> QED BY <2>2 DEF Before
<1>4. CASE k < i
  <2>1. a[k] < c[k] /\ \A j \in 1 .. k - 1 : a[j] = c[j]
    BY <1>1, <1>2, <1>4
  <2> QED BY <2>1 DEF Before
<1> QED BY <1>3, <1>4

LEMMA BeforeIrreflexive ==
  ASSUME NEW n \in Nat, NEW a \in [1 .. n -> Nat]
  PROVE  ~Before(a, a)
BY DEF Before

LEMMA BeforePair ==
  ASSUME NEW a \in Nat \X Nat, NEW b \in Nat \X Nat
  PROVE  /\ Before(a, b) <=> a[1] < b[1] \/ (a[1] = b[1] /\ a[2] < b[2])
         /\ a = <<a[1], a[2]>>
<1>1. DOMAIN a = 1 .. 2 /\ a[1] \in Nat /\ a[2] \in Nat /\ b[1] \in Nat /\ b[2] \in Nat
      /\ a = <<a[1], a[2]>>
  OBVIOUS
<1>2. ASSUME Before(a, b) PROVE a[1] < b[1] \/ (a[1] = b[1] /\ a[2] < b[2])
  <2>1. PICK i \in 1 .. 2 : a[i] < b[i] /\ \A j \in 1 .. i - 1 : a[j] = b[j]
    BY <1>1, <1>2 DEF Before
  <2> QED BY <1>1, <2>1
<1>3. ASSUME a[1] < b[1] \/ (a[1] = b[1] /\ a[2] < b[2]) PROVE Before(a, b)
  <2>1. CASE a[1] < b[1]
    BY <1>1, <2>1 DEF Before
  <2>2. CASE a[1] = b[1] /\ a[2] < b[2]
    BY <1>1, <2>2 DEF Before
  <2> QED BY <1>3, <2>1, <2>2
<1> QED BY <1>1, <1>2, <1>3

-----------------------------------------------------------------------------
(***************************************************************************)
(* A loop over a finite set computes a value for every part of it.         *)
(***************************************************************************)
LEMMA SmallestPart ==
  ASSUME NEW D, IsFiniteSet(D), NEW W \in SUBSET (SUBSET D), W # {}
  PROVE  \E s \in W : \A t \in SUBSET s : t # s => t \notin W
<1>1. IsWellFoundedOn(StrictSubsetOrdering(D), FiniteSubsetsOf(D))
  BY FS_StrictSubsetOrderingWellFounded
<1>2. W \subseteq FiniteSubsetsOf(D)
  BY FS_Subset DEF FiniteSubsetsOf
<1>3. PICK s \in W : \A t \in W : ~(<<t, s>> \in StrictSubsetOrdering(D))
  BY <1>1, <1>2, WFMin
<1> QED BY <1>3 DEF StrictSubsetOrdering

\* A loop that begins with base and takes the last element of a part by its step.
IsLoop(D, V, base, pick, step) ==
  /\ IsFiniteSet(D) /\ base \in V
  /\ pick \in [(SUBSET D) \ {{}} -> D]
  /\ \A s \in (SUBSET D) \ {{}} : pick[s] \in s
  /\ step \in [(SUBSET D) \X V -> V]

Computes(g, D, V, base, pick, step) ==
  /\ g \in [SUBSET D -> V]
  /\ g[{}] = base
  /\ \A s \in (SUBSET D) \ {{}} : g[s] = step[<<s, g[s \ {pick[s]}]>>]

LEMMA LoopHasValues ==
  ASSUME NEW D, NEW V, NEW base, NEW pick, NEW step, IsLoop(D, V, base, pick, step)
  PROVE  \E g : Computes(g, D, V, base, pick, step)
<1> USE DEF IsLoop
<1> DEFINE before(s) == s \ {pick[s]}
           Loops(S) == {g \in [SUBSET S -> V] :
                          /\ g[{}] = base
                          /\ \A s \in (SUBSET S) \ {{}} : g[s] = step[<<s, g[before(s)]>>]}
           final(S) == (CHOOSE g \in Loops(S) : TRUE)[S]
<1>0. \A s \in (SUBSET D) \ {{}} :
        before(s) \in SUBSET D /\ before(s) \in SUBSET s /\ before(s) # s
  OBVIOUS
<1>1. ASSUME NEW S \in SUBSET D, NEW s \in SUBSET S, s # {}
      PROVE  before(s) \in SUBSET S /\ before(s) # S
  <2>1. pick[s] \in s /\ s \in SUBSET D
    BY <1>1
  <2> QED BY <2>1
<1> HIDE DEF before
<1>3. ASSUME NEW S \in SUBSET D, NEW T \in SUBSET D, NEW g \in Loops(S), NEW h \in Loops(T),
             NEW r \in SUBSET (S \cap T)
      PROVE  g[r] = h[r]
  <2> DEFINE apart == {s \in SUBSET (S \cap T) : g[s] # h[s]}
  <2> SUFFICES ASSUME apart # {} PROVE FALSE
    OBVIOUS
  <2>1. PICK s \in apart : \A t \in SUBSET s : t # s => t \notin apart
    <3>1. apart \in SUBSET (SUBSET D)
      OBVIOUS
    <3> HIDE DEF apart
    <3> QED BY <3>1, SmallestPart
  <2>2. s \in SUBSET S /\ s \in SUBSET T /\ s # {} /\ s \in SUBSET D /\ g[s] # h[s]
    OBVIOUS
  <2>3. before(s) \in SUBSET D /\ before(s) \in SUBSET s /\ before(s) # s
    BY <1>0, <2>2
  <2>5. g[before(s)] = h[before(s)]
    BY <2>1, <2>2, <2>3
  <2> QED BY <2>2, <2>5
<1>4. \A S \in SUBSET D : Loops(S) # {}
  <2> DEFINE without == {s \in SUBSET D : Loops(s) = {}}
  <2> SUFFICES ASSUME without # {} PROVE FALSE
    OBVIOUS
  <2>1. PICK S \in without : \A t \in SUBSET S : t # S => t \notin without
    <3>1. without \in SUBSET (SUBSET D)
      OBVIOUS
    <3> HIDE DEF without
    <3> QED BY <3>1, SmallestPart
  <2>2. ASSUME NEW t \in SUBSET S, t # S PROVE Loops(t) # {}
    BY <2>1, <2>2
  <2>3. ASSUME NEW t \in SUBSET S, t # S PROVE (CHOOSE g \in Loops(t) : TRUE) \in Loops(t)
    BY <2>2, <2>3
  <2>4. ASSUME NEW t \in SUBSET S, t # S PROVE final(t) \in V
    <3> DEFINE g == CHOOSE g \in Loops(t) : TRUE
    <3>1. g \in [SUBSET t -> V]
      BY <2>3, <2>4
    <3> HIDE DEF g
    <3>2. g[t] \in V
      BY <3>1
    <3> QED BY <3>2 DEF g
  <2> DEFINE h == [s \in SUBSET S |->
                     IF s = {} THEN base ELSE step[<<s, final(before(s))>>]]
  <2>5. ASSUME NEW t \in SUBSET S, t # S PROVE h[t] = final(t)
    <3> DEFINE g == CHOOSE g \in Loops(t) : TRUE
    <3>1. g \in Loops(t)
      BY <2>3, <2>5
    <3>2. CASE t = {}
      BY <3>1, <3>2
    <3>3. CASE t # {}
      <4>1. before(t) \in SUBSET t /\ before(t) # S /\ before(t) \in SUBSET S
        BY <1>0, <2>5, <3>3
      <4>2. (CHOOSE f \in Loops(before(t)) : TRUE) \in Loops(before(t))
        BY <2>3, <4>1
      <4>3. t \in SUBSET D /\ before(t) \in SUBSET D /\ before(t) \in SUBSET (t \cap before(t))
        BY <4>1
      <4>5. g[before(t)] = final(before(t))
        <5> HIDE DEF Loops
        <5> QED BY <1>3, <3>1, <4>2, <4>3
      <4>4. g[t] = step[<<t, g[before(t)]>>]
        BY <3>1, <3>3
      <4> QED BY <3>3, <4>5, <4>4
    <3> QED BY <3>2, <3>3
  <2>6. h \in [SUBSET S -> V]
    <3> SUFFICES ASSUME NEW s \in SUBSET S, s # {}
                 PROVE  step[<<s, final(before(s))>>] \in V
      OBVIOUS
    <3>1. before(s) \in SUBSET S /\ before(s) # S
      <4>1. S \in SUBSET D /\ s \in SUBSET S /\ s # {}
        OBVIOUS
      <4> HIDE DEF h, without, Loops, final
      <4> QED BY <1>1, <4>1
    <3>2. final(before(s)) \in V
      BY <2>4, <3>1
    <3> QED BY <3>2
  <2>7. ASSUME NEW s \in (SUBSET S) \ {{}} PROVE h[s] = step[<<s, h[before(s)]>>]
    <3>1. before(s) \in SUBSET S /\ before(s) # S
      <4>1. S \in SUBSET D /\ s \in SUBSET S /\ s # {}
        OBVIOUS
      <4> HIDE DEF h, without, Loops, final
      <4> QED BY <1>1, <4>1
    <3>2. h[before(s)] = final(before(s))
      BY <2>5, <3>1
    <3> QED BY <3>2
  <2>8. h \in Loops(S)
    <3>1. h[{}] = base
      OBVIOUS
    <3> HIDE DEF h
    <3> QED BY <2>6, <2>7, <3>1
  <2> QED BY <2>1, <2>8
<1>5. PICK g \in Loops(D) : TRUE
  BY <1>4
<1> QED BY <1>5 DEF before, Computes

-----------------------------------------------------------------------------
(***************************************************************************)
(* The papers are taken in order: of any there is a last one.              *)
(***************************************************************************)
LEMMA LastOfPapers ==
  ASSUME NEW papers \in SUBSET Entries, IsFiniteSet(papers), papers # {}, NEW rows
  PROVE  /\ LastOf(rows, papers) \in papers
         /\ \A q \in papers :
              ~Before(ProcessingKey(LastOf(rows, papers)), ProcessingKey(q))
<1> DEFINE greatest(S) == {p \in S : \A q \in S : ~Before(ProcessingKey(p), ProcessingKey(q))}
           without == {S \in SUBSET papers : S # {} /\ greatest(S) = {}}
<1>1. ASSUME NEW p \in papers, NEW q \in papers, NEW r \in papers,
             Before(ProcessingKey(p), ProcessingKey(q)), Before(ProcessingKey(q), ProcessingKey(r))
      PROVE  Before(ProcessingKey(p), ProcessingKey(r))
  <2>1. /\ ProcessingKey(p) \in [1 .. 6 -> Nat] /\ ProcessingKey(q) \in [1 .. 6 -> Nat]
        /\ ProcessingKey(r) \in [1 .. 6 -> Nat]
    BY EntryFacts
  <2> QED BY <1>1, <2>1, BeforeTransitive
<1>2. ASSUME NEW p \in papers PROVE ~Before(ProcessingKey(p), ProcessingKey(p))
  <2>1. ProcessingKey(p) \in [1 .. 6 -> Nat]
    BY EntryFacts
  <2> QED BY <2>1, BeforeIrreflexive
<1>3. greatest(papers) # {}
  <2> SUFFICES ASSUME without # {} PROVE FALSE
    OBVIOUS
  <2>1. PICK S \in without : \A T \in SUBSET S : T # S => T \notin without
    <3>1. without \in SUBSET (SUBSET papers)
      OBVIOUS
    <3> HIDE DEF without
    <3> QED BY <3>1, SmallestPart
  <2>2. PICK p \in S : TRUE
    OBVIOUS
  <2>3. CASE S = {p}
    BY <1>2, <2>3
  <2>4. CASE S # {p}
    <3>1. S \ {p} \notin without /\ S \ {p} # {}
      BY <2>1, <2>2, <2>4
    <3>2. PICK q \in S \ {p} : \A r \in S \ {p} : ~Before(ProcessingKey(q), ProcessingKey(r))
      BY <3>1
    <3>3. CASE Before(ProcessingKey(q), ProcessingKey(p))
      <4>1. p \in greatest(S)
        <5>1. ASSUME NEW r \in S, Before(ProcessingKey(p), ProcessingKey(r)) PROVE FALSE
          BY <1>1, <1>2, <3>2, <3>3, <5>1
        <5> QED BY <5>1
      <4> QED BY <4>1
    <3>4. CASE ~Before(ProcessingKey(q), ProcessingKey(p))
      BY <3>2, <3>4
    <3> QED BY <3>3, <3>4
  <2> QED BY <2>3, <2>4
<1>4. \E p \in greatest(papers) : p \notin rows \/ greatest(papers) \subseteq rows
  BY <1>3
<1>5. LastOf(rows, papers) \in greatest(papers)
  BY <1>4, Zenon DEF LastOf
<1> QED BY <1>5

-----------------------------------------------------------------------------
(***************************************************************************)
(* What merging keeps.                                                     *)
(***************************************************************************)
LEMMA PreferredIsStrong ==
  ASSUME NEW p \in Entries, NEW q \in Entries
  PROVE  /\ Before(PreferenceKey(p), PreferenceKey(q)) => StrongPriority(p) <= StrongPriority(q)
         /\ ~Before(PreferenceKey(p), PreferenceKey(q)) => StrongPriority(q) <= StrongPriority(p)
<1>1. /\ DOMAIN PreferenceKey(p) = 1 .. 4 /\ DOMAIN PreferenceKey(q) = 1 .. 4
      /\ PreferenceKey(p)[1] = StrongPriority(p) /\ PreferenceKey(q)[1] = StrongPriority(q)
  BY EntryFacts DEF PreferenceKey
<1>2. StrongPriority(p) \in Nat /\ StrongPriority(q) \in Nat
  BY EntryFacts
<1>3. ASSUME Before(PreferenceKey(p), PreferenceKey(q))
      PROVE  StrongPriority(p) <= StrongPriority(q)
  <2>1. PICK i \in 1 .. 4 : /\ PreferenceKey(p)[i] < PreferenceKey(q)[i]
                            /\ \A j \in 1 .. i - 1 : PreferenceKey(p)[j] = PreferenceKey(q)[j]
    BY <1>1, <1>3 DEF Before
  <2>2. CASE i = 1
    BY <1>1, <1>2, <2>1, <2>2
  <2>3. CASE i # 1
    <3>1. 1 \in 1 .. i - 1
      BY <2>3
    <3> QED BY <1>1, <1>2, <2>1, <3>1
  <2> QED BY <2>2, <2>3
<1>4. ASSUME StrongPriority(p) < StrongPriority(q)
      PROVE  Before(PreferenceKey(p), PreferenceKey(q))
  <2>1. 1 \in DOMAIN PreferenceKey(p) /\ \A j \in 1 .. 1 - 1 : FALSE
    BY <1>1
  <2> QED BY <1>1, <1>4, <2>1 DEF Before
<1> QED BY <1>2, <1>3, <1>4

\* The preferred paper keeps its name: the other has no stronger ID.
LEMMA MergedKeepsName ==
  ASSUME NEW p \in Entries, NEW q \in Entries, StrongPriority(p) <= StrongPriority(q)
  PROVE  /\ Merged(p, q) \in Entries
         /\ Merged(p, q).identifier = p.identifier /\ Merged(p, q).source = p.source
         /\ Merged(p, q).arxiv_id = p.arxiv_id
         /\ StrongKeys(Merged(p, q)) \subseteq StrongKeys(p) \cup StrongKeys(q)
<1>1. /\ p.arxiv_id = 0 => q.arxiv_id = 0
      /\ p.arxiv_id = 0 /\ p.doi = 0 => q.doi = 0
  BY DEF StrongPriority
<1> DEFINE doi == IF p.doi # 0 THEN p.doi ELSE q.doi
<1>2. Identifier(p.arxiv_id, doi, p.identifier) = p.identifier
  BY <1>1 DEF Identifier, Entries
<1>3. Merged(p, q) = [p EXCEPT !.identifier = p.identifier,
                               !.categories = @ \cup q.categories,
                               !.doi = doi, !.arxiv_id = p.arxiv_id]
  <2>1. (IF p.arxiv_id # 0 THEN p.arxiv_id ELSE q.arxiv_id) = p.arxiv_id
    BY <1>1
  <2> QED BY <1>2, <2>1, Zenon DEF Merged
<1>4. doi \in Nat /\ p.categories \cup q.categories \in SUBSET STRING
  BY DEF Entries
<1>5. /\ Merged(p, q).identifier = p.identifier /\ Merged(p, q).source = p.source
      /\ Merged(p, q).arxiv_id = p.arxiv_id /\ Merged(p, q).doi = doi
  BY <1>3 DEF Entries
<1>6. Merged(p, q) \in Entries
  BY <1>1, <1>3, <1>4, <1>5 DEF Entries
<1>7. StrongKeys(Merged(p, q)) \subseteq StrongKeys(p) \cup StrongKeys(q)
  BY <1>5 DEF StrongKeys
<1> QED BY <1>5, <1>6, <1>7

-----------------------------------------------------------------------------
(***************************************************************************)
(* Clusters.                                                               *)
(***************************************************************************)
ClusterSet ==
  [id : Nat, since : Nat, paper : Entries, strong : SUBSET ({"arxiv", "doi"} \X Nat),
   bibliographic : SUBSET (Nat \X Nat)]

LEMMA KeysOfEntries ==
  ASSUME NEW p \in Entries
  PROVE  /\ StrongKeys(p) \subseteq {"arxiv", "doi"} \X Nat
         /\ BibliographicKey(p) \in Nat \X Nat
<1>1. p.arxiv_id \in Nat /\ p.doi \in Nat /\ p.title \in Nat /\ p.published \in Nat
  BY DEF Entries
<1>2. NumberOf(p.arxiv_id) \in Nat
  BY <1>1 DEF NumberOf
<1> QED BY <1>1, <1>2 DEF StrongKeys, BibliographicKey

LEMMA ClusterOfOne ==
  ASSUME NEW p \in Entries, NEW n \in Nat
  PROVE  /\ Cluster(n, n, p, {}, {}) \in ClusterSet
         /\ Cluster(n, n, p, StrongKeys(p), {BibliographicKey(p)}) \in ClusterSet
BY KeysOfEntries DEF Cluster, ClusterSet

LEMMA MergedClusters ==
  ASSUME NEW left \in ClusterSet, NEW right \in ClusterSet
  PROVE  LET c == MergeClusters(left, right) IN
         /\ c \in ClusterSet /\ c.since = right.since
         /\ c.strong = left.strong \cup right.strong
         /\ c.paper.identifier \in {left.paper.identifier, right.paper.identifier}
         /\ StrongKeys(c.paper) \subseteq StrongKeys(left.paper) \cup StrongKeys(right.paper)
<1> DEFINE paper == IF Before(PreferenceKey(right.paper), PreferenceKey(left.paper))
                    THEN Merged(right.paper, left.paper) ELSE Merged(left.paper, right.paper)
<1>1. left.paper \in Entries /\ right.paper \in Entries
  BY DEF ClusterSet
<1>2. /\ paper \in Entries
      /\ paper.identifier \in {left.paper.identifier, right.paper.identifier}
      /\ StrongKeys(paper) \subseteq StrongKeys(left.paper) \cup StrongKeys(right.paper)
  BY <1>1, PreferredIsStrong, MergedKeepsName
<1> HIDE DEF paper
<1>3. MergeClusters(left, right) =
        Cluster(IF left.id <= right.id THEN left.id ELSE right.id, right.since, paper,
                left.strong \cup right.strong, left.bibliographic \cup right.bibliographic)
  BY Zenon DEF MergeClusters, paper
<1> QED BY <1>2, <1>3 DEF Cluster, ClusterSet

\* A finite set has an element of the largest value.
LEMMA LatestOf ==
  ASSUME NEW found, IsFiniteSet(found), found # {}, NEW f \in [found -> Nat]
  PROVE  \E c \in found : \A d \in found : f[d] <= f[c]
<1> DEFINE without == {S \in SUBSET found : S # {} /\ ~\E c \in S : \A d \in S : f[d] <= f[c]}
<1> SUFFICES ASSUME without # {} PROVE FALSE
  OBVIOUS
<1>1. PICK S \in without : \A T \in SUBSET S : T # S => T \notin without
  <2>1. without \in SUBSET (SUBSET found)
    OBVIOUS
  <2> HIDE DEF without
  <2> QED BY <2>1, SmallestPart
<1>2. PICK c \in S : TRUE
  OBVIOUS
<1>3. \A d \in S : f[d] \in Nat
  OBVIOUS
<1>4. S # {c}
  BY <1>2, <1>3
<1>5. S \ {c} \notin without /\ S \ {c} # {}
  <2>1. S \ {c} \in SUBSET S /\ S \ {c} # S /\ S \ {c} # {}
    BY <1>2, <1>4
  <2> HIDE DEF without
  <2> QED BY <1>1, <2>1
<1>6. PICK d \in S \ {c} : \A e \in S \ {c} : f[e] <= f[d]
  BY <1>5
<1>7. CASE f[d] <= f[c]
  <2>1. \A e \in S : f[e] <= f[c]
    BY <1>2, <1>3, <1>6, <1>7
  <2> QED BY <1>2, <2>1
<1>8. CASE ~(f[d] <= f[c])
  <2>1. \A e \in S : f[e] <= f[d]
    BY <1>2, <1>3, <1>6, <1>8
  <2> QED BY <1>6, <2>1
<1> QED BY <1>7, <1>8

LEMMA LatestOfClusters ==
  ASSUME NEW found \in SUBSET ClusterSet, IsFiniteSet(found), found # {}
  PROVE  \E c \in found : \A d \in found : d.id <= c.id
<1> DEFINE id == [c \in found |-> c.id]
<1>1. id \in [found -> Nat] /\ \A c \in found : id[c] = c.id
  BY DEF ClusterSet
<1> HIDE DEF id
<1>2. \E c \in found : \A d \in found : id[d] <= id[c]
  BY <1>1, LatestOf
<1> QED BY <1>1, <1>2

\* What holds of the first cluster, and is kept when one that was found is merged into
\* it, holds of the merged cluster.
LEMMA MergingKeeps ==
  ASSUME NEW found \in SUBSET ClusterSet, IsFiniteSet(found), NEW first \in ClusterSet,
         NEW Good, <<{}, first>> \in Good,
         \A S \in SUBSET found : \A c \in S : \A m \in ClusterSet :
           <<S \ {c}, m>> \in Good => <<S, MergeClusters(m, c)>> \in Good
  PROVE  <<found, MergeAll(first, found)>> \in Good /\ MergeAll(first, found) \in ClusterSet
<1> DEFINE latest(S) == CHOOSE c \in S : \A d \in S : d.id <= c.id
           Merges(g) == g = [S \in SUBSET found |->
                               IF S = {} THEN first
                               ELSE MergeClusters(g[S \ {latest(S)}], latest(S))]
           iter == CHOOSE g : Merges(g)
           wrong == {S \in SUBSET found : ~(<<S, iter[S]>> \in Good /\ iter[S] \in ClusterSet)}
<1>1. MergeAll(first, found) = iter[found]
  BY DEF MergeAll, MapThenFoldSet
<1>2. ASSUME NEW S \in SUBSET found, S # {}
      PROVE  latest(S) \in S
  <2>1. \E c \in S : \A d \in S : d.id <= c.id
    <3>1. S \in SUBSET ClusterSet /\ IsFiniteSet(S)
      BY FS_Subset
    <3> QED BY <1>2, <3>1, LatestOfClusters
  <2> QED BY <2>1, Zenon
<1> HIDE DEF latest
<1>3. Merges(iter)
  <2> DEFINE pick == [S \in (SUBSET found) \ {{}} |-> latest(S)]
             step == [w \in (SUBSET found) \X ClusterSet |->
                        IF w[1] = {} THEN first ELSE MergeClusters(w[2], latest(w[1]))]
  <2>1. pick \in [(SUBSET found) \ {{}} -> found] /\ \A S \in (SUBSET found) \ {{}} : pick[S] \in S
    BY <1>2
  <2>2. step \in [(SUBSET found) \X ClusterSet -> ClusterSet]
    <3> SUFFICES ASSUME NEW S \in SUBSET found, S # {}, NEW m \in ClusterSet
                 PROVE  MergeClusters(m, latest(S)) \in ClusterSet
      OBVIOUS
    <3>1. latest(S) \in ClusterSet
      BY <1>2
    <3> QED BY <3>1, MergedClusters
  <2>3. PICK g : Computes(g, found, ClusterSet, first, pick, step)
    <3>1. IsLoop(found, ClusterSet, first, pick, step)
      BY <2>1, <2>2 DEF IsLoop
    <3> HIDE DEF pick, step
    <3> QED BY <3>1, LoopHasValues
  <2>4. ASSUME NEW S \in (SUBSET found) \ {{}}
        PROVE  g[S] = MergeClusters(g[S \ {latest(S)}], latest(S))
    <3>1. g[S \ {latest(S)}] \in ClusterSet
      BY <2>3 DEF Computes
    <3> QED BY <2>3, <3>1 DEF Computes
  <2>5. Merges(g)
    <3>1. \A S \in SUBSET found :
            g[S] = IF S = {} THEN first ELSE MergeClusters(g[S \ {latest(S)}], latest(S))
      BY <2>3, <2>4 DEF Computes
    <3> QED BY <2>3, <3>1 DEF Computes
  <2> HIDE DEF Merges
  <2> QED BY <2>5, Zenon DEF iter
<1> HIDE DEF iter
<1>4. wrong = {}
  <2> SUFFICES ASSUME wrong # {} PROVE FALSE
    OBVIOUS
  <2>1. PICK S \in wrong : \A T \in SUBSET S : T # S => T \notin wrong
    <3>1. wrong \in SUBSET (SUBSET found)
      OBVIOUS
    <3> HIDE DEF wrong
    <3> QED BY <3>1, SmallestPart
  <2>2. S # {}
    BY <1>3
  <2>3. latest(S) \in S /\ S \ {latest(S)} \notin wrong
    BY <1>2, <2>1, <2>2
  <2>4. <<S \ {latest(S)}, iter[S \ {latest(S)}]>> \in Good /\ iter[S \ {latest(S)}] \in ClusterSet
    BY <2>3
  <2>5. iter[S] = MergeClusters(iter[S \ {latest(S)}], latest(S))
    BY <1>3, <2>2
  <2>6. latest(S) \in ClusterSet
    BY <2>3
  <2> QED BY <2>3, <2>4, <2>5, <2>6, MergedClusters
<1> QED BY <1>1, <1>4

-----------------------------------------------------------------------------
(***************************************************************************)
(* The name of an arXiv paper.                                             *)
(***************************************************************************)
Names(q, p) ==
  /\ q.source = "arxiv"
  /\ NumberOf(q.arxiv_id) = NumberOf(p.arxiv_id)
  /\ q.arxiv_id <= p.arxiv_id

\* No two arXiv papers.
OneNumber(papers) ==
  \A p, q \in papers :
    p.arxiv_id # 0 /\ q.arxiv_id # 0 => NumberOf(p.arxiv_id) = NumberOf(q.arxiv_id)

LEMMA PreferredNames ==
  ASSUME NEW p \in Entries, NEW q \in Entries, p.source = "arxiv"
  PROVE  /\ Before(PreferenceKey(q), PreferenceKey(p)) =>
              q.source = "arxiv" /\ q.arxiv_id <= p.arxiv_id
         /\ ~Before(PreferenceKey(p), PreferenceKey(q)) =>
              q.source = "arxiv" /\ q.arxiv_id <= p.arxiv_id
<1> DEFINE a == PreferenceKey(p)
           b == PreferenceKey(q)
<1>1. /\ a = <<0, 0, 1, p.arxiv_id>> /\ p.arxiv_id \in Nat
      /\ b = <<StrongPriority(q), SourceRank[q.source], q.identifier[1], q.identifier[2]>>
      /\ DOMAIN a = 1 .. 4 /\ DOMAIN b = 1 .. 4
  <2>1. p.arxiv_id # 0 /\ p.arxiv_id \in Nat /\ p.identifier = <<1, p.arxiv_id>>
    BY Ranks DEF Entries
  <2>2. SourceRank[p.source] = 0 /\ StrongPriority(p) = 0
    BY <2>1, Ranks DEF StrongPriority
  <2>3. p.identifier[1] = 1 /\ p.identifier[2] = p.arxiv_id
    BY <2>1
  <2> QED BY <2>1, <2>2, <2>3 DEF PreferenceKey
<1>2. /\ StrongPriority(q) \in Nat /\ SourceRank[q.source] \in Nat
      /\ q.identifier[1] \in Nat /\ q.identifier[2] \in Nat
  BY EntryFacts
<1>3. ASSUME StrongPriority(q) = 0, SourceRank[q.source] = 0
      PROVE  /\ q.source = "arxiv" /\ q.arxiv_id \in Nat
             /\ q.identifier[1] = 1 /\ q.identifier[2] = q.arxiv_id
  <2>1. q.arxiv_id # 0 /\ q.arxiv_id \in Nat /\ q.source \in DOMAIN SourceRank
    BY <1>3 DEF StrongPriority, Entries
  <2>2. q.identifier = <<1, q.arxiv_id>>
    BY <2>1, Ranks DEF Entries
  <2> QED BY <1>3, <2>1, <2>2, Ranks
<1> HIDE DEF a, b
<1>4. ASSUME Before(b, a)
      PROVE  q.source = "arxiv" /\ q.arxiv_id <= p.arxiv_id
  <2>1. PICK i \in 1 .. 4 : b[i] < a[i] /\ \A j \in 1 .. i - 1 : b[j] = a[j]
    BY <1>1, <1>4 DEF Before
  <2>2. i # 1 /\ i # 2
    BY <1>1, <1>2, <2>1
  <2>3. b[1] = 0 /\ b[2] = 0
    <3>1. 1 \in 1 .. i - 1 /\ 2 \in 1 .. i - 1
      BY <2>2
    <3> QED BY <1>1, <2>1, <3>1
  <2>4. /\ q.source = "arxiv" /\ q.arxiv_id \in Nat
        /\ b[3] = 1 /\ b[4] = q.arxiv_id
    BY <1>1, <1>3, <2>3
  <2>5. i = 4
    BY <1>1, <2>1, <2>2, <2>4
  <2> QED BY <1>1, <2>1, <2>4, <2>5
<1>5. ASSUME ~Before(a, b)
      PROVE  q.source = "arxiv" /\ q.arxiv_id <= p.arxiv_id
  <2>1. ~(a[1] < b[1])
    <3>1. 1 \in 1 .. 4 /\ \A j \in 1 .. 1 - 1 : FALSE
      OBVIOUS
    <3> QED BY <1>1, <1>5, <3>1 DEF Before
  <2>2. b[1] = 0
    BY <1>1, <1>2, <2>1
  <2>3. ~(a[2] < b[2])
    <3>1. 2 \in 1 .. 4 /\ \A j \in 1 .. 2 - 1 : j = 1
      OBVIOUS
    <3>2. a[1] = b[1]
      BY <1>1, <2>2
    <3> QED BY <1>1, <1>5, <3>1, <3>2 DEF Before
  <2>4. b[2] = 0
    BY <1>1, <1>2, <2>3
  <2>5. /\ q.source = "arxiv" /\ q.arxiv_id \in Nat
        /\ b[3] = 1 /\ b[4] = q.arxiv_id
    BY <1>1, <1>3, <2>2, <2>4
  <2>6. ~(a[4] < b[4])
    <3>1. 4 \in 1 .. 4 /\ \A j \in 1 .. 4 - 1 : j = 1 \/ j = 2 \/ j = 3
      OBVIOUS
    <3>2. a[1] = b[1] /\ a[2] = b[2] /\ a[3] = b[3]
      BY <1>1, <2>2, <2>4, <2>5
    <3> QED BY <1>1, <1>5, <3>1, <3>2 DEF Before
  <2> QED BY <1>1, <2>5, <2>6
<1> QED BY <1>4, <1>5 DEF a, b

LEMMA MergedNames ==
  ASSUME NEW left \in ClusterSet, NEW right \in ClusterSet,
         OneNumber({left.paper, right.paper}),
         NEW p \in {left.paper, right.paper}, p.source = "arxiv"
  PROVE  Names(MergeClusters(left, right).paper, p)
<1> DEFINE l == left.paper
           r == right.paper
<1>1. l \in Entries /\ r \in Entries /\ (p = l \/ p = r)
  BY DEF ClusterSet
<1>2. MergeClusters(left, right).paper =
        IF Before(PreferenceKey(r), PreferenceKey(l)) THEN Merged(r, l) ELSE Merged(l, r)
  BY DEF MergeClusters, Cluster
<1>3. ASSUME NEW q \in {l, r}, q.source = "arxiv", q.arxiv_id <= p.arxiv_id
      PROVE  Names(q, p)
  <2>1. p.arxiv_id # 0 /\ q.arxiv_id # 0
    BY <1>1, <1>3 DEF Entries
  <2> QED BY <1>3, <2>1 DEF Names, OneNumber
<1>4. p.arxiv_id \in Nat
  BY <1>1 DEF Entries
<1>5. CASE Before(PreferenceKey(r), PreferenceKey(l))
  <2>1. Merged(r, l).source = r.source /\ Merged(r, l).arxiv_id = r.arxiv_id
    BY <1>1, <1>5, PreferredIsStrong, MergedKeepsName
  <2>2. r.source = "arxiv" /\ r.arxiv_id <= p.arxiv_id
    BY <1>1, <1>4, <1>5, PreferredNames
  <2>3. Names(r, p)
    BY <1>3, <2>2
  <2> QED BY <1>2, <1>5, <2>1, <2>3 DEF Names
<1>6. CASE ~Before(PreferenceKey(r), PreferenceKey(l))
  <2>1. Merged(l, r).source = l.source /\ Merged(l, r).arxiv_id = l.arxiv_id
    BY <1>1, <1>6, PreferredIsStrong, MergedKeepsName
  <2>2. l.source = "arxiv" /\ l.arxiv_id <= p.arxiv_id
    BY <1>1, <1>4, <1>6, PreferredNames
  <2>3. Names(l, p)
    BY <1>3, <2>2
  <2> QED BY <1>2, <1>6, <2>1, <2>3 DEF Names
<1> QED BY <1>5, <1>6

LEMMA NamesTransitive ==
  ASSUME NEW p \in Entries, NEW q \in Entries, NEW r \in Entries, Names(r, q), Names(q, p)
  PROVE  Names(r, p)
<1>1. p.arxiv_id \in Nat /\ q.arxiv_id \in Nat /\ r.arxiv_id \in Nat
  BY DEF Entries
<1> QED BY <1>1 DEF Names

-----------------------------------------------------------------------------
(***************************************************************************)
(* A paper that stands for others has one of their names, and their IDs.   *)
(***************************************************************************)
StandsFor(q, papers) ==
  /\ \E p \in papers : q.identifier = p.identifier
  /\ \A key \in StrongKeys(q) : \E p \in papers : key \in StrongKeys(p)
  /\ OneNumber(papers) => \A p \in papers : p.source = "arxiv" => Names(q, p)

LEMMA StandsForItself ==
  ASSUME NEW p \in Entries
  PROVE  StandsFor(p, {p})
<1>1. p.arxiv_id \in Nat
  BY DEF Entries
<1> QED BY <1>1 DEF StandsFor, Names

LEMMA NumberIsKey ==
  ASSUME NEW p, NEW n
  PROVE  <<"arxiv", n>> \in StrongKeys(p) <=> p.arxiv_id # 0 /\ NumberOf(p.arxiv_id) = n
BY DEF StrongKeys

LEMMA NumberOfPart ==
  ASSUME NEW q, NEW papers, StandsFor(q, papers), q.arxiv_id # 0
  PROVE  \E p \in papers : p.arxiv_id # 0 /\ NumberOf(p.arxiv_id) = NumberOf(q.arxiv_id)
<1>1. <<"arxiv", NumberOf(q.arxiv_id)>> \in StrongKeys(q)
  BY NumberIsKey
<1>2. PICK p \in papers : <<"arxiv", NumberOf(q.arxiv_id)>> \in StrongKeys(p)
  BY <1>1 DEF StandsFor
<1> QED BY <1>2, NumberIsKey

LEMMA MergedStandsFor ==
  ASSUME NEW left \in ClusterSet, NEW right \in ClusterSet,
         NEW P \in SUBSET Entries, NEW Q \in SUBSET Entries,
         StandsFor(left.paper, P), StandsFor(right.paper, Q)
  PROVE  StandsFor(MergeClusters(left, right).paper, P \cup Q)
<1> DEFINE paper == MergeClusters(left, right).paper
<1>1. /\ left.paper \in Entries /\ right.paper \in Entries /\ paper \in Entries
      /\ paper.identifier \in {left.paper.identifier, right.paper.identifier}
      /\ StrongKeys(paper) \subseteq StrongKeys(left.paper) \cup StrongKeys(right.paper)
  BY MergedClusters DEF ClusterSet
<1>2. \E p \in P \cup Q : paper.identifier = p.identifier
  BY <1>1 DEF StandsFor
<1>3. \A key \in StrongKeys(paper) : \E p \in P \cup Q : key \in StrongKeys(p)
  BY <1>1 DEF StandsFor
<1>4. ASSUME OneNumber(P \cup Q), NEW p \in P \cup Q, p.source = "arxiv"
      PROVE  Names(paper, p)
  <2>1. OneNumber(P) /\ OneNumber(Q)
    BY <1>4 DEF OneNumber
  <2>2. OneNumber({left.paper, right.paper})
    <3>1. ASSUME left.paper.arxiv_id # 0, right.paper.arxiv_id # 0
          PROVE  NumberOf(left.paper.arxiv_id) = NumberOf(right.paper.arxiv_id)
      <4>1. PICK x \in P : /\ x.arxiv_id # 0
                           /\ NumberOf(x.arxiv_id) = NumberOf(left.paper.arxiv_id)
        BY <3>1, NumberOfPart
      <4>2. PICK y \in Q : /\ y.arxiv_id # 0
                           /\ NumberOf(y.arxiv_id) = NumberOf(right.paper.arxiv_id)
        BY <3>1, NumberOfPart
      <4> QED BY <1>4, <4>1, <4>2 DEF OneNumber
    <3> QED BY <3>1 DEF OneNumber
  <2>3. PICK q \in {left.paper, right.paper} : Names(q, p)
    BY <1>4, <2>1 DEF StandsFor
  <2>4. Names(paper, q)
    <3>1. q.source = "arxiv"
      BY <2>3 DEF Names
    <3> QED BY <2>2, <3>1, MergedNames
  <2>5. p \in Entries /\ q \in Entries
    BY <1>1
  <2> QED BY <1>1, <2>3, <2>4, <2>5, NamesTransitive
<1> HIDE DEF paper
<1>5. StandsFor(paper, P \cup Q)
  BY <1>2, <1>3, <1>4 DEF StandsFor
<1> QED BY <1>5 DEF paper

LEMMA CandidatesFound ==
  ASSUME NEW clusters, NEW p, NEW c \in Candidates(clusters, p)
  PROVE  /\ c \in clusters
         /\ \/ \E key \in StrongKeys(p) : key \in c.strong
            \/ /\ CanMergeBibliographically(StrongKeys(p), c.strong)
               /\ c \in Last({d \in clusters : BibliographicKey(p) \in d.bibliographic})
<1> DEFINE titled == Last({d \in clusters : BibliographicKey(p) \in d.bibliographic})
           holding(key) == Last({d \in clusters : key \in d.strong})
<1>1. Candidates(clusters, p) =
        (UNION {holding(key) : key \in StrongKeys(p)}) \cup
        {d \in titled : CanMergeBibliographically(StrongKeys(p), d.strong)}
  BY DEF Candidates
<1>2. \A key : \A d \in holding(key) : d \in clusters /\ key \in d.strong
  BY DEF Last
<1>3. \A d \in titled : d \in clusters
  BY DEF Last
<1> HIDE DEF titled, holding
<1>4. CASE c \in UNION {holding(key) : key \in StrongKeys(p)}
  <2>1. PICK key \in StrongKeys(p) : c \in holding(key)
    BY <1>4
  <2> QED BY <1>2, <2>1
<1>5. CASE c \in titled /\ CanMergeBibliographically(StrongKeys(p), c.strong)
  BY <1>3, <1>5 DEF titled
<1> QED BY <1>1, <1>4, <1>5

\* The cluster that an iteration makes.
IsNew(new, clusters, p, n) ==
  LET found == Candidates(clusters, p) IN
  /\ new \in ClusterSet
  /\ found \subseteq clusters
  /\ Join(clusters, p, n) = (clusters \ found) \cup {new}
  /\ new.since = n
  /\ new.strong = StrongKeys(p) \cup UNION {c.strong : c \in found}
  /\ StandsFor(new.paper, {p} \cup {c.paper : c \in found})

LEMMA JoinMakesOne ==
  ASSUME NEW clusters \in SUBSET ClusterSet, IsFiniteSet(clusters),
         NEW p \in Entries, NEW n \in Nat
  PROVE  \E new : IsNew(new, clusters, p, n)
<1> DEFINE found == Candidates(clusters, p)
           own   == Cluster(n, n, p, StrongKeys(p), {BibliographicKey(p)})
           first == Cluster(n, n, p, {}, {})
           parts(S) == {p} \cup {c.paper : c \in S}
           Good == {w \in (SUBSET found) \X ClusterSet :
                      /\ w[2].strong = UNION {c.strong : c \in w[1]}
                      /\ StandsFor(w[2].paper, parts(w[1]))}
<1>1. found \subseteq clusters /\ found \in SUBSET ClusterSet /\ IsFiniteSet(found)
  <2>1. found \subseteq clusters
    BY CandidatesFound
  <2> QED BY <2>1, FS_Subset
<1>2. /\ own \in ClusterSet /\ own.since = n /\ own.strong = StrongKeys(p) /\ own.paper = p
      /\ first \in ClusterSet /\ first.strong = {} /\ first.paper = p
  <2>1. own \in ClusterSet /\ first \in ClusterSet
    BY ClusterOfOne
  <2> QED BY <2>1 DEF Cluster
<1>3. Join(clusters, p, n) =
        IF found = {} THEN clusters \cup {own}
        ELSE (clusters \ found) \cup {MergeClusters(MergeAll(first, found), own)}
  BY Zenon DEF Join
<1>4. \A S \in SUBSET found : parts(S) \in SUBSET Entries
  BY <1>1 DEF ClusterSet
<1> HIDE DEF found, own, first
<1>5. CASE found = {}
  <2>1. StandsFor(own.paper, {p} \cup {c.paper : c \in found})
    <3>1. {p} \cup {c.paper : c \in found} = {p}
      BY <1>5
    <3> QED BY <1>2, <3>1, StandsForItself
  <2>2. StrongKeys(p) = StrongKeys(p) \cup UNION {c.strong : c \in found}
    BY <1>5
  <2>3. Join(clusters, p, n) = (clusters \ found) \cup {own}
    BY <1>3, <1>5
  <2>4. IsNew(own, clusters, p, n)
    BY <1>1, <1>2, <2>1, <2>2, <2>3 DEF IsNew, found
  <2> QED BY <2>4
<1>6. CASE found # {}
  <2> DEFINE all == MergeAll(first, found)
             new == MergeClusters(all, own)
  <2>1. <<{}, first>> \in Good
    <3>1. parts({}) = {p} /\ UNION {c.strong : c \in {}} = {}
      OBVIOUS
    <3>2. StandsFor(first.paper, parts({}))
      BY <1>2, <3>1, StandsForItself
    <3> QED BY <1>2, <3>1, <3>2
  <2>2. ASSUME NEW S \in SUBSET found, NEW c \in S, NEW m \in ClusterSet,
               <<S \ {c}, m>> \in Good
        PROVE  <<S, MergeClusters(m, c)>> \in Good
    <3>1. c \in ClusterSet /\ c.paper \in Entries
      BY <1>1 DEF ClusterSet
    <3>2. /\ MergeClusters(m, c) \in ClusterSet
          /\ MergeClusters(m, c).strong = m.strong \cup c.strong
      BY <3>1, MergedClusters
    <3>3. m.strong \cup c.strong = UNION {d.strong : d \in S}
      BY <2>2
    <3>4. StandsFor(MergeClusters(m, c).paper, parts(S \ {c}) \cup {c.paper})
      <4>1. StandsFor(m.paper, parts(S \ {c})) /\ parts(S \ {c}) \in SUBSET Entries
        BY <1>4, <2>2
      <4>2. StandsFor(c.paper, {c.paper})
        BY <3>1, StandsForItself
      <4> HIDE DEF parts
      <4> QED BY <3>1, <4>1, <4>2, MergedStandsFor
    <3>5. parts(S \ {c}) \cup {c.paper} = parts(S)
      OBVIOUS
    <3>6. StandsFor(MergeClusters(m, c).paper, parts(S))
      BY <3>4, <3>5
    <3> HIDE DEF parts
    <3> QED BY <3>2, <3>3, <3>6
  <2>3. <<found, all>> \in Good /\ all \in ClusterSet
    <3> HIDE DEF Good
    <3> QED BY <1>1, <1>2, <2>1, <2>2, MergingKeeps
  <2> HIDE DEF all
  <2>4. /\ new \in ClusterSet /\ new.since = n
        /\ new.strong = all.strong \cup StrongKeys(p)
    BY <1>2, <2>3, MergedClusters
  <2>5. all.strong = UNION {c.strong : c \in found} /\ StandsFor(all.paper, parts(found))
    BY <2>3
  <2>6. StandsFor(new.paper, parts(found) \cup {p})
    <3>1. StandsFor(own.paper, {p}) /\ parts(found) \in SUBSET Entries
      BY <1>2, <1>4, StandsForItself
    <3> HIDE DEF parts
    <3> QED BY <1>2, <2>3, <2>5, <3>1, MergedStandsFor
  <2>7. parts(found) \cup {p} = {p} \cup {c.paper : c \in found}
    OBVIOUS
  <2>8. Join(clusters, p, n) = (clusters \ found) \cup {new}
    BY <1>3, <1>6 DEF all
  <2>9. StandsFor(new.paper, {p} \cup {c.paper : c \in found})
    BY <2>6, <2>7
  <2> HIDE DEF new
  <2>10. IsNew(new, clusters, p, n)
    BY <1>1, <2>4, <2>5, <2>8, <2>9 DEF IsNew, found
  <2> QED BY <2>10
<1> QED BY <1>5, <1>6

-----------------------------------------------------------------------------
(***************************************************************************)
(* The loop over the papers.                                               *)
(***************************************************************************)
ClusterSets == {C \in SUBSET ClusterSet : IsFiniteSet(C)}

LEMMA JoinKeepsType ==
  ASSUME NEW C \in ClusterSets, NEW p \in Entries, NEW n \in Nat
  PROVE  Join(C, p, n) \in ClusterSets
<1>1. C \in SUBSET ClusterSet /\ IsFiniteSet(C)
  BY DEF ClusterSets
<1>2. PICK new : IsNew(new, C, p, n)
  BY <1>1, JoinMakesOne
<1>3. new \in ClusterSet /\ Join(C, p, n) = (C \ Candidates(C, p)) \cup {new}
  BY <1>2 DEF IsNew
<1>4. IsFiniteSet(C \ Candidates(C, p))
  BY <1>1, FS_Subset
<1>5. IsFiniteSet((C \ Candidates(C, p)) \cup {new})
  BY <1>4, FS_AddElement
<1> QED BY <1>1, <1>3, <1>5 DEF ClusterSets

\* What holds before the loop, and is kept by an iteration, holds after it.
LEMMA LoopKeeps ==
  ASSUME NEW rows, NEW papers \in SUBSET Entries, IsFiniteSet(papers),
         NEW Good, <<{}, {}>> \in Good,
         \A S \in SUBSET papers : \A p \in S : \A C \in ClusterSets :
           p = LastOf(rows, S) /\ <<S \ {p}, C>> \in Good =>
             <<S, Join(C, p, Cardinality(S))>> \in Good
  PROVE  <<papers, Clusters(rows, papers)>> \in Good /\ Clusters(rows, papers) \in ClusterSets
<1> DEFINE last(S) == LastOf(rows, S)
           Joins(g) == g = [S \in SUBSET papers |->
                              IF S = {} THEN {}
                              ELSE Join(g[S \ {last(S)}], last(S), Cardinality(S))]
           joined == CHOOSE g : Joins(g)
           wrong == {S \in SUBSET papers :
                       ~(<<S, joined[S]>> \in Good /\ joined[S] \in ClusterSets)}
<1>1. Clusters(rows, papers) = joined[papers]
  BY DEF Clusters
<1>2. ASSUME NEW S \in SUBSET papers, S # {}
      PROVE  /\ last(S) = LastOf(rows, S)
             /\ last(S) \in S /\ last(S) \in Entries /\ Cardinality(S) \in Nat
  <2>1. S \in SUBSET Entries /\ IsFiniteSet(S)
    BY FS_Subset
  <2> QED BY <1>2, <2>1, LastOfPapers, FS_CardinalityType
<1>3. {} \in ClusterSets
  BY FS_EmptySet DEF ClusterSets
<1> HIDE DEF last
<1>4. Joins(joined)
  <2> DEFINE pick == [S \in (SUBSET papers) \ {{}} |-> last(S)]
             step == [w \in (SUBSET papers) \X ClusterSets |->
                        IF w[1] = {} THEN {} ELSE Join(w[2], last(w[1]), Cardinality(w[1]))]
  <2>1. /\ pick \in [(SUBSET papers) \ {{}} -> papers]
        /\ \A S \in (SUBSET papers) \ {{}} : pick[S] \in S
    BY <1>2
  <2>2. step \in [(SUBSET papers) \X ClusterSets -> ClusterSets]
    <3>1. ASSUME NEW S \in SUBSET papers, S # {}, NEW C \in ClusterSets
          PROVE  Join(C, last(S), Cardinality(S)) \in ClusterSets
      <4>1. last(S) \in Entries /\ Cardinality(S) \in Nat
        BY <1>2, <3>1
      <4> QED BY <4>1, JoinKeepsType
    <3> QED BY <1>3, <3>1
  <2>3. PICK g : Computes(g, papers, ClusterSets, {}, pick, step)
    <3>1. IsLoop(papers, ClusterSets, {}, pick, step)
      BY <1>3, <2>1, <2>2 DEF IsLoop
    <3> HIDE DEF pick, step
    <3> QED BY <3>1, LoopHasValues
  <2>4. ASSUME NEW S \in (SUBSET papers) \ {{}}
        PROVE  g[S] = Join(g[S \ {last(S)}], last(S), Cardinality(S))
    <3>1. g[S \ {last(S)}] \in ClusterSets
      BY <2>3 DEF Computes
    <3> QED BY <2>3, <3>1 DEF Computes
  <2>5. Joins(g)
    <3>1. \A S \in SUBSET papers :
            g[S] = IF S = {} THEN {} ELSE Join(g[S \ {last(S)}], last(S), Cardinality(S))
      BY <2>3, <2>4 DEF Computes
    <3> QED BY <2>3, <3>1 DEF Computes
  <2> HIDE DEF Joins
  <2> QED BY <2>5, Zenon DEF joined
<1> HIDE DEF joined
<1>5. wrong = {}
  <2> SUFFICES ASSUME wrong # {} PROVE FALSE
    OBVIOUS
  <2>1. PICK S \in wrong : \A T \in SUBSET S : T # S => T \notin wrong
    <3>1. wrong \in SUBSET (SUBSET papers)
      OBVIOUS
    <3> HIDE DEF wrong
    <3> QED BY <3>1, SmallestPart
  <2>2. S # {}
    BY <1>3, <1>4
  <2>3. /\ last(S) = LastOf(rows, S)
        /\ last(S) \in S /\ last(S) \in Entries /\ Cardinality(S) \in Nat
        /\ S \ {last(S)} \notin wrong
    BY <1>2, <2>1, <2>2
  <2>4. /\ <<S \ {last(S)}, joined[S \ {last(S)}]>> \in Good
        /\ joined[S \ {last(S)}] \in ClusterSets
    BY <2>3
  <2>5. joined[S] = Join(joined[S \ {last(S)}], last(S), Cardinality(S))
    BY <1>4, <2>2
  <2>6. joined[S] \in ClusterSets
    BY <2>3, <2>4, <2>5, JoinKeepsType
  <2> QED BY <2>3, <2>4, <2>5, <2>6
<1> QED BY <1>1, <1>5

\* Deduplication gives finitely many entries, under names of papers that it was given.
LEMMA NamesAreGiven ==
  ASSUME NEW rows \in SUBSET Entries, NEW papers \in SUBSET Entries,
         IsFiniteSet(rows \cup papers)
  PROVE  /\ Deduplicate(rows, papers) \in SUBSET Entries
         /\ IsFiniteSet(Deduplicate(rows, papers))
         /\ \A q \in Deduplicate(rows, papers) : \E p \in rows \cup papers :
              q.identifier = p.identifier
<1> DEFINE all == rows \cup papers
           Good == {w \in (SUBSET all) \X ClusterSets :
                      \A c \in w[2] : \E p \in w[1] : c.paper.identifier = p.identifier}
<1>1. all \in SUBSET Entries /\ IsFiniteSet(all)
  OBVIOUS
<1>2. <<{}, {}>> \in Good
  BY FS_EmptySet DEF ClusterSets
<1>3. ASSUME NEW S \in SUBSET all, NEW p \in S, NEW C \in ClusterSets, <<S \ {p}, C>> \in Good
      PROVE  <<S, Join(C, p, Cardinality(S))>> \in Good
  <2>1. p \in Entries /\ Cardinality(S) \in Nat /\ C \in SUBSET ClusterSet /\ IsFiniteSet(C)
    BY <1>1, FS_Subset, FS_CardinalityType DEF ClusterSets
  <2>2. Join(C, p, Cardinality(S)) \in ClusterSets
    BY <2>1, JoinKeepsType
  <2>3. PICK new : IsNew(new, C, p, Cardinality(S))
    BY <2>1, JoinMakesOne
  <2>4. \A c \in C : \E q \in S : c.paper.identifier = q.identifier
    BY <1>3
  <2>5. \E q \in S : new.paper.identifier = q.identifier
    <3>1. PICK q \in {p} \cup {c.paper : c \in Candidates(C, p)} :
            new.paper.identifier = q.identifier
      BY <2>3 DEF IsNew, StandsFor
    <3>2. CASE q = p
      BY <3>1, <3>2
    <3>3. CASE q # p
      <4>1. PICK c \in Candidates(C, p) : q = c.paper
        BY <3>1, <3>3
      <4>2. c \in C
        BY <4>1, CandidatesFound
      <4> QED BY <2>4, <3>1, <4>1, <4>2
    <3> QED BY <3>2, <3>3
  <2>6. \A c \in Join(C, p, Cardinality(S)) : c \in C \/ c = new
    BY <2>3 DEF IsNew
  <2>7. \A c \in Join(C, p, Cardinality(S)) : \E q \in S : c.paper.identifier = q.identifier
    BY <2>4, <2>5, <2>6
  <2> QED BY <2>2, <2>7
<1>4. <<all, Clusters(rows, all)>> \in Good
  <2> HIDE DEF Good, all
  <2> QED BY <1>1, <1>2, <1>3, LoopKeeps
<1> DEFINE C == Clusters(rows, all)
<1>5. /\ C \in SUBSET ClusterSet /\ IsFiniteSet(C)
      /\ \A c \in C : \E p \in all : c.paper.identifier = p.identifier
  BY <1>4 DEF ClusterSets
<1>6. Deduplicate(rows, papers) = {c.paper : c \in C}
  BY DEF Deduplicate
<1> HIDE DEF C
<1>7. IsFiniteSet({c.paper : c \in C})
  <2> DEFINE paper == [c \in C |-> c.paper]
  <2>1. /\ paper \in [C -> {c.paper : c \in C}]
        /\ \A q \in {c.paper : c \in C} : \E c \in C : paper[c] = q
    OBVIOUS
  <2>2. paper \in Surjection(C, {c.paper : c \in C})
    BY <2>1 DEF Surjection
  <2> QED BY <1>5, <2>2, FS_Surjection
<1>8. \A c \in C : c.paper \in Entries
  BY <1>5 DEF ClusterSet
<1> QED BY <1>5, <1>6, <1>7, <1>8

-----------------------------------------------------------------------------
(***************************************************************************)
(* Papers of one work.  IDs that the sources give together are of one      *)
(* work; a DOI with which they give an arXiv ID is of that arXiv paper.    *)
(***************************************************************************)
GivenWith(doi, p) == p.doi = doi /\ p.arxiv_id # 0

Work(key) ==
  IF key[1] = "doi" /\ \E p \in Listed : GivenWith(key[2], p)
  THEN <<"arxiv", NumberOf((CHOOSE p \in Listed : GivenWith(key[2], p)).arxiv_id)>>
  ELSE key

OneWork(keys) == \A k, l \in keys : Work(k) = Work(l)

LEMMA OneWorkOneNumber ==
  ASSUME NEW keys, OneWork(keys), NEW papers, \A p \in papers : StrongKeys(p) \subseteq keys
  PROVE  OneNumber(papers)
<1> SUFFICES ASSUME NEW p \in papers, NEW q \in papers, p.arxiv_id # 0, q.arxiv_id # 0
             PROVE  NumberOf(p.arxiv_id) = NumberOf(q.arxiv_id)
  BY DEF OneNumber
<1>1. /\ <<"arxiv", NumberOf(p.arxiv_id)>> \in keys
      /\ <<"arxiv", NumberOf(q.arxiv_id)>> \in keys
  BY NumberIsKey
<1>2. \A n : Work(<<"arxiv", n>>) = <<"arxiv", n>>
  BY DEF Work
<1>3. <<"arxiv", NumberOf(p.arxiv_id)>> = <<"arxiv", NumberOf(q.arxiv_id)>>
  BY <1>1, <1>2 DEF OneWork
<1> QED BY <1>3

\* Clusters of single works, of which none was made at the same time as another, and
\* under whose names every arXiv paper is found.
WorksApart(S, C) ==
  /\ \A c \in C : OneWork(c.strong) /\ StrongKeys(c.paper) \subseteq c.strong
  /\ \A c, d \in C : c.since = d.since => c = d
  /\ \A c \in C : c.since <= Cardinality(S)
  /\ \A p \in S : p.source = "arxiv" => \E c \in C : Names(c.paper, p)

\* A paper joins clusters of its own work, or one cluster of its title.
LEMMA FoundAreOneWork ==
  ASSUME NEW C \in ClusterSets, NEW S, WorksApart(S, C),
         NEW p \in Entries, OneWork(StrongKeys(p))
  PROVE  OneWork(StrongKeys(p) \cup UNION {c.strong : c \in Candidates(C, p)})
<1> DEFINE found == Candidates(C, p)
           titled == Last({d \in C : BibliographicKey(p) \in d.bibliographic})
<1>1. ASSUME NEW c \in found
      PROVE  /\ c \in C /\ OneWork(c.strong)
             /\ \/ \E key \in StrongKeys(p) : key \in c.strong
                \/ CanMergeBibliographically(StrongKeys(p), c.strong) /\ c \in titled
  <2>1. /\ c \in C
        /\ \/ \E key \in StrongKeys(p) : key \in c.strong
           \/ CanMergeBibliographically(StrongKeys(p), c.strong) /\ c \in titled
    BY CandidatesFound, ZenonT(40)
  <2>2. OneWork(c.strong)
    BY <2>1 DEF WorksApart
  <2> HIDE DEF titled
  <2> QED BY <2>1, <2>2
<1>2. CASE StrongKeys(p) = {}
  <2>1. ASSUME NEW c \in found, NEW d \in found PROVE c = d
    <3>1. c \in titled /\ d \in titled /\ c \in C /\ d \in C
      BY <1>1, <1>2
    <3>2. c.since <= d.since /\ d.since <= c.since
      BY <3>1 DEF Last
    <3>3. c.since \in Nat /\ d.since \in Nat
      BY <3>1 DEF ClusterSets, ClusterSet
    <3>4. c.since = d.since
      BY <3>2, <3>3
    <3> QED BY <3>1, <3>4 DEF WorksApart
  <2>2. ASSUME NEW k \in UNION {c.strong : c \in found}, NEW l \in UNION {c.strong : c \in found}
        PROVE  Work(k) = Work(l)
    <3>1. PICK c \in found : k \in c.strong
      OBVIOUS
    <3>2. PICK d \in found : l \in d.strong
      OBVIOUS
    <3> HIDE DEF found
    <3> QED BY <1>1, <2>1, <3>1, <3>2 DEF OneWork
  <2> HIDE DEF found
  <2> QED BY <1>2, <2>2 DEF OneWork, found
<1>3. CASE StrongKeys(p) # {}
  <2>1. PICK own \in StrongKeys(p) : TRUE
    BY <1>3
  <2>2. \A k \in StrongKeys(p) : Work(k) = Work(own)
    BY <2>1 DEF OneWork
  <2>3. ASSUME NEW k \in UNION {c.strong : c \in found} PROVE Work(k) = Work(own)
    <3>1. PICK c \in found : k \in c.strong
      OBVIOUS
    <3>2. PICK key \in StrongKeys(p) : key \in c.strong
      BY <1>1, <1>3, <3>1 DEF CanMergeBibliographically
    <3>3. OneWork(c.strong)
      BY <1>1
    <3>4. Work(k) = Work(key) /\ Work(key) = Work(own)
      BY <2>2, <3>1, <3>2, <3>3 DEF OneWork
    <3> QED BY <3>4
  <2> HIDE DEF found
  <2> QED BY <2>2, <2>3 DEF OneWork, found
<1> QED BY <1>2, <1>3

LEMMA JoinKeepsWorksApart ==
  ASSUME NEW S \in SUBSET Entries, IsFiniteSet(S), NEW p \in S, OneWork(StrongKeys(p)),
         NEW C \in ClusterSets, WorksApart(S \ {p}, C)
  PROVE  WorksApart(S, Join(C, p, Cardinality(S)))
<1> DEFINE n == Cardinality(S)
           found == Candidates(C, p)
           parts == {p} \cup {c.paper : c \in found}
           keys == StrongKeys(p) \cup UNION {c.strong : c \in found}
<1>1. /\ p \in Entries /\ n \in Nat /\ C \in SUBSET ClusterSet /\ IsFiniteSet(C)
      /\ Cardinality(S \ {p}) = n - 1
  BY FS_CardinalityType, FS_RemoveElement DEF ClusterSets
<1>2. PICK new : IsNew(new, C, p, n)
  BY <1>1, JoinMakesOne
<1>3. /\ new \in ClusterSet /\ new.since = n /\ new.strong = keys
      /\ found \subseteq C /\ Join(C, p, n) = (C \ found) \cup {new}
      /\ StandsFor(new.paper, parts)
  BY <1>2 DEF IsNew
<1>4. OneWork(keys)
  BY <1>1, FoundAreOneWork
<1>5. \A q \in parts : StrongKeys(q) \subseteq keys
  BY <1>3 DEF WorksApart
<1> HIDE DEF n, found
<1>6. \A q \in parts : q.source = "arxiv" => Names(new.paper, q)
  <2>1. OneNumber(parts)
    <3> HIDE DEF keys, parts
    <3> QED BY <1>4, <1>5, OneWorkOneNumber
  <2> QED BY <1>3, <2>1 DEF StandsFor
<1>7. StrongKeys(new.paper) \subseteq keys
  BY <1>3, <1>5 DEF StandsFor
<1>8. \A c \in Join(C, p, n) : OneWork(c.strong) /\ StrongKeys(c.paper) \subseteq c.strong
  <2> HIDE DEF keys
  <2> QED BY <1>3, <1>4, <1>7 DEF WorksApart
<1>9. \A c \in C : c.since \in Nat /\ c.since < n
  BY <1>1 DEF WorksApart, ClusterSet
<1>10. /\ \A c, d \in Join(C, p, n) : c.since = d.since => c = d
       /\ \A c \in Join(C, p, n) : c.since <= n
  BY <1>1, <1>3, <1>9 DEF WorksApart
<1>11. ASSUME NEW q \in S, q.source = "arxiv"
       PROVE  \E c \in Join(C, p, n) : Names(c.paper, q)
  <2>1. CASE q = p
    BY <1>3, <1>6, <1>11, <2>1
  <2>2. CASE q # p
    <3>1. PICK c \in C : Names(c.paper, q)
      BY <1>11, <2>2 DEF WorksApart
    <3>2. CASE c \in found
      <4>1. Names(new.paper, c.paper)
        BY <1>6, <3>1, <3>2 DEF Names
      <4>2. q \in Entries /\ c.paper \in Entries /\ new.paper \in Entries
        BY <1>1, <1>3 DEF ClusterSet
      <4>3. Names(new.paper, q)
        BY <3>1, <4>1, <4>2, NamesTransitive
      <4> QED BY <1>3, <4>3
    <3>3. CASE c \notin found
      BY <1>3, <3>1, <3>3
    <3> QED BY <3>2, <3>3
  <2> QED BY <2>1, <2>2
<1>12. WorksApart(S, Join(C, p, n))
  BY <1>8, <1>10, <1>11 DEF WorksApart, n
<1> QED BY <1>12 DEF n

\* Every arXiv paper is found under its name, or that of an earlier version.
LEMMA ArxivNamesKept ==
  ASSUME NEW rows \in SUBSET Entries, NEW papers \in SUBSET Entries,
         IsFiniteSet(rows \cup papers),
         \A p \in rows \cup papers : OneWork(StrongKeys(p))
  PROVE  /\ \A q \in Deduplicate(rows, papers) : OneWork(StrongKeys(q))
         /\ \A p \in rows \cup papers : p.source = "arxiv" =>
              \E q \in Deduplicate(rows, papers) : Names(q, p)
<1> DEFINE all == rows \cup papers
           Good == {w \in (SUBSET all) \X ClusterSets : WorksApart(w[1], w[2])}
<1>1. all \in SUBSET Entries /\ IsFiniteSet(all)
  OBVIOUS
<1>2. <<{}, {}>> \in Good
  BY FS_EmptySet DEF ClusterSets, WorksApart
<1>3. ASSUME NEW S \in SUBSET all, NEW p \in S, NEW C \in ClusterSets, <<S \ {p}, C>> \in Good
      PROVE  <<S, Join(C, p, Cardinality(S))>> \in Good
  <2>1. /\ S \in SUBSET Entries /\ IsFiniteSet(S) /\ OneWork(StrongKeys(p))
        /\ p \in Entries /\ Cardinality(S) \in Nat /\ WorksApart(S \ {p}, C)
    BY <1>1, <1>3, FS_Subset, FS_CardinalityType
  <2>2. Join(C, p, Cardinality(S)) \in ClusterSets
    BY <2>1, JoinKeepsType
  <2>3. WorksApart(S, Join(C, p, Cardinality(S)))
    BY <2>1, JoinKeepsWorksApart
  <2> QED BY <2>2, <2>3
<1>4. <<all, Clusters(rows, all)>> \in Good
  <2> HIDE DEF Good, all
  <2> QED BY <1>1, <1>2, <1>3, LoopKeeps
<1>5. WorksApart(all, Clusters(rows, all))
  BY <1>4
<1>6. Deduplicate(rows, papers) = {c.paper : c \in Clusters(rows, all)}
  BY DEF Deduplicate
<1> HIDE DEF all
<1>7. \A q \in Deduplicate(rows, papers) : OneWork(StrongKeys(q))
  BY <1>5, <1>6 DEF WorksApart, OneWork
<1>8. \A p \in all : p.source = "arxiv" => \E q \in Deduplicate(rows, papers) : Names(q, p)
  BY <1>5, <1>6 DEF WorksApart
<1> QED BY <1>7, <1>8 DEF all

-----------------------------------------------------------------------------
(***************************************************************************)
(* What the sources list.                                                  *)
(***************************************************************************)
LEMMA ListedFacts ==
  /\ Listed \in SUBSET Entries /\ IsFiniteSet(Listed)
  /\ \A i \in Items : Len(Listing[i]) \in Nat \ {0} /\ DOMAIN Listing[i] = 1 .. Len(Listing[i])
<1>1. /\ Items = 1 .. Len(Listing) /\ Len(Listing) \in Nat
      /\ \A i \in Items : Listing[i] \in Seq(SourceRecords) \ {<< >>}
  BY ListingAssumption DEF Items
<1>2. \A i \in Items : Len(Listing[i]) \in Nat \ {0} /\ DOMAIN Listing[i] = 1 .. Len(Listing[i])
  BY <1>1
<1>3. ASSUME NEW i \in Items, NEW e \in DOMAIN Listing[i]
      PROVE  Normalize(Listing[i][e]) \in Entries
  <2> DEFINE r == Listing[i][e]
  <2>1. r \in SourceRecords /\ (r.source = "arxiv" => r.arxiv_id # 0)
    BY <1>1, <1>2, ListingAssumption
  <2> HIDE DEF r
  <2>2. /\ r.source \in DOMAIN SourceRank /\ r.source_id \in Nat /\ r.title \in Nat
        /\ r.published \in Nat /\ r.arxiv_id \in Nat /\ r.doi \in Nat
        /\ r.categories \in SUBSET STRING
    BY <2>1 DEF SourceRecords
  <2>3. NameRank[r.source] \in Nat /\ NameRank.arxiv \in Nat /\ NameRank.doi \in Nat
    BY <2>2, Ranks
  <2> DEFINE name == Identifier(r.arxiv_id, r.doi, <<NameRank[r.source], r.source_id>>)
  <2>4. /\ name \in Nat \X Nat
        /\ r.arxiv_id # 0 => name = <<NameRank.arxiv, r.arxiv_id>>
        /\ r.arxiv_id = 0 /\ r.doi # 0 => name = <<NameRank.doi, r.doi>>
    BY <2>2, <2>3 DEF Identifier
  <2> HIDE DEF name
  <2>5. Normalize(r) =
          [identifier |-> name, source |-> r.source, title |-> r.title,
           published |-> r.published, categories |-> r.categories, doi |-> r.doi,
           arxiv_id |-> r.arxiv_id]
    BY DEF Normalize, name
  <2>6. Normalize(r) \in Entries
    BY <2>1, <2>2, <2>4, <2>5 DEF Entries
  <2> QED BY <2>6 DEF r
<1>4. Listed \in SUBSET Entries
  BY <1>3 DEF Listed
<1>5. IsFiniteSet(Listed)
  <2> DEFINE editions(i) == {Normalize(Listing[i][e]) : e \in DOMAIN Listing[i]}
  <2>1. ASSUME NEW i \in Items PROVE IsFiniteSet(editions(i))
    <3>1. IsFiniteSet(DOMAIN Listing[i])
      BY <1>2, FS_Interval
    <3> DEFINE f == [e \in DOMAIN Listing[i] |-> Normalize(Listing[i][e])]
    <3>2. f \in [DOMAIN Listing[i] -> editions(i)]
          /\ \A q \in editions(i) : \E e \in DOMAIN Listing[i] : f[e] = q
      OBVIOUS
    <3>3. f \in Surjection(DOMAIN Listing[i], editions(i))
      BY <3>2 DEF Surjection
    <3> QED BY <3>1, <3>3, FS_Surjection
  <2> DEFINE all == {editions(i) : i \in Items}
             g == [i \in Items |-> editions(i)]
  <2>2. IsFiniteSet(Items)
    <3>1. 1 \in Int /\ Len(Listing) \in Int
      BY <1>1
    <3>2. IsFiniteSet(1 .. Len(Listing))
      BY <3>1, FS_Interval
    <3> QED BY <1>1, <3>2
  <2> HIDE DEF editions
  <2>3. g \in [Items -> all] /\ \A q \in all : \E i \in Items : g[i] = q
    OBVIOUS
  <2>4. g \in Surjection(Items, all)
    BY <2>3 DEF Surjection
  <2>5. IsFiniteSet(all)
    BY <2>2, <2>4, FS_Surjection
  <2>6. \A s \in all : IsFiniteSet(s)
    BY <2>1
  <2>7. IsFiniteSet(UNION all)
    BY <2>5, <2>6, FS_UNION
  <2> QED BY <2>7 DEF Listed, editions
<1> QED BY <1>2, <1>4, <1>5

LEMMA IdentifiersFacts ==
  AllIdentifiers \in SUBSET (Nat \X Nat) /\ IsFiniteSet(AllIdentifiers)
<1>1. AllIdentifiers \in SUBSET (Nat \X Nat)
  BY ListedFacts DEF AllIdentifiers, Entries
<1> DEFINE f == [p \in Listed |-> p.identifier]
<1>2. f \in [Listed -> AllIdentifiers] /\ \A j \in AllIdentifiers : \E p \in Listed : f[p] = j
  BY DEF AllIdentifiers
<1>3. f \in Surjection(Listed, AllIdentifiers)
  BY <1>2 DEF Surjection
<1> QED BY <1>1, <1>3, ListedFacts, FS_Surjection

\* Every identifier has a place of its own, and every place an identifier.
LEMMA Places1to1 ==
  /\ \A j \in AllIdentifiers : Place(j) \in Places
  /\ \A n \in Places : AtPlace(n) \in AllIdentifiers
<1> DEFINE upto(j) == {k \in AllIdentifiers : k = j \/ Before(k, j)}
           place == [j \in AllIdentifiers |-> Place(j)]
           N == Cardinality(AllIdentifiers)
<1>1. /\ N \in Nat /\ IsFiniteSet(Places) /\ Cardinality(Places) = N
      /\ IsFiniteSet(AllIdentifiers)
  <2>1. N \in Nat /\ IsFiniteSet(AllIdentifiers)
    BY IdentifiersFacts, FS_CardinalityType
  <2>2. IsFiniteSet(1 .. N) /\ Cardinality(1 .. N) = N
    BY <2>1, FS_Interval
  <2> QED BY <2>1, <2>2 DEF Places
<1>2. ASSUME NEW j \in AllIdentifiers
      PROVE  /\ IsFiniteSet(upto(j)) /\ Place(j) = Cardinality(upto(j))
             /\ Place(j) \in Places
  <2>1. IsFiniteSet(upto(j)) /\ Cardinality(upto(j)) \in Nat /\ Cardinality(upto(j)) <= N
    <3>1. upto(j) \in SUBSET AllIdentifiers
      OBVIOUS
    <3> HIDE DEF upto
    <3> QED BY <1>1, <3>1, FS_Subset, FS_CardinalityType
  <2>2. Cardinality(upto(j)) # 0
    <3>1. upto(j) # {}
      OBVIOUS
    <3> HIDE DEF upto
    <3> QED BY <2>1, <3>1, FS_EmptySet
  <2>3. Place(j) = Cardinality(upto(j))
    BY DEF Place
  <2> HIDE DEF upto
  <2> QED BY <1>1, <2>1, <2>2, <2>3 DEF Places
<1>3. ASSUME NEW j \in AllIdentifiers, NEW k \in AllIdentifiers, Before(j, k)
      PROVE  Place(j) < Place(k)
  <2>1. upto(j) \in SUBSET upto(k) /\ k \notin upto(j) /\ k \in upto(k)
    BY <1>3, IdentifiersFacts, BeforePair
  <2>2. upto(j) # upto(k)
    BY <2>1
  <2> HIDE DEF upto
  <2>3. /\ Cardinality(upto(j)) <= Cardinality(upto(k))
        /\ Cardinality(upto(j)) # Cardinality(upto(k))
    BY <1>2, <2>1, <2>2, FS_Subset
  <2>4. Place(j) \in Places /\ Place(k) \in Places
    BY <1>2
  <2> QED BY <1>2, <2>3, <2>4 DEF Places
<1>4. ASSUME NEW j \in AllIdentifiers, NEW k \in AllIdentifiers, Place(j) = Place(k)
      PROVE  j = k
  <2>1. Place(j) \in Nat
    <3>1. Places \subseteq Nat
      BY <1>1 DEF Places
    <3> HIDE DEF upto
    <3> QED BY <1>2, <3>1
  <2>2. ~Before(j, k) /\ ~Before(k, j)
    BY <1>3, <1>4, <2>1
  <2> QED BY <2>2, IdentifiersFacts, BeforePair
<1>5. place \in Injection(AllIdentifiers, Places)
  BY <1>2, <1>4 DEF Injection, IsInjective
<1>6. place \in Surjection(AllIdentifiers, Places)
  <2> HIDE DEF place
  <2> QED BY <1>1, <1>5, FS_Injection
<1>7. ASSUME NEW n \in Places PROVE AtPlace(n) \in AllIdentifiers
  <2>1. \E j \in AllIdentifiers : Place(j) = n
    BY <1>6 DEF Surjection
  <2> QED BY <2>1 DEF AtPlace
<1> QED BY <1>2, <1>7

-----------------------------------------------------------------------------
(***************************************************************************)
(* The loop of select_batch, over the places of the identifiers.           *)
(***************************************************************************)
Loop == INSTANCE BatchSelectionProofs WITH
  Papers <- Places,
  Cost   <- [n \in Places |-> Expense[AtPlace(n)]]

LEMMA LoopCardinality ==
  ASSUME NEW S
  PROVE  /\ Loop!Cardinality(S) = Cardinality(S)
         /\ Selection!Cardinality(S) = Cardinality(S)
         /\ Loop!IsFiniteSet(S) <=> IsFiniteSet(S)
<1>1. Loop!Cardinality(S) = Cardinality(S)
  BY Zenon DEF Loop!Cardinality, Cardinality
<1>2. Selection!Cardinality(S) = Cardinality(S)
  BY Zenon DEF Selection!Cardinality, Cardinality
<1>3. Loop!IsFiniteSet(S) <=> IsFiniteSet(S)
  BY Zenon DEF Loop!IsFiniteSet, IsFiniteSet
<1> QED BY <1>1, <1>2, <1>3

LEMMA LoopAssumption == Loop!BatchingAssumption
<1>1. Loop!IsFiniteSet(Places)
  <2>1. Cardinality(AllIdentifiers) \in Int /\ 1 \in Int
    BY IdentifiersFacts, FS_CardinalityType
  <2>2. IsFiniteSet(1 .. Cardinality(AllIdentifiers))
    BY <2>1, FS_Interval
  <2> QED BY <2>2, LoopCardinality DEF Places
<1>2. Places \subseteq Nat
  BY IdentifiersFacts, FS_CardinalityType DEF Places
<1>3. \A n \in Places : Expense[AtPlace(n)] \in 1 .. MaxCost
  BY Places1to1, ExpenseAssumption
<1> QED BY <1>1, <1>2, <1>3, ExpenseAssumption DEF Loop!BatchingAssumption

LEMMA LoopNext == Selection!Next => Loop!Next
<1>1. Selection!Full <=> Loop!Full
  BY LoopCardinality DEF Selection!Full, Loop!Full
<1> QED BY <1>1, Zenon DEF Selection!Next, Loop!Next, Selection!Take, Loop!Take, Selection!Stop,
      Loop!Stop, Selection!HasRoom, Loop!HasRoom, Selection!First, Loop!First,
      Selection!TooCostly, Loop!TooCostly

LEMMA LoopSelects == ASSUME NEW S PROVE Selection!SelectBatch(S) = Loop!SelectBatch(S)
<1>1. \A T : Selection!TotalCost(T) = Loop!TotalCost(T)
  BY Zenon DEF Selection!TotalCost, Loop!TotalCost, Selection!MapThenSumSet, Loop!MapThenSumSet,
     Selection!MapThenFoldSet, Loop!MapThenFoldSet
<1>2. \A T : Selection!Fits(T) <=> Loop!Fits(T)
  BY <1>1, LoopCardinality DEF Selection!Fits, Loop!Fits
<1> QED BY <1>2 DEF Selection!SelectBatch, Loop!SelectBatch, Selection!IsPrefix, Loop!IsPrefix

-----------------------------------------------------------------------------
(***************************************************************************)
(* The inductive invariant: entries under names that the sources list, and *)
(* a batch as far as its loop has come.                                    *)
(***************************************************************************)
InventoryInv ==
  /\ edition \in [Items -> Nat \ {0}]
  /\ \A i \in Items : edition[i] <= Len(Listing[i])
  /\ inventory \in SUBSET Entries /\ IsFiniteSet(inventory)
  /\ Identifiers \subseteq AllIdentifiers

BatchInv == Loop!SelectionInv

\* The papers that a run takes from what the sources deliver.
Taken(items) == {Normalize(r) : r \in {s \in {Record(i) : i \in items} : Accepts(s)}}

LEMMA TakenAreListed ==
  ASSUME InventoryInv, NEW items \in SUBSET Items
  PROVE  /\ Taken(items) \in SUBSET Listed
         /\ inventory \in SUBSET Entries /\ Taken(items) \in SUBSET Entries
         /\ IsFiniteSet(inventory \cup Taken(items))
<1>1. \A i \in Items : edition[i] \in DOMAIN Listing[i]
  BY ListedFacts DEF InventoryInv
<1>2. \A i \in Items : Normalize(Record(i)) \in Listed
  BY <1>1 DEF Record, Listed
<1>3. Taken(items) \in SUBSET Listed
  BY <1>2 DEF Taken
<1>4. IsFiniteSet(Taken(items))
  BY <1>3, ListedFacts, FS_Subset
<1>5. IsFiniteSet(inventory)
  BY DEF InventoryInv
<1>6. IsFiniteSet(inventory \cup Taken(items))
  BY <1>4, <1>5, FS_Union
<1> QED BY <1>3, <1>6, ListedFacts DEF InventoryInv

LEMMA NothingSelected ==
  ASSUME NEW papers \in SUBSET Places, pending' = papers, rest' = papers,
         selected' = {}, estimated' = 0, done' => papers = {}
  PROVE  BatchInv'
<1>1. Loop!TotalCost({}) = 0 /\ Loop!Fits({})
  BY LoopAssumption, Loop!NothingFits
<1> QED BY <1>1 DEF BatchInv, Loop!SelectionInv, Loop!HasRoom

LEMMA IngestInit == Init => InventoryInv /\ BatchInv
<1> SUFFICES ASSUME Init PROVE InventoryInv /\ BatchInv
  OBVIOUS
<1>1. InventoryInv
  BY ListedFacts, FS_EmptySet DEF Init, InventoryInv, Identifiers
<1>2. Loop!TotalCost({}) = 0 /\ Loop!Fits({})
  BY LoopAssumption, Loop!NothingFits
<1>3. BatchInv
  BY <1>2 DEF Init, BatchInv, Loop!SelectionInv, Loop!HasRoom
<1> QED BY <1>1, <1>3

LEMMA BatchUnchanged == ASSUME BatchInv, UNCHANGED batch PROVE BatchInv'
<1>1. UNCHANGED Loop!vars
  BY DEF batch, Loop!vars
<1> QED BY <1>1, LoopAssumption, Loop!SelectionStep DEF BatchInv

LEMMA ReviseKeeps ==
  ASSUME InventoryInv, BatchInv, NEW i \in Items, Revise(i)
  PROVE  InventoryInv' /\ BatchInv'
<1>1. BatchInv'
  BY BatchUnchanged DEF Revise
<1>2. InventoryInv'
  BY ListedFacts DEF Revise, InventoryInv, Identifiers
<1> QED BY <1>1, <1>2

LEMMA DeliverKeeps ==
  ASSUME InventoryInv, BatchInv, NEW items \in SUBSET Items, Deliver(items)
  PROVE  InventoryInv' /\ BatchInv'
<1>1. BatchInv'
  BY BatchUnchanged DEF Deliver
<1>2. inventory' = Deduplicate(inventory, Taken(items)) /\ UNCHANGED edition
  BY DEF Deliver, Taken, sources
<1>3. /\ inventory' \in SUBSET Entries /\ IsFiniteSet(inventory')
      /\ \A q \in inventory' : \E p \in inventory \cup Taken(items) :
           q.identifier = p.identifier
  BY <1>2, TakenAreListed, NamesAreGiven
<1>4. \A p \in inventory \cup Taken(items) : p.identifier \in AllIdentifiers
  BY TakenAreListed DEF InventoryInv, Identifiers, AllIdentifiers
<1>5. Identifiers' \subseteq AllIdentifiers
  BY <1>3, <1>4 DEF Identifiers
<1>6. InventoryInv'
  BY <1>2, <1>3, <1>5 DEF InventoryInv
<1> QED BY <1>1, <1>6

LEMMA IngestStep == InventoryInv /\ BatchInv /\ [Next]_vars => InventoryInv' /\ BatchInv'
<1> SUFFICES ASSUME InventoryInv, BatchInv, [Next]_vars PROVE InventoryInv' /\ BatchInv'
  OBVIOUS
<1>1. ASSUME UNCHANGED <<edition, inventory>> PROVE InventoryInv'
  BY <1>1 DEF InventoryInv, Identifiers
<1>2. CASE UNCHANGED vars
  BY <1>1, <1>2, BatchUnchanged DEF vars, sources
<1>3. CASE InferBacklog
  <2>1. Backlog \in SUBSET Places
    BY Places1to1 DEF Backlog, InventoryInv
  <2>2. BatchInv'
    BY <1>3, <2>1, NothingSelected DEF InferBacklog
  <2> QED BY <1>1, <1>3, <2>2 DEF InferBacklog, sources
<1>4. CASE SelectNext
  <2>1. BatchInv'
    BY <1>4, LoopNext, LoopAssumption, Loop!SelectionStep DEF SelectNext, BatchInv
  <2> QED BY <1>1, <1>4, <2>1 DEF SelectNext, sources
<1>5. ASSUME NEW converted, Convert(converted) PROVE InventoryInv' /\ BatchInv'
  <2>1. BatchInv'
    BY <1>5, NothingSelected DEF Convert
  <2> QED BY <1>1, <1>5, <2>1 DEF Convert, sources
<1> QED BY <1>2, <1>3, <1>4, <1>5, ReviseKeeps, DeliverKeeps DEF Next

\* Every entry of the inventory has a name that a source lists, however it was merged, so
\* the file names of the papers are stable names.
NamesListed == Identifiers \subseteq AllIdentifiers

THEOREM NamesAreListed == Spec => []NamesListed
<1>1. InventoryInv => NamesListed
  BY DEF InventoryInv, NamesListed
<1> QED BY <1>1, IngestInit, IngestStep, PTL DEF Spec

\* Every batch of a run is the longest run of its backlog, in the order of the names,
\* that both limits allow, whatever the sources delivered before.
THEOREM BatchesAreLongest == Spec => []LongestPrefix
<1>1. BatchInv => LongestPrefix
  BY LoopAssumption, Loop!SelectionIsLongest, LoopSelects
     DEF BatchInv, LongestPrefix, Selection!LongestPrefix, Loop!LongestPrefix
<1> QED BY <1>1, IngestInit, IngestStep, PTL DEF Spec

\* While a run has a backlog its batch takes something.
THEOREM BatchesTakeSomething == Spec => []NeverEmpty
<1>1. BatchInv => NeverEmpty
  BY LoopAssumption, Loop!SelectionIsNeverEmpty
     DEF BatchInv, NeverEmpty, Selection!NeverEmpty, Loop!NeverEmpty
<1> QED BY <1>1, IngestInit, IngestStep, PTL DEF Spec

-----------------------------------------------------------------------------
(***************************************************************************)
(* The names of arXiv papers settle, where no DOI is listed with two arXiv *)
(* numbers: with one, two arXiv papers would be merged under one name.     *)
(***************************************************************************)
OneNumberPerDoi ==
  \A p, q \in Listed : p.doi # 0 /\ p.doi = q.doi => OneNumber({p, q})

WorksInv == \A p \in inventory : OneWork(StrongKeys(p))

LEMMA ListedAreOneWork ==
  ASSUME OneNumberPerDoi, NEW p \in Listed
  PROVE  OneWork(StrongKeys(p))
<1>1. \A key \in StrongKeys(p) :
        \/ p.arxiv_id # 0 /\ key = <<"arxiv", NumberOf(p.arxiv_id)>>
        \/ p.doi # 0 /\ key = <<"doi", p.doi>>
  BY DEF StrongKeys
<1>2. Work(<<"arxiv", NumberOf(p.arxiv_id)>>) = <<"arxiv", NumberOf(p.arxiv_id)>>
  BY DEF Work
<1>3. ASSUME p.arxiv_id # 0, p.doi # 0
      PROVE  Work(<<"doi", p.doi>>) = <<"arxiv", NumberOf(p.arxiv_id)>>
  <2> DEFINE q == CHOOSE r \in Listed : GivenWith(p.doi, r)
  <2>1. GivenWith(p.doi, p)
    BY <1>3 DEF GivenWith
  <2>2. q \in Listed /\ GivenWith(p.doi, q)
    BY <2>1
  <2>3. Work(<<"doi", p.doi>>) = <<"arxiv", NumberOf(q.arxiv_id)>>
    BY <2>1 DEF Work
  <2> HIDE DEF q
  <2>4. NumberOf(q.arxiv_id) = NumberOf(p.arxiv_id)
    BY <1>3, <2>2 DEF GivenWith, OneNumberPerDoi, OneNumber
  <2> QED BY <2>3, <2>4
<1> QED BY <1>1, <1>2, <1>3 DEF OneWork

LEMMA DeliverKeepsNames ==
  ASSUME OneNumberPerDoi, InventoryInv, WorksInv, NEW items \in SUBSET Items, Deliver(items)
  PROVE  /\ WorksInv'
         /\ \A p \in inventory : p.source = "arxiv" => \E q \in inventory' : Names(q, p)
<1>1. inventory' = Deduplicate(inventory, Taken(items))
  BY DEF Deliver, Taken
<1>2. \A p \in inventory \cup Taken(items) : OneWork(StrongKeys(p))
  BY TakenAreListed, ListedAreOneWork DEF WorksInv
<1>3. /\ \A q \in inventory' : OneWork(StrongKeys(q))
      /\ \A p \in inventory \cup Taken(items) : p.source = "arxiv" =>
           \E q \in inventory' : Names(q, p)
  BY <1>1, <1>2, TakenAreListed, ArxivNamesKept
<1> QED BY <1>3 DEF WorksInv

LEMMA OthersKeepInventory ==
  ASSUME [Next]_vars, ~\E items \in SUBSET Items : Deliver(items)
  PROVE  UNCHANGED inventory
BY DEF Next, Revise, InferBacklog, SelectNext, Convert, vars

\* A paper that arXiv lists is found under its number ever after, under the same name or
\* that of an earlier version: no other listing takes its name away.
THEOREM ArxivNamesAreKept == ASSUME OneNumberPerDoi PROVE Spec => ArxivNamesSettle
<1>1. Init => WorksInv
  BY DEF Init, WorksInv
<1>2. InventoryInv /\ WorksInv /\ [Next]_vars => WorksInv'
  BY DeliverKeepsNames, OthersKeepInventory DEF WorksInv
<1> DEFINE Kept == \A p \in inventory : p.source = "arxiv" =>
                     \E q \in inventory' :
                       /\ NumberOf(q.arxiv_id) = NumberOf(p.arxiv_id)
                       /\ q.arxiv_id <= p.arxiv_id
                       /\ q.source = "arxiv"
<1>3. InventoryInv /\ WorksInv /\ [Next]_vars => [Kept]_vars
  <2> SUFFICES ASSUME InventoryInv, WorksInv, [Next]_vars PROVE Kept
    OBVIOUS
  <2>1. CASE \E items \in SUBSET Items : Deliver(items)
    BY <2>1, DeliverKeepsNames DEF Names
  <2>2. CASE UNCHANGED inventory
    <3>1. \A p \in inventory : p.arxiv_id <= p.arxiv_id
      BY DEF InventoryInv, Entries
    <3> QED BY <2>2, <3>1
  <2> QED BY <2>1, <2>2, OthersKeepInventory
<1> QED BY <1>1, <1>2, <1>3, IngestInit, IngestStep, PTL DEF Spec, ArxivNamesSettle

-----------------------------------------------------------------------------
(***************************************************************************)
(* One entry per paper.  Every entry represents a group of the records     *)
(* accepted so far: those that a chain of shared IDs links, or those of    *)
(* one title that have no ID.  First the order of preference is total, so  *)
(* that a group has one best name.                                         *)
(***************************************************************************)
LEMMA OrderTotal ==
  ASSUME NEW a \in [1 .. 4 -> Nat], NEW b \in [1 .. 4 -> Nat], ~Before(a, b), ~Before(b, a)
  PROVE  a = b
<1>1. DOMAIN a = 1 .. 4 /\ DOMAIN b = 1 .. 4 /\ \A i \in 1 .. 4 : a[i] \in Nat /\ b[i] \in Nat
  OBVIOUS
<1>2. ASSUME NEW i \in 1 .. 4, \A j \in 1 .. i - 1 : a[j] = b[j]
      PROVE  a[i] = b[i]
  <2>1. ~(a[i] < b[i]) /\ ~(b[i] < a[i])
    BY <1>1, <1>2 DEF Before
  <2> QED BY <1>1, <2>1
<1>3. a[1] = b[1]
  <2>1. 1 \in 1 .. 4 /\ \A j \in 1 .. 1 - 1 : a[j] = b[j]
    OBVIOUS
  <2> QED BY <1>2, <2>1
<1>4. a[2] = b[2]
  <2>1. 2 \in 1 .. 4 /\ \A j \in 1 .. 2 - 1 : a[j] = b[j]
    BY <1>3
  <2> QED BY <1>2, <2>1
<1>5. a[3] = b[3]
  <2>1. 3 \in 1 .. 4 /\ \A j \in 1 .. 3 - 1 : a[j] = b[j]
    BY <1>3, <1>4
  <2> QED BY <1>2, <2>1
<1>6. a[4] = b[4]
  <2>1. 4 \in 1 .. 4 /\ \A j \in 1 .. 4 - 1 : a[j] = b[j]
    BY <1>3, <1>4, <1>5
  <2> QED BY <1>2, <2>1
<1>7. \A i \in 1 .. 4 : a[i] = b[i]
  BY <1>3, <1>4, <1>5, <1>6
<1> QED BY <1>1, <1>7

\* What is not before something is not before what comes first of all.
LEMMA NotBefore ==
  ASSUME NEW p \in Entries, NEW q \in Entries, NEW r \in Entries,
         ~Before(PreferenceKey(r), PreferenceKey(q)), ~Before(PreferenceKey(q), PreferenceKey(p))
  PROVE  ~Before(PreferenceKey(r), PreferenceKey(p))
<1> DEFINE a == PreferenceKey(p)
           b == PreferenceKey(q)
           c == PreferenceKey(r)
<1>1. a \in [1 .. 4 -> Nat] /\ b \in [1 .. 4 -> Nat] /\ c \in [1 .. 4 -> Nat]
  BY EntryFacts
<1>2. ~Before(c, b) /\ ~Before(b, a)
  OBVIOUS
<1> HIDE DEF a, b, c
<1>3. ASSUME Before(c, a) PROVE FALSE
  <2>1. Before(b, c) \/ b = c
    BY <1>1, <1>2, OrderTotal
  <2>2. Before(b, c) => Before(b, a)
    BY <1>1, <1>3, BeforeTransitive
  <2> QED BY <1>2, <1>3, <2>1, <2>2
<1> QED BY <1>3 DEF a, c

LEMMA NotBoth ==
  ASSUME NEW p \in Entries, NEW q \in Entries, Before(PreferenceKey(p), PreferenceKey(q))
  PROVE  ~Before(PreferenceKey(q), PreferenceKey(p))
<1>1. PreferenceKey(p) \in [1 .. 4 -> Nat] /\ PreferenceKey(q) \in [1 .. 4 -> Nat]
  BY EntryFacts
<1> QED BY <1>1, BeforeTransitive, BeforeIrreflexive

\* Papers of the same preference have the same name, and are of the same source.
LEMMA SamePreference ==
  ASSUME NEW p \in Entries, NEW q \in Entries,
         ~Before(PreferenceKey(p), PreferenceKey(q)), ~Before(PreferenceKey(q), PreferenceKey(p))
  PROVE  p.identifier = q.identifier /\ p.source = q.source
<1>1. PreferenceKey(p) = PreferenceKey(q)
  BY EntryFacts, OrderTotal
<1>2. /\ PreferenceKey(p)[2] = SourceRank[p.source] /\ PreferenceKey(q)[2] = SourceRank[q.source]
      /\ PreferenceKey(p)[3] = p.identifier[1] /\ PreferenceKey(q)[3] = q.identifier[1]
      /\ PreferenceKey(p)[4] = p.identifier[2] /\ PreferenceKey(q)[4] = q.identifier[2]
  BY DEF PreferenceKey
<1>3. p.identifier = q.identifier
  BY <1>1, <1>2, EntryFacts
<1>4. p.source \in DOMAIN SourceRank /\ q.source \in DOMAIN SourceRank
  BY DEF Entries
<1>5. \A s, t \in DOMAIN SourceRank : SourceRank[s] = SourceRank[t] => s = t
  BY DEF SourceRank
<1> QED BY <1>1, <1>2, <1>3, <1>4, <1>5

\* The preferred paper gets the DOI that it lacks, and keeps everything else.
LEMMA MergedKeepsAll ==
  ASSUME NEW p \in Entries, NEW q \in Entries, StrongPriority(p) <= StrongPriority(q),
         OneOfEach(StrongKeys(p) \cup StrongKeys(q))
  PROVE  /\ BibliographicKey(Merged(p, q)) = BibliographicKey(p)
         /\ StrongPriority(Merged(p, q)) = StrongPriority(p)
         /\ StrongKeys(Merged(p, q)) = StrongKeys(p) \cup StrongKeys(q)
<1>1. /\ p.arxiv_id = 0 => q.arxiv_id = 0
      /\ p.arxiv_id = 0 /\ p.doi = 0 => q.doi = 0
  BY DEF StrongPriority
<1> DEFINE doi == IF p.doi # 0 THEN p.doi ELSE q.doi
<1>2. /\ Merged(p, q).title = p.title /\ Merged(p, q).published = p.published
      /\ Merged(p, q).arxiv_id = p.arxiv_id /\ Merged(p, q).doi = doi
  <2>1. p \in [identifier : Nat \X Nat, source : DOMAIN SourceRank, title : Nat,
               published : Nat, categories : SUBSET STRING, doi : Nat, arxiv_id : Nat]
    BY DEF Entries
  <2>2. /\ Merged(p, q).title = p.title /\ Merged(p, q).published = p.published
        /\ Merged(p, q).doi = doi
    BY <2>1 DEF Merged
  <2> QED BY <2>2, MergedKeepsName
<1>3. StrongPriority(Merged(p, q)) = StrongPriority(p)
  BY <1>1, <1>2 DEF StrongPriority
<1>4. q.arxiv_id # 0 => p.arxiv_id # 0 /\ NumberOf(p.arxiv_id) = NumberOf(q.arxiv_id)
  <2> SUFFICES ASSUME q.arxiv_id # 0 PROVE NumberOf(p.arxiv_id) = NumberOf(q.arxiv_id)
    BY <1>1
  <2>1. /\ <<"arxiv", NumberOf(p.arxiv_id)>> \in StrongKeys(p)
        /\ <<"arxiv", NumberOf(q.arxiv_id)>> \in StrongKeys(q)
    BY <1>1 DEF StrongKeys
  <2>2. <<"arxiv", NumberOf(p.arxiv_id)>> = <<"arxiv", NumberOf(q.arxiv_id)>>
    BY <2>1 DEF OneOfEach
  <2> QED BY <2>2
<1>5. p.doi # 0 /\ q.doi # 0 => p.doi = q.doi
  <2> SUFFICES ASSUME p.doi # 0, q.doi # 0 PROVE p.doi = q.doi
    OBVIOUS
  <2>1. <<"doi", p.doi>> \in StrongKeys(p) /\ <<"doi", q.doi>> \in StrongKeys(q)
    BY DEF StrongKeys
  <2>2. <<"doi", p.doi>> = <<"doi", q.doi>>
    BY <2>1 DEF OneOfEach
  <2> QED BY <2>2
<1>6. StrongKeys(Merged(p, q)) = StrongKeys(p) \cup StrongKeys(q)
  BY <1>1, <1>2, <1>4, <1>5 DEF StrongKeys
<1> QED BY <1>2, <1>3, <1>6 DEF BibliographicKey

-----------------------------------------------------------------------------
(***************************************************************************)
(* An entry that represents papers has all their IDs, and the name and the *)
(* title of the best of them.                                              *)
(***************************************************************************)
IsBest(best, papers) ==
  best \in papers /\ \A p \in papers : ~Before(PreferenceKey(p), PreferenceKey(best))

Likens(q, best) ==
  /\ q.identifier = best.identifier /\ q.source = best.source
  /\ BibliographicKey(q) = BibliographicKey(best) /\ StrongPriority(q) = StrongPriority(best)

Represents(q, papers) ==
  /\ StrongKeys(q) = UNION {StrongKeys(p) : p \in papers}
  /\ \E best \in papers : IsBest(best, papers) /\ Likens(q, best)

LEMMA LikePreference ==
  ASSUME NEW q, NEW best, Likens(q, best)
  PROVE  PreferenceKey(q) = PreferenceKey(best)
BY DEF Likens, PreferenceKey

LEMMA RepresentsItself ==
  ASSUME NEW p \in Entries
  PROVE  Represents(p, {p})
<1>1. PreferenceKey(p) \in [1 .. 4 -> Nat]
  BY EntryFacts
<1>2. IsBest(p, {p})
  BY <1>1, BeforeIrreflexive DEF IsBest
<1> QED BY <1>2 DEF Represents, Likens

LEMMA PreferredRepresents ==
  ASSUME NEW p \in Entries, NEW q \in Entries, NEW P \in SUBSET Entries, NEW Q \in SUBSET Entries,
         ~Before(PreferenceKey(q), PreferenceKey(p)),
         Represents(p, P), Represents(q, Q), OneOfEach(StrongKeys(p) \cup StrongKeys(q))
  PROVE  /\ Represents(Merged(p, q), P \cup Q)
         /\ BibliographicKey(Merged(p, q)) = BibliographicKey(p)
<1>1. /\ Merged(p, q).identifier = p.identifier /\ Merged(p, q).source = p.source
      /\ BibliographicKey(Merged(p, q)) = BibliographicKey(p)
      /\ StrongPriority(Merged(p, q)) = StrongPriority(p)
      /\ StrongKeys(Merged(p, q)) = StrongKeys(p) \cup StrongKeys(q)
  BY PreferredIsStrong, MergedKeepsName, MergedKeepsAll
<1>2. PICK best \in P : IsBest(best, P) /\ Likens(p, best)
  BY DEF Represents
<1>3. PICK second \in Q : IsBest(second, Q) /\ Likens(q, second)
  BY DEF Represents
<1>4. IsBest(best, P \cup Q)
  <2>1. PreferenceKey(p) = PreferenceKey(best) /\ PreferenceKey(q) = PreferenceKey(second)
    BY <1>2, <1>3, LikePreference
  <2>2. ASSUME NEW r \in Q PROVE ~Before(PreferenceKey(r), PreferenceKey(best))
    <3>1. ~Before(PreferenceKey(r), PreferenceKey(q))
      BY <1>3, <2>1 DEF IsBest
    <3>2. ~Before(PreferenceKey(r), PreferenceKey(p))
      BY <3>1, NotBefore
    <3> QED BY <2>1, <3>2
  <2> QED BY <1>2, <2>2 DEF IsBest
<1>5. Likens(Merged(p, q), best)
  BY <1>1, <1>2 DEF Likens
<1>6. StrongKeys(Merged(p, q)) = UNION {StrongKeys(r) : r \in P \cup Q}
  BY <1>1 DEF Represents
<1> QED BY <1>1, <1>4, <1>5, <1>6 DEF Represents

LEMMA MergedRepresents ==
  ASSUME NEW left \in ClusterSet, NEW right \in ClusterSet,
         NEW P \in SUBSET Entries, NEW Q \in SUBSET Entries,
         Represents(left.paper, P), Represents(right.paper, Q),
         OneOfEach(StrongKeys(left.paper) \cup StrongKeys(right.paper))
  PROVE  LET c == MergeClusters(left, right) IN
         /\ Represents(c.paper, P \cup Q)
         /\ c.bibliographic = left.bibliographic \cup right.bibliographic
         /\ BibliographicKey(c.paper) \in
              {BibliographicKey(left.paper), BibliographicKey(right.paper)}
<1> DEFINE l == left.paper
           r == right.paper
           paper == IF Before(PreferenceKey(r), PreferenceKey(l)) THEN Merged(r, l)
                    ELSE Merged(l, r)
<1>1. l \in Entries /\ r \in Entries
  BY DEF ClusterSet
<1>2. /\ MergeClusters(left, right).paper = paper
      /\ MergeClusters(left, right).bibliographic = left.bibliographic \cup right.bibliographic
  BY DEF MergeClusters, Cluster
<1>3. /\ Represents(paper, P \cup Q)
      /\ BibliographicKey(paper) \in {BibliographicKey(l), BibliographicKey(r)}
  <2>1. CASE Before(PreferenceKey(r), PreferenceKey(l))
    <3>1. ~Before(PreferenceKey(l), PreferenceKey(r))
      BY <1>1, <2>1, NotBoth
    <3>2. OneOfEach(StrongKeys(r) \cup StrongKeys(l))
      BY DEF OneOfEach
    <3>3. Represents(Merged(r, l), Q \cup P) /\ BibliographicKey(Merged(r, l)) = BibliographicKey(r)
      BY <1>1, <3>1, <3>2, PreferredRepresents
    <3>4. Q \cup P = P \cup Q
      OBVIOUS
    <3>5. Represents(Merged(r, l), P \cup Q)
      BY <3>3, <3>4
    <3> QED BY <2>1, <3>3, <3>5
  <2>2. CASE ~Before(PreferenceKey(r), PreferenceKey(l))
    <3>1. Represents(Merged(l, r), P \cup Q) /\ BibliographicKey(Merged(l, r)) = BibliographicKey(l)
      BY <1>1, <2>2, PreferredRepresents
    <3> QED BY <2>2, <3>1
  <2> QED BY <2>1, <2>2
<1> HIDE DEF paper
<1> QED BY <1>2, <1>3

\* An entry with IDs represents the papers with IDs alone.
LEMMA StrongPartRepresented ==
  ASSUME NEW q, NEW papers, Represents(q, papers), StrongKeys(q) # {}
  PROVE  Represents(q, Strong(papers))
<1>1. PICK best \in papers : IsBest(best, papers) /\ Likens(q, best)
  BY DEF Represents
<1>2. \A p : StrongKeys(p) = {} <=> StrongPriority(p) = 2
  <2> TAKE p
  <2>1. p.arxiv_id # 0 => <<"arxiv", NumberOf(p.arxiv_id)>> \in StrongKeys(p)
    BY DEF StrongKeys
  <2>2. p.doi # 0 => <<"doi", p.doi>> \in StrongKeys(p)
    BY DEF StrongKeys
  <2>3. p.arxiv_id = 0 /\ p.doi = 0 => StrongKeys(p) = {}
    BY DEF StrongKeys
  <2> QED BY <2>1, <2>2, <2>3 DEF StrongPriority
<1>3. best \in Strong(papers)
  BY <1>1, <1>2 DEF Likens, Strong
<1>4. IsBest(best, Strong(papers))
  BY <1>1, <1>3 DEF IsBest, Strong
<1>5. StrongKeys(q) = UNION {StrongKeys(p) : p \in Strong(papers)}
  BY DEF Represents, Strong
<1> QED BY <1>1, <1>3, <1>4, <1>5 DEF Represents

-----------------------------------------------------------------------------
(***************************************************************************)
(* Papers that are connected by the IDs that they share.                   *)
(***************************************************************************)
Linked(papers) == \A group \in SUBSET papers : Closed(group, papers) => group = papers

LEMMA LinkedAlone ==
  ASSUME NEW p
  PROVE  Linked({p})
BY DEF Linked, Closed

\* Connected sets that share IDs with a connected set are connected with it.
LEMMA LinkedTogether ==
  ASSUME NEW papers, Linked(papers), papers # {}, NEW others,
         \A other \in others :
           /\ Linked(other)
           /\ \E p \in papers : \E q \in other : SharesIDs(p, q)
  PROVE  Linked(papers \cup UNION others)
<1> DEFINE all == papers \cup UNION others
<1> SUFFICES ASSUME NEW group \in SUBSET all, Closed(group, all) PROVE group = all
  BY DEF Linked
<1>1. ASSUME NEW part \in SUBSET all, Linked(part), group \cap part # {}
      PROVE  part \subseteq group
  <2>1. Closed(group \cap part, part)
    BY <1>1 DEF Closed
  <2> HIDE DEF all
  <2> QED BY <1>1, <2>1 DEF Linked
<1>2. \A p, q \in all : SharesIDs(p, q) /\ p \in group => q \in group
  BY DEF Closed
<1>3. \A p, q : SharesIDs(p, q) => SharesIDs(q, p)
  BY DEF SharesIDs
<1>4. group # {}
  BY DEF Closed
<1>5. \A other \in others : other \in SUBSET all
  OBVIOUS
<1>6. papers \in SUBSET all
  OBVIOUS
<1>7. papers \subseteq group
  <2>1. CASE group \cap papers # {}
    BY <1>1, <1>6, <2>1
  <2>2. CASE group \cap papers = {}
    <3>1. PICK other \in others : group \cap other # {}
      BY <1>4, <2>2
    <3>2. other \subseteq group
      BY <1>1, <1>5, <3>1
    <3>3. PICK p \in papers, q \in other : SharesIDs(p, q)
      OBVIOUS
    <3>4. p \in group
      BY <1>2, <1>3, <1>5, <1>6, <3>2, <3>3
    <3> QED BY <2>2, <3>4
  <2> QED BY <2>1, <2>2
<1>8. ASSUME NEW other \in others PROVE other \subseteq group
  <2>1. PICK p \in papers, q \in other : SharesIDs(p, q)
    OBVIOUS
  <2>2. q \in group
    BY <1>2, <1>5, <1>6, <1>7, <2>1
  <2> QED BY <1>1, <1>5, <2>2
<1> QED BY <1>7, <1>8

\* Connected papers agree on a title under which papers without IDs are listed.
LEMMA LinkedAgree ==
  ASSUME TitlesAgree, NEW papers \in SUBSET Listed, Linked(papers),
         NEW p \in papers, NEW q \in papers, BibliographicKey(p) \in LooseTitles
  PROVE  BibliographicKey(q) = BibliographicKey(p)
<1> DEFINE titled == {r \in papers : BibliographicKey(r) = BibliographicKey(p)}
<1>1. Closed(titled, papers)
  BY DEF Closed, TitlesAgree
<1>2. titled = papers
  BY <1>1 DEF Linked
<1> QED BY <1>2

-----------------------------------------------------------------------------
(***************************************************************************)
(* The cluster that an iteration makes represents what its parts represent.*)
(***************************************************************************)
Group(q, papers) ==
  IF StrongKeys(q) # {} THEN {p \in papers : SharesIDs(p, q)}
  ELSE {p \in papers : StrongKeys(p) = {} /\ BibliographicKey(p) = BibliographicKey(q)}

\* What the parts of a joined cluster stand for.
Parts(M, found, papers) == M \cup UNION {Group(c.paper, papers) : c \in found}

IsSum(new, p, found, papers) ==
  /\ new \in ClusterSet
  /\ new.strong = StrongKeys(p) \cup UNION {c.strong : c \in found}
  /\ new.bibliographic = {BibliographicKey(p)} \cup UNION {c.bibliographic : c \in found}
  /\ Represents(new.paper, papers)
  /\ BibliographicKey(new.paper) \in
       {BibliographicKey(p)} \cup {BibliographicKey(c.paper) : c \in found}

LEMMA JoinRepresents ==
  ASSUME NEW C \in ClusterSets, NEW p \in Entries, NEW n \in Nat,
         NEW M \in SUBSET Entries, Represents(p, M),
         NEW papers \in SUBSET Entries,
         \A c \in C : c.strong = StrongKeys(c.paper) /\ Represents(c.paper, Group(c.paper, papers)),
         OneOfEach(StrongKeys(p) \cup UNION {c.strong : c \in Candidates(C, p)})
  PROVE  LET found == Candidates(C, p) IN
         /\ found \subseteq C
         /\ \E new : /\ IsSum(new, p, found, Parts(M, found, papers))
                     /\ new.since = n
                     /\ Join(C, p, n) = (C \ found) \cup {new}
<1> DEFINE found == Candidates(C, p)
           own   == Cluster(n, n, p, StrongKeys(p), {BibliographicKey(p)})
           first == Cluster(n, n, p, {}, {})
           keys  == StrongKeys(p) \cup UNION {c.strong : c \in found}
           all(S) == Parts(M, S, papers)
           titles(S) == {BibliographicKey(p)} \cup {BibliographicKey(c.paper) : c \in S}
           Good == {w \in (SUBSET found) \X ClusterSet :
                      /\ w[2].strong = UNION {c.strong : c \in w[1]}
                      /\ w[2].bibliographic = UNION {c.bibliographic : c \in w[1]}
                      /\ Represents(w[2].paper, all(w[1]))
                      /\ StrongKeys(w[2].paper) \subseteq keys
                      /\ BibliographicKey(w[2].paper) \in titles(w[1])}
<1>1. /\ found \subseteq C /\ found \in SUBSET ClusterSet /\ IsFiniteSet(found)
  <2>1. found \subseteq C
    BY CandidatesFound
  <2> QED BY <2>1, FS_Subset DEF ClusterSets
<1>2. /\ own \in ClusterSet /\ own.since = n /\ own.strong = StrongKeys(p) /\ own.paper = p
      /\ own.bibliographic = {BibliographicKey(p)}
      /\ first \in ClusterSet /\ first.strong = {} /\ first.paper = p /\ first.bibliographic = {}
  <2>1. own \in ClusterSet /\ first \in ClusterSet
    BY ClusterOfOne
  <2> QED BY <2>1 DEF Cluster
<1>3. Join(C, p, n) =
        IF found = {} THEN C \cup {own}
        ELSE (C \ found) \cup {MergeClusters(MergeAll(first, found), own)}
  BY Zenon DEF Join
<1>4. OneOfEach(keys)
  OBVIOUS
<1>5. \A S \in SUBSET found : all(S) \in SUBSET Entries
  <2>1. \A c : Group(c.paper, papers) \subseteq papers
    BY DEF Group
  <2> QED BY <2>1 DEF Parts
<1> HIDE DEF found, own, first
<1>6. CASE found = {}
  <2>1. all(found) = M
    BY <1>6 DEF Parts
  <2>2. Represents(own.paper, all(found))
    BY <1>2, <2>1, Zenon
  <2>3. IsSum(own, p, found, all(found))
    <3> HIDE DEF all
    <3> QED BY <1>2, <1>6, <2>2 DEF IsSum
  <2>4. Join(C, p, n) = (C \ found) \cup {own}
    BY <1>3, <1>6
  <2> QED BY <1>1, <1>2, <2>3, <2>4 DEF found
<1>7. CASE found # {}
  <2> DEFINE joined == MergeAll(first, found)
             new == MergeClusters(joined, own)
  <2>1. <<{}, first>> \in Good
    <3>1. all({}) = M
      BY DEF Parts
    <3>2. Represents(first.paper, all({}))
      BY <1>2, <3>1, Zenon
    <3> HIDE DEF all
    <3> QED BY <1>2, <3>2
  <2>2. ASSUME NEW S \in SUBSET found, NEW c \in S, NEW m \in ClusterSet,
               <<S \ {c}, m>> \in Good
        PROVE  <<S, MergeClusters(m, c)>> \in Good
    <3>1. /\ c \in C /\ c \in ClusterSet /\ c \in found /\ c.strong = StrongKeys(c.paper)
          /\ Group(c.paper, papers) \in SUBSET Entries
          /\ Represents(c.paper, Group(c.paper, papers))
      BY <1>1 DEF Group
    <3>2. /\ m.strong = UNION {d.strong : d \in S \ {c}}
          /\ m.bibliographic = UNION {d.bibliographic : d \in S \ {c}}
          /\ Represents(m.paper, all(S \ {c}))
          /\ StrongKeys(m.paper) \subseteq keys
          /\ BibliographicKey(m.paper) \in titles(S \ {c})
      BY <2>2
    <3>3. StrongKeys(c.paper) \subseteq keys
      BY <3>1
    <3>4. OneOfEach(StrongKeys(m.paper) \cup StrongKeys(c.paper))
      <4> HIDE DEF keys
      <4> QED BY <1>4, <3>2, <3>3 DEF OneOfEach
    <3>5. /\ MergeClusters(m, c) \in ClusterSet
          /\ MergeClusters(m, c).strong = m.strong \cup c.strong
      BY <3>1, MergedClusters
    <3> DEFINE d == MergeClusters(m, c)
    <3>6. /\ Represents(d.paper, all(S \ {c}) \cup Group(c.paper, papers))
          /\ d.bibliographic = m.bibliographic \cup c.bibliographic
          /\ BibliographicKey(d.paper) \in {BibliographicKey(m.paper), BibliographicKey(c.paper)}
      <4>1. all(S \ {c}) \in SUBSET Entries
        BY <1>5
      <4> HIDE DEF all
      <4> QED BY <3>1, <3>2, <3>4, <4>1, MergedRepresents
    <3>7. StrongKeys(d.paper) \subseteq keys
      <4>1. StrongKeys(d.paper) \subseteq StrongKeys(m.paper) \cup StrongKeys(c.paper)
        BY <3>1, MergedClusters
      <4> QED BY <3>2, <3>3, <4>1
    <3> HIDE DEF d, keys
    <3>8. all(S \ {c}) \cup Group(c.paper, papers) = all(S)
      BY DEF Parts
    <3>9. Represents(d.paper, all(S))
      BY <3>6, <3>8
    <3>10. /\ m.strong \cup c.strong = UNION {e.strong : e \in S}
           /\ m.bibliographic \cup c.bibliographic = UNION {e.bibliographic : e \in S}
      BY <3>2
    <3>11. BibliographicKey(d.paper) \in titles(S)
      BY <3>2, <3>6
    <3> HIDE DEF all, titles
    <3> QED BY <3>5, <3>6, <3>7, <3>9, <3>10, <3>11 DEF d
  <2>3. <<found, joined>> \in Good /\ joined \in ClusterSet
    <3> HIDE DEF Good
    <3> QED BY <1>1, <1>2, <2>1, <2>2, MergingKeeps
  <2> HIDE DEF joined
  <2>4. /\ joined.strong = UNION {c.strong : c \in found}
        /\ joined.bibliographic = UNION {c.bibliographic : c \in found}
        /\ Represents(joined.paper, all(found))
        /\ StrongKeys(joined.paper) \subseteq keys
        /\ BibliographicKey(joined.paper) \in titles(found)
    BY <2>3
  <2>5. /\ new \in ClusterSet /\ new.since = n
        /\ new.strong = joined.strong \cup StrongKeys(p)
    BY <1>2, <2>3, MergedClusters
  <2>6. /\ Represents(new.paper, all(found) \cup M)
        /\ new.bibliographic = joined.bibliographic \cup {BibliographicKey(p)}
        /\ BibliographicKey(new.paper) \in {BibliographicKey(joined.paper), BibliographicKey(p)}
    <3>1. all(found) \in SUBSET Entries
      BY <1>5
    <3>2. OneOfEach(StrongKeys(joined.paper) \cup StrongKeys(own.paper))
      BY <1>2, <1>4, <2>4 DEF OneOfEach
    <3>3. Represents(own.paper, M)
      BY <1>2, Zenon
    <3>4. Represents(joined.paper, all(found)) /\ joined \in ClusterSet /\ own \in ClusterSet
      BY <1>2, <2>3, <2>4
    <3> HIDE DEF all, keys, titles
    <3>5. /\ Represents(new.paper, all(found) \cup M)
          /\ new.bibliographic = joined.bibliographic \cup own.bibliographic
          /\ BibliographicKey(new.paper) \in
               {BibliographicKey(joined.paper), BibliographicKey(own.paper)}
      BY <3>1, <3>2, <3>3, <3>4, MergedRepresents
    <3> HIDE DEF new
    <3> QED BY <1>2, <3>5
  <2> HIDE DEF new
  <2>7. all(found) \cup M = all(found)
    BY DEF Parts
  <2>8. IsSum(new, p, found, all(found))
    <3>1. Represents(new.paper, all(found))
      BY <2>6, <2>7
    <3> HIDE DEF all
    <3> QED BY <2>4, <2>5, <2>6, <3>1 DEF IsSum
  <2>9. Join(C, p, n) = (C \ found) \cup {new}
    BY <1>3, <1>7 DEF new, joined
  <2>10. IsSum(new, p, found, Parts(M, found, papers))
    BY <2>8
  <2> HIDE DEF all
  <2> QED BY <1>1, <2>5, <2>9, <2>10 DEF found
<1> QED BY <1>6, <1>7

-----------------------------------------------------------------------------
(***************************************************************************)
(* Clusters that fit the papers so far: each stands for the papers of a    *)
(* work, and no two for papers of the same.                                *)
(***************************************************************************)
Stands(q, papers) ==
  /\ papers \subseteq Listed
  /\ Represents(q, papers)
  /\ StrongKeys(q) # {} => (\A p \in papers : StrongKeys(p) # {}) /\ Linked(papers)
  /\ StrongKeys(q) = {} =>
       \A p \in papers : StrongKeys(p) = {} /\ BibliographicKey(p) = BibliographicKey(q)

ClusterFits(c) ==
  /\ c.strong = StrongKeys(c.paper)
  /\ BibliographicKey(c.paper) \in c.bibliographic
  /\ \A t \in c.bibliographic \cap LooseTitles : t = BibliographicKey(c.paper)
  /\ c.strong = {} => c.bibliographic = {BibliographicKey(c.paper)}

Separate(c, d) ==
  /\ c.strong \cap d.strong = {}
  /\ c.strong = {} => BibliographicKey(c.paper) # BibliographicKey(d.paper)

ClustersFit(C, papers) ==
  /\ \A c \in C : ClusterFits(c) /\ Stands(c.paper, Group(c.paper, papers))
  /\ \A c, d \in C : c # d => Separate(c, d)
  /\ \A p \in papers : StrongKeys(p) # {} => \E c \in C : StrongKeys(p) \subseteq c.strong
  /\ \A p \in papers : StrongKeys(p) = {} =>
       \E c \in C : BibliographicKey(c.paper) = BibliographicKey(p)

\* An entry without IDs has a title under which the sources list a paper without IDs.
LEMMA LooseTitle ==
  ASSUME NEW q, NEW papers, Stands(q, papers), StrongKeys(q) = {}
  PROVE  BibliographicKey(q) \in LooseTitles
<1>1. PICK p \in papers : TRUE
  BY DEF Stands, Represents
<1>2. p \in Listed /\ StrongKeys(p) = {} /\ BibliographicKey(p) = BibliographicKey(q)
  BY <1>1 DEF Stands
<1> QED BY <1>2 DEF LooseTitles

\* What an iteration finds.
Finds(C, p, found) ==
  /\ found \subseteq C
  /\ \A c \in C : StrongKeys(p) \cap c.strong # {} => c \in found
  /\ \A c \in C : c.strong = {} /\ BibliographicKey(c.paper) = BibliographicKey(p) => c \in found
  /\ StrongKeys(p) = {} =>
       /\ \A c \in C : BibliographicKey(p) \in c.bibliographic => found # {}
       /\ \A c, d \in found : c = d
  /\ \A c \in found :
       \/ StrongKeys(p) \cap c.strong # {}
       \/ BibliographicKey(p) \in c.bibliographic /\ (StrongKeys(p) = {} \/ c.strong = {})

LEMMA CandidatesFind ==
  ASSUME NEW C \in ClusterSets, NEW papers, ClustersFit(C, papers),
         \A c, d \in C : c.since = d.since => c = d, NEW p
  PROVE  Finds(C, p, Candidates(C, p))
<1> DEFINE holding(key) == {c \in C : key \in c.strong}
           titled == {c \in C : BibliographicKey(p) \in c.bibliographic}
           found == Candidates(C, p)
<1>1. found = (UNION {Last(holding(key)) : key \in StrongKeys(p)}) \cup
              {c \in Last(titled) : CanMergeBibliographically(StrongKeys(p), c.strong)}
  BY DEF Candidates
<1>2. \A c \in C : c \in ClusterSet /\ c.since \in Nat
  BY DEF ClusterSets, ClusterSet
<1>3. \A c \in C : Last({c}) = {c}
  BY <1>2 DEF Last
<1> HIDE DEF found
<1>4. ASSUME NEW c \in C, NEW key \in StrongKeys(p), key \in c.strong PROVE c \in found
  <2>1. holding(key) = {c}
    BY <1>4 DEF ClustersFit, Separate
  <2>2. c \in Last(holding(key))
    BY <1>3, <2>1
  <2> HIDE DEF holding
  <2> QED BY <1>1, <2>2
<1>5. ASSUME NEW c \in C, c.strong = {}, BibliographicKey(c.paper) = BibliographicKey(p)
      PROVE  c \in found
  <2>1. ClusterFits(c) /\ BibliographicKey(p) \in LooseTitles
    <3>1. ClusterFits(c) /\ Stands(c.paper, Group(c.paper, papers))
      BY DEF ClustersFit
    <3> QED BY <1>5, <3>1, LooseTitle DEF ClusterFits
  <2>2. ASSUME NEW d \in titled PROVE d = c
    <3>1. ClusterFits(d)
      BY DEF ClustersFit
    <3>2. BibliographicKey(d.paper) = BibliographicKey(c.paper)
      BY <1>5, <2>1, <3>1 DEF ClusterFits
    <3> QED BY <1>5, <3>2 DEF ClustersFit, Separate
  <2>3. titled = {c}
    <3>1. c \in titled
      BY <1>5, <2>1 DEF ClusterFits
    <3> HIDE DEF titled
    <3> QED BY <2>2, <3>1
  <2>4. c \in Last(titled) /\ CanMergeBibliographically(StrongKeys(p), c.strong)
    BY <1>3, <1>5, <2>3 DEF CanMergeBibliographically
  <2> HIDE DEF titled
  <2> QED BY <1>1, <2>4
<1>6. ASSUME StrongKeys(p) = {}, NEW c \in titled PROVE found # {}
  <2>1. IsFiniteSet(titled) /\ titled # {}
    BY FS_Subset DEF ClusterSets
  <2> DEFINE since == [d \in titled |-> d.since]
  <2>2. since \in [titled -> Nat]
    BY <1>2
  <2>3. PICK d \in titled : \A e \in titled : since[e] <= since[d]
    <3> HIDE DEF since, titled
    <3> QED BY <2>1, <2>2, LatestOf
  <2>4. d \in Last(titled)
    BY <2>3 DEF Last
  <2>5. CanMergeBibliographically(StrongKeys(p), d.strong)
    BY <1>6 DEF CanMergeBibliographically
  <2> HIDE DEF titled
  <2> QED BY <1>1, <2>4, <2>5
<1>7. ASSUME NEW c \in found
      PROVE  /\ c \in C
             /\ \/ StrongKeys(p) \cap c.strong # {}
                \/ c \in Last(titled) /\ CanMergeBibliographically(StrongKeys(p), c.strong)
  <2>1. c \in C
    BY CandidatesFound DEF found
  <2> HIDE DEF titled
  <2>2. CASE c \in Last(titled) /\ CanMergeBibliographically(StrongKeys(p), c.strong)
    BY <2>1, <2>2
  <2>3. CASE c \in UNION {Last(holding(key)) : key \in StrongKeys(p)}
    <3>1. PICK key \in StrongKeys(p) : c \in Last(holding(key))
      BY <2>3
    <3>2. key \in c.strong
      BY <3>1 DEF Last
    <3> QED BY <2>1, <3>2
  <2> QED BY <1>1, <2>2, <2>3
<1>8. ASSUME NEW c \in Last(titled)
      PROVE  BibliographicKey(p) \in c.bibliographic /\ c \in C
  BY DEF Last
<1>9. ASSUME NEW c \in Last(titled), NEW d \in Last(titled) PROVE c = d
  <2>1. c \in C /\ d \in C /\ c.since <= d.since /\ d.since <= c.since
    BY <1>9 DEF Last
  <2>2. c.since = d.since
    BY <1>2, <2>1
  <2> QED BY <2>1, <2>2
<1> HIDE DEF titled, holding
<1>10. ASSUME NEW c \in found
       PROVE  \/ StrongKeys(p) \cap c.strong # {}
              \/ BibliographicKey(p) \in c.bibliographic /\ (StrongKeys(p) = {} \/ c.strong = {})
  BY <1>7, <1>8 DEF CanMergeBibliographically
<1>11. ASSUME StrongKeys(p) = {}, NEW c \in found, NEW d \in found PROVE c = d
  BY <1>7, <1>9, <1>11
<1>12. \A c \in C : StrongKeys(p) \cap c.strong # {} => c \in found
  BY <1>4
<1>13. \A c \in C : BibliographicKey(p) \in c.bibliographic => c \in titled
  BY DEF titled
<1>14. Finds(C, p, found)
  BY <1>5, <1>6, <1>7, <1>10, <1>11, <1>12, <1>13 DEF Finds
<1> QED BY <1>14 DEF found

-----------------------------------------------------------------------------
(***************************************************************************)
(* One iteration: the entry p, which stands for the papers of M, joins the *)
(* clusters found for it.  (The union has a name because the SMT encoding  *)
(* has none for a set expression inside an operator's argument.)           *)
(***************************************************************************)
With(papers, M) == papers \cup M

IsStep(C, papers, p, M, found, new) ==
  /\ papers \subseteq Listed /\ ClustersFit(C, papers)
  /\ Stands(p, M) /\ Finds(C, p, found)
  /\ IsSum(new, p, found, Parts(M, found, papers))

LEMMA SumKeys ==
  ASSUME NEW C, NEW papers, NEW p, NEW M, NEW found, NEW new,
         IsStep(C, papers, p, M, found, new)
  PROVE  new.strong = StrongKeys(new.paper)
<1> DEFINE parts == Parts(M, found, papers)
           keys(S) == UNION {StrongKeys(q) : q \in S}
<1>1. StrongKeys(new.paper) = keys(parts) /\ StrongKeys(p) = keys(M)
  BY DEF IsStep, IsSum, Represents, Stands
<1>2. \A c \in found : c.strong = keys(Group(c.paper, papers))
  <2> TAKE c \in found
  <2>1. ClusterFits(c) /\ Stands(c.paper, Group(c.paper, papers))
    BY DEF IsStep, Finds, ClustersFit
  <2> QED BY <2>1 DEF ClusterFits, Stands, Represents
<1>3. keys(parts) = keys(M) \cup UNION {keys(Group(c.paper, papers)) : c \in found}
  BY DEF Parts
<1>4. UNION {keys(Group(c.paper, papers)) : c \in found} = UNION {c.strong : c \in found}
  BY <1>2
<1>5. new.strong = StrongKeys(p) \cup UNION {c.strong : c \in found}
  BY DEF IsStep, IsSum
<1> HIDE DEF keys
<1> QED BY <1>1, <1>3, <1>4, <1>5

\* A paper without IDs joins a cluster of its title, if any.
LEMMA FoundByTitle ==
  ASSUME NEW C, NEW papers, NEW p, NEW M, NEW found, NEW new,
         IsStep(C, papers, p, M, found, new), NEW c \in found
  PROVE  /\ c \in C /\ ClusterFits(c) /\ Stands(c.paper, Group(c.paper, papers))
         /\ StrongKeys(p) = {} \/ c.strong = {} =>
              BibliographicKey(c.paper) = BibliographicKey(p) /\ BibliographicKey(p) \in LooseTitles
         /\ StrongKeys(p) # {} /\ c.strong # {} => StrongKeys(p) \cap c.strong # {}
<1>1. c \in C /\ ClusterFits(c) /\ Stands(c.paper, Group(c.paper, papers)) /\ Stands(p, M)
  BY DEF IsStep, Finds, ClustersFit
<1>2. \/ StrongKeys(p) \cap c.strong # {}
      \/ BibliographicKey(p) \in c.bibliographic /\ (StrongKeys(p) = {} \/ c.strong = {})
  BY DEF IsStep, Finds
<1>3. ASSUME StrongKeys(p) = {}
      PROVE  BibliographicKey(c.paper) = BibliographicKey(p) /\ BibliographicKey(p) \in LooseTitles
  <2>1. BibliographicKey(p) \in LooseTitles
    BY <1>1, <1>3, LooseTitle
  <2> QED BY <1>1, <1>2, <1>3, <2>1 DEF ClusterFits
<1>4. ASSUME c.strong = {}
      PROVE  BibliographicKey(c.paper) = BibliographicKey(p) /\ BibliographicKey(p) \in LooseTitles
  <2>1. StrongKeys(c.paper) = {}
    BY <1>1, <1>4 DEF ClusterFits
  <2>2. BibliographicKey(c.paper) \in LooseTitles
    BY <1>1, <2>1, LooseTitle
  <2> QED BY <1>1, <1>2, <1>4, <2>2 DEF ClusterFits
<1> QED BY <1>1, <1>2, <1>3, <1>4

LEMMA StrongGroup ==
  ASSUME NEW C, NEW papers, NEW p, NEW M, NEW found, NEW new,
         IsStep(C, papers, p, M, found, new), new.strong # {}
  PROVE  Group(new.paper, With(papers, M)) = Strong(Parts(M, found, papers))
<1> DEFINE parts == Parts(M, found, papers)
<1>1. /\ StrongKeys(new.paper) = new.strong
      /\ new.strong = StrongKeys(p) \cup UNION {c.strong : c \in found}
  BY SumKeys DEF IsStep, IsSum
<1>2. /\ StrongKeys(p) = UNION {StrongKeys(q) : q \in M}
      /\ StrongKeys(new.paper) = UNION {StrongKeys(q) : q \in parts}
  BY DEF IsStep, IsSum, Stands, Represents
<1>3. \A q, r : SharesIDs(q, r) <=> \E key \in StrongKeys(q) : key \in StrongKeys(r)
  BY DEF SharesIDs
<1>4. parts \subseteq papers \cup M
  <2>1. \A c \in found : Group(c.paper, papers) \subseteq papers
    BY DEF Group
  <2> QED BY <2>1 DEF Parts
<1>5. Group(new.paper, With(papers, M)) = {q \in papers \cup M : SharesIDs(q, new.paper)}
  BY <1>1 DEF Group, With
<1>6. ASSUME NEW q \in Strong(parts) PROVE q \in papers \cup M /\ SharesIDs(q, new.paper)
  <2>1. q \in parts /\ StrongKeys(q) # {}
    BY DEF Strong
  <2>2. StrongKeys(q) \subseteq StrongKeys(new.paper)
    BY <1>2, <2>1
  <2> HIDE DEF parts
  <2> QED BY <1>3, <1>4, <2>1, <2>2
<1>7. ASSUME NEW q \in papers \cup M, SharesIDs(q, new.paper) PROVE q \in Strong(parts)
  <2>1. StrongKeys(q) # {}
    BY <1>3, <1>7
  <2>2. q \in parts
    <3>1. CASE q \in M
      BY <3>1 DEF Parts
    <3>2. CASE q \in papers
      <4>1. PICK key \in StrongKeys(q) : key \in new.strong
        BY <1>1, <1>3, <1>7
      <4>2. PICK c \in C : StrongKeys(q) \subseteq c.strong
        BY <2>1, <3>2 DEF IsStep, ClustersFit
      <4>3. c \in found
        <5>1. CASE key \in StrongKeys(p)
          BY <4>1, <4>2, <5>1 DEF IsStep, Finds
        <5>2. CASE \E d \in found : key \in d.strong
          <6>1. PICK d \in found : key \in d.strong
            BY <5>2
          <6>2. d \in C
            BY DEF IsStep, Finds
          <6>3. c = d
            BY <4>1, <4>2, <6>1, <6>2 DEF IsStep, ClustersFit, Separate
          <6> QED BY <6>1, <6>3
        <5> QED BY <1>1, <4>1, <5>1, <5>2
      <4>4. q \in Group(c.paper, papers)
        <5>1. c.strong = StrongKeys(c.paper)
          BY <4>3, FoundByTitle DEF ClusterFits
        <5>2. SharesIDs(q, c.paper)
          BY <1>3, <2>1, <4>2, <5>1
        <5> QED BY <2>1, <3>2, <4>2, <5>1, <5>2 DEF Group
      <4> QED BY <4>3, <4>4 DEF Parts
    <3> QED BY <3>1, <3>2
  <2> QED BY <2>1, <2>2 DEF Strong
<1> HIDE DEF parts
<1>8. Group(new.paper, With(papers, M)) = Strong(parts)
  <2>1. \A q \in Strong(parts) : q \in Group(new.paper, With(papers, M))
    BY <1>5, <1>6
  <2>2. \A q \in Group(new.paper, With(papers, M)) : q \in Strong(parts)
    BY <1>5, <1>7
  <2> QED BY <2>1, <2>2
<1> QED BY <1>8 DEF parts

LEMMA StrongGroupLinked ==
  ASSUME NEW C, NEW papers, NEW p, NEW M, NEW found, NEW new,
         IsStep(C, papers, p, M, found, new), new.strong # {}
  PROVE  Linked(Strong(Parts(M, found, papers)))
<1> DEFINE strong == {Group(c.paper, papers) : c \in {d \in found : d.strong # {}}}
<1>1. ASSUME NEW c \in found
      PROVE  /\ c.strong = StrongKeys(c.paper) /\ Stands(c.paper, Group(c.paper, papers))
             /\ c.strong # {} =>
                  /\ Linked(Group(c.paper, papers))
                  /\ Strong(Group(c.paper, papers)) = Group(c.paper, papers)
             /\ c.strong = {} => Strong(Group(c.paper, papers)) = {}
  <2>1. c.strong = StrongKeys(c.paper) /\ Stands(c.paper, Group(c.paper, papers))
    BY FoundByTitle DEF ClusterFits
  <2> QED BY <2>1 DEF Stands, Strong
<1>2. Stands(p, M)
  BY DEF IsStep
<1>3. Strong(Parts(M, found, papers)) = Strong(M) \cup UNION strong
  <2>1. Strong(Parts(M, found, papers)) =
          Strong(M) \cup UNION {Strong(Group(c.paper, papers)) : c \in found}
    BY DEF Parts, Strong
  <2>2. UNION {Strong(Group(c.paper, papers)) : c \in found} = UNION strong
    BY <1>1
  <2> QED BY <2>1, <2>2
<1>4. CASE StrongKeys(p) # {}
  <2>1. Strong(M) = M /\ Linked(M) /\ M # {}
    BY <1>2, <1>4 DEF Stands, Strong, Represents
  <2>2. ASSUME NEW other \in strong
        PROVE  Linked(other) /\ \E q \in M : \E r \in other : SharesIDs(q, r)
    <3>1. PICK c \in found : c.strong # {} /\ other = Group(c.paper, papers)
      OBVIOUS
    <3>2. PICK key \in StrongKeys(p) : key \in c.strong
      BY <1>4, <3>1, FoundByTitle
    <3>3. PICK q \in M : key \in StrongKeys(q)
      BY <1>2, <3>2 DEF Stands, Represents
    <3>4. PICK r \in other : key \in StrongKeys(r)
      BY <1>1, <3>1, <3>2 DEF Stands, Represents
    <3>5. SharesIDs(q, r)
      BY <3>3, <3>4 DEF SharesIDs
    <3> QED BY <1>1, <3>1, <3>5
  <2> HIDE DEF strong
  <2>3. Linked(M \cup UNION strong)
    BY <2>1, <2>2, LinkedTogether
  <2> QED BY <1>3, <2>1, <2>3
<1>5. CASE StrongKeys(p) = {}
  <2>1. Strong(M) = {}
    BY <1>2, <1>5 DEF Stands, Strong
  <2>2. PICK c \in found : c.strong # {}
    BY <1>5 DEF IsStep, IsSum
  <2>3. found = {c}
    BY <1>5, <2>2 DEF IsStep, Finds
  <2>4. strong = {Group(c.paper, papers)}
    BY <2>2, <2>3
  <2>5. Strong(Parts(M, found, papers)) = Group(c.paper, papers)
    BY <1>3, <2>1, <2>4
  <2> QED BY <1>1, <2>2, <2>5
<1> QED BY <1>4, <1>5

LEMMA LooseGroup ==
  ASSUME NEW C, NEW papers, NEW p, NEW M, NEW found, NEW new,
         IsStep(C, papers, p, M, found, new), new.strong = {}
  PROVE  /\ Group(new.paper, With(papers, M)) = Parts(M, found, papers)
         /\ StrongKeys(p) = {} /\ BibliographicKey(new.paper) = BibliographicKey(p)
         /\ \A c \in found : c.strong = {} /\ BibliographicKey(c.paper) = BibliographicKey(p)
<1> DEFINE title == BibliographicKey(p)
<1>1. StrongKeys(p) = {} /\ \A c \in found : c.strong = {}
  BY DEF IsStep, IsSum
<1>2. \A c \in found : BibliographicKey(c.paper) = title
  BY <1>1, FoundByTitle
<1>3. StrongKeys(new.paper) = {} /\ BibliographicKey(new.paper) = title
  BY <1>2, SumKeys DEF IsStep, IsSum
<1>4. \A q \in M : StrongKeys(q) = {} /\ BibliographicKey(q) = title
  BY <1>1 DEF IsStep, Stands
<1>5. ASSUME NEW c \in found
      PROVE  Group(c.paper, papers) =
               {q \in papers : StrongKeys(q) = {} /\ BibliographicKey(q) = title}
  <2>1. StrongKeys(c.paper) = {}
    BY <1>1, FoundByTitle DEF ClusterFits
  <2> QED BY <1>2, <2>1 DEF Group
<1>6. ASSUME NEW q \in papers, StrongKeys(q) = {}, BibliographicKey(q) = title
      PROVE  \E c \in found : q \in Group(c.paper, papers)
  <2>1. PICK c \in C : BibliographicKey(c.paper) = title
    BY <1>6 DEF IsStep, ClustersFit
  <2>2. title \in c.bibliographic
    BY <2>1 DEF IsStep, ClustersFit, ClusterFits
  <2>3. PICK d \in found : TRUE
    BY <1>1, <2>2 DEF IsStep, Finds
  <2> QED BY <1>5, <1>6, <2>3
<1>7. Group(new.paper, With(papers, M)) =
        {q \in papers \cup M : StrongKeys(q) = {} /\ BibliographicKey(q) = title}
  BY <1>3 DEF Group, With
<1> HIDE DEF title
<1>8. Group(new.paper, With(papers, M)) = Parts(M, found, papers)
  <2>1. ASSUME NEW q \in Group(new.paper, With(papers, M)) PROVE q \in Parts(M, found, papers)
    BY <1>6, <1>7 DEF Parts
  <2>2. ASSUME NEW q \in Parts(M, found, papers) PROVE q \in Group(new.paper, With(papers, M))
    BY <1>4, <1>5, <1>7 DEF Parts
  <2> QED BY <2>1, <2>2
<1> QED BY <1>1, <1>2, <1>3, <1>8 DEF title

LEMMA PartsAreListed ==
  ASSUME NEW C, NEW papers, NEW p, NEW M, NEW found, NEW new,
         IsStep(C, papers, p, M, found, new)
  PROVE  Parts(M, found, papers) \subseteq Listed
<1>1. \A c \in found : Group(c.paper, papers) \subseteq papers
  BY DEF Group
<1> QED BY <1>1 DEF IsStep, Stands, Parts

LEMMA SumStands ==
  ASSUME NEW C, NEW papers, NEW p, NEW M, NEW found, NEW new,
         IsStep(C, papers, p, M, found, new)
  PROVE  Stands(new.paper, Group(new.paper, With(papers, M)))
<1> DEFINE parts == Parts(M, found, papers)
           group == Group(new.paper, With(papers, M))
<1>1. new.strong = StrongKeys(new.paper) /\ Represents(new.paper, parts) /\ parts \subseteq Listed
  BY SumKeys, PartsAreListed DEF IsStep, IsSum
<1>2. CASE new.strong # {}
  <2>1. group = Strong(parts) /\ Linked(Strong(parts))
    BY <1>2, StrongGroup, StrongGroupLinked
  <2>2. Represents(new.paper, Strong(parts))
    BY <1>1, <1>2, StrongPartRepresented
  <2>3. Strong(parts) \subseteq Listed /\ \A q \in Strong(parts) : StrongKeys(q) # {}
    BY <1>1 DEF Strong
  <2> HIDE DEF parts, group
  <2>4. Stands(new.paper, group)
    BY <1>1, <1>2, <2>1, <2>2, <2>3 DEF Stands
  <2> QED BY <2>4 DEF group
<1>3. CASE new.strong = {}
  <2>1. group = parts
    BY <1>3, LooseGroup
  <2>2. \A q \in group : StrongKeys(q) = {} /\ BibliographicKey(q) = BibliographicKey(new.paper)
    BY <1>1, <1>3 DEF Group
  <2> HIDE DEF parts, group
  <2>3. Stands(new.paper, group)
    BY <1>1, <1>3, <2>1, <2>2 DEF Stands
  <2> QED BY <2>3 DEF group
<1> QED BY <1>2, <1>3

\* The paper of a cluster has one title that matters.
LEMMA SumFits ==
  ASSUME TitlesAgree, NEW C, NEW papers, NEW p, NEW M, NEW found, NEW new,
         IsStep(C, papers, p, M, found, new)
  PROVE  ClusterFits(new)
<1> DEFINE parts == Strong(Parts(M, found, papers))
           title == BibliographicKey(new.paper)
<1>1. new.strong = StrongKeys(new.paper)
  BY SumKeys
<1>2. /\ new.bibliographic = {BibliographicKey(p)} \cup UNION {c.bibliographic : c \in found}
      /\ title \in {BibliographicKey(p)} \cup {BibliographicKey(c.paper) : c \in found}
      /\ new.strong = StrongKeys(p) \cup UNION {c.strong : c \in found}
      /\ \A c \in found : ClusterFits(c)
  BY FoundByTitle DEF IsStep, IsSum
<1>3. title \in new.bibliographic
  BY <1>2 DEF ClusterFits
<1>4. new.strong = {} => new.bibliographic = {title}
  <2> SUFFICES ASSUME new.strong = {} PROVE new.bibliographic = {title}
    OBVIOUS
  <2>1. /\ title = BibliographicKey(p)
        /\ \A c \in found : c.strong = {} /\ BibliographicKey(c.paper) = title
    BY LooseGroup
  <2>2. \A c \in found : c.bibliographic = {title}
    BY <1>2, <2>1 DEF ClusterFits
  <2> HIDE DEF title
  <2> QED BY <1>2, <2>1, <2>2
<1>5. ASSUME NEW t \in new.bibliographic, t \in LooseTitles PROVE t = title
  <2>1. t = BibliographicKey(p) \/ \E c \in found : t = BibliographicKey(c.paper)
    BY <1>2, <1>5 DEF ClusterFits
  <2>2. CASE StrongKeys(p) = {}
    <3>1. \A c \in found : BibliographicKey(c.paper) = BibliographicKey(p)
      BY <2>2, FoundByTitle
    <3> QED BY <1>2, <2>1, <3>1
  <2>3. CASE StrongKeys(p) # {}
    <3>1. new.strong # {}
      BY <1>2, <2>3
    <3>2. /\ Linked(parts) /\ parts \subseteq Listed
          /\ Stands(new.paper, parts)
      <4>1. Parts(M, found, papers) \subseteq Listed
        BY PartsAreListed
      <4>2. parts \subseteq Listed
        BY <4>1 DEF Strong
      <4>3. Linked(parts) /\ Stands(new.paper, parts)
        BY <3>1, StrongGroup, StrongGroupLinked, SumStands
      <4> QED BY <4>2, <4>3
    <3>3. PICK r \in parts : BibliographicKey(r) = title
      <4>1. Represents(new.paper, parts)
        BY <3>2 DEF Stands
      <4> HIDE DEF parts
      <4> QED BY <4>1 DEF Represents, Likens
    <3>4. \E q \in parts : BibliographicKey(q) = BibliographicKey(p)
      <4>1. PICK q \in M : BibliographicKey(q) = BibliographicKey(p)
        BY DEF IsStep, Stands, Represents, Likens
      <4>2. q \in parts
        BY <2>3, <4>1 DEF IsStep, Stands, Parts, Strong
      <4> QED BY <4>1, <4>2
    <3>5. ASSUME NEW c \in found
          PROVE  \E q \in parts : BibliographicKey(q) = BibliographicKey(c.paper)
      <4>1. CASE c.strong = {}
        BY <3>4, <4>1, FoundByTitle
      <4>2. CASE c.strong # {}
        <5>1. Stands(c.paper, Group(c.paper, papers)) /\ StrongKeys(c.paper) # {}
          BY <4>2, FoundByTitle DEF ClusterFits
        <5>2. PICK q \in Group(c.paper, papers) : BibliographicKey(q) = BibliographicKey(c.paper)
          BY <5>1 DEF Stands, Represents, Likens
        <5>3. StrongKeys(q) # {}
          BY <5>1, <5>2 DEF Stands
        <5>4. q \in parts
          BY <5>2, <5>3 DEF Parts, Strong
        <5> QED BY <5>2, <5>4
      <4> QED BY <4>1, <4>2
    <3>6. PICK q \in parts : BibliographicKey(q) = t
      BY <2>1, <3>4, <3>5
    <3> HIDE DEF parts, title
    <3>7. BibliographicKey(r) = BibliographicKey(q)
      BY <1>5, <3>2, <3>3, <3>6, LinkedAgree
    <3> QED BY <3>3, <3>6, <3>7
  <2> QED BY <2>2, <2>3
<1> QED BY <1>1, <1>3, <1>4, <1>5 DEF ClusterFits

LEMMA OthersStay ==
  ASSUME NEW C, NEW papers, NEW p, NEW M, NEW found, NEW new,
         IsStep(C, papers, p, M, found, new), NEW d \in C \ found
  PROVE  Group(d.paper, With(papers, M)) = Group(d.paper, papers)
<1>1. ClusterFits(d) /\ Stands(p, M)
  BY DEF IsStep, ClustersFit
<1>2. CASE d.strong # {}
  <2>1. StrongKeys(d.paper) = d.strong
    BY <1>1 DEF ClusterFits
  <2>2. ASSUME NEW q \in M, SharesIDs(q, d.paper) PROVE FALSE
    <3>1. PICK key \in StrongKeys(q) : key \in d.strong
      BY <2>1, <2>2 DEF SharesIDs
    <3>2. key \in StrongKeys(p)
      BY <1>1, <3>1 DEF Stands, Represents
    <3> QED BY <3>1, <3>2 DEF IsStep, Finds
  <2> QED BY <1>2, <2>1, <2>2 DEF Group, With
<1>3. CASE d.strong = {}
  <2>1. StrongKeys(d.paper) = {}
    BY <1>1, <1>3 DEF ClusterFits
  <2>2. ASSUME NEW q \in M, StrongKeys(q) = {}, BibliographicKey(q) = BibliographicKey(d.paper)
        PROVE  FALSE
    <3>1. BibliographicKey(q) = BibliographicKey(p)
      BY <1>1, <2>2 DEF Stands
    <3> QED BY <1>3, <2>2, <3>1 DEF IsStep, Finds
  <2> QED BY <1>3, <2>1, <2>2 DEF Group, With
<1> QED BY <1>2, <1>3

LEMMA SumSeparate ==
  ASSUME TitlesAgree, NEW C, NEW papers, NEW p, NEW M, NEW found, NEW new,
         IsStep(C, papers, p, M, found, new), NEW d \in C \ found
  PROVE  Separate(new, d) /\ Separate(d, new)
<1>1. /\ ClusterFits(d) /\ Stands(d.paper, Group(d.paper, papers)) /\ Stands(p, M)
      /\ \A c \in C \ {d} : Separate(c, d) /\ Separate(d, c)
      /\ found \subseteq C
  BY DEF IsStep, ClustersFit, Finds
<1>2. new.strong = StrongKeys(p) \cup UNION {c.strong : c \in found}
  BY DEF IsStep, IsSum
<1>3. new.strong \cap d.strong = {}
  <2> SUFFICES ASSUME NEW key \in new.strong, key \in d.strong PROVE FALSE
    OBVIOUS
  <2>1. CASE key \in StrongKeys(p)
    BY <2>1 DEF IsStep, Finds
  <2>2. CASE key \notin StrongKeys(p)
    <3>1. PICK c \in found : key \in c.strong
      BY <1>2, <2>2
    <3> QED BY <1>1, <3>1 DEF Separate
  <2> QED BY <2>1, <2>2
<1>4. ASSUME new.strong = {}, BibliographicKey(new.paper) = BibliographicKey(d.paper) PROVE FALSE
  <2>1. /\ StrongKeys(p) = {} /\ BibliographicKey(d.paper) = BibliographicKey(p)
        /\ \A c \in found : c.strong = {} /\ BibliographicKey(c.paper) = BibliographicKey(p)
    BY <1>4, LooseGroup
  <2>2. BibliographicKey(p) \in d.bibliographic
    BY <1>1, <2>1 DEF ClusterFits
  <2>3. PICK c \in found : TRUE
    BY <2>1, <2>2 DEF IsStep, Finds
  <2>4. c \in C \ {d} /\ c.strong = {} /\ BibliographicKey(c.paper) = BibliographicKey(d.paper)
    BY <1>1, <2>1, <2>3
  <2> QED BY <1>1, <2>4 DEF Separate
<1>5. ASSUME d.strong = {}, BibliographicKey(d.paper) = BibliographicKey(new.paper) PROVE FALSE
  <2>1. BibliographicKey(d.paper) # BibliographicKey(p)
    BY <1>5 DEF IsStep, Finds
  <2>2. PICK c \in found : BibliographicKey(c.paper) = BibliographicKey(d.paper)
    BY <1>5, <2>1 DEF IsStep, IsSum
  <2>3. c \in C \ {d}
    BY <1>1, <2>2
  <2> QED BY <1>1, <1>5, <2>2, <2>3 DEF Separate
<1>6. d.strong \cap new.strong = {}
  BY <1>3
<1> QED BY <1>3, <1>4, <1>5, <1>6 DEF Separate

\* An iteration keeps the clusters fit.
LEMMA JoinFits ==
  ASSUME TitlesAgree, NEW C \in ClusterSets, \A c, d \in C : c.since = d.since => c = d,
         NEW papers \in SUBSET Listed, ClustersFit(C, papers),
         NEW p \in Entries, NEW n \in Nat, NEW M, Stands(p, M),
         OneOfEach(StrongKeys(p) \cup UNION {c.strong : c \in Candidates(C, p)})
  PROVE  ClustersFit(Join(C, p, n), With(papers, M))
<1> DEFINE found == Candidates(C, p)
<1>1. /\ M \in SUBSET Entries /\ papers \in SUBSET Entries /\ Represents(p, M)
      /\ \A c \in C : /\ c.strong = StrongKeys(c.paper)
                     /\ Represents(c.paper, Group(c.paper, papers))
  BY ListedFacts DEF Stands, ClustersFit, ClusterFits
<1>3. PICK new : /\ IsSum(new, p, found, Parts(M, found, papers))
                 /\ Join(C, p, n) = (C \ found) \cup {new} /\ found \subseteq C
  BY <1>1, JoinRepresents
<1>4. Finds(C, p, found)
  BY CandidatesFind
<1> HIDE DEF found
<1>6. IsStep(C, papers, p, M, found, new)
  BY <1>3, <1>4 DEF IsStep
<1> DEFINE joined == (C \ found) \cup {new}
<1>7. ASSUME NEW c \in joined
      PROVE  ClusterFits(c) /\ Stands(c.paper, Group(c.paper, With(papers, M)))
  <2>1. CASE c = new
    BY <1>6, <2>1, SumFits, SumStands
  <2>2. CASE c \in C \ found
    BY <1>6, <2>2, OthersStay DEF ClustersFit
  <2> QED BY <2>1, <2>2
<1>8. ASSUME NEW c \in joined, NEW d \in joined, c # d PROVE Separate(c, d)
  <2>1. CASE c = new
    BY <1>6, <1>8, <2>1, SumSeparate
  <2>2. CASE d = new
    BY <1>6, <1>8, <2>2, SumSeparate
  <2>3. CASE c # new /\ d # new
    BY <1>8, <2>3 DEF ClustersFit
  <2> QED BY <2>1, <2>2, <2>3
<1>9. ASSUME NEW q \in papers \cup M, StrongKeys(q) # {}
      PROVE  \E c \in joined : StrongKeys(q) \subseteq c.strong
  <2>1. new.strong = StrongKeys(p) \cup UNION {c.strong : c \in found}
    BY <1>3 DEF IsSum
  <2>2. CASE q \in M
    <3>1. StrongKeys(q) \subseteq StrongKeys(p)
      BY <2>2 DEF Stands, Represents
    <3> QED BY <2>1, <3>1
  <2>3. CASE q \in papers
    <3>1. PICK c \in C : StrongKeys(q) \subseteq c.strong
      BY <1>9, <2>3 DEF ClustersFit
    <3>2. CASE c \in found
      BY <2>1, <3>1, <3>2
    <3> QED BY <3>1, <3>2
  <2> QED BY <2>2, <2>3
<1>10. ASSUME NEW q \in papers \cup M, StrongKeys(q) = {}
       PROVE  \E c \in joined : BibliographicKey(c.paper) = BibliographicKey(q)
  <2>1. BibliographicKey(q) \in LooseTitles
    BY <1>10 DEF Stands, LooseTitles
  <2>2. BibliographicKey(q) \in new.bibliographic =>
          BibliographicKey(new.paper) = BibliographicKey(q)
    BY <1>7, <2>1 DEF ClusterFits
  <2>3. new.bibliographic = {BibliographicKey(p)} \cup UNION {c.bibliographic : c \in found}
    BY <1>3 DEF IsSum
  <2>4. CASE q \in M
    <3>1. BibliographicKey(q) = BibliographicKey(p)
      BY <1>10, <2>4 DEF Stands
    <3> QED BY <2>2, <2>3, <3>1
  <2>5. CASE q \in papers
    <3>1. PICK c \in C : BibliographicKey(c.paper) = BibliographicKey(q)
      BY <1>10, <2>5 DEF ClustersFit
    <3>2. CASE c \in found
      <4>1. BibliographicKey(q) \in c.bibliographic
        BY <3>1 DEF ClustersFit, ClusterFits
      <4> QED BY <2>2, <2>3, <3>2, <4>1
    <3> QED BY <3>1, <3>2
  <2> QED BY <2>4, <2>5
<1> HIDE DEF joined
<1>11. ClustersFit(joined, With(papers, M))
  BY <1>7, <1>8, <1>9, <1>10 DEF ClustersFit, With
<1> QED BY <1>3, <1>11 DEF joined

-----------------------------------------------------------------------------
(***************************************************************************)
(* What else a cluster has of its papers: their categories, and the title  *)
(* of one that none is preferred to.                                       *)
(***************************************************************************)
Likes(q, p) ==
  PreferenceKey(q) = PreferenceKey(p) /\ BibliographicKey(q) = BibliographicKey(p)

LEMMA MergedLikes ==
  ASSUME NEW p \in Entries, NEW q \in Entries, StrongPriority(p) <= StrongPriority(q)
  PROVE  Likes(Merged(p, q), p) /\ Merged(p, q).categories = p.categories \cup q.categories
<1>1. /\ p.arxiv_id = 0 => q.arxiv_id = 0
      /\ p.arxiv_id = 0 /\ p.doi = 0 => q.doi = 0
  BY DEF StrongPriority
<1> DEFINE doi == IF p.doi # 0 THEN p.doi ELSE q.doi
<1>2. /\ Merged(p, q).title = p.title /\ Merged(p, q).published = p.published
      /\ Merged(p, q).categories = p.categories \cup q.categories
      /\ Merged(p, q).arxiv_id = p.arxiv_id /\ Merged(p, q).doi = doi
      /\ Merged(p, q).identifier = p.identifier /\ Merged(p, q).source = p.source
  <2>1. p \in [identifier : Nat \X Nat, source : DOMAIN SourceRank, title : Nat,
               published : Nat, categories : SUBSET STRING, doi : Nat, arxiv_id : Nat]
    BY DEF Entries
  <2>2. /\ Merged(p, q).title = p.title /\ Merged(p, q).published = p.published
        /\ Merged(p, q).categories = p.categories \cup q.categories
        /\ Merged(p, q).doi = doi
    BY <2>1 DEF Merged
  <2> QED BY <2>2, MergedKeepsName
<1>3. StrongPriority(Merged(p, q)) = StrongPriority(p)
  BY <1>1, <1>2 DEF StrongPriority
<1> QED BY <1>2, <1>3 DEF Likes, PreferenceKey, BibliographicKey

\* Of two clusters the left is preferred unless the right comes before it.
LEMMA MergedClustersLike ==
  ASSUME NEW left \in ClusterSet, NEW right \in ClusterSet
  PROVE  LET c == MergeClusters(left, right) IN
         /\ c.strong = left.strong \cup right.strong
         /\ c.bibliographic = left.bibliographic \cup right.bibliographic
         /\ c.paper.categories = left.paper.categories \cup right.paper.categories
         /\ IF Before(PreferenceKey(right.paper), PreferenceKey(left.paper))
            THEN Likes(c.paper, right.paper)
            ELSE Likes(c.paper, left.paper)
<1> DEFINE l == left.paper
           r == right.paper
           paper == IF Before(PreferenceKey(r), PreferenceKey(l)) THEN Merged(r, l)
                    ELSE Merged(l, r)
<1>1. l \in Entries /\ r \in Entries
  BY DEF ClusterSet
<1>2. /\ MergeClusters(left, right).paper = paper
      /\ MergeClusters(left, right).strong = left.strong \cup right.strong
      /\ MergeClusters(left, right).bibliographic = left.bibliographic \cup right.bibliographic
  BY DEF MergeClusters, Cluster
<1>3. /\ paper.categories = l.categories \cup r.categories
      /\ IF Before(PreferenceKey(r), PreferenceKey(l)) THEN Likes(paper, r) ELSE Likes(paper, l)
  <2>1. CASE Before(PreferenceKey(r), PreferenceKey(l))
    <3>1. StrongPriority(r) <= StrongPriority(l) /\ paper = Merged(r, l)
      BY <1>1, <2>1, PreferredIsStrong
    <3> HIDE DEF paper
    <3> QED BY <1>1, <2>1, <3>1, MergedLikes
  <2>2. CASE ~Before(PreferenceKey(r), PreferenceKey(l))
    <3>1. StrongPriority(l) <= StrongPriority(r) /\ paper = Merged(l, r)
      BY <1>1, <2>2, PreferredIsStrong
    <3> HIDE DEF paper
    <3> QED BY <1>1, <2>2, <3>1, MergedLikes
  <2> QED BY <2>1, <2>2
<1> HIDE DEF paper
<1> QED BY <1>2, <1>3

\* What the cluster that an iteration makes has of the paper p and of those it found.
Gathers(new, p, found) ==
  /\ new.strong = StrongKeys(p) \cup UNION {c.strong : c \in found}
  /\ new.bibliographic = {BibliographicKey(p)} \cup UNION {c.bibliographic : c \in found}
  /\ new.paper.categories = p.categories \cup UNION {c.paper.categories : c \in found}
  /\ \/ Likes(new.paper, p)
     \/ \E c \in found : /\ Likes(new.paper, c.paper)
                         /\ Before(PreferenceKey(c.paper), PreferenceKey(p))

LEMMA JoinGathers ==
  ASSUME NEW C \in ClusterSets, NEW p \in Entries, NEW n \in Nat
  PROVE  \E new : /\ Gathers(new, p, Candidates(C, p))
                  /\ Join(C, p, n) = (C \ Candidates(C, p)) \cup {new}
<1> DEFINE found == Candidates(C, p)
           own   == Cluster(n, n, p, StrongKeys(p), {BibliographicKey(p)})
           first == Cluster(n, n, p, {}, {})
           likes(m, S) == \/ Likes(m.paper, p)
                          \/ \E c \in S : /\ Likes(m.paper, c.paper)
                                          /\ Before(PreferenceKey(c.paper), PreferenceKey(p))
           Good == {w \in (SUBSET found) \X ClusterSet :
                      /\ w[2].strong = UNION {c.strong : c \in w[1]}
                      /\ w[2].bibliographic = UNION {c.bibliographic : c \in w[1]}
                      /\ w[2].paper.categories =
                           p.categories \cup UNION {c.paper.categories : c \in w[1]}
                      /\ likes(w[2], w[1])}
<1>1. /\ found \in SUBSET ClusterSet /\ IsFiniteSet(found) /\ found \subseteq C
  <2>1. found \subseteq C
    BY CandidatesFound
  <2> HIDE DEF found
  <2> QED BY <2>1, FS_Subset DEF ClusterSets
<1>2. own \in ClusterSet /\ first \in ClusterSet
  BY ClusterOfOne
<1>3. /\ own.paper = p /\ own.strong = StrongKeys(p)
      /\ own.bibliographic = {BibliographicKey(p)}
      /\ first.paper = p /\ first.strong = {} /\ first.bibliographic = {}
  BY DEF Cluster
<1>4. Join(C, p, n) = IF found = {} THEN C \cup {own}
                      ELSE (C \ found) \cup {MergeClusters(MergeAll(first, found), own)}
  BY DEF Join
<1>5. CASE found = {}
  <2>1. Gathers(own, p, {})
    BY <1>3 DEF Gathers, Likes
  <2>2. Join(C, p, n) = (C \ {}) \cup {own}
    BY <1>4, <1>5
  <2> HIDE DEF own
  <2> QED BY <1>5, <2>1, <2>2
<1>6. CASE found # {}
  <2> HIDE DEF own, first, found
  <2>1. <<{}, first>> \in Good
    BY <1>2, <1>3 DEF Likes
  <2>2. ASSUME NEW S \in SUBSET found, NEW c \in S, NEW m \in ClusterSet,
               <<S \ {c}, m>> \in Good
        PROVE  <<S, MergeClusters(m, c)>> \in Good
    <3> DEFINE new == MergeClusters(m, c)
    <3>1. c \in ClusterSet
      BY <1>1
    <3>2. /\ m.strong = UNION {d.strong : d \in S \ {c}}
          /\ m.bibliographic = UNION {d.bibliographic : d \in S \ {c}}
          /\ m.paper.categories = p.categories \cup UNION {d.paper.categories : d \in S \ {c}}
          /\ likes(m, S \ {c})
      BY <2>2
    <3>3. /\ new \in ClusterSet
          /\ new.strong = m.strong \cup c.strong
          /\ new.bibliographic = m.bibliographic \cup c.bibliographic
          /\ new.paper.categories = m.paper.categories \cup c.paper.categories
          /\ IF Before(PreferenceKey(c.paper), PreferenceKey(m.paper))
             THEN Likes(new.paper, c.paper)
             ELSE Likes(new.paper, m.paper)
      BY <3>1, MergedClusters, MergedClustersLike
    <3> HIDE DEF new
    <3>4. new.strong = UNION {d.strong : d \in S}
      BY <3>2, <3>3
    <3>5. new.bibliographic = UNION {d.bibliographic : d \in S}
      BY <3>2, <3>3
    <3>6. new.paper.categories = p.categories \cup UNION {d.paper.categories : d \in S}
      BY <3>2, <3>3
    <3>7. likes(new, S)
      <4>1. CASE ~Before(PreferenceKey(c.paper), PreferenceKey(m.paper))
        BY <3>2, <3>3, <4>1 DEF Likes
      <4>2. CASE Before(PreferenceKey(c.paper), PreferenceKey(m.paper))
        <5>1. Likes(new.paper, c.paper)
          BY <3>3, <4>2
        <5>2. CASE Likes(m.paper, p)
          BY <4>2, <5>1, <5>2 DEF Likes
        <5>3. CASE \E d \in S \ {c} : /\ Likes(m.paper, d.paper)
                                      /\ Before(PreferenceKey(d.paper), PreferenceKey(p))
          <6>1. PICK d \in S \ {c} : /\ Likes(m.paper, d.paper)
                                     /\ Before(PreferenceKey(d.paper), PreferenceKey(p))
            BY <5>3
          <6>2. Before(PreferenceKey(c.paper), PreferenceKey(d.paper))
            BY <4>2, <6>1 DEF Likes
          <6>3. c.paper \in Entries /\ d.paper \in Entries
            BY <1>1, <6>1 DEF ClusterSet
          <6>4. /\ PreferenceKey(c.paper) \in [1 .. 4 -> Nat]
                /\ PreferenceKey(d.paper) \in [1 .. 4 -> Nat]
                /\ PreferenceKey(p) \in [1 .. 4 -> Nat]
            BY <6>3, EntryFacts
          <6>5. Before(PreferenceKey(c.paper), PreferenceKey(p))
            BY <6>1, <6>2, <6>4, BeforeTransitive
          <6> QED BY <5>1, <6>5
        <5> QED BY <3>2, <5>2, <5>3
      <4> QED BY <4>1, <4>2
    <3> HIDE DEF likes
    <3> QED BY <3>3, <3>4, <3>5, <3>6, <3>7 DEF new
  <2>3. <<found, MergeAll(first, found)>> \in Good /\ MergeAll(first, found) \in ClusterSet
    <3> HIDE DEF Good
    <3> QED BY <1>1, <1>2, <2>1, <2>2, MergingKeeps
  <2> DEFINE joined == MergeAll(first, found)
             new == MergeClusters(joined, own)
  <2>4. /\ joined \in ClusterSet
        /\ joined.strong = UNION {c.strong : c \in found}
        /\ joined.bibliographic = UNION {c.bibliographic : c \in found}
        /\ joined.paper.categories = p.categories \cup UNION {c.paper.categories : c \in found}
        /\ likes(joined, found)
    BY <2>3
  <2> HIDE DEF joined
  <2>5. /\ new.strong = joined.strong \cup own.strong
        /\ new.bibliographic = joined.bibliographic \cup own.bibliographic
        /\ new.paper.categories = joined.paper.categories \cup own.paper.categories
        /\ IF Before(PreferenceKey(own.paper), PreferenceKey(joined.paper))
           THEN Likes(new.paper, own.paper)
           ELSE Likes(new.paper, joined.paper)
    BY <1>2, <2>4, MergedClustersLike
  <2>6. Join(C, p, n) = (C \ found) \cup {new}
    BY <1>4, <1>6 DEF joined
  <2> HIDE DEF new
  <2>7. \/ Likes(new.paper, p)
        \/ \E c \in found : /\ Likes(new.paper, c.paper)
                            /\ Before(PreferenceKey(c.paper), PreferenceKey(p))
    BY <1>3, <2>4, <2>5 DEF Likes
  <2>8. Gathers(new, p, found)
    <3>1. new.strong = StrongKeys(p) \cup UNION {c.strong : c \in found}
      BY <1>3, <2>4, <2>5
    <3>2. new.bibliographic = {BibliographicKey(p)} \cup UNION {c.bibliographic : c \in found}
      BY <1>3, <2>4, <2>5
    <3>3. new.paper.categories = p.categories \cup UNION {c.paper.categories : c \in found}
      BY <1>3, <2>4, <2>5
    <3> QED BY <2>7, <3>1, <3>2, <3>3 DEF Gathers
  <2> QED BY <2>6, <2>8 DEF found
<1> HIDE DEF own, found
<1> QED BY <1>5, <1>6

\* The clusters after some papers have the categories of these and no others, and of the
\* papers that would give a cluster its name the last in order gives its title.
Meets(p, c) == StrongKeys(p) \subseteq c.strong /\ BibliographicKey(p) \in c.bibliographic

Follows(p, q) ==
  StrongKeys(p) # {} /\ PreferenceKey(p) = PreferenceKey(q) =>
    ~Before(BibliographicKey(q), BibliographicKey(p))

ClustersGather(C, papers) ==
  /\ \A c \in C : \A k \in c.paper.categories : \E p \in papers : k \in p.categories /\ Meets(p, c)
  /\ \A p \in papers : \E c \in C : p.categories \subseteq c.paper.categories /\ Meets(p, c)
  /\ \A c \in C : \A p \in papers : Follows(p, c.paper)

LEMMA LaterTitle ==
  ASSUME NEW p \in Entries, NEW q \in Entries, ~Before(ProcessingKey(p), ProcessingKey(q)),
         PreferenceKey(p) = PreferenceKey(q)
  PROVE  ~Before(BibliographicKey(p), BibliographicKey(q))
<1> DEFINE a == ProcessingKey(p)
           b == ProcessingKey(q)
<1>1. /\ DOMAIN a = 1 .. 6 /\ a[5] = p.title /\ a[6] = p.published
      /\ b[5] = q.title /\ b[6] = q.published
      /\ \A i \in 1 .. 4 : a[i] = PreferenceKey(p)[i] /\ b[i] = PreferenceKey(q)[i]
  BY DEF ProcessingKey, PreferenceKey
<1> HIDE DEF a, b
<1>2. \A i \in 1 .. 4 : a[i] = b[i]
  BY <1>1
<1>3. ASSUME p.title < q.title PROVE FALSE
  <2>1. 5 \in DOMAIN a /\ a[5] < b[5] /\ \A j \in 1 .. 5 - 1 : a[j] = b[j]
    BY <1>1, <1>2, <1>3
  <2>2. Before(a, b)
    BY <2>1 DEF Before
  <2> QED BY <2>2 DEF a, b
<1>4. ASSUME p.title = q.title, p.published < q.published PROVE FALSE
  <2>1. 6 \in DOMAIN a /\ a[6] < b[6] /\ \A j \in 1 .. 6 - 1 : a[j] = b[j]
    BY <1>1, <1>2, <1>4
  <2>2. Before(a, b)
    BY <2>1 DEF Before
  <2> QED BY <2>2 DEF a, b
<1> SUFFICES ASSUME Before(BibliographicKey(p), BibliographicKey(q)) PROVE FALSE
  OBVIOUS
<1> DEFINE s == BibliographicKey(p)
           u == BibliographicKey(q)
<1>5. /\ DOMAIN s = 1 .. 2 /\ s[1] = p.title /\ s[2] = p.published
      /\ u[1] = q.title /\ u[2] = q.published
  BY DEF BibliographicKey
<1> HIDE DEF s, u
<1>6. PICK i \in 1 .. 2 : s[i] < u[i] /\ \A j \in 1 .. i - 1 : s[j] = u[j]
  BY <1>5 DEF Before, s, u
<1>7. CASE i = 1
  BY <1>3, <1>5, <1>6, <1>7
<1>8. CASE i = 2
  <2>1. 1 \in 1 .. i - 1
    BY <1>8
  <2> QED BY <1>4, <1>5, <1>6, <1>8, <2>1
<1> QED BY <1>6, <1>7, <1>8

LEMMA NotBeforeItself ==
  ASSUME NEW p \in Entries
  PROVE  /\ ~Before(PreferenceKey(p), PreferenceKey(p))
         /\ ~Before(BibliographicKey(p), BibliographicKey(p))
<1>1. PreferenceKey(p) \in [1 .. 4 -> Nat]
  BY EntryFacts
<1>2. BibliographicKey(p) \in [1 .. 2 -> Nat]
  BY DEF Entries, BibliographicKey
<1> QED BY <1>1, <1>2, BeforeIrreflexive

\* Papers of one preference that have IDs share one: it is their name.
LEMMA NameIsShared ==
  ASSUME NEW p \in Entries, NEW q \in Entries, PreferenceKey(p) = PreferenceKey(q),
         StrongKeys(p) # {}
  PROVE  SharesIDs(p, q)
<1>1. p.identifier = q.identifier
  BY NotBeforeItself, SamePreference
<1>2. StrongPriority(p) = StrongPriority(q)
  <2>1. PreferenceKey(p)[1] = StrongPriority(p) /\ PreferenceKey(q)[1] = StrongPriority(q)
    BY DEF PreferenceKey
  <2> QED BY <2>1
<1>3. CASE p.arxiv_id # 0
  <2>1. q.arxiv_id # 0
    BY <1>2, <1>3 DEF StrongPriority
  <2>2. p.arxiv_id = q.arxiv_id
    <3>1. p.identifier[2] = p.arxiv_id /\ q.identifier[2] = q.arxiv_id
      BY <1>3, <2>1 DEF Entries
    <3> QED BY <1>1, <3>1
  <2>3. <<"arxiv", NumberOf(p.arxiv_id)>> \in StrongKeys(p) \cap StrongKeys(q)
    BY <1>3, <2>2 DEF StrongKeys
  <2> QED BY <2>3 DEF SharesIDs
<1>4. CASE p.arxiv_id = 0
  <2>1. p.doi # 0
    BY <1>4 DEF StrongKeys
  <2>2. q.arxiv_id = 0 /\ q.doi # 0
    BY <1>2, <1>4, <2>1 DEF StrongPriority
  <2>3. p.doi = q.doi
    <3>1. p.identifier[2] = p.doi /\ q.identifier[2] = q.doi
      BY <1>4, <2>1, <2>2 DEF Entries
    <3> QED BY <1>1, <3>1
  <2>4. <<"doi", p.doi>> \in StrongKeys(p) \cap StrongKeys(q)
    BY <2>1, <2>3 DEF StrongKeys
  <2> QED BY <2>4 DEF SharesIDs
<1> QED BY <1>3, <1>4

LEMMA JoinKeepsGathered ==
  ASSUME NEW C \in ClusterSets, NEW papers \in SUBSET Entries, NEW p \in papers, NEW n \in Nat,
         \A q \in papers : ~Before(ProcessingKey(p), ProcessingKey(q)),
         Finds(C, p, Candidates(C, p)), \A c \in C : c.strong = StrongKeys(c.paper),
         ClustersGather(C, papers \ {p})
  PROVE  ClustersGather(Join(C, p, n), papers)
<1> DEFINE found == Candidates(C, p)
           before == papers \ {p}
<1>1. PICK new : Gathers(new, p, found) /\ Join(C, p, n) = (C \ found) \cup {new}
  BY JoinGathers
<1> DEFINE joined == (C \ found) \cup {new}
<1>2. found \subseteq C
  BY CandidatesFound
<1>3. \A c \in C : c \in ClusterSet /\ c.paper \in Entries
  BY DEF ClusterSets, ClusterSet
<1> HIDE DEF found
<1>4. /\ Meets(p, new) /\ p.categories \subseteq new.paper.categories
      /\ \A c \in found : /\ c.paper.categories \subseteq new.paper.categories
                         /\ \A q : Meets(q, c) => Meets(q, new)
  BY <1>1 DEF Gathers, Meets
<1>5. ASSUME NEW c \in joined, NEW k \in c.paper.categories
      PROVE  \E q \in papers : k \in q.categories /\ Meets(q, c)
  <2>1. CASE c \in C \ found
    BY <2>1 DEF ClustersGather
  <2>2. CASE c = new
    <3>1. CASE k \in p.categories
      BY <1>4, <2>2, <3>1
    <3>2. CASE \E d \in found : k \in d.paper.categories
      <4>1. PICK d \in found : k \in d.paper.categories
        BY <3>2
      <4>2. PICK q \in before : k \in q.categories /\ Meets(q, d)
        BY <1>2, <4>1 DEF ClustersGather
      <4> QED BY <1>4, <2>2, <4>1, <4>2
    <3> QED BY <1>1, <2>2, <3>1, <3>2 DEF Gathers
  <2> QED BY <2>1, <2>2
<1>6. ASSUME NEW q \in papers
      PROVE  \E c \in joined : q.categories \subseteq c.paper.categories /\ Meets(q, c)
  <2>1. CASE q = p
    BY <1>4, <2>1
  <2>2. CASE q # p
    <3>1. PICK c \in C : q.categories \subseteq c.paper.categories /\ Meets(q, c)
      BY <2>2 DEF ClustersGather
    <3>2. CASE c \in found
      <4>1. q.categories \subseteq new.paper.categories /\ Meets(q, new)
        BY <1>4, <3>1, <3>2
      <4> QED BY <4>1
    <3>3. CASE c \notin found
      BY <3>1, <3>3
    <3> QED BY <3>2, <3>3
  <2> QED BY <2>1, <2>2
<1>7. ASSUME NEW c \in joined, NEW q \in papers PROVE Follows(q, c.paper)
  <2>1. CASE c \in C \ found
    <3>1. CASE q # p
      BY <2>1, <3>1 DEF ClustersGather
    <3>2. CASE q = p
      <4> SUFFICES ASSUME StrongKeys(p) # {}, PreferenceKey(p) = PreferenceKey(c.paper)
                   PROVE  ~Before(BibliographicKey(c.paper), BibliographicKey(p))
        BY <3>2 DEF Follows
      <4>1. SharesIDs(p, c.paper)
        BY <1>3, <2>1, NameIsShared
      <4>2. c \in found
        BY <2>1, <4>1 DEF Finds, SharesIDs, found
      <4> QED BY <2>1, <4>2
    <3> QED BY <3>1, <3>2
  <2>2. CASE c = new
    <3>1. CASE Likes(new.paper, p)
      <4>1. q \in Entries /\ p \in Entries /\ ~Before(ProcessingKey(p), ProcessingKey(q))
        OBVIOUS
      <4>2. PreferenceKey(p) = PreferenceKey(q) => ~Before(BibliographicKey(p), BibliographicKey(q))
        BY <4>1, LaterTitle
      <4> QED BY <2>2, <3>1, <4>2 DEF Follows, Likes
    <3>2. CASE \E d \in found : /\ Likes(new.paper, d.paper)
                                /\ Before(PreferenceKey(d.paper), PreferenceKey(p))
      <4>1. PICK d \in found : /\ Likes(new.paper, d.paper)
                               /\ Before(PreferenceKey(d.paper), PreferenceKey(p))
        BY <3>2
      <4>2. CASE q = p
        <5>1. PreferenceKey(p) # PreferenceKey(d.paper)
          BY <4>1, NotBeforeItself
        <5> QED BY <2>2, <4>1, <4>2, <5>1 DEF Follows, Likes
      <4>3. CASE q # p
        <5>1. Follows(q, d.paper)
          BY <1>2, <4>1, <4>3 DEF ClustersGather
        <5> QED BY <2>2, <4>1, <5>1 DEF Follows, Likes
      <4> QED BY <4>2, <4>3
    <3> QED BY <1>1, <3>1, <3>2 DEF Gathers
  <2> QED BY <2>1, <2>2
<1> HIDE DEF joined
<1>8. ClustersGather(joined, papers)
  BY <1>5, <1>6, <1>7 DEF ClustersGather
<1> QED BY <1>1, <1>8 DEF joined

-----------------------------------------------------------------------------
(***************************************************************************)
(* Rows that fit the papers so far, before the loop and after it.          *)
(***************************************************************************)
Fits(rows, papers) ==
  /\ \A q \in rows : Stands(q, Group(q, papers))
  /\ \A q, r \in rows : q # r =>
       ~SharesIDs(q, r) /\ (StrongKeys(q) = {} => BibliographicKey(q) # BibliographicKey(r))
  /\ \A p \in papers : StrongKeys(p) # {} => \E q \in rows : StrongKeys(p) \subseteq StrongKeys(q)
  /\ \A p \in papers : StrongKeys(p) = {} =>
       \E q \in rows : BibliographicKey(q) = BibliographicKey(p)

LEMMA ClustersGiveRows ==
  ASSUME NEW C, NEW papers, ClustersFit(C, papers)
  PROVE  Fits({c.paper : c \in C}, papers)
<1> DEFINE rows == {c.paper : c \in C}
<1>1. \A c \in C : c.strong = StrongKeys(c.paper) /\ Stands(c.paper, Group(c.paper, papers))
  BY DEF ClustersFit, ClusterFits
<1>2. ASSUME NEW q \in rows, NEW r \in rows, q # r
      PROVE  ~SharesIDs(q, r) /\ (StrongKeys(q) = {} => BibliographicKey(q) # BibliographicKey(r))
  <2>1. PICK c \in C : q = c.paper
    OBVIOUS
  <2>2. PICK d \in C : r = d.paper
    OBVIOUS
  <2>3. Separate(c, d)
    BY <1>2, <2>1, <2>2 DEF ClustersFit
  <2> QED BY <1>1, <2>1, <2>2, <2>3 DEF Separate, SharesIDs
<1>3. ASSUME NEW p \in papers, StrongKeys(p) # {}
      PROVE  \E q \in rows : StrongKeys(p) \subseteq StrongKeys(q)
  <2>1. PICK c \in C : StrongKeys(p) \subseteq c.strong
    BY <1>3 DEF ClustersFit
  <2> QED BY <1>1, <2>1
<1>4. ASSUME NEW p \in papers, StrongKeys(p) = {}
      PROVE  \E q \in rows : BibliographicKey(q) = BibliographicKey(p)
  <2>1. PICK c \in C : BibliographicKey(c.paper) = BibliographicKey(p)
    BY <1>4 DEF ClustersFit
  <2> QED BY <2>1
<1>5. \A q \in rows : Stands(q, Group(q, papers))
  BY <1>1
<1> HIDE DEF rows
<1>6. Fits(rows, papers)
  BY <1>2, <1>3, <1>4, <1>5 DEF Fits
<1> QED BY <1>6 DEF rows

\* A paper with IDs is in the group of a row, and the row has its title, if that matters.
LEMMA RowOfPaper ==
  ASSUME TitlesAgree, NEW rows, NEW papers, Fits(rows, papers),
         NEW p \in papers, StrongKeys(p) # {}
  PROVE  \E q \in rows :
           /\ StrongKeys(p) \subseteq StrongKeys(q) /\ StrongKeys(q) # {}
           /\ p \in Group(q, papers)
           /\ BibliographicKey(p) \in LooseTitles => BibliographicKey(q) = BibliographicKey(p)
<1>1. PICK q \in rows : StrongKeys(p) \subseteq StrongKeys(q)
  BY DEF Fits
<1>2. StrongKeys(q) # {} /\ p \in Group(q, papers)
  BY <1>1 DEF Group, SharesIDs
<1>3. /\ Stands(q, Group(q, papers)) /\ Group(q, papers) \in SUBSET Listed
      /\ Linked(Group(q, papers))
  BY <1>2 DEF Fits, Stands
<1>4. PICK best \in Group(q, papers) : BibliographicKey(q) = BibliographicKey(best)
  BY <1>3 DEF Stands, Represents, Likens
<1>5. BibliographicKey(p) \in LooseTitles => BibliographicKey(best) = BibliographicKey(p)
  BY <1>2, <1>3, <1>4, LinkedAgree
<1> QED BY <1>1, <1>2, <1>4, <1>5

\* A paper without IDs needs no row where one with IDs has its title.
LEMMA LoosePapersFit ==
  ASSUME TitlesAgree, NEW rows, NEW papers, Fits(rows, papers),
         NEW more, papers \subseteq more, more \subseteq Listed,
         \A p \in more \ papers : /\ StrongKeys(p) = {}
                                  /\ \E r \in papers : /\ StrongKeys(r) # {}
                                                       /\ BibliographicKey(r) = BibliographicKey(p)
  PROVE  Fits(rows, more)
<1>1. ASSUME NEW p \in more \ papers
      PROVE  \E q \in rows : StrongKeys(q) # {} /\ BibliographicKey(q) = BibliographicKey(p)
  <2>1. BibliographicKey(p) \in LooseTitles
    BY DEF LooseTitles
  <2>2. PICK r \in papers : StrongKeys(r) # {} /\ BibliographicKey(r) = BibliographicKey(p)
    OBVIOUS
  <2>3. \E q \in rows : StrongKeys(q) # {} /\ BibliographicKey(q) = BibliographicKey(r)
    BY <2>1, <2>2, RowOfPaper
  <2> QED BY <2>2, <2>3
<1>2. ASSUME NEW q \in rows PROVE Group(q, more) = Group(q, papers)
  <2>1. CASE StrongKeys(q) # {}
    BY <2>1 DEF Group, SharesIDs
  <2>2. CASE StrongKeys(q) = {}
    <3>1. ASSUME NEW p \in more \ papers PROVE BibliographicKey(p) # BibliographicKey(q)
      BY <1>1, <2>2 DEF Fits
    <3> QED BY <2>2, <3>1 DEF Group
  <2> QED BY <2>1, <2>2
<1>3. \A p \in more :
        StrongKeys(p) = {} => \E q \in rows : BibliographicKey(q) = BibliographicKey(p)
  BY <1>1 DEF Fits
<1>4. \A p \in more : StrongKeys(p) # {} => p \in papers
  OBVIOUS
<1> QED BY <1>2, <1>3, <1>4 DEF Fits

LEMMA ListedStands ==
  ASSUME NEW p \in Listed
  PROVE  Stands(p, {p})
<1>1. Represents(p, {p}) /\ Linked({p})
  BY ListedFacts, RepresentsItself, LinkedAlone
<1> QED BY <1>1 DEF Stands

LEMMA StandsForItselfToo ==
  ASSUME NEW p \in Listed, NEW papers, Stands(p, papers)
  PROVE  Stands(p, papers \cup {p})
<1>1. p \in Entries /\ papers \in SUBSET Entries /\ Represents(p, papers)
  BY ListedFacts DEF Stands
<1>2. Represents(p, papers \cup {p})
  <2>1. PICK best \in papers : IsBest(best, papers) /\ Likens(p, best)
    BY <1>1 DEF Represents
  <2>2. ~Before(PreferenceKey(p), PreferenceKey(best))
    <3>1. PreferenceKey(p) = PreferenceKey(best) /\ PreferenceKey(p) \in [1 .. 4 -> Nat]
      BY <1>1, <2>1, LikePreference, EntryFacts
    <3> QED BY <3>1, BeforeIrreflexive
  <2>3. IsBest(best, papers \cup {p})
    BY <2>1, <2>2 DEF IsBest
  <2>4. StrongKeys(p) = UNION {StrongKeys(q) : q \in papers \cup {p}}
    BY <1>1 DEF Represents
  <2> QED BY <2>1, <2>3, <2>4 DEF Represents
<1>3. ASSUME StrongKeys(p) # {} PROVE Linked(papers \cup {p})
  <2>1. Linked(papers) /\ papers # {}
    BY <1>3 DEF Stands, Represents
  <2>2. PICK q \in papers : StrongKeys(q) # {} /\ StrongKeys(q) \subseteq StrongKeys(p)
    BY <1>3 DEF Stands, Represents
  <2>3. SharesIDs(q, p)
    BY <2>2 DEF SharesIDs
  <2> DEFINE others == {{p}}
  <2>4. \A other \in others :
          /\ Linked(other)
          /\ \E r \in papers : \E s \in other : SharesIDs(r, s)
    BY <2>3, LinkedAlone
  <2>5. papers \cup {p} = papers \cup UNION others
    OBVIOUS
  <2> HIDE DEF others
  <2> QED BY <2>1, <2>4, <2>5, LinkedTogether
<1> QED BY <1>2, <1>3 DEF Stands

-----------------------------------------------------------------------------
(***************************************************************************)
(* Where the IDs agree, those of a work are one of each kind.              *)
(***************************************************************************)
LEMMA OneWorkOneOfEach ==
  ASSUME IDsAgree, NEW keys, OneWork(keys),
         \A key \in keys : \E p \in Entries : key \in StrongKeys(p)
  PROVE  OneOfEach(keys)
<1>1. ASSUME NEW key \in keys
      PROVE  \/ \E n : key = <<"arxiv", n>> /\ Work(key) = key
             \/ \E doi : /\ doi # 0 /\ key = <<"doi", doi>>
                         /\ \/ Work(key) = key
                            \/ \E p \in Listed :
                                 /\ p.doi = doi /\ p.arxiv_id # 0
                                 /\ Work(key) = <<"arxiv", NumberOf(p.arxiv_id)>>
  <2>1. PICK p \in Entries : key \in StrongKeys(p)
    OBVIOUS
  <2>2. \/ key = <<"arxiv", NumberOf(p.arxiv_id)>>
        \/ p.doi # 0 /\ key = <<"doi", p.doi>>
    BY <2>1 DEF StrongKeys
  <2>3. CASE key = <<"arxiv", NumberOf(p.arxiv_id)>>
    <3>1. key[1] = "arxiv"
      BY <2>3
    <3>2. Work(key) = key
      BY <3>1 DEF Work
    <3> QED BY <2>3, <3>2
  <2>4. CASE p.doi # 0 /\ key = <<"doi", p.doi>>
    <3>1. key[1] = "doi" /\ key[2] = p.doi
      BY <2>4
    <3>2. CASE \E q \in Listed : GivenWith(p.doi, q)
      <4> DEFINE q == CHOOSE r \in Listed : GivenWith(p.doi, r)
      <4>1. q \in Listed /\ GivenWith(p.doi, q)
        BY <3>2, Zenon
      <4>2. Work(key) = <<"arxiv", NumberOf(q.arxiv_id)>>
        BY <3>1, <3>2 DEF Work
      <4> HIDE DEF q
      <4> QED BY <2>4, <4>1, <4>2 DEF GivenWith
    <3>3. CASE ~\E q \in Listed : GivenWith(p.doi, q)
      <4>1. Work(key) = key
        BY <3>1, <3>3 DEF Work
      <4> QED BY <2>4, <4>1
    <3> QED BY <3>2, <3>3
  <2> QED BY <2>2, <2>3, <2>4
<1>2. ASSUME NEW p \in Listed, NEW q \in Listed, p.arxiv_id # 0, q.arxiv_id # 0,
             NumberOf(p.arxiv_id) = NumberOf(q.arxiv_id), p.doi # 0, q.doi # 0
      PROVE  p.doi = q.doi
  <2>1. /\ <<"arxiv", NumberOf(p.arxiv_id)>> \in StrongKeys(p)
        /\ <<"arxiv", NumberOf(p.arxiv_id)>> \in StrongKeys(q)
    BY <1>2, NumberIsKey
  <2>2. SharesIDs(p, q)
    BY <2>1 DEF SharesIDs
  <2>3. OneOfEach(StrongKeys(p) \cup StrongKeys(q))
    BY <2>2 DEF IDsAgree
  <2>4. <<"doi", p.doi>> \in StrongKeys(p) /\ <<"doi", q.doi>> \in StrongKeys(q)
    BY <1>2 DEF StrongKeys
  <2>5. <<"doi", p.doi>> = <<"doi", q.doi>>
    BY <2>3, <2>4 DEF OneOfEach
  <2> QED BY <2>5
<1> SUFFICES ASSUME NEW k \in keys, NEW l \in keys, k[1] = l[1] PROVE k = l
  BY DEF OneOfEach
<1>3. Work(k) = Work(l)
  BY DEF OneWork
<1>4. CASE \E n : k = <<"arxiv", n>> /\ Work(k) = k
  <2>1. \E n : l = <<"arxiv", n>> /\ Work(l) = l
    BY <1>1, <1>4
  <2> QED BY <1>3, <1>4, <2>1
<1>5. CASE \E doi : k = <<"doi", doi>>
  <2>1. PICK d : /\ d # 0 /\ k = <<"doi", d>>
                 /\ \/ Work(k) = k
                    \/ \E p \in Listed : /\ p.doi = d /\ p.arxiv_id # 0
                                         /\ Work(k) = <<"arxiv", NumberOf(p.arxiv_id)>>
    BY <1>1, <1>5
  <2>2. PICK e : /\ e # 0 /\ l = <<"doi", e>>
                 /\ \/ Work(l) = l
                    \/ \E p \in Listed : /\ p.doi = e /\ p.arxiv_id # 0
                                         /\ Work(l) = <<"arxiv", NumberOf(p.arxiv_id)>>
    BY <1>1, <1>5
  <2>3. CASE Work(k) = k
    BY <1>3, <2>1, <2>2, <2>3
  <2>4. CASE Work(l) = l
    BY <1>3, <2>1, <2>2, <2>4
  <2>5. CASE Work(k) # k /\ Work(l) # l
    <3>1. PICK p \in Listed : /\ p.doi = d /\ p.arxiv_id # 0
                              /\ Work(k) = <<"arxiv", NumberOf(p.arxiv_id)>>
      BY <2>1, <2>5
    <3>2. PICK q \in Listed : /\ q.doi = e /\ q.arxiv_id # 0
                              /\ Work(l) = <<"arxiv", NumberOf(q.arxiv_id)>>
      BY <2>2, <2>5
    <3>3. NumberOf(p.arxiv_id) = NumberOf(q.arxiv_id)
      <4>1. <<"arxiv", NumberOf(p.arxiv_id)>> = <<"arxiv", NumberOf(q.arxiv_id)>>
        BY <1>3, <3>1, <3>2
      <4> QED BY <4>1
    <3>4. p.doi = q.doi
      <4>1. p.doi # 0 /\ q.doi # 0 /\ p.arxiv_id # 0 /\ q.arxiv_id # 0
        BY <2>1, <2>2, <3>1, <3>2
      <4> QED BY <1>2, <3>3, <4>1
    <3> QED BY <2>1, <2>2, <3>1, <3>2, <3>4
  <2> QED BY <2>3, <2>4, <2>5
<1> QED BY <1>1, <1>4, <1>5

\* What an entry brings to the loop: a row the papers of its group, a record itself.
Brings(x, rows, accepts, papers) ==
  IF x \in rows THEN Group(x, accepts) \cup ({x} \cap papers) ELSE {x}

LEMMA BringsStand ==
  ASSUME NEW rows, NEW accepts, NEW papers \in SUBSET Listed, Fits(rows, accepts),
         NEW x \in rows \cup papers
  PROVE  Stands(x, Brings(x, rows, accepts, papers))
<1>1. CASE x \in rows /\ x \in papers
  <2>1. Stands(x, Group(x, accepts) \cup {x})
    BY <1>1, StandsForItselfToo DEF Fits
  <2>2. Brings(x, rows, accepts, papers) = Group(x, accepts) \cup {x}
    BY <1>1 DEF Brings
  <2> QED BY <2>1, <2>2
<1>2. CASE x \in rows /\ x \notin papers
  <2>1. Brings(x, rows, accepts, papers) = Group(x, accepts)
    BY <1>2 DEF Brings
  <2> QED BY <1>2, <2>1 DEF Fits
<1>3. CASE x \notin rows
  <2>1. Brings(x, rows, accepts, papers) = {x} /\ x \in Listed
    BY <1>3 DEF Brings
  <2> QED BY <2>1, ListedStands
<1> QED BY <1>1, <1>2, <1>3

\* The papers so far, and those of the run, but for some without IDs.
LEMMA BroughtAreAll ==
  ASSUME NEW rows, NEW accepts \in SUBSET Listed, NEW papers \in SUBSET Listed,
         Fits(rows, accepts)
  PROVE  LET brought == UNION {Brings(x, rows, accepts, papers) : x \in rows \cup papers} IN
         /\ brought \subseteq accepts \cup papers
         /\ \A p \in (accepts \cup papers) \ brought :
              /\ StrongKeys(p) = {}
              /\ \E r \in brought : StrongKeys(r) # {} /\ BibliographicKey(r) = BibliographicKey(p)
<1> DEFINE brought == UNION {Brings(x, rows, accepts, papers) : x \in rows \cup papers}
<1>1. \A q : Group(q, accepts) \subseteq accepts
  BY DEF Group
<1>2. brought \subseteq accepts \cup papers
  BY <1>1 DEF Brings
<1>3. \A q \in rows : Group(q, accepts) \subseteq brought
  BY DEF Brings
<1>4. papers \subseteq brought
  BY DEF Brings
<1> HIDE DEF brought
<1>5. ASSUME NEW p \in (accepts \cup papers) \ brought
      PROVE  /\ StrongKeys(p) = {}
             /\ \E r \in brought : StrongKeys(r) # {} /\ BibliographicKey(r) = BibliographicKey(p)
  <2>1. p \in accepts
    BY <1>4
  <2>2. StrongKeys(p) = {}
    <3> SUFFICES ASSUME StrongKeys(p) # {} PROVE FALSE
      OBVIOUS
    <3>1. PICK q \in rows : StrongKeys(p) \subseteq StrongKeys(q)
      BY <2>1 DEF Fits
    <3>2. p \in Group(q, accepts)
      BY <2>1, <3>1 DEF Group, SharesIDs
    <3> QED BY <1>3, <3>2
  <2>3. PICK q \in rows : BibliographicKey(q) = BibliographicKey(p)
    BY <2>1, <2>2 DEF Fits
  <2>4. StrongKeys(q) # {}
    <3>1. StrongKeys(q) = {} => p \in Group(q, accepts)
      BY <2>1, <2>2, <2>3 DEF Group
    <3> QED BY <1>3, <3>1
  <2>5. PICK r \in Group(q, accepts) : BibliographicKey(q) = BibliographicKey(r)
    BY DEF Fits, Stands, Represents, Likens
  <2>6. StrongKeys(r) # {}
    BY <2>4, <2>5 DEF Fits, Stands
  <2> QED BY <1>3, <2>2, <2>3, <2>5, <2>6
<1> QED BY <1>2, <1>5 DEF brought

LEMMA LoopFits ==
  ASSUME IDsAgree, TitlesAgree,
         NEW rows \in SUBSET Entries, NEW accepts \in SUBSET Listed,
         NEW papers \in SUBSET Listed, IsFiniteSet(rows \cup papers),
         \A p \in rows \cup papers : OneWork(StrongKeys(p)), Fits(rows, accepts)
  PROVE  LET all == rows \cup papers
             clusters == Clusters(rows, all)
         IN  /\ clusters \in ClusterSets
             /\ ClustersFit(clusters, UNION {Brings(x, rows, accepts, papers) : x \in all})
             /\ ClustersGather(clusters, all)
<1> DEFINE all == rows \cup papers
           brings(x) == Brings(x, rows, accepts, papers)
           brought(S) == UNION {brings(x) : x \in S}
           Good == {w \in (SUBSET all) \X ClusterSets :
                      /\ WorksApart(w[1], w[2])
                      /\ ClustersFit(w[2], brought(w[1])) /\ ClustersGather(w[2], w[1])}
<1>1. all \in SUBSET Entries /\ IsFiniteSet(all)
  BY ListedFacts
<1>2. \A x \in all : Stands(x, brings(x))
  BY BringsStand
<1>3. \A S \in SUBSET all : brought(S) \in SUBSET Listed
  BY <1>2 DEF Stands
<1> HIDE DEF brings
<1>4. <<{}, {}>> \in Good
  <2>1. WorksApart({}, {}) /\ {} \in ClusterSets
    BY FS_EmptySet DEF ClusterSets, WorksApart
  <2>2. brought({}) = {}
    OBVIOUS
  <2>3. ClustersFit({}, brought({})) /\ ClustersGather({}, {})
    BY <2>2 DEF ClustersFit, ClustersGather
  <2> HIDE DEF brought
  <2> QED BY <2>1, <2>3
<1>5. ASSUME NEW S \in SUBSET all, NEW p \in S, NEW C \in ClusterSets,
             p = LastOf(rows, S), <<S \ {p}, C>> \in Good
      PROVE  <<S, Join(C, p, Cardinality(S))>> \in Good
  <2>1. /\ S \in SUBSET Entries /\ IsFiniteSet(S) /\ OneWork(StrongKeys(p))
        /\ p \in Entries /\ Cardinality(S) \in Nat
    BY <1>1, FS_Subset, FS_CardinalityType
  <2>2. /\ WorksApart(S \ {p}, C)
        /\ ClustersFit(C, brought(S \ {p})) /\ ClustersGather(C, S \ {p})
    BY <1>5
  <2>3. Join(C, p, Cardinality(S)) \in ClusterSets
    BY <2>1, JoinKeepsType
  <2>4. WorksApart(S, Join(C, p, Cardinality(S)))
    BY <2>1, <2>2, JoinKeepsWorksApart
  <2> DEFINE keys == StrongKeys(p) \cup UNION {c.strong : c \in Candidates(C, p)}
  <2>5. OneOfEach(keys)
    <3>1. OneWork(keys)
      BY <2>1, <2>2, FoundAreOneWork
    <3>2. \A c \in Candidates(C, p) : c.strong = StrongKeys(c.paper) /\ c.paper \in Entries
      <4> TAKE c \in Candidates(C, p)
      <4>1. c \in C
        BY CandidatesFound
      <4> QED BY <2>2, <4>1 DEF ClustersFit, ClusterFits, ClusterSets, ClusterSet
    <3>3. \A key \in keys : \E q \in Entries : key \in StrongKeys(q)
      BY <2>1, <3>2
    <3> HIDE DEF keys
    <3> QED BY <3>1, <3>3, OneWorkOneOfEach
  <2>6. \A c, d \in C : c.since = d.since => c = d
    BY <2>2 DEF WorksApart
  <2>7. brought(S \ {p}) \in SUBSET Listed /\ Stands(p, brings(p))
    BY <1>2, <1>3
  <2>8. With(brought(S \ {p}), brings(p)) = brought(S)
    BY DEF With
  <2>9. ClustersFit(Join(C, p, Cardinality(S)), brought(S))
    <3>1. ClustersFit(Join(C, p, Cardinality(S)), With(brought(S \ {p}), brings(p)))
      <4> HIDE DEF brought
      <4> QED BY <2>1, <2>2, <2>5, <2>6, <2>7, JoinFits
    <3> QED BY <2>8, <3>1
  <2>10. ClustersGather(Join(C, p, Cardinality(S)), S)
    <3>1. \A q \in S : ~Before(ProcessingKey(p), ProcessingKey(q))
      BY <1>5, <2>1, LastOfPapers
    <3>2. Finds(C, p, Candidates(C, p))
      <4> HIDE DEF brought
      <4> QED BY <2>2, <2>6, CandidatesFind
    <3>3. \A c \in C : c.strong = StrongKeys(c.paper)
      BY <2>2 DEF ClustersFit, ClusterFits
    <3> QED BY <2>1, <2>2, <3>1, <3>2, <3>3, JoinKeepsGathered
  <2> HIDE DEF brought
  <2> QED BY <2>3, <2>4, <2>9, <2>10
<1>6. <<all, Clusters(rows, all)>> \in Good
  <2> HIDE DEF Good, all
  <2> QED BY <1>1, <1>4, <1>5, LoopKeeps
<1>7. /\ Clusters(rows, all) \in ClusterSets
      /\ ClustersFit(Clusters(rows, all), brought(all))
      /\ ClustersGather(Clusters(rows, all), all)
  BY <1>6
<1> QED BY <1>7 DEF brings

LEMMA DeduplicateFits ==
  ASSUME IDsAgree, TitlesAgree,
         NEW rows \in SUBSET Entries, NEW accepts \in SUBSET Listed,
         NEW papers \in SUBSET Listed, IsFiniteSet(rows \cup papers),
         \A p \in rows \cup papers : OneWork(StrongKeys(p)), Fits(rows, accepts)
  PROVE  Fits(Deduplicate(rows, papers), accepts \cup papers)
<1> DEFINE all == rows \cup papers
           brings(x) == Brings(x, rows, accepts, papers)
           brought(S) == UNION {brings(x) : x \in S}
<1>1. ClustersFit(Clusters(rows, all), brought(all))
  BY LoopFits
<1>2. Deduplicate(rows, papers) = {c.paper : c \in Clusters(rows, all)}
  BY DEF Deduplicate
<1>3. Fits(Deduplicate(rows, papers), brought(all))
  <2> HIDE DEF brought, all
  <2> QED BY <1>1, <1>2, ClustersGiveRows
<1>4. /\ brought(all) \subseteq accepts \cup papers
       /\ \A p \in (accepts \cup papers) \ brought(all) :
            /\ StrongKeys(p) = {}
            /\ \E r \in brought(all) :
                 StrongKeys(r) # {} /\ BibliographicKey(r) = BibliographicKey(p)
  BY BroughtAreAll DEF brings
<1> DEFINE more == accepts \cup papers
<1>5. more \subseteq Listed
  OBVIOUS
<1>6. Fits(Deduplicate(rows, papers), more)
  <2>1. /\ brought(all) \subseteq more
        /\ \A p \in more \ brought(all) :
             /\ StrongKeys(p) = {}
             /\ \E r \in brought(all) :
                 StrongKeys(r) # {} /\ BibliographicKey(r) = BibliographicKey(p)
    BY <1>4
  <2> HIDE DEF brought, more, all
  <2> QED BY <1>3, <1>5, <2>1, LoosePapersFit
<1> QED BY <1>6

-----------------------------------------------------------------------------
(***************************************************************************)
(* The groups of rows that fit are the works.                              *)
(***************************************************************************)
LEMMA StrongGroupIsWork ==
  ASSUME TitlesAgree, NEW rows, NEW papers, Fits(rows, papers),
         NEW q \in rows, StrongKeys(q) # {}
  PROVE  /\ Group(q, papers) \subseteq Strong(papers)
         /\ Closed(Group(q, papers), Strong(papers))
         /\ \A part \in SUBSET papers :
              part \cap Group(q, papers) # {} /\ Closed(part, Strong(papers)) =>
                Group(q, papers) \subseteq part
<1> DEFINE group == Group(q, papers)
<1>1. Stands(q, group)
  BY DEF Fits
<1>2. group \subseteq Strong(papers)
  BY <1>1 DEF Stands, Group, Strong
<1>3. ASSUME NEW p \in group, NEW r \in Strong(papers) \ group, SharesIDs(p, r) PROVE FALSE
  <2>1. PICK s \in rows : StrongKeys(r) \subseteq StrongKeys(s) /\ r \in Group(s, papers)
    BY RowOfPaper DEF Strong
  <2>2. StrongKeys(p) \subseteq StrongKeys(q)
    BY <1>1 DEF Stands, Represents
  <2>3. SharesIDs(q, s)
    BY <1>3, <2>1, <2>2 DEF SharesIDs
  <2>4. q = s
    BY <2>3 DEF Fits
  <2> QED BY <2>1, <2>4
<1>4. group # {}
  BY <1>1 DEF Stands, Represents
<1>5. ASSUME NEW part \in SUBSET papers, part \cap group # {}, Closed(part, Strong(papers))
      PROVE  group \subseteq part
  <2>1. Closed(part \cap group, group)
    BY <1>2, <1>5 DEF Closed
  <2>2. Linked(group)
    BY <1>1 DEF Stands
  <2> HIDE DEF group
  <2>3. part \cap group = group
    BY <2>1, <2>2 DEF Linked
  <2> QED BY <2>3
<1>6. Closed(group, Strong(papers))
  BY <1>3, <1>4 DEF Closed
<1> QED BY <1>2, <1>5, <1>6

LEMMA ConnectedAreGroups ==
  ASSUME TitlesAgree, NEW rows, NEW papers, Fits(rows, papers)
  PROVE  Connected(Strong(papers)) =
           {Group(q, papers) : q \in {r \in rows : StrongKeys(r) # {}}}
<1> DEFINE closed == {group \in SUBSET Strong(papers) : Closed(group, Strong(papers))}
           groups == {Group(q, papers) : q \in {r \in rows : StrongKeys(r) # {}}}
<1>1. Connected(Strong(papers)) =
        {group \in closed : \A part \in closed : part \subseteq group => part = group}
  BY DEF Connected
<1>2. Strong(papers) \subseteq papers
  BY DEF Strong
<1>3. ASSUME NEW q \in rows, StrongKeys(q) # {}
      PROVE  /\ Group(q, papers) \in closed
             /\ \A part \in closed : part \cap Group(q, papers) # {} =>
                  Group(q, papers) \subseteq part
  BY <1>2, <1>3, StrongGroupIsWork
<1>4. \A part \in closed : part # {}
  BY DEF Closed
<1>5. ASSUME NEW group \in groups PROVE group \in Connected(Strong(papers))
  <2>1. PICK q \in rows : StrongKeys(q) # {} /\ group = Group(q, papers)
    OBVIOUS
  <2> HIDE DEF closed, groups
  <2>2. ASSUME NEW part \in closed, part \subseteq group PROVE part = group
    <3>1. part \cap group # {}
      BY <1>4, <2>2
    <3> QED BY <1>3, <2>1, <2>2, <3>1
  <2> QED BY <1>1, <1>3, <2>1, <2>2
<1>6. ASSUME NEW group \in Connected(Strong(papers)) PROVE group \in groups
  <2>1. group \in closed /\ \A part \in closed : part \subseteq group => part = group
    BY <1>1
  <2>2. PICK p \in group : p \in papers /\ StrongKeys(p) # {}
    BY <1>4, <2>1 DEF Strong
  <2>3. PICK q \in rows : StrongKeys(q) # {} /\ p \in Group(q, papers)
    BY <2>2, RowOfPaper
  <2> HIDE DEF closed
  <2>4. Group(q, papers) \subseteq group
    BY <1>3, <2>1, <2>2, <2>3
  <2>5. Group(q, papers) = group
    BY <1>3, <2>1, <2>3, <2>4
  <2> QED BY <2>3, <2>5
<1> HIDE DEF groups
<1>7. Connected(Strong(papers)) = groups
  BY <1>5, <1>6
<1> QED BY <1>7 DEF groups

LEMMA WorksAreGroups ==
  ASSUME TitlesAgree, NEW rows, NEW papers \in SUBSET Listed, Fits(rows, papers)
  PROVE  Works(papers) = {Group(q, papers) : q \in rows}
<1> DEFINE titled(p) == {q \in papers : BibliographicKey(q) = BibliographicKey(p)}
           loose == {titled(p) : p \in {q \in papers : titled(q) \cap Strong(papers) = {}}}
           looseGroups == {Group(q, papers) : q \in {r \in rows : StrongKeys(r) = {}}}
<1>1. Works(papers) = Connected(Strong(papers)) \cup loose
  BY DEF Works
<1>2. ASSUME NEW q \in rows, StrongKeys(q) = {}, NEW p \in papers,
             BibliographicKey(p) = BibliographicKey(q)
      PROVE  StrongKeys(p) = {}
  <2> SUFFICES ASSUME StrongKeys(p) # {} PROVE FALSE
    OBVIOUS
  <2>1. Stands(q, Group(q, papers))
    BY DEF Fits
  <2>2. BibliographicKey(p) \in LooseTitles
    BY <1>2, <2>1, LooseTitle
  <2>3. PICK r \in rows : StrongKeys(r) # {} /\ BibliographicKey(r) = BibliographicKey(p)
    BY <2>2, RowOfPaper
  <2> QED BY <1>2, <2>3 DEF Fits
<1>3. ASSUME NEW q \in rows, StrongKeys(q) = {}, NEW p \in papers,
             BibliographicKey(p) = BibliographicKey(q)
      PROVE  Group(q, papers) = titled(p) /\ titled(p) \cap Strong(papers) = {}
  <2>1. \A r \in titled(p) : StrongKeys(r) = {}
    BY <1>2, <1>3
  <2>2. Group(q, papers) = titled(p)
    BY <1>3, <2>1 DEF Group
  <2> QED BY <2>1, <2>2 DEF Strong
<1>4. ASSUME NEW group \in looseGroups PROVE group \in loose
  <2>1. PICK q \in rows : StrongKeys(q) = {} /\ group = Group(q, papers)
    OBVIOUS
  <2>2. PICK p \in papers : BibliographicKey(p) = BibliographicKey(q)
    BY <2>1 DEF Fits, Stands, Represents, Group
  <2> HIDE DEF titled
  <2> QED BY <1>3, <2>1, <2>2
<1>5. ASSUME NEW group \in loose PROVE group \in looseGroups
  <2>1. PICK p \in papers : group = titled(p) /\ titled(p) \cap Strong(papers) = {}
    OBVIOUS
  <2>2. StrongKeys(p) = {}
    BY <2>1 DEF Strong
  <2>3. PICK q \in rows : BibliographicKey(q) = BibliographicKey(p)
    BY <2>2 DEF Fits
  <2>4. StrongKeys(q) = {}
    <3> SUFFICES ASSUME StrongKeys(q) # {} PROVE FALSE
      OBVIOUS
    <3>1. PICK r \in Group(q, papers) : BibliographicKey(r) = BibliographicKey(q)
      BY DEF Fits, Stands, Represents, Likens
    <3>2. r \in papers /\ StrongKeys(r) # {}
      BY <3>1 DEF Group, Fits, Stands
    <3> QED BY <2>1, <2>3, <3>1, <3>2 DEF Strong
  <2> HIDE DEF titled
  <2> QED BY <1>3, <2>1, <2>3, <2>4
<1>6. loose = looseGroups
  <2> HIDE DEF loose, looseGroups
  <2> QED BY <1>4, <1>5
<1>7. Works(papers) = {Group(q, papers) : q \in {r \in rows : StrongKeys(r) # {}}} \cup looseGroups
  <2> HIDE DEF loose, looseGroups
  <2> QED BY <1>1, <1>6, ConnectedAreGroups
<1> QED BY <1>7

LEMMA GroupsDiffer ==
  ASSUME NEW rows, NEW papers, Fits(rows, papers), NEW q \in rows, NEW r \in rows,
         Group(q, papers) = Group(r, papers)
  PROVE  q = r
<1>1. Stands(q, Group(q, papers)) /\ Stands(r, Group(q, papers))
  BY DEF Fits
<1>2. PICK p \in Group(q, papers) : TRUE
  BY <1>1 DEF Stands, Represents
<1>3. CASE StrongKeys(p) # {}
  <2>1. StrongKeys(p) \subseteq StrongKeys(q) /\ StrongKeys(p) \subseteq StrongKeys(r)
    BY <1>1, <1>2 DEF Stands, Represents
  <2>2. SharesIDs(q, r)
    BY <1>3, <2>1 DEF SharesIDs
  <2> QED BY <2>2 DEF Fits
<1>4. CASE StrongKeys(p) = {}
  <2>1. StrongKeys(q) = {} /\ StrongKeys(r) = {}
    BY <1>1, <1>2, <1>4 DEF Stands
  <2>2. BibliographicKey(q) = BibliographicKey(r)
    BY <1>1, <1>2, <2>1 DEF Stands
  <2> QED BY <2>1, <2>2 DEF Fits
<1> QED BY <1>3, <1>4

LEMMA PreferredIsBest ==
  ASSUME NEW q, NEW papers \in SUBSET Entries, Represents(q, papers)
  PROVE  q.identifier = Preferred(papers).identifier /\ q.source = Preferred(papers).source
<1>1. PICK best \in papers : IsBest(best, papers) /\ Likens(q, best)
  BY DEF Represents
<1> DEFINE preferred == Preferred(papers)
<1>2. preferred \in papers /\ \A p \in papers : ~Before(PreferenceKey(p), PreferenceKey(preferred))
  <2>1. \E r \in papers : \A p \in papers : ~Before(PreferenceKey(p), PreferenceKey(r))
    BY <1>1 DEF IsBest
  <2> QED BY <2>1, Zenon DEF Preferred
<1> HIDE DEF preferred
<1>3. best.identifier = preferred.identifier /\ best.source = preferred.source
  BY <1>1, <1>2, SamePreference DEF IsBest
<1> QED BY <1>1, <1>3 DEF Likens, preferred

LEMMA FitRowsAreOnePerWork ==
  ASSUME TitlesAgree, IsFiniteSet(inventory), accepted \in SUBSET Listed,
         Fits(inventory, accepted)
  PROVE  OneEntryPerPaper
<1> DEFINE works == Works(accepted)
           group == [q \in inventory |-> Group(q, accepted)]
<1>1. works = {Group(q, accepted) : q \in inventory}
  BY WorksAreGroups
<1> HIDE DEF works
<1>2. Cardinality(inventory) = Cardinality(works)
  <2>1. group \in [inventory -> works] /\ \A w \in works : \E q \in inventory : group[q] = w
    BY <1>1
  <2>2. \A q, r \in inventory : group[q] = group[r] => q = r
    BY GroupsDiffer
  <2> HIDE DEF group
  <2>3. group \in Bijection(inventory, works)
    <3>1. group \in Injection(inventory, works)
      BY <2>1, <2>2 DEF Injection, IsInjective
    <3>2. group \in Surjection(inventory, works)
      BY <2>1 DEF Surjection
    <3> QED BY <3>1, <3>2 DEF Bijection
  <2>4. ExistsBijection(inventory, works)
    BY <2>3 DEF ExistsBijection
  <2> QED BY <2>4, FS_Bijection
<1>3. ASSUME NEW w \in works
      PROVE  \E q \in inventory :
               /\ q.identifier = Preferred(w).identifier
               /\ q.source = Preferred(w).source
               /\ StrongKeys(q) = UNION {StrongKeys(p) : p \in w}
  <2>1. PICK q \in inventory : w = Group(q, accepted)
    BY <1>1
  <2>2. Represents(q, w) /\ w \in SUBSET Entries
    BY <2>1, ListedFacts DEF Fits, Stands
  <2>3. q.identifier = Preferred(w).identifier /\ q.source = Preferred(w).source
    BY <2>2, PreferredIsBest
  <2> QED BY <2>2, <2>3 DEF Represents
<1> QED BY <1>2, <1>3 DEF OneEntryPerPaper, works

-----------------------------------------------------------------------------
(***************************************************************************)
(* The rows fit what was accepted, after every run.                        *)
(***************************************************************************)
FitInv == accepted \subseteq Listed /\ Fits(inventory, accepted)

LEMMA AgreeingIDs == IDsAgree => OneNumberPerDoi
<1> SUFFICES ASSUME IDsAgree, NEW p \in Listed, NEW q \in Listed, p.doi # 0, p.doi = q.doi,
                    p.arxiv_id # 0, q.arxiv_id # 0
             PROVE  NumberOf(p.arxiv_id) = NumberOf(q.arxiv_id)
  <2>1. ASSUME IDsAgree, NEW p \in Listed, NEW q \in Listed, p.doi # 0, p.doi = q.doi
        PROVE  OneNumber({p, q})
    BY <2>1 DEF OneNumber
  <2> QED BY <2>1 DEF OneNumberPerDoi
<1>1. <<"doi", p.doi>> \in StrongKeys(p) /\ <<"doi", p.doi>> \in StrongKeys(q)
  BY DEF StrongKeys
<1>2. OneOfEach(StrongKeys(p) \cup StrongKeys(q))
  BY <1>1 DEF IDsAgree, SharesIDs
<1>3. /\ <<"arxiv", NumberOf(p.arxiv_id)>> \in StrongKeys(p)
      /\ <<"arxiv", NumberOf(q.arxiv_id)>> \in StrongKeys(q)
  BY NumberIsKey
<1>4. <<"arxiv", NumberOf(p.arxiv_id)>> = <<"arxiv", NumberOf(q.arxiv_id)>>
  BY <1>2, <1>3 DEF OneOfEach
<1> QED BY <1>4

LEMMA DeliverFits ==
  ASSUME IDsAgree, TitlesAgree, InventoryInv, WorksInv, FitInv,
         NEW items \in SUBSET Items, Deliver(items)
  PROVE  FitInv'
<1>1. /\ inventory' = Deduplicate(inventory, Taken(items))
      /\ accepted' = accepted \cup Taken(items)
  BY DEF Deliver, Taken
<1>2. \A p \in inventory \cup Taken(items) : OneWork(StrongKeys(p))
  BY AgreeingIDs, TakenAreListed, ListedAreOneWork DEF WorksInv
<1>3. Fits(Deduplicate(inventory, Taken(items)), accepted \cup Taken(items))
  BY <1>2, TakenAreListed, DeduplicateFits DEF FitInv
<1> QED BY <1>1, <1>3, TakenAreListed DEF FitInv

LEMMA OthersKeepAccepted ==
  ASSUME [Next]_vars, ~\E items \in SUBSET Items : Deliver(items)
  PROVE  UNCHANGED <<inventory, accepted>>
BY DEF Next, Revise, InferBacklog, SelectNext, Convert, vars

\* However the sources deliver their records, the inventory has one entry for every paper,
\* under the name of its best record and with all its IDs.
THEOREM OneEntryEach == ASSUME IDsAgree, TitlesAgree PROVE Spec => []OneEntryPerPaper
<1>1. Init => WorksInv /\ FitInv
  BY DEF Init, WorksInv, FitInv, Fits
<1>2. InventoryInv /\ WorksInv /\ [Next]_vars => WorksInv'
  BY AgreeingIDs, DeliverKeepsNames, OthersKeepInventory DEF WorksInv
<1>3. InventoryInv /\ WorksInv /\ FitInv /\ [Next]_vars => FitInv'
  BY DeliverFits, OthersKeepAccepted DEF FitInv
<1>4. InventoryInv /\ FitInv => OneEntryPerPaper
  BY FitRowsAreOnePerWork DEF InventoryInv, FitInv
<1> QED BY <1>1, <1>2, <1>3, <1>4, IngestInit, IngestStep, PTL DEF Spec

-----------------------------------------------------------------------------
(***************************************************************************)
(* Rows are whole: they have the categories of their group and of all      *)
(* papers without IDs of their title, and of several titles that a source  *)
(* gave one name the greatest.                                             *)
(***************************************************************************)
Contributors(q, papers) ==
  Group(q, papers) \cup
  {p \in papers : StrongKeys(p) = {} /\ BibliographicKey(p) = BibliographicKey(q)}

Whole(rows, papers) ==
  /\ \A q \in rows : q.categories = UNION {p.categories : p \in Contributors(q, papers)}
  /\ \A q \in rows : \A p \in papers : Follows(p, q)

LEMMA TitleNotBefore ==
  ASSUME NEW p \in Entries, NEW q \in Entries, NEW r \in Entries,
         ~Before(BibliographicKey(p), BibliographicKey(q)),
         ~Before(BibliographicKey(q), BibliographicKey(r))
  PROVE  ~Before(BibliographicKey(p), BibliographicKey(r))
<1> DEFINE a == BibliographicKey(p)
           b == BibliographicKey(q)
           c == BibliographicKey(r)
<1>1. /\ a \in Nat \X Nat /\ b \in Nat \X Nat /\ c \in Nat \X Nat
  BY KeysOfEntries
<1>2. ~Before(a, b) /\ ~Before(b, c)
  OBVIOUS
<1> HIDE DEF a, b, c
<1>3. ~Before(a, c)
  BY <1>1, <1>2, BeforePair
<1> QED BY <1>3 DEF a, c

\* Two rows do not have one title under which a paper without IDs is listed.
LEMMA SameTitleSameRow ==
  ASSUME TitlesTellApart, NEW rows, NEW papers, Fits(rows, papers),
         NEW q \in rows, NEW r \in rows, BibliographicKey(q) = BibliographicKey(r),
         BibliographicKey(q) \in LooseTitles
  PROVE  q = r
<1>1. CASE StrongKeys(q) = {} \/ StrongKeys(r) = {}
  BY <1>1 DEF Fits
<1>2. CASE StrongKeys(q) # {} /\ StrongKeys(r) # {}
  <2>1. ASSUME NEW s \in rows, StrongKeys(s) # {}
        PROVE  \E p \in Strong(Listed) : /\ BibliographicKey(p) = BibliographicKey(s)
                                         /\ StrongKeys(p) \subseteq StrongKeys(s)
    <3>1. Stands(s, Group(s, papers))
      BY DEF Fits
    <3>2. PICK p \in Group(s, papers) : BibliographicKey(s) = BibliographicKey(p)
      BY <3>1 DEF Stands, Represents, Likens
    <3>3. p \in Listed /\ StrongKeys(p) # {} /\ StrongKeys(p) \subseteq StrongKeys(s)
      BY <2>1, <3>1, <3>2 DEF Stands, Represents
    <3> QED BY <3>2, <3>3 DEF Strong
  <2>2. PICK x \in Strong(Listed) : /\ BibliographicKey(x) = BibliographicKey(q)
                                    /\ StrongKeys(x) \subseteq StrongKeys(q)
    BY <1>2, <2>1
  <2>3. PICK y \in Strong(Listed) : /\ BibliographicKey(y) = BibliographicKey(r)
                                    /\ StrongKeys(y) \subseteq StrongKeys(r)
    BY <1>2, <2>1
  <2>4. SharesIDs(x, y)
    BY <2>2, <2>3 DEF TitlesTellApart
  <2>5. SharesIDs(q, r)
    BY <2>2, <2>3, <2>4 DEF SharesIDs
  <2> QED BY <2>5 DEF Fits
<1> QED BY <1>1, <1>2

\* What is meant by a paper that a row has taken in.
Takes(r, p) ==
  /\ StrongKeys(p) \subseteq StrongKeys(r)
  /\ BibliographicKey(p) \in LooseTitles => BibliographicKey(r) = BibliographicKey(p)

LEMMA TakenByOneRow ==
  ASSUME TitlesTellApart, NEW rows, NEW papers \in SUBSET Listed, Fits(rows, papers),
         NEW q \in rows, NEW p \in Contributors(q, papers), NEW r \in rows, Takes(r, p)
  PROVE  r = q
<1>1. p \in papers /\ Stands(q, Group(q, papers))
  BY DEF Contributors, Group, Fits
<1>2. CASE StrongKeys(p) # {}
  <2>1. p \in Group(q, papers)
    BY <1>2 DEF Contributors
  <2>2. StrongKeys(p) \subseteq StrongKeys(q)
    BY <1>1, <2>1 DEF Stands, Represents
  <2>3. SharesIDs(q, r)
    BY <1>2, <2>2 DEF Takes, SharesIDs
  <2> QED BY <2>3 DEF Fits
<1>3. CASE StrongKeys(p) = {}
  <2>1. BibliographicKey(p) = BibliographicKey(q)
    BY <1>3 DEF Contributors, Group, SharesIDs
  <2>2. BibliographicKey(p) \in LooseTitles
    BY <1>1, <1>3 DEF LooseTitles
  <2> QED BY <2>1, <2>2, SameTitleSameRow DEF Takes
<1> QED BY <1>2, <1>3

LEMMA RowTakes ==
  ASSUME TitlesAgree, NEW rows, NEW papers \in SUBSET Listed, Fits(rows, papers),
         NEW p \in papers
  PROVE  \E q \in rows : Takes(q, p) /\ p \in Contributors(q, papers)
<1>1. CASE StrongKeys(p) # {}
  BY <1>1, RowOfPaper DEF Takes, Contributors
<1>2. CASE StrongKeys(p) = {}
  BY <1>2 DEF Fits, Takes, Contributors
<1> QED BY <1>1, <1>2

LEMMA DeduplicateIsWhole ==
  ASSUME IDsAgree, TitlesAgree, TitlesTellApart,
         NEW rows \in SUBSET Entries, NEW accepts \in SUBSET Listed,
         NEW papers \in SUBSET Listed, IsFiniteSet(rows \cup papers),
         \A p \in rows \cup papers : OneWork(StrongKeys(p)),
         Fits(rows, accepts), Whole(rows, accepts)
  PROVE  Whole(Deduplicate(rows, papers), accepts \cup papers)
<1> DEFINE all  == rows \cup papers
           C    == Clusters(rows, all)
           out  == Deduplicate(rows, papers)
           more == accepts \cup papers
<1>1. /\ out = {c.paper : c \in C} /\ Fits(out, more)
      /\ C \in ClusterSets /\ ClustersGather(C, all) /\ \A c \in C : ClusterFits(c)
  BY LoopFits, DeduplicateFits DEF Deduplicate, ClustersFit
<1>2. out \in SUBSET Entries /\ more \in SUBSET Listed /\ more \in SUBSET Entries
  BY <1>1, ListedFacts DEF ClusterSets, ClusterSet
<1> HIDE DEF C, out
<1>3. ASSUME NEW c \in C, NEW p, Meets(p, c) PROVE Takes(c.paper, p)
  BY <1>1, <1>3 DEF ClusterFits, Meets, Takes
<1>4. ASSUME NEW p \in more
      PROVE  \E r \in out : Takes(r, p) /\ p.categories \subseteq r.categories
  <2>1. \A x \in all : \E r \in out : Takes(r, x) /\ x.categories \subseteq r.categories
    BY <1>1, <1>3 DEF ClustersGather
  <2>2. CASE p \in papers
    BY <2>1, <2>2
  <2>3. CASE p \in accepts
    <3>1. PICK q \in rows : Takes(q, p) /\ p \in Contributors(q, accepts)
      BY <2>3, RowTakes
    <3>2. p.categories \subseteq q.categories
      BY <3>1 DEF Whole
    <3>3. PICK r \in out : Takes(r, q) /\ q.categories \subseteq r.categories
      BY <2>1
    <3>4. Takes(r, p)
      BY <3>1, <3>3 DEF Takes
    <3> QED BY <3>2, <3>3, <3>4
  <2> QED BY <2>2, <2>3
<1>5. ASSUME NEW q \in out, NEW p \in Contributors(q, more)
      PROVE  p.categories \subseteq q.categories
  <2>1. p \in more
    BY DEF Contributors, Group
  <2>2. PICK r \in out : Takes(r, p) /\ p.categories \subseteq r.categories
    BY <1>4, <2>1
  <2> HIDE DEF more
  <2>3. r = q
    BY <1>1, <1>2, <2>2, TakenByOneRow
  <2> QED BY <2>2, <2>3
<1>6. ASSUME NEW q \in out, NEW x \in all, Takes(q, x), NEW k \in x.categories
      PROVE  \E p \in Contributors(q, more) : k \in p.categories
  <2>1. CASE x \in papers
    <3>1. CASE StrongKeys(x) # {}
      <4>1. x \in Group(q, more)
        BY <1>6, <2>1, <3>1 DEF Takes, Group, SharesIDs
      <4> QED BY <4>1 DEF Contributors
    <3>2. CASE StrongKeys(x) = {}
      <4>1. BibliographicKey(q) = BibliographicKey(x)
        BY <1>6, <2>1, <3>2 DEF Takes, LooseTitles
      <4>2. x \in Contributors(q, more)
        BY <2>1, <3>2, <4>1 DEF Contributors
      <4> QED BY <4>2
    <3> QED BY <3>1, <3>2
  <2>2. CASE x \in rows
    <3>1. PICK p \in Contributors(x, accepts) : k \in p.categories
      BY <2>2 DEF Whole
    <3>2. p \in accepts /\ p \in Listed /\ Stands(x, Group(x, accepts))
      BY <2>2, <3>1 DEF Contributors, Group, Fits
    <3>3. CASE StrongKeys(p) # {}
      <4>1. p \in Group(x, accepts)
        BY <3>1, <3>3 DEF Contributors
      <4>2. StrongKeys(p) \subseteq StrongKeys(x)
        BY <3>2, <4>1 DEF Stands, Represents
      <4>3. p \in Group(q, more)
        BY <1>6, <3>2, <3>3, <4>2 DEF Takes, Group, SharesIDs
      <4> QED BY <3>1, <4>3 DEF Contributors
    <3>4. CASE StrongKeys(p) = {}
      <4>1. BibliographicKey(p) = BibliographicKey(x)
        BY <3>1, <3>4 DEF Contributors, Group, SharesIDs
      <4>2. BibliographicKey(q) = BibliographicKey(p)
        BY <1>6, <3>2, <3>4, <4>1 DEF Takes, LooseTitles
      <4>3. p \in Contributors(q, more)
        BY <3>2, <3>4, <4>2 DEF Contributors
      <4> QED BY <3>1, <4>3
    <3> QED BY <3>3, <3>4
  <2> QED BY <2>1, <2>2
<1>7. ASSUME NEW q \in out, NEW k \in q.categories
      PROVE  \E p \in Contributors(q, more) : k \in p.categories
  <2>1. PICK c \in C : q = c.paper
    BY <1>1
  <2>2. PICK x \in all : k \in x.categories /\ Meets(x, c)
    BY <1>1, <2>1 DEF ClustersGather
  <2>3. Takes(q, x)
    BY <1>3, <2>1, <2>2
  <2> QED BY <1>6, <2>2, <2>3
<1>8. ASSUME NEW q \in out, NEW x \in all PROVE Follows(x, q)
  BY <1>1 DEF ClustersGather
<1>9. ASSUME NEW q \in out, NEW p \in accepts PROVE Follows(p, q)
  <2> SUFFICES ASSUME StrongKeys(p) # {}, PreferenceKey(p) = PreferenceKey(q)
               PROVE  ~Before(BibliographicKey(q), BibliographicKey(p))
    BY DEF Follows
  <2>1. PICK s \in rows : StrongKeys(p) \subseteq StrongKeys(s) /\ p \in Group(s, accepts)
    BY RowOfPaper
  <2>2. p \in Entries /\ q \in Entries /\ s \in Entries
    BY <1>2
  <2>3. SharesIDs(p, q)
    BY <2>2, NameIsShared
  <2>4. StrongKeys(s) \subseteq StrongKeys(q)
    <3>1. PICK r \in out : StrongKeys(s) \subseteq StrongKeys(r)
      BY <1>1, <1>3 DEF ClustersGather, Takes
    <3>2. SharesIDs(q, r)
      BY <2>1, <2>3, <3>1 DEF SharesIDs
    <3>3. r = q
      BY <1>1, <3>2 DEF Fits
    <3> QED BY <3>1, <3>3
  <2>5. Stands(s, Group(s, accepts)) /\ Stands(q, Group(q, more)) /\ StrongKeys(s) # {}
    BY <1>1, <2>1 DEF Fits
  <2>6. PICK y \in Group(s, accepts) : IsBest(y, Group(s, accepts)) /\ Likens(s, y)
    BY <2>5 DEF Stands, Represents
  <2>7. PreferenceKey(s) = PreferenceKey(y)
    BY <2>6, LikePreference
  <2>8. ~Before(PreferenceKey(p), PreferenceKey(s))
    BY <2>1, <2>6, <2>7 DEF IsBest
  <2>9. y \in Group(q, more)
    <3>1. StrongKeys(y) # {} /\ StrongKeys(y) \subseteq StrongKeys(s) /\ y \in accepts
      BY <2>5, <2>6 DEF Stands, Represents, Group
    <3> QED BY <2>4, <3>1 DEF Group, SharesIDs
  <2>10. ~Before(PreferenceKey(y), PreferenceKey(q))
    <3>1. PICK best \in Group(q, more) : IsBest(best, Group(q, more)) /\ Likens(q, best)
      BY <2>5 DEF Stands, Represents
    <3>2. PreferenceKey(q) = PreferenceKey(best)
      BY <3>1, LikePreference
    <3> QED BY <2>9, <3>1, <3>2 DEF IsBest
  <2>11. PreferenceKey(s) = PreferenceKey(q)
    <3>1. PreferenceKey(s) \in [1 .. 4 -> Nat] /\ PreferenceKey(q) \in [1 .. 4 -> Nat]
      BY <2>2, EntryFacts
    <3> QED BY <2>7, <2>8, <2>10, <3>1, OrderTotal
  <2>12. ~Before(BibliographicKey(q), BibliographicKey(s))
    BY <1>8, <2>5, <2>11 DEF Follows
  <2>13. ~Before(BibliographicKey(s), BibliographicKey(p))
    BY <2>11 DEF Whole, Follows
  <2> QED BY <2>2, <2>12, <2>13, TitleNotBefore
<1>10. ASSUME NEW q \in out
       PROVE  q.categories = UNION {p.categories : p \in Contributors(q, more)}
  <2> HIDE DEF more
  <2> QED BY <1>5, <1>7
<1>11. Whole(out, more)
  BY <1>8, <1>9, <1>10 DEF Whole
<1> QED BY <1>11 DEF out

\* Rows that fit and are whole are what the accepted papers make them, not the order in
\* which these came.
LEMMA RowsAreDetermined ==
  ASSUME TitlesAgree, NEW papers \in SUBSET Listed,
         NEW rows \in SUBSET Entries, Fits(rows, papers), Whole(rows, papers),
         NEW others \in SUBSET Entries, Fits(others, papers), Whole(others, papers),
         NEW q \in rows
  PROVE  q \in others
<1>1. PICK r \in others : Group(q, papers) = Group(r, papers)
  BY WorksAreGroups
<1> DEFINE group == Group(q, papers)
<1>2. /\ Stands(q, group) /\ Stands(r, group) /\ q \in Entries /\ r \in Entries
      /\ group \in SUBSET Entries /\ group \subseteq papers
  BY <1>1, ListedFacts DEF Fits, Group
<1>3. PICK x \in group : IsBest(x, group) /\ Likens(q, x)
  BY <1>2 DEF Stands, Represents
<1>4. PICK y \in group : IsBest(y, group) /\ Likens(r, y)
  BY <1>2 DEF Stands, Represents
<1>5. StrongKeys(q) = StrongKeys(r)
  BY <1>2 DEF Stands, Represents
<1>6. /\ x \in Entries /\ y \in Entries
      /\ ~Before(PreferenceKey(x), PreferenceKey(y)) /\ ~Before(PreferenceKey(y), PreferenceKey(x))
  BY <1>2, <1>3, <1>4 DEF IsBest
<1>7. /\ PreferenceKey(q) = PreferenceKey(r)
      /\ PreferenceKey(x) = PreferenceKey(r) /\ PreferenceKey(y) = PreferenceKey(q)
  <2>1. PreferenceKey(x) \in [1 .. 4 -> Nat] /\ PreferenceKey(y) \in [1 .. 4 -> Nat]
    BY <1>6, EntryFacts
  <2>2. PreferenceKey(x) = PreferenceKey(y)
    BY <1>6, <2>1, OrderTotal
  <2> QED BY <1>3, <1>4, <2>2, LikePreference
<1>8. q.identifier = r.identifier /\ q.source = r.source
  BY <1>3, <1>4, <1>6, SamePreference DEF Likens
<1>9. BibliographicKey(q) = BibliographicKey(r)
  <2>1. CASE StrongKeys(q) = {}
    BY <1>2, <1>3, <1>5, <2>1 DEF Stands
  <2>2. CASE StrongKeys(q) # {}
    <3>1. StrongKeys(x) # {} /\ StrongKeys(y) # {} /\ x \in papers /\ y \in papers
      BY <1>2, <1>3, <1>4, <2>2 DEF Stands
    <3>2. Follows(x, r) /\ Follows(y, q)
      BY <3>1 DEF Whole
    <3>3. /\ ~Before(BibliographicKey(r), BibliographicKey(q))
          /\ ~Before(BibliographicKey(q), BibliographicKey(r))
      BY <1>3, <1>4, <1>7, <3>1, <3>2 DEF Follows, Likens
    <3> DEFINE a == BibliographicKey(q)
               b == BibliographicKey(r)
    <3>4. a \in Nat \X Nat /\ b \in Nat \X Nat /\ ~Before(a, b) /\ ~Before(b, a)
      BY <1>2, <3>3, KeysOfEntries
    <3> HIDE DEF a, b
    <3>5. a[1] = b[1] /\ a[2] = b[2] /\ a = <<a[1], a[2]>> /\ b = <<b[1], b[2]>>
      BY <3>4, BeforePair
    <3>6. a = b
      BY <3>5
    <3> QED BY <3>6 DEF a, b
  <2> QED BY <2>1, <2>2
<1>10. q.title = r.title /\ q.published = r.published
  BY <1>9 DEF BibliographicKey
<1>11. StrongPriority(q) = StrongPriority(r)
  <2>1. PreferenceKey(q)[1] = StrongPriority(q) /\ PreferenceKey(r)[1] = StrongPriority(r)
    BY DEF PreferenceKey
  <2> QED BY <1>7, <2>1
<1>12. q.arxiv_id = r.arxiv_id
  <2>1. CASE q.arxiv_id = 0
    BY <1>11, <2>1 DEF StrongPriority
  <2>2. CASE q.arxiv_id # 0
    <3>1. r.arxiv_id # 0
      BY <1>11, <2>2 DEF StrongPriority
    <3>2. q.identifier[2] = q.arxiv_id /\ r.identifier[2] = r.arxiv_id
      BY <1>2, <2>2, <3>1 DEF Entries
    <3> QED BY <1>8, <3>2
  <2> QED BY <2>1, <2>2
<1>13. q.doi = r.doi
  <2>1. ASSUME NEW s, NEW t, StrongKeys(s) \subseteq StrongKeys(t), s.doi # 0
        PROVE  s.doi = t.doi
    <3>1. <<"doi", s.doi>> \in StrongKeys(t)
      BY <2>1 DEF StrongKeys
    <3>2. \/ \E k : <<"doi", s.doi>> = <<"arxiv", k>>
          \/ <<"doi", s.doi>> = <<"doi", t.doi>>
      BY <3>1 DEF StrongKeys
    <3> QED BY <3>2
  <2>2. CASE q.doi # 0
    BY <1>5, <2>1, <2>2
  <2>3. CASE r.doi # 0
    BY <1>5, <2>1, <2>3
  <2>4. CASE q.doi = 0 /\ r.doi = 0
    BY <2>4
  <2> QED BY <2>2, <2>3, <2>4
<1>14. q.categories = r.categories
  <2>1. Contributors(q, papers) = Contributors(r, papers)
    BY <1>1, <1>9 DEF Contributors
  <2> QED BY <2>1 DEF Whole
<1>15. q = r
  BY <1>2, <1>8, <1>10, <1>12, <1>13, <1>14 DEF Entries
<1> QED BY <1>15

-----------------------------------------------------------------------------
WholeInv == Whole(inventory, accepted)

LEMMA DeliverKeepsWhole ==
  ASSUME IDsAgree, TitlesAgree, TitlesTellApart, InventoryInv, WorksInv, FitInv, WholeInv,
         NEW items \in SUBSET Items, Deliver(items)
  PROVE  WholeInv'
<1>1. /\ inventory' = Deduplicate(inventory, Taken(items))
      /\ accepted' = accepted \cup Taken(items)
  BY DEF Deliver, Taken
<1>2. \A p \in inventory \cup Taken(items) : OneWork(StrongKeys(p))
  BY AgreeingIDs, TakenAreListed, ListedAreOneWork DEF WorksInv
<1>3. Whole(Deduplicate(inventory, Taken(items)), accepted \cup Taken(items))
  BY <1>2, TakenAreListed, DeduplicateIsWhole DEF FitInv, WholeInv
<1> QED BY <1>1, <1>3 DEF WholeInv

LEMMA EqualRows ==
  ASSUME TitlesAgree, InventoryInv, FitInv, WholeInv, InventoryInv', FitInv', WholeInv',
         accepted' = accepted
  PROVE  inventory' = inventory
<1>1. /\ accepted \in SUBSET Listed
      /\ inventory \in SUBSET Entries /\ Fits(inventory, accepted) /\ Whole(inventory, accepted)
      /\ inventory' \in SUBSET Entries
      /\ Fits(inventory', accepted) /\ Whole(inventory', accepted)
  BY DEF InventoryInv, FitInv, WholeInv
<1>2. \A q \in inventory : q \in inventory'
  BY <1>1, RowsAreDetermined
<1>3. \A q \in inventory' : q \in inventory
  BY <1>1, RowsAreDetermined
<1> QED BY <1>2, <1>3

\* Records that were accepted before, delivered in any run and with any others of that
\* kind, leave every row as it is: the inventory is what the accepted records make it.
THEOREM RepeatsAreIdle ==
  ASSUME IDsAgree, TitlesAgree, TitlesTellApart PROVE Spec => RepeatsChangeNothing
<1>1. Init => WorksInv /\ FitInv /\ WholeInv
  BY DEF Init, WorksInv, FitInv, Fits, WholeInv, Whole
<1>2. InventoryInv /\ WorksInv /\ [Next]_vars => WorksInv'
  BY AgreeingIDs, DeliverKeepsNames, OthersKeepInventory DEF WorksInv
<1>3. InventoryInv /\ WorksInv /\ FitInv /\ [Next]_vars => FitInv'
  BY DeliverFits, OthersKeepAccepted DEF FitInv
<1>4. InventoryInv /\ WorksInv /\ FitInv /\ WholeInv /\ [Next]_vars => WholeInv'
  BY DeliverKeepsWhole, OthersKeepAccepted DEF WholeInv
<1>5. /\ InventoryInv /\ FitInv /\ WholeInv
      /\ InventoryInv' /\ FitInv' /\ WholeInv'
      => [accepted' = accepted => inventory' = inventory]_vars
  BY EqualRows
<1> QED BY <1>1, <1>2, <1>3, <1>4, <1>5, IngestInit, IngestStep, PTL DEF Spec, RepeatsChangeNothing

-----------------------------------------------------------------------------
(***************************************************************************)
(* The names of rows.                                                      *)
(***************************************************************************)
LEMMA NamesWithoutIDs ==
  ASSUME NEW p \in Listed, StrongKeys(p) = {}
  PROVE  p.identifier[1] \notin {NameRank.arxiv, NameRank.doi}
<1>1. PICK i \in Items : \E e \in DOMAIN Listing[i] : p = Normalize(Listing[i][e])
  BY DEF Listed
<1>2. PICK e \in DOMAIN Listing[i] : p = Normalize(Listing[i][e])
  BY <1>1
<1> DEFINE r == Listing[i][e]
<1>3. r.source \in DOMAIN SourceRank /\ (r.source = "arxiv" => r.arxiv_id # 0)
  <2>1. Listing[i] \in Seq(SourceRecords)
    BY ListingAssumption DEF Items
  <2>2. r \in SourceRecords
    BY <2>1
  <2> QED BY <2>2, ListingAssumption DEF SourceRecords
<1> HIDE DEF r
<1>4. /\ p.arxiv_id = r.arxiv_id /\ p.doi = r.doi
      /\ p.identifier = Identifier(r.arxiv_id, r.doi, <<NameRank[r.source], r.source_id>>)
  BY <1>2 DEF Normalize, r
<1>5. r.arxiv_id = 0 /\ r.doi = 0
  BY <1>4 DEF StrongKeys
<1>6. p.identifier[1] = NameRank[r.source]
  BY <1>4, <1>5 DEF Identifier
<1>7. \A s \in DOMAIN SourceRank :
        s # "arxiv" => NameRank[s] \notin {NameRank.arxiv, NameRank.doi}
  BY DEF SourceRank, NameRank
<1> QED BY <1>3, <1>5, <1>6, <1>7

LEMMA FitRowsHaveTheirNames ==
  ASSUME NamesAgree, NEW rows \in SUBSET Entries, NEW papers \in SUBSET Listed,
         Fits(rows, papers), NEW p \in rows, NEW q \in rows, p.identifier = q.identifier
  PROVE  p = q
<1>1. ASSUME NEW r \in rows
      PROVE  \E x \in Listed : /\ x.identifier = r.identifier
                               /\ BibliographicKey(x) = BibliographicKey(r)
                               /\ StrongKeys(r) = {} => StrongKeys(x) = {}
  <2>1. Stands(r, Group(r, papers))
    BY DEF Fits
  <2> QED BY <2>1 DEF Stands, Represents, Likens
<1>2. ASSUME NEW r \in rows, StrongKeys(r) = {}
      PROVE  r.identifier[1] \notin {NameRank.arxiv, NameRank.doi}
  BY <1>1, <1>2, NamesWithoutIDs
<1>3. ASSUME NEW r \in rows, StrongKeys(r) # {}
      PROVE  \/ /\ r.identifier[1] = NameRank.arxiv
                /\ <<"arxiv", NumberOf(r.identifier[2])>> \in StrongKeys(r)
             \/ /\ r.identifier[1] = NameRank.doi
                /\ <<"doi", r.identifier[2]>> \in StrongKeys(r)
  <2>1. r \in Entries
    OBVIOUS
  <2>2. CASE r.arxiv_id # 0
    <3>1. r.identifier[1] = NameRank.arxiv /\ r.identifier[2] = r.arxiv_id
      BY <2>1, <2>2 DEF Entries
    <3>2. <<"arxiv", NumberOf(r.arxiv_id)>> \in StrongKeys(r)
      BY <2>2 DEF StrongKeys
    <3> QED BY <3>1, <3>2
  <2>3. CASE r.arxiv_id = 0
    <3>1. r.doi # 0
      BY <1>3, <2>3 DEF StrongKeys
    <3>2. r.identifier[1] = NameRank.doi /\ r.identifier[2] = r.doi
      BY <2>1, <2>3, <3>1 DEF Entries
    <3>3. <<"doi", r.doi>> \in StrongKeys(r)
      BY <3>1 DEF StrongKeys
    <3> QED BY <3>2, <3>3
  <2> QED BY <2>2, <2>3
<1>4. CASE StrongKeys(p) = {} \/ StrongKeys(q) = {}
  <2>1. StrongKeys(p) = {} /\ StrongKeys(q) = {}
    BY <1>2, <1>3, <1>4
  <2>2. PICK x \in Listed : /\ x.identifier = p.identifier /\ StrongKeys(x) = {}
                            /\ BibliographicKey(x) = BibliographicKey(p)
    BY <1>1, <2>1
  <2>3. PICK y \in Listed : /\ y.identifier = q.identifier /\ StrongKeys(y) = {}
                            /\ BibliographicKey(y) = BibliographicKey(q)
    BY <1>1, <2>1
  <2>4. BibliographicKey(x) = BibliographicKey(y)
    BY <2>2, <2>3 DEF NamesAgree
  <2> QED BY <2>1, <2>2, <2>3, <2>4 DEF Fits
<1>5. CASE StrongKeys(p) # {} /\ StrongKeys(q) # {}
  <2>1. NameRank.arxiv # NameRank.doi
    BY Ranks
  <2>2. SharesIDs(p, q)
    BY <1>3, <1>5, <2>1 DEF SharesIDs
  <2> QED BY <2>2 DEF Fits
<1> QED BY <1>4, <1>5

\* Where a source does not change the title of a record without IDs, no two rows ever have
\* one name, so a markdown file is the file of one paper.
THEOREM NamesAreUnique ==
  ASSUME IDsAgree, TitlesAgree, NamesAgree PROVE Spec => []IdentifiersUnique
<1>1. Init => WorksInv /\ FitInv
  BY DEF Init, WorksInv, FitInv, Fits
<1>2. InventoryInv /\ WorksInv /\ [Next]_vars => WorksInv'
  BY AgreeingIDs, DeliverKeepsNames, OthersKeepInventory DEF WorksInv
<1>3. InventoryInv /\ WorksInv /\ FitInv /\ [Next]_vars => FitInv'
  BY DeliverFits, OthersKeepAccepted DEF FitInv
<1>4. InventoryInv /\ FitInv => IdentifiersUnique
  BY FitRowsHaveTheirNames DEF InventoryInv, FitInv, IdentifiersUnique
<1> QED BY <1>1, <1>2, <1>3, <1>4, IngestInit, IngestStep, PTL DEF Spec
=============================================================================
