--------------------------- MODULE Deduplication ---------------------------
(***************************************************************************)
(* normalize.py: from the records of the sources to one entry for every    *)
(* paper.  An arXiv ID is a number, ten times that of the paper plus the   *)
(* rank of its version as text: none, v1, v10, v2; so numbers are ordered  *)
(* as the IDs are.  DOIs, titles and days are numbers, 0 stands for None.  *)
(***************************************************************************)
EXTENDS Integers, FiniteSets, Sequences, Folds

\* SOURCE_RANK, and the place of a name before the colon of an identifier.
SourceRank ==
  [arxiv |-> 0, crossref |-> 1, semantic_scholar |-> 2, dblp |-> 3,
   huggingface |-> 4, papers_with_code |-> 5, biorxiv |-> 6]
NameRank ==
  [arxiv |-> 1, biorxiv |-> 2, crossref |-> 3, dblp |-> 4, doi |-> 5,
   huggingface |-> 6, papers_with_code |-> 7, semantic_scholar |-> 8]

NumberOf(arxiv_id) == arxiv_id \div 10

\* Order of tuples.
Before(a, b) ==
  \E i \in DOMAIN a : a[i] < b[i] /\ \A j \in 1 .. i - 1 : a[j] = b[j]

-----------------------------------------------------------------------------
(***************************************************************************)
(* normalize                                                               *)
(***************************************************************************)
Identifier(arxiv_id, doi, otherwise) ==
  IF arxiv_id # 0 THEN <<NameRank.arxiv, arxiv_id>>
  ELSE IF doi # 0 THEN <<NameRank.doi, doi>>
  ELSE otherwise

Normalize(r) ==
  [identifier |-> Identifier(r.arxiv_id, r.doi, <<NameRank[r.source], r.source_id>>),
   source |-> r.source, title |-> r.title, published |-> r.published,
   categories |-> r.categories, doi |-> r.doi, arxiv_id |-> r.arxiv_id]

StrongKeys(p) ==
  {<<"arxiv", NumberOf(k)>> : k \in {p.arxiv_id} \ {0}} \cup
  {<<"doi", k>> : k \in {p.doi} \ {0}}

BibliographicKey(p) == <<p.title, p.published>>

StrongPriority(p) == IF p.arxiv_id # 0 THEN 0 ELSE IF p.doi # 0 THEN 1 ELSE 2

\* Mutant: the latest version is preferred.
LatestPreferred(p) ==
  <<StrongPriority(p), SourceRank[p.source], p.identifier[1], 0 - p.identifier[2]>>

\* Of two papers of a source the url is not needed to decide.
PreferenceKey(p) ==
  <<StrongPriority(p), SourceRank[p.source], p.identifier[1], p.identifier[2]>>
ProcessingKey(p) ==
  <<StrongPriority(p), SourceRank[p.source], p.identifier[1], p.identifier[2],
    p.title, p.published>>

-----------------------------------------------------------------------------
(***************************************************************************)
(* deduplicate.  A cluster has the smallest of the ids of its parts, and a *)
(* place in the dictionary from when it was made or merged.                *)
(***************************************************************************)
Cluster(id, since, p, strong, bibliographic) ==
  [id |-> id, since |-> since, paper |-> p, strong |-> strong,
   bibliographic |-> bibliographic]

\* Mutant: the categories are those of the paper that was not preferred.
MergedOthers(preferred, other) ==
  LET doi      == IF preferred.doi # 0 THEN preferred.doi ELSE other.doi
      arxiv_id == IF preferred.arxiv_id # 0 THEN preferred.arxiv_id ELSE other.arxiv_id
  IN  [preferred EXCEPT
         !.identifier = Identifier(arxiv_id, doi, preferred.identifier),
         !.categories = other.categories,
         !.doi        = doi,
         !.arxiv_id   = arxiv_id]

Merged(preferred, other) ==
  LET doi      == IF preferred.doi # 0 THEN preferred.doi ELSE other.doi
      arxiv_id == IF preferred.arxiv_id # 0 THEN preferred.arxiv_id ELSE other.arxiv_id
  IN  [preferred EXCEPT
         !.identifier = Identifier(arxiv_id, doi, preferred.identifier),
         !.categories = @ \cup other.categories,
         !.doi        = doi,
         !.arxiv_id   = arxiv_id]

MergeClusters(left, right) ==
  Cluster(IF left.id <= right.id THEN left.id ELSE right.id,
          right.since,
          IF Before(PreferenceKey(right.paper), PreferenceKey(left.paper))
          THEN Merged(right.paper, left.paper) ELSE Merged(left.paper, right.paper),
          left.strong \cup right.strong,
          left.bibliographic \cup right.bibliographic)

\* Mutant: a paper without IDs joins no other.
MergeSharedOnly(mine, theirs) == mine \cap theirs # {}

CanMergeBibliographically(mine, theirs) ==
  mine = {} \/ theirs = {} \/ mine \cap theirs # {}

\* The indexes name the last cluster of the dictionary that has a key.
Last(holding) == {c \in holding : \A d \in holding : d.since <= c.since}

Candidates(clusters, p) ==
  (UNION {Last({c \in clusters : key \in c.strong}) : key \in StrongKeys(p)}) \cup
  {c \in Last({d \in clusters : BibliographicKey(p) \in d.bibliographic}) :
     CanMergeBibliographically(StrongKeys(p), c.strong)}

\* In the order of their ids.
MergeAll(first, found) ==
  MapThenFoldSet(LAMBDA c, merged : MergeClusters(merged, c), first,
                 LAMBDA c : c,
                 LAMBDA S : CHOOSE c \in S : \A d \in S : d.id <= c.id,
                 found)

\* Mutant: the parts of a merged cluster are not taken out.
JoinKeepingParts(clusters, p, n) ==
  LET found == Candidates(clusters, p)
      own   == Cluster(n, n, p, StrongKeys(p), {BibliographicKey(p)})
  IN  IF found = {} THEN clusters \cup {own}
      ELSE clusters \cup {MergeClusters(MergeAll(Cluster(n, n, p, {}, {}), found), own)}

\* One iteration of the loop, the n-th.
Join(clusters, p, n) ==
  LET found == Candidates(clusters, p)
      own   == Cluster(n, n, p, StrongKeys(p), {BibliographicKey(p)})
  IN  IF found = {} THEN clusters \cup {own}
      ELSE (clusters \ found) \cup
           {MergeClusters(MergeAll(Cluster(n, n, p, {}, {}), found), own)}

\* Papers are sorted by processing key, and papers with the same key stay in
\* order: rows of the inventory come before records.
LastOf(rows, papers) ==
  LET greatest == {p \in papers : \A q \in papers : ~Before(ProcessingKey(p), ProcessingKey(q))}
  IN  CHOOSE p \in greatest : p \notin rows \/ greatest \subseteq rows

\* The clusters after the iterations for some papers.
Clusters(rows, papers) ==
  LET joined[processed \in SUBSET papers] ==
        IF processed = {} THEN {}
        ELSE LET p == LastOf(rows, processed)
             IN  Join(joined[processed \ {p}], p, Cardinality(processed))
  IN  joined[papers]

Deduplicate(rows, papers) == {c.paper : c \in Clusters(rows, rows \cup papers)}

-----------------------------------------------------------------------------
(***************************************************************************)
(* What it should compute: papers that share an ID are one paper, and a    *)
(* paper without IDs is one with those of its title and day.               *)
(***************************************************************************)
SharesIDs(p, q) == StrongKeys(p) \cap StrongKeys(q) # {}

Strong(papers) == {p \in papers : StrongKeys(p) # {}}

\* No paper of the group shares an ID with one that is not.
Closed(group, papers) ==
  /\ group # {}
  /\ \A p \in group : \A q \in papers \ group : ~SharesIDs(p, q)

Connected(papers) ==
  LET closed == {group \in SUBSET papers : Closed(group, papers)}
  IN  {group \in closed : \A part \in closed : part \subseteq group => part = group}

Works(papers) ==
  LET titled(p) == {q \in papers : BibliographicKey(q) = BibliographicKey(p)}
  IN  Connected(Strong(papers)) \cup
      {titled(p) : p \in {q \in papers : titled(q) \cap Strong(papers) = {}}}

Preferred(group) ==
  CHOOSE p \in group : \A q \in group : ~Before(PreferenceKey(q), PreferenceKey(p))

=============================================================================
