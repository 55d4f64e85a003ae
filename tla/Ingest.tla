------------------------------- MODULE Ingest -------------------------------
(***************************************************************************)
(* What a run makes of the records that it fetched: normalize, the topic   *)
(* gate, deduplicate over the inventory, and the batches that are selected *)
(* from the entries without markdown.  The sources deliver any of their    *)
(* records, again and again, and revise them.                              *)
(***************************************************************************)
EXTENDS Deduplication

CONSTANTS
  Listing,      \* the items of the sources, each a sequence of editions:
                \* source records with the terms of title and abstract
  Topics,       \* topic configurations of papers.yml
  MaxDelivered, \* bound: the items of one run
  Expense,      \* conversion cost of the paper with an identifier
  MaxPapers, MaxCost

VARIABLES
  topic,      \* the configuration
  edition,    \* of each item
  inventory,  \* rows of papers.csv
  markdown,   \* identifiers that have a markdown file
  accepted,   \* auxiliary: papers that passed the gate so far
  phase,      \* of the run
  pending, rest, selected, estimated, done   \* of select_batch

sources == <<topic, edition>>
batch   == <<pending, rest, selected, estimated, done>>
vars    == <<sources, inventory, markdown, accepted, phase, batch>>

Items == DOMAIN Listing

SourceRecords ==
  [source : DOMAIN SourceRank, source_id : Nat, title : Nat, published : Nat,
   arxiv_id : Nat, doi : Nat, terms : SUBSET STRING, categories : SUBSET STRING]

\* Every item has an edition, and arXiv gives its own ID.
ASSUME ListingAssumption ==
  /\ Listing \in Seq(Seq(SourceRecords) \ {<< >>})
  /\ \A i \in Items : \A e \in DOMAIN Listing[i] :
       Listing[i][e].source = "arxiv" => Listing[i][e].arxiv_id # 0

Record(i) == Listing[i][edition[i]]

(***************************************************************************)
(* build_topic_gate: terms are sought in title and abstract.               *)
(***************************************************************************)
Accepts(r) ==
  /\ topic.exclude_any \cap r.terms = {}
  /\ topic.include_all \subseteq r.terms
  /\ topic.include_any # {} => topic.include_any \cap r.terms # {}
  /\ topic.categories # {} => topic.categories \cap r.categories # {}

-----------------------------------------------------------------------------
(***************************************************************************)
(* The papers of select_batch are numbers in the order of the identifiers. *)
(***************************************************************************)
Listed == UNION {{Normalize(Listing[i][e]) : e \in DOMAIN Listing[i]} : i \in Items}
AllIdentifiers == {p.identifier : p \in Listed}

\* Records that share an ID give one arXiv number and one DOI between them.
OneOfEach(keys) == \A k, l \in keys : k[1] = l[1] => k = l
IDsAgree ==
  \A p, q \in Listed : SharesIDs(p, q) => OneOfEach(StrongKeys(p) \cup StrongKeys(q))

\* Records that share an ID agree on a title and day under which one without IDs is listed.
LooseTitles == {BibliographicKey(p) : p \in {q \in Listed : StrongKeys(q) = {}}}
TitlesAgree ==
  \A p, q \in Listed :
    SharesIDs(p, q) /\ BibliographicKey(p) \in LooseTitles =>
      BibliographicKey(q) = BibliographicKey(p)

\* All records with IDs of a title and day under which one without is listed share one.
TitlesTellApart ==
  \A p, q \in Strong(Listed) :
    BibliographicKey(p) = BibliographicKey(q) /\ BibliographicKey(p) \in LooseTitles =>
      SharesIDs(p, q)

\* A source does not change title or day of a record that has no IDs.
NamesAgree ==
  \A p, q \in Listed :
    p.identifier = q.identifier /\ StrongKeys(p) = {} =>
      BibliographicKey(q) = BibliographicKey(p)

\* The configuration refuses a limit that a single paper exceeds.
ASSUME ExpenseAssumption ==
  /\ MaxPapers \in Nat \ {0} /\ MaxCost \in Nat
  /\ Expense \in [AllIdentifiers -> 1 .. MaxCost]

Place(identifier) == Cardinality({j \in AllIdentifiers : j = identifier \/ Before(j, identifier)})
AtPlace(n) == CHOOSE j \in AllIdentifiers : Place(j) = n

Places == 1 .. Cardinality(AllIdentifiers)

Selection == INSTANCE BatchSelection WITH
  Papers <- Places,
  Cost   <- [n \in Places |-> Expense[AtPlace(n)]]

Identifiers == {p.identifier : p \in inventory}

\* infer_backlog, by the file name that an identifier gives.
Backlog == {Place(j) : j \in Identifiers \ markdown}

-----------------------------------------------------------------------------
Init ==
  /\ topic \in Topics
  /\ edition = [i \in Items |-> 1]
  /\ inventory = {} /\ markdown = {} /\ accepted = {}
  /\ phase = "idle"
  /\ pending = {} /\ rest = {} /\ selected = {} /\ estimated = 0 /\ done = TRUE

\* A source adds an ID to an item, or a version.
Revise(i) ==
  /\ phase = "idle"
  /\ edition[i] < Len(Listing[i])
  /\ edition' = [edition EXCEPT ![i] = @ + 1]
  /\ UNCHANGED <<topic, inventory, markdown, accepted, phase, batch>>

\* run_nightly up to the commit of the inventory.
Deliver(items) ==
  /\ phase = "idle"
  /\ LET papers == {Normalize(r) : r \in {s \in {Record(i) : i \in items} : Accepts(s)}}
     IN  /\ inventory' = Deduplicate(inventory, papers)
         /\ accepted' = accepted \cup papers
  /\ phase' = "backlog"
  /\ UNCHANGED <<sources, markdown, batch>>

\* A batch begins.
InferBacklog ==
  /\ phase = "backlog"
  /\ phase' = "select"
  /\ pending' = Backlog /\ rest' = Backlog
  /\ selected' = {} /\ estimated' = 0 /\ done' = FALSE
  /\ UNCHANGED <<sources, inventory, markdown, accepted>>

SelectNext ==
  /\ phase = "select"
  /\ Selection!Next
  /\ UNCHANGED <<sources, inventory, markdown, accepted, phase>>

\* The batch is converted, but for some that fail, and the run may end.
Convert(converted) ==
  /\ phase = "select" /\ done
  /\ markdown' = markdown \cup {AtPlace(n) : n \in converted}
  /\ phase' = "idle"
  /\ pending' = {} /\ rest' = {} /\ selected' = {} /\ estimated' = 0
  /\ UNCHANGED <<sources, inventory, accepted, done>>

Next ==
  \/ \E i \in Items : Revise(i)
  \/ \E items \in SUBSET Items : Cardinality(items) <= MaxDelivered /\ Deliver(items)
  \/ InferBacklog \/ SelectNext
  \/ \E converted \in {{}, selected} : Convert(converted)

Spec == Init /\ [][Next]_vars

-----------------------------------------------------------------------------

\* The inventory has one entry for every paper the sources listed so far, under the
\* name and the IDs of its best record, however the records came: in one run or in
\* several, again, revised, or with IDs that connect two entries (normalize.py:59-107).
OneEntryPerPaper ==
  LET works == Works(accepted) IN
  /\ Cardinality(inventory) = Cardinality(works)
  /\ \A group \in works : \E p \in inventory :
       /\ p.identifier = Preferred(group).identifier
       /\ p.source = Preferred(group).source
       /\ StrongKeys(p) = UNION {StrongKeys(q) : q \in group}

\* A paper that arXiv lists keeps its name, and so its file, but for a version that
\* comes first as text (normalize.py:191-197).
ArxivNamesSettle == [][
  \A p \in inventory : p.source = "arxiv" =>
    \E q \in inventory' :
      /\ NumberOf(q.arxiv_id) = NumberOf(p.arxiv_id)
      /\ q.arxiv_id <= p.arxiv_id
      /\ q.source = "arxiv"]_vars

\* The rows are what the accepted records make them, however these came: a run that
\* accepts only records of earlier runs, as one does in the days that its window shares
\* with the last (fetch.py:107-113), leaves every row as it is, whichever of them it takes
\* together, and so commits no inventory (normalize.py:59-107, pipeline.py:131-145).
RepeatsChangeNothing == [][accepted' = accepted => inventory' = inventory]_vars

\* No two rows have one identifier, which is the name of the markdown of a paper, its key
\* in the failures, and what selects it, also after two entries were merged into one and
\* took another name (normalize.py:110-123, 179-186).
IdentifiersUnique == \A p, q \in inventory : p.identifier = q.identifier => p = q

\* The loop takes the longest run of papers, in order, within both limits
\* (batching.py:57-72).
LongestPrefix == Selection!LongestPrefix

\* While anything is pending a batch takes something (config.py:156).
NeverEmpty == Selection!NeverEmpty

=============================================================================
