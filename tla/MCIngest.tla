------------------------------ MODULE MCIngest ------------------------------
(***************************************************************************)
(* Two papers.  The first is listed by arXiv, by dblp, which gives its DOI *)
(* and the year, and by Semantic Scholar, which connects the two later;    *)
(* the second by Crossref, by Papers With Code without a DOI, and by       *)
(* Semantic Scholar, at first without.                                     *)
(***************************************************************************)
EXTENDS Ingest, TLC

Source(name, own, title, published, arxiv_id, doi, terms, categories) ==
  [source |-> name, source_id |-> own, title |-> title, published |-> published,
   arxiv_id |-> arxiv_id, doi |-> doi, terms |-> terms, categories |-> categories]

S2 == "semantic_scholar"

MCListing == <<
  <<Source("arxiv", 11, 1, 5, 11, 0, {"speech", "noise"}, {"cs"}),
    Source("arxiv", 13, 1, 5, 13, 0, {"speech", "noise"}, {"cs"})>>,
  <<Source(S2, 1, 1, 5, 10, 0, {"speech", "noise"}, {}),
    Source(S2, 1, 1, 5, 10, 7, {"speech", "noise"}, {})>>,
  <<Source("dblp", 1, 1, 1, 0, 7, {"speech"}, {})>>,
  <<Source(S2, 2, 2, 4, 0, 0, {"speech"}, {}),
    Source(S2, 2, 2, 4, 0, 8, {"speech"}, {})>>,
  <<Source("crossref", 8, 2, 4, 0, 8, {"speech"}, {})>>,
  <<Source("papers_with_code", 3, 2, 4, 0, 0, {"speech", "survey"}, {"ml"})>> >>

Topic(include_any, include_all, exclude_any, categories) ==
  [include_any |-> include_any, include_all |-> include_all,
   exclude_any |-> exclude_any, categories |-> categories]

\* Everything; and papers about speech or music that are no surveys.
MCTopics == {Topic({}, {}, {}, {}), Topic({"speech", "music"}, {}, {"survey"}, {})}

\* Two web pages fill a batch, and so does one PDF.
MCExpense == [j \in AllIdentifiers |-> IF j[1] = NameRank.doi THEN 2 ELSE 4]

\* What the theorems of IngestProofs ask of a listing.
ASSUME IDsAgree /\ TitlesAgree /\ TitlesTellApart /\ NamesAgree

=============================================================================
