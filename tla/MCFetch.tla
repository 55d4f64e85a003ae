------------------------------ MODULE MCFetch ------------------------------
(***************************************************************************)
(* Instances of Fetch for model checking: one adapter after another, each  *)
(* with budgets that cut its pages, windows and chunks, and two together.  *)
(***************************************************************************)
EXTENDS Fetch, TLC

Item(published, valid) == [published |-> published, listed |-> published \div 2, valid |-> valid]

\* Sources that know the time of day, and sources that know the day only.
Timed == <<Item(0, TRUE), Item(2, FALSE), Item(3, TRUE), Item(3, TRUE), Item(3, TRUE), Item(5, TRUE)>>
Dated == <<Item(0, TRUE), Item(0, TRUE), Item(2, FALSE), Item(2, TRUE), Item(2, TRUE), Item(4, TRUE)>>
\* A day of Hugging Face, which has its own order.
Daily == <<Item(0, TRUE), Item(3, TRUE), Item(3, TRUE), Item(3, TRUE), Item(2, FALSE), Item(5, TRUE)>>

MCCatalogue ==
  [s \in {"arxiv", "papers_with_code"} |-> Timed] @@ ("huggingface" :> Daily) @@
  [s \in {"semantic_scholar", "dblp", "crossref", "biorxiv"} |-> Dated]

\* bioRxiv has pages of three items; Papers With Code sends two whatever it is asked for.
MCServerPage ==
  [s \in DOMAIN MCCatalogue |->
     CASE s = "biorxiv" -> 3 [] s = "papers_with_code" -> 2 [] OTHER -> 0]

Config(name, size, pages, results, start) ==
  [name |-> name, lookback |-> 2, page_size |-> size, max_pages |-> pages,
   max_results |-> results, backfill_start |-> start, backfill_days |-> 2]

\* Pages of one Hugging Face item: their size does not shrink with the budget.
MCConfigs ==
  {<<Config("arxiv", 2, 2, 3, Some(0))>>, <<Config("arxiv", 1, 1, 1, Some(0))>>,
   <<Config("semantic_scholar", 2, 2, 3, Some(0))>>,
   <<Config("crossref", 2, 1, 3, Some(0))>>, <<Config("biorxiv", 1, 2, 2, Some(0))>>,
   <<Config("dblp", 2, 2, 3, None)>>, <<Config("papers_with_code", 2, 2, 1, None)>>,
   <<Config("huggingface", 1, 2, 2, None)>>,
   <<Config("dblp", 2, 1, 2, None), Config("biorxiv", 2, 1, 2, Some(0))>>}

\* Pages of two, the second of which the budget of three results cuts to one.
MCShrinkingPages == {<<Config("huggingface", 2, 2, 3, None)>>}

\* What FetchProofs asks of servers and configurations; a budget cuts the pages of one.
ASSUME SteadyServers
ASSUME PagesKeepSize <=> Configs # MCShrinkingPages

=============================================================================
