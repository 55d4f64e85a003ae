------------------------------ MODULE Adapters ------------------------------
(***************************************************************************)
(* The source adapters: what one call of fetch asks of its server, which   *)
(* records it keeps and which cursor it returns.  Time is counted in half  *)
(* days, so that a window may begin and end inside a day.  The servers are *)
(* not part of the repository: Taken, Known and DailyList say how the code *)
(* expects them to answer.                                                 *)
(***************************************************************************)
EXTENDS Integers, FiniteSets, Sequences

CONSTANTS
  Catalogue,    \* what each source lists, in the server's order: a sequence
                \* of [published, listed, valid]
  ServerPage,   \* items in a page of each source, 0 if it keeps to the size
                \* that is asked for
  HalfDaysPerYear

\* The sources, of which one adapter serves bioRxiv and Crossref.
AdapterNames ==
  {"arxiv", "biorxiv", "crossref", "dblp", "huggingface", "papers_with_code",
   "semantic_scholar"}

CatalogueAssumption ==
  /\ DOMAIN Catalogue \subseteq AdapterNames
  /\ \A s \in DOMAIN Catalogue :
       /\ Catalogue[s] \in Seq([published : Nat, listed : Nat, valid : BOOLEAN])
       /\ ServerPage[s] \in Nat
  /\ HalfDaysPerYear \in Nat \ {0}

ASSUME CatalogueAssumption

PageSize(s, size) == IF ServerPage[s] = 0 THEN size ELSE ServerPage[s]

Day(t)  == t \div 2
Year(t) == t \div HalfDaysPerYear

Published(s, i) == Catalogue[s][i].published
Inside(s, w) == {i \in DOMAIN Catalogue[s] : Published(s, i) \in w.start .. w.end}

\* Optional values: a cursor or a continuation that may be None.
None    == << >>
Some(x) == << x >>

Least(a, b) == IF a <= b THEN a ELSE b

\* The servers: the items known at a time, those of a day's list, and in listing order
\* the n of a list after the first `from` (l is the list, computed once).
Known(s, now)     == {i \in DOMAIN Catalogue[s] : Published(s, i) <= now}
DailyList(s, day) == {i \in DOMAIN Catalogue[s] : Catalogue[s][i].listed = day}
Taken(list, from, n) ==
  UNION {{i \in l : Cardinality({k \in l : k <= i}) \in from + 1 .. from + n} : l \in {list}}

(***************************************************************************)
(* collect_records keeps the items that parse; the rest are permanent      *)
(* errors.  A page is broken when the adapter raises InfrastructureError.  *)
(***************************************************************************)
Parsed(s, items)   == {i \in items : Catalogue[s][i].valid}
Unparsed(s, items) == items \ Parsed(s, items)

FetchPage(records, errors, next_cursor, capped) ==
  [records |-> records, errors |-> errors, next_cursor |-> next_cursor,
   capped |-> capped, broken |-> FALSE]
BrokenPage == [records |-> {}, errors |-> {}, next_cursor |-> None,
               capped |-> FALSE, broken |-> TRUE]

-----------------------------------------------------------------------------
(***************************************************************************)
(* arXiv, Semantic Scholar and dblp page by offset.  The cursor also       *)
(* counts the pages and items since the window was opened, over all runs,  *)
(* and the page is capped by these counts.                                 *)
(***************************************************************************)
\* Mutant: the persisted cursor is ignored.
StartsOver(cursor) == [start |-> 0, page |-> 0, consumed |-> 0]

OffsetCursor(cursor) ==
  IF cursor = None THEN [start |-> 0, page |-> 0, consumed |-> 0] ELSE cursor[1]

\* kept: the items that the window keeps.
OffsetPage(s, list, cursor, cfg, kept) ==
  LET c       == OffsetCursor(cursor)
      entries == Taken(list, c.start, cfg.page_size)
      next    == [start    |-> c.start + Cardinality(entries),
                  page     |-> c.page + 1,
                  consumed |-> c.consumed + Cardinality(entries)]
  IN  IF entries = {}
      THEN FetchPage({}, {}, None, FALSE)
      ELSE FetchPage(Parsed(s, entries) \cap kept,
                     Unparsed(s, entries), Some(next),
                     \/ next.page >= cfg.max_pages
                     \/ next.consumed >= cfg.max_results)

\* The query is bound to the window, to the minute.
ArxivFetch(s, w, cursor, now, cfg) ==
  OffsetPage(s, Known(s, now) \cap Inside(s, w), cursor, cfg, Inside(s, w))

\* The queries below are bound to the days of the window.
OfTheDays(s, w, now) ==
  {i \in Known(s, now) : Day(Published(s, i)) \in Day(w.start) .. Day(w.end)}

SemanticScholarFetch(s, w, cursor, now, cfg) ==
  OffsetPage(s, OfTheDays(s, w, now), cursor, cfg, Inside(s, w))

\* dblp is not asked for dates, and its records carry only a year.
DblpFetch(s, w, cursor, now, cfg) ==
  OffsetPage(s, Known(s, now), cursor, cfg,
             {i \in DOMAIN Catalogue[s] :
                Year(Published(s, i)) \in Year(w.start) .. Year(w.end)})

(***************************************************************************)
(* Hugging Face lists papers by day.  The adapter walks back from the day  *)
(* before the window ends, in pages of a day, until a day of the window    *)
(* has no further page.  The page number counts pages of the current size. *)
(***************************************************************************)
HuggingFaceCursor(w, cursor) ==
  IF cursor = None THEN [date |-> Day(w.end) - 1, page |-> 0] ELSE cursor[1]

DayPage(s, c, size) == Taken(DailyList(s, c.date), c.page * size, size)

HuggingFaceFetch(s, w, cursor, cfg) ==
  LET c       == HuggingFaceCursor(w, cursor)
      payload == DayPage(s, c, cfg.page_size)
  IN  IF payload = {}
      THEN FetchPage({}, {},
                     IF c.date - 1 >= Day(w.start)
                     THEN Some([date |-> c.date - 1, page |-> 0]) ELSE None,
                     FALSE)
      ELSE FetchPage(Parsed(s, payload) \cap Inside(s, w),
                     Unparsed(s, payload),
                     Some([c EXCEPT !.page = @ + 1]),
                     Cardinality(payload) >= cfg.max_results)

-----------------------------------------------------------------------------
(***************************************************************************)
(* Crossref and Papers With Code follow a token of the server.  A page     *)
(* with more records than fit is asked for again, and resumed at an index  *)
(* into the records that the window keeps.                                 *)
(***************************************************************************)
TokenCursor(cursor) ==
  IF cursor = None THEN [token |-> 0, local_index |-> 0, page |-> 0, consumed |-> 0]
                   ELSE cursor[1]

TokenPage(s, w, items, next_token, cursor, cfg) ==
  LET c        == TokenCursor(cursor)
      again    == c.local_index > 0
      kept     == Parsed(s, items) \cap Inside(s, w)
      records  == Taken(kept, c.local_index, cfg.max_results)
      end      == c.local_index + Cardinality(records)
      consumed == c.consumed + (IF again THEN 0 ELSE Cardinality(items))
      page     == c.page + (IF again THEN 0 ELSE 1)
  IN  IF items = {} THEN FetchPage({}, {}, None, FALSE)
      ELSE IF c.local_index > Cardinality(kept) THEN BrokenPage
      ELSE FetchPage(records, Unparsed(s, items),
                     IF end < Cardinality(kept)
                     THEN Some([token |-> c.token, local_index |-> end,
                                page |-> page, consumed |-> consumed])
                     ELSE IF next_token = None THEN None
                     ELSE Some([token |-> next_token[1], local_index |-> 0,
                                page |-> page, consumed |-> consumed]),
                     page >= cfg.max_pages \/ consumed >= cfg.max_results)

\* The token of Crossref is a place in the result list.
CrossrefFetch(s, w, cursor, now, cfg) ==
  LET token == TokenCursor(cursor).token
      items == Taken(OfTheDays(s, w, now), token, PageSize(s, cfg.page_size))
  IN  TokenPage(s, w, items, Some(token + Cardinality(items)), cursor, cfg)

\* The next link of Papers With Code names a page; its size is replaced by
\* the size of the request.  The last page has no next link.
PapersWithCodeFetch(s, w, cursor, now, cfg) ==
  LET number == TokenCursor(cursor).token
      size   == PageSize(s, cfg.page_size)
      list   == Known(s, now)
  IN  TokenPage(s, w, Taken(list, number * size, size),
                IF (number + 1) * size < Cardinality(list) THEN Some(number + 1) ELSE None,
                cursor, cfg)

(***************************************************************************)
(* bioRxiv sends pages of its own size; the adapter takes as many raw      *)
(* items of one as it may and keeps the rest for the next call.            *)
(***************************************************************************)
BiorxivFetch(s, w, cursor, now, cfg) ==
  LET c        == TokenCursor(cursor)
      items    == Taken(OfTheDays(s, w, now), c.token, ServerPage[s])
      raw      == Taken(items, c.local_index, cfg.max_results)
      end      == c.local_index + Cardinality(raw)
      complete == end = Cardinality(items)
      page     == c.page + (IF complete THEN 1 ELSE 0)
  IN  IF items = {} THEN FetchPage({}, {}, None, FALSE)
      ELSE IF c.local_index > Cardinality(items) THEN BrokenPage
      ELSE FetchPage(Parsed(s, raw) \cap Inside(s, w),
                     Unparsed(s, raw),
                     Some([token       |-> c.token + (IF complete THEN Cardinality(items) ELSE 0),
                           local_index |-> IF complete THEN 0 ELSE end,
                           page        |-> page,
                           consumed    |-> c.consumed + Cardinality(raw)]),
                     page >= cfg.max_pages \/ Cardinality(raw) >= cfg.max_results)

-----------------------------------------------------------------------------
AdapterFetch(w, cursor, now, cfg) ==
  LET s == cfg.name IN
  CASE s = "arxiv"            -> ArxivFetch(s, w, cursor, now, cfg)
    [] s = "semantic_scholar" -> SemanticScholarFetch(s, w, cursor, now, cfg)
    [] s = "dblp"             -> DblpFetch(s, w, cursor, now, cfg)
    [] s = "huggingface"      -> HuggingFaceFetch(s, w, cursor, cfg)
    [] s = "crossref"         -> CrossrefFetch(s, w, cursor, now, cfg)
    [] s = "biorxiv"          -> BiorxivFetch(s, w, cursor, now, cfg)
    [] s = "papers_with_code" -> PapersWithCodeFetch(s, w, cursor, now, cfg)

=============================================================================
