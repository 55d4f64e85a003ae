-------------------------------- MODULE Fetch --------------------------------
(***************************************************************************)
(* fetch_all over many runs: for every adapter a forward window and then a *)
(* walk back through its history, both within budgets of the run, with the *)
(* cursors that a later run resumes.  The records and the cursors of a run *)
(* are committed together, or not at all.                                  *)
(***************************************************************************)
EXTENDS Adapters, HttpClient

CONSTANTS
  Configs,     \* adapter configurations: sequences of records [name,
               \* lookback, page_size, max_pages, max_results,
               \* backfill_start (None or Some(day)), backfill_days]
  MaxSources,  \* bound: the adapters of a configuration
  FirstRun,    \* the half day of the first run
  Horizon,     \* bound: the last half day
  MaxMishaps   \* bound: failures, slow answers and crashes

\* One adapter serves bioRxiv and Crossref, one of them in a configuration.
AdapterName(c) == IF c.name \in {"biorxiv", "crossref"} THEN "biorxiv_crossref" ELSE c.name

BackfillAdapters == {"arxiv", "biorxiv_crossref", "huggingface", "semantic_scholar"}

\* Adapter configurations that papers.yml may have.
AdapterConfig(c) ==
  /\ DOMAIN c = {"name", "lookback", "page_size", "max_pages", "max_results",
                 "backfill_start", "backfill_days"}
  /\ c.name \in DOMAIN Catalogue
  /\ c.lookback \in 1 .. FirstRun
  /\ c.page_size \in Nat \ {0} /\ c.max_pages \in Nat \ {0} /\ c.max_results \in Nat \ {0}
  /\ c.backfill_days \in Nat \ {0}
  /\ c.backfill_start # None => /\ AdapterName(c) \in BackfillAdapters
                               /\ c.backfill_start[1] \in 0 .. Horizon \div 2

ASSUME FetchAssumption ==
  /\ FirstRun \in Nat /\ Horizon \in Nat /\ FirstRun <= Horizon
  /\ MaxMishaps \in Nat /\ MaxSources \in Nat
  /\ \A c \in Configs :
       /\ Len(c) \in 1 .. MaxSources /\ DOMAIN c = 1 .. Len(c)
       /\ \A k \in DOMAIN c : AdapterConfig(c[k])
       /\ \A k, l \in DOMAIN c : AdapterName(c[k]) = AdapterName(c[l]) => k = l

VARIABLES
  config,    \* the adapters of papers.yml
  now,
  saved,     \* committed: .papers-state.yml and the records behind papers.csv
  phase,     \* of the run
  source,    \* index of the adapter that is fetched
  draft,     \* what the run has to commit so far
  walk,      \* the window that is fetched
  forward,   \* the forward window of the adapter, when it is fetched
  history,   \* the backfill of the adapter
  asked,     \* auxiliary: pages of the adapter in this run
  mishaps    \* auxiliary: counted against MaxMishaps

vars == <<config, now, saved, phase, source, draft, walk, forward, history,
          asked, mishaps, clock, attempt>>
runVars == <<config, now, saved>>

cfg    == config[source]
Names  == DOMAIN Catalogue

(***************************************************************************)
(* Windows and their progress.                                             *)
(***************************************************************************)
Window(start, end) == [start |-> start, end |-> end]
Continuation(cursor, w) == [cursor |-> cursor, start |-> w.start, end |-> w.end]

\* _page_config: the remaining budget bounds the request and the page.
PageConfig(remaining) ==
  [cfg EXCEPT !.page_size = Least(@, remaining), !.max_results = remaining]

Walk(w, cursor, max_pages, max_results) ==
  [window |-> w, cursor |-> cursor, records |-> {}, errors |-> {},
   pages |-> 0, results |-> 0,
   max_pages |-> max_pages, max_results |-> max_results, capped |-> FALSE]

NoWalk == Walk(Window(0, 0), None, 1, 1)

\* What is left of a walk's budget of results.
Left(wk) == wk.max_results - wk.results

\* The next page of the walk.
NextPage == AdapterFetch(walk.window, walk.cursor, now, PageConfig(Left(walk)))

\* An invalid cursor, or more records than the budget.
Unusable(page) == page.broken \/ Cardinality(page.records) > Left(walk)

\* The walk after a page.
Turned(page) ==
  LET turned == [walk EXCEPT !.records = @ \cup page.records,
                             !.errors  = @ \cup page.errors,
                             !.pages   = @ + 1,
                             !.results = @ + Cardinality(page.records),
                             !.cursor  = page.next_cursor]
  IN  [turned EXCEPT !.capped =
         \/ page.capped
         \/ /\ page.next_cursor # None
            /\ Left(turned) <= 0 \/ turned.pages >= turned.max_pages]

WalkEnded(wk) == wk.cursor = None \/ wk.capped

\* Mutant: a persisted cursor is used in the window of this run.
OldCursorNewWindow ==
  LET c == draft.continuations[cfg.name] IN
  Walk(Window(now - cfg.lookback, now), IF c # None THEN Some(c[1].cursor) ELSE None,
       cfg.max_pages, cfg.max_results)

\* The window that the adapter's next run opens, or resumes.
ForwardWalk ==
  LET c == draft.continuations[cfg.name] IN
  IF c # None
  THEN Walk(Window(c[1].start, c[1].end), Some(c[1].cursor), cfg.max_pages, cfg.max_results)
  ELSE Walk(Window(now - cfg.lookback, now), None, cfg.max_pages, cfg.max_results)

(***************************************************************************)
(* _backfill_plan: resume a capped chunk, or step back from the boundary.  *)
(***************************************************************************)
Boundary(progress, forward_start) ==
  IF progress # None THEN progress[1].covered_from ELSE forward_start

Limit == 2 * cfg.backfill_start[1]

\* Mutant: the last chunk does not stop at backfill_start.
UnlimitedStart(covered_from) == covered_from - cfg.backfill_days

ChunkStart(covered_from) ==
  IF covered_from - cfg.backfill_days >= Limit THEN covered_from - cfg.backfill_days ELSE Limit

BackfillPlan(progress, forward_start) ==
  LET covered_from == Boundary(progress, forward_start)
  IN  IF cfg.backfill_start = None THEN None
      ELSE IF progress # None /\ progress[1].continuation # None
      THEN LET c == progress[1].continuation[1]
           IN  Some([window |-> Window(c.start, c.end), cursor |-> Some(c.cursor)])
      ELSE IF covered_from <= Limit THEN None
      ELSE Some([window |-> Window(ChunkStart(covered_from), covered_from), cursor |-> None])

Progress(covered_from, continuation) ==
  [covered_from |-> covered_from, continuation |-> continuation]

History(active, covered_from) ==
  [active |-> active, covered_from |-> covered_from, continuation |-> None,
   records |-> {}, errors |-> {}, walked |-> {}, origin |-> covered_from,
   pages_left |-> IF active THEN cfg.max_pages ELSE 0,
   results_left |-> IF active THEN cfg.max_results ELSE 0]

-----------------------------------------------------------------------------
(***************************************************************************)
(* What a finished window accounts for: its times, but for the last day of *)
(* a Hugging Face window, which is left to the window after it.            *)
(***************************************************************************)
Times(w) == {t \in w.start .. w.end :
               cfg.name = "huggingface" => Day(t) < Day(w.end)}

Fresh == [s \in Names |-> None]

Init ==
  /\ config \in Configs
  /\ now = FirstRun
  /\ saved = [continuations |-> Fresh, backfill |-> Fresh,
              records |-> [s \in Names |-> {}], walked |-> [s \in Names |-> {}],
              origin |-> Fresh]
  /\ draft = saved
  /\ phase = "idle" /\ source = 1
  /\ walk = NoWalk /\ forward = NoWalk
  /\ history = History(FALSE, 0)
  /\ asked = 0 /\ mishaps = 0
  /\ ClientInit

\* The process ends, and its memory with it.
Exit ==
  /\ phase' = "idle" /\ source' = 1
  /\ draft' = saved'
  /\ walk' = NoWalk /\ forward' = NoWalk
  /\ history' = History(FALSE, 0)
  /\ asked' = 0
  /\ clock' = 0 /\ attempt' = 0

\* Time passes between runs.
Tick ==
  /\ phase = "idle" /\ now < Horizon
  /\ now' = now + 1
  /\ UNCHANGED <<config, saved, phase, source, draft, walk, forward, history,
                 asked, mishaps, clock, attempt>>

StartRun ==
  /\ phase = "idle"
  /\ phase' = "source"
  /\ UNCHANGED <<runVars, source, draft, walk, forward, history, asked, mishaps, clientVars>>

\* The loop of fetch_all reaches an adapter.
OpenSource ==
  /\ phase = "source" /\ source <= Len(config)
  /\ phase' = "forward"
  /\ walk' = ForwardWalk
  /\ history' = History(FALSE, 0)
  /\ asked' = 0
  /\ UNCHANGED <<runVars, source, draft, forward, mishaps, clientVars>>

-----------------------------------------------------------------------------
(***************************************************************************)
(* The requests of _fetch_window.                                          *)
(***************************************************************************)
Fetching == phase \in {"forward", "history"}

\* A mishap is counted; the first answers in time cost none.
Counted(took) ==
  /\ took > 0 => mishaps < MaxMishaps
  /\ mishaps' = mishaps + (IF took > 0 THEN 1 ELSE 0)

PageArrives(took) ==
  /\ Fetching
  /\ Answered(took) /\ Counted(took)
  /\ \E page \in {NextPage} :
       /\ ~Unusable(page)
       /\ walk' = Turned(page)
  /\ asked' = asked + 1
  /\ phase' = IF ~WalkEnded(walk') THEN phase
              ELSE IF phase = "forward" THEN "forwarded" ELSE "chunked"
  /\ UNCHANGED <<runVars, source, draft, forward, history>>

RequestFails(took) ==
  /\ Fetching
  /\ mishaps < MaxMishaps /\ mishaps' = mishaps + 1
  /\ Retry(took)
  /\ UNCHANGED <<runVars, phase, source, draft, walk, forward, history, asked>>

\* Mutant: a source that is unavailable is asked again.
AskedAgain ==
  /\ Fetching
  /\ \/ Refuse /\ UNCHANGED mishaps
     \/ /\ mishaps < MaxMishaps /\ mishaps' = mishaps + 1
        /\ \E took \in Durations : GiveUp(took)
  /\ phase' = "source"
  /\ UNCHANGED <<runVars, source, draft, walk, forward, history, asked>>

\* The except branch of fetch_all: nothing of this adapter is kept.
SourceUnavailable ==
  /\ Fetching
  /\ \/ Refuse /\ UNCHANGED mishaps
     \/ /\ mishaps < MaxMishaps /\ mishaps' = mishaps + 1
        /\ \E took \in Durations : GiveUp(took)
  /\ phase' = "source" /\ source' = source + 1
  /\ UNCHANGED <<runVars, draft, walk, forward, history, asked>>

-----------------------------------------------------------------------------
(***************************************************************************)
(* _backfill: chunk after chunk, until a budget of the run is spent.       *)
(***************************************************************************)
Chunk(plan, pages_left, results_left) ==
  Walk(plan[1].window, plan[1].cursor, pages_left, results_left)

FinishForward ==
  /\ phase = "forwarded"
  /\ forward' = walk
  /\ LET progress == draft.backfill[cfg.name]
         plan     == BackfillPlan(progress, walk.window.start)
     IN  IF plan = None
         THEN /\ phase' = "fetched"
              /\ UNCHANGED <<walk, history>>
         ELSE /\ phase' = "history"
              /\ history' = History(TRUE, Boundary(progress, walk.window.start))
              /\ walk' = Chunk(plan, cfg.max_pages, cfg.max_results)
  /\ UNCHANGED <<runVars, source, draft, asked, mishaps, clientVars>>

\* The chunk is counted: done, it moves the boundary back; capped, it keeps its cursor.
Account(done) ==
  [history EXCEPT !.records      = @ \cup walk.records,
                  !.errors       = @ \cup walk.errors,
                  !.pages_left   = @ - walk.pages,
                  !.results_left = @ - walk.results,
                  !.continuation = IF done THEN None
                                   ELSE Some(Continuation(walk.cursor[1], walk.window)),
                  !.covered_from = IF done THEN walk.window.start ELSE @,
                  !.walked       = IF done THEN @ \cup Times(walk.window) ELSE @]

\* Mutants: the boundary moves in front of a chunk that is not done; the pages of a
\* chunk are not counted; the cursor of a capped chunk is lost.
BoundaryFirst   == [Account(walk.cursor = None) EXCEPT !.covered_from = walk.window.start]
PagesNotCounted == [Account(walk.cursor = None) EXCEPT !.pages_left = history.pages_left]
CursorLost      == [Account(walk.cursor = None) EXCEPT !.continuation = None]

AfterChunk == Account(walk.cursor = None)

FinishChunk ==
  /\ phase = "chunked"
  /\ history' = AfterChunk
  /\ LET plan == BackfillPlan(Some(Progress(AfterChunk.covered_from, None)),
                              forward.window.start)
     IN  IF \/ walk.cursor # None \/ plan = None
            \/ AfterChunk.pages_left <= 0 \/ AfterChunk.results_left <= 0
         THEN /\ phase' = "fetched"
              /\ UNCHANGED walk
         ELSE /\ phase' = "history"
              /\ walk' = Chunk(plan, AfterChunk.pages_left, AfterChunk.results_left)
  /\ UNCHANGED <<runVars, source, draft, forward, asked, mishaps, clientVars>>

-----------------------------------------------------------------------------
\* The end of the loop's body: the adapter's cursors, boundary and records.
WithForward(d) ==
  [d EXCEPT !.continuations[cfg.name] =
              IF forward.cursor # None
              THEN Some(Continuation(forward.cursor[1], forward.window)) ELSE None,
            !.records[cfg.name] = @ \cup forward.records \cup forward.errors,
            !.walked[cfg.name]  =
              IF forward.cursor = None THEN @ \cup Times(forward.window) ELSE @]

WithHistory(d) ==
  IF ~history.active THEN d
  ELSE [d EXCEPT !.backfill[cfg.name] =
                   Some(Progress(history.covered_from, history.continuation)),
                 !.records[cfg.name] = @ \cup history.records \cup history.errors,
                 !.walked[cfg.name]  = @ \cup history.walked,
                 !.origin[cfg.name]  = IF @ = None THEN Some(history.origin) ELSE @]

RecordSource ==
  /\ phase = "fetched"
  /\ draft' = WithHistory(WithForward(draft))
  /\ phase' = "source" /\ source' = source + 1
  /\ UNCHANGED <<runVars, walk, forward, history, asked, mishaps, clientVars>>

\* run_nightly commits the inventory and the state together.
Persist ==
  /\ phase = "source" /\ source > Len(config)
  /\ saved' = draft
  /\ Exit
  /\ UNCHANGED <<config, now, mishaps>>

\* An InfrastructureError, or the death of the job, ends the run: nothing of
\* it is committed.
Abort ==
  /\ phase # "idle"
  /\ IF Fetching /\ ~Expired /\ Unusable(NextPage)
     THEN UNCHANGED mishaps
     ELSE mishaps < MaxMishaps /\ mishaps' = mishaps + 1
  /\ UNCHANGED runVars
  /\ Exit

-----------------------------------------------------------------------------
Step == \/ OpenSource \/ FinishForward \/ FinishChunk \/ RecordSource \/ Persist
        \/ \E took \in Durations : PageArrives(took) \/ RequestFails(took)
        \/ SourceUnavailable

Next == Tick \/ StartRun \/ Step \/ Abort

\* The schedule starts runs, and a run goes on until it ends.
Fairness == WF_vars(StartRun) /\ WF_vars(Step)

Spec == Init /\ [][Next]_vars /\ Fairness


-----------------------------------------------------------------------------
(***************************************************************************)
(* Properties.                                                             *)
(***************************************************************************)
Phases   == {"idle", "source", "forward", "forwarded", "history", "chunked", "fetched"}
Times0   == 0 .. Horizon
Windows  == [start : Times0, end : Times0]

\* A record of the progress of every source.
CorpusOK(c) ==
  /\ DOMAIN c.continuations = Names /\ DOMAIN c.backfill = Names
  /\ DOMAIN c.records = Names /\ DOMAIN c.walked = Names /\ DOMAIN c.origin = Names
  /\ \A s \in Names :
       /\ c.walked[s] \subseteq Times0
       /\ c.continuations[s] # None =>
            Window(c.continuations[s][1].start, c.continuations[s][1].end) \in Windows
       /\ c.backfill[s] # None => c.backfill[s][1].covered_from \in Times0
       /\ c.origin[s] # None => c.origin[s][1] \in Times0

\* The committed state, the run's draft of it, and the window at work are well formed.
TypeOK ==
  /\ config \in Configs
  /\ now \in Times0
  /\ CorpusOK(saved) /\ CorpusOK(draft)
  /\ phase \in Phases
  /\ source \in 1 .. Len(config) + 1
  /\ walk.window \in Windows /\ forward.window \in Windows
  /\ history.active \in BOOLEAN
  /\ asked \in Nat /\ mishaps \in 0 .. MaxMishaps
  /\ clock \in Nat /\ attempt \in 0 .. Retries

\* What the source published at a time that is walked is in the inventory, however the
\* walk was split into pages, budgets, runs and outages (fetch.py:306-356).
NothingSkipped ==
  \A s \in Names : \A i \in DOMAIN Catalogue[s] :
    Published(s, i) \in saved.walked[s] => i \in saved.records[s]

\* Between the boundary that the state file names and the place where the walk back
\* started, every window was walked to its end (fetch.py:232-291).
NoHoleInHistory ==
  \A s \in Names : saved.backfill[s] # None =>
    saved.backfill[s][1].covered_from .. saved.origin[s][1] - 1 \subseteq saved.walked[s]

\* A run asks a source for no more than max_pages pages of its window and max_pages of
\* its history, in however many chunks (fetch.py:256-273).
BudgetKept == phase \notin {"idle", "source"} => asked <= 2 * cfg.max_pages

\* The deadline of the run is passed by one slow answer at most: no request and no
\* pause begins that it leaves no time for (http.py:66-140).
DeadlineKept == clock <= Deadline + Overrun

-----------------------------------------------------------------------------
(***************************************************************************)
(* What the code takes for granted of the servers, when it resumes a list  *)
(* by a place in it.                                                       *)
(***************************************************************************)
\* Lists of a window do not grow within its days, and other lists grow at their end.
SteadyServers == \A s \in Names :
  /\ s = "biorxiv" => ServerPage[s] > 0
  /\ \A i \in DOMAIN Catalogue[s] :
       /\ s \in {"biorxiv", "crossref", "semantic_scholar"} =>
            Published(s, i) = 2 * Day(Published(s, i))
       /\ s \in {"dblp", "papers_with_code"} =>
            \A j \in 1 .. i : Published(s, j) <= Published(s, i)
       /\ s = "huggingface" => Catalogue[s][i].listed = Day(Published(s, i))

\* Adapters whose cursor counts pages of the size that is asked for.
SizedPages(c) ==
  \/ c.name = "huggingface"
  \/ c.name = "papers_with_code" /\ ServerPage[c.name] = 0

\* The budget of a run never makes their pages smaller.
PagesKeepSize == \A c \in Configs : \A k \in DOMAIN c :
  SizedPages(c[k]) => \/ c[k].page_size = 1
                      \/ c[k].max_pages * c[k].page_size <= c[k].max_results

\* fetch_all keeps the promise of Coverage.
Promise == INSTANCE Coverage WITH
  Sources   <- Names,
  Listing   <- [s \in Names |-> [i \in DOMAIN Catalogue[s] |-> Published(s, i)]],
  walked    <- saved.walked,
  delivered <- saved.records

ImplementsCoverage == Promise!Spec

\* Every run of fetch_all ends, also when its sources do not answer (fetch.py:137-151).
RunEnds == phase # "idle" ~> phase = "idle"

\* No window is resumed for ever: again and again a source has no cursor left, so its
\* next window is opened at the current time (fetch.py:158-172).
WindowsFinish == \A k \in 1 .. MaxSources :
  []<>(k <= Len(config) => saved.continuations[config[k].name] = None)

\* The walk back reaches backfill_start, in whatever chunks, budgets and outages
\* (fetch.py:232-291).
BackfillCompletes ==
  <>[](\A k \in DOMAIN config : config[k].backfill_start # None =>
         LET progress == saved.backfill[config[k].name] IN
         /\ progress # None
         /\ progress[1].covered_from <= 2 * config[k].backfill_start[1]
         /\ progress[1].continuation = None)

=============================================================================
