# TLA+ model of papers-template

papers-template is a Copier template for a repository that collects papers on a
topic. Its program, `papers-pipeline` (`src/template/src/papers_pipeline/`), runs
every night in a GitHub workflow: it fetches records from several sources, keeps
those on topic in `papers.csv`, converts pending papers to markdown batch by
batch, commits every batch and pushes it, and dispatches itself again while that
makes progress. This directory holds its TLA+ modules, the TLC configurations
that check them, and proofs for TLAPS.

## The system

| Part | State it keeps | Operations | Correct when |
| --- | --- | --- | --- |
| Run loop (`pipeline.py`) | inventory and state in memory; `attempted`, `needs_pdf`, `working_batches` | fetch, inventory transaction, batch transactions, rollback, `has_more_work` | every transaction is committed whole or taken back whole; the loop ends; nobody starves |
| Batch selection (`batching.py`) | none | `infer_backlog`, `select_batch` | takes the longest affordable run of pending papers, and never nothing |
| Conversion (`convert.py`, `remote.py`) | tasks, semaphores, subprocesses, per-host rate limits; the batch workspace | `convert_batch`, `CommandRunner.run`, `DownloadingMaterializer.download` | one result per paper; nothing runs on after it; a strike only for a failure of the paper |
| Git (`git.py`) | index, HEAD, origin/main | `commit`, `publish`, `assert_clean`, `clear_staging` | never leaves the repository in the middle of something |
| Workflow (`nightly.sh`, `nightly.yml`) | none | checkout, run, dirty check, push with retries, dispatch | pushes only clean worktrees; the chain of runs ends |
| State and inventory files (`state.py`, `inventory.py`) | `.papers-state.yml`, `papers.csv` | load, save | agree with one another in every commit |
| Index (`indexing.py`) | `README.md`, `index/` | `write_index`, `write_title_index` | describe the commit they are in |
| Fetch (`fetch.py`) | continuations and backfill progress per source | `fetch_all`, `_fetch_window`, `_backfill` | nothing of a walked window is missing; the walk back leaves no hole and reaches its start |
| HTTP client (`http.py`) | the deadline all sources share | `get_text` | retries what may pass, and ends by the deadline |
| Adapters (`adapters/`) | cursors | `fetch` | the pages of a window deliver it whole, in any split into runs |
| Normalization (`normalize.py`) | none | `normalize`, `deduplicate` | one entry per paper, whatever the order the records come in; names settle |
| Topic gate (`topics.py`) | none | `accepts` | |
| Template update (`template-update.sh`, `template-update.yml`) | the corpus moved aside, a temporary commit, the patch, the pull request | validate, `restore_corpus`, publish | the corpus comes back whatever fails; updates go forward |
| Corpus formatting (`format-corpus.yml`, `formatting.py`) | patches of the shards, the pull request | plan, format, combine | the patches apply together, also when main moved |
| Others | | configuration, front matter, summary, alphaXiv sync, legacy migration, Copier template | |

The parts meet in three places. The run loop calls fetch and `convert_batch` and
awaits them, so inside a run only the tasks of one batch run concurrently. All
other communication is through files: the worktree, the local HEAD and
origin/main are three copies of the same corpus, and what a run knows of an
earlier one is what that one pushed. People and the other two workflows change
main at any time. What makes this hard is therefore failure at any step of a
transaction, loss of the machine and with it of all that was not pushed, pushes
that are refused, edits of main that arrive by rebase in the middle of the batch
loop, cursors that must mean the same in the run that resumes them, and progress
in spite of papers that can never be converted. The file `PROJECT.json` lists
these hazards at their lines.

## Modules

How they fit together, `->` for EXTENDS or INSTANCE:

```
Nightly    -> Batching, Outcomes;  implements Corpus      (the run, main, a clone)
Conversion -> Outcomes;            implements ConvertBatch (inside one batch)
Fetch      -> Adapters, HttpClient; implements Coverage    (inside one fetch)
Ingest     -> Deduplication, BatchSelection -> Batching    (records to batches)
Maintenance                                                (the other workflows)
```

`Nightly` takes the outcome of a batch, what a fetch delivers, and the papers on
topic as inputs. `ConvertBatch`, `Coverage` and `OneEntryPerPaper` of `Ingest` say what
the detailed modules promise about them.

* `Batching` has the pure operators of `batching.py`. Papers are numbers whose
  order is the order of the identifiers.
* `BatchSelection` is `select_batch` as the loop it is, one iteration a step.
* `Outcomes` says how a paper can end in one batch, by its kind: `Expected` when
  nothing goes wrong, `Upset` when the time is up or a host refuses for once. It is
  shared by `Nightly`, which takes these outcomes as input, and `ConvertBatch`.
* `Nightly` is the run with its surroundings. A copy of the corpus is a record:
  `inv` (papers.csv), `seen` and `strikes` (.papers-state.yml: what the source
  cursors have passed, and recorded failures), `md`, `fixme`, `figs` (the files of
  `papers/`), `listed`, `linked` (README.md and `index/`). The variables
  `worktree`, `head`, `remote` and `base` are such records. `pc` walks through
  `run_nightly`: `fetch`, `inventory`, `cursor`, `commit_inventory`, `loop`,
  `convert`, `index`, `save`, `commit`, `publish`, with `rollback` and `finish`
  (nightly.sh and the dispatch step) on the way out. There is one action for each
  step after which the process can die or another can see a difference.
* `Corpus` is what main promises to its readers: the life of a paper from unknown
  over pending to converted or blocked, with its strikes. `Nightly` implements it
  under two mappings: `Main`, what origin/main shows, and `Clone`, the commits of a
  clone that does not rebase.
* `Conversion` is `convert_batch` from the inside. `task[p]` is where the asyncio
  task of a paper is: the `stage` (waiting for a host's lock, waiting to send, a
  request out, waiting for a semaphore, awaiting the converter, in the TimeoutError
  or in the CancelledError handler, ended), the `source` it tries (the arXiv
  renderings in order, then its own input), images left to download, attempts, and
  the host that answers. `proc[p]` is its converter, which is alive until it exits
  and may ignore SIGTERM. `main`, `pending`, `results` and `interrupted` are the
  loop of `convert_batch`; `limited` is `_rate_limited`, `recent` the hosts that
  are being paced. One action is what happens between two awaits: `Acquire`,
  `Send`, `Refused`, `Useless`, `Served` for `DownloadingMaterializer.download`,
  `StartProcess`, `Finish`, `TimesOut`, `Kill`, `Reaped`, `Breaks` for
  `CommandRunner.run`, and `Collect`, `GiveUp`, `OutOfTime`, `Stopped`, `Return`
  for the loop.
* `ConvertBatch` is what `convert_batch` promises to `run_nightly`: it ends once, by
  raising or with an outcome of `Outcomes` for every paper. `Conversion` implements
  it under the mapping `Promise`, so the one step `Convert` of `Nightly` stands for
  a whole batch of `Conversion`.
* `Adapters` has `fetch` of every adapter as an operator from a window, a cursor and
  the configuration with the budget of the request to a page: the records kept, the
  permanent errors, the next cursor, and whether it is capped. Three ways of paging
  are shared: by offset (`OffsetPage`), by day (`HuggingFaceFetch`) and by a token of the
  server with an index into its page (`TokenPage`, `BiorxivFetch`).
* `HttpClient` is `RequestClient.get_text`: `clock` is the time since the deadline was
  set, `attempt` that of the request. Its four actions are how an attempt may end.
* `Fetch` is `fetch_all` over many runs. `saved` is what is committed: continuations
  and backfill of `.papers-state.yml` with the records in the inventory. `draft` is
  the run's copy. `phase` walks through an adapter: `forward` (`_fetch_window`),
  `forwarded` (`_backfill_plan`), `history` (a chunk of `_backfill`), `chunked`,
  `fetched`. `walk` holds the local variables of `_fetch_window`, `history` those of
  `_backfill`. One action is what happens between two requests. `Abort` is an
  InfrastructureError or the loss of the machine, after which the next run starts
  from `saved`; what `has_more_work` makes of the cursors is in `Nightly`.
* `Coverage` is the promise of `Fetch`: times are walked, and what was published at a
  walked time is delivered.
* `Deduplication` is `normalize.py` as operators. The clusters are a set of records; a
  place in the order of the dictionary, `since`, says to which of them the indexes point.
  At its end stands what the module should compute: `Works`, the smallest sets of papers
  that share no ID with a paper outside, and those of one title that have no ID.
* `Ingest` is what a run does between fetch and the end of a batch with the papers
  themselves: the gate, `deduplicate` over the rows of the inventory and the new
  records, `infer_backlog`, and the loop of `select_batch`. The sources revise their
  records and deliver them again.
* `Maintenance` is `template-update.sh` with the two jobs of its workflow, and the
  formatting of the corpus with its matrix of shards. `updating` and `formatting` are
  where they are; `head`, `tree` and `backup` are the checkout of the update, and
  `shard_patch` what each shard uploads. Main moves while they run, and a person
  merges their pull requests later.
* `MCNightly`, `MCConversion`, `MCFetch`, `MCIngest` and `MCMaintenance` give the
  constants of the runs.
* `NightlyProofs`, `NightlyRunProofs`, `CorpusProofs`, `ConversionProofs`,
  `FetchProofs`, `BatchSelectionProofs`, `IngestProofs` and `MaintenanceProofs` hold the
  theorems.

The auxiliary variables of `Nightly`, which the code does not have, are `checkout`
(the tree the run started from; its state file is the code's `initial_state`),
`tally` (failed attempts since a paper was last opened), `gained` (markdown pushed
by this run) and `mishaps`. The one of `Conversion` is `refusers`, the hosts that
answered 429 to a last attempt. Those of `Fetch` are `asked`, `mishaps`, and in `saved`
the `walked` times and the `origin` of the walk back; of `Ingest` `accepted`; of
`Maintenance` `changes`.

What `Nightly` abstracts from:

* Within a batch nothing is committed or seen from outside, so conversion is one
  step, and only the failing case, `ConvertFails`, needs the order of the
  promotions; any part of them may have been done.
* A fetch delivers any papers that no cursor has passed. A source that is down
  delivers nothing. What cursors pass and deliver is the subject of `Fetch`.
* A paper is a work, and the inventory only grows. In the code `deduplicate`
  (pipeline.py:119) may also merge two rows or give a row another identifier, and leave
  the markdown and the strikes of the old name behind; which rows there are and what
  they are called is the subject of `Ingest`, and what becomes of a name is under the
  disagreements below.
* `seen` stands for continuations and backfill together; `MoreWork` therefore also
  counts progress of a forward continuation, which `has_more_work` does not.
* A rebase replays a directory file by file. The inventory, state and index are
  written by the pipeline alone; where they do conflict the rebase is aborted,
  which is `PublishRefused`.
* git's staging area, a torn write of papers.csv, and a machine lost in the middle
  of a rebase are left out: the first is cleared in the rollback, the others die
  with the checkout of the workflow.
* A write that fails leaves no temporary file. In the code it may leave the `.tmp` of
  the state file (state.py:35-40) or of a marker (convert.py:778-782), which
  `.gitignore` does not name. `nightly.sh` would then refuse to push, and `assert_clean`
  the next run in a clone if the file is under `papers/`, so `FailedRunIsClean` and
  `DirtyOnlyAfterDeath` say nothing of such files.

What `Conversion` abstracts from:

* The first step of every task, up to its first await, is part of `Init`: the event
  loop takes it before `convert_batch` can resume.
* A download is one request that is answered by some hop of a redirect, well,
  badly, or with 429; the count of redirects and the checks of addresses are left
  out. Pauses between attempts and the pacing of a host are one wait, `recent`.
* The batch workspace, the rewriting of markdown and figures, and the promotion of
  results are left out, except that a write may raise (`Breaks`, `Return`).
* A cancelled task stops at its await. What it had given to a thread
  (`asyncio.to_thread`) runs on to its end in the code, in the workspace of the batch.
* A converter has no children of its own that keep its pipes open.
* `Refusing` are hosts that answer every request with 429; another host may do so
  at any request.

What `Adapters`, `HttpClient` and `Fetch` abstract from:

* Time is counted in half days, so that a window may begin inside a day. A source is
  a list in the server's order. An item is known from the time it is published, and
  the servers are assumed to list it where the code expects it: `Known`, `Taken` and
  `DailyList` are external. In the catalogue `listed` is the day of Hugging Face's list.
* A payload is a set of items that parse or do not. A payload that is no list, a page
  without a date, and the limit of 1000 reachable results of Semantic Scholar are
  left out: all results of a window are taken as reachable.
* The last day of a Hugging Face window is left to the window after it, as its
  adapter says, so `Times` does not count it as walked.
* Configurations are those that `config.py` accepts (`AdapterConfig`): one entry for
  each adapter, and a backfill only where the adapter has one.

What `Deduplication` and `Ingest` abstract from:

* Unicode normalization of titles is taken as done, and so is the choice of the url as
  a last tie-break. An arXiv ID is a number, ten times that of the paper plus the rank
  of its version as a string.
* In the listings of the run an arXiv ID comes with one DOI only. With two, a cluster
  keeps one of them in the inventory, and a later record with the other key is a
  second entry. A topic plugin is code outside the repository and is left out.

What `Maintenance` abstracts from:

* A paper is a text and its layout. Both workflows start in fresh checkouts, as GitHub
  gives them; a clone in which `template-update.sh` is killed by SIGKILL keeps its
  temporary commit, which is not modelled. `mv` and `git reset` of `restore_corpus` are
  two steps, either of which may fail, and the trap then repeats them; a failure while
  the trap itself runs is not modelled, as nothing would come after it.
* A merge is git's, and external: a patch applies where the files it changes are as it
  found them. `add-paths` keeps `papers/` out of the update's pull request.

Definitions named in a comment as mutants are not part of the model. Each is a
plausible bug, put in the place of one definition to see that a property notices.

## Runs

| Run | Question | Checked |
| --- | --- | --- |
| `ci` | Workflow runs with two mishaps, batches of two, figures, three kinds, a paper off topic | `TypeOK`, `CommitsConsistent`, `FailedRunIsClean`, `OneStrikePerRun`, `MarkerIsEarned`, `IndexDescribesBatch`, `ImplementsCorpus`, `DispatchFollowsProgress` |
| `by_hand` | A clone that survives between runs, three mishaps | `CommittedStays`, `DirtyOnlyAfterDeath` |
| `stray` | A clone that survives between runs and where every publish raises, four mishaps | `CloneImplementsCorpus` |
| `live` | Fairness, a throttled host, a budget of one batch, figures without markdown | `RunEnds`, `ChainEnds`, `NoPaperStarves`, `IndexCatchesUp` |
| `convert_pdf` | A docling pass: renderings, a redirecting DOI, figures, hanging converters, the end of the budget, an infrastructure failure | `TypeOK`, `EachReportedOnce`, `NothingRunsOn`, `ConvertersBounded` |
| `convert_fast` | A pandoc pass with a set-aside PDF and a host that always refuses | `RefusersLeftAlone`, `BatchEnds`, `ImplementsConvertBatch` |
| `fetch` | Every adapter over several runs, with outages, slow answers and crashes | `TypeOK`, `NoHoleInHistory`, `BudgetKept`, `DeadlineKept`, `ImplementsCoverage`, `RunEnds`, `WindowsFinish`, `BackfillCompletes` |
| `ingest` | Two papers in six listings, delivered and revised in any order | `OneEntryPerPaper`, `IdentifiersUnique`, `RepeatsChangeNothing`, `ArxivNamesSettle`, `LongestPrefix` |
| `maintenance` | The two other workflows while main moves and steps fail | `TypeOK`, `CorpusComesBack`, `UpdatesAreForward`, `ShardsCombine`, `MergesKeepCorpus` |
| `publish_raises` | violation | `CommittedStays` |
| `converter_outlives` | violation | `NoConverterOutlivesBatch` |
| `skipped_page` | violation | `NothingSkipped` |

Bounds of `Nightly`. `MaxMishaps` limits the adverse steps of the environment in a
behaviour (a failing write, a refused push, a lost machine, an edit of main, a
deadline, an interrupted or deferred conversion); the steps of the program are not
limited. Two papers are enough for two papers to be in different batches, in one
batch, or in different passes; a third is there where one paper is throttled or off
topic. `MaxBatches` is 2, so that a run can be over budget, go on after a refused
push, and set a paper aside and take it up again; it is 1 where starvation is the
question. `tally` counts to 3. Deadlock is checked in every run of `Nightly`.

Bounds of `Conversion`. Of the three papers of `convert_pdf` two share a press and a
converter slot, one of them through a DOI resolver, and one goes through both
renderings, with at most `MaxFigures` = 1 image, to the same slot; this is enough for
a task in each stage to meet each end of the batch. The host `press` allows two
attempts, the others one, and `press` and `ar5iv` are paced. The slots of every format
are one, the tightest. `limited` starts as any set of hosts, as an earlier batch of
the run may have left it. A batch ends, so deadlock is not checked there; `BatchEnds`
says that it stops only at its end.

Bounds of `Fetch`. `Horizon` is three days, in half days, and the first run is at the
fifth of six; so forward windows overlap, and four or five half days of history are
walked back in chunks of two, the last of which is short. Six items per source, three of them at
one time and one that does not parse, with pages of one to three items, one or two
pages and one to three results a run: every cap cuts inside a page, between pages and
between chunks, and a window takes up to six runs. The configurations are one adapter
after another and one pair, which shares the deadline. Two mishaps (a failed or slow
answer, an abort) meet any two steps; the deadline is 6, a request takes up to 3 and a
slow body 1 more, so both the timeout and what remains of the deadline bind. Hugging
Face has pages of one item, whose size does not shrink with the budget: with pages of two it
violates `NothingSkipped`, as `skipped_page` shows.

Bounds of `Ingest`. Two papers have three listings each, some with two editions that
add a DOI or a version, so clusters are joined by a late record. At most two items are
delivered in a run, which is enough for every order; two web pages fill a batch and so
does one PDF, so that both limits of a batch bind. Two records without IDs give their row's
categories to the row they join. What the theorems of `IngestProofs` ask of a listing is an
`ASSUME` of `MCIngest`.

Bounds of `Maintenance`. Three papers in two shards give shards of different size, an
absent file moves the others to other shards, and two releases are one step of the
template. `MaxChanges` is 1: one change of main, or one failure, in any place.

Fairness of `Nightly` is weak fairness of `Launch \/ Run`: the schedule starts the
workflow every night and the process executes its next statement. Nothing is
assumed of the environment, in particular not that a conversion ever succeeds: a
paper that fails three times is blocked, and `NoPaperStarves` says it becomes one
or the other. Because mishaps are finitely many, the liveness properties speak of
what happens once the environment leaves the program alone.

Fairness of `Conversion` is weak fairness of `Loop`, of `Run(p)` for every task and
of the end of every interval. The event loop serves tasks in turn, requests and
processes have timeouts, and pauses are sleeps. No fairness is assumed of
`ProcessExits`, so a converter may hang and ignore SIGTERM for ever, nor of
`BudgetEnds`, so there may be no budget.

Fairness of `Fetch` is weak fairness of `StartRun` and of `Step`: the schedule starts
runs, and a run takes its next step, where a request may always answer or fail.
`Tick` and `Abort` get none. A source may be down in finitely many requests only;
`BackfillCompletes` and `WindowsFinish` say that whatever is left after such outages
is resumed. `Ingest` and `Maintenance` state safety only: people and servers decide
when anything happens there.

## Disagreements

With a run that shows it:

* `publish_raises`: `GitRepository.publish` aborts a failed rebase with
  `check=True`. git refuses to start a rebase over uncommitted changes of a tracked
  file, even one the pipeline does not manage, and then there is nothing to abort.
  The exception leaves `publish` after the commit, and the rollback of the batch
  reverts files that HEAD has. The docstring (git.py:66-68) promises `False` and a
  repository left on its own commits.
* `converter_outlives`: the TimeoutError handler of `CommandRunner.run` awaits the
  end of its process unshielded (convert.py:101). If the batch is stopped just
  then, the CancelledError leaves the handler before SIGKILL, and a converter that
  ignores SIGTERM outlives the batch. The README of the template (line 93) says
  conversions still running are cancelled.
* `skipped_page`: a Hugging Face cursor is a page number, but the page size shrinks
  with the remaining budget of the run (huggingface.py:46, fetch.py:80). After a
  smaller page the next run resumes at the wrong place of the day, and the window
  still counts as complete, against README.md.jinja:124-126.

Met while modelling, without a run; the models stay on the side where they do not
occur, or follow the code:

* pipeline.py:213-214 says pending papers have no figures. A paper whose markdown was
  deleted by hand has; a batch that replaces them and fails leaves the worktree dirty,
  and the next run by hand is refused. The runs but `live` have `Careless` = FALSE.
* After the last 429 `download` gives up the host it was called with, not the one that
  refused (convert.py:267). Of two papers of one press, one linked through a DOI, the second
  contacts the press again, against README.md.jinja:137-139 and the docstring
  (convert.py:203-206). `RefusersLeftAlone` is checked and proved without redirects.
* The Hugging Face walk begins a day before the end of a window, whose last day "is
  covered by the chunk after it" (huggingface.py:33-36). That chunk drops what was published
  before its own start, so the part of the boundary day before the boundary is
  delivered by neither.
* Pages and results in a cursor count from the opening of the window, but the caps are
  budgets of a run in README.md.jinja:59-62. Past its first cap a window of any adapter
  but Hugging Face gets one page a run (arxiv.py:67-70).
* A forward continuation that is resumed for longer than `lookback_days` leaves a gap:
  the next window begins `lookback_days` before its own run (fetch.py:109).
  `ImplementsCoverage` speaks of walked times, and is silent about the gap.
* normalize.py:194-195 says identifiers are stable across runs. That of a paper without an arXiv ID
  changes when a later record brings one; its markdown keeps the old name and
  the paper is converted again. `ArxivNamesSettle` is the part that holds.
* Papers With Code resumes a page number with the size of the moment
  (papers_with_code.py:168-172), so it would skip records as Hugging Face does if its server
  honoured `items_per_page`; in the runs it does not.
* A cursor that is persisted under one provider stops every run with an
  InfrastructureError after the configuration names the other (biorxiv_crossref.py:214).
* `inventory_changed` (pipeline.py:130) compares the inventory, sorted by date, with the
  output of `deduplicate`, sorted otherwise, and is nearly always true.

## Proofs

All theorems hold for every value of the constants that the assumptions allow:
`NightlyAssumption`, `BatchingAssumption`, `ConversionAssumption`, `KindAssumption`,
`CatalogueAssumption`, `HttpAssumption`, `FetchAssumption`, `ListingAssumption`,
`ExpenseAssumption` and `MaintenanceAssumption`, which TLC evaluates in every run that
uses them. What a theorem needs beyond them it says in its `ASSUME`.

`NightlyProofs` proves, for every finite set of papers, every assignment of kinds
and costs, every budget and every number of mishaps, with and without stray
changes and careless edits:

* `TypeCorrect`: `Spec => []TypeOK`. `TypeOK` alone is not inductive, since nothing
  in it says that a batch is only started while `working < MaxBatches`; `TypeInv`
  adds that. The step is proved by its four parts (trees, control, memory, history).
* `CommitsAreConsistent`: `Spec => []CommitsConsistent`. What a commit says is
  decided by the steps before it, so `ConsistentInv` describes the worktree at each
  phase as HEAD plus what the open transaction has done (`FetchFacts`, `LoopFacts`,
  `BatchFacts`), the run's copies as equal to it, and main as having lost papers at
  most since the local base (`MainShrinks`); without the last a rebase could bring
  back a paper that is not in the local inventory. The central lemmas are
  `ConvertBatched` (what a batch adds), `CommittedIsWorktree` (the commit paths miss
  nothing) and `RebasedConsistent`.
* `IndexIsAccurate`: `Spec => []IndexDescribesBatch`, from the same invariant.

`NightlyRunProofs` builds on `ConsistentInv` and proves what a run leaves behind, for
the same constants:

* `OneStrikeOnly`: `OneStrikePerRun`. `StrikeInv` says that a paper that may still be
  converted in this run (not tried, set aside by the pandoc pass, or at work) has in
  memory the strikes that the run found, so that the step that records a failure
  records the first of the run.
* `MarkersAreEarned`: `MarkerIsEarned`. `EarnedInv` relates `tally` to every place a
  strike can be: the commits of the clone, those of main, the memory of the run; a
  marker that main does not have yet has three. It needs `BaseKept`: the clone has
  all markdown and markers of the remote commit it stands on, so a rebase cannot bring
  back a marker that a person removed.
* `ProgressBeforeDispatch`: the action property `DispatchFollowsProgress`. `GainInv`
  says where the papers are that a run has converted: not yet committed, committed and
  not pushed, or pushed by it. A rebase keeps the unpushed ones unpushed.
* `NothingCommittedIsLost`: `CommittedStays`, without `Stray`. A rollback starts from
  `before = head`, in the inventory transaction and in the batch's. With stray changes
  `publish` raises after the commit, and the rollback takes back what was committed: the
  run `publish_raises`.
* `FailuresAreCleanedUp` and `OnlyDeathLeavesDirt`: `FailedRunIsClean` and
  `DirtyOnlyAfterDeath`, without `Stray` and `Careless`. `CleanInv` says that at
  each rollback what `Restored` puts together is `HEAD`. A rollback leaves figures that
  were there before as the batch made them, so it rests on `FiguresInv`: figures come
  and go with their markdown, also in a rebase, and a pending paper has none. A careless
  deletion of markdown alone breaks that.

`CorpusProofs` proves `CorpusImplemented`, `Spec => ImplementsCorpus`, for the workflow
(`Automated`). Main sees a run in pushes, each of which shows at once all that was
committed since the last one; so the proof needs to know at each moment what a push would
show. `LegalInv` says by how much HEAD, and the batch that is not committed yet, may
differ from the base they sit on: a paper has one strike more at most, none more if it
may still be tried, and a new marker only if it had two; and main has the inventory and
the strikes of the base, because people edit neither. A rebase keeps all that
(`LegalRebase`), and `PushIsLegal` maps the push to a step of `Corpus`. In a clone that
survives, the pushes of several runs may be refused before one is accepted, and main then
sees several strikes at once, which `Corpus` does not allow; hence `Automated`.

It also proves `CloneImplemented`, `Spec => CloneImplementsCorpus`: the history of a
developer's clone, commit by commit, keeps the same promise, if nothing is published or a
stray change makes every publish raise (`~Automated`, `Stray \/ ~Publishing`). `CloneInv`
says that the batch that is not committed yet is one legal step from `HEAD` for each
paper. It rests on `Steady`: between transactions the worktree is `HEAD`, because
`assert_clean` refuses to start behind it. A clone that rebases takes over everything
that was reopened on main at once, and `Corpus` opens one paper at a time.

`ConversionProofs` proves, for every finite set of papers, any formats, hosts,
redirects, attempts, images and concurrency:

* `ConversionTypeCorrect`, `PapersReportedOnce`, `NothingIsLeftRunning`: `TypeOK`,
  `EachReportedOnce` and `NothingRunsOn` from one invariant, `ConversionInv`.
  `TasksOK` relates each task to its process (`ProcessOK`) and to the ways it may
  end (`OutcomeOK`); `LoopOK` says for each phase of the loop where the tasks are:
  none cancelled while it waits, then exactly the interrupted ones. All steps of a
  task are summed up in `Moves`, under which what has ended stays as it is, so that
  `LoopOK` is proved once for all of them (`MoveKeeps`).
* `ConvertersAreBounded`: `Spec => []ConvertersBounded`. Counting the converters
  alone is not inductive: a converter may outlive its task. `SlotsOK` adds that while
  the loop waits whoever has a converter alive holds a slot; afterwards no task
  waits for a slot, and both counts only shrink (`Shrinks`).
* `RefusersAreLeftAlone`: `RefusersLeftAlone` if no host redirects to another
  (`NoRedirects`). `LocksOK` says that no two tasks hold the lock of one host, and
  that a task with a lock is not at a host that gave up.
* `ConversionImplements`: `Spec => ImplementsConvertBatch`, the step refinement of
  `ConvertBatch`, by `FatesExpected` and `StepImplements`, for both passes; TLC checks it of
  the pandoc pass.

`FetchProofs` proves, for every catalogue and every list of adapters:

* `DeadlineIsKept` and `RunsMeetTheDeadline`: `DeadlineKept`, for any timeouts,
  retries and backoff. `ClockInv` only adds that attempts are counted, but the pauses
  are powers of two, which no prover evaluates: `DelayNatural` counts them as the
  subsets of a set.
* `FetchTypeCorrect`: `TypeOK`, from `TypeInv`, which adds that a chunk of history ends
  where the covered history begins, also when it is resumed by another run.
* `PagesAreBounded`: `BudgetKept`. `AskedInv` relates `asked` at each phase to the
  pages of the walk and to `pages_left` of the history.
* `HistoryHasNoHole`: `NoHoleInHistory`, if the Hugging Face adapter does not walk back
  (`OthersWalkBack`), since its windows leave their last day out. `HoleInv` states the same of the draft and of
  the open chunks. The proof uses nothing of what the adapters return, so it holds for
  any way of paging.
* `CoverageImplemented` and `NothingIsSkipped`: `ImplementsCoverage` and
  `NothingSkipped`, for every adapter, in any windows, page sizes, budgets, outages and
  crashes, under two hypotheses that are explained below. The argument has three layers.
  An item has a `Rank` in the list of its server, a page takes the items of some ranks
  (`PageOfRanks`), and what of a window's list is known at one time is a beginning of what
  is known later (`ServedList`). So a cursor stands for a set of items, those it has
  passed (`Passed`: lower ranks, later days, or a page of the server and an index into
  it), and a usable page delivers what lies between two cursors, or to the end
  (`OffsetDelivers`, `DayDelivers`, `RawDelivers`, `TokenDelivers`, together `Delivers`).
  `CoverInv` then says of every cursor, whether committed, in the draft, of the window or
  of the chunk at work, that what it has passed is in the inventory or among the records
  and errors the run has at hand; and of every walked time that nothing of it is missing.
  It needs `Budget`, that the rest of a budget allows pages of the full size, and `TypeInv`
  and `AskedInv` for where a chunk begins and what is left of the budgets. TLC
  checked `CoverInv` on the instance of `fetch` before it was proved.

The hypotheses of these two theorems are what the code takes for granted when it resumes
a list by a place in it. The instance of `fetch` has both: `MCFetch` assumes the first, and
no configuration of `fetch` breaks the second.

* `SteadyServers`: a list does not change in front of a cursor. bioRxiv, Crossref and Semantic
  Scholar give dates without a time, so the items of a day are known on that day together;
  dblp and Papers With Code list in the order of publication, so lists grow at their end; and Hugging Face
  lists a paper on the day of its publication. bioRxiv has pages of some fixed size.
  Nothing is asked of arXiv, whose windows lie in the past when they are opened.
* `PagesKeepSize`: where a cursor counts pages of the size that is asked for (Hugging
  Face, and Papers With Code if its server honours `items_per_page`), the budget is enough
  for full pages: `max_pages * page_size <= max_results`, or pages of one item. The configuration of the
  template has 5 * 100 = 500. The one configuration of `skipped_page` has 2 * 2 > 3,
  and there the theorem's conclusion fails. `config.py` has no such check.

`BatchSelectionProofs` proves for any papers, costs and limits that the loop of
`select_batch` is right: `LongestPrefixSelected` and `BatchesAreNeverEmpty`. The loop
invariant says that what is selected is what was taken from the backlog so far, and fits;
`PrefixSelected` turns the first paper that does not fit into a statement on all longer
prefixes. The cost of a set is a fold, so the proofs count it as the size of a set of
units, which the library's facts on cardinality apply to.

`IngestProofs` proves, for every listing, every topic and any number of items a run:

* `NamesAreListed`: a row, and a markdown file, never has a name that no record gives. So
  identifiers have places, `Places1to1`, and the loop of `BatchSelection` runs over them:
  `BatchesAreLongest` and `BatchesTakeSomething`, which are `LongestPrefix` and
  `NeverEmpty` from the theorems of `BatchSelectionProofs` (`LoopSelects`). No run checks
  `NeverEmpty`: with limits that a single paper meets it is a case of `LongestPrefix`.
* `ArxivNamesAreKept`: `ArxivNamesSettle`, if no DOI is listed with the numbers of two
  arXiv papers (`OneNumberPerDoi`; with one, two entries merge under one of the names).
  `deduplicate` is a loop over sorted papers. `MergingKeeps` and `LoopKeeps` are its
  induction: what one merge keeps holds of the merged cluster, and what one iteration
  keeps of the outcome. They range over a set of good clusters and not over a predicate,
  and follow from finite sets having smallest parts. By them the paper of
  a cluster has an arXiv ID of its members that is no greater than any of theirs from
  arXiv (`StandsFor`), and a number is in one cluster only (`JoinMakesOne`, `WorksApart`).
* `OneEntryEach`: `OneEntryPerPaper`, that rows and works of the accepted records are one
  to one and each row is the best of its work with the IDs of all, under two hypotheses on
  what is listed. `IDsAgree`: records that share an ID give one arXiv number and one DOI
  between them. `TitlesAgree`: if their title is also that of a record without IDs, they
  agree on it. A row has room for one ID of each kind and one title (inventory.py:64), so
  without either TLC violates the property: two DOIs of one arXiv ID, or a record without
  IDs that comes after its title has been replaced by a better one, make a second
  entry.

  A row represents the records that share an ID with it, or those of its title that have
  no ID (`Group`): it has the name and title of the best and the IDs of all (`Stands`).
  The inductive invariant (`FitInv`) is that every row represents its group, that no two
  rows share an ID or, when one has none, a title, and that every accepted record is in a
  group (`Fits`). One run is a loop again, with the same statement about its clusters
  (`ClustersFit`): what an iteration joins represents the union of the groups it found
  (`JoinRepresents`, from a preference that is total and kept by `Merged`), the others do
  not meet it (`SumFits`, `OthersStay`, `SumSeparate`), so `JoinFits`. The loop starts
  without clusters and takes the old rows for their groups again (`Brings`), so its end
  fits all records accepted so far (`DeduplicateFits`). And the groups of rows that fit
  are the works: a group is linked, so no smaller set is closed (`LinkedTogether`,
  `ConnectedAreGroups`, `WorksAreGroups`).
* `RepeatsAreIdle`: `RepeatsChangeNothing`, under these and a third hypothesis,
  `TitlesTellApart`: records with IDs of one title and day, under which one without is
  listed, share an ID. Otherwise the one without joins whichever of the works was
  merged last, and the next delivery can move its categories to the other. A
  second part of the inductive invariant (`WholeInv`) says what else a row has: the
  categories of its group and of all records without IDs of its title (`Contributors`),
  and of several titles that a source gave one identifier the greatest, as the last in the
  order of processing is the one that stays (`Whole`). `ClustersGather` is its loop
  invariant, `DeduplicateIsWhole` its step. Rows that fit and are whole are determined by
  the accepted records (`RowsAreDetermined`), so a run that accepts no new one keeps them.
* `NamesAreUnique`: `IdentifiersUnique`, under `IDsAgree`, `TitlesAgree` and `NamesAgree`:
  a source does not change title or day of a record that has no IDs. Such a record is
  known by its title alone, not by the source's own ID that names it (`_strong_keys`,
  normalize.py:189-200), so a corrected title makes a second row with the identifier,
  and so the markdown file, of the first.

`MaintenanceProofs` proves, for any papers, shards and releases and any number of
changes of main:

* `MaintenanceTypeCorrect`: `TypeOK`.
* `CorpusRestored`: `CorpusComesBack`. The invariant says for each step of the script
  which part of the corpus is where: in the tree, in the backup, in `HEAD`. The trap may
  find it in either place, since a restoration that failed halfway is repeated.
* `UpdatesGoForward`: `UpdatesAreForward`, on top of it.
* `ShardsCombineAlways`: `ShardsCombine`. `ShardInv` says that the patch of a finished
  shard is the difference of its own files of the planned commit; each file has
  exactly one owner because the rank of a file has one remainder.
* `MergesAreSafe`: `MergesKeepCorpus`, from both.

Left to TLC: liveness, which depends on fairness and `ENABLED`. Every safety invariant and
action property of a passing run is proved.

## Not modelled

* alphaXiv sync, run summary, front matter: one-way output without a state that the
  program reads back.
* Legacy migration: a script run once by hand on a stopped corpus. Its hard part is
  matching titles of servers, which is data.
* Copier template and CI: files rendered once, and test workflows. `validate` and
  `preflight`: checks without effects.
* Torn writes of `papers.csv`, git's staging area, redirect counts and address checks
  of the downloader, the batch workspace, and the rewriting of markdown and figures,
  as said above.

## Running

```
tlc -config MCNightlyCI.cfg MCNightly
tlc -config MCConversionPdf.cfg MCConversion
tlc -config MCFetch.cfg MCFetch
tlc -config MCIngest.cfg MCIngest
tlc -config MCMaintenance.cfg MCMaintenance
tlapm NightlyProofs.tla
tlapm NightlyRunProofs.tla
tlapm CorpusProofs.tla
tlapm ConversionProofs.tla
tlapm FetchProofs.tla
tlapm BatchSelectionProofs.tla
tlapm IngestProofs.tla
tlapm MaintenanceProofs.tla
```
