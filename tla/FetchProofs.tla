---------------------------- MODULE FetchProofs ----------------------------
(***************************************************************************)
(* Proofs about the fetching of windows, for every catalogue and every     *)
(* list of adapters: the deadline, the budgets and the walk back, whatever *)
(* pages the adapters return; and, for servers whose lists are steady,     *)
(* that what is counted as walked is all in the inventory.                 *)
(***************************************************************************)
EXTENDS Fetch, FiniteSetTheorems, TLAPS

-----------------------------------------------------------------------------
(***************************************************************************)
(* The deadline of the run.                                                *)
(***************************************************************************)
\* The deadline holds, with attempts that are counted.
ClockInv == clock \in Nat /\ attempt \in 0 .. Retries /\ DeadlineKept

\* The pauses are natural numbers: there are 2^k sets of k numbers.
LEMMA DelayNatural == ASSUME attempt \in 0 .. Retries PROVE Delay \in Nat
<1>1. attempt \in Nat
  BY HttpAssumption
<1> DEFINE S == 1 .. attempt
<1>2. IsFiniteSet(S) /\ Cardinality(S) = attempt
  BY <1>1, FS_Interval
<1>3. IsFiniteSet(SUBSET S) /\ Cardinality(SUBSET S) = 2^attempt
  BY <1>2, FS_SUBSET
<1>4. 2^attempt \in Nat
  BY <1>3, FS_CardinalityType
<1> HIDE DEF S
<1> QED BY <1>4, HttpAssumption DEF Delay

\* What an attempt may take, when the deadline has not passed.
LEMMA AttemptBounded ==
  ASSUME clock \in Nat, ~Expired, NEW took \in Durations
  PROVE  took \in Nat /\ clock + took <= Deadline + Overrun
BY HttpAssumption DEF Expired, Remaining, Durations, RequestTimeout

\* A pause that there is time for ends before the deadline.
LEMMA PauseBounded ==
  ASSUME clock \in Nat, NEW took \in Nat, Delay \in Nat, ~NoTimeToSleep(took),
         clock + took <= Deadline + Overrun
  PROVE  clock + took + Delay <= Deadline + Overrun
BY HttpAssumption DEF NoTimeToSleep, Remaining

\* A new process starts its clock.
LEMMA ExitClock == ASSUME Exit PROVE ClockInv'
BY HttpAssumption DEF Exit, ClockInv, DeadlineKept

\* However requests fail and are repeated, the run's deadline is passed by the body of
\* one response at most (http.py:66-140).
THEOREM DeadlineIsKept == Spec => []ClockInv
<1>1. Init => ClockInv
  BY HttpAssumption DEF Init, ClientInit, ClockInv, DeadlineKept
<1>2. ClockInv /\ [Next]_vars => ClockInv'
  <2> SUFFICES ASSUME ClockInv, [Next]_vars PROVE ClockInv'
    OBVIOUS
  <2>1. ASSUME NEW took \in Durations, Answered(took) \/ GiveUp(took) PROVE ClockInv'
    BY <2>1, AttemptBounded, HttpAssumption DEF ClockInv, DeadlineKept, Answered, GiveUp
  <2>2. ASSUME NEW took \in Durations, Retry(took) PROVE ClockInv'
    <3>1. ~Expired /\ attempt < Retries /\ ~NoTimeToSleep(took)
          /\ clock' = clock + took + Delay /\ attempt' = attempt + 1
      BY <2>2 DEF Retry
    <3>2. took \in Nat /\ clock + took <= Deadline + Overrun /\ Delay \in Nat
      BY <3>1, AttemptBounded, DelayNatural DEF ClockInv
    <3>3. clock + took + Delay <= Deadline + Overrun
      BY <3>1, <3>2, PauseBounded DEF ClockInv
    <3> QED BY <3>1, <3>2, <3>3, HttpAssumption DEF ClockInv, DeadlineKept
  <2>3. CASE Refuse
    BY <2>3, HttpAssumption DEF ClockInv, DeadlineKept, Refuse
  <2>4. CASE Persist \/ Abort
    BY <2>4, ExitClock DEF Persist, Abort
  <2>5. CASE clock' = clock /\ attempt' = attempt
    BY <2>5 DEF ClockInv, DeadlineKept
  <2>6. CASE SourceUnavailable
    BY <2>6, <2>1, <2>3 DEF SourceUnavailable
  <2>7. ASSUME NEW took \in Durations, PageArrives(took) \/ RequestFails(took) PROVE ClockInv'
    BY <2>7, <2>1, <2>2 DEF PageArrives, RequestFails
  <2>8. CASE Tick \/ StartRun \/ OpenSource \/ FinishForward \/ FinishChunk \/ RecordSource
             \/ UNCHANGED vars
    <3>1. clock' = clock /\ attempt' = attempt
      BY <2>8 DEF Tick, StartRun, OpenSource, FinishForward, FinishChunk, RecordSource,
                  vars, clientVars
    <3> QED BY <3>1, <2>5
  <2> QED BY <2>4, <2>6, <2>7, <2>8 DEF Next, Step
<1> QED BY <1>1, <1>2, PTL DEF Spec

\* The invariant of the runs, by itself.
THEOREM RunsMeetTheDeadline == Spec => []DeadlineKept
<1>1. ClockInv => DeadlineKept
  BY DEF ClockInv
<1> QED BY <1>1, DeadlineIsKept, PTL

-----------------------------------------------------------------------------
(***************************************************************************)
(* Types.                                                                  *)
(***************************************************************************)
\* The records that the actions update, field by field.
IsWalk(wk) ==
  wk = [window |-> wk.window, cursor |-> wk.cursor, records |-> wk.records,
        errors |-> wk.errors, pages |-> wk.pages, results |-> wk.results,
        max_pages |-> wk.max_pages, max_results |-> wk.max_results, capped |-> wk.capped]
IsHistory(h) ==
  h = [active |-> h.active, covered_from |-> h.covered_from, continuation |-> h.continuation,
       records |-> h.records, errors |-> h.errors, walked |-> h.walked, origin |-> h.origin,
       pages_left |-> h.pages_left, results_left |-> h.results_left]
IsState(d) ==
  d = [continuations |-> d.continuations, backfill |-> d.backfill, records |-> d.records,
       walked |-> d.walked, origin |-> d.origin]

\* A capped chunk of history ends where the history that is covered begins.
ResumesAt(continuation, covered_from) ==
  continuation # None =>
    /\ Window(continuation[1].start, continuation[1].end) \in Windows
    /\ continuation[1].end = covered_from

StateOK(d) ==
  /\ CorpusOK(d) /\ IsState(d)
  /\ \A s \in Names : d.backfill[s] # None =>
       ResumesAt(d.backfill[s][1].continuation, d.backfill[s][1].covered_from)

HistoryOK(h) ==
  /\ IsHistory(h)
  /\ h.active \in BOOLEAN
  /\ h.covered_from \in Times0 /\ h.origin \in Times0
  /\ h.walked \subseteq Times0
  /\ ResumesAt(h.continuation, h.covered_from)

\* The types, inductive but for the clock.
TypeInv ==
  /\ config \in Configs
  /\ now \in FirstRun .. Horizon
  /\ StateOK(saved) /\ StateOK(draft)
  /\ phase \in Phases
  /\ source \in 1 .. Len(config) + 1
  /\ phase \notin {"idle", "source"} => source <= Len(config)
  /\ IsWalk(walk) /\ walk.window \in Windows
  /\ IsWalk(forward) /\ forward.window \in Windows
  /\ HistoryOK(history)
  /\ phase \in {"history", "chunked"} =>
       history.active /\ walk.window.end = history.covered_from
  /\ asked \in Nat /\ mishaps \in 0 .. MaxMishaps

\* Optional values.
LEMMA SomeIsNotNone == \A x : Some(x) # None /\ Some(x)[1] = x
BY DEF Some, None

\* The bounds of time.
LEMMA TimesAreNatural == Times0 \subseteq Nat /\ 0 \in Times0
BY FetchAssumption DEF Times0

\* The adapter at work is one that papers.yml may have.
LEMMA AdapterAtWork ==
  ASSUME TypeInv, source <= Len(config)
  PROVE  /\ AdapterConfig(cfg) /\ cfg.name \in Names
         /\ source \in DOMAIN config /\ Len(config) \in Nat
BY FetchAssumption DEF TypeInv, cfg, AdapterConfig, Names

\* The shape of a new walk and of a new history.
LEMMA NewWalk ==
  ASSUME NEW w, NEW cursor, NEW pages, NEW results
  PROVE  /\ IsWalk(Walk(w, cursor, pages, results))
         /\ Walk(w, cursor, pages, results).window = w
         /\ Walk(w, cursor, pages, results).pages = 0
         /\ Walk(w, cursor, pages, results).max_pages = pages
BY DEF Walk, IsWalk

\* A history that begins.
LEMMA NewHistory ==
  ASSUME NEW active \in BOOLEAN, NEW covered_from \in Times0
  PROVE  /\ HistoryOK(History(active, covered_from))
         /\ History(active, covered_from).active = active
         /\ History(active, covered_from).covered_from = covered_from
         /\ History(active, covered_from).origin = covered_from
         /\ History(active, covered_from).walked = {}
         /\ History(active, covered_from).pages_left =
              IF active THEN cfg.max_pages ELSE 0
BY DEF History, HistoryOK, IsHistory, ResumesAt

\* A page changes neither the window of a walk nor its budget.
LEMMA TurnedWalk ==
  ASSUME IsWalk(walk), NEW page
  PROVE  /\ IsWalk(Turned(page))
         /\ Turned(page).window = walk.window
         /\ Turned(page).pages = walk.pages + 1
         /\ Turned(page).max_pages = walk.max_pages
         /\ ~WalkEnded(Turned(page)) => ~(walk.pages + 1 >= walk.max_pages)
<1> DEFINE T == [walk EXCEPT !.records = @ \cup page.records,
                             !.errors  = @ \cup page.errors,
                             !.pages   = @ + 1,
                             !.results = @ + Cardinality(page.records),
                             !.cursor  = page.next_cursor]
<1>1. IsWalk(T) /\ T.window = walk.window /\ T.pages = walk.pages + 1
      /\ T.max_pages = walk.max_pages /\ T.cursor = page.next_cursor
  <2> DEFINE A == [walk EXCEPT !.records = @ \cup page.records]
             B == [A EXCEPT !.errors  = @ \cup page.errors]
             C == [B EXCEPT !.pages   = @ + 1]
             D == [C EXCEPT !.results = @ + Cardinality(page.records)]
             E == [D EXCEPT !.cursor  = page.next_cursor]
  <2>1. IsWalk(A) /\ A.window = walk.window /\ A.pages = walk.pages
        /\ A.max_pages = walk.max_pages
    BY DEF IsWalk
  <2>2. IsWalk(B) /\ B.window = A.window /\ B.pages = A.pages /\ B.max_pages = A.max_pages
    <3> DEFINE errors == A.errors \cup page.errors
    <3>1. B = [A EXCEPT !.errors = errors]
      BY Zenon
    <3> HIDE DEF A, B, errors
    <3> QED BY SMTT(40), <2>1, <3>1 DEF IsWalk
  <2>3. IsWalk(C) /\ C.window = B.window /\ C.pages = B.pages + 1 /\ C.max_pages = B.max_pages
    <3> HIDE DEF B
    <3> QED BY <2>2 DEF IsWalk
  <2>4. IsWalk(D) /\ D.window = C.window /\ D.pages = C.pages /\ D.max_pages = C.max_pages
    <3> HIDE DEF C
    <3> QED BY <2>3 DEF IsWalk
  <2>5. IsWalk(E) /\ E.window = D.window /\ E.pages = D.pages /\ E.max_pages = D.max_pages
        /\ E.cursor = page.next_cursor
    <3> HIDE DEF D
    <3> QED BY <2>4 DEF IsWalk
  <2>6. T = E
    BY Zenon DEF A, B, C, D, E
  <2> HIDE DEF A, B, C, D, E, T
  <2> QED BY <2>1, <2>2, <2>3, <2>4, <2>5, <2>6
<1> DEFINE ended == \/ page.capped
                    \/ page.next_cursor # None /\ (Left(T) <= 0 \/ T.pages >= T.max_pages)
<1>2. Turned(page) = [T EXCEPT !.capped = ended]
  BY Zenon DEF Turned
<1>3. page.next_cursor # None /\ ~ended => ~(T.pages >= T.max_pages)
  OBVIOUS
<1> HIDE DEF T, ended
<1>4. Turned(page).capped = ended /\ Turned(page).cursor = T.cursor
      /\ Turned(page).window = T.window /\ Turned(page).pages = T.pages
      /\ Turned(page).max_pages = T.max_pages /\ IsWalk(Turned(page))
  BY <1>1, <1>2 DEF IsWalk
<1> QED BY <1>1, <1>3, <1>4 DEF WalkEnded

\* The windows of a forward walk.
LEMMA ForwardWalkOK ==
  ASSUME TypeInv, source <= Len(config)
  PROVE  /\ IsWalk(ForwardWalk) /\ ForwardWalk.window \in Windows
         /\ ForwardWalk.pages = 0 /\ ForwardWalk.max_pages = cfg.max_pages
<1>1. AdapterConfig(cfg) /\ cfg.name \in Names
  BY AdapterAtWork
<1>2. now - cfg.lookback \in Times0 /\ now \in Times0
  BY <1>1, FetchAssumption DEF TypeInv, AdapterConfig, Times0
<1> DEFINE c == draft.continuations[cfg.name]
<1>3. c # None => Window(c[1].start, c[1].end) \in Windows
  BY <1>1 DEF TypeInv, StateOK, CorpusOK
<1> HIDE DEF c
<1>4. ForwardWalk = IF c # None
        THEN Walk(Window(c[1].start, c[1].end), Some(c[1].cursor), cfg.max_pages, cfg.max_results)
        ELSE Walk(Window(now - cfg.lookback, now), None, cfg.max_pages, cfg.max_results)
  BY DEF ForwardWalk, c
<1>5. Window(now - cfg.lookback, now) \in Windows
  BY <1>2 DEF Window, Windows
<1> QED BY <1>3, <1>4, <1>5, NewWalk

\* The history that is asked for begins at a time of the run.
LEMMA LimitOK ==
  ASSUME AdapterConfig(cfg), cfg.backfill_start # None
  PROVE  Limit \in Times0
<1>1. cfg.backfill_start[1] \in 0 .. Horizon \div 2
  BY DEF AdapterConfig
<1>2. \A day \in 0 .. Horizon \div 2 : 2 * day \in 0 .. Horizon
  BY FetchAssumption
<1> QED BY <1>1, <1>2 DEF Limit, Times0

\* Chunks of history end where the history that is covered begins.
LEMMA PlanOK ==
  ASSUME AdapterConfig(cfg), NEW progress, NEW forward_start \in Times0,
         progress # None => /\ progress[1].covered_from \in Times0
                            /\ ResumesAt(progress[1].continuation, progress[1].covered_from),
         BackfillPlan(progress, forward_start) # None
  PROVE  LET plan == BackfillPlan(progress, forward_start) IN
         /\ Boundary(progress, forward_start) \in Times0
         /\ plan[1].window \in Windows
         /\ plan[1].window.end = Boundary(progress, forward_start)
<1> DEFINE covered_from == Boundary(progress, forward_start)
           c == progress[1].continuation[1]
<1>1. covered_from \in Times0
  BY DEF Boundary
<1>2. cfg.backfill_start # None
  BY DEF BackfillPlan
<1>3. Limit \in Times0
  BY <1>2, LimitOK
<1>4. CASE progress # None /\ progress[1].continuation # None
  <2>1. BackfillPlan(progress, forward_start) =
          Some([window |-> Window(c.start, c.end), cursor |-> Some(c.cursor)])
    BY <1>2, <1>4 DEF BackfillPlan
  <2>2. Window(c.start, c.end) \in Windows /\ c.end = covered_from
    BY <1>4 DEF ResumesAt, Boundary
  <2> HIDE DEF c, covered_from
  <2>3. Window(c.start, c.end).end = covered_from
    BY <2>2 DEF Window
  <2> QED BY <1>1, <2>1, <2>2, <2>3, SomeIsNotNone DEF covered_from
<1>5. CASE ~(progress # None /\ progress[1].continuation # None)
  <2>1. /\ ~(covered_from <= Limit)
        /\ BackfillPlan(progress, forward_start) =
             Some([window |-> Window(ChunkStart(covered_from), covered_from), cursor |-> None])
    BY <1>2, <1>5 DEF BackfillPlan
  <2> HIDE DEF covered_from
  <2>2. ChunkStart(covered_from) \in Times0
    BY <2>1, <1>1, <1>3, FetchAssumption DEF ChunkStart, AdapterConfig, Times0
  <2>3. Window(ChunkStart(covered_from), covered_from) \in Windows
        /\ Window(ChunkStart(covered_from), covered_from).end = covered_from
    BY <2>2, <1>1 DEF Window, Windows
  <2> QED BY <1>1, <2>1, <2>3, SomeIsNotNone DEF covered_from
<1> QED BY <1>4, <1>5

\* The progress of the draft is one that a plan is made from.
LEMMA ProgressOK ==
  ASSUME TypeInv, source <= Len(config), draft.backfill[cfg.name] # None
  PROVE  /\ draft.backfill[cfg.name][1].covered_from \in Times0
         /\ ResumesAt(draft.backfill[cfg.name][1].continuation,
                      draft.backfill[cfg.name][1].covered_from)
BY AdapterAtWork DEF TypeInv, StateOK, CorpusOK

\* The walks and histories of the next chunk.
LEMMA ChunkWalk ==
  ASSUME NEW plan, NEW pages, NEW results
  PROVE  /\ IsWalk(Chunk(plan, pages, results))
         /\ Chunk(plan, pages, results).window = plan[1].window
         /\ Chunk(plan, pages, results).pages = 0
         /\ Chunk(plan, pages, results).max_pages = pages
BY NewWalk DEF Chunk

\* A window accounts for none but its own times.
LEMMA TimesOfWindow ==
  ASSUME NEW w \in Windows
  PROVE  Times(w) \subseteq Times0
BY FetchAssumption DEF Times, Windows, Times0

\* A chunk is counted in a history that stays one.
LEMMA ChunkCounted ==
  ASSUME HistoryOK(history), walk.window \in Windows, walk.window.end = history.covered_from
  PROVE  /\ HistoryOK(AfterChunk)
         /\ AfterChunk.active = history.active /\ AfterChunk.origin = history.origin
         /\ AfterChunk.covered_from =
              IF walk.cursor = None THEN walk.window.start ELSE history.covered_from
         /\ AfterChunk.walked =
              IF walk.cursor = None THEN history.walked \cup Times(walk.window) ELSE history.walked
         /\ AfterChunk.pages_left = history.pages_left - walk.pages
<1> DEFINE done == walk.cursor = None
           continuation == IF done THEN None
                           ELSE Some(Continuation(walk.cursor[1], walk.window))
           covered_from == IF done THEN walk.window.start ELSE history.covered_from
           times        == IF done THEN history.walked \cup Times(walk.window) ELSE history.walked
           records      == history.records \cup walk.records
           errors       == history.errors \cup walk.errors
           pages        == history.pages_left - walk.pages
           results      == history.results_left - walk.results
<1>1. AfterChunk = [history EXCEPT !.records = records, !.errors = errors,
                      !.pages_left = pages, !.results_left = results,
                      !.continuation = continuation, !.covered_from = covered_from,
                      !.walked = times]
  BY Zenon DEF AfterChunk, Account
<1>2. covered_from \in Times0 /\ times \subseteq Times0
  BY TimesOfWindow DEF Windows, HistoryOK
<1>3. ResumesAt(continuation, covered_from)
  <2>1. CASE done
    BY <2>1 DEF ResumesAt
  <2>2. CASE ~done
    <3> DEFINE c == Continuation(walk.cursor[1], walk.window)
    <3>1. c.start = walk.window.start /\ c.end = walk.window.end
      BY DEF Continuation
    <3>2. Window(c.start, c.end) \in Windows
      BY <3>1 DEF Window, Windows
    <3> HIDE DEF c
    <3>3. continuation[1] = c
      BY <2>2, SomeIsNotNone DEF c
    <3> QED BY <2>2, <3>1, <3>2, <3>3 DEF ResumesAt
  <2> QED BY <2>1, <2>2
<1> HIDE DEF done, continuation, covered_from, times, records, errors, pages, results
<1>4. AfterChunk = [active |-> history.active, covered_from |-> covered_from,
                    continuation |-> continuation, records |-> records, errors |-> errors,
                    walked |-> times, origin |-> history.origin, pages_left |-> pages,
                    results_left |-> results]
  BY <1>1 DEF HistoryOK, IsHistory
<1>5. /\ IsHistory(AfterChunk) /\ AfterChunk.continuation = continuation
      /\ AfterChunk.active = history.active /\ AfterChunk.origin = history.origin
      /\ AfterChunk.covered_from = covered_from /\ AfterChunk.walked = times
      /\ AfterChunk.pages_left = pages
  BY <1>4 DEF IsHistory
<1>6. HistoryOK(AfterChunk)
  BY <1>2, <1>3, <1>5 DEF HistoryOK
<1> QED BY <1>5, <1>6 DEF covered_from, times, pages, done

\* The state with the forward window of the adapter.
LEMMA ForwardRecorded ==
  ASSUME NEW d, IsState(d)
  PROVE  /\ IsState(WithForward(d))
         /\ WithForward(d).backfill = d.backfill /\ WithForward(d).origin = d.origin
         /\ WithForward(d).continuations = [d.continuations EXCEPT ![cfg.name] =
              IF forward.cursor # None
              THEN Some(Continuation(forward.cursor[1], forward.window)) ELSE None]
         /\ WithForward(d).records =
              [d.records EXCEPT ![cfg.name] = @ \cup forward.records \cup forward.errors]
         /\ WithForward(d).walked = [d.walked EXCEPT ![cfg.name] =
              IF forward.cursor = None THEN @ \cup Times(forward.window) ELSE @]
<1> DEFINE continuations == [d.continuations EXCEPT ![cfg.name] =
              IF forward.cursor # None
              THEN Some(Continuation(forward.cursor[1], forward.window)) ELSE None]
           records == [d.records EXCEPT ![cfg.name] = @ \cup forward.records \cup forward.errors]
           walked_ == [d.walked EXCEPT ![cfg.name] =
              IF forward.cursor = None THEN @ \cup Times(forward.window) ELSE @]
<1>1. WithForward(d) = [d EXCEPT !.continuations = continuations, !.records = records,
                                 !.walked = walked_]
  BY DEF WithForward
<1> HIDE DEF continuations, records, walked_
<1>2. WithForward(d) = [continuations |-> continuations, backfill |-> d.backfill,
                        records |-> records, walked |-> walked_, origin |-> d.origin]
  BY <1>1 DEF IsState
<1>3. /\ IsState(WithForward(d))
      /\ WithForward(d).backfill = d.backfill /\ WithForward(d).origin = d.origin
      /\ WithForward(d).continuations = continuations /\ WithForward(d).records = records
      /\ WithForward(d).walked = walked_
  BY <1>2 DEF IsState
<1> QED BY <1>3 DEF continuations, records, walked_

\* The state with the history of the adapter.
LEMMA HistoryRecorded ==
  ASSUME NEW d, IsState(d), history.active
  PROVE  /\ IsState(WithHistory(d))
         /\ WithHistory(d).continuations = d.continuations
         /\ WithHistory(d).backfill = [d.backfill EXCEPT ![cfg.name] =
              Some(Progress(history.covered_from, history.continuation))]
         /\ WithHistory(d).records =
              [d.records EXCEPT ![cfg.name] = @ \cup history.records \cup history.errors]
         /\ WithHistory(d).walked = [d.walked EXCEPT ![cfg.name] = @ \cup history.walked]
         /\ WithHistory(d).origin = [d.origin EXCEPT ![cfg.name] =
              IF @ = None THEN Some(history.origin) ELSE @]
<1> DEFINE backfill == [d.backfill EXCEPT ![cfg.name] =
              Some(Progress(history.covered_from, history.continuation))]
           records == [d.records EXCEPT ![cfg.name] = @ \cup history.records \cup history.errors]
           walked_ == [d.walked EXCEPT ![cfg.name] = @ \cup history.walked]
           origin == [d.origin EXCEPT ![cfg.name] = IF @ = None THEN Some(history.origin) ELSE @]
<1>1. WithHistory(d) = [d EXCEPT !.backfill = backfill, !.records = records,
                                 !.walked = walked_, !.origin = origin]
  BY DEF WithHistory
<1> HIDE DEF backfill, records, walked_, origin
<1>2. WithHistory(d) = [continuations |-> d.continuations, backfill |-> backfill,
                        records |-> records, walked |-> walked_, origin |-> origin]
  BY <1>1 DEF IsState
<1>3. /\ IsState(WithHistory(d)) /\ WithHistory(d).continuations = d.continuations
      /\ WithHistory(d).backfill = backfill /\ WithHistory(d).records = records
      /\ WithHistory(d).walked = walked_ /\ WithHistory(d).origin = origin
  BY <1>2 DEF IsState
<1> QED BY <1>3 DEF backfill, records, walked_, origin

\* The forward window leaves a state well formed.
LEMMA ForwardStateOK ==
  ASSUME NEW d, StateOK(d), cfg.name \in Names, forward.window \in Windows
  PROVE  StateOK(WithForward(d))
<1> DEFINE e == WithForward(d)
           kept == Continuation(forward.cursor[1], forward.window)
<1>1. /\ IsState(e) /\ e.backfill = d.backfill /\ e.origin = d.origin
      /\ e.continuations = [d.continuations EXCEPT ![cfg.name] =
           IF forward.cursor # None THEN Some(kept) ELSE None]
      /\ e.records = [d.records EXCEPT ![cfg.name] = @ \cup forward.records \cup forward.errors]
      /\ e.walked = [d.walked EXCEPT ![cfg.name] =
           IF forward.cursor = None THEN @ \cup Times(forward.window) ELSE @]
  BY ForwardRecorded DEF StateOK
<1>2. Window(kept.start, kept.end) \in Windows
  BY DEF Window, Windows, Continuation
<1> HIDE DEF e, kept
<1>3. /\ DOMAIN e.continuations = Names /\ DOMAIN e.backfill = Names
      /\ DOMAIN e.records = Names /\ DOMAIN e.walked = Names /\ DOMAIN e.origin = Names
  BY <1>1 DEF StateOK, CorpusOK
<1>4. ASSUME NEW s \in Names, e.continuations[s] # None
      PROVE  Window(e.continuations[s][1].start, e.continuations[s][1].end) \in Windows
  BY <1>1, <1>2, <1>4, SomeIsNotNone DEF StateOK, CorpusOK
<1>5. ASSUME NEW s \in Names PROVE e.walked[s] \subseteq Times0
  BY <1>1, TimesOfWindow DEF StateOK, CorpusOK
<1>6. CorpusOK(e)
  BY <1>1, <1>3, <1>4, <1>5 DEF StateOK, CorpusOK
<1> QED BY <1>1, <1>6 DEF StateOK, e

\* So does its history.
LEMMA HistoryStateOK ==
  ASSUME NEW d, StateOK(d), cfg.name \in Names, HistoryOK(history)
  PROVE  StateOK(WithHistory(d))
<1>1. CASE ~history.active
  BY <1>1 DEF WithHistory
<1>2. CASE history.active
  <2> DEFINE e == WithHistory(d)
             progress == Progress(history.covered_from, history.continuation)
  <2>1. /\ IsState(e) /\ e.continuations = d.continuations
        /\ e.backfill = [d.backfill EXCEPT ![cfg.name] = Some(progress)]
        /\ e.records = [d.records EXCEPT ![cfg.name] = @ \cup history.records \cup history.errors]
        /\ e.walked = [d.walked EXCEPT ![cfg.name] = @ \cup history.walked]
        /\ e.origin = [d.origin EXCEPT ![cfg.name] = IF @ = None THEN Some(history.origin) ELSE @]
    BY <1>2, HistoryRecorded DEF StateOK
  <2>2. /\ progress.covered_from = history.covered_from
        /\ progress.continuation = history.continuation
    BY DEF Progress
  <2> HIDE DEF e, progress
  <2>3. /\ DOMAIN e.continuations = Names /\ DOMAIN e.backfill = Names
        /\ DOMAIN e.records = Names /\ DOMAIN e.walked = Names /\ DOMAIN e.origin = Names
    BY <2>1 DEF StateOK, CorpusOK
  <2>4. ASSUME NEW s \in Names, e.backfill[s] # None
        PROVE  /\ e.backfill[s][1].covered_from \in Times0
               /\ ResumesAt(e.backfill[s][1].continuation, e.backfill[s][1].covered_from)
    <3>1. CASE s = cfg.name
      <4>1. e.backfill[s][1] = progress
        BY <2>1, <3>1, SomeIsNotNone DEF StateOK, CorpusOK
      <4> QED BY <2>2, <4>1 DEF HistoryOK
    <3>2. CASE s # cfg.name
      <4>1. e.backfill[s] = d.backfill[s]
        BY <2>1, <3>2 DEF StateOK, CorpusOK
      <4> QED BY <2>4, <4>1 DEF StateOK, CorpusOK
    <3> QED BY <3>1, <3>2
  <2>5. ASSUME NEW s \in Names PROVE e.walked[s] \subseteq Times0
    BY <2>1 DEF StateOK, CorpusOK, HistoryOK
  <2>6. ASSUME NEW s \in Names, e.origin[s] # None PROVE e.origin[s][1] \in Times0
    BY <2>1, <2>6, SomeIsNotNone DEF StateOK, CorpusOK, HistoryOK
  <2>7. CorpusOK(e)
    BY <2>1, <2>3, <2>4, <2>5, <2>6 DEF StateOK, CorpusOK
  <2> QED BY <2>1, <2>4, <2>7 DEF StateOK, e
<1> QED BY <1>1, <1>2

\* Nothing is fetched.
LEMMA NoWalkOK == IsWalk(NoWalk) /\ NoWalk.window \in Windows
BY NewWalk, TimesAreNatural DEF NoWalk, Window, Windows

\* The state file of a new corpus.
LEMMA InitTyped == ASSUME Init PROVE TypeInv
<1> DEFINE d == [continuations |-> Fresh, backfill |-> Fresh,
                 records |-> [s \in Names |-> {}], walked |-> [s \in Names |-> {}],
                 origin |-> Fresh]
<1>1. StateOK(d)
  BY DEF StateOK, CorpusOK, IsState, Fresh
<1> HIDE DEF d
<1>2. saved = d /\ draft = d
  BY DEF Init, d
<1>3. HistoryOK(history)
  BY NewHistory, TimesAreNatural DEF Init
<1>4. source \in 1 .. Len(config) + 1
  BY FetchAssumption DEF Init
<1>5. /\ config \in Configs /\ now = FirstRun /\ phase = "idle"
      /\ walk = NoWalk /\ forward = NoWalk /\ asked = 0 /\ mishaps = 0
  BY DEF Init
<1>6. now \in FirstRun .. Horizon /\ mishaps \in 0 .. MaxMishaps
  BY <1>5, FetchAssumption
<1> QED BY <1>1, <1>2, <1>3, <1>4, <1>5, <1>6, NoWalkOK DEF TypeInv, Phases

\* The end of a process leaves nothing but the state file.
LEMMA ExitTyped ==
  ASSUME TypeInv, Exit, config' = config, now' = now, saved' \in {saved, draft},
         mishaps' \in 0 .. MaxMishaps
  PROVE  TypeInv'
<1>1. HistoryOK(History(FALSE, 0))
  BY NewHistory, TimesAreNatural
<1>2. source' \in 1 .. Len(config) + 1
  BY FetchAssumption DEF Exit, TypeInv
<1> QED BY <1>1, <1>2, NoWalkOK DEF Exit, TypeInv, Phases

\* Types are inductive.
LEMMA TypeStep == ASSUME TypeInv, ClockInv, [Next]_vars PROVE TypeInv'
<1>1. CASE Tick
  BY <1>1, FetchAssumption DEF Tick, TypeInv, vars
<1>2. CASE StartRun
  BY <1>2 DEF StartRun, TypeInv, runVars, Phases
<1>3. CASE OpenSource
  <2>1. HistoryOK(History(FALSE, 0))
    BY NewHistory, TimesAreNatural
  <2>2. source <= Len(config)
    BY <1>3 DEF OpenSource
  <2>3. IsWalk(ForwardWalk) /\ ForwardWalk.window \in Windows
    BY <2>2, ForwardWalkOK
  <2> QED BY <1>3, <2>1, <2>2, <2>3 DEF OpenSource, TypeInv, runVars, Phases
<1>4. CASE FinishForward
  <2>1. source <= Len(config)
    BY <1>4 DEF FinishForward, TypeInv
  <2> DEFINE progress == draft.backfill[cfg.name]
             plan     == BackfillPlan(progress, walk.window.start)
  <2>2. walk.window.start \in Times0
    BY DEF TypeInv, Windows
  <2>3. CASE plan = None
    BY <1>4, <2>1, <2>3 DEF FinishForward, TypeInv, runVars, Phases
  <2>4. CASE plan # None
    <3>1. /\ Boundary(progress, walk.window.start) \in Times0 /\ plan[1].window \in Windows
          /\ plan[1].window.end = Boundary(progress, walk.window.start)
      BY <2>1, <2>2, <2>4, AdapterAtWork, ProgressOK, PlanOK
    <3> DEFINE h == History(TRUE, Boundary(progress, walk.window.start))
               w == Chunk(plan, cfg.max_pages, cfg.max_results)
    <3>2. HistoryOK(h) /\ h.active /\ h.covered_from = Boundary(progress, walk.window.start)
      BY <3>1, NewHistory
    <3>3. IsWalk(w) /\ w.window = plan[1].window
      BY ChunkWalk
    <3>4. /\ phase' = "history" /\ history' = h /\ walk' = w /\ forward' = walk
          /\ UNCHANGED <<runVars, source, draft, asked, mishaps>>
      BY <1>4, <2>4 DEF FinishForward
    <3> HIDE DEF h, w, plan, progress
    <3> QED BY <2>1, <3>1, <3>2, <3>3, <3>4 DEF TypeInv, runVars, Phases
  <2> QED BY <2>3, <2>4
<1>5. CASE FinishChunk
  <2>1. source <= Len(config)
    BY <1>5 DEF FinishChunk, TypeInv
  <2>2. HistoryOK(AfterChunk) /\ AfterChunk.active = history.active
    BY <1>5, ChunkCounted DEF FinishChunk, TypeInv
  <2> DEFINE progress == Some(Progress(AfterChunk.covered_from, None))
             plan     == BackfillPlan(progress, forward.window.start)
             w        == Chunk(plan, AfterChunk.pages_left, AfterChunk.results_left)
  <2>3. CASE phase' = "fetched" /\ walk' = walk
    BY <1>5, <2>1, <2>2, <2>3 DEF FinishChunk, TypeInv, runVars, Phases
  <2>4. CASE phase' = "history" /\ walk' = w /\ plan # None
    <3>1. forward.window.start \in Times0
      BY DEF TypeInv, Windows
    <3>2. /\ progress # None /\ progress[1].covered_from = AfterChunk.covered_from
          /\ progress[1].continuation = None
      BY SomeIsNotNone DEF Progress
    <3>3. /\ progress[1].covered_from \in Times0
          /\ ResumesAt(progress[1].continuation, progress[1].covered_from)
      BY <2>2, <3>2 DEF HistoryOK, ResumesAt
    <3>4. AdapterConfig(cfg)
      BY <2>1, AdapterAtWork
    <3> HIDE DEF progress
    <3>5. Boundary(progress, forward.window.start) = AfterChunk.covered_from
      BY <3>2 DEF Boundary
    <3>6. plan[1].window \in Windows /\ plan[1].window.end = AfterChunk.covered_from
      BY <2>4, <3>1, <3>3, <3>4, <3>5, PlanOK
    <3>7. IsWalk(w) /\ w.window = plan[1].window
      BY ChunkWalk
    <3>8. /\ history' = AfterChunk
          /\ UNCHANGED <<runVars, source, draft, forward, asked, mishaps>>
      BY <1>5 DEF FinishChunk
    <3>9. history.active
      BY <1>5 DEF FinishChunk, TypeInv
    <3>10. history'.active /\ walk'.window.end = history'.covered_from
           /\ IsWalk(walk') /\ walk'.window \in Windows /\ HistoryOK(history')
      <4> HIDE DEF plan, w
      <4> QED BY <2>2, <2>4, <3>6, <3>7, <3>8, <3>9
    <3> HIDE DEF plan, w
    <3> QED BY <2>1, <2>4, <3>8, <3>10 DEF TypeInv, runVars, Phases
  <2> QED BY <1>5, <2>3, <2>4 DEF FinishChunk
<1>6. CASE RecordSource
  <2>1. source <= Len(config)
    BY <1>6 DEF RecordSource, TypeInv
  <2>2. StateOK(WithHistory(WithForward(draft)))
    BY <2>1, AdapterAtWork, ForwardStateOK, HistoryStateOK DEF TypeInv
  <2>3. source + 1 \in 1 .. Len(config) + 1
    BY <2>1, AdapterAtWork DEF TypeInv
  <2> QED BY <1>6, <2>2, <2>3 DEF RecordSource, TypeInv, runVars, Phases
<1>7. CASE Persist
  BY <1>7, ExitTyped DEF Persist, TypeInv
<1>8. CASE Abort
  <2>1. mishaps' \in 0 .. MaxMishaps
    BY <1>8, FetchAssumption DEF Abort, TypeInv
  <2> QED BY <1>8, <2>1, ExitTyped DEF Abort, runVars
<1>9. ASSUME NEW took \in Durations, PageArrives(took) PROVE TypeInv'
  <2>1. ~Expired /\ took \in Nat
    BY <1>9, AttemptBounded DEF PageArrives, Answered, ClockInv
  <2>2. mishaps' \in 0 .. MaxMishaps
    BY <1>9, <2>1, FetchAssumption DEF PageArrives, Counted, TypeInv
  <2>3. walk' = Turned(NextPage) /\ UNCHANGED <<runVars, source, draft, forward, history>>
        /\ asked' = asked + 1
    BY <1>9 DEF PageArrives
  <2>4. phase \in {"forward", "history"}
        /\ phase' \in {"forward", "forwarded", "history", "chunked"}
        /\ (phase = "forward" => phase' \in {"forward", "forwarded"})
    BY <1>9 DEF PageArrives, Fetching
  <2>5. IsWalk(walk') /\ walk'.window = walk.window
    BY <2>3, TurnedWalk DEF TypeInv
  <2> QED BY <2>2, <2>3, <2>4, <2>5 DEF TypeInv, runVars, Phases
<1>10. ASSUME NEW took \in Durations, RequestFails(took) PROVE TypeInv'
  BY <1>10, FetchAssumption DEF RequestFails, TypeInv, runVars
<1>11. CASE SourceUnavailable
  <2>1. source <= Len(config)
    BY <1>11 DEF SourceUnavailable, Fetching, TypeInv
  <2>2. source + 1 \in 1 .. Len(config) + 1
    BY <2>1, AdapterAtWork DEF TypeInv
  <2>3. mishaps' \in 0 .. MaxMishaps
    BY <1>11, FetchAssumption DEF SourceUnavailable, TypeInv
  <2> QED BY <1>11, <2>2, <2>3 DEF SourceUnavailable, TypeInv, runVars, Phases
<1>12. CASE UNCHANGED vars
  BY <1>12 DEF vars, TypeInv
<1> QED BY <1>1, <1>2, <1>3, <1>4, <1>5, <1>6, <1>7, <1>8, <1>9, <1>10, <1>11, <1>12 DEF Next, Step

\* TypeInv always holds.
LEMMA TypedAlways == Spec => []TypeInv
<1>1. Init => TypeInv
  BY InitTyped
<1>2. TypeInv /\ ClockInv /\ [Next]_vars => TypeInv'
  BY TypeStep
<1> QED BY <1>1, <1>2, DeadlineIsKept, PTL DEF Spec

\* The state file, the draft of the next one and the windows at work are well formed in
\* every run (fetch.py:86-197).
THEOREM FetchTypeCorrect == Spec => []TypeOK
<1>1. TypeInv /\ ClockInv => TypeOK
  BY FetchAssumption DEF TypeInv, ClockInv, TypeOK, StateOK, HistoryOK, Times0
<1> QED BY <1>1, TypedAlways, DeadlineIsKept, PTL

-----------------------------------------------------------------------------
(***************************************************************************)
(* The budget of pages.  Chunks of history share one budget, from which    *)
(* each takes what it asked for, and a walk ends at the latest with it.    *)
(***************************************************************************)
AskedInv ==
  /\ walk.pages \in Nat
  /\ phase = "forward" =>
       /\ walk.max_pages = cfg.max_pages /\ walk.pages < walk.max_pages
       /\ asked = walk.pages
  /\ phase = "forwarded" => asked <= cfg.max_pages
  /\ phase \in {"history", "chunked"} =>
       /\ walk.max_pages = history.pages_left /\ history.pages_left \in Int
       /\ asked + history.pages_left <= 2 * cfg.max_pages + walk.pages
  /\ phase = "history" => walk.pages < history.pages_left
  /\ phase = "chunked" => walk.pages <= history.pages_left
  /\ phase = "fetched" => asked <= 2 * cfg.max_pages

\* A process that ends has asked for nothing yet.
LEMMA ExitAsked == ASSUME Exit PROVE AskedInv'
BY NewWalk DEF Exit, NoWalk, AskedInv

\* Pages are counted, and chunks share their budget.
LEMMA AskedStep == ASSUME TypeInv, AskedInv, [Next]_vars PROVE AskedInv'
<1>0. asked \in Nat /\ walk.pages \in Nat
  BY DEF TypeInv, AskedInv
<1>1. CASE Tick \/ UNCHANGED vars
  BY <1>1 DEF Tick, vars, AskedInv, cfg
<1>2. CASE StartRun
  BY <1>2 DEF StartRun, AskedInv
<1>3. CASE OpenSource
  <2>1. source <= Len(config)
    BY <1>3 DEF OpenSource
  <2>2. cfg.max_pages \in Nat \ {0} /\ ForwardWalk.pages = 0
        /\ ForwardWalk.max_pages = cfg.max_pages
    BY <2>1, AdapterAtWork, ForwardWalkOK DEF AdapterConfig
  <2>3. phase' = "forward" /\ walk' = ForwardWalk /\ asked' = 0 /\ cfg' = cfg
    BY <1>3 DEF OpenSource, runVars, cfg
  <2> QED BY <2>2, <2>3 DEF AskedInv
<1>4. CASE FinishForward
  <2>1. source <= Len(config)
    BY <1>4 DEF FinishForward, TypeInv
  <2>2. cfg.max_pages \in Nat \ {0} /\ asked <= cfg.max_pages
    BY <2>1, <1>4, AdapterAtWork DEF AdapterConfig, FinishForward, AskedInv
  <2> DEFINE progress == draft.backfill[cfg.name]
             plan     == BackfillPlan(progress, walk.window.start)
             w        == Chunk(plan, cfg.max_pages, cfg.max_results)
             h        == History(TRUE, Boundary(progress, walk.window.start))
  <2>3. w.pages = 0 /\ w.max_pages = cfg.max_pages /\ h.pages_left = cfg.max_pages
    BY ChunkWalk DEF History
  <2>4. /\ \/ phase' = "fetched" /\ walk' = walk
           \/ phase' = "history" /\ history' = h /\ walk' = w
        /\ asked' = asked /\ cfg' = cfg
    BY <1>4 DEF FinishForward, runVars, cfg
  <2> HIDE DEF plan, w, h, progress
  <2> QED BY <1>0, <2>2, <2>3, <2>4 DEF AskedInv
<1>5. CASE FinishChunk
  <2>1. source <= Len(config)
    BY <1>5 DEF FinishChunk, TypeInv
  <2>2. cfg.max_pages \in Nat \ {0}
    BY <2>1, AdapterAtWork DEF AdapterConfig
  <2>3. AfterChunk.pages_left = history.pages_left - walk.pages
    BY <1>5, ChunkCounted DEF FinishChunk, TypeInv
  <2> DEFINE plan == BackfillPlan(Some(Progress(AfterChunk.covered_from, None)),
                                  forward.window.start)
             w    == Chunk(plan, AfterChunk.pages_left, AfterChunk.results_left)
  <2>4. w.pages = 0 /\ w.max_pages = AfterChunk.pages_left
    BY ChunkWalk
  <2>5. /\ \/ phase' = "fetched" /\ walk' = walk
           \/ phase' = "history" /\ walk' = w /\ ~(AfterChunk.pages_left <= 0)
        /\ history' = AfterChunk /\ asked' = asked /\ cfg' = cfg
    BY <1>5 DEF FinishChunk, runVars, cfg
  <2>6. /\ history.pages_left \in Int /\ walk.pages <= history.pages_left
        /\ asked + history.pages_left <= 2 * cfg.max_pages + walk.pages
    BY <1>5 DEF FinishChunk, AskedInv
  <2> HIDE DEF plan, w
  <2> QED BY <1>0, <2>2, <2>3, <2>4, <2>5, <2>6 DEF AskedInv
<1>6. CASE RecordSource
  BY <1>6 DEF RecordSource, AskedInv
<1>7. CASE Persist \/ Abort
  BY <1>7, ExitAsked DEF Persist, Abort
<1>8. ASSUME NEW took \in Durations, PageArrives(took) PROVE AskedInv'
  <2>1. source <= Len(config)
    BY <1>8 DEF PageArrives, Fetching, TypeInv
  <2>2. cfg.max_pages \in Nat \ {0}
    BY <2>1, AdapterAtWork DEF AdapterConfig
  <2>3. /\ walk' = Turned(NextPage) /\ asked' = asked + 1 /\ cfg' = cfg
        /\ phase \in {"forward", "history"} /\ history' = history
        /\ phase' = IF ~WalkEnded(Turned(NextPage)) THEN phase
                    ELSE IF phase = "forward" THEN "forwarded" ELSE "chunked"
    BY <1>8 DEF PageArrives, Fetching, runVars, cfg
  <2>4. /\ walk'.pages = walk.pages + 1 /\ walk'.max_pages = walk.max_pages
        /\ phase' = phase => ~(walk.pages + 1 >= walk.max_pages)
    BY <2>3, TurnedWalk DEF TypeInv
  <2>5. CASE phase = "forward"
    BY <1>0, <2>2, <2>3, <2>4, <2>5 DEF AskedInv
  <2>6. CASE phase = "history"
    BY <1>0, <2>2, <2>3, <2>4, <2>6 DEF AskedInv
  <2> QED BY <2>3, <2>5, <2>6
<1>9. ASSUME NEW took \in Durations, RequestFails(took) PROVE AskedInv'
  BY <1>9 DEF RequestFails, AskedInv, runVars, cfg
<1>10. CASE SourceUnavailable
  BY <1>10 DEF SourceUnavailable, AskedInv
<1> QED BY <1>1, <1>2, <1>3, <1>4, <1>5, <1>6, <1>7, <1>8, <1>9, <1>10 DEF Next, Step

\* The pages of a run are counted, at all times.
LEMMA AskedAlways == Spec => []AskedInv
<1>1. Init => AskedInv
  BY NewWalk DEF Init, NoWalk, AskedInv
<1>2. TypeInv /\ AskedInv /\ [Next]_vars => AskedInv'
  BY AskedStep
<1> QED BY <1>1, <1>2, TypedAlways, PTL DEF Spec

\* A run asks a source for no more than the pages of two budgets, in whatever chunks,
\* and however its servers cut their pages (fetch.py:256-273).
THEOREM PagesAreBounded == Spec => []BudgetKept
<1>1. TypeInv /\ AskedInv => BudgetKept
  <2> SUFFICES ASSUME TypeInv, AskedInv, phase \notin {"idle", "source"}
               PROVE  asked <= 2 * cfg.max_pages
    BY DEF BudgetKept
  <2>1. cfg.max_pages \in Nat \ {0}
    BY AdapterAtWork DEF TypeInv, AdapterConfig
  <2>2. CASE phase \in {"history", "chunked"}
    <3>1. /\ history.pages_left \in Int /\ walk.pages \in Nat /\ asked \in Nat
          /\ asked + history.pages_left <= 2 * cfg.max_pages + walk.pages
          /\ walk.pages <= history.pages_left
      BY <2>2 DEF TypeInv, AskedInv
    <3> QED BY <2>1, <3>1
  <2>3. CASE phase \in {"forward", "forwarded"}
    <3>1. asked \in Nat /\ asked <= cfg.max_pages
      BY <2>1, <2>3 DEF TypeInv, AskedInv
    <3> QED BY <2>1, <3>1
  <2>4. CASE phase = "fetched"
    BY <2>4 DEF AskedInv
  <2> QED BY <2>2, <2>3, <2>4 DEF TypeInv, Phases
<1> QED BY <1>1, AskedAlways, TypedAlways, PTL

-----------------------------------------------------------------------------
(***************************************************************************)
(* The walk back through history.  Hugging Face leaves the last day of a   *)
(* window to the window after it, which a walk back has not got: this is   *)
(* for adapters other than that one.                                       *)
(***************************************************************************)
OthersWalkBack ==
  \A c \in Configs : \A k \in DOMAIN c :
    c[k].name = "huggingface" => c[k].backfill_start = None

\* All times from the boundary to the origin of a walk back are walked.
NoHole(d) ==
  \A s \in Names :
    /\ d.backfill[s] = None <=> d.origin[s] = None
    /\ d.backfill[s] # None =>
         d.backfill[s][1].covered_from .. d.origin[s][1] - 1 \subseteq d.walked[s]

\* Where the walk back of the adapter at work began.
OriginOf(d, h) == IF d.origin[cfg.name] = None THEN h.origin ELSE d.origin[cfg.name][1]

\* The same for the chunks that this run has walked.
NoHoleAtWork ==
  /\ cfg.backfill_start # None
  /\ history.covered_from .. OriginOf(draft, history) - 1
       \subseteq draft.walked[cfg.name] \cup history.walked

HoleInv ==
  /\ NoHole(saved) /\ NoHole(draft)
  /\ phase \in {"forward", "forwarded"} => ~history.active
  /\ phase \in {"history", "chunked", "fetched"} /\ history.active => NoHoleAtWork

\* A window of an adapter that walks back accounts for all of its times.
LEMMA WholeWindow ==
  ASSUME OthersWalkBack, TypeInv, source <= Len(config), cfg.backfill_start # None, NEW w
  PROVE  Times(w) = w.start .. w.end
<1>1. cfg.name # "huggingface"
  BY AdapterAtWork DEF OthersWalkBack, TypeInv, cfg
<1> QED BY <1>1 DEF Times

\* Actions that leave the walk back alone.
LEMMA HoleFrame ==
  ASSUME HoleInv, config' = config, source' = source, saved' = saved, draft' = draft,
         history' = history,
         phase' \in {"forward", "forwarded"} => ~history.active,
         phase' \in {"history", "chunked", "fetched"} /\ history.active => NoHoleAtWork
  PROVE  HoleInv'
<1>1. cfg' = cfg
  BY DEF cfg
<1> QED BY <1>1 DEF HoleInv, NoHole, NoHoleAtWork, OriginOf

\* What the adapter records has no hole.
LEMMA RecordedWhole ==
  ASSUME TypeInv, HoleInv, phase = "fetched"
  PROVE  NoHole(WithHistory(WithForward(draft)))
<1> DEFINE e == WithForward(draft)
           f == WithHistory(e)
           n == cfg.name
<1>0. source <= Len(config) /\ n \in Names
  BY AdapterAtWork DEF TypeInv
<1>1. /\ e.backfill = draft.backfill /\ e.origin = draft.origin /\ IsState(e)
      /\ e.walked = [draft.walked EXCEPT ![n] =
           IF forward.cursor = None THEN @ \cup Times(forward.window) ELSE @]
  BY ForwardRecorded DEF TypeInv, StateOK
<1>2. DOMAIN draft.walked = Names /\ DOMAIN draft.backfill = Names /\ DOMAIN draft.origin = Names
  BY DEF TypeInv, StateOK, CorpusOK
<1> HIDE DEF e
<1>3. DOMAIN e.walked = Names /\ \A s \in Names : draft.walked[s] \subseteq e.walked[s]
  BY <1>1, <1>2
<1>4. NoHole(e)
  BY <1>1, <1>3 DEF HoleInv, NoHole
<1>5. CASE ~history.active
  BY <1>4, <1>5 DEF WithHistory, e
<1>6. CASE history.active
  <2> DEFINE progress == Progress(history.covered_from, history.continuation)
  <2>1. /\ f.backfill = [e.backfill EXCEPT ![n] = Some(progress)]
        /\ f.walked = [e.walked EXCEPT ![n] = @ \cup history.walked]
        /\ f.origin = [e.origin EXCEPT ![n] = IF @ = None THEN Some(history.origin) ELSE @]
    BY <1>1, <1>6, HistoryRecorded
  <2>2. progress.covered_from = history.covered_from
    BY DEF Progress
  <2> HIDE DEF progress, f
  <2>3. ASSUME NEW s \in Names, s # n
        PROVE  /\ f.backfill[s] = None <=> f.origin[s] = None
               /\ f.backfill[s] # None =>
                    f.backfill[s][1].covered_from .. f.origin[s][1] - 1 \subseteq f.walked[s]
    <3>1. f.backfill[s] = e.backfill[s] /\ f.walked[s] = e.walked[s] /\ f.origin[s] = e.origin[s]
      BY <1>1, <1>2, <1>3, <2>1, <2>3
    <3> QED BY <3>1, <1>4 DEF NoHole
  <2>4. /\ f.backfill[n] # None /\ f.origin[n] # None
        /\ f.backfill[n][1].covered_from .. f.origin[n][1] - 1 \subseteq f.walked[n]
    <3>1. f.backfill[n] = Some(progress) /\ f.walked[n] = e.walked[n] \cup history.walked
      BY <1>0, <1>1, <1>2, <1>3, <2>1
    <3>2. f.origin[n] = IF draft.origin[n] = None THEN Some(history.origin) ELSE draft.origin[n]
      BY <1>0, <1>1, <1>2, <2>1
    <3>3. f.origin[n] # None /\ f.origin[n][1] = OriginOf(draft, history)
      BY <3>2, SomeIsNotNone DEF OriginOf
    <3>4. history.covered_from .. OriginOf(draft, history) - 1
            \subseteq draft.walked[n] \cup history.walked
      BY <1>6 DEF HoleInv, NoHoleAtWork
    <3>5. f.backfill[n] # None /\ f.backfill[n][1].covered_from = history.covered_from
      BY <3>1, <2>2, SomeIsNotNone
    <3> QED BY <1>0, <1>3, <3>1, <3>3, <3>4, <3>5
  <2> QED BY <2>3, <2>4 DEF NoHole, f, e
<1> QED BY <1>5, <1>6 DEF e

\* Chunk by chunk, the walk back leaves no hole.
LEMMA HoleStep == ASSUME OthersWalkBack, TypeInv, HoleInv, [Next]_vars PROVE HoleInv'
<1>1. CASE Tick \/ StartRun \/ UNCHANGED vars
  <2>1. /\ config' = config /\ source' = source /\ saved' = saved /\ draft' = draft
        /\ history' = history /\ phase' \in {"source", phase}
    BY <1>1 DEF Tick, StartRun, vars, runVars
  <2>2. /\ phase' \in {"forward", "forwarded"} => ~history.active
        /\ phase' \in {"history", "chunked", "fetched"} /\ history.active => NoHoleAtWork
    BY <2>1 DEF HoleInv
  <2> QED BY <2>1, <2>2, HoleFrame
<1>2. CASE OpenSource
  <2>1. history' = History(FALSE, 0) /\ phase' = "forward" /\ saved' = saved /\ draft' = draft
    BY <1>2 DEF OpenSource, runVars
  <2> QED BY <2>1 DEF HoleInv, NoHole, History
<1>3. CASE FinishForward
  <2> DEFINE progress == draft.backfill[cfg.name]
             from     == Boundary(progress, walk.window.start)
             plan     == BackfillPlan(progress, walk.window.start)
             h        == History(TRUE, from)
  <2>1. ~history.active /\ source <= Len(config)
    BY <1>3 DEF FinishForward, HoleInv, TypeInv
  <2>2. CASE plan = None
    BY <1>3, <2>1, <2>2, HoleFrame DEF FinishForward, runVars
  <2>3. CASE plan # None
    <3>1. cfg.backfill_start # None
      BY <2>3 DEF BackfillPlan
    <3>2. cfg.name \in Names
      BY <2>1, AdapterAtWork
    <3>3. /\ phase' = "history" /\ history' = h /\ saved' = saved /\ draft' = draft /\ cfg' = cfg
      BY <1>3, <2>3 DEF FinishForward, runVars, cfg
    <3>4. h.covered_from = from /\ h.origin = from /\ h.walked = {}
      BY DEF History
    <3>5. from .. OriginOf(draft, h) - 1 \subseteq draft.walked[cfg.name]
      <4>1. CASE progress = None
        <5>1. OriginOf(draft, h) = from
          BY <3>2, <3>4, <4>1 DEF OriginOf, HoleInv, NoHole
        <5>2. walk.window \in Windows /\ from = walk.window.start
          BY <4>1 DEF Boundary, TypeInv
        <5>3. from \in Int
          BY <5>2, FetchAssumption DEF Windows, Times0
        <5> HIDE DEF from, h, plan, progress
        <5> QED BY <5>1, <5>3
      <4>2. CASE progress # None
        <5>1. OriginOf(draft, h) = draft.origin[cfg.name][1] /\ from = progress[1].covered_from
          BY <3>2, <4>2 DEF OriginOf, HoleInv, NoHole, Boundary
        <5> QED BY <3>2, <4>2, <5>1 DEF HoleInv, NoHole
      <4> QED BY <4>1, <4>2
    <3> HIDE DEF h, plan, from, progress
    <3> QED BY <3>1, <3>3, <3>4, <3>5 DEF HoleInv, NoHole, NoHoleAtWork, OriginOf
  <2> QED BY <2>2, <2>3
<1>4. CASE FinishChunk
  <2>1. source <= Len(config) /\ history.active /\ NoHoleAtWork
        /\ walk.window.end = history.covered_from /\ walk.window.end \in Times0
        /\ walk.window.start \in Times0
    BY <1>4 DEF FinishChunk, HoleInv, TypeInv, Windows
  <2>2. /\ AfterChunk.origin = history.origin
        /\ AfterChunk.covered_from =
             IF walk.cursor = None THEN walk.window.start ELSE history.covered_from
        /\ AfterChunk.walked =
             IF walk.cursor = None THEN history.walked \cup Times(walk.window) ELSE history.walked
    BY <1>4, ChunkCounted DEF FinishChunk, TypeInv
  <2>3. Times(walk.window) = walk.window.start .. walk.window.end
    BY <2>1, WholeWindow DEF NoHoleAtWork
  <2>4. /\ history' = AfterChunk /\ saved' = saved /\ draft' = draft /\ cfg' = cfg
        /\ phase' \in {"history", "fetched"}
    BY <1>4 DEF FinishChunk, runVars, cfg
  <2>5. OriginOf(draft, AfterChunk) = OriginOf(draft, history)
    BY <2>2 DEF OriginOf
  <2>6. OriginOf(draft, history) \in Int
    <3>1. history.origin \in Times0
      BY DEF TypeInv, HistoryOK
    <3>2. draft.origin[cfg.name] # None => draft.origin[cfg.name][1] \in Times0
      BY <2>1, AdapterAtWork DEF TypeInv, StateOK, CorpusOK
    <3> QED BY <3>1, <3>2, FetchAssumption DEF OriginOf, Times0
  <2>7. AfterChunk.covered_from .. OriginOf(draft, history) - 1
          \subseteq draft.walked[cfg.name] \cup AfterChunk.walked
    <3>1. CASE walk.cursor = None
      <4> SUFFICES ASSUME NEW t \in walk.window.start .. OriginOf(draft, history) - 1
                   PROVE  t \in draft.walked[cfg.name] \cup AfterChunk.walked
        BY <2>2, <3>1
      <4>1. CASE t <= walk.window.end
        BY <2>1, <2>2, <2>3, <3>1, <4>1, TimesAreNatural
      <4>2. CASE ~(t <= walk.window.end)
        <5> DEFINE o == OriginOf(draft, history)
        <5>0. t \in Int /\ t <= o - 1 /\ o \in Int /\ history.covered_from \in Int
              /\ history.covered_from = walk.window.end
          BY <2>1, <2>6, FetchAssumption DEF Times0
        <5> HIDE DEF o
        <5>1. t \in history.covered_from .. o - 1
          BY <5>0, <4>2
        <5> QED BY <5>1, <2>1, <2>2, <3>1 DEF NoHoleAtWork, o
      <4> QED BY <4>1, <4>2
    <3>2. CASE walk.cursor # None
      BY <2>1, <2>2, <3>2 DEF NoHoleAtWork
    <3> QED BY <3>1, <3>2
  <2>8. NoHoleAtWork'
    BY <2>1, <2>4, <2>5, <2>7 DEF NoHoleAtWork, OriginOf
  <2> QED BY <2>4, <2>8 DEF HoleInv, NoHole
<1>5. CASE RecordSource
  BY <1>5, RecordedWhole DEF RecordSource, runVars, HoleInv, NoHole
<1>6. CASE Persist \/ Abort
  BY <1>6 DEF Persist, Abort, Exit, runVars, HoleInv, NoHole
<1>7. ASSUME NEW took \in Durations, PageArrives(took) PROVE HoleInv'
  <2>1. /\ config' = config /\ source' = source /\ saved' = saved /\ draft' = draft
        /\ history' = history
        /\ phase \in {"forward", "history"}
        /\ phase' \in {phase, IF phase = "forward" THEN "forwarded" ELSE "chunked"}
    BY <1>7 DEF PageArrives, Fetching, runVars
  <2>2. /\ phase' \in {"forward", "forwarded"} => ~history.active
        /\ phase' \in {"history", "chunked", "fetched"} /\ history.active => NoHoleAtWork
    BY <2>1 DEF HoleInv
  <2> QED BY <2>1, <2>2, HoleFrame
<1>8. ASSUME NEW took \in Durations, RequestFails(took) PROVE HoleInv'
  <2>1. /\ config' = config /\ source' = source /\ saved' = saved /\ draft' = draft
        /\ history' = history /\ phase' = phase
    BY <1>8 DEF RequestFails, runVars
  <2>2. /\ phase' \in {"forward", "forwarded"} => ~history.active
        /\ phase' \in {"history", "chunked", "fetched"} /\ history.active => NoHoleAtWork
    BY <2>1 DEF HoleInv
  <2> QED BY <2>1, <2>2, HoleFrame
<1>9. CASE SourceUnavailable
  BY <1>9 DEF SourceUnavailable, runVars, HoleInv, NoHole
<1> QED BY <1>1, <1>2, <1>3, <1>4, <1>5, <1>6, <1>7, <1>8, <1>9 DEF Next, Step

\* However the walk back is cut into chunks, pages, runs and failures, nothing between the
\* boundary that the state file names and the start of the walk was left out
\* (fetch.py:232-291).
THEOREM HistoryHasNoHole ==
  ASSUME OthersWalkBack
  PROVE  Spec => []NoHoleInHistory
<1>1. Init => HoleInv
  BY DEF Init, History, Fresh, HoleInv, NoHole
<1>2. TypeInv /\ HoleInv /\ [Next]_vars => HoleInv'
  BY HoleStep
<1>3. HoleInv => NoHoleInHistory
  BY DEF HoleInv, NoHole, NoHoleInHistory
<1> QED BY <1>1, <1>2, <1>3, TypedAlways, PTL DEF Spec

-----------------------------------------------------------------------------
(***************************************************************************)
(* The pages of a list.  An item has a rank in the list, and a page takes  *)
(* the items of some ranks, so a cursor that counts items stands for those *)
(* of lower rank.                                                          *)
(***************************************************************************)
Lists(s) == SUBSET DOMAIN Catalogue[s]
Rank(list, i) == Cardinality({k \in list : k <= i})

\* A list that is not known to its end yet.
Beginning(part, list) ==
  part \subseteq list /\ \A i \in part, k \in list : k <= i => k \in part

\* The items of a source are numbered.
LEMMA ItemsFinite ==
  ASSUME NEW s \in Names, NEW list \in Lists(s)
  PROVE  /\ IsFiniteSet(list) /\ Cardinality(list) \in Nat
         /\ list \subseteq Nat \ {0}
         /\ \A i \in list : /\ Catalogue[s][i].published \in Nat
                            /\ Catalogue[s][i].listed \in Nat
                            /\ Catalogue[s][i].valid \in BOOLEAN
<1> DEFINE Item == [published : Nat, listed : Nat, valid : BOOLEAN]
<1>1. Catalogue[s] \in Seq(Item)
  BY CatalogueAssumption DEF CatalogueAssumption, Names
<1>2. /\ DOMAIN Catalogue[s] = 1 .. Len(Catalogue[s]) /\ Len(Catalogue[s]) \in Nat
      /\ \A i \in DOMAIN Catalogue[s] : Catalogue[s][i] \in Item
  <2> HIDE DEF Item
  <2> QED BY <1>1
<1>3. IsFiniteSet(DOMAIN Catalogue[s])
  <2>1. IsFiniteSet(1 .. Len(Catalogue[s]))
    BY <1>2, FS_Interval
  <2> QED BY <1>2, <2>1
<1>4. list \in SUBSET DOMAIN Catalogue[s]
  BY DEF Lists
<1>5. IsFiniteSet(list)
  BY <1>3, <1>4, FS_Subset
<1>6. Cardinality(list) \in Nat
  BY <1>5, FS_CardinalityType
<1> QED BY <1>2, <1>4, <1>5, <1>6

\* Ranks count from one to the length of the list, in its order.
LEMMA Ranks ==
  ASSUME NEW s \in Names, NEW list \in Lists(s), NEW i \in list
  PROVE  /\ Rank(list, i) \in 1 .. Cardinality(list)
         /\ \A k \in list : k < i => Rank(list, k) < Rank(list, i)
<1> DEFINE upto(k) == {l \in list : l <= k}
<1>1. ASSUME NEW k \in list
      PROVE  /\ IsFiniteSet(upto(k)) /\ Rank(list, k) = Cardinality(upto(k))
             /\ Rank(list, k) \in 1 .. Cardinality(list)
  <2>1. upto(k) \in SUBSET list /\ upto(k) # {}
    <3>1. k \in upto(k)
      BY ItemsFinite
    <3> QED BY <3>1
  <2>2. Rank(list, k) = Cardinality(upto(k))
    BY DEF Rank
  <2> HIDE DEF upto
  <2>3. IsFiniteSet(upto(k)) /\ Cardinality(upto(k)) <= Cardinality(list)
    BY <2>1, ItemsFinite, FS_Subset
  <2>4. Cardinality(upto(k)) \in Nat /\ Cardinality(upto(k)) # 0
    BY <2>1, <2>3, FS_CardinalityType, FS_EmptySet
  <2> QED BY <2>2, <2>3, <2>4, ItemsFinite
<1>2. ASSUME NEW k \in list, k < i PROVE Rank(list, k) < Rank(list, i)
  <2>1. upto(k) \in SUBSET upto(i) /\ upto(k) # upto(i)
    <3>1. list \subseteq Nat
      BY ItemsFinite
    <3>2. i \in upto(i) /\ i \notin upto(k)
      BY <1>2, <3>1
    <3>3. \A l \in upto(k) : l \in upto(i)
      BY <1>2, <3>1
    <3> QED BY <3>2, <3>3
  <2> HIDE DEF upto
  <2>2. /\ Cardinality(upto(k)) <= Cardinality(upto(i))
        /\ Cardinality(upto(k)) # Cardinality(upto(i))
    BY <1>1, <2>1, FS_Subset
  <2>3. Rank(list, k) \in Nat /\ Rank(list, i) \in Nat
    BY <1>1, ItemsFinite
  <2> QED BY <1>1, <2>2, <2>3
<1> QED BY <1>1, <1>2

\* Different items have different ranks.
LEMMA RanksDiffer ==
  ASSUME NEW s \in Names, NEW list \in Lists(s), NEW i \in list, NEW k \in list,
         Rank(list, i) = Rank(list, k)
  PROVE  i = k
<1>1. i \in Nat /\ k \in Nat
  BY ItemsFinite
<1>2. Rank(list, i) \in Nat /\ ~(Rank(list, i) < Rank(list, k)) /\ ~(Rank(list, k) < Rank(list, i))
  BY Ranks, ItemsFinite
<1>3. ~(k < i) /\ ~(i < k)
  BY <1>2, Ranks
<1> QED BY <1>1, <1>3

\* Every place of the list has an item.
LEMMA RankedItem ==
  ASSUME NEW s \in Names, NEW list \in Lists(s), NEW n \in 1 .. Cardinality(list)
  PROVE  \E i \in list : Rank(list, i) = n
<1> DEFINE N == Cardinality(list)
           rank == [i \in list |-> Rank(list, i)]
<1>1. N \in Nat /\ IsFiniteSet(1 .. N) /\ Cardinality(1 .. N) = N /\ IsFiniteSet(list)
  BY ItemsFinite, FS_Interval
<1>2. rank \in Injection(list, 1 .. N)
  BY Ranks, RanksDiffer DEF Injection, IsInjective
<1>3. rank \in Surjection(list, 1 .. N)
  <2> HIDE DEF rank
  <2> QED BY <1>1, <1>2, FS_Injection
<1> QED BY <1>3 DEF Surjection

\* What is known of a list has the same ranks.
LEMMA RankOfBeginning ==
  ASSUME NEW list, NEW part, Beginning(part, list), NEW i \in part
  PROVE  Rank(part, i) = Rank(list, i)
<1>1. {k \in part : k <= i} = {k \in list : k <= i}
  BY DEF Beginning
<1> QED BY <1>1 DEF Rank

\* A page is what its ranks say.
LEMMA PageOfRanks ==
  ASSUME NEW list, NEW from, NEW n, NEW i
  PROVE  i \in Taken(list, from, n) <=>
           i \in list /\ Rank(list, i) \in from + 1 .. from + n
BY DEF Taken, Rank

\* It is of its size at most.
LEMMA PageOfSize ==
  ASSUME NEW s \in Names, NEW list \in Lists(s), NEW from \in Nat, NEW n \in Nat
  PROVE  Taken(list, from, n) \in Lists(s) /\ Cardinality(Taken(list, from, n)) \in 0 .. n
<1> DEFINE page == Taken(list, from, n)
<1>1. page \subseteq list /\ \A i \in page : Rank(list, i) \in from + 1 .. from + n
  BY PageOfRanks
<1>2. page \in Lists(s)
  BY <1>1 DEF Lists
<1>3. Cardinality(page) \in 0 .. n
  <2> DEFINE rank == [i \in page |-> Rank(list, i)]
  <2>1. rank \in Injection(page, from + 1 .. from + n)
    BY <1>1, RanksDiffer DEF Injection, IsInjective
  <2>2. /\ IsFiniteSet(from + 1 .. from + n)
        /\ Cardinality(from + 1 .. from + n) = n
    <3>1. from + 1 \in Int /\ from + n \in Int
      OBVIOUS
    <3>2. /\ IsFiniteSet(from + 1 .. from + n)
          /\ Cardinality(from + 1 .. from + n) =
               IF from + 1 > from + n THEN 0 ELSE (from + n) - (from + 1) + 1
      BY <3>1, FS_Interval
    <3> QED BY <3>2
  <2> HIDE DEF rank, page
  <2>3. Cardinality(page) <= n
    BY <2>1, <2>2, FS_Injection
  <2> QED BY <1>2, <2>3, ItemsFinite
<1> QED BY <1>2, <1>3

\* It is not empty if the list goes on.
LEMMA PageNotEmpty ==
  ASSUME NEW s \in Names, NEW list \in Lists(s), NEW from \in Nat, NEW n \in Nat \ {0},
         NEW i \in list, ~(Rank(list, i) <= from)
  PROVE  Taken(list, from, n) # {}
<1>1. from + 1 \in 1 .. Cardinality(list)
  BY Ranks, ItemsFinite
<1>2. PICK k \in list : Rank(list, k) = from + 1
  BY <1>1, RankedItem
<1>3. from + 1 \in from + 1 .. from + n
  OBVIOUS
<1> QED BY <1>2, <1>3, PageOfRanks

-----------------------------------------------------------------------------
(***************************************************************************)
(* The lists that the servers page through.  What of the list of a window  *)
(* is known when it is walked is a beginning of it, with all of the window.*)
(***************************************************************************)
ByOffset == {"arxiv", "dblp", "semantic_scholar"}
ByDay    == {"biorxiv", "crossref", "semantic_scholar"}

Whole(s, w) ==
  IF s = "arxiv" THEN Inside(s, w)
  ELSE IF s \in ByDay
  THEN {i \in DOMAIN Catalogue[s] : Day(Published(s, i)) \in Day(w.start) .. Day(w.end)}
  ELSE DOMAIN Catalogue[s]

Served(s, w, t) ==
  IF s = "arxiv" THEN Known(s, t) \cap Inside(s, w)
  ELSE IF s \in ByDay THEN OfTheDays(s, w, t) ELSE Known(s, t)

\* A server pages through a beginning of the list, with all that the window accounts for.
LEMMA ServedList ==
  ASSUME SteadyServers, NEW s \in Names, s # "huggingface",
         NEW w \in Windows, NEW t \in Nat, w.end <= t
  PROVE  /\ Whole(s, w) \in Lists(s) /\ Served(s, w, t) \in Lists(s)
         /\ Beginning(Served(s, w, t), Whole(s, w))
         /\ Inside(s, w) \subseteq Served(s, w, t)
         /\ s \in ByDay => Served(s, w, t) = Whole(s, w)
<1>1. /\ w.start \in Nat /\ w.end \in Nat
      /\ \A i \in DOMAIN Catalogue[s] : Published(s, i) \in Nat /\ i \in Nat
  <2>1. DOMAIN Catalogue[s] \in Lists(s)
    BY DEF Lists
  <2>2. \A i \in DOMAIN Catalogue[s] : Catalogue[s][i].published \in Nat /\ i \in Nat
    BY <2>1, ItemsFinite
  <2> QED BY <2>2, TimesAreNatural DEF Windows, Published
<1>2. CASE s = "arxiv"
  <2>1. Whole(s, w) = Inside(s, w) /\ Served(s, w, t) = Inside(s, w)
    BY <1>1, <1>2 DEF Whole, Served, Inside, Known
  <2> QED BY <1>2, <2>1 DEF Inside, Lists, Beginning
<1>3. CASE s \in ByDay
  <2>1. s # "arxiv"
    BY <1>3 DEF ByDay
  <2>2. Whole(s, w) = {i \in DOMAIN Catalogue[s] :
                         Day(Published(s, i)) \in Day(w.start) .. Day(w.end)}
        /\ Served(s, w, t) = OfTheDays(s, w, t)
    BY <1>3, <2>1 DEF Whole, Served
  <2>3. ASSUME NEW i \in DOMAIN Catalogue[s], Day(Published(s, i)) \in Day(w.start) .. Day(w.end)
        PROVE  i \in Known(s, t)
    <3>1. Published(s, i) = 2 * Day(Published(s, i))
      BY <1>3 DEF SteadyServers, ByDay
    <3>2. Published(s, i) <= t
      BY <1>1, <2>3, <3>1 DEF Day
    <3> QED BY <3>2 DEF Known
  <2>4. Served(s, w, t) = Whole(s, w)
    BY <2>2, <2>3 DEF OfTheDays, Known
  <2>5. ASSUME NEW i \in Inside(s, w) PROVE i \in Whole(s, w)
    <3>1. i \in DOMAIN Catalogue[s] /\ Published(s, i) \in w.start .. w.end
      BY DEF Inside
    <3>2. Day(Published(s, i)) \in Day(w.start) .. Day(w.end)
      BY <1>1, <3>1 DEF Day
    <3> QED BY <2>2, <3>1, <3>2
  <2>6. Whole(s, w) \in Lists(s)
    BY <2>2 DEF Lists
  <2> QED BY <2>4, <2>5, <2>6 DEF Beginning
<1>4. CASE s # "arxiv" /\ s \notin ByDay
  <2>1. s \in {"dblp", "papers_with_code"}
    BY <1>4, CatalogueAssumption DEF CatalogueAssumption, AdapterNames, Names, ByDay
  <2>2. Whole(s, w) = DOMAIN Catalogue[s] /\ Served(s, w, t) = Known(s, t)
    BY <1>4 DEF Whole, Served
  <2>3. ASSUME NEW i \in Known(s, t), NEW k \in DOMAIN Catalogue[s], k <= i
        PROVE  k \in Known(s, t)
    <3>1. i \in DOMAIN Catalogue[s] /\ Published(s, i) <= t
      BY DEF Known
    <3>2. k \in 1 .. i
      BY <1>1, <2>3, <3>1, ItemsFinite DEF Lists
    <3>3. Published(s, k) <= Published(s, i)
      BY <2>1, <3>1, <3>2 DEF SteadyServers
    <3> QED BY <1>1, <3>1, <3>3 DEF Known
  <2>4. Known(s, t) \subseteq DOMAIN Catalogue[s] /\ Inside(s, w) \subseteq Known(s, t)
    BY <1>1 DEF Known, Inside
  <2> QED BY <1>4, <2>2, <2>3, <2>4 DEF Beginning, Lists
<1> QED BY <1>2, <1>3, <1>4

-----------------------------------------------------------------------------
(***************************************************************************)
(* What a cursor has passed.  Every way of paging delivers what lies       *)
(* between the cursor of the request and that of the answer, and to the    *)
(* end of the window if it answers with none.                              *)
(***************************************************************************)
\* By offset: the items of lower rank.
OffsetPassed(s, w, cursor) ==
  {i \in Inside(s, w) : Rank(Whole(s, w), i) <= OffsetCursor(cursor).start}

\* What a page leaves when it keeps some of its items: the rest are errors.
LEMMA PageItems ==
  ASSUME NEW s \in Names, NEW items \in Lists(s)
  PROVE  /\ Parsed(s, items) \in Lists(s) /\ Unparsed(s, items) \in Lists(s)
         /\ Parsed(s, items) \subseteq items
         /\ items = Parsed(s, items) \cup Unparsed(s, items)
BY DEF Parsed, Unparsed, Lists

\* What such a page delivers: all between its cursor and the next, or to the end.
LEMMA OffsetDelivers ==
  ASSUME NEW s \in Names, NEW w, NEW cursor, NEW c, NEW kept, NEW list \in Lists(s),
         Whole(s, w) \in Lists(s), Beginning(list, Whole(s, w)),
         Inside(s, w) \subseteq list, Inside(s, w) \subseteq kept,
         OffsetCursor(cursor).start \in Nat, c.page_size \in Nat \ {0}
  PROVE  LET page == OffsetPage(s, list, cursor, c, kept) IN
         /\ page.records \in Lists(s) /\ page.errors \in Lists(s)
         /\ page.next_cursor # None =>
              /\ page.next_cursor[1].start \in Nat
              /\ OffsetPassed(s, w, page.next_cursor) \subseteq
                   OffsetPassed(s, w, cursor) \cup page.records \cup page.errors
         /\ page.next_cursor = None =>
              Inside(s, w) \subseteq OffsetPassed(s, w, cursor)
<1> DEFINE o       == OffsetCursor(cursor)
           entries == Taken(list, o.start, c.page_size)
           next    == [start    |-> o.start + Cardinality(entries),
                       page     |-> o.page + 1,
                       consumed |-> o.consumed + Cardinality(entries)]
           capped  == next.page >= c.max_pages \/ next.consumed >= c.max_results
           page    == OffsetPage(s, list, cursor, c, kept)
<1>0. o.start \in Nat /\ c.page_size \in Nat \ {0} /\ c.page_size \in Nat
  OBVIOUS
<1>1. entries \in Lists(s) /\ Cardinality(entries) \in 0 .. c.page_size
  BY <1>0, PageOfSize
<1>2. \A i \in list : Rank(list, i) = Rank(Whole(s, w), i) /\ Rank(list, i) \in Nat
  BY RankOfBeginning, Ranks, ItemsFinite
<1>3. CASE entries = {}
  <2>1. page = FetchPage({}, {}, None, FALSE)
    BY <1>3 DEF OffsetPage
  <2>2. page.records = {} /\ page.errors = {} /\ page.next_cursor = None
    <3> HIDE DEF page
    <3> QED BY <2>1 DEF FetchPage
  <2>3. ASSUME NEW i \in Inside(s, w) PROVE i \in OffsetPassed(s, w, cursor)
    <3>1. Rank(list, i) <= o.start
      BY <1>0, <1>3, PageNotEmpty
    <3> QED BY <1>2, <3>1 DEF OffsetPassed
  <2> QED BY <2>2, <2>3 DEF Lists
<1>4. CASE entries # {}
  <2>1. page = FetchPage(Parsed(s, entries) \cap kept, Unparsed(s, entries), Some(next), capped)
    BY <1>4, Zenon DEF OffsetPage
  <2> HIDE DEF capped
  <2>2. /\ page.records = Parsed(s, entries) \cap kept /\ page.errors = Unparsed(s, entries)
        /\ page.next_cursor = Some(next)
    <3> HIDE DEF page, entries, next
    <3> QED BY <2>1 DEF FetchPage
  <2>3. page.next_cursor # None /\ page.next_cursor[1] = next
        /\ OffsetCursor(page.next_cursor) = next
    <3> HIDE DEF page, entries, next
    <3> QED BY <2>2, SomeIsNotNone DEF OffsetCursor
  <2>4. next.start = o.start + Cardinality(entries) /\ next.start \in Nat
    <3> HIDE DEF entries
    <3> QED BY <1>1
  <2>5. page.records \in Lists(s) /\ page.errors \in Lists(s)
    <3> HIDE DEF page, entries, next
    <3> QED BY <1>1, <2>2, PageItems DEF Lists
  <2>6. ASSUME NEW i \in OffsetPassed(s, w, page.next_cursor), i \notin OffsetPassed(s, w, cursor)
        PROVE  i \in page.records \cup page.errors
    <3>1. i \in Inside(s, w) /\ Rank(Whole(s, w), i) <= next.start
          /\ ~(Rank(Whole(s, w), i) <= o.start)
      <4> HIDE DEF page, next
      <4> QED BY <2>3, <2>6 DEF OffsetPassed
    <3> HIDE DEF page, next
    <3>2. i \in entries
      <4>1. i \in list /\ Rank(list, i) \in o.start + 1 .. o.start + c.page_size
        <5> HIDE DEF entries
        <5> QED BY <1>1, <1>2, <2>4, <3>1
      <4> QED BY <4>1, PageOfRanks
    <3> HIDE DEF entries
    <3> QED BY <1>1, <2>2, <3>1, <3>2, PageItems
  <2> QED BY <2>3, <2>4, <2>5, <2>6
<1> QED BY <1>3, <1>4

-----------------------------------------------------------------------------
\* By day: the later days of the window, but for its last, and pages of the day at work.
DayPassed(s, w, cursor, size) ==
  LET c == HuggingFaceCursor(w, cursor) IN
  {i \in Inside(s, w) :
     /\ Day(Published(s, i)) < Day(w.end)
     /\ \/ Day(Published(s, i)) > c.date
        \/ /\ Day(Published(s, i)) = c.date
           /\ Rank(DailyList(s, c.date), i) <= c.page * size}

\* What a page of a day delivers.
LEMMA DayDelivers ==
  ASSUME SteadyServers, NEW s \in Names, s = "huggingface", NEW w \in Windows,
         NEW cursor, NEW c, HuggingFaceCursor(w, cursor) \in [date : Int, page : Nat],
         c.page_size \in Nat \ {0}
  PROVE  LET page == HuggingFaceFetch(s, w, cursor, c) IN
         /\ page.records \in Lists(s) /\ page.errors \in Lists(s)
         /\ Cardinality(page.records) <= c.page_size
         /\ page.next_cursor # None =>
              /\ page.next_cursor[1] \in [date : Int, page : Nat]
              /\ DayPassed(s, w, page.next_cursor, c.page_size) \subseteq
                   DayPassed(s, w, cursor, c.page_size) \cup page.records \cup page.errors
         /\ page.next_cursor = None =>
              \A i \in Inside(s, w) :
                Day(Published(s, i)) < Day(w.end) => i \in DayPassed(s, w, cursor, c.page_size)
<1> DEFINE o       == HuggingFaceCursor(w, cursor)
           size    == c.page_size
           list    == DailyList(s, o.date)
           payload == Taken(list, o.page * size, size)
           page    == HuggingFaceFetch(s, w, cursor, c)
<1>0. /\ o.date \in Int /\ o.page \in Nat /\ o = [date |-> o.date, page |-> o.page]
      /\ size \in Nat \ {0} /\ size \in Nat
  OBVIOUS
<1>1. o.page * size \in Nat /\ (o.page + 1) * size = o.page * size + size
  <2> HIDE DEF o, size
  <2> QED BY <1>0
<1>2. list \in Lists(s)
  BY DEF DailyList, Lists
<1>3. payload \in Lists(s) /\ Cardinality(payload) \in 0 .. size
  BY <1>0, <1>1, <1>2, PageOfSize
<1>4. ASSUME NEW i \in Inside(s, w)
      PROVE  /\ Published(s, i) \in Nat /\ w.start <= Published(s, i)
             /\ w.start \in Nat /\ w.end \in Nat
             /\ Day(Published(s, i)) = o.date => i \in list
  <2>1. i \in DOMAIN Catalogue[s] /\ Published(s, i) \in w.start .. w.end
    BY DEF Inside
  <2>2. w.start \in Nat /\ w.end \in Nat
    BY TimesAreNatural DEF Windows
  <2>3. Day(Published(s, i)) = o.date => i \in list
    BY <2>1 DEF SteadyServers, DailyList
  <2> QED BY <2>1, <2>2, <2>3
<1>5. CASE payload = {}
  <2> DEFINE earlier == [date |-> o.date - 1, page |-> 0]
             next == IF o.date - 1 >= Day(w.start) THEN Some(earlier) ELSE None
  <2>1. page = FetchPage({}, {}, next, FALSE)
    BY <1>5, Zenon DEF HuggingFaceFetch, DayPage
  <2>2. page.records = {} /\ page.errors = {} /\ page.next_cursor = next
    <3> HIDE DEF page, next
    <3> QED BY <2>1 DEF FetchPage
  <2>6. /\ page.records \in Lists(s) /\ page.errors \in Lists(s)
        /\ Cardinality(page.records) <= size
    <3> HIDE DEF page, next
    <3> QED BY <1>0, <2>2, FS_EmptySet DEF Lists
  <2> HIDE DEF next
  <2>3. ASSUME NEW i \in Inside(s, w), Day(Published(s, i)) < Day(w.end),
               Day(Published(s, i)) >= o.date
        PROVE  i \in DayPassed(s, w, cursor, size)
    <3>1. CASE Day(Published(s, i)) = o.date
      <4>1. Rank(list, i) <= o.page * size
        BY <1>0, <1>1, <1>2, <1>4, <1>5, <3>1, PageNotEmpty
      <4> QED BY <2>3, <3>1, <4>1 DEF DayPassed
    <3>2. CASE Day(Published(s, i)) > o.date
      BY <2>3, <3>2 DEF DayPassed
    <3>3. Day(Published(s, i)) \in Int
      BY <1>4 DEF Day
    <3> QED BY <1>0, <2>3, <3>1, <3>2, <3>3
  <2>4. CASE o.date - 1 >= Day(w.start)
    <3>1. page.next_cursor # None /\ page.next_cursor[1] = earlier
      <4> HIDE DEF page, earlier
      <4> QED BY <2>2, <2>4, SomeIsNotNone DEF next
    <3>2. earlier \in [date : Int, page : Nat] /\ earlier.date = o.date - 1 /\ earlier.page = 0
      BY <1>0
    <3>3. HuggingFaceCursor(w, page.next_cursor) = earlier
      <4> HIDE DEF page, earlier
      <4> QED BY <3>1 DEF HuggingFaceCursor
    <3>4. ASSUME NEW i \in DayPassed(s, w, page.next_cursor, size)
          PROVE  i \in DayPassed(s, w, cursor, size)
      <4> HIDE DEF page, earlier
      <4>1. /\ i \in Inside(s, w) /\ Day(Published(s, i)) < Day(w.end)
            /\ \/ Day(Published(s, i)) > o.date - 1
               \/ /\ Day(Published(s, i)) = o.date - 1
                  /\ Rank(DailyList(s, o.date - 1), i) <= 0 * size
        BY <3>2, <3>3, <3>4 DEF DayPassed
      <4>2. CASE Day(Published(s, i)) > o.date - 1
        <5>1. Day(Published(s, i)) \in Int
          BY <1>4, <4>1 DEF Day
        <5>2. Day(Published(s, i)) >= o.date
          BY <1>0, <4>2, <5>1
        <5> QED BY <2>3, <4>1, <5>2
      <4>3. CASE Day(Published(s, i)) = o.date - 1 /\ Rank(DailyList(s, o.date - 1), i) <= 0 * size
        <5>1. i \in DailyList(s, o.date - 1) /\ DailyList(s, o.date - 1) \in Lists(s)
          BY <4>1, <4>3 DEF SteadyServers, DailyList, Lists, Inside
        <5>2. Rank(DailyList(s, o.date - 1), i) \in 1 .. Cardinality(DailyList(s, o.date - 1))
          BY <5>1, Ranks
        <5>3. 0 * size = 0
          BY <1>0
        <5> QED BY <4>3, <5>1, <5>2, <5>3, ItemsFinite
      <4> QED BY <4>1, <4>2, <4>3
    <3> HIDE DEF earlier
    <3> QED BY <2>6, <3>1, <3>2, <3>4, Zenon
  <2>5. CASE ~(o.date - 1 >= Day(w.start))
    <3>1. page.next_cursor = None
      BY <2>2, <2>5 DEF next
    <3>2. ASSUME NEW i \in Inside(s, w), Day(Published(s, i)) < Day(w.end)
          PROVE  i \in DayPassed(s, w, cursor, size)
      <4>1. Day(Published(s, i)) >= o.date
        BY <1>0, <1>4, <2>5 DEF Day
      <4> QED BY <2>3, <3>2, <4>1
    <3> QED BY <2>6, <3>1, <3>2, Zenon
  <2> QED BY <2>4, <2>5
<1>6. CASE payload # {}
  <2> DEFINE later  == [o EXCEPT !.page = @ + 1]
             capped == Cardinality(payload) >= c.max_results
  <2>1. page = FetchPage(Parsed(s, payload) \cap Inside(s, w), Unparsed(s, payload),
                         Some(later), capped)
    BY <1>6, Zenon DEF HuggingFaceFetch, DayPage
  <2> HIDE DEF capped
  <2>2. /\ page.records = Parsed(s, payload) \cap Inside(s, w)
        /\ page.errors = Unparsed(s, payload) /\ page.next_cursor = Some(later)
    <3> HIDE DEF page, payload, later
    <3> QED BY <2>1 DEF FetchPage
  <2>3. page.next_cursor # None /\ page.next_cursor[1] = later
        /\ HuggingFaceCursor(w, page.next_cursor) = later
    <3> HIDE DEF page, payload, later
    <3> QED BY <2>2, SomeIsNotNone DEF HuggingFaceCursor
  <2>4. later \in [date : Int, page : Nat] /\ later.date = o.date /\ later.page = o.page + 1
    BY <1>0
  <2>5. /\ page.records \in Lists(s) /\ page.errors \in Lists(s)
        /\ page.records \in SUBSET payload
    <3> HIDE DEF page, payload, later
    <3> QED BY <1>3, <2>2, PageItems DEF Lists
  <2>6. ASSUME NEW i \in DayPassed(s, w, page.next_cursor, size),
               i \notin DayPassed(s, w, cursor, size)
        PROVE  i \in page.records \cup page.errors
    <3> HIDE DEF page, later
    <3>1. /\ i \in Inside(s, w) /\ Day(Published(s, i)) < Day(w.end)
          /\ \/ Day(Published(s, i)) > o.date
             \/ /\ Day(Published(s, i)) = o.date
                /\ Rank(list, i) <= (o.page + 1) * size
      BY <2>3, <2>4, <2>6 DEF DayPassed
    <3>2. /\ Day(Published(s, i)) = o.date /\ Rank(list, i) <= o.page * size + size
          /\ ~(Rank(list, i) <= o.page * size)
      BY <1>1, <2>6, <3>1 DEF DayPassed
    <3>3. i \in list /\ Rank(list, i) \in Nat
      BY <1>2, <1>4, <3>1, <3>2, Ranks, ItemsFinite
    <3>4. i \in payload
      <4>1. Rank(list, i) \in o.page * size + 1 .. o.page * size + size
        <5> DEFINE r == Rank(list, i)
                   f == o.page * size
        <5>1. r \in Nat /\ f \in Nat /\ size \in Nat /\ r <= f + size /\ ~(r <= f)
          BY <1>0, <1>1, <3>2, <3>3
        <5> HIDE DEF r, f, size
        <5>2. r \in f + 1 .. f + size
          BY <5>1
        <5> QED BY <5>2 DEF r, f
      <4> QED BY <3>3, <4>1, PageOfRanks
    <3> HIDE DEF payload
    <3> QED BY <1>3, <2>2, <3>1, <3>4, PageItems
  <2>7. Cardinality(page.records) <= size
    <3> HIDE DEF page, payload
    <3>1. Cardinality(page.records) <= Cardinality(payload) /\ Cardinality(page.records) \in Nat
      BY <1>3, <2>5, ItemsFinite, FS_Subset
    <3> QED BY <1>0, <1>3, <3>1
  <2> HIDE DEF later
  <2> QED BY <2>3, <2>4, <2>5, <2>6, <2>7, Zenon
<1> QED BY <1>5, <1>6

-----------------------------------------------------------------------------
\* By pages of the server: those before the token, and raw items of the page at work.
RawPage(s, w, token) == Taken(Whole(s, w), token, ServerPage[s])

RawPassed(s, w, cursor) ==
  LET c == TokenCursor(cursor) IN
  {i \in Inside(s, w) :
     \/ Rank(Whole(s, w), i) <= c.token
     \/ /\ i \in RawPage(s, w, c.token)
        /\ Rank(RawPage(s, w, c.token), i) <= c.local_index}

IsToken(c) == c.token \in Nat /\ c.local_index \in Nat

\* What a page cut from a page of the server delivers.
LEMMA RawDelivers ==
  ASSUME NEW s \in Names, NEW w, NEW t, NEW cursor, NEW c,
         Whole(s, w) \in Lists(s), OfTheDays(s, w, t) = Whole(s, w),
         Inside(s, w) \subseteq Whole(s, w), ServerPage[s] \in Nat \ {0},
         IsToken(TokenCursor(cursor)), c.max_results \in Nat,
         ~BiorxivFetch(s, w, cursor, t, c).broken
  PROVE  LET page == BiorxivFetch(s, w, cursor, t, c) IN
         /\ page.records \in Lists(s) /\ page.errors \in Lists(s)
         /\ page.next_cursor # None =>
              /\ IsToken(page.next_cursor[1])
              /\ RawPassed(s, w, page.next_cursor) \subseteq
                   RawPassed(s, w, cursor) \cup page.records \cup page.errors
         /\ page.next_cursor = None => Inside(s, w) \subseteq RawPassed(s, w, cursor)
<1> DEFINE o        == TokenCursor(cursor)
           list     == Whole(s, w)
           items    == Taken(list, o.token, ServerPage[s])
           raw      == Taken(items, o.local_index, c.max_results)
           end      == o.local_index + Cardinality(raw)
           complete == end = Cardinality(items)
           number   == o.page + (IF complete THEN 1 ELSE 0)
           next     == [token       |-> o.token + (IF complete THEN Cardinality(items) ELSE 0),
                        local_index |-> IF complete THEN 0 ELSE end,
                        page        |-> number,
                        consumed    |-> o.consumed + Cardinality(raw)]
           capped   == number >= c.max_pages \/ Cardinality(raw) >= c.max_results
           page     == BiorxivFetch(s, w, cursor, t, c)
<1>0. /\ o.token \in Nat /\ o.local_index \in Nat /\ c.max_results \in Nat
      /\ ServerPage[s] \in Nat \ {0} /\ ServerPage[s] \in Nat
  BY DEF IsToken
<1>1. items \in Lists(s) /\ Cardinality(items) \in 0 .. ServerPage[s]
  BY <1>0, PageOfSize
<1>2. raw \in Lists(s) /\ Cardinality(raw) \in 0 .. c.max_results
  <2> HIDE DEF items
  <2> QED BY <1>0, <1>1, PageOfSize
<1>3. /\ end \in Nat /\ o.local_index <= end /\ end <= o.local_index + c.max_results
  <2> HIDE DEF raw
  <2> QED BY <1>0, <1>2
<1>4. RawPage(s, w, o.token) = items
  BY DEF RawPage
<1>5. ASSUME NEW i \in items, Rank(items, i) <= end, ~(Rank(items, i) <= o.local_index)
      PROVE  i \in raw
  <2> HIDE DEF items
  <2>1. Rank(items, i) \in Nat
    BY <1>1, Ranks, ItemsFinite
  <2>2. Rank(items, i) \in o.local_index + 1 .. o.local_index + c.max_results
    <3> HIDE DEF end
    <3> QED BY <1>0, <1>3, <1>5, <2>1
  <2> QED BY <2>2, PageOfRanks
<1>6. CASE items = {}
  <2>1. page = FetchPage({}, {}, None, FALSE)
    BY <1>6, Zenon DEF BiorxivFetch
  <2>2. page.records = {} /\ page.errors = {} /\ page.next_cursor = None
    <3> HIDE DEF page
    <3> QED BY <2>1 DEF FetchPage
  <2>3. ASSUME NEW i \in Inside(s, w) PROVE i \in RawPassed(s, w, cursor)
    <3>1. Rank(list, i) <= o.token
      BY <1>0, <1>6, PageNotEmpty
    <3> QED BY <3>1 DEF RawPassed
  <2>4. page.records \in Lists(s) /\ page.errors \in Lists(s)
    <3> HIDE DEF page
    <3> QED BY <2>2 DEF Lists
  <2> QED BY <2>2, <2>3, <2>4, Zenon
<1>7. CASE items # {}
  <2>1. ~(o.local_index > Cardinality(items))
    <3> SUFFICES ASSUME o.local_index > Cardinality(items) PROVE FALSE
      OBVIOUS
    <3>1. page = BrokenPage
      BY <1>7, Zenon DEF BiorxivFetch
    <3>2. page.broken
      <4> HIDE DEF page
      <4> QED BY <3>1 DEF BrokenPage
    <3> QED BY <3>2
  <2>2. page = FetchPage(Parsed(s, raw) \cap Inside(s, w), Unparsed(s, raw), Some(next), capped)
    BY <1>7, <2>1, Zenon DEF BiorxivFetch
  <2> HIDE DEF capped
  <2>3. /\ page.records = Parsed(s, raw) \cap Inside(s, w) /\ page.errors = Unparsed(s, raw)
        /\ page.next_cursor = Some(next)
    <3> HIDE DEF page, raw, next
    <3> QED BY <2>2 DEF FetchPage
  <2>4. page.next_cursor # None /\ page.next_cursor[1] = next
        /\ TokenCursor(page.next_cursor) = next
    <3> HIDE DEF page, raw, next
    <3> QED BY <2>3, SomeIsNotNone DEF TokenCursor
  <2>5. /\ next.token = o.token + (IF complete THEN Cardinality(items) ELSE 0)
        /\ next.local_index = (IF complete THEN 0 ELSE end)
    <3> HIDE DEF complete, end, raw, items, o, number
    <3> QED OBVIOUS
  <2>6. IsToken(next)
    <3> HIDE DEF items, raw, next
    <3> QED BY <1>0, <1>1, <1>3, <2>5 DEF IsToken
  <2>7. page.records \in Lists(s) /\ page.errors \in Lists(s)
    <3> HIDE DEF page, raw, next
    <3> QED BY <1>2, <2>3, PageItems DEF Lists
  <2>8. ASSUME NEW i \in Inside(s, w), i \in raw PROVE i \in page.records \cup page.errors
    <3> HIDE DEF page, raw, next
    <3> QED BY <1>2, <2>3, <2>8, PageItems
  <2>9. ASSUME NEW i \in Inside(s, w), i \in items, Rank(items, i) <= end
        PROVE  i \in RawPassed(s, w, cursor) \cup page.records \cup page.errors
    <3>1. CASE Rank(items, i) <= o.local_index
      <4>1. i \in RawPassed(s, w, cursor)
        BY <1>4, <2>9, <3>1 DEF RawPassed
      <4> HIDE DEF page
      <4> QED BY <4>1
    <3>2. CASE ~(Rank(items, i) <= o.local_index)
      <4>1. i \in raw
        BY <1>5, <2>9, <3>2
      <4> HIDE DEF page, raw, items
      <4> QED BY <2>8, <4>1
    <3> QED BY <3>1, <3>2
  <2>10. ASSUME NEW i \in RawPassed(s, w, page.next_cursor)
         PROVE  i \in RawPassed(s, w, cursor) \cup page.records \cup page.errors
    <3>0. i \in Inside(s, w) /\ i \in list
      BY <2>10 DEF RawPassed
    <3>1. \/ Rank(list, i) <= next.token
          \/ /\ i \in RawPage(s, w, next.token)
             /\ Rank(RawPage(s, w, next.token), i) <= next.local_index
      <4> HIDE DEF page, next
      <4> QED BY <2>4, <2>10 DEF RawPassed
    <3>2. CASE Rank(list, i) <= o.token
      BY <3>0, <3>2 DEF RawPassed
    <3>3. CASE complete /\ ~(Rank(list, i) <= o.token)
      <4>1. next.token = o.token + Cardinality(items) /\ next.local_index = 0
        <5> HIDE DEF items, next, complete
        <5> QED BY <2>5, <3>3
      <4>2. ~(i \in RawPage(s, w, next.token) /\ Rank(RawPage(s, w, next.token), i) <= 0)
        <5> SUFFICES ASSUME i \in RawPage(s, w, next.token) PROVE ~(Rank(RawPage(s, w, next.token), i) <= 0)
          OBVIOUS
        <5> HIDE DEF next
        <5>1. RawPage(s, w, next.token) \in Lists(s)
          BY <1>0, <2>6, PageOfSize DEF RawPage, IsToken
        <5> QED BY <5>1, Ranks, ItemsFinite
      <4>3. Rank(list, i) <= o.token + Cardinality(items) /\ Rank(list, i) \in Nat
        <5> HIDE DEF items, next
        <5> QED BY <3>0, <3>1, <4>1, <4>2, Ranks, ItemsFinite
      <4>4. i \in items
        <5>1. Rank(list, i) \in o.token + 1 .. o.token + ServerPage[s]
          <6> HIDE DEF items
          <6> QED BY <1>0, <1>1, <3>3, <4>3
        <5> QED BY <3>0, <5>1, PageOfRanks
      <4>5. Rank(items, i) <= end
        <5>1. Rank(items, i) <= Cardinality(items)
          <6> HIDE DEF items
          <6> QED BY <1>1, <4>4, Ranks, ItemsFinite
        <5> QED BY <3>3, <5>1
      <4> HIDE DEF items, page, end
      <4> QED BY <2>9, <3>0, <4>4, <4>5
    <3>4. CASE ~complete /\ ~(Rank(list, i) <= o.token)
      <4>1. next.token = o.token /\ next.local_index = end
        <5> HIDE DEF items, next, complete, end
        <5> QED BY <1>0, <2>5, <3>4
      <4>2. i \in items /\ Rank(items, i) <= end
        <5> HIDE DEF items, next, end
        <5> QED BY <1>4, <3>1, <3>4, <4>1
      <4> HIDE DEF items, page, end
      <4> QED BY <2>9, <3>0, <4>2
    <3> QED BY <3>2, <3>3, <3>4
  <2> HIDE DEF next
  <2> QED BY <2>4, <2>6, <2>7, <2>10, Zenon
<1> QED BY <1>6, <1>7

-----------------------------------------------------------------------------
\* By token: the items before the token, and of those after it that the window keeps the
\* first, as many as the index says.
KeptAfter(s, w, from) ==
  {i \in Whole(s, w) \cap Inside(s, w) : Catalogue[s][i].valid /\ ~(Rank(Whole(s, w), i) <= from)}

KeptPassed(s, w, from, local_index) ==
  {i \in Inside(s, w) :
     \/ Rank(Whole(s, w), i) <= from
     \/ i \in KeptAfter(s, w, from) /\ Rank(KeptAfter(s, w, from), i) <= local_index}

\* The places before which a page ends, or all.
PassedBy(s, w, from) == {i \in Inside(s, w) : Rank(Whole(s, w), i) <= from}

\* What a page of the items that the window keeps delivers.
LEMMA TokenDelivers ==
  ASSUME NEW s \in Names, NEW w, NEW list \in Lists(s), NEW from \in Nat,
         NEW size \in Nat \ {0}, NEW items, items = Taken(list, from, size),
         NEW next_token, NEW cursor, NEW c,
         Whole(s, w) \in Lists(s), Beginning(list, Whole(s, w)),
         Inside(s, w) \subseteq list,
         IsToken(TokenCursor(cursor)), c.max_results \in Nat,
         ~TokenPage(s, w, items, next_token, cursor, c).broken
  PROVE  LET page   == TokenPage(s, w, items, next_token, cursor, c)
             o      == TokenCursor(cursor)
             before == KeptPassed(s, w, from, o.local_index) IN
         /\ page.records \in Lists(s) /\ page.errors \in Lists(s)
         /\ Cardinality(page.records) <= size
         /\ \/ /\ items = {} /\ page.next_cursor = None
               /\ Inside(s, w) \subseteq before
            \/ /\ page.next_cursor # None /\ page.next_cursor[1].token = o.token
               /\ page.next_cursor[1].local_index \in Nat
               /\ KeptPassed(s, w, from, page.next_cursor[1].local_index) \subseteq
                    before \cup page.records \cup page.errors
            \/ /\ IF next_token = None THEN page.next_cursor = None
                  ELSE /\ page.next_cursor # None
                       /\ page.next_cursor[1].token = next_token[1]
                       /\ page.next_cursor[1].local_index = 0
               /\ PassedBy(s, w, from + Cardinality(items)) \subseteq
                    before \cup page.records \cup page.errors
               /\ PassedBy(s, w, from + size) \subseteq
                    before \cup page.records \cup page.errors
<1> DEFINE o        == TokenCursor(cursor)
           again    == o.local_index > 0
           kept     == Parsed(s, items) \cap Inside(s, w)
           records  == Taken(kept, o.local_index, c.max_results)
           end      == o.local_index + Cardinality(records)
           consumed == o.consumed + (IF again THEN 0 ELSE Cardinality(items))
           number   == o.page + (IF again THEN 0 ELSE 1)
           here     == [token |-> o.token, local_index |-> end, page |-> number,
                        consumed |-> consumed]
           there    == [token |-> next_token[1], local_index |-> 0, page |-> number,
                        consumed |-> consumed]
           next     == IF end < Cardinality(kept) THEN Some(here)
                       ELSE IF next_token = None THEN None ELSE Some(there)
           capped   == number >= c.max_pages \/ consumed >= c.max_results
           after    == KeptAfter(s, w, from)
           before   == KeptPassed(s, w, from, o.local_index)
           page     == TokenPage(s, w, items, next_token, cursor, c)
<1>0. o.token \in Nat /\ o.local_index \in Nat /\ c.max_results \in Nat /\ size \in Nat
  BY DEF IsToken
<1>1. items \in Lists(s) /\ Cardinality(items) \in 0 .. size
  BY <1>0, PageOfSize
<1>2. kept \in Lists(s) /\ kept \in SUBSET items /\ after \in Lists(s)
  BY <1>1, PageItems DEF Lists, KeptAfter
<1>3. records \in Lists(s) /\ Cardinality(records) \in 0 .. c.max_results
      /\ records \in SUBSET kept
  <2> HIDE DEF kept
  <2>1. \A i \in records : i \in kept
    BY PageOfRanks
  <2> QED BY <1>0, <1>2, <2>1, PageOfSize
<1>4. end \in Nat /\ o.local_index <= end /\ end <= o.local_index + c.max_results
  <2> HIDE DEF records
  <2> QED BY <1>0, <1>3
<1>5. \A i \in list : Rank(list, i) = Rank(Whole(s, w), i) /\ Rank(list, i) \in Nat
                      /\ i \in Whole(s, w)
  BY RankOfBeginning, Ranks, ItemsFinite DEF Beginning
<1>6. ASSUME NEW i \in Inside(s, w), ~(Rank(Whole(s, w), i) <= from),
             Rank(Whole(s, w), i) <= from + size
      PROVE  i \in items
  <2>1. i \in list /\ Rank(list, i) \in from + 1 .. from + size
    BY <1>0, <1>5, <1>6
  <2> QED BY <2>1, PageOfRanks
<1>7. Beginning(kept, after)
  <2>1. ASSUME NEW i \in kept PROVE i \in after
    <3>1. i \in items /\ i \in Inside(s, w) /\ Catalogue[s][i].valid
      BY DEF Parsed
    <3>2. i \in list /\ Rank(list, i) \in from + 1 .. from + size
      BY <3>1, PageOfRanks
    <3> QED BY <1>0, <1>5, <3>1, <3>2 DEF KeptAfter
  <2>2. ASSUME NEW i \in kept, NEW k \in after, k <= i PROVE k \in kept
    <3>1. i \in items
      BY PageItems, <1>1
    <3>2. i \in list /\ Rank(list, i) \in from + 1 .. from + size
      BY <3>1, PageOfRanks
    <3>3. k \in Whole(s, w) /\ k \in Inside(s, w) /\ Catalogue[s][k].valid
          /\ ~(Rank(Whole(s, w), k) <= from)
      BY DEF KeptAfter
    <3>4. k = i \/ k < i
      BY <1>2, <2>2, ItemsFinite
    <3>5. Rank(Whole(s, w), k) <= Rank(Whole(s, w), i) /\ Rank(Whole(s, w), k) \in Nat
      BY <1>5, <3>2, <3>3, <3>4, Ranks, ItemsFinite
    <3>6. k \in items
      BY <1>0, <1>5, <1>6, <3>2, <3>3, <3>5
    <3> QED BY <3>3, <3>6 DEF Parsed
  <2> HIDE DEF kept, after
  <2> QED BY <2>1, <2>2 DEF Beginning
<1>8. ASSUME NEW i \in kept
      PROVE  Rank(kept, i) = Rank(after, i) /\ Rank(kept, i) \in 1 .. Cardinality(kept)
  <2> HIDE DEF kept, after
  <2> QED BY <1>2, <1>7, RankOfBeginning, Ranks
\* The kept items that precede the end.
<1>9. ASSUME NEW i \in kept, Rank(kept, i) <= end PROVE i \in before \cup records
  <2>1. CASE Rank(kept, i) <= o.local_index
    <3>1. i \in after /\ Rank(after, i) <= o.local_index /\ i \in Inside(s, w)
      <4>1. i \in after
        <5> HIDE DEF kept, after
        <5> QED BY <1>7 DEF Beginning
      <4>2. Rank(after, i) <= o.local_index
        <5> HIDE DEF kept, after
        <5> QED BY <1>8, <2>1
      <4> QED BY <4>1, <4>2
    <3> QED BY <3>1 DEF KeptPassed
  <2>2. CASE ~(Rank(kept, i) <= o.local_index)
    <3>1. Rank(kept, i) \in o.local_index + 1 .. o.local_index + c.max_results
      <4> HIDE DEF kept, end
      <4> QED BY <1>0, <1>2, <1>4, <1>8, <1>9, <2>2, ItemsFinite
    <3>2. i \in records
      <4> HIDE DEF kept
      <4> QED BY <3>1, PageOfRanks
    <3> QED BY <3>2
  <2> QED BY <2>1, <2>2
<1>10. CASE items = {}
  <2>1. page = FetchPage({}, {}, None, FALSE)
    BY <1>10, Zenon DEF TokenPage
  <2>2. page.records = {} /\ page.errors = {} /\ page.next_cursor = None
    <3> HIDE DEF page
    <3> QED BY <2>1 DEF FetchPage
  <2>3. ASSUME NEW i \in Inside(s, w) PROVE i \in before
    <3>1. Rank(list, i) <= from
      BY <1>0, <1>10, PageNotEmpty
    <3> QED BY <1>5, <3>1 DEF KeptPassed
  <2>4. /\ page.records \in Lists(s) /\ page.errors \in Lists(s)
        /\ Cardinality(page.records) <= size
    <3> HIDE DEF page
    <3> QED BY <1>0, <2>2, FS_EmptySet DEF Lists
  <2> HIDE DEF before
  <2> QED BY <1>10, <2>2, <2>3, <2>4, Zenon DEF before
<1>11. CASE items # {}
  <2>1. ~(o.local_index > Cardinality(kept))
    <3> SUFFICES ASSUME o.local_index > Cardinality(kept) PROVE FALSE
      OBVIOUS
    <3>1. page = BrokenPage
      BY <1>11, Zenon DEF TokenPage
    <3>2. page.broken
      <4> HIDE DEF page
      <4> QED BY <3>1 DEF BrokenPage
    <3> QED BY <3>2
  <2>2. page = FetchPage(records, Unparsed(s, items), next, capped)
    BY <1>11, <2>1, Zenon DEF TokenPage
  <2>3. page.records = records /\ page.errors = Unparsed(s, items) /\ page.next_cursor = next
    <3> HIDE DEF page, records, next, capped
    <3> QED BY <2>2 DEF FetchPage
  <2>4. /\ page.records \in Lists(s) /\ page.errors \in Lists(s)
        /\ Cardinality(page.records) <= size
    <3>1. records \in SUBSET items
      <4> HIDE DEF records, kept
      <4> QED BY <1>2, <1>3
    <3> HIDE DEF page, records, next, kept
    <3>2. Cardinality(records) <= Cardinality(items) /\ Cardinality(records) \in Nat
      BY <1>1, <1>3, <3>1, ItemsFinite, FS_Subset
    <3> QED BY <1>0, <1>1, <1>3, <2>3, <3>2, PageItems
  <2>5. CASE end < Cardinality(kept)
    <3>1. page.next_cursor = Some(here)
      <4> HIDE DEF page, here, there, end, kept
      <4> QED BY <2>3, <2>5
    <3>2. page.next_cursor # None /\ page.next_cursor[1] = here
      <4> HIDE DEF page, here
      <4> QED BY <3>1, SomeIsNotNone
    <3>3. here.token = o.token /\ here.local_index = end
      <4> HIDE DEF end, o, number, consumed
      <4> QED OBVIOUS
    <3>4. ASSUME NEW i \in KeptPassed(s, w, from, end)
          PROVE  i \in before \cup page.records \cup page.errors
      <4>1. /\ i \in Inside(s, w)
            /\ \/ Rank(Whole(s, w), i) <= from
               \/ i \in after /\ Rank(after, i) <= end
        <5> HIDE DEF end
        <5> QED BY <3>4 DEF KeptPassed
      <4>2. CASE Rank(Whole(s, w), i) <= from
        BY <4>1, <4>2 DEF KeptPassed
      <4>3. CASE i \in after /\ Rank(after, i) <= end
        \* One that is not on the page would come after all that are.
        <5>1. i \in kept
          <6> SUFFICES ASSUME i \notin kept PROVE FALSE
            OBVIOUS
          <6>1. \E k \in kept : Rank(kept, k) = Cardinality(kept)
            <7> HIDE DEF kept, end
            <7>1. Cardinality(kept) \in 1 .. Cardinality(kept)
              BY <1>2, <1>4, <2>5, ItemsFinite
            <7> QED BY <1>2, <7>1, RankedItem
          <6>2. PICK k \in kept : Rank(kept, k) = Cardinality(kept)
            BY <6>1
          <6>3. k \in after /\ Rank(after, k) = Cardinality(kept)
            <7> HIDE DEF kept, after
            <7> QED BY <1>7, <1>8, <6>2 DEF Beginning
          <6>4. k < i
            <7> HIDE DEF kept, after
            <7>1. ~(i <= k)
              BY <1>7, <4>3 DEF Beginning
            <7>2. i \in Nat /\ k \in Nat
              BY <1>2, <4>3, <6>3, ItemsFinite
            <7> QED BY <7>1, <7>2
          <6>5. Rank(after, k) < Rank(after, i) /\ Rank(after, i) \in Nat
            <7> HIDE DEF kept, after, end
            <7> QED BY <1>2, <4>3, <6>3, <6>4, Ranks, ItemsFinite
          <6> HIDE DEF kept, after, end
          <6> QED BY <1>2, <1>4, <2>5, <4>3, <6>3, <6>5, ItemsFinite
        <5>2. Rank(kept, i) <= end
          <6> HIDE DEF kept, after, end
          <6> QED BY <1>8, <4>3, <5>1
        <5>3. i \in before \cup records
          BY <1>9, <5>1, <5>2
        <5> HIDE DEF before, records, page
        <5> QED BY <2>3, <5>3
      <4> QED BY <4>1, <4>2, <4>3
    <3>5. page.next_cursor[1].token = o.token /\ page.next_cursor[1].local_index = end
      <4> HIDE DEF page, here
      <4> QED BY <3>2, <3>3
    <3> QED BY <1>4, <2>4, <3>2, <3>4, <3>5, Zenon
  <2>6. CASE ~(end < Cardinality(kept))
    <3>1. IF next_token = None THEN page.next_cursor = None
          ELSE /\ page.next_cursor # None
               /\ page.next_cursor[1].token = next_token[1]
               /\ page.next_cursor[1].local_index = 0
      <4>1. page.next_cursor = IF next_token = None THEN None ELSE Some(there)
        <5> HIDE DEF page, here, there, end, kept
        <5> QED BY <2>3, <2>6
      <4>2. there.token = next_token[1] /\ there.local_index = 0
        <5> HIDE DEF number, consumed
        <5> QED OBVIOUS
      <4> HIDE DEF page, there
      <4> QED BY <4>1, <4>2, SomeIsNotNone
    <3>2. ASSUME NEW i \in items, i \in Inside(s, w) PROVE i \in before \cup page.records \cup page.errors
      <4>1. CASE i \in Parsed(s, items)
        <5>1. i \in kept
          BY <3>2, <4>1
        <5>2. Rank(kept, i) <= end
          <6> HIDE DEF kept, end
          <6> QED BY <1>2, <1>4, <1>8, <2>6, <5>1, ItemsFinite
        <5>3. i \in before \cup records
          BY <1>9, <5>1, <5>2
        <5> HIDE DEF before, records, page
        <5> QED BY <2>3, <5>3
      <4>2. CASE i \notin Parsed(s, items)
        <5>1. i \in Unparsed(s, items)
          BY <3>2, <4>2 DEF Unparsed
        <5> HIDE DEF before, page, records
        <5> QED BY <2>3, <5>1
      <4> QED BY <4>1, <4>2
    <3>3. ASSUME NEW i \in PassedBy(s, w, from + size)
          PROVE  i \in before \cup page.records \cup page.errors
      <4>1. i \in Inside(s, w) /\ Rank(Whole(s, w), i) <= from + size
        BY DEF PassedBy
      <4>2. CASE Rank(Whole(s, w), i) <= from
        BY <4>1, <4>2 DEF KeptPassed
      <4>3. CASE ~(Rank(Whole(s, w), i) <= from)
        <5> HIDE DEF before, page
        <5> QED BY <1>6, <3>2, <4>1, <4>3
      <4> QED BY <4>2, <4>3
    <3>4. PassedBy(s, w, from + Cardinality(items)) \subseteq PassedBy(s, w, from + size)
      <4> SUFFICES ASSUME NEW i \in PassedBy(s, w, from + Cardinality(items))
                   PROVE  i \in PassedBy(s, w, from + size)
        OBVIOUS
      <4>1. i \in list /\ Rank(Whole(s, w), i) <= from + Cardinality(items)
            /\ i \in Inside(s, w)
        BY DEF PassedBy
      <4>2. Rank(Whole(s, w), i) \in Nat
        BY <1>5, <4>1
      <4>3. Rank(Whole(s, w), i) <= from + size
        BY <1>0, <1>1, <4>1, <4>2
      <4> QED BY <4>1, <4>3 DEF PassedBy
    <3>5. /\ PassedBy(s, w, from + Cardinality(items)) \subseteq
               before \cup page.records \cup page.errors
          /\ PassedBy(s, w, from + size) \subseteq before \cup page.records \cup page.errors
      <4> HIDE DEF before, page
      <4> QED BY <3>3, <3>4
    <3> QED BY <2>4, <3>1, <3>5, Zenon
  <2> QED BY <2>5, <2>6
<1> QED BY <1>10, <1>11

-----------------------------------------------------------------------------
(***************************************************************************)
(* The same for every adapter c.                                           *)
(***************************************************************************)
\* The place of a token, in the list of the server.
Place(c, token) == IF c.name = "crossref" THEN token ELSE token * PageSize(c.name, c.page_size)

Passed(c, w, cursor) ==
  IF c.name \in ByOffset THEN OffsetPassed(c.name, w, cursor)
  ELSE IF c.name = "huggingface" THEN DayPassed(c.name, w, cursor, c.page_size)
  ELSE IF c.name = "biorxiv" THEN RawPassed(c.name, w, cursor)
  ELSE KeptPassed(c.name, w, Place(c, TokenCursor(cursor).token), TokenCursor(cursor).local_index)

CursorOK(c, w, cursor) ==
  IF c.name \in ByOffset THEN OffsetCursor(cursor).start \in Nat
  ELSE IF c.name = "huggingface"
  THEN HuggingFaceCursor(w, cursor) \in [date : Int, page : Nat]
  ELSE IsToken(TokenCursor(cursor))

\* The items of the times that a window accounts for.
Due(c, w) ==
  {i \in Inside(c.name, w) : c.name = "huggingface" => Day(Published(c.name, i)) < Day(w.end)}

\* The request that a remaining budget allows.
Request(c, remaining) ==
  [c EXCEPT !.page_size = Least(@, remaining), !.max_results = remaining]

\* A cursor stands for what it did when it was saved.
LEMMA SameCursor ==
  ASSUME NEW c, c.name \in Names, NEW w, NEW cursor, cursor # None
  PROVE  /\ Passed(c, w, Some(cursor[1])) = Passed(c, w, cursor)
         /\ CursorOK(c, w, Some(cursor[1])) <=> CursorOK(c, w, cursor)
<1> DEFINE x == Some(cursor[1])
<1>1. x # None /\ x[1] = cursor[1]
  BY SomeIsNotNone
<1> HIDE DEF x
<1>2. /\ OffsetCursor(x) = OffsetCursor(cursor) /\ TokenCursor(x) = TokenCursor(cursor)
      /\ HuggingFaceCursor(w, x) = HuggingFaceCursor(w, cursor)
  BY <1>1 DEF OffsetCursor, TokenCursor, HuggingFaceCursor
<1>3. /\ OffsetPassed(c.name, w, x) = OffsetPassed(c.name, w, cursor)
      /\ DayPassed(c.name, w, x, c.page_size) = DayPassed(c.name, w, cursor, c.page_size)
      /\ RawPassed(c.name, w, x) = RawPassed(c.name, w, cursor)
  BY <1>2, Zenon DEF OffsetPassed, DayPassed, RawPassed
<1> QED BY <1>2, <1>3, Zenon DEF Passed, CursorOK, x

\* Years, and other parts of time, do not turn back.
LEMMA QuotientsGrow ==
  ASSUME NEW d \in Nat \ {0}, NEW a \in Nat, NEW b \in Nat, a <= b
  PROVE  a \div d \in Int /\ b \div d \in Int /\ a \div d <= b \div d
<1> DEFINE q == a \div d
           r == b \div d
<1>1. q \in Int /\ r \in Int
  OBVIOUS
<1>2. d * q <= a /\ b < d * r + d
  <2>1. d * (a \div d) <= a
    OBVIOUS
  <2>2. b < d * (b \div d) + d
    OBVIOUS
  <2> QED BY <2>1, <2>2
<1> HIDE DEF q, r
<1>3. ~(q > r)
  <2> SUFFICES ASSUME q > r PROVE FALSE
    OBVIOUS
  <2>1. q - r - 1 \in Nat /\ d * q = d * (q - r - 1) + d * r + d
    BY <1>1
  <2>2. d * (q - r - 1) >= 0 /\ d * (q - r - 1) \in Int /\ d * r \in Int /\ d * q \in Int
    BY <1>1, <2>1
  <2> QED BY <1>2, <2>1, <2>2
<1> QED BY <1>1, <1>3 DEF q, r

\* What the adapters see of a request.
LEMMA RequestFields ==
  ASSUME NEW c, AdapterConfig(c), NEW r
  PROVE  /\ Request(c, r).name = c.name /\ Request(c, r).max_results = r
         /\ Request(c, r).page_size = Least(c.page_size, r)
         /\ Request(c, r).max_pages = c.max_pages
<1> DEFINE d == [c EXCEPT !.page_size = Least(c.page_size, r)]
<1>1. Request(c, r) = [d EXCEPT !.max_results = r]
  BY Zenon DEF Request
<1>2. DOMAIN c = {"name", "lookback", "page_size", "max_pages", "max_results",
                  "backfill_start", "backfill_days"}
  BY DEF AdapterConfig
<1>3. DOMAIN d = DOMAIN c /\ d.name = c.name /\ d.page_size = Least(c.page_size, r)
      /\ d.max_pages = c.max_pages
  BY <1>2
<1> HIDE DEF d
<1> QED BY <1>1, <1>2, <1>3

\* What a page of the window may be asked for.
Asked(c, w, cursor, r, t) ==
  /\ AdapterConfig(c) /\ w \in Windows /\ CursorOK(c, w, cursor)
  /\ r \in Nat \ {0} /\ t \in Nat /\ w.end <= t
  /\ SizedPages(c) => c.page_size <= r

\* What it delivers.
Delivered(c, w, cursor, page) ==
  /\ page.records \in Lists(c.name) /\ page.errors \in Lists(c.name)
  /\ SizedPages(c) => Cardinality(page.records) <= c.page_size
  /\ IF page.next_cursor # None
     THEN /\ CursorOK(c, w, page.next_cursor)
          /\ Passed(c, w, page.next_cursor) \subseteq
               Passed(c, w, cursor) \cup page.records \cup page.errors
     ELSE Due(c, w) \subseteq Passed(c, w, cursor) \cup page.records \cup page.errors

\* Whatever the adapter, a usable page delivers what its cursor moves past.
LEMMA Delivers ==
  ASSUME SteadyServers, NEW c, NEW w, NEW cursor, NEW r, NEW t, Asked(c, w, cursor, r, t),
         ~AdapterFetch(w, cursor, t, Request(c, r)).broken
  PROVE  Delivered(c, w, cursor, AdapterFetch(w, cursor, t, Request(c, r)))
<1> DEFINE s    == c.name
           q    == Request(c, r)
           page == AdapterFetch(w, cursor, t, q)
<1>0. c.name = s
  OBVIOUS
<1>1. /\ q.name = s /\ q.max_results = r /\ q.page_size = Least(c.page_size, r)
      /\ s \in Names /\ c.page_size \in Nat \ {0} /\ w \in Windows /\ t \in Nat /\ w.end <= t
      /\ r \in Nat \ {0}
  BY RequestFields DEF Asked, AdapterConfig, Names
<1>2. /\ q.page_size \in Nat \ {0} /\ q.max_results \in Nat
      /\ SizedPages(c) => q.page_size = c.page_size
  BY <1>1 DEF Least, Asked
<1>3. ServerPage[s] \in Nat
  BY <1>1, CatalogueAssumption DEF CatalogueAssumption, Names
<1> SUFFICES Delivered(c, w, cursor, page)
  OBVIOUS
<1> HIDE DEF q, page, s
<1>4. s # "huggingface" =>
        /\ Whole(s, w) \in Lists(s) /\ Served(s, w, t) \in Lists(s)
        /\ Beginning(Served(s, w, t), Whole(s, w))
        /\ Inside(s, w) \subseteq Served(s, w, t)
        /\ s \in ByDay => Served(s, w, t) = Whole(s, w)
  <2> SUFFICES ASSUME s # "huggingface"
               PROVE  /\ Whole(s, w) \in Lists(s) /\ Served(s, w, t) \in Lists(s)
                      /\ Beginning(Served(s, w, t), Whole(s, w))
                      /\ Inside(s, w) \subseteq Served(s, w, t)
                      /\ s \in ByDay => Served(s, w, t) = Whole(s, w)
    OBVIOUS
  <2>1. s \in Names /\ w \in Windows /\ t \in Nat /\ w.end <= t
    BY <1>1
  <2> QED BY <2>1, ServedList
<1>5. CursorOK(c, w, cursor)
  BY DEF Asked
<1>6. s # "huggingface" => Due(c, w) = Inside(s, w)
  BY <1>0 DEF Due
<1>7. CASE s \in {"arxiv", "dblp", "semantic_scholar"}
  <2>1. PICK kept : page = OffsetPage(s, Served(s, w, t), cursor, q, kept)
                    /\ Inside(s, w) \subseteq kept
    <3>1. CASE s = "arxiv"
      <4>1. page = ArxivFetch(s, w, cursor, t, q)
        BY <1>1, <3>1, Zenon DEF AdapterFetch, page
      <4> QED BY <3>1, <4>1, Zenon DEF ArxivFetch, Served
    <3>2. CASE s = "semantic_scholar"
      <4>1. page = SemanticScholarFetch(s, w, cursor, t, q)
        BY <1>1, <3>2 DEF AdapterFetch, page
      <4>2. Served(s, w, t) = OfTheDays(s, w, t)
        BY <3>2 DEF Served, ByDay
      <4> QED BY <4>1, <4>2, Zenon DEF SemanticScholarFetch
    <3>3. CASE s = "dblp"
      <4> DEFINE years == {i \in DOMAIN Catalogue[s] :
                             Year(Published(s, i)) \in Year(w.start) .. Year(w.end)}
      <4>1. page = DblpFetch(s, w, cursor, t, q)
        BY <1>1, <3>3 DEF AdapterFetch, page
      <4>2. Served(s, w, t) = Known(s, t)
        BY <3>3 DEF Served, ByDay
      <4>3. page = OffsetPage(s, Served(s, w, t), cursor, q, years)
        BY <4>1, <4>2, Zenon DEF DblpFetch
      <4>4. ASSUME NEW i \in Inside(s, w) PROVE i \in years
        <5>1. i \in DOMAIN Catalogue[s] /\ Published(s, i) \in w.start .. w.end
          BY DEF Inside
        <5>2. w.start \in Nat /\ w.end \in Nat /\ HalfDaysPerYear \in Nat \ {0}
          BY <1>1, TimesAreNatural, CatalogueAssumption DEF Windows, CatalogueAssumption
        <5>3. Year(Published(s, i)) \in Int /\ Year(w.start) \in Int /\ Year(w.end) \in Int
              /\ Year(w.start) <= Year(Published(s, i)) /\ Year(Published(s, i)) <= Year(w.end)
          BY <5>1, <5>2, QuotientsGrow DEF Year
        <5> QED BY <5>1, <5>3
      <4> HIDE DEF years
      <4> QED BY <4>3, <4>4
    <3> QED BY <1>7, <3>1, <3>2, <3>3
  <2>2. OffsetCursor(cursor).start \in Nat /\ SizedPages(c) = FALSE
        /\ Passed(c, w, cursor) = OffsetPassed(s, w, cursor)
        /\ \A x : /\ Passed(c, w, x) = OffsetPassed(s, w, x)
                  /\ CursorOK(c, w, x) <=> OffsetCursor(x).start \in Nat
    BY <1>1, <1>5, <1>7, <1>0 DEF SizedPages, Passed, CursorOK, ByOffset
  <2>3. /\ page.records \in Lists(s) /\ page.errors \in Lists(s)
        /\ page.next_cursor # None =>
             /\ page.next_cursor[1].start \in Nat
             /\ OffsetPassed(s, w, page.next_cursor) \subseteq
                  OffsetPassed(s, w, cursor) \cup page.records \cup page.errors
        /\ page.next_cursor = None =>
             Inside(s, w) \subseteq OffsetPassed(s, w, cursor)
    <3>1. /\ s \in Names /\ Served(s, w, t) \in Lists(s) /\ Whole(s, w) \in Lists(s)
          /\ Beginning(Served(s, w, t), Whole(s, w)) /\ Inside(s, w) \subseteq Served(s, w, t)
          /\ OffsetCursor(cursor).start \in Nat /\ q.page_size \in Nat \ {0}
      BY <1>1, <1>2, <1>4, <1>7, <2>2
    <3> DEFINE p == OffsetPage(s, Served(s, w, t), cursor, q, kept)
    <3>2. /\ p.records \in Lists(s) /\ p.errors \in Lists(s)
          /\ p.next_cursor # None =>
               /\ p.next_cursor[1].start \in Nat
               /\ OffsetPassed(s, w, p.next_cursor) \subseteq
                    OffsetPassed(s, w, cursor) \cup p.records \cup p.errors
          /\ p.next_cursor = None => Inside(s, w) \subseteq OffsetPassed(s, w, cursor)
      <4>1. Inside(s, w) \subseteq kept
        BY <2>1
      <4> QED BY <3>1, <4>1, OffsetDelivers
    <3>3. page = p
      BY <2>1
    <3> HIDE DEF p
    <3> QED BY <3>2, <3>3
  <2>4. page.next_cursor # None => OffsetCursor(page.next_cursor).start \in Nat
    BY <2>3 DEF OffsetCursor
  <2>5. Due(c, w) = Inside(s, w)
    BY <1>6, <1>7
  <2> QED BY <2>2, <2>3, <2>4, <2>5, <1>0, SMT DEF Delivered
<1>8. CASE s = "huggingface"
  <2>1. page = HuggingFaceFetch(s, w, cursor, q)
    BY <1>1, <1>8 DEF AdapterFetch, page
  <2>2. /\ HuggingFaceCursor(w, cursor) \in [date : Int, page : Nat]
        /\ \A x : /\ Passed(c, w, x) = DayPassed(s, w, x, c.page_size)
                  /\ CursorOK(c, w, x) <=>
                       HuggingFaceCursor(w, x) \in [date : Int, page : Nat]
    <3>1. s \notin ByOffset
      BY <1>8 DEF ByOffset
    <3> QED BY <1>0, <1>5, <1>8, <3>1, Zenon DEF Passed, CursorOK
  <2>6. q.page_size = c.page_size
    BY <1>0, <1>2, <1>8 DEF SizedPages
  <2>3. /\ page.records \in Lists(s) /\ page.errors \in Lists(s)
        /\ Cardinality(page.records) <= c.page_size
        /\ page.next_cursor # None =>
             /\ page.next_cursor[1] \in [date : Int, page : Nat]
             /\ DayPassed(s, w, page.next_cursor, c.page_size) \subseteq
                  DayPassed(s, w, cursor, c.page_size) \cup page.records \cup page.errors
        /\ page.next_cursor = None =>
             \A i \in Inside(s, w) :
               Day(Published(s, i)) < Day(w.end) => i \in DayPassed(s, w, cursor, c.page_size)
    BY <1>1, <1>8, <2>1, <2>2, <2>6, DayDelivers
  <2>4. page.next_cursor # None => HuggingFaceCursor(w, page.next_cursor) \in [date : Int, page : Nat]
    BY <2>3 DEF HuggingFaceCursor
  <2>5. page.next_cursor = None => Due(c, w) \subseteq DayPassed(s, w, cursor, c.page_size)
    BY <1>0, <1>8, <2>3 DEF Due
  <2> QED BY <2>2, <2>3, <2>4, <2>5, <1>0, SMT DEF Delivered
<1>9. CASE s = "biorxiv"
  <2>1. page = BiorxivFetch(s, w, cursor, t, q)
    BY <1>1, <1>9 DEF AdapterFetch, page
  <2>2. /\ IsToken(TokenCursor(cursor)) /\ ~SizedPages(c)
        /\ \A x : /\ Passed(c, w, x) = RawPassed(s, w, x)
                  /\ CursorOK(c, w, x) <=> IsToken(TokenCursor(x))
    <3>1. s \notin ByOffset /\ s # "huggingface" /\ ~SizedPages(c)
      BY <1>0, <1>9 DEF ByOffset, SizedPages
    <3> QED BY <1>0, <1>5, <1>9, <3>1, Zenon DEF Passed, CursorOK
  <2>3. Served(s, w, t) = OfTheDays(s, w, t) /\ Served(s, w, t) = Whole(s, w)
    BY <1>4, <1>9 DEF Served, ByDay
  <2>4. ServerPage[s] \in Nat \ {0}
    BY <1>1, <1>3, <1>9 DEF SteadyServers
  <2>5. /\ page.records \in Lists(s) /\ page.errors \in Lists(s)
        /\ page.next_cursor # None =>
             /\ IsToken(page.next_cursor[1])
             /\ RawPassed(s, w, page.next_cursor) \subseteq
                  RawPassed(s, w, cursor) \cup page.records \cup page.errors
        /\ page.next_cursor = None => Inside(s, w) \subseteq RawPassed(s, w, cursor)
    <3>1. /\ Whole(s, w) \in Lists(s) /\ OfTheDays(s, w, t) = Whole(s, w)
          /\ Inside(s, w) \subseteq Whole(s, w)
      BY <1>4, <1>9, <2>3
    <3>2. ~page.broken
      BY DEF page, q
    <3> QED BY <1>1, <1>2, <2>1, <2>2, <2>4, <3>1, <3>2, RawDelivers
  <2>6. page.next_cursor # None => IsToken(TokenCursor(page.next_cursor))
    BY <2>5 DEF TokenCursor
  <2>7. Due(c, w) = Inside(s, w)
    BY <1>6, <1>9
  <2> QED BY <1>0, <2>2, <2>5, <2>6, <2>7 DEF Delivered
<1>10. CASE s \in {"crossref", "papers_with_code"}
  <2> DEFINE o    == TokenCursor(cursor)
             list == Served(s, w, t)
             size == PageSize(s, q.page_size)
             from == Place(c, o.token)
             items == Taken(list, from, size)
             next == IF s = "crossref" THEN Some(o.token + Cardinality(items))
                     ELSE IF (o.token + 1) * size < Cardinality(list) THEN Some(o.token + 1)
                     ELSE None
  <2>1. /\ IsToken(o)
        /\ \A x : /\ Passed(c, w, x) = KeptPassed(s, w, Place(c, TokenCursor(x).token),
                                                  TokenCursor(x).local_index)
                  /\ CursorOK(c, w, x) <=> IsToken(TokenCursor(x))
    <3>1. s \notin ByOffset /\ s # "huggingface" /\ s # "biorxiv"
      BY <1>10 DEF ByOffset
    <3> QED BY <1>0, <1>5, <3>1, Zenon DEF Passed, CursorOK
  <2>2. /\ size \in Nat \ {0} /\ size \in Nat
        /\ s = "papers_with_code" => size = PageSize(s, c.page_size)
    BY <1>0, <1>1, <1>2, <1>3, <1>10 DEF PageSize, SizedPages
  <2>3. o.token \in Nat /\ o.local_index \in Nat
    BY <2>1 DEF IsToken
  <2>4. /\ s = "crossref" => from = o.token
        /\ s = "papers_with_code" =>
             from = o.token * size /\ Place(c, o.token + 1) = (o.token + 1) * size
    <3> HIDE DEF o, size
    <3> QED BY <1>0, <2>2 DEF Place
  <2> HIDE DEF size
  <2>5. from \in Nat /\ (o.token + 1) * size = o.token * size + size
    <3>1. o.token * size \in Nat /\ (o.token + 1) * size = o.token * size + size
      <4> HIDE DEF o
      <4> QED BY <2>2, <2>3
    <3> HIDE DEF from
    <3> QED BY <1>10, <2>3, <2>4, <3>1
  <2>6. page = TokenPage(s, w, items, next, cursor, q)
    <3>1. CASE s = "crossref"
      <4>1. page = CrossrefFetch(s, w, cursor, t, q)
        BY <1>1, <3>1 DEF AdapterFetch, page
      <4>2. list = OfTheDays(s, w, t) /\ from = o.token
        BY <2>4, <3>1 DEF Served, ByDay
      <4>3. next = Some(o.token + Cardinality(items))
        BY <3>1
      <4> HIDE DEF from, list
      <4> QED BY <4>1, <4>2, <4>3, Zenon DEF CrossrefFetch, size
    <3>2. CASE s = "papers_with_code"
      <4>1. page = PapersWithCodeFetch(s, w, cursor, t, q)
        BY <1>1, <3>2 DEF AdapterFetch, page
      <4>2. list = Known(s, t) /\ from = o.token * size
        BY <2>4, <3>2 DEF Served, ByDay
      <4>3. next = IF (o.token + 1) * size < Cardinality(list) THEN Some(o.token + 1) ELSE None
        BY <3>2
      <4> HIDE DEF from, list, next
      <4> QED BY <4>1, <4>2, <4>3, Zenon DEF PapersWithCodeFetch, size
    <3> QED BY <1>10, <3>1, <3>2
  <2> DEFINE before == KeptPassed(s, w, from, o.local_index)
             all    == before \cup page.records \cup page.errors
  <2>7. /\ page.records \in Lists(s) /\ page.errors \in Lists(s)
        /\ Cardinality(page.records) <= size
        /\ \/ /\ items = {} /\ page.next_cursor = None
              /\ Inside(s, w) \subseteq before
           \/ /\ page.next_cursor # None /\ page.next_cursor[1].token = o.token
              /\ page.next_cursor[1].local_index \in Nat
              /\ KeptPassed(s, w, from, page.next_cursor[1].local_index) \subseteq all
           \/ /\ IF next = None THEN page.next_cursor = None
                 ELSE /\ page.next_cursor # None
                      /\ page.next_cursor[1].token = next[1]
                      /\ page.next_cursor[1].local_index = 0
              /\ PassedBy(s, w, from + Cardinality(items)) \subseteq all
              /\ PassedBy(s, w, from + size) \subseteq all
    <3>1. /\ list \in Lists(s) /\ Whole(s, w) \in Lists(s) /\ Beginning(list, Whole(s, w))
          /\ Inside(s, w) \subseteq list
      BY <1>4, <1>10
    <3>2. ~page.broken
      BY DEF page, q
    <3>3. items = Taken(list, from, size)
      OBVIOUS
    <3> HIDE DEF list, from, items, next
    <3> QED BY <1>1, <1>2, <2>1, <2>2, <2>5, <2>6, <3>1, <3>2, <3>3, TokenDelivers
  <2> HIDE DEF from, next, items, before
  <2>8. before = Passed(c, w, cursor)
    BY <2>1 DEF before, from
  <2>9. Due(c, w) = Inside(s, w)
    BY <1>6, <1>10
  <2>10. SizedPages(c) => Cardinality(page.records) <= c.page_size
    BY <1>0, <1>10, <2>2, <2>7 DEF SizedPages, PageSize
  <2>11. ASSUME page.next_cursor # None
         PROVE  TokenCursor(page.next_cursor) = page.next_cursor[1]
    BY <2>11 DEF TokenCursor
  <2>12. CASE page.next_cursor = None /\ Inside(s, w) \subseteq before
    BY <1>0, <2>7, <2>8, <2>9, <2>10, <2>12 DEF Delivered
  <2>13. CASE /\ page.next_cursor # None /\ page.next_cursor[1].token = o.token
              /\ page.next_cursor[1].local_index \in Nat
              /\ KeptPassed(s, w, from, page.next_cursor[1].local_index) \subseteq all
    <3>1. IsToken(page.next_cursor[1])
      BY <2>3, <2>13 DEF IsToken
    <3>2. Passed(c, w, page.next_cursor) = KeptPassed(s, w, from, page.next_cursor[1].local_index)
      BY <2>1, <2>11, <2>13 DEF from
    <3> QED BY <1>0, <2>1, <2>7, <2>8, <2>10, <2>11, <2>13, <3>1, <3>2 DEF Delivered
  <2>14. CASE /\ IF next = None THEN page.next_cursor = None
                 ELSE /\ page.next_cursor # None
                      /\ page.next_cursor[1].token = next[1]
                      /\ page.next_cursor[1].local_index = 0
              /\ PassedBy(s, w, from + Cardinality(items)) \subseteq all
              /\ PassedBy(s, w, from + size) \subseteq all
    <3>1. items \in Lists(s) /\ Cardinality(items) \in Nat
      BY <1>1, <1>4, <1>10, <2>2, <2>5, PageOfSize, ItemsFinite DEF items
    <3>2. CASE next = None
      <4>1. s = "papers_with_code" /\ ~((o.token + 1) * size < Cardinality(list))
        <5> HIDE DEF list
        <5> QED BY <1>10, <3>2, SomeIsNotNone DEF next
      <4>2. Cardinality(list) <= from + size
        <5>1. Cardinality(list) \in Nat
          BY <1>1, <1>4, <1>10, ItemsFinite
        <5> HIDE DEF list
        <5> QED BY <2>2, <2>4, <2>5, <4>1, <5>1
      <4>3. ASSUME NEW i \in Inside(s, w) PROVE i \in PassedBy(s, w, from + size)
        <5>1. i \in list /\ Rank(list, i) \in 1 .. Cardinality(list)
              /\ Rank(list, i) = Rank(Whole(s, w), i)
          BY <1>1, <1>4, <1>10, Ranks, RankOfBeginning
        <5>2. Cardinality(list) \in Nat
          BY <1>1, <1>4, <1>10, ItemsFinite
        <5> HIDE DEF list
        <5>3. Rank(Whole(s, w), i) <= from + size
          BY <2>2, <2>5, <4>2, <5>1, <5>2
        <5> QED BY <5>3 DEF PassedBy
      <4> HIDE DEF all
      <4>4. Inside(s, w) \subseteq all
        BY <2>14, <4>3
      <4> QED BY <1>0, <2>7, <2>8, <2>9, <2>10, <2>14, <3>2, <4>4 DEF Delivered, all
    <3>3. CASE next # None
      <4>1. /\ page.next_cursor # None /\ page.next_cursor[1].token = next[1]
            /\ page.next_cursor[1].local_index = 0
        BY <2>14, <3>3
      <4>2. /\ next[1] \in Nat
            /\ PassedBy(s, w, Place(c, next[1])) \subseteq all
        <5>1. CASE s = "crossref"
          <6>1. next[1] = o.token + Cardinality(items)
            BY <5>1, SomeIsNotNone DEF next
          <6>2. Place(c, next[1]) = from + Cardinality(items)
            BY <1>0, <2>4, <5>1, <6>1 DEF Place
          <6> HIDE DEF all
          <6> QED BY <2>3, <2>14, <3>1, <6>1, <6>2
        <5>2. CASE s = "papers_with_code"
          <6>1. next[1] = o.token + 1
            <7> HIDE DEF list
            <7> QED BY <3>3, <5>2, SomeIsNotNone DEF next
          <6>2. Place(c, next[1]) = from + size
            BY <2>4, <2>5, <5>2, <6>1
          <6> HIDE DEF all
          <6> QED BY <2>3, <2>14, <6>1, <6>2
        <5> QED BY <1>10, <5>1, <5>2
      <4>3. ASSUME NEW i \in KeptPassed(s, w, Place(c, next[1]), 0)
            PROVE  i \in PassedBy(s, w, Place(c, next[1]))
        <5> DEFINE after == KeptAfter(s, w, Place(c, next[1]))
        <5>1. after \in Lists(s)
          BY DEF KeptAfter, Lists, Inside
        <5>2. ASSUME i \in after PROVE ~(Rank(after, i) <= 0)
          <6> HIDE DEF after
          <6> QED BY <1>1, <5>1, <5>2, Ranks, ItemsFinite
        <5> QED BY <5>2 DEF KeptPassed, PassedBy
      <4>4. Passed(c, w, page.next_cursor) = KeptPassed(s, w, Place(c, next[1]), 0)
        BY <2>1, <2>11, <4>1
      <4>5. CursorOK(c, w, page.next_cursor)
        BY <2>1, <2>11, <4>1, <4>2 DEF IsToken
      <4>6. Passed(c, w, page.next_cursor) \subseteq all
        <5> HIDE DEF all
        <5> QED BY <4>2, <4>3, <4>4
      <4> QED BY <1>0, <2>7, <2>8, <2>10, <4>1, <4>5, <4>6 DEF Delivered
    <3> QED BY <3>2, <3>3
  <2> QED BY <2>7, <2>12, <2>13, <2>14
<1> QED BY <1>1, <1>7, <1>8, <1>9, <1>10, CatalogueAssumption
          DEF CatalogueAssumption, Names, AdapterNames

\* A window that is opened has passed nothing.
LEMMA FreshWindow ==
  ASSUME SteadyServers, NEW c, AdapterConfig(c), NEW w \in Windows
  PROVE  CursorOK(c, w, None) /\ Passed(c, w, None) = {}
<1> DEFINE s == c.name
<1>1. s \in Names /\ w.start \in Nat /\ w.end \in Nat
  BY TimesAreNatural DEF AdapterConfig, Names, Windows
<1>2. ASSUME s # "huggingface", NEW i \in Inside(s, w)
      PROVE  i \in Whole(s, w) /\ Whole(s, w) \in Lists(s) /\ ~(Rank(Whole(s, w), i) <= 0)
  <2>1. /\ Whole(s, w) \in Lists(s) /\ Inside(s, w) \subseteq Served(s, w, w.end)
        /\ Served(s, w, w.end) \subseteq Whole(s, w)
    <3>1. w.end <= w.end
      BY <1>1
    <3> QED BY <1>1, <1>2, <3>1, ServedList DEF Beginning
  <2>2. i \in Whole(s, w)
    BY <2>1
  <2> HIDE DEF s
  <2> QED BY <1>1, <2>1, <2>2, Ranks, ItemsFinite
<1>3. ASSUME NEW list \in Lists(s), NEW i \in list PROVE ~(Rank(list, i) <= 0)
  <2> HIDE DEF s
  <2> QED BY <1>1, Ranks, ItemsFinite
<1>4. /\ OffsetCursor(None).start = 0 /\ TokenCursor(None).token = 0
      /\ TokenCursor(None).local_index = 0 /\ HuggingFaceCursor(w, None).page = 0
      /\ HuggingFaceCursor(w, None).date = Day(w.end) - 1
      /\ HuggingFaceCursor(w, None) \in [date : Int, page : Nat]
  BY <1>1 DEF OffsetCursor, TokenCursor, HuggingFaceCursor, Day
<1>5. CASE s \in ByOffset
  <2>1. Passed(c, w, None) = OffsetPassed(s, w, None) /\ CursorOK(c, w, None)
    BY <1>4, <1>5 DEF Passed, CursorOK
  <2>2. s # "huggingface"
    BY <1>5 DEF ByOffset
  <2> HIDE DEF s
  <2> QED BY <1>2, <1>4, <2>1, <2>2 DEF OffsetPassed
<1>6. CASE s = "huggingface"
  <2>1. s \notin ByOffset
    BY <1>6 DEF ByOffset
  <2>2. Passed(c, w, None) = DayPassed(s, w, None, c.page_size) /\ CursorOK(c, w, None)
    BY <1>4, <1>6, <2>1, Zenon DEF Passed, CursorOK
  <2>3. c.page_size \in Nat
    BY DEF AdapterConfig
  <2>4. ASSUME NEW i \in DayPassed(s, w, None, c.page_size) PROVE FALSE
    <3> DEFINE date == Day(w.end) - 1
    <3>1. /\ i \in Inside(s, w) /\ Day(Published(s, i)) < Day(w.end)
          /\ \/ Day(Published(s, i)) > date
             \/ /\ Day(Published(s, i)) = date
                /\ Rank(DailyList(s, date), i) <= 0 * c.page_size
      BY <1>4 DEF DayPassed
    <3>2. i \in DOMAIN Catalogue[s] /\ Published(s, i) \in Nat
      BY <1>1, <3>1 DEF Inside
    <3>3. Day(Published(s, i)) = date /\ Rank(DailyList(s, date), i) <= 0
      <4>1. 0 * c.page_size = 0
        BY <2>3
      <4>2. ~(Day(Published(s, i)) > date)
        BY <1>1, <3>1, <3>2 DEF Day
      <4> QED BY <3>1, <4>1, <4>2
    <3>4. i \in DailyList(s, date)
      BY <1>1, <1>6, <3>2, <3>3 DEF SteadyServers, DailyList
    <3>5. DailyList(s, date) \in Lists(s)
      BY DEF DailyList, Lists
    <3> QED BY <1>3, <3>3, <3>4, <3>5
  <2> QED BY <2>2, <2>4
<1>7. CASE s = "biorxiv"
  <2>1. s \notin ByOffset /\ s # "huggingface"
    BY <1>7 DEF ByOffset
  <2>2. Passed(c, w, None) = RawPassed(s, w, None) /\ CursorOK(c, w, None)
    BY <1>4, <1>7, <2>1 DEF Passed, CursorOK, IsToken
  <2>3. ASSUME NEW i \in RawPassed(s, w, None) PROVE FALSE
    <3>1. /\ i \in Inside(s, w)
          /\ \/ Rank(Whole(s, w), i) <= 0
             \/ i \in RawPage(s, w, 0) /\ Rank(RawPage(s, w, 0), i) <= 0
      BY <1>4 DEF RawPassed
    <3>2. RawPage(s, w, 0) \in Lists(s)
      <4>1. Whole(s, w) \in Lists(s) /\ ServerPage[s] \in Nat
        BY <1>1, <1>2, <2>1, <3>1, CatalogueAssumption DEF CatalogueAssumption, Names
      <4> QED BY <1>1, <4>1, PageOfSize DEF RawPage
    <3> QED BY <1>2, <1>3, <2>1, <3>1, <3>2
  <2> QED BY <2>2, <2>3
<1>8. CASE s \notin ByOffset /\ s # "huggingface" /\ s # "biorxiv"
  <2> DEFINE from == Place(c, 0)
  <2>1. Passed(c, w, None) = KeptPassed(s, w, from, 0) /\ CursorOK(c, w, None)
    BY <1>4, <1>8 DEF Passed, CursorOK, IsToken
  <2>2. from = 0
    <3>1. PageSize(s, c.page_size) \in Nat
      BY <1>1, CatalogueAssumption DEF PageSize, CatalogueAssumption, Names, AdapterConfig
    <3>2. 0 * PageSize(s, c.page_size) = 0
      BY <3>1
    <3> QED BY <3>2 DEF Place
  <2> HIDE DEF from
  <2>3. ASSUME NEW i \in KeptPassed(s, w, from, 0) PROVE FALSE
    <3>1. /\ i \in Inside(s, w)
          /\ \/ Rank(Whole(s, w), i) <= 0
             \/ i \in KeptAfter(s, w, from) /\ Rank(KeptAfter(s, w, from), i) <= 0
      BY <2>2 DEF KeptPassed
    <3>2. KeptAfter(s, w, from) \in Lists(s)
      BY DEF KeptAfter, Lists, Inside
    <3> QED BY <1>2, <1>3, <1>8, <3>1, <3>2
  <2> QED BY <2>1, <2>3
<1> QED BY <1>5, <1>6, <1>7, <1>8

\* What a page adds to a walk.
LEMMA TurnedFields ==
  ASSUME IsWalk(walk), NEW page
  PROVE  /\ Turned(page).records = walk.records \cup page.records
         /\ Turned(page).errors = walk.errors \cup page.errors
         /\ Turned(page).results = walk.results + Cardinality(page.records)
         /\ Turned(page).cursor = page.next_cursor
         /\ Turned(page).max_results = walk.max_results
         /\ ~WalkEnded(Turned(page)) => ~(Left(Turned(page)) <= 0)
<1> DEFINE records == walk.records \cup page.records
           errors  == walk.errors \cup page.errors
           pages   == walk.pages + 1
           results == walk.results + Cardinality(page.records)
           cursor  == page.next_cursor
           T == [walk EXCEPT !.records = records, !.errors = errors, !.pages = pages,
                             !.results = results, !.cursor = cursor]
           ended == \/ page.capped
                    \/ page.next_cursor # None /\ (Left(T) <= 0 \/ T.pages >= T.max_pages)
<1>1. Turned(page) = [T EXCEPT !.capped = ended]
  BY Zenon DEF Turned
<1>2. page.next_cursor # None /\ ~ended => ~(Left(T) <= 0)
  OBVIOUS
<1> DEFINE Fields == {"window", "cursor", "records", "errors", "pages", "results",
                      "max_pages", "max_results", "capped"}
<1>3. DOMAIN walk = Fields
  BY DEF IsWalk
<1>4. /\ T.cursor = cursor /\ T.results = results /\ T.records = records /\ T.errors = errors
      /\ T.max_results = walk.max_results /\ DOMAIN T = Fields
  <2> HIDE DEF records, errors, pages, results, cursor
  <2> QED BY <1>3
<1> HIDE DEF T, ended
<1>6. /\ Turned(page).capped = ended /\ Turned(page).cursor = T.cursor
      /\ Turned(page).records = T.records /\ Turned(page).errors = T.errors
      /\ Turned(page).results = T.results /\ Turned(page).max_results = T.max_results
  BY <1>1, <1>4
<1>5. Left(Turned(page)) = Left(T)
  BY <1>4, <1>6 DEF Left
<1> QED BY <1>2, <1>4, <1>5, <1>6 DEF WalkEnded

\* The rest of what a chunk adds to the history.
LEMMA ChunkFields ==
  ASSUME IsHistory(history)
  PROVE  /\ AfterChunk.records = history.records \cup walk.records
         /\ AfterChunk.errors = history.errors \cup walk.errors
         /\ AfterChunk.results_left = history.results_left - walk.results
         /\ AfterChunk.continuation =
              IF walk.cursor = None THEN None
              ELSE Some(Continuation(walk.cursor[1], walk.window))
<1> DEFINE done == walk.cursor = None
           continuation == IF done THEN None
                           ELSE Some(Continuation(walk.cursor[1], walk.window))
           covered_from == IF done THEN walk.window.start ELSE history.covered_from
           times        == IF done THEN history.walked \cup Times(walk.window) ELSE history.walked
           records      == history.records \cup walk.records
           errors       == history.errors \cup walk.errors
           pages        == history.pages_left - walk.pages
           results      == history.results_left - walk.results
<1>1. AfterChunk = [history EXCEPT !.records = records, !.errors = errors,
                      !.pages_left = pages, !.results_left = results,
                      !.continuation = continuation, !.covered_from = covered_from,
                      !.walked = times]
  BY Zenon DEF AfterChunk, Account
<1> HIDE DEF done, continuation, covered_from, times, records, errors, pages, results
<1>2. AfterChunk = [active |-> history.active, covered_from |-> covered_from,
                    continuation |-> continuation, records |-> records, errors |-> errors,
                    walked |-> times, origin |-> history.origin, pages_left |-> pages,
                    results_left |-> results]
  BY <1>1 DEF IsHistory
<1>3. /\ AfterChunk.records = records /\ AfterChunk.errors = errors
      /\ AfterChunk.results_left = results /\ AfterChunk.continuation = continuation
  BY <1>2
<1> QED BY <1>3 DEF records, errors, results, continuation, done

\* A new walk has nothing yet.
LEMMA NewWalkFields ==
  ASSUME NEW w, NEW cursor, NEW pages, NEW results
  PROVE  LET wk == Walk(w, cursor, pages, results) IN
         /\ wk.cursor = cursor /\ wk.records = {} /\ wk.errors = {} /\ wk.results = 0
         /\ wk.max_results = results
BY DEF Walk

\* A new history has nothing either.
LEMMA NewHistoryFields ==
  ASSUME NEW active \in BOOLEAN, NEW covered_from
  PROVE  LET h == History(active, covered_from) IN
         /\ h.active = active /\ h.covered_from = covered_from
         /\ h.continuation = None /\ h.records = {} /\ h.errors = {} /\ h.walked = {}
         /\ h.results_left = IF active THEN cfg.max_results ELSE 0
BY DEF History

-----------------------------------------------------------------------------
(***************************************************************************)
(* What every run keeps: at each cursor that is saved, or at work, what    *)
(* the window has passed is in the inventory, or about to be.              *)
(***************************************************************************)
\* A window of the past, at time t.
Past(w, t) == w.start <= w.end /\ w.end <= t

\* One that is left at a cursor, with what it has passed.
Resumable(c, k, have, t) ==
  /\ Past(Window(k.start, k.end), t)
  /\ CursorOK(c, Window(k.start, k.end), Some(k.cursor))
  /\ Passed(c, Window(k.start, k.end), Some(k.cursor)) \subseteq have

\* A walk back through history.
Backable(c, progress, have, t) ==
  /\ progress.covered_from <= t
  /\ progress.continuation # None => Resumable(c, progress.continuation[1], have, t)

\* Nothing of these times is missing.
Complete(s, times, have) ==
  \A i \in DOMAIN Catalogue[s] : Published(s, i) \in times => i \in have

\* The state and the records of the adapters cs.
Kept(cs, d, t) ==
  /\ d.walked \in [Names -> SUBSET Times0]
  /\ \A s \in Names : d.records[s] \in Lists(s) /\ Complete(s, d.walked[s], d.records[s])
  /\ \A k \in DOMAIN cs :
       /\ d.continuations[cs[k].name] # None =>
            Resumable(cs[k], d.continuations[cs[k].name][1], d.records[cs[k].name], t)
       /\ d.backfill[cs[k].name] # None =>
            Backable(cs[k], d.backfill[cs[k].name][1], d.records[cs[k].name], t)

Grown(d, e) == \A s \in Names : /\ d.walked[s] \subseteq e.walked[s]
                                /\ d.records[s] \subseteq e.records[s]

\* What a run has of the adapter c, with its part of a walk or of a history.
Have(c, d, part) == d.records[c.name] \cup part.records \cup part.errors
Parts(c, part)   == part.records \in Lists(c.name) /\ part.errors \in Lists(c.name)

\* A walk that goes on, and one that has ended: at its cursor, or with all of its window.
Going(c, d, wk, t) ==
  /\ Past(wk.window, t) /\ Parts(c, wk)
  /\ CursorOK(c, wk.window, wk.cursor)
  /\ Passed(c, wk.window, wk.cursor) \subseteq Have(c, d, wk)

Gone(c, d, wk, t) ==
  /\ Past(wk.window, t) /\ Parts(c, wk)
  /\ wk.cursor = None => Due(c, wk.window) \subseteq Have(c, d, wk)
  /\ wk.cursor # None => Going(c, d, wk, t)

WalkedBack(c, d, h, t) ==
  /\ Parts(c, h) /\ Complete(c.name, h.walked, Have(c, d, h))
  /\ h.covered_from <= t
  /\ h.continuation # None => Resumable(c, h.continuation[1], Have(c, d, h), t)

\* What is left of a budget is enough for pages of the full size.
Budget(c, wk) ==
  /\ wk.results \in Nat /\ wk.max_results \in Int
  /\ SizedPages(c) /\ c.page_size # 1 =>
       (wk.max_pages - wk.pages) * c.page_size <= Left(wk)

CoverInv ==
  /\ Kept(config, saved, now) /\ Kept(config, draft, now) /\ Grown(saved, draft)
  /\ phase \in {"forward", "history"} => Going(cfg, draft, walk, now) /\ ~(Left(walk) <= 0)
  /\ phase \in {"forwarded", "chunked"} => Gone(cfg, draft, walk, now)
  /\ phase \in {"history", "chunked", "fetched"} => Gone(cfg, draft, forward, now)
  /\ phase \in {"history", "chunked", "fetched"} /\ history.active =>
       WalkedBack(cfg, draft, history, now)
  /\ phase \in {"forward", "forwarded"} => ~history.active
  /\ phase \in {"forward", "history", "chunked"} => Budget(cfg, walk)
  /\ phase \in {"history", "chunked"} => walk.max_results = history.results_left

\* Time passes.
LEMMA KeptLater ==
  ASSUME NEW cs, NEW d, NEW t \in Nat, Kept(cs, d, t),
         \A s \in Names : /\ d.continuations[s] # None =>
                               Window(d.continuations[s][1].start, d.continuations[s][1].end) \in Windows
                          /\ d.backfill[s] # None =>
                               /\ d.backfill[s][1].covered_from \in Times0
                               /\ ResumesAt(d.backfill[s][1].continuation,
                                            d.backfill[s][1].covered_from),
         \A k \in DOMAIN cs : cs[k].name \in Names
  PROVE  Kept(cs, d, t + 1)
<1>1. ASSUME NEW c, NEW k, NEW have, Resumable(c, k, have, t), Window(k.start, k.end) \in Windows
      PROVE  Resumable(c, k, have, t + 1)
  <2>1. Window(k.start, k.end).end \in Nat
    BY <1>1, TimesAreNatural DEF Windows
  <2> QED BY <1>1, <2>1 DEF Resumable, Past
<1>2. ASSUME NEW k \in DOMAIN cs, d.continuations[cs[k].name] # None
      PROVE  Resumable(cs[k], d.continuations[cs[k].name][1], d.records[cs[k].name], t + 1)
  BY <1>1, <1>2 DEF Kept
<1>3. ASSUME NEW k \in DOMAIN cs, d.backfill[cs[k].name] # None
      PROVE  Backable(cs[k], d.backfill[cs[k].name][1], d.records[cs[k].name], t + 1)
  <2> DEFINE p == d.backfill[cs[k].name][1]
             have == d.records[cs[k].name]
  <2>1. Backable(cs[k], p, have, t) /\ p.covered_from \in Nat
        /\ ResumesAt(p.continuation, p.covered_from)
    BY <1>3, TimesAreNatural DEF Kept
  <2> HIDE DEF p, have
  <2>2. p.continuation # None => Resumable(cs[k], p.continuation[1], have, t + 1)
    BY <1>1, <2>1 DEF Backable, ResumesAt
  <2>3. Backable(cs[k], p, have, t + 1)
    BY <2>1, <2>2 DEF Backable
  <2> QED BY <2>3 DEF p, have
<1> QED BY <1>2, <1>3 DEF Kept

\* The adapter at work is one of the configuration.
LEMMA AtWork ==
  ASSUME TypeInv, source <= Len(config)
  PROVE  /\ source \in DOMAIN config /\ cfg = config[source] /\ config \in Configs
         /\ AdapterConfig(cfg) /\ cfg.name \in Names /\ now \in Nat
         /\ \A k \in DOMAIN config : config[k].name \in Names
         /\ \A k \in DOMAIN config : config[k].name = cfg.name => k = source
<1>1. source \in DOMAIN config /\ AdapterConfig(cfg) /\ cfg.name \in Names
  BY AdapterAtWork
<1>2. config \in Configs /\ now \in Nat
  BY FetchAssumption DEF TypeInv
<1>3. \A k \in DOMAIN config : config[k].name \in Names
  BY <1>2, FetchAssumption DEF AdapterConfig, Names
<1>4. ASSUME NEW k \in DOMAIN config, config[k].name = cfg.name PROVE k = source
  <2>1. AdapterName(config[k]) = AdapterName(config[source])
    BY <1>4, Zenon DEF AdapterName, cfg
  <2> QED BY <1>1, <1>2, <2>1, FetchAssumption
<1> QED BY <1>1, <1>2, <1>3, <1>4 DEF cfg

\* A window accounts for what is due in it.
LEMMA DueInTime ==
  ASSUME NEW w, NEW i \in DOMAIN Catalogue[cfg.name], Published(cfg.name, i) \in Times(w)
  PROVE  i \in Due(cfg, w)
BY DEF Times, Due, Inside

\* A walk that begins, from nothing or from a cursor.
LEMMA WalkBegins ==
  ASSUME NEW c, NEW d, NEW w, NEW cursor, NEW pages, NEW results, NEW t,
         Past(w, t), CursorOK(c, w, cursor), Passed(c, w, cursor) \subseteq d.records[c.name]
  PROVE  Going(c, d, Walk(w, cursor, pages, results), t)
<1> DEFINE wk == Walk(w, cursor, pages, results)
<1>1. /\ wk.window = w /\ wk.cursor = cursor /\ wk.records = {} /\ wk.errors = {}
  BY NewWalk, NewWalkFields
<1> HIDE DEF wk
<1> QED BY <1>1 DEF Going, Parts, Have, Lists, wk

\* The forward window of an adapter.
LEMMA ForwardBegins ==
  ASSUME SteadyServers, TypeInv, source <= Len(config), Kept(config, draft, now)
  PROVE  /\ Going(cfg, draft, ForwardWalk, now)
         /\ ForwardWalk.results = 0 /\ ForwardWalk.max_results = cfg.max_results
<1> DEFINE n == cfg.name
           c == draft.continuations[n]
           w == Window(now - cfg.lookback, now)
<1>1. ForwardWalk = IF c # None
        THEN Walk(Window(c[1].start, c[1].end), Some(c[1].cursor), cfg.max_pages, cfg.max_results)
        ELSE Walk(w, None, cfg.max_pages, cfg.max_results)
  BY DEF ForwardWalk
<1>2. CASE c # None
  <2>1. Resumable(cfg, c[1], draft.records[n], now)
    BY <1>2, AtWork DEF Kept
  <2> HIDE DEF c
  <2>2. Past(Window(c[1].start, c[1].end), now)
        /\ CursorOK(cfg, Window(c[1].start, c[1].end), Some(c[1].cursor))
        /\ Passed(cfg, Window(c[1].start, c[1].end), Some(c[1].cursor)) \subseteq draft.records[n]
    BY <2>1 DEF Resumable
  <2> QED BY <1>1, <1>2, <2>2, WalkBegins, NewWalkFields
<1>3. CASE ~(c # None)
  <2>1. cfg.lookback \in 1 .. FirstRun /\ now \in FirstRun .. Horizon /\ FirstRun \in Nat
        /\ Horizon \in Nat
    BY AtWork, FetchAssumption DEF TypeInv, AdapterConfig
  <2>2. w \in Windows /\ Past(w, now)
    BY <2>1 DEF Window, Windows, Times0, Past
  <2> HIDE DEF w, c
  <2>3. CursorOK(cfg, w, None) /\ Passed(cfg, w, None) \subseteq draft.records[n]
    BY <2>2, AtWork, FreshWindow
  <2> QED BY <1>1, <1>3, <2>2, <2>3, WalkBegins, NewWalkFields
<1> QED BY <1>2, <1>3

\* A chunk of history, resumed or opened.
LEMMA PlanCovers ==
  ASSUME SteadyServers, AdapterConfig(cfg), now \in Nat,
         NEW progress, NEW forward_start \in Times0, NEW have,
         progress = None => forward_start <= now,
         progress # None => /\ progress[1].covered_from \in Times0
                            /\ ResumesAt(progress[1].continuation, progress[1].covered_from)
                            /\ Backable(cfg, progress[1], have, now),
         BackfillPlan(progress, forward_start) # None
  PROVE  LET plan == BackfillPlan(progress, forward_start)[1] IN
         /\ Past(plan.window, now) /\ CursorOK(cfg, plan.window, plan.cursor)
         /\ Passed(cfg, plan.window, plan.cursor) \subseteq have
         /\ Boundary(progress, forward_start) <= now
<1> DEFINE covered_from == Boundary(progress, forward_start)
           c == progress[1].continuation[1]
           plan == BackfillPlan(progress, forward_start)
<1>1. covered_from \in Times0 /\ covered_from <= now
  BY DEF Boundary, Backable
<1>2. cfg.backfill_start # None
  BY DEF BackfillPlan
<1>3. Limit \in Times0
  BY <1>2, LimitOK
<1>4. CASE progress # None /\ progress[1].continuation # None
  <2>1. plan = Some([window |-> Window(c.start, c.end), cursor |-> Some(c.cursor)])
    BY <1>2, <1>4 DEF BackfillPlan
  <2>2. Resumable(cfg, c, have, now)
    BY <1>4 DEF Backable
  <2> HIDE DEF c, plan
  <2>3. plan[1].window = Window(c.start, c.end) /\ plan[1].cursor = Some(c.cursor)
    BY <2>1, SomeIsNotNone
  <2>4. Past(plan[1].window, now) /\ CursorOK(cfg, plan[1].window, plan[1].cursor)
        /\ Passed(cfg, plan[1].window, plan[1].cursor) \subseteq have
    BY <2>2, <2>3 DEF Resumable
  <2> QED BY <1>1, <2>4 DEF plan
<1>5. CASE ~(progress # None /\ progress[1].continuation # None)
  <2>1. /\ ~(covered_from <= Limit)
        /\ plan = Some([window |-> Window(ChunkStart(covered_from), covered_from), cursor |-> None])
    BY <1>2, <1>5 DEF BackfillPlan
  <2> HIDE DEF covered_from, plan
  <2> DEFINE w == Window(ChunkStart(covered_from), covered_from)
  <2>2. ChunkStart(covered_from) \in Times0 /\ ChunkStart(covered_from) <= covered_from
    BY <2>1, <1>1, <1>3, FetchAssumption DEF ChunkStart, AdapterConfig, Times0
  <2>3. w \in Windows /\ Past(w, now)
    BY <1>1, <2>2 DEF Window, Windows, Past
  <2> HIDE DEF w
  <2>4. CursorOK(cfg, w, None) /\ Passed(cfg, w, None) = {}
    BY <2>3, FreshWindow
  <2>5. plan[1].window = w /\ plan[1].cursor = None
    BY <2>1, SomeIsNotNone DEF w
  <2>6. Past(plan[1].window, now) /\ CursorOK(cfg, plan[1].window, plan[1].cursor)
        /\ Passed(cfg, plan[1].window, plan[1].cursor) \subseteq have
    BY <2>3, <2>4, <2>5
  <2> QED BY <1>1, <2>6 DEF plan, covered_from
<1> QED BY <1>4, <1>5

\* Two parts of what a run has.
LEMMA TwoParts ==
  ASSUME NEW c, NEW d, NEW a, NEW b, NEW ab,
         ab.records = a.records \cup b.records, ab.errors = a.errors \cup b.errors
  PROVE  Have(c, d, ab) = Have(c, d, a) \cup Have(c, d, b)
BY DEF Have

\* A chunk is counted when it is done, or kept at its cursor.
LEMMA ChunkAccounted ==
  ASSUME TypeInv, phase = "chunked", Gone(cfg, draft, walk, now),
         WalkedBack(cfg, draft, history, now)
  PROVE  WalkedBack(cfg, draft, AfterChunk, now)
<1> DEFINE h == AfterChunk
           n == cfg.name
<1>1. /\ h.covered_from = IF walk.cursor = None THEN walk.window.start ELSE history.covered_from
      /\ h.walked = IF walk.cursor = None THEN history.walked \cup Times(walk.window)
                    ELSE history.walked
  BY ChunkCounted DEF TypeInv
<1>2. /\ h.records = history.records \cup walk.records
      /\ h.errors = history.errors \cup walk.errors
      /\ h.continuation = IF walk.cursor = None THEN None
                          ELSE Some(Continuation(walk.cursor[1], walk.window))
  BY ChunkFields DEF TypeInv, HistoryOK
<1> HIDE DEF h
<1>3. Have(cfg, draft, h) = Have(cfg, draft, history) \cup Have(cfg, draft, walk)
  BY <1>2, TwoParts
<1>4. Parts(cfg, h)
  <2>1. Parts(cfg, history) /\ Parts(cfg, walk)
    BY DEF Gone, WalkedBack
  <2> QED BY <1>2, <2>1 DEF Parts, Lists
<1>5. ASSUME NEW i \in DOMAIN Catalogue[n], Published(n, i) \in h.walked
      PROVE  i \in Have(cfg, draft, h)
  <2>1. CASE Published(n, i) \in history.walked
    BY <1>3, <2>1 DEF WalkedBack, Complete
  <2>2. CASE walk.cursor = None /\ Published(n, i) \in Times(walk.window)
    <3>1. i \in Due(cfg, walk.window)
      BY <2>2, DueInTime
    <3> QED BY <1>3, <2>2, <3>1 DEF Gone
  <2> QED BY <1>1, <1>5, <2>1, <2>2
<1>6. walk.window \in Windows /\ walk.window.start \in Nat /\ walk.window.end \in Nat
  BY TimesAreNatural DEF TypeInv, Windows
<1>7. now \in Nat
  BY FetchAssumption DEF TypeInv
<1>8. h.covered_from <= now
  BY <1>1, <1>6, <1>7 DEF Gone, Past, WalkedBack
<1>9. h.continuation # None => Resumable(cfg, h.continuation[1], Have(cfg, draft, h), now)
  <2> SUFFICES ASSUME walk.cursor # None
               PROVE  Resumable(cfg, h.continuation[1], Have(cfg, draft, h), now)
    BY <1>2
  <2> DEFINE k == Continuation(walk.cursor[1], walk.window)
  <2>1. h.continuation[1] = k
    BY <1>2, SomeIsNotNone
  <2>2. Window(k.start, k.end) = walk.window /\ k.cursor = walk.cursor[1]
    BY <1>6 DEF Window, Continuation, Windows
  <2> HIDE DEF k
  <2>3. Going(cfg, draft, walk, now)
    BY DEF Gone
  <2>4. /\ Passed(cfg, walk.window, Some(walk.cursor[1])) = Passed(cfg, walk.window, walk.cursor)
        /\ CursorOK(cfg, walk.window, Some(walk.cursor[1]))
             <=> CursorOK(cfg, walk.window, walk.cursor)
    <3>1. cfg.name \in Names
      BY AtWork DEF TypeInv
    <3> QED BY <3>1, SameCursor
  <2>5. Resumable(cfg, k, Have(cfg, draft, h), now)
    BY <1>3, <2>2, <2>3, <2>4 DEF Going, Resumable
  <2> QED BY <2>1, <2>5
<1> QED BY <1>4, <1>5, <1>8, <1>9 DEF WalkedBack, Complete, h

\* The forward window of an adapter is recorded, with its cursor.
LEMMA ForwardKept ==
  ASSUME TypeInv, CoverInv, phase = "fetched"
  PROVE  LET e == WithForward(draft) IN
         /\ Kept(config, e, now) /\ Grown(saved, e) /\ Grown(draft, e)
         /\ DOMAIN e.records = Names /\ DOMAIN e.backfill = Names /\ IsState(e)
<1> DEFINE d == draft
           e == WithForward(d)
           n == cfg.name
           wk == forward
<1>0. /\ source \in DOMAIN config /\ cfg = config[source] /\ n \in Names
      /\ \A k \in DOMAIN config : config[k].name \in Names
      /\ \A k \in DOMAIN config : config[k].name = n => k = source
  BY AtWork DEF TypeInv
<1>1. /\ e.backfill = d.backfill /\ IsState(e)
      /\ e.continuations = [d.continuations EXCEPT ![n] =
           IF wk.cursor # None THEN Some(Continuation(wk.cursor[1], wk.window)) ELSE None]
      /\ e.records = [d.records EXCEPT ![n] = @ \cup wk.records \cup wk.errors]
      /\ e.walked = [d.walked EXCEPT ![n] =
           IF wk.cursor = None THEN @ \cup Times(wk.window) ELSE @]
  BY ForwardRecorded DEF TypeInv, StateOK
<1>2. /\ DOMAIN d.continuations = Names /\ DOMAIN d.backfill = Names
      /\ DOMAIN d.records = Names /\ DOMAIN d.walked = Names
  BY DEF TypeInv, StateOK, CorpusOK
<1>3. Gone(cfg, d, wk, now) /\ Kept(config, d, now) /\ Grown(saved, d)
      /\ wk.window \in Windows
  BY DEF CoverInv, TypeInv
<1>4. d.walked \in [Names -> SUBSET Times0]
  BY <1>3 DEF Kept
<1> HIDE DEF n, e
<1>5. ASSUME NEW s \in Names, s # n
      PROVE  /\ e.records[s] = d.records[s] /\ e.walked[s] = d.walked[s]
             /\ e.continuations[s] = d.continuations[s] /\ e.backfill[s] = d.backfill[s]
  BY <1>1, <1>2, <1>5
<1>6. /\ e.records[n] = Have(cfg, d, wk)
      /\ e.walked[n] = IF wk.cursor = None THEN d.walked[n] \cup Times(wk.window) ELSE d.walked[n]
      /\ e.continuations[n] =
           IF wk.cursor # None THEN Some(Continuation(wk.cursor[1], wk.window)) ELSE None
      /\ e.backfill[n] = d.backfill[n]
  BY <1>0, <1>1, <1>2 DEF Have, n
<1>7. e.walked \in [Names -> SUBSET Times0] /\ DOMAIN e.records = Names
      /\ DOMAIN e.backfill = Names /\ DOMAIN e.continuations = Names
  <2>1. Times(wk.window) \subseteq Times0
    BY <1>3, TimesOfWindow
  <2> QED BY <1>0, <1>1, <1>2, <1>4, <2>1
<1>8. e.records[n] \in Lists(n) /\ d.records[n] \subseteq e.records[n]
  <2>1. d.records[n] \in Lists(n) /\ Parts(cfg, wk)
    BY <1>0, <1>3 DEF Kept, Gone
  <2> QED BY <1>6, <2>1 DEF Have, Parts, Lists, n
<1>9. Complete(n, e.walked[n], e.records[n])
  <2> SUFFICES ASSUME NEW i \in DOMAIN Catalogue[n], Published(n, i) \in e.walked[n]
               PROVE  i \in e.records[n]
    BY DEF Complete
  <2>1. CASE Published(n, i) \in d.walked[n]
    BY <1>0, <1>3, <1>8, <2>1 DEF Kept, Complete
  <2>2. CASE wk.cursor = None /\ Published(n, i) \in Times(wk.window)
    <3>1. i \in Due(cfg, wk.window)
      BY <2>2, DueInTime DEF n
    <3> QED BY <1>3, <1>6, <2>2, <3>1 DEF Gone
  <2> QED BY <1>6, <2>1, <2>2
<1>10. ASSUME e.continuations[n] # None
       PROVE  Resumable(cfg, e.continuations[n][1], e.records[n], now)
  <2> DEFINE k == Continuation(wk.cursor[1], wk.window)
  <2>1. wk.cursor # None /\ e.continuations[n][1] = k
    BY <1>6, <1>10, SomeIsNotNone
  <2>2. Window(k.start, k.end) = wk.window /\ k.cursor = wk.cursor[1]
    BY <1>3 DEF Window, Continuation, Windows
  <2> HIDE DEF k
  <2>3. Going(cfg, d, wk, now)
    BY <1>3, <2>1 DEF Gone
  <2>4. /\ Passed(cfg, wk.window, Some(wk.cursor[1])) = Passed(cfg, wk.window, wk.cursor)
        /\ CursorOK(cfg, wk.window, Some(wk.cursor[1])) <=> CursorOK(cfg, wk.window, wk.cursor)
    BY <1>0, <2>1, SameCursor DEF n
  <2>5. Resumable(cfg, k, e.records[n], now)
    BY <1>6, <2>2, <2>3, <2>4 DEF Going, Resumable
  <2> QED BY <2>1, <2>5
<1>11. ASSUME e.backfill[n] # None
       PROVE  Backable(cfg, e.backfill[n][1], e.records[n], now)
  <2>1. Backable(cfg, d.backfill[n][1], d.records[n], now)
    BY <1>0, <1>3, <1>6, <1>11 DEF Kept, n
  <2> QED BY <1>6, <1>8, <2>1 DEF Backable, Resumable
<1>12. /\ d.walked[n] \subseteq e.walked[n]
       /\ \A s \in Names : d.walked[s] \subseteq e.walked[s] /\ d.records[s] \subseteq e.records[s]
  BY <1>5, <1>6, <1>8
<1>13. Grown(saved, e) /\ Grown(d, e)
  BY <1>3, <1>12 DEF Grown
<1>14. \A s \in Names : e.records[s] \in Lists(s) /\ Complete(s, e.walked[s], e.records[s])
  BY <1>3, <1>5, <1>8, <1>9 DEF Kept
<1>15. ASSUME NEW k \in DOMAIN config
       PROVE  /\ e.continuations[config[k].name] # None =>
                   Resumable(config[k], e.continuations[config[k].name][1],
                             e.records[config[k].name], now)
              /\ e.backfill[config[k].name] # None =>
                   Backable(config[k], e.backfill[config[k].name][1],
                            e.records[config[k].name], now)
  <2>1. CASE k = source
    BY <1>0, <1>10, <1>11, <2>1 DEF n
  <2>2. CASE k # source
    BY <1>0, <1>3, <1>5, <2>2 DEF Kept
  <2> QED BY <2>1, <2>2
<1>16. Kept(config, e, now)
  BY <1>7, <1>14, <1>15 DEF Kept
<1> QED BY <1>1, <1>7, <1>13, <1>16 DEF e

\* So is its history.
LEMMA HistoryKept ==
  ASSUME TypeInv, phase = "fetched", WalkedBack(cfg, draft, history, now), history.active,
         NEW e, Kept(config, e, now), Grown(saved, e), Grown(draft, e), IsState(e),
         DOMAIN e.records = Names, DOMAIN e.backfill = Names
  PROVE  Kept(config, WithHistory(e), now) /\ Grown(saved, WithHistory(e))
<1> DEFINE f == WithHistory(e)
           n == cfg.name
           h == history
           progress == Progress(h.covered_from, h.continuation)
<1>0. /\ source \in DOMAIN config /\ cfg = config[source] /\ n \in Names
      /\ \A k \in DOMAIN config : config[k].name \in Names
      /\ \A k \in DOMAIN config : config[k].name = n => k = source
  BY AtWork DEF TypeInv
<1>1. /\ f.continuations = e.continuations
      /\ f.backfill = [e.backfill EXCEPT ![n] = Some(progress)]
      /\ f.records = [e.records EXCEPT ![n] = @ \cup h.records \cup h.errors]
      /\ f.walked = [e.walked EXCEPT ![n] = @ \cup h.walked]
  BY HistoryRecorded
<1>2. e.walked \in [Names -> SUBSET Times0] /\ h.walked \subseteq Times0
  BY DEF Kept, TypeInv, HistoryOK
<1>3. progress.covered_from = h.covered_from /\ progress.continuation = h.continuation
  BY DEF Progress
<1> HIDE DEF n, f, progress
<1>4. ASSUME NEW s \in Names, s # n
      PROVE  /\ f.records[s] = e.records[s] /\ f.walked[s] = e.walked[s]
             /\ f.continuations[s] = e.continuations[s] /\ f.backfill[s] = e.backfill[s]
  BY <1>1, <1>2, <1>4
<1>5. /\ f.records[n] = Have(cfg, e, h) /\ f.walked[n] = e.walked[n] \cup h.walked
      /\ f.backfill[n] = Some(progress) /\ f.continuations[n] = e.continuations[n]
  BY <1>0, <1>1, <1>2 DEF Have, n
<1>6. f.walked \in [Names -> SUBSET Times0]
  BY <1>0, <1>1, <1>2
<1>7. Have(cfg, draft, h) \subseteq Have(cfg, e, h) /\ e.records[n] \subseteq f.records[n]
  BY <1>0, <1>5 DEF Grown, Have, n
<1>8. f.records[n] \in Lists(n)
  <2>1. e.records[n] \in Lists(n) /\ Parts(cfg, h)
    BY <1>0 DEF Kept, WalkedBack
  <2> QED BY <1>5, <2>1 DEF Have, Parts, Lists, n
<1>9. Complete(n, f.walked[n], f.records[n])
  <2>1. Complete(n, e.walked[n], e.records[n])
    BY <1>0 DEF Kept
  <2>2. Complete(n, h.walked, Have(cfg, draft, h))
    BY DEF WalkedBack, n
  <2> QED BY <1>5, <1>7, <2>1, <2>2 DEF Complete
<1>10. /\ f.backfill[n][1] = progress
       /\ Backable(cfg, progress, f.records[n], now)
  <2>1. f.backfill[n][1] = progress
    BY <1>5, SomeIsNotNone
  <2>2. Backable(cfg, progress, f.records[n], now)
    BY <1>3, <1>5, <1>7 DEF Backable, WalkedBack, Resumable
  <2> QED BY <2>1, <2>2
<1>11. ASSUME f.continuations[n] # None
       PROVE  Resumable(cfg, f.continuations[n][1], f.records[n], now)
  <2>1. Resumable(cfg, e.continuations[n][1], e.records[n], now)
    BY <1>0, <1>5, <1>11 DEF Kept, n
  <2> QED BY <1>5, <1>7, <2>1 DEF Resumable
<1>12. Grown(saved, f)
  <2>1. \A s \in Names : e.walked[s] \subseteq f.walked[s] /\ e.records[s] \subseteq f.records[s]
    BY <1>4, <1>5, <1>7
  <2> QED BY <2>1 DEF Grown
<1>13. \A s \in Names : f.records[s] \in Lists(s) /\ Complete(s, f.walked[s], f.records[s])
  BY <1>4, <1>8, <1>9 DEF Kept
<1>14. ASSUME NEW k \in DOMAIN config
       PROVE  /\ f.continuations[config[k].name] # None =>
                   Resumable(config[k], f.continuations[config[k].name][1],
                             f.records[config[k].name], now)
              /\ f.backfill[config[k].name] # None =>
                   Backable(config[k], f.backfill[config[k].name][1],
                            f.records[config[k].name], now)
  <2>1. CASE k = source
    BY <1>0, <1>10, <1>11, <2>1 DEF n
  <2>2. CASE k # source
    BY <1>0, <1>4, <2>2 DEF Kept
  <2> QED BY <2>1, <2>2
<1> QED BY <1>6, <1>12, <1>13, <1>14 DEF Kept, f

\* A page that a walk asks for.
LEMMA PageKept ==
  ASSUME SteadyServers, TypeInv, AskedInv, CoverInv, Fetching, ~Unusable(NextPage)
  PROVE  LET wk == Turned(NextPage) IN
         /\ wk.cursor # None => Going(cfg, draft, wk, now)
         /\ Gone(cfg, draft, wk, now) /\ Budget(cfg, wk)
         /\ wk.max_results = walk.max_results
         /\ ~WalkEnded(wk) => wk.cursor # None /\ ~(Left(wk) <= 0)
<1> DEFINE page == NextPage
           r    == Left(walk)
           w    == walk.window
           wk   == Turned(page)
           before == Passed(cfg, w, walk.cursor)
<1>1. /\ AdapterConfig(cfg) /\ cfg.name \in Names /\ now \in Nat /\ config \in Configs
      /\ cfg.page_size \in Nat \ {0}
  BY AtWork DEF TypeInv, Fetching, AdapterConfig
<1>2. /\ Going(cfg, draft, walk, now) /\ ~(Left(walk) <= 0) /\ Budget(cfg, walk)
      /\ w \in Windows /\ IsWalk(walk)
  BY DEF CoverInv, Fetching, TypeInv
<1>3. walk.pages \in Nat /\ walk.max_pages \in Int /\ walk.pages < walk.max_pages
  BY <1>1 DEF AskedInv, Fetching, AdapterConfig
<1>4. r \in Nat \ {0} /\ walk.results \in Nat /\ walk.max_results \in Int
      /\ r = walk.max_results - walk.results
  BY <1>2 DEF Budget, Left
<1> HIDE DEF r
<1>5. SizedPages(cfg) => cfg.page_size <= r
  <2> SUFFICES ASSUME SizedPages(cfg), cfg.page_size # 1 PROVE cfg.page_size <= r
    BY <1>1, <1>4
  <2> DEFINE m == walk.max_pages - walk.pages
             p == cfg.page_size
  <2>1. m \in Nat \ {0} /\ p \in Nat \ {0} /\ m * p <= r
    BY <1>1, <1>2, <1>3 DEF Budget, r
  <2> HIDE DEF m
  <2>2. p <= m * p
    <3> HIDE DEF p
    <3>1. m - 1 \in Nat /\ m * p = (m - 1) * p + p
      BY <2>1
    <3>2. (m - 1) * p \in Nat
      BY <2>1, <3>1
    <3> QED BY <2>1, <3>1, <3>2
  <2>3. m * p \in Nat
    BY <2>1
  <2> QED BY <1>4, <2>1, <2>2, <2>3
<1>6. Asked(cfg, w, walk.cursor, r, now)
  BY <1>1, <1>2, <1>4, <1>5 DEF Asked, Going, Past
<1>7. page = AdapterFetch(w, walk.cursor, now, Request(cfg, r)) /\ ~page.broken
  BY Zenon DEF NextPage, PageConfig, Request, Unusable, r
<1> HIDE DEF page
<1>8. Delivered(cfg, w, walk.cursor, page)
  BY <1>6, <1>7, Delivers
<1>9. /\ wk.window = w /\ wk.pages = walk.pages + 1 /\ wk.max_pages = walk.max_pages
      /\ wk.records = walk.records \cup page.records
      /\ wk.errors = walk.errors \cup page.errors
      /\ wk.results = walk.results + Cardinality(page.records)
      /\ wk.cursor = page.next_cursor /\ wk.max_results = walk.max_results
      /\ ~WalkEnded(wk) => ~(Left(wk) <= 0)
  BY <1>2, TurnedWalk, TurnedFields
<1> HIDE DEF wk
<1>10. ~WalkEnded(wk) => wk.cursor # None
  BY DEF WalkEnded
<1>11. Parts(cfg, wk) /\ Past(wk.window, now)
  BY <1>2, <1>8, <1>9 DEF Going, Parts, Delivered, Lists
<1>12. before \cup page.records \cup page.errors \subseteq Have(cfg, draft, wk)
  BY <1>2, <1>9 DEF Going, Have
<1> HIDE DEF before, w
<1>13. wk.cursor # None => Going(cfg, draft, wk, now)
  BY <1>8, <1>9, <1>11, <1>12 DEF Going, Delivered, before
<1>14. Gone(cfg, draft, wk, now)
  BY <1>8, <1>9, <1>11, <1>12, <1>13 DEF Gone, Delivered, before
<1>15. Cardinality(page.records) \in Nat /\ (SizedPages(cfg) => Cardinality(page.records) <= cfg.page_size)
  BY <1>1, <1>8, ItemsFinite DEF Delivered
<1>16. Budget(cfg, wk)
  <2> DEFINE p == cfg.page_size
             m == walk.max_pages - walk.pages
             k == Cardinality(page.records)
  <2>1. wk.results = walk.results + k /\ wk.results \in Nat /\ wk.max_results \in Int
    BY <1>4, <1>9, <1>15
  <2>2. ASSUME SizedPages(cfg), p # 1 PROVE (wk.max_pages - wk.pages) * p <= Left(wk)
    <3>1. m * p <= r /\ m \in Int /\ p \in Nat /\ k \in Nat /\ k <= p
      BY <1>1, <1>2, <1>3, <1>15, <2>2 DEF Budget, r
    <3>2. wk.max_pages - wk.pages = m - 1 /\ Left(wk) = r - k
      BY <1>3, <1>4, <1>9, <1>15 DEF Left
    <3> HIDE DEF m, p, k
    <3>3. (m - 1) * p = m * p - p /\ m * p \in Int
      BY <3>1
    <3> QED BY <1>4, <3>1, <3>2, <3>3
  <2> QED BY <2>1, <2>2 DEF Budget
<1> QED BY <1>9, <1>10, <1>13, <1>14, <1>16 DEF wk, page

\* Steps outside the work on an adapter.
LEMMA CoverAside ==
  ASSUME Kept(config', saved', now'), Kept(config', draft', now'), Grown(saved', draft'),
         phase' \in {"idle", "source"}
  PROVE  CoverInv'
BY DEF CoverInv

\* The end of a run.
LEMMA CoverExit ==
  ASSUME Exit, Kept(config, saved', now), config' = config, now' = now
  PROVE  CoverInv'
<1>1. draft' = saved' /\ phase' = "idle"
  BY DEF Exit
<1>2. Grown(saved', draft')
  BY <1>1 DEF Grown
<1> QED BY <1>1, <1>2, CoverAside

\* Nothing is lost in any step.
LEMMA CoverStep ==
  ASSUME SteadyServers, PagesKeepSize, TypeInv, AskedInv, CoverInv, [Next]_vars
  PROVE  CoverInv'
<1>0. Kept(config, saved, now) /\ Kept(config, draft, now) /\ Grown(saved, draft)
  BY DEF CoverInv
<1>1. CASE Tick
  <2>1. now \in Nat /\ now' = now + 1 /\ config' = config /\ saved' = saved /\ draft' = draft
        /\ phase' = "idle"
    BY <1>1, FetchAssumption DEF Tick, TypeInv
  <2>2. \A k \in DOMAIN config : config[k].name \in Names
    BY FetchAssumption DEF TypeInv, AdapterConfig, Names
  <2>3. Kept(config, saved, now + 1)
    <3>1. \A s \in Names :
             /\ saved.continuations[s] # None =>
                  Window(saved.continuations[s][1].start, saved.continuations[s][1].end) \in Windows
             /\ saved.backfill[s] # None =>
                  /\ saved.backfill[s][1].covered_from \in Times0
                  /\ ResumesAt(saved.backfill[s][1].continuation,
                               saved.backfill[s][1].covered_from)
      BY DEF TypeInv, StateOK, CorpusOK
    <3> QED BY <1>0, <2>1, <2>2, <3>1, KeptLater
  <2>4. Kept(config, draft, now + 1)
    <3>1. \A s \in Names :
             /\ draft.continuations[s] # None =>
                  Window(draft.continuations[s][1].start, draft.continuations[s][1].end) \in Windows
             /\ draft.backfill[s] # None =>
                  /\ draft.backfill[s][1].covered_from \in Times0
                  /\ ResumesAt(draft.backfill[s][1].continuation,
                               draft.backfill[s][1].covered_from)
      BY DEF TypeInv, StateOK, CorpusOK
    <3> QED BY <1>0, <2>1, <2>2, <3>1, KeptLater
  <2> QED BY <1>0, <2>1, <2>3, <2>4, CoverAside
<1>2. CASE StartRun
  BY <1>0, <1>2, CoverAside DEF StartRun, runVars
<1>3. CASE OpenSource
  <2>1. /\ source <= Len(config) /\ phase' = "forward" /\ walk' = ForwardWalk
        /\ history' = History(FALSE, 0)
        /\ config' = config /\ saved' = saved /\ draft' = draft /\ now' = now /\ cfg' = cfg
    BY <1>3 DEF OpenSource, runVars, cfg
  <2>2. Going(cfg, draft, ForwardWalk, now)
        /\ ForwardWalk.results = 0 /\ ForwardWalk.max_results = cfg.max_results
    BY <1>0, <2>1, ForwardBegins
  <2>3. ForwardWalk.pages = 0 /\ ForwardWalk.max_pages = cfg.max_pages
    BY <2>1, ForwardWalkOK
  <2>4. /\ cfg.page_size \in Nat \ {0} /\ cfg.max_pages \in Nat \ {0}
        /\ cfg.max_results \in Nat \ {0}
        /\ SizedPages(cfg) /\ cfg.page_size # 1 =>
             cfg.max_pages * cfg.page_size <= cfg.max_results
    BY <2>1, AtWork DEF AdapterConfig, PagesKeepSize
  <2>5. Left(ForwardWalk) = cfg.max_results /\ Budget(cfg, ForwardWalk)
    BY <2>2, <2>3, <2>4 DEF Left, Budget
  <2>6. ~history'.active
    BY <2>1 DEF History
  <2> DEFINE wk == ForwardWalk
  <2>7. walk' = wk /\ Going(cfg, draft, wk, now) /\ Budget(cfg, wk) /\ ~(Left(wk) <= 0)
    BY <2>1, <2>2, <2>4, <2>5
  <2> HIDE DEF wk
  <2> QED BY <1>0, <2>1, <2>6, <2>7 DEF CoverInv
<1>4. CASE FinishForward
  <2> DEFINE progress == draft.backfill[cfg.name]
             from     == Boundary(progress, walk.window.start)
             plan     == BackfillPlan(progress, walk.window.start)
             h        == History(TRUE, from)
             wk       == Chunk(plan, cfg.max_pages, cfg.max_results)
  <2>1. /\ phase = "forwarded" /\ source <= Len(config) /\ ~history.active /\ forward' = walk
        /\ config' = config /\ saved' = saved /\ draft' = draft /\ now' = now /\ cfg' = cfg
        /\ Gone(cfg, draft, walk, now)
    BY <1>4 DEF FinishForward, CoverInv, TypeInv, runVars, cfg
  <2>2. CASE plan = None
    BY <1>0, <1>4, <2>1, <2>2 DEF FinishForward, CoverInv
  <2>3. CASE plan # None
    <3>1. walk.window.start \in Times0 /\ walk.window.start <= now
      <4>1. walk.window.start \in Times0 /\ walk.window.start \in Nat /\ walk.window.end \in Nat
            /\ now \in Nat
        BY <2>1, AtWork, TimesAreNatural DEF TypeInv, Windows
      <4> QED BY <2>1, <4>1 DEF Gone, Past
    <3>2. progress # None =>
            /\ progress[1].covered_from \in Times0
            /\ ResumesAt(progress[1].continuation, progress[1].covered_from)
            /\ Backable(cfg, progress[1], draft.records[cfg.name], now)
      BY <1>0, <2>1, AtWork, ProgressOK DEF Kept
    <3>3. AdapterConfig(cfg) /\ now \in Nat
      BY <2>1, AtWork
    <3> HIDE DEF progress
    <3>4. /\ Past(plan[1].window, now) /\ CursorOK(cfg, plan[1].window, plan[1].cursor)
          /\ Passed(cfg, plan[1].window, plan[1].cursor) \subseteq draft.records[cfg.name]
          /\ from <= now
      BY <2>3, <3>1, <3>2, <3>3, PlanCovers
    <3>5. /\ wk.max_results = cfg.max_results /\ wk.results = 0 /\ wk.pages = 0
          /\ wk.max_pages = cfg.max_pages
      BY ChunkWalk, NewWalkFields DEF Chunk
    <3>6. Going(cfg, draft, wk, now)
      <4> HIDE DEF plan
      <4> QED BY <3>4, WalkBegins DEF Chunk
    <3>7. /\ h.active /\ h.covered_from = from /\ h.continuation = None /\ h.records = {}
          /\ h.errors = {} /\ h.walked = {} /\ h.results_left = cfg.max_results
      BY NewHistoryFields
    <3>8. phase' = "history" /\ history' = h /\ walk' = wk
      BY <1>4, <2>3 DEF FinishForward, progress
    <3> HIDE DEF wk, plan, h, from
    <3>9. WalkedBack(cfg, draft, h, now)
      BY <3>4, <3>7 DEF WalkedBack, Parts, Lists, Complete
    <3>10. /\ cfg.page_size \in Nat \ {0} /\ cfg.max_pages \in Nat \ {0}
           /\ cfg.max_results \in Nat \ {0}
           /\ SizedPages(cfg) /\ cfg.page_size # 1 =>
                cfg.max_pages * cfg.page_size <= cfg.max_results
      BY <2>1, AtWork DEF AdapterConfig, PagesKeepSize
    <3>11. Left(wk) = cfg.max_results /\ Budget(cfg, wk)
      BY <3>5, <3>10 DEF Left, Budget
    <3> QED BY <1>0, <2>1, <3>5, <3>6, <3>7, <3>8, <3>9, <3>10, <3>11 DEF CoverInv
  <2> QED BY <2>2, <2>3
<1>5. CASE FinishChunk
  <2> DEFINE progress == Some(Progress(AfterChunk.covered_from, None))
             plan     == BackfillPlan(progress, forward.window.start)
             wk       == Chunk(plan, AfterChunk.pages_left, AfterChunk.results_left)
  <2>1. /\ phase = "chunked" /\ source <= Len(config) /\ history.active /\ forward' = forward
        /\ config' = config /\ saved' = saved /\ draft' = draft /\ now' = now /\ cfg' = cfg
        /\ history' = AfterChunk
        /\ Gone(cfg, draft, walk, now) /\ Gone(cfg, draft, forward, now)
        /\ WalkedBack(cfg, draft, history, now) /\ Budget(cfg, walk)
        /\ walk.max_results = history.results_left
        /\ walk.max_pages = history.pages_left
    BY <1>5 DEF FinishChunk, CoverInv, TypeInv, AskedInv, runVars, cfg
  <2>2. WalkedBack(cfg, draft, AfterChunk, now)
    BY <2>1, ChunkAccounted
  <2>3. \/ phase' = "fetched"
        \/ /\ phase' = "history" /\ walk' = wk /\ plan # None
           /\ ~(AfterChunk.results_left <= 0)
    BY <1>5 DEF FinishChunk
  <2>4. CASE phase' = "fetched"
    BY <1>0, <2>1, <2>2, <2>4 DEF CoverInv
  <2>5. CASE phase' = "history" /\ walk' = wk /\ plan # None /\ ~(AfterChunk.results_left <= 0)
    <3>1. /\ AfterChunk.covered_from \in Times0 /\ AfterChunk.covered_from <= now
          /\ AfterChunk.pages_left = history.pages_left - walk.pages
          /\ AfterChunk.results_left = history.results_left - walk.results
          /\ AfterChunk.active
      BY <2>1, <2>2, ChunkCounted, ChunkFields DEF TypeInv, HistoryOK, WalkedBack
    <3>2. /\ progress # None /\ progress[1].covered_from = AfterChunk.covered_from
          /\ progress[1].continuation = None
      BY SomeIsNotNone DEF Progress
    <3> HIDE DEF progress
    <3>3. /\ progress[1].covered_from \in Times0
          /\ ResumesAt(progress[1].continuation, progress[1].covered_from)
          /\ Backable(cfg, progress[1], draft.records[cfg.name], now)
      BY <3>1, <3>2 DEF ResumesAt, Backable
    <3>4. AdapterConfig(cfg) /\ now \in Nat /\ forward.window.start \in Times0
      BY <2>1, AtWork DEF TypeInv, Windows
    <3>5. /\ Past(plan[1].window, now) /\ CursorOK(cfg, plan[1].window, plan[1].cursor)
          /\ Passed(cfg, plan[1].window, plan[1].cursor) \subseteq draft.records[cfg.name]
      BY <2>5, <3>2, <3>3, <3>4, PlanCovers
    <3>6. /\ wk.max_results = AfterChunk.results_left /\ wk.results = 0 /\ wk.pages = 0
          /\ wk.max_pages = AfterChunk.pages_left
      BY ChunkWalk, NewWalkFields DEF Chunk
    <3>7. Going(cfg, draft, wk, now)
      <4> HIDE DEF plan
      <4> QED BY <3>5, WalkBegins DEF Chunk
    <3> HIDE DEF wk, plan
    <3>8. walk.pages \in Nat /\ walk.max_pages \in Int /\ walk.results \in Nat
          /\ walk.max_results \in Int
      BY <2>1 DEF AskedInv, Budget
    <3>9. /\ wk.max_pages = walk.max_pages - walk.pages
          /\ wk.max_results = Left(walk) /\ Left(wk) = Left(walk)
          /\ ~(Left(wk) <= 0) /\ wk.max_results \in Int
      BY <2>1, <2>5, <3>1, <3>6, <3>8 DEF Left
    <3>10. Budget(cfg, wk)
      <4>1. wk.max_pages - wk.pages = walk.max_pages - walk.pages
        BY <3>6, <3>8, <3>9
      <4> QED BY <2>1, <3>6, <3>9, <4>1 DEF Budget
    <3> QED BY <1>0, <2>1, <2>2, <2>5, <3>1, <3>6, <3>7, <3>9, <3>10 DEF CoverInv
  <2> QED BY <2>3, <2>4, <2>5
<1>6. CASE RecordSource
  <2> DEFINE e == WithForward(draft)
             f == WithHistory(e)
  <2>1. /\ phase = "fetched" /\ draft' = f /\ phase' = "source"
        /\ config' = config /\ saved' = saved /\ now' = now
    BY <1>6 DEF RecordSource, runVars
  <2>2. /\ Kept(config, e, now) /\ Grown(saved, e) /\ Grown(draft, e)
        /\ DOMAIN e.records = Names /\ DOMAIN e.backfill = Names /\ IsState(e)
    BY <2>1, ForwardKept
  <2>3. Kept(config, f, now) /\ Grown(saved, f)
    <3>1. CASE ~history.active
      BY <2>2, <3>1 DEF WithHistory
    <3>2. CASE history.active
      <4>1. WalkedBack(cfg, draft, history, now)
        BY <2>1, <3>2 DEF CoverInv
      <4> HIDE DEF e
      <4> QED BY <2>1, <2>2, <3>2, <4>1, HistoryKept
    <3> QED BY <3>1, <3>2
  <2> HIDE DEF f
  <2> QED BY <1>0, <2>1, <2>3, CoverAside
<1>7. CASE Persist \/ Abort
  <2>1. Exit /\ config' = config /\ now' = now /\ saved' \in {saved, draft}
    BY <1>7 DEF Persist, Abort, runVars
  <2> QED BY <1>0, <2>1, CoverExit
<1>8. ASSUME NEW took \in Durations, PageArrives(took) PROVE CoverInv'
  <2> DEFINE wk == Turned(NextPage)
  <2>1. /\ Fetching /\ ~Unusable(NextPage) /\ walk' = wk
        /\ phase' = IF ~WalkEnded(wk) THEN phase
                    ELSE IF phase = "forward" THEN "forwarded" ELSE "chunked"
        /\ forward' = forward /\ history' = history
        /\ config' = config /\ saved' = saved /\ draft' = draft /\ now' = now /\ cfg' = cfg
    BY <1>8 DEF PageArrives, runVars, cfg
  <2>2. /\ wk.cursor # None => Going(cfg, draft, wk, now)
        /\ Gone(cfg, draft, wk, now) /\ Budget(cfg, wk)
        /\ wk.max_results = walk.max_results
        /\ ~WalkEnded(wk) => wk.cursor # None /\ ~(Left(wk) <= 0)
    BY <2>1, PageKept
  <2> HIDE DEF wk
  <2>3. CASE phase = "forward"
    BY <1>0, <2>1, <2>2, <2>3 DEF CoverInv
  <2>4. CASE phase = "history"
    BY <1>0, <2>1, <2>2, <2>4 DEF CoverInv
  <2> QED BY <2>1, <2>3, <2>4 DEF Fetching
<1>9. ASSUME NEW took \in Durations, RequestFails(took) PROVE CoverInv'
  <2>1. UNCHANGED <<config, now, saved, draft, phase, walk, forward, history, cfg>>
    BY <1>9 DEF RequestFails, runVars, cfg
  <2> QED BY <2>1 DEF CoverInv
<1>10. CASE SourceUnavailable
  <2>1. /\ phase' = "source"
        /\ config' = config /\ saved' = saved /\ draft' = draft /\ now' = now
    BY <1>10 DEF SourceUnavailable, runVars
  <2> QED BY <1>0, <2>1, CoverAside
<1>11. CASE UNCHANGED vars
  <2>1. UNCHANGED <<config, now, saved, draft, phase, walk, forward, history, cfg>>
    BY <1>11 DEF vars, cfg
  <2> QED BY <2>1 DEF CoverInv
<1> QED BY <1>1, <1>2, <1>3, <1>4, <1>5, <1>6, <1>7, <1>8, <1>9, <1>10, <1>11 DEF Next, Step

\* A corpus begins with nothing.
LEMMA CoverInit == ASSUME Init PROVE CoverInv
<1>1. /\ saved.walked = [s \in Names |-> {}] /\ saved.records = [s \in Names |-> {}]
      /\ saved.continuations = Fresh /\ saved.backfill = Fresh
      /\ draft = saved /\ phase = "idle" /\ config \in Configs
  BY DEF Init
<1>2. \A k \in DOMAIN config : config[k].name \in Names
  BY <1>1, FetchAssumption DEF AdapterConfig, Names
<1>3. Kept(config, saved, now)
  BY <1>1, <1>2 DEF Kept, Complete, Lists, Fresh
<1> QED BY <1>1, <1>3 DEF CoverInv, Grown

\* Only a commit changes what is committed, and it adds to it.
LEMMA CoverageExtended ==
  ASSUME TypeInv, AskedInv, CoverInv, SteadyServers, PagesKeepSize, [Next]_vars
  PROVE  [Promise!Extend]_<<saved.walked, saved.records>>
<1>1. CASE Persist
  <2>1. saved' = draft
    BY <1>1 DEF Persist
  <2>2. Kept(config, draft, now) /\ Grown(saved, draft)
    BY DEF CoverInv
  <2> DEFINE L == [s \in Names |-> [i \in DOMAIN Catalogue[s] |-> Published(s, i)]]
             W == draft.walked
             R == draft.records
             U == UNION {W[s] : s \in Names}
  <2>3. W \in [Names -> SUBSET Times0]
        /\ \A s \in Names : R[s] \in Lists(s) /\ Complete(s, W[s], R[s])
    BY <2>2 DEF Kept
  <2>4. W \in [Names -> SUBSET U]
    BY <2>3
  <2>5. \A s \in Names : /\ saved.walked[s] \subseteq W[s]
                         /\ saved.records[s] \subseteq R[s]
                         /\ DOMAIN L[s] = DOMAIN Catalogue[s]
                         /\ R[s] \subseteq DOMAIN L[s]
    BY <2>2, <2>3 DEF Grown, Lists
  <2>6. \A s \in Names : \A i \in DOMAIN L[s] : L[s][i] \in W[s] => i \in R[s]
    BY <2>3 DEF Complete
  <2>7. W = saved'.walked /\ R = saved'.records
    BY <2>1
  <2> HIDE DEF L, W, R
  <2>8. Promise!Accounted(W, R)
    BY <2>6 DEF Promise!Accounted, L
  <2>9. saved'.walked \in [Names -> SUBSET UNION {saved'.walked[s] : s \in Names}]
    BY <2>4, <2>7
  <2> QED BY <2>5, <2>7, <2>8, <2>9 DEF Promise!Extend, L
<1>2. CASE ~Persist
  <2>1. saved' = saved
    BY <1>2 DEF Next, Step, Tick, StartRun, OpenSource, FinishForward, FinishChunk, RecordSource,
                PageArrives, RequestFails, SourceUnavailable, Abort, runVars, vars
  <2> QED BY <2>1
<1> QED BY <1>1, <1>2

\* What every run keeps, at all times.
LEMMA CoverAlways ==
  ASSUME SteadyServers, PagesKeepSize
  PROVE  Spec => [](TypeInv /\ AskedInv /\ CoverInv)
<1>1. Init => CoverInv
  BY CoverInit
<1>2. TypeInv /\ AskedInv /\ CoverInv /\ [Next]_vars => CoverInv'
  BY CoverStep
<1> QED BY <1>1, <1>2, AskedAlways, TypedAlways, PTL DEF Spec

\* Whatever the windows, pages, budgets, cursors, outages and crashes of the runs, the times
\* that a source counts as walked and its records only grow, together, and nothing that was
\* published at a walked time is missing (fetch.py:128-356): fetch_all implements Coverage.
THEOREM CoverageImplemented ==
  ASSUME SteadyServers, PagesKeepSize
  PROVE  Spec => ImplementsCoverage
<1>1. Init => Promise!Init
  BY DEF Init, Promise!Init
<1>2. TypeInv /\ AskedInv /\ CoverInv /\ [Next]_vars =>
        [Promise!Extend]_<<saved.walked, saved.records>>
  BY CoverageExtended
<1> QED BY <1>1, <1>2, CoverAlways, PTL DEF Spec, ImplementsCoverage, Promise!Spec, Promise!vars

\* A record that was published at a walked time is in the inventory (fetch.py:306-356).
THEOREM NothingIsSkipped ==
  ASSUME SteadyServers, PagesKeepSize
  PROVE  Spec => []NothingSkipped
<1>1. CoverInv => NothingSkipped
  BY DEF CoverInv, Kept, Complete, NothingSkipped
<1> QED BY <1>1, CoverAlways, PTL

=============================================================================
