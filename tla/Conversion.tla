----------------------------- MODULE Conversion -----------------------------
(***************************************************************************)
(* convert_batch from the inside: one asyncio task for each paper, which   *)
(* downloads renderings, figures and inputs under the lock of their host   *)
(* and runs a converter under the semaphore of its format; the converters' *)
(* processes; and the loop that collects results, stops the tasks when the *)
(* time is up, and gives the batch up at an infrastructure failure.        *)
(***************************************************************************)
EXTENDS Naturals, Sequences, FiniteSets, Outcomes

CONSTANTS
  Papers,      \* the papers of the batch
  Format,      \* input_format of each paper
  ArxivIds,    \* papers with an arXiv ID
  Fast,        \* allow_pdf is false
  Hosts,
  Renderings,  \* the hosts of _ARXIV_HTML_URLS, in order
  InputHost,   \* the host of each paper's input_url
  Hops,        \* the hosts a request to a host may be redirected to
  Attempts,    \* rate_limit_attempts, 1 for an unlisted host
  Paced,       \* the hosts of min_interval_seconds
  Refusing,    \* hosts that answer every request with 429
  Slots,       \* concurrency of each format
  MaxFigures   \* bound: images of a rendering

Formats == {"html", "latex", "pdf"}

ASSUME ConversionAssumption ==
  /\ IsFiniteSet(Papers)
  /\ Format \in [Papers -> Formats]
  /\ ArxivIds \subseteq Papers
  /\ Fast \in BOOLEAN
  /\ Renderings \in Seq(Hosts) /\ Renderings # <<>>
  /\ InputHost \in [Papers -> Hosts]
  /\ Hops \in [Hosts -> SUBSET Hosts]
  /\ \A h \in Hosts : h \in Hops[h]
  /\ Attempts \in [Hosts -> Nat \ {0}]
  /\ Paced \subseteq Hosts
  /\ Refusing \subseteq Hosts
  /\ \A h \in Refusing : Hops[h] = {h}
  /\ Slots \in [Formats -> Nat \ {0}]
  /\ Slots["pdf"] = 1
  /\ MaxFigures \in Nat

\* The task of a paper fetches each rendering in turn, then the paper's own input.
Own == Len(Renderings) + 1

FirstSource(p) == IF p \in ArxivIds THEN 1 ELSE Own

SourceHost(p, s) == IF s = Own THEN InputHost[p] ELSE Renderings[s]

\* How Outcomes sees these papers.
ASSUME KindAssumption ==
  /\ Kind = [p \in Papers |-> IF Format[p] # "pdf" THEN "pandoc"
                              ELSE IF p \in ArxivIds THEN "arxiv" ELSE "pdf"]
  /\ Throttled = {p \in Papers : SourceHost(p, FirstSource(p)) \in Refusing}

VARIABLES
  main,         \* where convert_batch is
  task,         \* what each paper's task is doing
  proc,         \* the converter process of each paper
  pending, results, interrupted,  \* the papers of those three collections
  overdue,      \* the time budget is used up
  limited,      \* hosts in _rate_limited
  recent        \* paced hosts whose last request ended less than an interval ago

\* Auxiliary variable: not in the code.
VARIABLE refusers  \* hosts that answered 429 to the last allowed attempt

hosts == <<limited, recent, refusers>>
loop  == <<main, pending, results, interrupted, overdue>>
vars  == <<loop, task, proc, hosts>>

-----------------------------------------------------------------------------
(***************************************************************************)
(* The task of one paper.  Stages: it waits for the lock of a host, waits  *)
(* to send, has a request out, waits for a semaphore, awaits its process;  *)
(* it is in the TimeoutError or in the CancelledError handler of           *)
(* CommandRunner.run; it has ended.                                        *)
(***************************************************************************)
Stage == {"lock", "send", "request", "slot", "run", "timing_out", "stopping", "ended"}

\* "broken" is any exception but a PaperError.
TaskOutcome ==
  {"none", "succeeded", "failed", "deferred", "needs_pdf", "broken", "cancelled"}

\* figures are the images left of the rendering, at is the host that answers.
Task ==
  [stage : Stage, source : 1..Own, figures : 0..MaxFigures, tries : Nat,
   at : Hosts, outcome : TaskOutcome]

End(t, how) == [t EXCEPT !.stage = "ended", !.outcome = how]

\* Mutant: allow_pdf is ignored.
TurnAnyway(p, t, s) == [t EXCEPT !.stage = "lock", !.source = s]

\* Turn to a source.  Fast passes set a PDF aside instead of fetching it.
Turn(p, t, s) ==
  IF s = Own /\ Fast /\ Format[p] = "pdf"
  THEN [End(t, "needs_pdf") EXCEPT !.source = s]
  ELSE [t EXCEPT !.stage = "lock", !.source = s]

Step(p, t) == task' = [task EXCEPT ![p] = t]

HostOf(p) == SourceHost(p, task[p].source)

Tool(p) == IF task[p].source = Own THEN Format[p] ELSE "html"

HoldsLock(p) == task[p].stage \in {"send", "request"}

HoldsSlot(p) == task[p].stage \in {"run", "timing_out", "stopping"}

\* The event loop takes the first step of every task before convert_batch resumes.
Init ==
  /\ main = "wait"
  /\ task = [p \in Papers |->
       Turn(p, [stage |-> "lock", source |-> 1, figures |-> 0, tries |-> 0,
                at |-> InputHost[p], outcome |-> "none"], FirstSource(p))]
  /\ proc = [p \in Papers |-> "none"]
  /\ pending = Papers /\ results = {} /\ interrupted = {}
  /\ overdue = FALSE
  /\ limited \in SUBSET Hosts  \* by earlier batches of the run
  /\ recent = {}
  /\ refusers = limited

-----------------------------------------------------------------------------
(***************************************************************************)
(* DownloadingMaterializer.download.                                       *)
(***************************************************************************)

\* Mutant: a task that gets the lock does not look at _rate_limited.
AcquireUnchecked(p) ==
  /\ task[p].stage = "lock"
  /\ \A q \in Papers : HoldsLock(q) => HostOf(q) # HostOf(p)
  /\ Step(p, [task[p] EXCEPT !.stage = "send", !.tries = 0, !.at = HostOf(p)])
  /\ UNCHANGED <<loop, proc, hosts>>

Acquire(p) ==
  /\ task[p].stage = "lock"
  /\ \A q \in Papers : HoldsLock(q) => HostOf(q) # HostOf(p)
  /\ IF HostOf(p) \in limited
     THEN Step(p, End(task[p], "deferred"))
     ELSE Step(p, [task[p] EXCEPT !.stage = "send", !.tries = 0, !.at = HostOf(p)])
  /\ UNCHANGED <<loop, proc, hosts>>

\* A request that is redirected is answered by the last hop.
Send(p) ==
  /\ task[p].stage = "send"
  /\ HostOf(p) \notin recent
  /\ \E h \in Hops[task[p].at] :
       Step(p, [task[p] EXCEPT !.stage = "request", !.at = h])
  /\ UNCHANGED <<loop, proc, hosts>>

\* The finally clause: the host the download began with is the one that is paced.
RequestEnds(p) == recent' = recent \cup ({HostOf(p)} \cap Paced)

\* Mutant: one attempt more than rate_limit_attempts.
RefusedOnceMore(p) ==
  LET last == task[p].tries = Attempts[HostOf(p)]
  IN  /\ task[p].stage = "request"
      /\ RequestEnds(p)
      /\ Step(p, IF last THEN End(task[p], "deferred")
                 ELSE [task[p] EXCEPT !.stage = "send", !.tries = @ + 1])
      /\ limited' = IF last THEN limited \cup {HostOf(p)} ELSE limited
      /\ refusers' = IF last THEN refusers \cup {task[p].at} ELSE refusers
      /\ UNCHANGED <<loop, proc>>

\* 429: the next attempt resumes at the refused hop; the last one gives up the host.
Refused(p) ==
  LET last == task[p].tries + 1 = Attempts[HostOf(p)]
  IN  /\ task[p].stage = "request"
      /\ RequestEnds(p)
      /\ Step(p, IF last THEN End(task[p], "deferred")
                 ELSE [task[p] EXCEPT !.stage = "send", !.tries = @ + 1])
      /\ limited' = IF last THEN limited \cup {HostOf(p)} ELSE limited
      /\ refusers' = IF last THEN refusers \cup {task[p].at} ELSE refusers
      /\ UNCHANGED <<loop, proc>>

\* After the last image the rendering is ready for pandoc.
NextFigure(t) ==
  [t EXCEPT !.figures = @ - 1, !.stage = IF t.figures = 1 THEN "slot" ELSE "lock"]

\* Another error, or a payload that is of no use: no article, a page ar5iv calls
\* fatal, a file that is no PDF, an image that cannot be decoded.
Useless(p) ==
  /\ task[p].stage = "request"
  /\ task[p].at \notin Refusing
  /\ RequestEnds(p)
  /\ Step(p, IF task[p].figures > 0 THEN NextFigure(task[p])
             ELSE IF task[p].source = Own THEN End(task[p], "failed")
             ELSE Turn(p, task[p], task[p].source + 1))
  /\ UNCHANGED <<loop, proc, limited, refusers>>

\* A good payload.  A rendering has some images still to be downloaded.
Served(p, images) ==
  /\ task[p].stage = "request"
  /\ task[p].at \notin Refusing
  /\ images > 0 => task[p].source # Own /\ task[p].figures = 0
  /\ RequestEnds(p)
  /\ Step(p, IF task[p].figures > 0 THEN NextFigure(task[p])
             ELSE [task[p] EXCEPT !.figures = images,
                                  !.stage = IF images > 0 THEN "lock" ELSE "slot"])
  /\ UNCHANGED <<loop, proc, limited, refusers>>

-----------------------------------------------------------------------------
(***************************************************************************)
(* CommandRunner.run under the semaphore of the format.                    *)
(***************************************************************************)
HasRoom(p) ==
  Cardinality({q \in Papers : HoldsSlot(q) /\ Tool(q) = Tool(p)}) < Slots[Tool(p)]

StartProcess(p) ==
  /\ task[p].stage = "slot"
  /\ HasRoom(p)
  /\ Step(p, [task[p] EXCEPT !.stage = "run"])
  /\ proc' = [proc EXCEPT ![p] = "running"]
  /\ UNCHANGED <<loop, hosts>>

\* A process ends by itself, or at the signal it got; it may take any time.
ProcessExits(p) ==
  /\ proc[p] \in {"running", "signalled"}
  /\ proc' = [proc EXCEPT ![p] = "gone"]
  /\ UNCHANGED <<loop, task, hosts>>

\* It converted the paper, or it blames the document.
Finish(p) ==
  /\ task[p].stage = "run"
  /\ proc[p] = "gone"
  /\ \E how \in {"succeeded", "failed"} : Step(p, End(task[p], how))
  /\ UNCHANGED <<loop, proc, hosts>>

\* SIGTERM.
Terminated(status) == IF status = "running" THEN "signalled" ELSE status

\* Mutant: the process is told to stop and not awaited.
TimesOutUnawaited(p) ==
  /\ task[p].stage = "run"
  /\ Step(p, End(task[p], "failed"))
  /\ proc' = [proc EXCEPT ![p] = Terminated(@)]
  /\ UNCHANGED <<loop, hosts>>

\* The process may be gone already when the timer fires.
TimesOut(p) ==
  /\ task[p].stage = "run"
  /\ Step(p, [task[p] EXCEPT !.stage = "timing_out"])
  /\ proc' = [proc EXCEPT ![p] = Terminated(@)]
  /\ UNCHANGED <<loop, hosts>>

\* Mutant: a process that ignores SIGTERM is awaited for ever.
KillNever(p) == FALSE /\ UNCHANGED vars

\* _PROCESS_SHUTDOWN_TIMEOUT has passed: SIGKILL.
Kill(p) ==
  /\ task[p].stage \in {"timing_out", "stopping"}
  /\ proc[p] = "signalled"
  /\ proc' = [proc EXCEPT ![p] = "gone"]
  /\ UNCHANGED <<loop, task, hosts>>

\* _terminate_process returns and the handler raises.
Reaped(p) ==
  /\ task[p].stage \in {"timing_out", "stopping"}
  /\ proc[p] = "gone"
  /\ Step(p, End(task[p], IF task[p].stage = "stopping" THEN "cancelled"
                          ELSE "failed"))
  /\ UNCHANGED <<loop, proc, hosts>>

\* A write that fails, a missing tool, a tool that fails for a reason of its own or
\* reports success without output.
Breaks(p) ==
  /\ \/ task[p].stage = "request" /\ RequestEnds(p)
     \/ task[p].stage = "slot" /\ HasRoom(p) /\ UNCHANGED recent
     \/ task[p].stage = "run" /\ proc[p] = "gone" /\ UNCHANGED recent
  /\ Step(p, End(task[p], "broken"))
  /\ UNCHANGED <<loop, proc, limited, refusers>>

-----------------------------------------------------------------------------
(***************************************************************************)
(* The loop of convert_batch.                                              *)
(***************************************************************************)
Done == {p \in pending : task[p].stage = "ended"}

\* Mutant: the CancelledError handler of CommandRunner.run is missing.
CancelledUnhandled(t) ==
  IF t.stage = "ended" THEN t ELSE End(t, "cancelled")

\* Where task.cancel() leaves a task: CommandRunner.run stays until its process is
\* gone, except from the handler of a time-out, which the CancelledError leaves.
Cancelled(t) ==
  IF t.stage = "ended" THEN t
  ELSE IF t.stage = "run" THEN [t EXCEPT !.stage = "stopping"]
  ELSE End(t, "cancelled")

\* The handlers run at once: no task takes another step first.
CancelPending ==
  /\ task' = [p \in Papers |-> IF p \in pending THEN Cancelled(task[p]) ELSE task[p]]
  /\ proc' = [p \in Papers |->
       IF p \in pending /\ task'[p].stage = "stopping" THEN Terminated(proc[p])
       ELSE proc[p]]
  /\ recent' = recent \cup
       (Paced \cap {HostOf(p) : p \in {q \in pending : task[q].stage = "request"}})
  /\ UNCHANGED <<limited, refusers>>

\* asyncio.wait returned some tasks, all of which have a result.
Collect ==
  /\ main = "wait"
  /\ Done # {}
  /\ \A p \in Done : task[p].outcome # "broken"
  /\ results' = results \cup Done
  /\ pending' = pending \ Done
  /\ main' = IF pending' = {} THEN "promote" ELSE "wait"
  /\ UNCHANGED <<interrupted, overdue, task, proc, hosts>>

\* One of them raised: the others are cancelled and the batch gives up.
GiveUp ==
  /\ main = "wait"
  /\ \E p \in Done : task[p].outcome = "broken"
  /\ CancelPending
  /\ pending' = pending \ Done
  /\ main' = "failing"
  /\ UNCHANGED <<results, interrupted, overdue>>

\* Mutant: the time is looked at before the tasks that are done.
OutOfTimeEager ==
  /\ main = "wait"
  /\ overdue
  /\ interrupted' = pending
  /\ CancelPending
  /\ main' = "stopping"
  /\ UNCHANGED <<pending, results, overdue>>

\* asyncio.wait returned none: the time is up.
OutOfTime ==
  /\ main = "wait"
  /\ overdue
  /\ Done = {}
  /\ interrupted' = pending
  /\ CancelPending
  /\ main' = "stopping"
  /\ UNCHANGED <<pending, results, overdue>>

\* gather: every cancelled task has ended.
Stopped ==
  /\ main \in {"stopping", "failing"}
  /\ Done = pending
  /\ main' = IF main = "stopping" THEN "promote" ELSE "raised"
  /\ UNCHANGED <<pending, results, interrupted, overdue, task, proc, hosts>>

\* Nothing is awaited any more.  A write of the promotions may raise.
Return ==
  /\ main = "promote"
  /\ main' \in {"returned", "raised"}
  /\ UNCHANGED <<pending, results, interrupted, overdue, task, proc, hosts>>

BudgetEnds ==
  /\ ~overdue
  /\ overdue' = TRUE
  /\ UNCHANGED <<main, pending, results, interrupted, task, proc, hosts>>

IntervalEnds(h) ==
  /\ h \in recent
  /\ recent' = recent \ {h}
  /\ UNCHANGED <<loop, task, proc, limited, refusers>>

-----------------------------------------------------------------------------

Run(p) ==
  \/ Acquire(p)
  \/ Send(p)
  \/ Refused(p)
  \/ Useless(p)
  \/ \E images \in 0..MaxFigures : Served(p, images)
  \/ StartProcess(p)
  \/ Finish(p)
  \/ TimesOut(p)
  \/ Kill(p)
  \/ Reaped(p)
  \/ Breaks(p)

Loop == Collect \/ GiveUp \/ OutOfTime \/ Stopped \/ Return

Next ==
  \/ Loop
  \/ \E p \in Papers : Run(p) \/ ProcessExits(p)
  \/ BudgetEnds
  \/ \E h \in Hosts : IntervalEnds(h)

\* The event loop serves every task and every timer: a request is answered or times
\* out, and so does a process.  Nothing makes a process exit by itself.
Fairness ==
  /\ WF_vars(Loop)
  /\ \A p \in Papers : WF_vars(Run(p))
  /\ \A h \in Hosts : WF_vars(IntervalEnds(h))

Spec == Init /\ [][Next]_vars /\ Fairness

-----------------------------------------------------------------------------

TypeOK ==
  /\ main \in {"wait", "stopping", "failing", "promote", "returned", "raised"}
  /\ task \in [Papers -> Task]
  /\ \A p \in Papers : HoldsLock(p) => task[p].tries < Attempts[HostOf(p)]
  /\ proc \in [Papers -> {"none", "running", "signalled", "gone"}]
  /\ pending \in SUBSET Papers /\ results \in SUBSET Papers
  /\ interrupted \in SUBSET Papers
  /\ overdue \in BOOLEAN
  /\ limited \in SUBSET Hosts /\ recent \in SUBSET Paced
  /\ refusers \in SUBSET Hosts

Over == main \in {"returned", "raised"}

\* Each paper is reported once, and one whose task finished is not reported as
\* interrupted, however close to the end of the budget (convert.py asyncio.wait).
EachReportedOnce ==
  main = "returned" =>
    /\ results \cup interrupted = Papers
    /\ results \cap interrupted = {}
    /\ \A p \in Papers : task[p].outcome = "cancelled" <=> p \in interrupted

\* A batch ends with all its tasks ended and every converter told to stop, also
\* when it raises (convert.py _cancel_pending, CommandRunner.run).
NothingRunsOn ==
  Over => \A p \in Papers : task[p].stage = "ended" /\ proc[p] # "running"

\* No more converters of a format are alive than its concurrency, also while one
\* ignores SIGTERM or the batch is stopped (convert.py semaphores).
ConvertersBounded ==
  \A format \in Formats :
    Cardinality({p \in Papers : /\ Tool(p) = format
                                /\ proc[p] \in {"running", "signalled"}})
      <= Slots[format]

\* A host that refused the last allowed attempt is not contacted again
\* (convert.py DownloadingMaterializer, README: HTTP 429 is the exception).
RefusersLeftAlone ==
  [][ \A p \in Papers :
        task[p].stage = "send" /\ task'[p].stage = "request" =>
          task'[p].at \notin refusers ]_vars

\* No converter is alive when the batch ends (README: "cancels conversions still
\* running"; test_convert.py: cancellation terminates the child).
NoConverterOutlivesBatch ==
  Over => \A p \in Papers : proc[p] \in {"none", "gone"}

\* The batch ends, with or without a budget, although converters may hang, ignore
\* SIGTERM, and hosts refuse (convert.py timeouts).
BatchEnds == <>Over

Phase == IF Over THEN main ELSE "running"

Fate(p) ==
  IF main # "returned" THEN "open"
  ELSE IF p \in interrupted THEN "interrupted"
  ELSE task[p].outcome

Promise == INSTANCE ConvertBatch WITH phase <- Phase,
                                      fate  <- [p \in Papers |-> Fate(p)]

\* A batch ends once, with the outcomes Nightly assumes (ConvertBatch).
ImplementsConvertBatch == Promise!Spec

=============================================================================
