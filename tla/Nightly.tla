------------------------------- MODULE Nightly -------------------------------
(***************************************************************************)
(* The nightly run as one program over three copies of the corpus: the     *)
(* worktree, the local HEAD and the remote main branch.  A run fetches     *)
(* papers, commits the inventory, and converts the backlog batch by batch; *)
(* each batch is a transaction over the worktree that ends in a commit and *)
(* a push, or in a rollback.  Around it: nightly.sh, the workflow that     *)
(* dispatches the next run, the machine that can die at any step, and the  *)
(* people who edit main while the run is going on.                         *)
(***************************************************************************)
EXTENDS Batching, Outcomes

CONSTANTS
  OnTopic,      \* papers the topic gate accepts
  Illustrated,  \* papers whose conversion can produce figures
  MaxBatches,   \* conversion.max_batches_per_run
  Automated,    \* run by nightly.yml, or by hand in a developer's clone
  Publishing,   \* --publish
  Stray,        \* an unmanaged tracked file has an uncommitted change
  Careless,     \* maintainers delete a markdown file and leave its figures
  MaxMishaps    \* bound: adverse events of the environment in a behaviour

ASSUME NightlyAssumption ==
  /\ OnTopic \subseteq Papers
  /\ Kind \in [Papers -> {"pandoc", "arxiv", "pdf"}]
  /\ Throttled \subseteq Papers
  /\ Illustrated \subseteq Papers
  /\ MaxBatches \in Nat \ {0}
  /\ {Automated, Publishing, Stray, Careless} \subseteq BOOLEAN
  /\ Automated => Publishing
  /\ MaxMishaps \in Nat

VARIABLES
  worktree, head, remote,  \* the corpus on disk, in HEAD and on origin/main
  base,                    \* the remote tree the local commits sit on
  pc,                      \* where the run is
  status,                  \* how the run ended
  chained,                 \* this run, or the next one, was dispatched by a run
  late,                    \* the conversion deadline has passed
  inventory, state,        \* the run's copies of papers.csv and .papers-state.yml
  attempted, needsPdf, working,  \* the loop's attempted, needs_pdf, working_batches
  batch, fast,             \* the selected papers; whether they are a pandoc pass
  before,                  \* the files as the open transaction found them
  result,                  \* what convert_batch returned
  converted                \* summary.succeeded > 0

\* Auxiliary variables: not in the code.
VARIABLES
  checkout,  \* the tree the run started from; its state file is initial_state
  tally,     \* failed attempts since the paper last became pending on main
  gained,    \* papers whose markdown this run pushed
  mishaps    \* adverse events left

trees   == <<worktree, head, remote, base>>
loop    == <<attempted, needsPdf, working, batch, fast, result, converted>>
history == <<checkout, tally, gained>>
vars    == <<trees, pc, status, chained, late, inventory, state, loop, before,
             history, mishaps>>

-----------------------------------------------------------------------------
(***************************************************************************)
(* One copy of the corpus.  seen and strikes are .papers-state.yml: the    *)
(* papers the source cursors have passed, and each paper's recorded        *)
(* failures.  listed and linked are README.md and index/: the papers they  *)
(* count and those they link to markdown.                                  *)
(***************************************************************************)
Tree ==
  [inv : SUBSET Papers, seen : SUBSET Papers, strikes : [Papers -> 0..2],
   md : SUBSET Papers, fixme : SUBSET Papers, figs : SUBSET Papers,
   listed : SUBSET Papers, linked : SUBSET Papers]

EmptyTree ==
  [inv |-> {}, seen |-> {}, strikes |-> [p \in Papers |-> 0],
   md |-> {}, fixme |-> {}, figs |-> {}, listed |-> {}, linked |-> {}]

StateFile(tree) == [seen |-> tree.seen, strikes |-> tree.strikes]

NoResult ==
  [succeeded |-> {}, promoted |-> {}, changed |-> FALSE]

\* git rebase of one directory: a file the local commits left alone is theirs.
Replay(from, ours, theirs) ==
  {p \in Papers :
     IF (p \in from) = (p \in ours) THEN p \in theirs ELSE p \in ours}

\* The inventory, state and index files are written by the pipeline alone, so a
\* rebase that meets no conflict keeps the local ones.
Rebased(from, ours, theirs) ==
  [ours EXCEPT !.md    = Replay(from.md, ours.md, theirs.md),
               !.fixme = Replay(from.fixme, ours.fixme, theirs.fixme),
               !.figs  = Replay(from.figs, ours.figs, theirs.figs)]

Mishap == mishaps > 0 /\ mishaps' = mishaps - 1

Init ==
  /\ worktree = EmptyTree /\ head = EmptyTree
  /\ remote = EmptyTree /\ base = EmptyTree
  /\ pc = "idle" /\ status = "ok" /\ chained = FALSE /\ late = FALSE
  /\ inventory = {} /\ state = StateFile(EmptyTree)
  /\ attempted = {} /\ needsPdf = {} /\ working = 0
  /\ batch = {} /\ fast = TRUE /\ result = NoResult /\ converted = FALSE
  /\ before = EmptyTree
  /\ checkout = EmptyTree /\ tally = [p \in Papers |-> 0]
  /\ gained = {} /\ mishaps = MaxMishaps

-----------------------------------------------------------------------------
(***************************************************************************)
(* Start of a run, fetch and the inventory transaction.                    *)
(***************************************************************************)

\* Mutant: a developer's run starts whatever the last one left (no assert_clean).
LaunchUnchecked ==
  LET start == IF Automated THEN remote ELSE worktree
  IN  /\ pc = "idle"
      /\ worktree' = start
      /\ head' = IF Automated THEN remote ELSE head
      /\ base' = IF Automated THEN remote ELSE base
      /\ checkout' = start
      /\ state' = StateFile(start)
      /\ pc' = "fetch"
      /\ status' = "ok"
      /\ UNCHANGED <<remote, chained, late, inventory, loop, before, tally,
                     gained, mishaps>>

\* The workflow checks main out afresh; a developer runs in the clone as it is,
\* and assert_clean refuses one whose managed files differ from HEAD.
Launch ==
  LET start == IF Automated THEN remote ELSE worktree
      clean == Automated \/ worktree = head
  IN  /\ pc = "idle"
      /\ worktree' = start
      /\ head' = IF Automated THEN remote ELSE head
      /\ base' = IF Automated THEN remote ELSE base
      /\ checkout' = start
      /\ state' = StateFile(start)
      /\ pc' = IF clean THEN "fetch" ELSE "finish"
      /\ status' = IF clean THEN "ok" ELSE "refused"
      /\ UNCHANGED <<remote, chained, late, inventory, loop, before, tally,
                     gained, mishaps>>

\* A source that is unavailable delivers nothing and its cursor stays.
Fetch(delivered) ==
  /\ pc = "fetch"
  /\ inventory' = worktree.inv \cup (delivered \cap OnTopic)
  /\ state' = [state EXCEPT !.seen = @ \cup delivered]
  /\ before' = worktree
  /\ pc' = IF inventory' = worktree.inv /\ state' = StateFile(checkout)
           THEN "loop" ELSE "inventory"
  /\ UNCHANGED <<trees, status, chained, late, loop, history, mishaps>>

FetchFails ==
  /\ pc = "fetch"
  /\ Mishap
  /\ pc' = "finish"
  /\ status' = "failed"
  /\ UNCHANGED <<trees, chained, late, inventory, state, loop, before, history>>

WriteInventory ==
  /\ pc = "inventory"
  /\ worktree' = [worktree EXCEPT !.inv = inventory]
  /\ pc' = "cursor"
  /\ UNCHANGED <<head, remote, base, status, chained, late, inventory, state,
                 loop, before, history, mishaps>>

SaveCursor ==
  /\ pc = "cursor"
  /\ worktree' = [worktree EXCEPT !.seen = state.seen, !.strikes = state.strikes]
  /\ pc' = "commit_inventory"
  /\ UNCHANGED <<head, remote, base, status, chained, late, inventory, state,
                 loop, before, history, mishaps>>

CommitInventory ==
  /\ pc = "commit_inventory"
  /\ head' = [head EXCEPT !.inv = worktree.inv, !.seen = worktree.seen,
                          !.strikes = worktree.strikes]
  /\ pc' = "loop"
  /\ UNCHANGED <<worktree, remote, base, status, chained, late, inventory, state,
                 loop, before, history, mishaps>>

-----------------------------------------------------------------------------
(***************************************************************************)
(* The batch loop.                                                         *)
(***************************************************************************)

\* Mutant: a paper that was tried and is still pending counts as untried.
UntriedForgotten == Pending(inventory, worktree)

\* Untried papers first; once there is none, those the pandoc pass set aside.
Untried == Pending(inventory, worktree) \ attempted

NextBatch ==
  SelectBatch(IF Untried # {} THEN Untried
              ELSE Pending(inventory, worktree) \cap needsPdf)

MayStartBatch ==
  /\ Pending(inventory, worktree) # {}
  /\ working < MaxBatches
  /\ ~late
  /\ NextBatch # {}

StartBatch ==
  /\ pc = "loop"
  /\ MayStartBatch
  /\ batch' = NextBatch
  /\ fast' = (Untried # {})
  /\ attempted' = attempted \cup NextBatch
  /\ needsPdf' = needsPdf \ NextBatch
  /\ before' = worktree
  /\ pc' = "convert"
  /\ UNCHANGED <<trees, status, chained, late, inventory, state, working, result,
                 converted, history, mishaps>>

EndLoop ==
  /\ pc = "loop"
  /\ ~MayStartBatch
  /\ pc' = "finish"
  /\ UNCHANGED <<trees, status, chained, late, inventory, state, loop, before,
                 history, mishaps>>

DeadlinePasses ==
  /\ pc = "loop"
  /\ ~late
  /\ Mishap
  /\ late' = TRUE
  /\ UNCHANGED <<trees, pc, status, chained, inventory, state, loop, before,
                 history>>

-----------------------------------------------------------------------------
(***************************************************************************)
(* convert_batch, seen from outside: how each paper of the batch ended.    *)
(***************************************************************************)
Ended(outcome, how) == {p \in batch : outcome[p] = how}

\* Mutant: the marker is written at the second failure.
ThirdIsSecond(outcome) ==
  {p \in Ended(outcome, "failed") : state.strikes[p] >= 1}

Third(outcome) == {p \in Ended(outcome, "failed") : state.strikes[p] = 2}

\* Mutant: the failures of a paper that is blocked are kept.
StrikesUnbounded(outcome) ==
  [p \in Papers |->
     IF p \in Ended(outcome, "succeeded") THEN 0
     ELSE IF p \in Ended(outcome, "failed") THEN state.strikes[p] + 1
     ELSE state.strikes[p]]

\* Mutant: a conversion that succeeds does not clear the paper's failures.
StrikesKept(outcome) ==
  [p \in Papers |->
     IF p \in Third(outcome) THEN 0
     ELSE IF p \in Ended(outcome, "failed") THEN state.strikes[p] + 1
     ELSE state.strikes[p]]

StrikesAfter(outcome) ==
  [p \in Papers |->
     IF p \in Ended(outcome, "succeeded") \cup Third(outcome) THEN 0
     ELSE IF p \in Ended(outcome, "failed") THEN state.strikes[p] + 1
     ELSE state.strikes[p]]

\* Figures are replaced along with the markdown; drawn are the papers that got some.
Promoted(succeeded, marked, drawn) ==
  [worktree EXCEPT !.md    = @ \cup succeeded,
                   !.fixme = @ \cup marked,
                   !.figs  = (@ \ succeeded) \cup drawn]

\* Mutant: every batch costs budget.
CountsAlways(outcome) == TRUE

\* A batch of papers that were all deferred or set aside costs no budget.
CountsAsWorking(outcome) ==
  Ended(outcome, "deferred") \cup Ended(outcome, "needs_pdf") # batch

Convert(outcome, drawn) ==
  /\ pc = "convert"
  /\ \A p \in batch : outcome[p] \in Expected(p, fast) \cup Upset(p, fast)
  /\ drawn \subseteq Ended(outcome, "succeeded") \cap Illustrated
  /\ IF \A p \in batch : outcome[p] \in Expected(p, fast)
     THEN UNCHANGED mishaps ELSE Mishap
  /\ worktree' = Promoted(Ended(outcome, "succeeded"), Third(outcome), drawn)
  /\ state' = [state EXCEPT !.strikes = StrikesAfter(outcome)]
  /\ needsPdf' = needsPdf \cup Ended(outcome, "needs_pdf")
  /\ working' = IF CountsAsWorking(outcome) THEN working + 1 ELSE working
  /\ converted' = (converted \/ Ended(outcome, "succeeded") # {})
  /\ late' = (late \/ Ended(outcome, "interrupted") # {})
  /\ result' = [succeeded |-> Ended(outcome, "succeeded"),
                promoted  |-> Third(outcome),
                changed   |-> StrikesAfter(outcome) # state.strikes]
  /\ tally' = [p \in Papers |->
                 IF p \in Ended(outcome, "failed") /\ tally[p] < 3
                 THEN tally[p] + 1 ELSE tally[p]]
  /\ pc' = "index"
  /\ UNCHANGED <<head, remote, base, status, chained, inventory, attempted, batch,
                 fast, before, checkout, gained>>

\* An infrastructure failure, before or in the middle of the promotions.
ConvertFails(succeeded, marked, drawn) ==
  /\ pc = "convert"
  /\ Mishap
  /\ succeeded \cap marked = {}
  /\ \A p \in succeeded \cup marked : "succeeded" \in Expected(p, fast)
  /\ \A p \in marked : state.strikes[p] = 2
  /\ drawn \subseteq succeeded \cap Illustrated
  /\ worktree' = Promoted(succeeded, marked, drawn)
  /\ pc' = "rollback"
  /\ status' = "failed"
  /\ UNCHANGED <<head, remote, base, chained, late, inventory, state, loop, before,
                 history>>

-----------------------------------------------------------------------------
(***************************************************************************)
(* The rest of the batch transaction: index, state file, commit, publish.  *)
(***************************************************************************)

\* Mutant: the index is written before the batch is promoted.
WriteIndexEarly ==
  /\ pc = "index"
  /\ worktree' = [worktree EXCEPT !.listed = inventory,
                                  !.linked = inventory \cap before.md]
  /\ pc' = "save"
  /\ UNCHANGED <<head, remote, base, status, chained, late, inventory, state, loop,
                 before, history, mishaps>>

\* write_index, write_title_index and the formatting of what changed.
WriteIndex ==
  /\ pc = "index"
  /\ worktree' = [worktree EXCEPT !.listed = inventory,
                                  !.linked = inventory \cap worktree.md]
  /\ pc' = "save"
  /\ UNCHANGED <<head, remote, base, status, chained, late, inventory, state, loop,
                 before, history, mishaps>>

SaveState ==
  /\ pc = "save"
  /\ worktree' = IF result.changed
                 THEN [worktree EXCEPT !.seen = state.seen,
                                       !.strikes = state.strikes]
                 ELSE worktree
  /\ pc' = "commit"
  /\ UNCHANGED <<head, remote, base, status, chained, late, inventory, state, loop,
                 before, history, mishaps>>

IndexChanged ==
  worktree.listed # before.listed \/ worktree.linked # before.linked

\* Mutant: the index is left out of the commit.
CommittedWithoutIndex ==
  [head EXCEPT
     !.md      = @ \cup result.succeeded,
     !.fixme   = @ \cup result.promoted,
     !.figs    = (@ \ result.succeeded) \cup (worktree.figs \cap result.succeeded),
     !.seen    = worktree.seen,
     !.strikes = worktree.strikes]

\* commit_paths: git commits these paths and nothing else.
Committed ==
  [head EXCEPT
     !.md      = @ \cup result.succeeded,
     !.fixme   = @ \cup result.promoted,
     !.figs    = (@ \ result.succeeded) \cup (worktree.figs \cap result.succeeded),
     !.listed  = IF IndexChanged THEN worktree.listed ELSE @,
     !.linked  = IF IndexChanged THEN worktree.linked ELSE @,
     !.seen    = IF result.changed THEN worktree.seen ELSE @,
     !.strikes = IF result.changed THEN worktree.strikes ELSE @]

HasCommitPaths ==
  \/ result.succeeded # {}
  \/ result.promoted # {}
  \/ IndexChanged
  \/ result.changed

CommitBatch ==
  /\ pc = "commit"
  /\ IF HasCommitPaths
     THEN /\ head' = Committed
          /\ pc' = IF Publishing THEN "publish" ELSE "loop"
     ELSE /\ pc' = "loop"
          /\ UNCHANGED head
  /\ UNCHANGED <<worktree, remote, base, status, chained, late, inventory, state,
                 loop, before, checkout, tally, gained, mishaps>>

CanRebase == ~Stray /\ worktree = head

\* Mutant: a forced push without a rebase.
PushHeadForced ==
  /\ remote' = head
  /\ head' = remote'
  /\ worktree' = remote'
  /\ base' = remote'

\* Fetch, rebase and push all succeed.
PushHead ==
  /\ remote' = Rebased(base, head, remote)
  /\ head' = remote'
  /\ worktree' = remote'
  /\ base' = remote'

Publish ==
  /\ pc = "publish"
  /\ CanRebase
  /\ PushHead
  /\ gained' = gained \cup (head.md \ base.md)
  /\ pc' = "loop"
  /\ UNCHANGED <<status, chained, late, inventory, state, loop, before, checkout,
                 tally, mishaps>>

\* The rebase went through and the push was refused.
PushRefused ==
  /\ pc = "publish"
  /\ CanRebase
  /\ Mishap
  /\ head' = Rebased(base, head, remote)
  /\ worktree' = head'
  /\ base' = remote
  /\ pc' = "loop"
  /\ UNCHANGED <<remote, status, chained, late, inventory, state, loop, before,
                 history>>

\* Mutant: a failed fetch raises instead of returning False.
PublishRefusedRaises ==
  /\ pc = "publish"
  /\ Mishap
  /\ pc' = "rollback"
  /\ status' = "failed"
  /\ UNCHANGED <<trees, chained, late, inventory, state, loop, before, history>>

\* The fetch failed, or the rebase conflicted and was aborted.
PublishRefused ==
  /\ pc = "publish"
  /\ Mishap
  /\ pc' = "loop"
  /\ UNCHANGED <<trees, status, chained, late, inventory, state, loop, before,
                 history>>

\* git will not start a rebase over uncommitted changes, so there is none to
\* abort: git rebase --abort, run with check=True, raises out of publish.
PublishRaises ==
  /\ pc = "publish"
  /\ ~CanRebase
  /\ pc' = "rollback"
  /\ status' = "failed"
  /\ UNCHANGED <<trees, chained, late, inventory, state, loop, before, history,
                 mishaps>>

-----------------------------------------------------------------------------
(***************************************************************************)
(* Failure of an open transaction, and the end of the process.             *)
(***************************************************************************)

\* A write, prettier or git commit raises.
TransactionFails ==
  /\ pc \in {"inventory", "cursor", "commit_inventory", "index", "save", "commit"}
  /\ Mishap
  /\ pc' = "rollback"
  /\ status' = "failed"
  /\ UNCHANGED <<trees, chained, late, inventory, state, loop, before, history>>

\* Mutant: the markers of the batch are not restored.
RestoredWithoutMarkers ==
  [before EXCEPT
     !.md    = (worktree.md \ batch) \cup (before.md \cap batch),
     !.fixme = worktree.fixme,
     !.figs  = worktree.figs \ (batch \ before.figs)]

\* Mutant: the figures of the batch are not removed.
RestoredWithFigures ==
  [before EXCEPT
     !.md    = (worktree.md \ batch) \cup (before.md \cap batch),
     !.fixme = (worktree.fixme \ batch) \cup (before.fixme \cap batch),
     !.figs  = worktree.figs]

\* The files of the transaction as they were.  In the inventory transaction the
\* batch is empty.  Figures that existed before are left as the batch made them.
Restored ==
  [before EXCEPT
     !.md    = (worktree.md \ batch) \cup (before.md \cap batch),
     !.fixme = (worktree.fixme \ batch) \cup (before.fixme \cap batch),
     !.figs  = worktree.figs \ (batch \ before.figs)]

RollBack ==
  /\ pc = "rollback"
  /\ worktree' = Restored
  /\ pc' = "finish"
  /\ UNCHANGED <<head, remote, base, status, chained, late, inventory, state, loop,
                 before, history, mishaps>>

RollBackFails ==
  /\ pc = "rollback"
  /\ Mishap
  /\ pc' = "finish"
  /\ status' = "spoiled"
  /\ UNCHANGED <<trees, chained, late, inventory, state, loop, before, history>>

\* The process ends and its variables with it.
Exit ==
  /\ pc' = "idle"
  /\ late' = FALSE /\ inventory' = {} /\ state' = StateFile(EmptyTree)
  /\ attempted' = {} /\ needsPdf' = {} /\ working' = 0
  /\ batch' = {} /\ fast' = TRUE /\ result' = NoResult /\ converted' = FALSE
  /\ before' = EmptyTree /\ checkout' = EmptyTree /\ gained' = {}

\* Mutant: another run is dispatched as long as there is work.
MoreWorkWithoutProgress ==
  Pending(inventory, worktree) # {} \/ worktree.seen # Papers

\* has_more_work: the run moved and there is something left.
MoreWork ==
  /\ worktree.seen # checkout.seen \/ converted
  /\ Pending(inventory, worktree) # {} \/ worktree.seen # Papers

\* nightly.sh refuses to push a worktree with uncommitted changes.
RefuseDirty ==
  /\ pc = "finish"
  /\ Automated
  /\ Stray \/ worktree # head
  /\ chained' = FALSE
  /\ Exit
  /\ UNCHANGED <<trees, status, tally, mishaps>>

\* The final push; the workflow dispatches the next run if this one succeeded.
FinalPush ==
  /\ pc = "finish"
  /\ Automated
  /\ CanRebase
  /\ PushHead
  /\ chained' = (status = "ok" /\ MoreWork)
  /\ Exit
  /\ UNCHANGED <<status, tally, mishaps>>

\* Five attempts were refused.
GiveUpPush ==
  /\ pc = "finish"
  /\ Automated
  /\ CanRebase
  /\ Mishap
  /\ chained' = FALSE
  /\ Exit
  /\ UNCHANGED <<trees, status, tally>>

\* Run by hand: nothing follows the command.
Leave ==
  /\ pc = "finish"
  /\ ~Automated
  /\ chained' = FALSE
  /\ Exit
  /\ UNCHANGED <<trees, status, tally, mishaps>>

\* The job times out or its machine is lost.
CutOff ==
  /\ pc # "idle"
  /\ Mishap
  /\ status' = "cut"
  /\ chained' = FALSE
  /\ Exit
  /\ UNCHANGED <<trees, tally>>

-----------------------------------------------------------------------------
(***************************************************************************)
(* People.  On main they remove a marker to retry a paper, or delete a     *)
(* conversion to redo it (requeue-outdated deletes the figures with it);   *)
(* in their own clone they discard what an interrupted run left.           *)
(***************************************************************************)
Reopen(p, tree) ==
  /\ Mishap
  /\ remote' = tree
  /\ tally' = [tally EXCEPT ![p] = 0]
  /\ UNCHANGED <<worktree, head, base, pc, status, chained, late, inventory, state,
                 loop, before, checkout, gained>>

RemoveMarker(p) ==
  /\ p \in remote.fixme
  /\ Reopen(p, [remote EXCEPT !.fixme = @ \ {p}])

Requeue(p) ==
  /\ p \in remote.md
  /\ Reopen(p, [remote EXCEPT !.md = @ \ {p}, !.figs = @ \ {p}])

DeleteMarkdown(p) ==
  /\ Careless
  /\ p \in remote.md
  /\ Reopen(p, [remote EXCEPT !.md = @ \ {p}])

DiscardChanges ==
  /\ pc = "idle"
  /\ ~Automated
  /\ worktree # head
  /\ worktree' = head
  /\ UNCHANGED <<head, remote, base, pc, status, chained, late, inventory, state,
                 loop, before, history, mishaps>>

-----------------------------------------------------------------------------

Run ==
  \/ \E delivered \in SUBSET (Papers \ state.seen) : Fetch(delivered)
  \/ WriteInventory
  \/ SaveCursor
  \/ CommitInventory
  \/ StartBatch
  \/ EndLoop
  \/ \E outcome \in [batch -> Outcome], drawn \in SUBSET batch :
       Convert(outcome, drawn)
  \/ WriteIndex
  \/ SaveState
  \/ CommitBatch
  \/ Publish
  \/ PublishRaises
  \/ RollBack
  \/ RefuseDirty
  \/ FinalPush
  \/ Leave

Trouble ==
  \/ FetchFails
  \/ DeadlinePasses
  \/ \E succeeded, marked, drawn \in SUBSET batch :
       ConvertFails(succeeded, marked, drawn)
  \/ PushRefused
  \/ PublishRefused
  \/ TransactionFails
  \/ RollBackFails
  \/ GiveUpPush
  \/ CutOff
  \/ \E p \in Papers : RemoveMarker(p) \/ Requeue(p) \/ DeleteMarkdown(p)

Next == Launch \/ Run \/ Trouble \/ DiscardChanges

\* The program runs on, and the schedule starts it night after night.
Fairness == WF_vars(Launch \/ Run)

Spec == Init /\ [][Next]_vars /\ Fairness

-----------------------------------------------------------------------------

Phase ==
  {"idle", "fetch", "inventory", "cursor", "commit_inventory", "loop", "convert",
   "index", "save", "commit", "publish", "rollback", "finish"}

TreesOK ==
  /\ worktree \in Tree /\ head \in Tree /\ remote \in Tree
  /\ base \in Tree /\ before \in Tree /\ checkout \in Tree

ControlOK ==
  /\ pc \in Phase
  /\ status \in {"ok", "failed", "refused", "spoiled", "cut"}
  /\ chained \in BOOLEAN /\ late \in BOOLEAN
  /\ fast \in BOOLEAN /\ converted \in BOOLEAN

MemoryOK ==
  /\ inventory \in SUBSET Papers
  /\ state \in [seen : SUBSET Papers, strikes : [Papers -> 0..2]]
  /\ attempted \in SUBSET Papers /\ needsPdf \in SUBSET Papers
  /\ batch \in SUBSET Papers
  /\ working \in 0..MaxBatches
  /\ result \in [succeeded : SUBSET Papers, promoted : SUBSET Papers,
                 changed : BOOLEAN]

HistoryOK ==
  /\ tally \in [Papers -> 0..3]
  /\ gained \in SUBSET Papers
  /\ mishaps \in 0..MaxMishaps

TypeOK == TreesOK /\ ControlOK /\ MemoryOK /\ HistoryOK

\* What every commit must say: no cursor has passed an accepted paper that is not
\* in the inventory, and a paper that is converted or blocked is in the inventory,
\* is not both, and has no strike left.
Consistent(tree) ==
  /\ tree.seen \cap OnTopic \subseteq tree.inv
  /\ tree.md \cup tree.fixme \subseteq tree.inv
  /\ tree.md \cap tree.fixme = {}
  /\ \A p \in Papers : tree.strikes[p] > 0 => p \in Pending(tree.inv, tree)

\* Each commit, local or pushed, is a corpus a run can start from, wherever runs
\* fail, are cut off or are rebased (pipeline.py: one commit per transaction).
CommitsConsistent == Consistent(head) /\ Consistent(remote)

\* A run that fails leaves the worktree as its last commit has it, so the next
\* local run is not refused and nightly.sh may push (pipeline.py _rollback_files).
FailedRunIsClean ==
  pc = "finish" /\ status \in {"ok", "failed"} => worktree = head

\* Whatever a run does in its two passes, and however often main is edited
\* meanwhile, it records at most one strike against a paper, and blocks only a
\* paper that started the run with two (pipeline.py attempted, needs_pdf).
OneStrikePerRun ==
  pc # "idle" /\ status # "refused" =>
    \A p \in Papers :
      /\ head.strikes[p] <= checkout.strikes[p] + 1
      /\ p \in head.fixme \ checkout.fixme => checkout.strikes[p] = 2

\* A marker on main stands for three failed attempts since the paper was last
\* opened, across lost runs and refused pushes (README: third failure).
MarkerIsEarned == \A p \in remote.fixme : tally[p] = 3

\* A batch that is about to be published describes itself: its index counts the
\* inventory and links exactly the converted papers (indexing.py).
IndexDescribesBatch ==
  pc = "publish" => head.listed = head.inv /\ head.linked = head.md

\* The workflow dispatches another run only after this one put markdown on main
\* or moved a cursor there (has_more_work, nightly.yml).
DispatchFollowsProgress ==
  [][ pc = "finish" /\ chained' /\ pc' = "idle" =>
        \/ remote'.seen # checkout.seen
        \/ gained # {}
        \/ head.md \ base.md # {} ]_vars

\* What is committed stays on disk: no rollback takes back a markdown file or a
\* marker of HEAD (git.py publish leaves the repository on its own commits).
CommittedStays ==
  head.md \subseteq worktree.md /\ head.fixme \subseteq worktree.fixme

\* A clone holds uncommitted changes between runs only if a run died in it or its
\* rollback failed; only then is the next run refused (git.py assert_clean).
DirtyOnlyAfterDeath ==
  pc = "idle" /\ worktree # head => status \in {"cut", "spoiled", "refused"}

-----------------------------------------------------------------------------

\* The run ends: every paper is tried at most once per pass (pipeline.py:159).
RunEnds == pc # "idle" ~> pc = "idle"

\* Runs that dispatch one another stop by themselves (has_more_work).
ChainEnds == chained ~> ~chained

\* A paper whose host answers is converted or blocked in the end, also behind
\* papers that are deferred in every run (pipeline.py:159).
NoPaperStarves ==
  \A p \in OnTopic \ Throttled :
    p \in remote.inv ~> p \in remote.md \cup remote.fixme

\* The published index catches up with the corpus (pipeline.py: written per batch).
IndexCatchesUp ==
  []<>(remote.listed = remote.inv /\ remote.linked = remote.md)

\* A paper's stage of life, as a tree has it.
Stage(tree, p) ==
  IF p \in tree.md THEN "converted"
  ELSE IF p \in tree.fixme THEN "blocked"
  ELSE IF p \in tree.inv THEN "pending"
  ELSE "unknown"

\* What a reader of main sees of all this, and a developer in the clone's history.
Main  == INSTANCE Corpus WITH stage   <- [p \in Papers |-> Stage(remote, p)],
                              strikes <- remote.strikes
Clone == INSTANCE Corpus WITH stage   <- [p \in Papers |-> Stage(head, p)],
                              strikes <- head.strikes

\* Main changes only by legal steps of each paper's life (Corpus).
ImplementsCorpus == Main!Spec

\* So does the history of a clone that does not rebase, commit by commit, also where a
\* publish that raised has rolled the worktree back behind it: no later run takes up a
\* paper again that a commit has finished, or fails it twice in one commit
\* (pipeline.py:104, pipeline.py:303, git.py assert_clean).
CloneImplementsCorpus == Clone!Spec

=============================================================================
