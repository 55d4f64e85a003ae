-------------------------- MODULE NightlyRunProofs --------------------------
(***************************************************************************)
(* Proofs about what a run leaves behind: strikes and markers, the         *)
(* worktree of a clone after failures and deaths, and the next run.        *)
(***************************************************************************)
EXTENDS NightlyProofs

-----------------------------------------------------------------------------
(***************************************************************************)
(* What the two commits of a run do to HEAD.                               *)
(***************************************************************************)
LEMMA InvFacts ==
  ASSUME ConsistentInv
  PROVE  /\ Consistent(head) /\ Consistent(remote) /\ MainShrinks
         /\ FetchFacts /\ LoopFacts /\ BatchFacts
         /\ worktree \in Tree /\ head \in Tree /\ base \in Tree /\ remote \in Tree
         /\ before \in Tree /\ checkout \in Tree
         /\ state \in [seen : SUBSET Papers, strikes : [Papers -> 0..2]]
         /\ tally \in [Papers -> 0..3] /\ batch \subseteq Papers
BY DEF ConsistentInv, CommitsConsistent, TypeInv, TypeOK, TreesOK, MemoryOK, HistoryOK

\* The inventory commit leaves markdown, markers, figures and strikes alone.
LEMMA InventoryCommit ==
  ASSUME ConsistentInv, CommitInventory
  PROVE  /\ head'.md = head.md /\ head'.fixme = head.fixme /\ head'.figs = head.figs
         /\ head'.strikes = head.strikes /\ worktree' = head'
<1>0. worktree \in Tree /\ head \in Tree /\ FetchFacts
      /\ state \in [seen : SUBSET Papers, strikes : [Papers -> 0..2]]
  BY InvFacts
<1>1. /\ Fetched /\ UNCHANGED worktree
      /\ worktree = [head EXCEPT !.inv = inventory, !.seen = state.seen,
                                 !.strikes = state.strikes]
      /\ head' = [head EXCEPT !.inv = worktree.inv, !.seen = worktree.seen,
                              !.strikes = worktree.strikes]
  BY <1>0 DEF CommitInventory, FetchFacts
<1>2. worktree.inv = inventory /\ worktree.seen = state.seen
      /\ worktree.strikes = state.strikes
  BY <1>0, <1>1 DEF Tree
<1>3. head' = worktree
  BY <1>1, <1>2
<1> QED BY <1>0, <1>1, <1>3 DEF Fetched, Tree

\* The batch commit makes HEAD the worktree.
LEMMA BatchCommit ==
  ASSUME ConsistentInv, CommitBatch
  PROVE  /\ Batched /\ worktree.strikes = state.strikes
         /\ head' = worktree /\ UNCHANGED worktree
<1>1. Batched /\ Indexed /\ worktree.strikes = state.strikes /\ UNCHANGED worktree
  BY InvFacts DEF CommitBatch, BatchFacts
<1>2. head' = worktree
  BY <1>1, InvFacts, CommittedIsWorktree DEF CommitBatch
<1> QED BY <1>1, <1>2

\* What a rebase makes of the markers.
LEMMA RebasedMarkers ==
  ASSUME NEW from \in Tree, NEW ours \in Tree, NEW theirs \in Tree
  PROVE  Rebased(from, ours, theirs).fixme = Replay(from.fixme, ours.fixme, theirs.fixme)
BY DEF Rebased, Tree

LEMMA RebasedMarkdown ==
  ASSUME NEW from \in Tree, NEW ours \in Tree, NEW theirs \in Tree
  PROVE  /\ Rebased(from, ours, theirs).md = Replay(from.md, ours.md, theirs.md)
         /\ Rebased(from, ours, theirs).figs = Replay(from.figs, ours.figs, theirs.figs)
BY DEF Rebased, Tree

-----------------------------------------------------------------------------
(***************************************************************************)
(* The local commits keep what the remote tree below them has.             *)
(***************************************************************************)
BaseKept == base.md \subseteq head.md /\ base.fixme \subseteq head.fixme

LEMMA BaseKeptStep == ConsistentInv /\ BaseKept /\ [Next]_vars => BaseKept'
<1> SUFFICES ASSUME ConsistentInv, BaseKept, [Next]_vars PROVE BaseKept'
  OBVIOUS
<1>0. /\ MainShrinks /\ base \in Tree /\ head \in Tree /\ remote \in Tree
  BY InvFacts
<1>1. CASE Launch
  BY <1>1 DEF Launch, BaseKept
<1>2. CASE CommitInventory
  BY <1>2, InventoryCommit DEF CommitInventory, BaseKept
<1>3. CASE CommitBatch
  <2>1. head.md \subseteq head'.md /\ head.fixme \subseteq head'.fixme
    BY <1>3, BatchCommit DEF Batched
  <2> QED BY <1>3, <2>1 DEF CommitBatch, BaseKept
<1>4. CASE Publish \/ FinalPush
  BY <1>4 DEF Publish, FinalPush, PushHead, BaseKept
<1>5. CASE PushRefused
  <2>1. head' = Rebased(base, head, remote) /\ base' = remote
    BY <1>5 DEF PushRefused
  <2>2. /\ head'.md = Replay(base.md, head.md, remote.md)
        /\ head'.fixme = Replay(base.fixme, head.fixme, remote.fixme)
    BY <1>0, <2>1, RebasedMarkers, RebasedMarkdown
  <2>3. remote.md \subseteq Papers /\ remote.fixme \subseteq Papers
    BY <1>0 DEF Tree
  <2> QED BY <1>0, <2>1, <2>2, <2>3 DEF BaseKept, MainShrinks, Replay
<1>6. CASE UNCHANGED <<head, base>>
  BY <1>6 DEF BaseKept
<1>7. ASSUME NEW p \in Papers, RemoveMarker(p) \/ Requeue(p) \/ DeleteMarkdown(p)
      PROVE  UNCHANGED <<head, base>>
  BY <1>7 DEF RemoveMarker, Requeue, DeleteMarkdown, Reopen
<1> QED
  BY <1>1, <1>2, <1>3, <1>4, <1>5, <1>6, <1>7
  DEF Next, Run, Trouble, vars, trees, Fetch, WriteInventory, SaveCursor,
      StartBatch, EndLoop, Convert, WriteIndex, SaveState, PublishRaises, RollBack,
      RefuseDirty, Leave, FetchFails, DeadlinePasses, ConvertFails, PublishRefused,
      TransactionFails, RollBackFails, GiveUpPush, CutOff, DiscardChanges

-----------------------------------------------------------------------------
(***************************************************************************)
(* Strikes.  In memory, a paper that may still be converted in this run    *)
(* has the strikes that the run found.                                     *)
(***************************************************************************)
Running == pc # "idle" /\ status # "refused"

\* May still be converted: not tried, set aside by the pandoc pass, or at work.
Open(p) == p \notin attempted \/ p \in needsPdf \/ (pc = "convert" /\ p \in batch)

StrikeInv ==
  /\ status = "refused" => pc \in {"idle", "finish"}
  /\ pc = "convert" => batch \subseteq attempted /\ batch \cap needsPdf = {}
  /\ Running =>
       /\ \A p \in Papers : state.strikes[p] <= checkout.strikes[p] + 1
       /\ \A p \in Papers : head.strikes[p] <= checkout.strikes[p] + 1
       /\ \A p \in Papers : Open(p) => state.strikes[p] = checkout.strikes[p]
       /\ \A p \in head.fixme \ checkout.fixme : checkout.strikes[p] = 2
       /\ pc \in {"index", "save", "commit"} =>
            \A p \in result.promoted : checkout.strikes[p] = 2

\* The steps that touch neither HEAD's strikes and markers nor the run's memory.
StrikesUntouched ==
  UNCHANGED <<status, head, state, checkout, attempted, needsPdf, batch, result>>

LEMMA StrikesLaunched == ASSUME ConsistentInv, StrikeInv, Launch PROVE StrikeInv'
<1>1. CASE Automated \/ worktree = head
  <2>1. /\ checkout' = head' /\ state' = StateFile(checkout') /\ pc' = "fetch"
        /\ status' = "ok"
    BY <1>1 DEF Launch
  <2>2. head' \in Tree
    BY InvFacts DEF Launch
  <2>3. /\ state'.strikes = head'.strikes
        /\ \A p \in Papers : head'.strikes[p] <= head'.strikes[p] + 1
    BY <2>1, <2>2 DEF StateFile, Tree
  <2> QED BY <2>1, <2>3 DEF StrikeInv, Running
<1>2. CASE ~(Automated \/ worktree = head)
  BY <1>2 DEF Launch, StrikeInv, Running
<1> QED BY <1>1, <1>2

\* A batch strikes each of its papers at most once, and blocks the twice struck.
LEMMA StrikesConverted ==
  ASSUME ConsistentInv, StrikeInv, NEW outcome \in [batch -> Outcome],
         NEW drawn \in SUBSET batch, Convert(outcome, drawn)
  PROVE  StrikeInv'
<1>0. /\ pc = "convert" /\ pc' = "index"
      /\ state' = [state EXCEPT !.strikes = StrikesAfter(outcome)]
      /\ needsPdf' = needsPdf \cup Ended(outcome, "needs_pdf")
      /\ result'.promoted = Third(outcome)
      /\ UNCHANGED <<status, head, checkout, attempted, batch>>
  BY DEF Convert
<1>1. /\ Running /\ batch \subseteq attempted /\ batch \cap needsPdf = {}
      /\ \A p \in Papers : state.strikes[p] <= checkout.strikes[p] + 1
      /\ \A p \in Papers : head.strikes[p] <= checkout.strikes[p] + 1
      /\ \A p \in Papers : Open(p) => state.strikes[p] = checkout.strikes[p]
      /\ \A p \in head.fixme \ checkout.fixme : checkout.strikes[p] = 2
  BY <1>0 DEF StrikeInv, Running
<1>2. state'.strikes = StrikesAfter(outcome)
  BY <1>0, InvFacts
<1>3. \A p \in batch : state.strikes[p] = checkout.strikes[p]
  BY <1>0, <1>1, InvFacts DEF Open
<1>4. checkout.strikes \in [Papers -> 0..2] /\ state.strikes \in [Papers -> 0..2]
  BY InvFacts DEF Tree
<1>5. ASSUME NEW p \in Papers PROVE state'.strikes[p] <= checkout.strikes[p] + 1
  <2>1. CASE p \in Ended(outcome, "succeeded") \cup Third(outcome)
    BY <1>2, <1>4, <2>1 DEF StrikesAfter
  <2>2. CASE p \in Ended(outcome, "failed") \ Third(outcome)
    BY <1>2, <1>3, <1>4, <2>2 DEF StrikesAfter, Ended
  <2>3. CASE p \notin Ended(outcome, "succeeded") \cup Ended(outcome, "failed")
    BY <1>1, <1>2, <2>3 DEF StrikesAfter, Third
  <2> QED BY <2>1, <2>2, <2>3 DEF Third
<1>6. ASSUME NEW p \in Papers, Open(p)' PROVE state'.strikes[p] = checkout.strikes[p]
  <2>1. p \notin attempted \/ p \in needsPdf \/ p \in Ended(outcome, "needs_pdf")
    BY <1>0, <1>6 DEF Open
  <2>2. p \notin Ended(outcome, "succeeded") \cup Ended(outcome, "failed")
    BY <1>1, <2>1 DEF Ended
  <2>3. state'.strikes[p] = state.strikes[p]
    BY <1>2, <2>2 DEF StrikesAfter, Third
  <2> QED BY <1>0, <1>1, <2>1, <2>3 DEF Open, Ended
<1>7. \A p \in Third(outcome) : checkout.strikes[p] = 2
  BY <1>3 DEF Third, Ended
<1>8. Running'
  BY <1>0, <1>1 DEF Running
<1> QED BY <1>0, <1>1, <1>5, <1>6, <1>7, <1>8 DEF StrikeInv, Running

LEMMA StrikesStep == ConsistentInv /\ StrikeInv /\ [Next]_vars => StrikeInv'
<1> SUFFICES ASSUME ConsistentInv, StrikeInv, [Next]_vars PROVE StrikeInv'
  OBVIOUS
<1>1. CASE Launch
  BY <1>1, StrikesLaunched
<1>2. ASSUME NEW delivered \in SUBSET (Papers \ state.seen), Fetch(delivered)
      PROVE  StrikeInv'
  <2>1. state'.strikes = state.strikes
    BY <1>2, InvFacts DEF Fetch
  <2> QED BY <1>2, <2>1 DEF Fetch, StrikeInv, Running, Open, trees, loop, history
<1>3. CASE CommitInventory
  <2>1. head'.fixme = head.fixme /\ head'.strikes = head.strikes
    BY <1>3, InventoryCommit
  <2> QED BY <1>3, <2>1 DEF CommitInventory, StrikeInv, Running, Open, loop, history
<1>4. CASE StartBatch
  <2>1. /\ attempted' = attempted \cup NextBatch /\ needsPdf' = needsPdf \ NextBatch
        /\ batch' = NextBatch /\ pc' = "convert" /\ pc = "loop"
        /\ UNCHANGED <<status, head, state, checkout>>
    BY <1>4 DEF StartBatch, trees, history
  <2>2. NextBatch \subseteq IF Untried # {} THEN Untried
                            ELSE Pending(inventory, worktree) \cap needsPdf
    BY SelectBatchSubset DEF NextBatch
  <2>3. \A p \in NextBatch : p \notin attempted \/ p \in needsPdf
    BY <2>2 DEF Untried
  <2>4. \A p \in Papers : Open(p)' => Open(p)
    BY <2>1, <2>3 DEF Open
  <2> QED BY <2>1, <2>4 DEF StrikeInv, Running
<1>5. ASSUME NEW outcome \in [batch -> Outcome], NEW drawn \in SUBSET batch,
             Convert(outcome, drawn)
      PROVE  StrikeInv'
  BY <1>5, StrikesConverted
<1>6. CASE CommitBatch
  <2>1. Batched /\ worktree.strikes = state.strikes /\ head' = worktree
    BY <1>6, BatchCommit
  <2>2. head'.strikes = state.strikes /\ head'.fixme = head.fixme \cup result.promoted
    BY <2>1 DEF Batched
  <2>3. /\ pc = "commit" /\ pc' \in {"loop", "publish"}
        /\ UNCHANGED <<status, state, checkout, attempted, needsPdf, batch, result>>
    BY <1>6 DEF CommitBatch, loop
  <2> QED BY <2>2, <2>3 DEF StrikeInv, Running, Open
<1>7. CASE Publish \/ PushRefused
  <2>1. head' = Rebased(base, head, remote)
    BY <1>7 DEF Publish, PushHead, PushRefused
  <2>2. head'.strikes = head.strikes /\ head'.fixme \subseteq head.fixme
    BY <2>1, InvFacts, RebasedFields DEF MainShrinks
  <2>3. /\ pc = "publish" /\ pc' = "loop"
        /\ UNCHANGED <<status, state, checkout, attempted, needsPdf, batch, result>>
    BY <1>7 DEF Publish, PushRefused, loop, history
  <2> QED BY <2>2, <2>3 DEF StrikeInv, Running, Open
<1>8. ASSUME pc' = "idle" PROVE StrikeInv'
  BY <1>8 DEF StrikeInv, Running
<1>9. ASSUME StrikesUntouched, pc # "idle", pc' \notin {"convert", "idle"},
             pc' \in {"index", "save", "commit"} => pc \in {"index", "save", "commit"},
             pc = "finish" => pc' = "finish"
      PROVE  StrikeInv'
  <2>1. \A p \in Papers : Open(p)' => Open(p)
    BY <1>9 DEF StrikesUntouched, Open
  <2> QED BY <1>9, <2>1 DEF StrikesUntouched, StrikeInv, Running
<1>10. ASSUME UNCHANGED <<head, state, checkout, attempted, needsPdf, batch, result>>,
              pc \in {"fetch", "inventory", "cursor", "commit_inventory", "convert",
                      "index", "save", "commit", "publish", "rollback"},
              pc' \in {"rollback", "finish"}, status' \in {"failed", "spoiled"}
       PROVE  StrikeInv'
  <2>1. \A p \in Papers : Open(p)' => Open(p)
    BY <1>10 DEF Open
  <2>2. Running
    BY <1>10 DEF Running, StrikeInv
  <2> QED BY <1>10, <2>1, <2>2 DEF StrikeInv, Running
<1>11. ASSUME StrikesUntouched, UNCHANGED pc PROVE StrikeInv'
  BY <1>11 DEF StrikesUntouched, StrikeInv, Running, Open
<1>12. CASE UNCHANGED vars
  BY <1>12, <1>11 DEF StrikesUntouched, vars, trees, loop, history
<1>13. ASSUME Trouble PROVE StrikeInv'
  <2>1. CASE FetchFails \/ TransactionFails \/ RollBackFails
    BY <2>1, <1>10 DEF FetchFails, TransactionFails, RollBackFails, trees, loop, history
  <2>2. ASSUME NEW succeeded \in SUBSET batch, NEW marked \in SUBSET batch,
               NEW drawn \in SUBSET batch, ConvertFails(succeeded, marked, drawn)
        PROVE  StrikeInv'
    BY <2>2, <1>10 DEF ConvertFails, loop, history
  <2>3. CASE DeadlinePasses
    BY <2>3, <1>11 DEF DeadlinePasses, StrikesUntouched, trees, loop, history
  <2>4. CASE PublishRefused
    BY <2>4, <1>9 DEF PublishRefused, StrikesUntouched, trees, loop, history
  <2>5. CASE GiveUpPush \/ CutOff
    BY <2>5, <1>8 DEF GiveUpPush, CutOff, Exit
  <2>6. ASSUME NEW p \in Papers, RemoveMarker(p) \/ Requeue(p) \/ DeleteMarkdown(p)
        PROVE  StrikeInv'
    BY <2>6, <1>11 DEF RemoveMarker, Requeue, DeleteMarkdown, Reopen, StrikesUntouched, loop
  <2> QED BY <1>13, <1>7, <2>1, <2>2, <2>3, <2>4, <2>5, <2>6 DEF Trouble
<1>14. CASE WriteInventory \/ SaveCursor \/ EndLoop \/ WriteIndex \/ SaveState \/ RollBack
  BY <1>14, <1>9 DEF WriteInventory, SaveCursor, EndLoop, WriteIndex, SaveState, RollBack,
                    StrikesUntouched, trees, loop, history
<1>15. CASE PublishRaises
  BY <1>15, <1>10 DEF PublishRaises, trees, loop, history
<1>16. CASE RefuseDirty \/ FinalPush \/ Leave
  BY <1>16, <1>8 DEF RefuseDirty, FinalPush, Leave, Exit
<1>17. CASE DiscardChanges
  BY <1>17, <1>11 DEF DiscardChanges, StrikesUntouched, loop, history
<1> QED
  BY <1>1, <1>2, <1>3, <1>4, <1>5, <1>6, <1>7, <1>12, <1>13, <1>14, <1>15, <1>16, <1>17
  DEF Next, Run

\* Whatever a run does in its two passes, and however main is edited meanwhile, it
\* records at most one strike against a paper, and blocks only a paper that had two.
THEOREM OneStrikeOnly == Spec => []OneStrikePerRun
<1>1. Init => StrikeInv
  BY DEF Init, StrikeInv, Running
<1>2. StrikeInv => OneStrikePerRun
  BY DEF StrikeInv, OneStrikePerRun, Running
<1> QED
  BY <1>1, <1>2, ConsistentInvInit, ConsistentInvStep, StrikesStep, PTL DEF Spec

-----------------------------------------------------------------------------
(***************************************************************************)
(* Markers.  The attempts that are counted cover the strikes of every      *)
(* commit, and a marker that is not yet on main has three of them.         *)
(***************************************************************************)
EarnedInv ==
  /\ BaseKept
  /\ \A p \in Papers : head.strikes[p] <= tally[p] /\ remote.strikes[p] <= tally[p]
  /\ \A p \in remote.fixme : tally[p] = 3
  /\ \A p \in head.fixme \ base.fixme : tally[p] = 3
  /\ pc \in {"index", "save", "commit"} =>
       /\ \A p \in Papers : state.strikes[p] <= tally[p]
       /\ \A p \in result.promoted : tally[p] = 3

LEMMA EarnedConverted ==
  ASSUME ConsistentInv, EarnedInv, NEW outcome \in [batch -> Outcome],
         NEW drawn \in SUBSET batch, Convert(outcome, drawn), BaseKept'
  PROVE  EarnedInv'
<1>0. /\ UNCHANGED <<head, remote, base>>
      /\ state' = [state EXCEPT !.strikes = StrikesAfter(outcome)]
      /\ result'.promoted = Third(outcome)
      /\ tally' = [p \in Papers |->
                     IF p \in Ended(outcome, "failed") /\ tally[p] < 3
                     THEN tally[p] + 1 ELSE tally[p]]
  BY DEF Convert
<1>1. /\ state = StateFile(head) /\ head \in Tree /\ tally \in [Papers -> 0..3]
      /\ batch \subseteq Papers /\ remote \in Tree
  BY InvFacts DEF Convert, LoopFacts, Steady
<1>2. state.strikes = head.strikes /\ state'.strikes = StrikesAfter(outcome)
  BY <1>0, <1>1, InvFacts DEF StateFile
<1>3. ASSUME NEW p \in Papers
      PROVE  /\ tally[p] <= tally'[p] /\ tally'[p] \in 0..3
             /\ p \in Ended(outcome, "failed") => tally'[p] = 3 \/ tally'[p] = tally[p] + 1
  BY <1>0, <1>1
<1>4. ASSUME NEW p \in Papers
      PROVE  /\ head.strikes[p] <= tally'[p] /\ remote.strikes[p] <= tally'[p]
             /\ head.strikes[p] \in 0..2
  <2>1. /\ head.strikes[p] <= tally[p] /\ remote.strikes[p] <= tally[p]
        /\ head.strikes[p] \in 0..2 /\ remote.strikes[p] \in 0..2
        /\ tally[p] \in 0..3
    BY <1>1 DEF EarnedInv, Tree
  <2> QED BY <2>1, <1>3
<1>5. ASSUME NEW p \in Papers, tally[p] = 3 PROVE tally'[p] = 3
  BY <1>3, <1>5
<1>6. ASSUME NEW p \in Third(outcome) PROVE tally'[p] = 3
  <2>1. p \in Papers /\ p \in Ended(outcome, "failed") /\ head.strikes[p] = 2
    BY <1>1, <1>2 DEF Third, Ended
  <2>2. 2 <= tally[p] /\ tally[p] \in 0..3
    BY <1>1, <2>1 DEF EarnedInv
  <2> QED BY <1>3, <2>1, <2>2
<1>7. ASSUME NEW p \in Papers PROVE StrikesAfter(outcome)[p] <= tally'[p]
  <2>1. CASE p \in Ended(outcome, "succeeded") \cup Third(outcome)
    BY <2>1, <1>3 DEF StrikesAfter
  <2>2. CASE p \in Ended(outcome, "failed") \ Third(outcome)
    <3>1. StrikesAfter(outcome)[p] = head.strikes[p] + 1 /\ head.strikes[p] # 2
      BY <2>2, <1>2 DEF StrikesAfter, Third, Ended
    <3>2. head.strikes[p] <= tally[p] /\ tally[p] \in 0..3 /\ head.strikes[p] \in 0..2
      BY <1>1 DEF EarnedInv, Tree
    <3> QED BY <2>2, <3>1, <3>2, <1>3
  <2>3. CASE p \notin Ended(outcome, "succeeded") \cup Ended(outcome, "failed")
    BY <2>3, <1>2, <1>4 DEF StrikesAfter, Third
  <2> QED BY <2>1, <2>2, <2>3 DEF Third
<1>8. remote.fixme \subseteq Papers /\ head.fixme \subseteq Papers
  BY <1>1 DEF Tree
<1> QED BY <1>0, <1>2, <1>4, <1>5, <1>6, <1>7, <1>8 DEF EarnedInv

\* Whoever opens a paper again finds no strike of it in any commit, nor in the run.
LEMMA EarnedReopened ==
  ASSUME ConsistentInv, EarnedInv, NEW q \in Papers,
         RemoveMarker(q) \/ Requeue(q) \/ DeleteMarkdown(q), BaseKept'
  PROVE  EarnedInv'
<1>0. /\ UNCHANGED <<head, base, pc, state, result>>
      /\ tally' = [tally EXCEPT ![q] = 0]
  BY DEF RemoveMarker, Requeue, DeleteMarkdown, Reopen, loop
<1>1. /\ remote'.strikes = remote.strikes
      /\ remote'.fixme \subseteq remote.fixme /\ q \notin remote'.fixme
      /\ q \in remote.md \cup remote.fixme
  <2>0. remote \in Tree /\ remote.md \cap remote.fixme = {}
    BY InvFacts DEF Consistent
  <2>1. CASE RemoveMarker(q)
    BY <2>0, <2>1 DEF RemoveMarker, Reopen, Tree
  <2>2. CASE Requeue(q)
    <3>1. q \in remote.md /\ remote' = [remote EXCEPT !.md = @ \ {q}, !.figs = @ \ {q}]
      BY <2>2 DEF Requeue, Reopen
    <3> QED BY <2>0, <3>1 DEF Tree
  <2>3. CASE DeleteMarkdown(q)
    <3>1. q \in remote.md /\ remote' = [remote EXCEPT !.md = @ \ {q}]
      BY <2>3 DEF DeleteMarkdown, Reopen
    <3> QED BY <2>0, <3>1 DEF Tree
  <2> QED BY <2>1, <2>2, <2>3
<1>2. q \in head.md \cup head.fixme /\ q \notin head.fixme \ base.fixme
  BY <1>1, InvFacts DEF EarnedInv, BaseKept, MainShrinks, Consistent
<1>3. /\ head.strikes[q] = 0 /\ remote.strikes[q] = 0
      /\ pc \in {"index", "save", "commit"} =>
           state.strikes[q] = 0 /\ q \notin result.promoted
  <2>1. q \notin Pending(head.inv, head) /\ q \notin Pending(remote.inv, remote)
    BY <1>1, <1>2 DEF Pending
  <2>2. /\ head.strikes[q] \in 0..2 /\ remote.strikes[q] \in 0..2
        /\ state.strikes[q] \in 0..2
    BY InvFacts DEF Tree
  <2>3. head.strikes[q] = 0 /\ remote.strikes[q] = 0
    BY <2>1, <2>2, InvFacts DEF Consistent
  <2>4. pc \in {"index", "save", "commit"} =>
          state.strikes[q] = 0 /\ q \notin result.promoted
    BY <2>1, <2>2, InvFacts DEF BatchFacts, Batched
  <2> QED BY <2>3, <2>4
<1>4. /\ tally'[q] = 0
      /\ \A p \in Papers \ {q} : tally'[p] = tally[p]
  BY <1>0, InvFacts
<1>5. /\ remote.fixme \subseteq Papers /\ head.fixme \subseteq Papers
      /\ pc \in {"index", "save", "commit"} => result.promoted \subseteq Papers
  BY InvFacts DEF Tree, BatchFacts, Batched, Pending
<1> QED BY <1>0, <1>1, <1>2, <1>3, <1>4, <1>5 DEF EarnedInv

LEMMA EarnedStep == ConsistentInv /\ EarnedInv /\ [Next]_vars => EarnedInv'
<1> SUFFICES ASSUME ConsistentInv, EarnedInv, [Next]_vars PROVE EarnedInv'
  OBVIOUS
<1>0. BaseKept'
  BY BaseKeptStep DEF EarnedInv
<1>1. CASE Launch
  BY <1>0, <1>1 DEF Launch, EarnedInv
<1>2. ASSUME NEW outcome \in [batch -> Outcome], NEW drawn \in SUBSET batch,
             Convert(outcome, drawn)
      PROVE  EarnedInv'
  BY <1>0, <1>2, EarnedConverted
<1>3. CASE CommitInventory
  <2>1. head'.fixme = head.fixme /\ head'.strikes = head.strikes
    BY <1>3, InventoryCommit
  <2> QED BY <1>0, <1>3, <2>1 DEF CommitInventory, EarnedInv, history
<1>4. CASE CommitBatch
  <2>1. /\ head'.strikes = state.strikes
        /\ head'.fixme = head.fixme \cup result.promoted
    BY <1>4, BatchCommit DEF Batched
  <2> QED BY <1>0, <1>4, <2>1 DEF CommitBatch, EarnedInv
<1>5. CASE Publish \/ FinalPush \/ PushRefused
  <2>1. /\ head' = Rebased(base, head, remote)
        /\ \/ remote' = head' /\ base' = head'
           \/ remote' = remote /\ base' = remote
        /\ tally' = tally /\ pc' \in {"loop", "idle"}
    <3>1. CASE Publish
      BY <3>1 DEF Publish, PushHead
    <3>2. CASE FinalPush
      BY <3>2 DEF FinalPush, PushHead, Exit
    <3>3. CASE PushRefused
      BY <3>3 DEF PushRefused, history
    <3> QED BY <1>5, <3>1, <3>2, <3>3
  <2>2. /\ head'.strikes = head.strikes
        /\ head'.fixme = Replay(base.fixme, head.fixme, remote.fixme)
    BY <2>1, InvFacts, RebasedFields, RebasedMarkers DEF MainShrinks
  <2>3. \A p \in head'.fixme : p \in remote.fixme \/ p \in head.fixme \ base.fixme
    BY <2>2 DEF Replay
  <2>4. \A p \in head'.fixme : tally[p] = 3
    BY <2>3 DEF EarnedInv
  <2> QED BY <1>0, <2>1, <2>2, <2>4 DEF EarnedInv
<1>6. ASSUME NEW p \in Papers, RemoveMarker(p) \/ Requeue(p) \/ DeleteMarkdown(p)
      PROVE  EarnedInv'
  BY <1>0, <1>6, EarnedReopened
<1>7. ASSUME UNCHANGED <<head, remote, base, tally>>,
             pc' \in {"index", "save", "commit"} =>
               /\ pc \in {"index", "save", "commit"}
               /\ UNCHANGED <<state, result>>
      PROVE  EarnedInv'
  BY <1>0, <1>7 DEF EarnedInv
<1>8. CASE UNCHANGED vars
  BY <1>7, <1>8 DEF vars, trees, loop, history
<1>9. CASE \/ \E delivered \in SUBSET (Papers \ state.seen) : Fetch(delivered)
           \/ WriteInventory \/ SaveCursor \/ StartBatch \/ EndLoop \/ WriteIndex
           \/ SaveState \/ PublishRaises \/ RollBack \/ RefuseDirty \/ Leave
  BY <1>7, <1>9 DEF Fetch, WriteInventory, SaveCursor, StartBatch, EndLoop, WriteIndex,
                   SaveState, PublishRaises, RollBack, RefuseDirty, Leave, Exit,
                   trees, loop, history
<1>10. CASE \/ FetchFails \/ DeadlinePasses \/ PublishRefused \/ TransactionFails
            \/ RollBackFails \/ GiveUpPush \/ CutOff \/ DiscardChanges
            \/ \E succeeded, marked, drawn \in SUBSET batch :
                 ConvertFails(succeeded, marked, drawn)
  BY <1>7, <1>10 DEF FetchFails, DeadlinePasses, PublishRefused, TransactionFails,
                    RollBackFails, GiveUpPush, CutOff, DiscardChanges, ConvertFails, Exit,
                    trees, loop, history
<1> QED
  BY <1>1, <1>2, <1>3, <1>4, <1>5, <1>6, <1>8, <1>9, <1>10 DEF Next, Run, Trouble

\* A marker on main stands for three failed attempts since the paper was last opened,
\* across runs that are lost, pushes that are refused, and edits of main.
THEOREM MarkersAreEarned == Spec => []MarkerIsEarned
<1>1. Init => EarnedInv
  BY DEF Init, EarnedInv, BaseKept, EmptyTree
<1>2. EarnedInv => MarkerIsEarned
  BY DEF EarnedInv, MarkerIsEarned
<1> QED
  BY <1>1, <1>2, ConsistentInvInit, ConsistentInvStep, EarnedStep, PTL DEF Spec

-----------------------------------------------------------------------------
(***************************************************************************)
(* The worktree, where no file outside the pipeline's is changed (~Stray): *)
(* a transaction that is rolled back has found HEAD, and has taken nothing *)
(* off the worktree.                                                       *)
(***************************************************************************)
StaysInv ==
  /\ CommittedStays
  /\ pc \in {"inventory", "cursor", "commit_inventory", "rollback"} => before = head

\* A promotion adds to the worktree.
LEMMA PromotedFields ==
  ASSUME worktree \in Tree, NEW succeeded, NEW marked, NEW drawn
  PROVE  LET new == Promoted(succeeded, marked, drawn) IN
         /\ new.md = worktree.md \cup succeeded
         /\ new.fixme = worktree.fixme \cup marked
         /\ new.figs = (worktree.figs \ succeeded) \cup drawn
BY DEF Promoted, Tree

\* A rollback puts back markdown and markers of the batch, and removes its figures.
LEMMA RestoredFields ==
  ASSUME before \in Tree
  PROVE  /\ Restored.md = (worktree.md \ batch) \cup (before.md \cap batch)
         /\ Restored.fixme = (worktree.fixme \ batch) \cup (before.fixme \cap batch)
BY DEF Restored, Tree

\* git starts a rebase in every publish.
LEMMA PublishNeverRaises == ASSUME ConsistentInv, ~Stray PROVE ~PublishRaises
BY InvFacts DEF PublishRaises, CanRebase, LoopFacts, Steady

LEMMA StaysStep ==
  ASSUME ~Stray PROVE ConsistentInv /\ StaysInv /\ [Next]_vars => StaysInv'
<1> SUFFICES ASSUME ConsistentInv, StaysInv, [Next]_vars PROVE StaysInv'
  OBVIOUS
<1>0. /\ worktree \in Tree /\ head \in Tree /\ before \in Tree
      /\ FetchFacts /\ LoopFacts /\ BatchFacts
  BY InvFacts
<1>1. CASE Launch
  BY <1>1 DEF Launch, StaysInv, CommittedStays
<1>2. ASSUME NEW delivered \in SUBSET (Papers \ state.seen), Fetch(delivered)
      PROVE  StaysInv'
  BY <1>0, <1>2 DEF Fetch, FetchFacts, StaysInv, CommittedStays, trees
<1>3. CASE WriteInventory \/ SaveCursor \/ WriteIndex \/ SaveState
  <2>1. worktree'.md = worktree.md /\ worktree'.fixme = worktree.fixme
    BY <1>0, <1>3 DEF WriteInventory, SaveCursor, WriteIndex, SaveState, Tree
  <2>2. /\ UNCHANGED <<head, before>>
        /\ pc' \in {"cursor", "commit_inventory"} => pc \in {"inventory", "cursor"}
        /\ pc' \notin {"inventory", "rollback"}
    BY <1>3 DEF WriteInventory, SaveCursor, WriteIndex, SaveState
  <2> QED BY <2>1, <2>2 DEF StaysInv, CommittedStays
<1>4. CASE CommitInventory
  BY <1>4, InventoryCommit DEF CommitInventory, StaysInv, CommittedStays
<1>5. CASE CommitBatch
  BY <1>5, BatchCommit DEF CommitBatch, StaysInv, CommittedStays
<1>6. CASE Publish \/ FinalPush \/ PushRefused
  BY <1>6 DEF Publish, FinalPush, PushRefused, PushHead, Exit, StaysInv, CommittedStays
<1>7. ASSUME NEW succeeded, NEW marked, NEW drawn,
             worktree' = Promoted(succeeded, marked, drawn), UNCHANGED <<head, before>>,
             pc = "convert", pc' \in {"index", "rollback"}
      PROVE  StaysInv'
  BY <1>0, <1>7, PromotedFields DEF StaysInv, CommittedStays, LoopFacts
<1>8. ASSUME NEW outcome \in [batch -> Outcome], NEW drawn \in SUBSET batch,
             Convert(outcome, drawn)
      PROVE  StaysInv'
  BY <1>7, <1>8 DEF Convert
<1>9. ASSUME NEW succeeded \in SUBSET batch, NEW marked \in SUBSET batch,
             NEW drawn \in SUBSET batch, ConvertFails(succeeded, marked, drawn)
      PROVE  StaysInv'
  BY <1>7, <1>9 DEF ConvertFails
<1>10. CASE TransactionFails
  <2>1. before = head
    BY <1>0, <1>10 DEF TransactionFails, StaysInv, BatchFacts, Batched
  <2> QED BY <1>10, <2>1 DEF TransactionFails, StaysInv, CommittedStays, trees
<1>11. CASE RollBack
  <2>1. worktree' = Restored /\ before = head /\ UNCHANGED head /\ pc' = "finish"
    BY <1>11 DEF RollBack, StaysInv
  <2> QED BY <1>0, <2>1, RestoredFields DEF StaysInv, CommittedStays
<1>12. CASE DiscardChanges
  BY <1>12 DEF DiscardChanges, StaysInv, CommittedStays
<1>13. ASSUME UNCHANGED <<worktree, head>>,
              pc' \notin {"inventory", "cursor", "commit_inventory", "rollback"}
       PROVE  StaysInv'
  BY <1>13 DEF StaysInv, CommittedStays
<1>14. ASSUME UNCHANGED <<worktree, head, before, pc>> PROVE StaysInv'
  BY <1>14 DEF StaysInv, CommittedStays
<1>15. CASE StartBatch \/ EndLoop \/ RefuseDirty \/ Leave
  BY <1>13, <1>15 DEF StartBatch, EndLoop, RefuseDirty, Leave, Exit, trees
<1>16. CASE FetchFails \/ DeadlinePasses \/ PublishRefused \/ RollBackFails \/ GiveUpPush
            \/ CutOff
  BY <1>13, <1>16 DEF FetchFails, DeadlinePasses, PublishRefused, RollBackFails,
                     GiveUpPush, CutOff, Exit, trees
<1>17. ASSUME NEW p \in Papers, RemoveMarker(p) \/ Requeue(p) \/ DeleteMarkdown(p)
       PROVE  StaysInv'
  BY <1>14, <1>17 DEF RemoveMarker, Requeue, DeleteMarkdown, Reopen
<1>18. CASE UNCHANGED vars
  BY <1>14, <1>18 DEF vars, trees
<1> QED
  BY <1>1, <1>2, <1>3, <1>4, <1>5, <1>6, <1>8, <1>9, <1>10, <1>11, <1>12, <1>15, <1>16,
     <1>17, <1>18, PublishNeverRaises DEF Next, Run, Trouble

LEMMA StaysInit == Init => StaysInv
BY DEF Init, StaysInv, CommittedStays, EmptyTree

\* No rollback takes a markdown file or a marker of HEAD off the disk, where no file
\* outside the pipeline's is changed.
THEOREM NothingCommittedIsLost == ASSUME ~Stray PROVE Spec => []CommittedStays
<1>1. StaysInv => CommittedStays
  BY DEF StaysInv
<1>2. ConsistentInv /\ StaysInv /\ [Next]_vars => StaysInv'
  BY StaysStep
<1> QED
  BY <1>1, <1>2, ConsistentInvInit, ConsistentInvStep, StaysInit, PTL DEF Spec

-----------------------------------------------------------------------------
(***************************************************************************)
(* A failure is cleaned up, where besides no figures are left without      *)
(* their markdown (~Careless): then the papers of a batch have none.       *)
(***************************************************************************)
FiguresInv ==
  /\ head.figs \subseteq head.md /\ remote.figs \subseteq remote.md
  /\ \A p \in base.md : p \in head.figs <=> p \in base.figs

\* What a batch wrote is its own.
OwnFacts ==
  pc \in {"index", "save", "commit"} =>
    /\ batch \subseteq Pending(head.inv, head)
    /\ result.succeeded \cup result.promoted \subseteq batch

CleanInv ==
  /\ StaysInv /\ BaseKept /\ FiguresInv /\ OwnFacts
  /\ pc = "rollback" => Restored = head
  /\ FailedRunIsClean
  /\ DirtyOnlyAfterDeath

\* Figures come and go with their markdown, also in a rebase.
LEMMA FiguresRebased ==
  ASSUME base \in Tree, head \in Tree, remote \in Tree, BaseKept, FiguresInv, MainShrinks
  PROVE  LET new == Rebased(base, head, remote) IN
         /\ new.figs \subseteq new.md
         /\ \A p \in remote.md : p \in new.figs <=> p \in remote.figs
<1> DEFINE new == Rebased(base, head, remote)
<1>1. /\ new.md = Replay(base.md, head.md, remote.md)
      /\ new.figs = Replay(base.figs, head.figs, remote.figs)
  BY RebasedMarkdown
<1>2. remote.md \subseteq Papers /\ remote.figs \subseteq Papers /\ head.figs \subseteq Papers
  BY DEF Tree
<1> HIDE DEF new
<1>3. ASSUME NEW p \in new.figs PROVE p \in new.md
  <2>1. CASE (p \in base.figs) = (p \in head.figs)
    <3>1. p \in Papers /\ p \in remote.figs
      BY <1>1, <1>3, <2>1 DEF Replay
    <3>2. p \in remote.md /\ p \in base.md /\ p \in head.md
      BY <3>1 DEF FiguresInv, MainShrinks, BaseKept
    <3> QED BY <1>1, <3>1, <3>2 DEF Replay
  <2>2. CASE (p \in base.figs) # (p \in head.figs)
    <3>1. p \in Papers /\ p \in head.figs /\ p \notin base.figs
      BY <1>1, <1>3, <2>2 DEF Replay
    <3>2. p \in head.md /\ p \notin base.md
      BY <3>1 DEF FiguresInv
    <3> QED BY <1>1, <3>1, <3>2 DEF Replay
  <2> QED BY <2>1, <2>2
<1>4. ASSUME NEW p \in remote.md PROVE p \in new.figs <=> p \in remote.figs
  <2>1. p \in Papers /\ (p \in head.figs <=> p \in base.figs)
    BY <1>2 DEF FiguresInv, MainShrinks
  <2> QED BY <1>1, <2>1 DEF Replay
<1> QED BY <1>3, <1>4 DEF new

LEMMA FiguresStep ==
  ASSUME ~Careless
  PROVE  ConsistentInv /\ BaseKept /\ FiguresInv /\ OwnFacts /\ [Next]_vars => FiguresInv'
<1> SUFFICES ASSUME ConsistentInv, BaseKept, FiguresInv, OwnFacts, [Next]_vars
             PROVE  FiguresInv'
  OBVIOUS
<1>0. /\ worktree \in Tree /\ head \in Tree /\ base \in Tree /\ remote \in Tree
      /\ MainShrinks /\ BatchFacts
  BY InvFacts
<1>1. CASE Launch
  BY <1>1 DEF Launch, FiguresInv
<1>2. CASE CommitInventory
  BY <1>2, InventoryCommit DEF CommitInventory, FiguresInv
<1>3. CASE CommitBatch
  <2>1. /\ head' = worktree /\ UNCHANGED <<remote, base>>
        /\ worktree.md = head.md \cup result.succeeded
        /\ worktree.figs \ result.succeeded = head.figs \ result.succeeded
        /\ result.succeeded \cap head.md = {}
    BY <1>3, BatchCommit DEF CommitBatch, Batched, Pending
  <2>2. \A p \in base.md : p \notin result.succeeded
    BY <2>1 DEF BaseKept
  <2> QED BY <2>1, <2>2 DEF FiguresInv
<1>4. CASE Publish \/ FinalPush
  BY <1>0, <1>4, FiguresRebased DEF Publish, FinalPush, PushHead, FiguresInv
<1>5. CASE PushRefused
  BY <1>0, <1>5, FiguresRebased DEF PushRefused, FiguresInv
<1>6. ASSUME NEW p \in Papers, RemoveMarker(p) PROVE FiguresInv'
  BY <1>0, <1>6 DEF RemoveMarker, Reopen, Tree, FiguresInv
<1>7. ASSUME NEW p \in Papers, Requeue(p) PROVE FiguresInv'
  <2>1. /\ UNCHANGED <<head, base>>
        /\ remote' = [remote EXCEPT !.md = @ \ {p}, !.figs = @ \ {p}]
    BY <1>7 DEF Requeue, Reopen
  <2>2. remote'.md = remote.md \ {p} /\ remote'.figs = remote.figs \ {p}
    BY <1>0, <2>1 DEF Tree
  <2> QED BY <2>1, <2>2 DEF FiguresInv
<1>8. ASSUME NEW p \in Papers, DeleteMarkdown(p) PROVE FALSE
  BY <1>8 DEF DeleteMarkdown
<1>9. CASE UNCHANGED <<head, base, remote>>
  BY <1>9 DEF FiguresInv
<1> QED
  BY <1>1, <1>2, <1>3, <1>4, <1>5, <1>6, <1>7, <1>8, <1>9
  DEF Next, Run, Trouble, vars, trees, Fetch, WriteInventory, SaveCursor,
      StartBatch, EndLoop, Convert, WriteIndex, SaveState, PublishRaises, RollBack,
      RefuseDirty, Leave, FetchFails, DeadlinePasses, ConvertFails, PublishRefused,
      TransactionFails, RollBackFails, GiveUpPush, CutOff, DiscardChanges

LEMMA OwnFactsStep == ConsistentInv /\ OwnFacts /\ [Next]_vars => OwnFacts'
<1> SUFFICES ASSUME ConsistentInv, OwnFacts, [Next]_vars,
                    pc' \in {"index", "save", "commit"}
             PROVE  OwnFacts'
  BY DEF OwnFacts
<1>1. ASSUME NEW outcome \in [batch -> Outcome], NEW drawn \in SUBSET batch,
             Convert(outcome, drawn)
      PROVE  OwnFacts'
  <2>1. /\ batch \subseteq Pending(head.inv, head) /\ UNCHANGED <<head, batch>>
        /\ result'.succeeded = Ended(outcome, "succeeded")
        /\ result'.promoted = Third(outcome)
    BY <1>1, InvFacts DEF Convert, LoopFacts
  <2> QED BY <2>1 DEF OwnFacts, Ended, Third, Pending
<1>2. ASSUME UNCHANGED <<head, batch, result>>, pc \in {"index", "save", "commit"}
      PROVE  OwnFacts'
  BY <1>2 DEF OwnFacts, Pending
<1>3. CASE WriteIndex \/ SaveState
  BY <1>2, <1>3 DEF WriteIndex, SaveState, loop
<1>4. CASE Untouched
  BY <1>2, <1>4 DEF Untouched
<1>5. CASE UNCHANGED vars
  BY <1>4, <1>5 DEF Untouched, vars, trees, loop, history
<1> QED
  BY <1>1, <1>3, <1>4, <1>5, EditUntouched
  DEF Next, Run, Trouble, Launch, Fetch, WriteInventory, SaveCursor, CommitInventory,
      StartBatch, EndLoop, CommitBatch, Publish, PublishRaises, RollBack, RefuseDirty,
      FinalPush, Leave, Exit, FetchFails, DeadlinePasses, ConvertFails, PushRefused,
      PublishRefused, TransactionFails, RollBackFails, GiveUpPush, CutOff, DiscardChanges

\* When a rollback makes the worktree HEAD.
LEMMA RestoredIsHead ==
  ASSUME head \in Tree, worktree \in Tree, before = head,
         worktree.md \ batch = head.md \ batch,
         worktree.fixme \ batch = head.fixme \ batch,
         worktree.figs \ (batch \ head.figs) = head.figs
  PROVE  Restored = head
<1>1. /\ (worktree.md \ batch) \cup (before.md \cap batch) = head.md
      /\ (worktree.fixme \ batch) \cup (before.fixme \cap batch) = head.fixme
      /\ worktree.figs \ (batch \ before.figs) = head.figs
  OBVIOUS
<1>2. Restored = [head EXCEPT !.md = head.md, !.fixme = head.fixme, !.figs = head.figs]
  BY <1>1, Zenon DEF Restored
<1> QED BY <1>2 DEF Tree

\* Every rollback that begins will make the worktree HEAD.
LEMMA RollbackStep ==
  ASSUME ~Stray
  PROVE  ConsistentInv /\ CleanInv /\ [Next]_vars =>
           (pc' = "rollback" => Restored' = head')
<1> SUFFICES ASSUME ConsistentInv, CleanInv, [Next]_vars, pc' = "rollback"
             PROVE  Restored' = head'
  OBVIOUS
<1>0. /\ worktree \in Tree /\ head \in Tree /\ FetchFacts /\ LoopFacts /\ BatchFacts
      /\ StaysInv /\ FiguresInv /\ OwnFacts
  BY InvFacts DEF CleanInv
<1>1. CASE TransactionFails
  <2>1. UNCHANGED <<worktree, head, before, batch>> /\ pc # "rollback"
    BY <1>1 DEF TransactionFails, trees, loop
  <2>2. Restored' = Restored
    BY <2>1 DEF Restored
  <2>3. CASE pc \in {"inventory", "cursor", "commit_inventory"}
    <3>1. /\ before = head /\ worktree.md = head.md /\ worktree.fixme = head.fixme
          /\ worktree.figs = head.figs
      BY <1>0, <2>3 DEF FetchFacts, StaysInv, Tree
    <3> QED BY <1>0, <2>1, <2>2, <3>1, RestoredIsHead
  <2>4. CASE pc \in {"index", "save", "commit"}
    <3>1. /\ before = head
          /\ worktree.md = head.md \cup result.succeeded
          /\ worktree.fixme = head.fixme \cup result.promoted
          /\ worktree.figs \ result.succeeded = head.figs \ result.succeeded
      BY <1>0, <2>4 DEF BatchFacts, Batched
    <3>2. /\ result.succeeded \subseteq batch /\ result.promoted \subseteq batch
          /\ batch \cap head.figs = {}
      BY <1>0, <2>4 DEF OwnFacts, FiguresInv, Pending
    <3> QED BY <1>0, <2>1, <2>2, <3>1, <3>2, RestoredIsHead
  <2> QED BY <1>1, <2>3, <2>4 DEF TransactionFails
<1>2. ASSUME NEW succeeded \in SUBSET batch, NEW marked \in SUBSET batch,
             NEW drawn \in SUBSET batch, ConvertFails(succeeded, marked, drawn)
      PROVE  Restored' = head'
  <2>1. /\ worktree = head /\ before = head /\ batch \subseteq Pending(head.inv, head)
        /\ worktree' = Promoted(succeeded, marked, drawn) /\ drawn \subseteq succeeded
        /\ UNCHANGED <<head, before, batch>>
    BY <1>0, <1>2 DEF ConvertFails, LoopFacts, Steady, loop
  <2>2. /\ worktree'.md = head.md \cup succeeded
        /\ worktree'.fixme = head.fixme \cup marked
        /\ worktree'.figs = (head.figs \ succeeded) \cup drawn
    BY <1>0, <2>1, PromotedFields
  <2>3. batch \cap head.figs = {}
    BY <1>0, <2>1 DEF FiguresInv, Pending
  <2>4. /\ (worktree'.md \ batch) \cup (before.md \cap batch) = head.md
        /\ (worktree'.fixme \ batch) \cup (before.fixme \cap batch) = head.fixme
        /\ worktree'.figs \ (batch \ before.figs) = head.figs
    BY <2>1, <2>2, <2>3
  <2>5. Restored' = [before EXCEPT
          !.md    = (worktree'.md \ batch) \cup (before.md \cap batch),
          !.fixme = (worktree'.fixme \ batch) \cup (before.fixme \cap batch),
          !.figs  = worktree'.figs \ (batch \ before.figs)]
    BY <2>1, Zenon DEF Restored
  <2>6. Restored' = [head EXCEPT !.md = head.md, !.fixme = head.fixme, !.figs = head.figs]
    BY <2>1, <2>4, <2>5, Zenon
  <2>7. Restored' = head
    BY <1>0, <2>6 DEF Tree
  <2> QED BY <2>1, <2>7
<1>3. ASSUME UNCHANGED <<worktree, head, before, batch, pc>> PROVE Restored' = head'
  BY <1>3 DEF Restored, CleanInv
<1>4. ASSUME NEW p \in Papers, RemoveMarker(p) \/ Requeue(p) \/ DeleteMarkdown(p)
      PROVE  Restored' = head'
  BY <1>3, <1>4 DEF RemoveMarker, Requeue, DeleteMarkdown, Reopen, loop
<1>5. CASE UNCHANGED vars
  BY <1>3, <1>5 DEF vars, trees, loop
<1> QED
  BY <1>1, <1>2, <1>4, <1>5, PublishNeverRaises
  DEF Next, Run, Trouble, Launch, Fetch, WriteInventory, SaveCursor, CommitInventory,
      StartBatch, EndLoop, Convert, WriteIndex, SaveState, CommitBatch, Publish, RollBack,
      RefuseDirty, FinalPush, Leave, Exit, FetchFails, DeadlinePasses, PushRefused,
      PublishRefused, RollBackFails, GiveUpPush, CutOff, DiscardChanges

\* A run that ends by itself, or by a failure that it cleans up, leaves HEAD.
LEMMA CleanAtEnd == ConsistentInv /\ CleanInv /\ [Next]_vars => FailedRunIsClean'
<1> SUFFICES ASSUME ConsistentInv, CleanInv, [Next]_vars,
                    pc' = "finish", status' \in {"ok", "failed"}
             PROVE  worktree' = head'
  BY DEF FailedRunIsClean
<1>0. FetchFacts /\ LoopFacts
  BY InvFacts
<1>1. CASE Launch
  BY <1>1 DEF Launch
<1>2. CASE FetchFails
  BY <1>0, <1>2 DEF FetchFails, FetchFacts, trees
<1>3. CASE EndLoop
  BY <1>0, <1>3 DEF EndLoop, LoopFacts, Steady, trees
<1>4. CASE RollBack
  BY <1>4 DEF RollBack, CleanInv
<1>5. ASSUME UNCHANGED <<worktree, head, pc, status>> PROVE worktree' = head'
  BY <1>5 DEF CleanInv, FailedRunIsClean
<1>6. ASSUME NEW p \in Papers, RemoveMarker(p) \/ Requeue(p) \/ DeleteMarkdown(p)
      PROVE  worktree' = head'
  BY <1>5, <1>6 DEF RemoveMarker, Requeue, DeleteMarkdown, Reopen
<1>7. CASE UNCHANGED vars
  BY <1>5, <1>7 DEF vars, trees
<1> QED
  BY <1>1, <1>2, <1>3, <1>4, <1>6, <1>7
  DEF Next, Run, Trouble, Fetch, WriteInventory, SaveCursor, CommitInventory,
      StartBatch, Convert, WriteIndex, SaveState, CommitBatch, Publish, PublishRaises,
      RefuseDirty, FinalPush, Leave, Exit, DeadlinePasses, ConvertFails, PushRefused,
      PublishRefused, TransactionFails, RollBackFails, GiveUpPush, CutOff, DiscardChanges

\* A clone is dirty between runs only after a death, or a rollback that failed.
LEMMA DirtyStep ==
  ASSUME ~Stray PROVE ConsistentInv /\ CleanInv /\ [Next]_vars => DirtyOnlyAfterDeath'
<1> SUFFICES ASSUME ConsistentInv, CleanInv, [Next]_vars, pc' = "idle", worktree' # head'
             PROVE  status' \in {"cut", "spoiled", "refused"}
  BY DEF DirtyOnlyAfterDeath
<1>0. status \in {"ok", "failed", "refused", "spoiled", "cut"}
  BY DEF ConsistentInv, TypeInv, TypeOK, ControlOK
<1>1. CASE RefuseDirty \/ Leave \/ GiveUpPush
  <2>1. pc = "finish" /\ UNCHANGED <<worktree, head, status>>
    BY <1>1 DEF RefuseDirty, Leave, GiveUpPush, trees
  <2> QED BY <1>0, <2>1 DEF CleanInv, FailedRunIsClean
<1>2. CASE FinalPush
  BY <1>2 DEF FinalPush, PushHead
<1>3. CASE CutOff
  BY <1>3 DEF CutOff
<1>4. CASE DiscardChanges
  BY <1>4 DEF DiscardChanges
<1>5. ASSUME UNCHANGED <<worktree, head, pc, status>>
      PROVE  status' \in {"cut", "spoiled", "refused"}
  BY <1>5 DEF CleanInv, DirtyOnlyAfterDeath
<1>6. ASSUME NEW p \in Papers, RemoveMarker(p) \/ Requeue(p) \/ DeleteMarkdown(p)
      PROVE  status' \in {"cut", "spoiled", "refused"}
  BY <1>5, <1>6 DEF RemoveMarker, Requeue, DeleteMarkdown, Reopen
<1>7. CASE UNCHANGED vars
  BY <1>5, <1>7 DEF vars, trees
<1> QED
  BY <1>1, <1>2, <1>3, <1>4, <1>6, <1>7
  DEF Next, Run, Trouble, Launch, Fetch, WriteInventory, SaveCursor, CommitInventory,
      StartBatch, EndLoop, Convert, WriteIndex, SaveState, CommitBatch, Publish,
      PublishRaises, RollBack, FetchFails, DeadlinePasses, ConvertFails, PushRefused,
      PublishRefused, TransactionFails, RollBackFails

LEMMA CleanStep ==
  ASSUME ~Stray, ~Careless
  PROVE  ConsistentInv /\ CleanInv /\ [Next]_vars => CleanInv'
BY StaysStep, BaseKeptStep, FiguresStep, OwnFactsStep, RollbackStep, CleanAtEnd, DirtyStep
   DEF CleanInv

LEMMA CleanInit == Init => CleanInv
BY StaysInit DEF Init, CleanInv, BaseKept, FiguresInv, OwnFacts, FailedRunIsClean,
                 DirtyOnlyAfterDeath, EmptyTree

\* A run that fails leaves the worktree as its last commit has it, whatever fails in
\* whatever transaction, where no file outside the pipeline's is changed and no figures
\* are left without their markdown.
THEOREM FailuresAreCleanedUp ==
  ASSUME ~Stray, ~Careless PROVE Spec => []FailedRunIsClean
<1>1. CleanInv => FailedRunIsClean
  BY DEF CleanInv
<1>2. ConsistentInv /\ CleanInv /\ [Next]_vars => CleanInv'
  BY CleanStep
<1> QED
  BY <1>1, <1>2, ConsistentInvInit, ConsistentInvStep, CleanInit, PTL DEF Spec

\* Under the same conditions, no run leaves a clone dirty unless it dies in it or its
\* rollback fails.
THEOREM OnlyDeathLeavesDirt ==
  ASSUME ~Stray, ~Careless PROVE Spec => []DirtyOnlyAfterDeath
<1>1. CleanInv => DirtyOnlyAfterDeath
  BY DEF CleanInv
<1>2. ConsistentInv /\ CleanInv /\ [Next]_vars => CleanInv'
  BY CleanStep
<1> QED
  BY <1>1, <1>2, ConsistentInvInit, ConsistentInvStep, CleanInit, PTL DEF Spec

-----------------------------------------------------------------------------
(***************************************************************************)
(* Dispatch.  What a run converted is in its commits or already on main.   *)
(***************************************************************************)
Gains == gained \cup (head.md \ base.md)

GainInv ==
  /\ BaseKept
  /\ pc \in {"idle", "fetch", "inventory", "cursor", "commit_inventory"} => ~converted
  /\ pc = "rollback" => status # "ok"
  /\ converted =>
       /\ pc \in {"loop", "convert", "publish"} => Gains # {}
       /\ pc = "finish" /\ status = "ok" => Gains # {}
       /\ pc \in {"index", "save", "commit"} => Gains # {} \/ result.succeeded # {}

\* Unpushed markdown stays unpushed in a rebase, since main has nothing new.
LEMMA RebaseKeepsGains ==
  ASSUME ConsistentInv, BaseKept
  PROVE  head.md \ base.md \subseteq Rebased(base, head, remote).md \ remote.md
<1>1. /\ base \in Tree /\ head \in Tree /\ remote \in Tree /\ MainShrinks
  BY InvFacts
<1>2. Rebased(base, head, remote).md = Replay(base.md, head.md, remote.md)
  BY <1>1, RebasedMarkdown
<1>3. head.md \subseteq Papers
  BY <1>1 DEF Tree
<1> QED BY <1>1, <1>2, <1>3 DEF Replay, MainShrinks

LEMMA GainStep == ConsistentInv /\ GainInv /\ [Next]_vars => GainInv'
<1> SUFFICES ASSUME ConsistentInv, GainInv, [Next]_vars PROVE GainInv'
  OBVIOUS
<1> DEFINE Early == {"idle", "fetch", "inventory", "cursor", "commit_inventory"}
<1>0. BaseKept /\ BaseKept'
  BY BaseKeptStep DEF GainInv
<1>1. CASE Launch
  BY <1>0, <1>1 DEF Launch, GainInv, loop
<1>2. ASSUME NEW delivered, Fetch(delivered) PROVE GainInv'
  BY <1>0, <1>2 DEF Fetch, GainInv, trees, loop, history
<1>3. CASE CommitInventory
  BY <1>0, <1>3 DEF CommitInventory, GainInv, loop, history
<1>4. ASSUME NEW outcome, NEW drawn, Convert(outcome, drawn) PROVE GainInv'
  <2>1. /\ pc = "convert" /\ pc' = "index"
        /\ converted' = (converted \/ Ended(outcome, "succeeded") # {})
        /\ result'.succeeded = Ended(outcome, "succeeded")
        /\ UNCHANGED <<head, base, gained>>
    BY <1>4 DEF Convert
  <2> QED BY <1>0, <2>1 DEF GainInv, Gains
<1>5. CASE CommitBatch
  <2>1. /\ pc = "commit" /\ pc' \in {"loop", "publish"}
        /\ UNCHANGED <<base, gained, converted, result>>
    BY <1>5 DEF CommitBatch, loop
  <2>2. /\ head'.md = head.md \cup result.succeeded
        /\ result.succeeded \cap head.md = {}
    BY <1>5, BatchCommit DEF Batched, Pending
  <2>3. result.succeeded # {} => Gains' # {}
    BY <1>0, <2>1, <2>2 DEF Gains, BaseKept
  <2>4. Gains # {} => Gains' # {}
    BY <2>1, <2>2 DEF Gains
  <2> QED BY <1>0, <2>1, <2>3, <2>4 DEF GainInv
<1>6. CASE Publish
  <2>1. gained' = gained \cup (head.md \ base.md)
    BY <1>6 DEF Publish
  <2>2. Gains # {} => Gains' # {}
    BY <2>1 DEF Gains
  <2> QED BY <1>0, <1>6, <2>2 DEF Publish, GainInv, loop
<1>7. CASE PushRefused
  <2>1. /\ head' = Rebased(base, head, remote) /\ base' = remote
        /\ UNCHANGED gained
    BY <1>7 DEF PushRefused, history
  <2>2. Gains # {} => Gains' # {}
    BY <1>0, <2>1, RebaseKeepsGains DEF Gains
  <2> QED BY <1>0, <1>7, <2>2 DEF PushRefused, GainInv, loop
<1>8. ASSUME pc' = "idle", ~converted' PROVE GainInv'
  BY <1>0, <1>8 DEF GainInv
<1>9. ASSUME UNCHANGED <<head, base, gained, converted, result, status>>,
             pc' \notin Early \/ pc \in Early,
             pc' \in {"loop", "convert", "publish"} =>
               pc \in {"loop", "convert", "publish"} \/ pc \in Early,
             pc' = "finish" => pc \in {"loop", "finish", "rollback"},
             pc' \in {"index", "save", "commit"} => pc \in {"index", "save", "commit"},
             pc' = "rollback" => pc = "rollback"
      PROVE  GainInv'
  BY <1>0, <1>9 DEF GainInv, Gains
<1>10. ASSUME UNCHANGED converted, pc' \in {"rollback", "finish"}, status' # "ok"
       PROVE  GainInv'
  BY <1>0, <1>10 DEF GainInv
<1>11. CASE StartBatch
  BY <1>0, <1>11 DEF StartBatch, GainInv, Gains, trees, history
<1>12. CASE UNCHANGED vars
  BY <1>12, <1>9 DEF vars, trees, loop, history
<1>13. ASSUME Trouble PROVE GainInv'
  <2>1. CASE FetchFails \/ TransactionFails \/ RollBackFails
    BY <2>1, <1>10 DEF FetchFails, TransactionFails, RollBackFails, loop
  <2>2. ASSUME NEW succeeded, NEW marked, NEW drawn,
               ConvertFails(succeeded, marked, drawn)
        PROVE  GainInv'
    BY <2>2, <1>10 DEF ConvertFails, loop
  <2>3. CASE DeadlinePasses \/ PublishRefused
    BY <2>3, <1>9 DEF DeadlinePasses, PublishRefused, trees, loop, history
  <2>4. CASE GiveUpPush \/ CutOff
    BY <2>4, <1>8 DEF GiveUpPush, CutOff, Exit
  <2>5. ASSUME NEW p \in Papers, RemoveMarker(p) \/ Requeue(p) \/ DeleteMarkdown(p)
        PROVE  GainInv'
    BY <2>5, <1>9 DEF RemoveMarker, Requeue, DeleteMarkdown, Reopen, loop
  <2> QED BY <1>13, <1>7, <2>1, <2>2, <2>3, <2>4, <2>5 DEF Trouble
<1>14. CASE WriteInventory \/ SaveCursor \/ EndLoop \/ WriteIndex \/ SaveState \/ RollBack
  BY <1>14, <1>9 DEF WriteInventory, SaveCursor, EndLoop, WriteIndex, SaveState, RollBack,
                     trees, loop, history
<1>15. CASE PublishRaises
  BY <1>15, <1>10 DEF PublishRaises, loop
<1>16. CASE RefuseDirty \/ FinalPush \/ Leave
  BY <1>16, <1>8 DEF RefuseDirty, FinalPush, Leave, Exit
<1>17. CASE DiscardChanges
  BY <1>17, <1>9 DEF DiscardChanges, loop, history
<1> QED
  BY <1>1, <1>2, <1>3, <1>4, <1>5, <1>6, <1>11, <1>12, <1>13, <1>14, <1>15, <1>16, <1>17
  DEF Next, Run

\* A run that dispatches another has put markdown on main or moved a cursor there,
\* whatever papers, costs and mishaps: the chain of runs never goes on without progress.
THEOREM ProgressBeforeDispatch == Spec => DispatchFollowsProgress
<1> DEFINE Progress == pc = "finish" /\ chained' /\ pc' = "idle" =>
             remote'.seen # checkout.seen \/ gained # {} \/ head.md \ base.md # {}
<1>1. Init => GainInv
  BY DEF Init, GainInv, BaseKept, EmptyTree
<1>2. ConsistentInv /\ GainInv /\ [Next]_vars => [Progress]_vars
  <2> SUFFICES ASSUME ConsistentInv, GainInv, Next, pc = "finish", chained', pc' = "idle"
               PROVE  remote'.seen # checkout.seen \/ gained # {} \/ head.md \ base.md # {}
    BY DEF vars
  <2>1. FinalPush
    BY DEF Next, Run, Trouble, Launch, Fetch, WriteInventory, SaveCursor,
       CommitInventory, StartBatch, EndLoop, Convert, WriteIndex, SaveState, CommitBatch,
       Publish, PublishRaises, RollBack, RefuseDirty, Leave, FetchFails, DeadlinePasses,
       ConvertFails, PushRefused, PublishRefused, TransactionFails, RollBackFails,
       GiveUpPush, CutOff, RemoveMarker, Requeue, DeleteMarkdown, Reopen, DiscardChanges
  <2>2. /\ status = "ok" /\ worktree = head /\ remote' = Rebased(base, head, remote)
        /\ worktree.seen # checkout.seen \/ converted
    BY <2>1 DEF FinalPush, MoreWork, CanRebase, PushHead
  <2>3. remote'.seen = head.seen
    BY <2>2, InvFacts, RebasedFields DEF MainShrinks
  <2> QED BY <2>2, <2>3 DEF GainInv, Gains
<1> QED
  BY <1>1, <1>2, ConsistentInvInit, ConsistentInvStep, GainStep, PTL
  DEF Spec, DispatchFollowsProgress

=============================================================================
