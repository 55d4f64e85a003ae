--------------------------- MODULE NightlyProofs ---------------------------
(***************************************************************************)
(* Proofs about Nightly: its types, and that every commit, local or        *)
(* pushed, is consistent, for any set of papers and any number of mishaps. *)
(***************************************************************************)
EXTENDS Nightly, TLAPS

\* A batch is chosen from its candidates.
LEMMA SelectBatchSubset ==
  ASSUME NEW papers
  PROVE  SelectBatch(papers) \subseteq papers
BY DEF SelectBatch

\* The next batch consists of papers that are pending in the worktree.
LEMMA NextBatchPending == NextBatch \subseteq Pending(inventory, worktree)
<1>1. NextBatch \subseteq IF Untried # {} THEN Untried
                          ELSE Pending(inventory, worktree) \cap needsPdf
  BY SelectBatchSubset DEF NextBatch
<1>2. QED
  BY <1>1 DEF Untried

\* A rebase yields a tree.
LEMMA RebasedType ==
  ASSUME NEW from \in Tree, NEW ours \in Tree, NEW theirs \in Tree
  PROVE  Rebased(from, ours, theirs) \in Tree
BY DEF Rebased, Replay, Tree

LEMMA EmptyTreeType == EmptyTree \in Tree
BY DEF EmptyTree, Tree

LEMMA StateFileType ==
  ASSUME NEW tree \in Tree
  PROVE  StateFile(tree) \in [seen : SUBSET Papers, strikes : [Papers -> 0..2]]
BY DEF StateFile, Tree

LEMMA InitType == Init => TypeOK
<1> SUFFICES ASSUME Init PROVE TypeOK
  OBVIOUS
<1>0. MaxBatches \in Nat /\ MaxMishaps \in Nat
  BY NightlyAssumption
<1>1. TreesOK
  BY EmptyTreeType DEF Init, TreesOK
<1>2. ControlOK
  BY Zenon DEF Init, ControlOK, Phase
<1>3. MemoryOK
  BY <1>0, EmptyTreeType, StateFileType DEF Init, MemoryOK, NoResult
<1>4. HistoryOK
  BY <1>0 DEF Init, HistoryOK
<1> QED
  BY <1>1, <1>2, <1>3, <1>4 DEF TypeOK

LEMMA ExitType ==
  ASSUME Exit
  PROVE  MemoryOK' /\ pc' = "idle" /\ late' \in BOOLEAN /\ fast' \in BOOLEAN
         /\ converted' \in BOOLEAN /\ before' \in Tree /\ checkout' \in Tree
         /\ gained' \in SUBSET Papers
<1>0. MaxBatches \in Nat
  BY NightlyAssumption
<1>1. MemoryOK'
  BY <1>0, EmptyTreeType, StateFileType DEF Exit, MemoryOK, NoResult
<1>2. late' \in BOOLEAN /\ fast' \in BOOLEAN /\ converted' \in BOOLEAN
  BY Zenon DEF Exit
<1> QED
  BY <1>1, <1>2, EmptyTreeType DEF Exit

\* One mishap less is still within the bound.
LEMMA MishapType ==
  ASSUME mishaps \in 0..MaxMishaps, Mishap
  PROVE  mishaps' \in 0..MaxMishaps
BY NightlyAssumption DEF Mishap

\* A tree stays one when a batch is promoted into it.
LEMMA PromotedType ==
  ASSUME worktree \in Tree, NEW succeeded \in SUBSET Papers, NEW marked \in SUBSET Papers,
         NEW drawn \in SUBSET Papers
  PROVE  Promoted(succeeded, marked, drawn) \in Tree
BY DEF Promoted, Tree

\* What a batch commits is a tree.
LEMMA CommittedType ==
  ASSUME worktree \in Tree, head \in Tree, MemoryOK
  PROVE  Committed \in Tree
<1> DEFINE md      == head.md \cup result.succeeded
           fixme   == head.fixme \cup result.promoted
           figs    == (head.figs \ result.succeeded)
                        \cup (worktree.figs \cap result.succeeded)
           listed  == IF IndexChanged THEN worktree.listed ELSE head.listed
           linked  == IF IndexChanged THEN worktree.linked ELSE head.linked
           seen    == IF result.changed THEN worktree.seen ELSE head.seen
           strikes == IF result.changed THEN worktree.strikes ELSE head.strikes
<1>1. md \in SUBSET Papers /\ fixme \in SUBSET Papers /\ figs \in SUBSET Papers
  BY DEF Tree, MemoryOK
<1>2. listed \in SUBSET Papers /\ linked \in SUBSET Papers
  BY DEF Tree
<1>3. seen \in SUBSET Papers /\ strikes \in [Papers -> 0..2]
  BY DEF Tree
<1>4. Committed = [head EXCEPT !.md = md, !.fixme = fixme, !.figs = figs,
                     !.listed = listed, !.linked = linked, !.seen = seen,
                     !.strikes = strikes]
  BY Zenon DEF Committed
<1> HIDE DEF md, fixme, figs, listed, linked, seen, strikes
<1> QED
  BY <1>1, <1>2, <1>3, <1>4 DEF Tree

\* Every copy of the corpus stays a tree.
LEMMA TreesStep == TypeOK /\ [Next]_vars => TreesOK'
<1> SUFFICES ASSUME TypeOK, [Next]_vars PROVE TreesOK'
  OBVIOUS
<1> USE DEF TypeOK, TreesOK
<1>1. CASE Launch
  BY <1>1 DEF Launch, trees, loop, history
<1>2. ASSUME NEW delivered \in SUBSET (Papers \ state.seen),
            Fetch(delivered)
     PROVE  TreesOK'
  BY <1>2 DEF Fetch, trees, loop, history
<1>3. CASE StartBatch
  BY <1>3 DEF StartBatch, trees, loop, history
<1>4. CASE DiscardChanges
  BY <1>4 DEF DiscardChanges, trees, loop, history
<1>5. CASE WriteInventory
  BY <1>5 DEF WriteInventory, Tree, MemoryOK, trees, loop, history
<1>6. CASE SaveCursor
  BY <1>6 DEF SaveCursor, Tree, MemoryOK, trees, loop, history
<1>7. CASE CommitInventory
  BY <1>7 DEF CommitInventory, Tree, MemoryOK, trees, loop, history
<1>8. CASE WriteIndex
  BY <1>8 DEF WriteIndex, Tree, MemoryOK, trees, loop, history
<1>9. CASE SaveState
  BY <1>9 DEF SaveState, Tree, MemoryOK, trees, loop, history
<1>10. CASE CommitBatch
  BY <1>10, CommittedType DEF CommitBatch, history
<1>11. ASSUME NEW outcome \in [batch -> Outcome], NEW drawn \in SUBSET batch,
            Convert(outcome, drawn)
     PROVE  TreesOK'
  <2>1. batch \subseteq Papers
    BY DEF MemoryOK
  <2>2. /\ Ended(outcome, "succeeded") \subseteq Papers /\ Third(outcome) \subseteq Papers
        /\ drawn \subseteq Papers
    BY <2>1 DEF Ended, Third
  <2>3. /\ worktree' = Promoted(Ended(outcome, "succeeded"), Third(outcome), drawn)
        /\ UNCHANGED <<head, remote, base, before, checkout>>
    BY <1>11, Zenon DEF Convert
  <2> QED BY <2>2, <2>3, PromotedType
<1>12. ASSUME NEW succeeded \in SUBSET batch, NEW marked \in SUBSET batch,
            NEW drawn \in SUBSET batch,
            ConvertFails(succeeded, marked, drawn)
     PROVE  TreesOK'
  <2>1. succeeded \subseteq Papers /\ marked \subseteq Papers /\ drawn \subseteq Papers
    BY DEF MemoryOK
  <2>2. /\ worktree' = Promoted(succeeded, marked, drawn)
        /\ UNCHANGED <<head, remote, base, before, checkout>>
    BY <1>12 DEF ConvertFails, loop, history
  <2> QED BY <2>1, <2>2, PromotedType
<1>13. CASE Publish
  BY <1>13, RebasedType DEF Publish, PushHead, loop, history
<1>14. CASE PushRefused
  BY <1>14, RebasedType DEF PushRefused, PushHead, loop, history
<1>15. CASE RollBack
  BY <1>15 DEF RollBack, Restored, Tree, MemoryOK, loop, history
<1>16. CASE RefuseDirty
  BY <1>16, ExitType DEF RefuseDirty, trees
<1>17. CASE GiveUpPush
  BY <1>17, ExitType DEF GiveUpPush, trees
<1>18. CASE Leave
  BY <1>18, ExitType DEF Leave, trees
<1>19. CASE CutOff
  BY <1>19, ExitType DEF CutOff, trees
<1>20. CASE FinalPush
  BY <1>20, ExitType, RebasedType DEF FinalPush, PushHead
<1>21. ASSUME NEW p \in Papers,
            RemoveMarker(p)
     PROVE  TreesOK'
  BY <1>21 DEF RemoveMarker, Reopen, Tree
<1>22. ASSUME NEW p \in Papers,
            Requeue(p)
     PROVE  TreesOK'
  BY <1>22 DEF Requeue, Reopen, Tree
<1>23. ASSUME NEW p \in Papers,
            DeleteMarkdown(p)
     PROVE  TreesOK'
  BY <1>23 DEF DeleteMarkdown, Reopen, Tree
<1>24. CASE UNCHANGED <<trees, before, checkout>>
  BY <1>24 DEF trees, loop, history
<1> QED
  BY <1>1, <1>2, <1>3, <1>4, <1>5, <1>6, <1>7, <1>8, <1>9, <1>10, <1>11,
     <1>12, <1>13, <1>14, <1>15, <1>16, <1>17, <1>18, <1>19, <1>20, <1>21,
     <1>22, <1>23, <1>24
  DEF Next, Run, Trouble, vars, trees, loop, history,
      FetchFails, EndLoop, DeadlinePasses, PublishRefused, PublishRaises,
      TransactionFails, RollBackFails

\* The run is always at a phase and ends in a known way.
LEMMA ControlStep == TypeOK /\ [Next]_vars => ControlOK'
<1> SUFFICES ASSUME TypeOK, [Next]_vars PROVE ControlOK'
  OBVIOUS
<1> USE DEF TypeOK, ControlOK, Phase
<1>1. CASE RefuseDirty
  BY <1>1, ExitType DEF RefuseDirty, MoreWork
<1>2. CASE FinalPush
  BY <1>2, ExitType DEF FinalPush, MoreWork
<1>3. CASE GiveUpPush
  BY <1>3, ExitType DEF GiveUpPush, MoreWork
<1>4. CASE Leave
  BY <1>4, ExitType DEF Leave, MoreWork
<1>5. CASE CutOff
  BY <1>5, ExitType DEF CutOff, MoreWork
<1>6. ASSUME NEW p \in Papers,
            RemoveMarker(p)
     PROVE  ControlOK'
  BY <1>6 DEF RemoveMarker, Reopen, loop
<1>7. ASSUME NEW p \in Papers,
            Requeue(p)
     PROVE  ControlOK'
  BY <1>7 DEF Requeue, Reopen, loop
<1>8. ASSUME NEW p \in Papers,
            DeleteMarkdown(p)
     PROVE  ControlOK'
  BY <1>8 DEF DeleteMarkdown, Reopen, loop
<1>9. CASE Launch
  BY <1>9 DEF Launch, loop
<1>10. ASSUME NEW delivered \in SUBSET (Papers \ state.seen),
            Fetch(delivered)
     PROVE  ControlOK'
  BY <1>10 DEF Fetch, loop
<1>11. CASE FetchFails
  BY <1>11 DEF FetchFails, loop
<1>12. CASE WriteInventory
  BY <1>12 DEF WriteInventory, loop
<1>13. CASE SaveCursor
  BY <1>13 DEF SaveCursor, loop
<1>14. CASE CommitInventory
  BY <1>14 DEF CommitInventory, loop
<1>15. CASE StartBatch
  BY <1>15 DEF StartBatch, loop
<1>16. CASE EndLoop
  BY <1>16 DEF EndLoop, loop
<1>17. CASE DeadlinePasses
  BY <1>17 DEF DeadlinePasses, loop
<1>18. ASSUME NEW outcome \in [batch -> Outcome], NEW drawn \in SUBSET batch,
            Convert(outcome, drawn)
     PROVE  ControlOK'
  BY <1>18 DEF Convert, loop
<1>19. ASSUME NEW succeeded \in SUBSET batch, NEW marked \in SUBSET batch,
            NEW drawn \in SUBSET batch,
            ConvertFails(succeeded, marked, drawn)
     PROVE  ControlOK'
  BY <1>19 DEF ConvertFails, loop
<1>20. CASE WriteIndex
  BY <1>20 DEF WriteIndex, loop
<1>21. CASE SaveState
  BY <1>21 DEF SaveState, loop
<1>22. CASE CommitBatch
  BY <1>22 DEF CommitBatch, loop
<1>23. CASE Publish
  BY <1>23 DEF Publish, loop
<1>24. CASE PushRefused
  BY <1>24 DEF PushRefused, loop
<1>25. CASE PublishRefused
  BY <1>25 DEF PublishRefused, loop
<1>26. CASE PublishRaises
  BY <1>26 DEF PublishRaises, loop
<1>27. CASE TransactionFails
  BY <1>27 DEF TransactionFails, loop
<1>28. CASE RollBack
  BY <1>28 DEF RollBack, loop
<1>29. CASE RollBackFails
  BY <1>29 DEF RollBackFails, loop
<1>30. CASE DiscardChanges
  BY <1>30 DEF DiscardChanges, loop
<1>31. CASE UNCHANGED vars
  BY <1>31 DEF vars, trees, loop, history
<1> QED
  BY <1>1, <1>2, <1>3, <1>4, <1>5, <1>6, <1>7, <1>8, <1>9, <1>10, <1>11,
     <1>12, <1>13, <1>14, <1>15, <1>16, <1>17, <1>18, <1>19, <1>20, <1>21,
     <1>22, <1>23, <1>24, <1>25, <1>26, <1>27, <1>28, <1>29, <1>30, <1>31
     DEF Next, Run, Trouble

\* A batch is started only while the budget lasts.
WithinBudget == pc = "convert" => working < MaxBatches

LEMMA BudgetStep == TypeOK /\ WithinBudget /\ [Next]_vars => WithinBudget'
<1> SUFFICES ASSUME WithinBudget, [Next]_vars, pc' = "convert"
             PROVE  working' < MaxBatches
  BY DEF WithinBudget
<1>1. CASE StartBatch
  BY <1>1 DEF StartBatch, MayStartBatch
<1>2. ASSUME pc = "convert", UNCHANGED <<pc, working>>
      PROVE  working' < MaxBatches
  BY <1>2 DEF WithinBudget
<1>3. ASSUME NEW p \in Papers, RemoveMarker(p) \/ Requeue(p) \/ DeleteMarkdown(p)
      PROVE  UNCHANGED <<pc, working>>
  BY <1>3 DEF RemoveMarker, Requeue, DeleteMarkdown, Reopen, loop
<1>4. CASE UNCHANGED vars
  BY <1>2, <1>4 DEF vars, loop
<1>5. Launch \/ Run => StartBatch
  BY DEF Launch, Run, Fetch, WriteInventory, SaveCursor, CommitInventory, EndLoop,
         Convert, WriteIndex, SaveState, CommitBatch, Publish, PublishRaises,
         RollBack, RefuseDirty, FinalPush, Leave, Exit
<1>6. ASSUME Trouble
      PROVE  \E p \in Papers : RemoveMarker(p) \/ Requeue(p) \/ DeleteMarkdown(p)
  BY <1>6 DEF Trouble, FetchFails, DeadlinePasses, ConvertFails, PushRefused,
         PublishRefused, TransactionFails, RollBackFails, GiveUpPush, CutOff, Exit
<1>7. ~DiscardChanges
  BY DEF DiscardChanges
<1> QED
  BY <1>1, <1>2, <1>3, <1>4, <1>5, <1>6, <1>7 DEF Next

\* The run's own variables keep their types.
LEMMA MemoryStep == TypeOK /\ WithinBudget /\ [Next]_vars => MemoryOK'
<1> SUFFICES ASSUME TypeOK, WithinBudget, [Next]_vars PROVE MemoryOK'
  OBVIOUS
<1> USE DEF TypeOK, MemoryOK
<1>1. CASE Launch
  BY <1>1, StateFileType DEF Launch, TreesOK, loop
<1>2. ASSUME NEW delivered \in SUBSET (Papers \ state.seen),
            Fetch(delivered)
     PROVE  MemoryOK'
  BY <1>2 DEF Fetch, TreesOK, Tree, loop
<1>3. CASE StartBatch
  BY <1>3, NextBatchPending DEF StartBatch, Pending
<1>4. ASSUME NEW outcome \in [batch -> Outcome], NEW drawn \in SUBSET batch,
            Convert(outcome, drawn)
     PROVE  MemoryOK'
  <2>1. state' \in [seen : SUBSET Papers, strikes : [Papers -> 0..2]]
    BY <1>4 DEF Convert, StrikesAfter, Third, Ended
  <2>2. needsPdf' \in SUBSET Papers /\ attempted' \in SUBSET Papers
        /\ batch' \in SUBSET Papers /\ inventory' \in SUBSET Papers
    BY <1>4 DEF Convert, Ended
  <2>3. working' \in 0..MaxBatches
    BY <1>4, NightlyAssumption DEF Convert, WithinBudget
  <2>4. result' \in [succeeded : SUBSET Papers, promoted : SUBSET Papers,
                    changed : BOOLEAN]
    BY <1>4 DEF Convert, Third, Ended
  <2> QED
    BY <2>1, <2>2, <2>3, <2>4
<1>5. CASE RefuseDirty
  BY <1>5, ExitType DEF RefuseDirty
<1>6. CASE FinalPush
  BY <1>6, ExitType DEF FinalPush
<1>7. CASE GiveUpPush
  BY <1>7, ExitType DEF GiveUpPush
<1>8. CASE Leave
  BY <1>8, ExitType DEF Leave
<1>9. CASE CutOff
  BY <1>9, ExitType DEF CutOff
<1>10. CASE UNCHANGED <<inventory, state, loop>>
  BY <1>10 DEF trees, loop, history
<1> QED
  BY <1>1, <1>2, <1>3, <1>4, <1>5, <1>6, <1>7, <1>8, <1>9, <1>10
  DEF Next, Run, Trouble, vars, trees, loop, history,
      FetchFails, WriteInventory, SaveCursor, CommitInventory, EndLoop,
      DeadlinePasses, ConvertFails, WriteIndex, SaveState, CommitBatch,
      Publish, PushRefused, PublishRefused, PublishRaises, TransactionFails,
      RollBack, RollBackFails, RemoveMarker, Requeue, DeleteMarkdown,
      DiscardChanges, Reopen

\* The auxiliary variables keep their types and bounds.
LEMMA HistoryStep == TypeOK /\ [Next]_vars => HistoryOK'
<1> SUFFICES ASSUME TypeOK, [Next]_vars PROVE HistoryOK'
  OBVIOUS
<1> USE DEF TypeOK, HistoryOK
<1>1. CASE Launch
  BY <1>1 DEF Launch
<1>2. CASE FetchFails
  BY <1>2, MishapType DEF FetchFails, history
<1>3. CASE DeadlinePasses
  BY <1>3, MishapType DEF DeadlinePasses, history
<1>4. ASSUME NEW succeeded \in SUBSET batch, NEW marked \in SUBSET batch,
            NEW drawn \in SUBSET batch,
            ConvertFails(succeeded, marked, drawn)
     PROVE  HistoryOK'
  BY <1>4, MishapType DEF ConvertFails, history
<1>5. CASE PushRefused
  BY <1>5, MishapType DEF PushRefused, history
<1>6. CASE PublishRefused
  BY <1>6, MishapType DEF PublishRefused, history
<1>7. CASE TransactionFails
  BY <1>7, MishapType DEF TransactionFails, history
<1>8. CASE RollBackFails
  BY <1>8, MishapType DEF RollBackFails, history
<1>9. ASSUME NEW outcome \in [batch -> Outcome], NEW drawn \in SUBSET batch,
            Convert(outcome, drawn)
     PROVE  HistoryOK'
  BY <1>9, MishapType DEF Convert
<1>10. CASE CommitBatch
  BY <1>10 DEF CommitBatch
<1>11. CASE Publish
  BY <1>11 DEF Publish, PushHead, TreesOK, Tree
<1>12. CASE RefuseDirty
  BY <1>12, ExitType DEF RefuseDirty
<1>13. CASE Leave
  BY <1>13, ExitType DEF Leave
<1>14. CASE FinalPush
  BY <1>14, ExitType DEF FinalPush, PushHead
<1>15. CASE GiveUpPush
  BY <1>15, ExitType, MishapType DEF GiveUpPush
<1>16. CASE CutOff
  BY <1>16, ExitType, MishapType DEF CutOff
<1>17. ASSUME NEW p \in Papers,
            RemoveMarker(p)
     PROVE  HistoryOK'
  BY <1>17, MishapType DEF RemoveMarker, Reopen
<1>18. ASSUME NEW p \in Papers,
            Requeue(p)
     PROVE  HistoryOK'
  BY <1>18, MishapType DEF Requeue, Reopen
<1>19. ASSUME NEW p \in Papers,
            DeleteMarkdown(p)
     PROVE  HistoryOK'
  BY <1>19, MishapType DEF DeleteMarkdown, Reopen
<1>20. CASE UNCHANGED <<history, mishaps>>
  BY <1>20 DEF trees, loop, history
<1> QED
  BY <1>1, <1>2, <1>3, <1>4, <1>5, <1>6, <1>7, <1>8, <1>9, <1>10, <1>11,
     <1>12, <1>13, <1>14, <1>15, <1>16, <1>17, <1>18, <1>19, <1>20
  DEF Next, Run, Trouble, vars, trees, loop, history,
      Fetch, WriteInventory, SaveCursor, CommitInventory, StartBatch,
      EndLoop, WriteIndex, SaveState, PublishRaises, RollBack,
      DiscardChanges

(***************************************************************************)
(* TypeOK holds in every behaviour (the run checks it on small instances). *)
(* It is not inductive by itself: working must not grow past MaxBatches.   *)
(***************************************************************************)
TypeInv == TypeOK /\ WithinBudget

LEMMA TypeInvInit == Init => TypeInv
BY InitType DEF Init, TypeInv, WithinBudget

LEMMA TypeInvStep == TypeInv /\ [Next]_vars => TypeInv'
BY TreesStep, ControlStep, MemoryStep, HistoryStep, BudgetStep DEF TypeInv, TypeOK

THEOREM TypeCorrect == Spec => []TypeOK
<1>1. TypeInv => TypeOK
  BY DEF TypeInv
<1> QED
  BY <1>1, TypeInvInit, TypeInvStep, PTL DEF Spec

-----------------------------------------------------------------------------
(***************************************************************************)
(* Every commit is consistent.  CommitsConsistent alone is not inductive:  *)
(* what a commit will say is decided by the steps before it.  Between two  *)
(* commits the worktree is HEAD plus what the open transaction has done so *)
(* far, and the run's copies of the inventory and of the state file agree  *)
(* with it; and while a run goes on, people only take papers off main.     *)
(***************************************************************************)

\* What fetch_all and the topic gate leave to be committed.
Fetched ==
  /\ head.inv \subseteq inventory
  /\ state.seen \cap OnTopic \subseteq inventory
  /\ state.strikes = head.strikes

FetchFacts ==
  /\ pc = "fetch" =>
       worktree = head /\ checkout = head /\ state = StateFile(head)
  /\ pc = "inventory" => Fetched /\ worktree = head
  /\ pc = "cursor" => Fetched /\ worktree = [head EXCEPT !.inv = inventory]
  /\ pc = "commit_inventory" =>
       /\ Fetched
       /\ worktree = [head EXCEPT !.inv = inventory, !.seen = state.seen,
                                  !.strikes = state.strikes]

\* Between transactions nothing is left uncommitted.
Steady == worktree = head /\ inventory = head.inv /\ state = StateFile(head)

LoopFacts ==
  /\ pc \in {"loop", "publish", "convert"} => Steady
  /\ pc = "convert" => before = head /\ batch \subseteq Pending(head.inv, head)
  /\ pc = "publish" => head.listed = head.inv /\ head.linked = head.md

\* What a converted batch adds to HEAD.
Batched ==
  /\ before = head
  /\ inventory = head.inv /\ worktree.inv = head.inv
  /\ state.seen = head.seen /\ worktree.seen = head.seen
  /\ result.succeeded \cap result.promoted = {}
  /\ result.succeeded \cup result.promoted \subseteq Pending(head.inv, head)
  /\ worktree.md = head.md \cup result.succeeded
  /\ worktree.fixme = head.fixme \cup result.promoted
  /\ worktree.figs \ result.succeeded = head.figs \ result.succeeded
  /\ result.changed <=> (state.strikes # head.strikes)
  /\ \A p \in Papers :
       state.strikes[p] > 0 =>
         p \in Pending(head.inv, head) \ (result.succeeded \cup result.promoted)

Indexed == worktree.listed = inventory /\ worktree.linked = inventory \cap worktree.md

BatchFacts ==
  /\ pc \in {"index", "save", "commit"} => Batched
  /\ pc = "index" => worktree.listed = head.listed /\ worktree.linked = head.linked
  /\ pc \in {"index", "save"} => worktree.strikes = head.strikes
  /\ pc \in {"save", "commit"} => Indexed
  /\ pc = "commit" => worktree.strikes = state.strikes

MainShrinks == remote.md \subseteq base.md /\ remote.fixme \subseteq base.fixme

ConsistentInv ==
  /\ TypeInv
  /\ CommitsConsistent
  /\ MainShrinks
  /\ FetchFacts
  /\ LoopFacts
  /\ BatchFacts

\* People only take papers off main, and a push leaves nothing behind.
LEMMA MainShrinksStep == ConsistentInv /\ [Next]_vars => MainShrinks'
<1> SUFFICES ASSUME ConsistentInv, [Next]_vars PROVE MainShrinks'
  OBVIOUS
<1>0. MainShrinks /\ remote \in Tree
  BY DEF ConsistentInv, TypeInv, TypeOK, TreesOK
<1>1. CASE Launch
  BY <1>0, <1>1 DEF Launch, MainShrinks
<1>2. CASE Publish \/ FinalPush
  BY <1>2 DEF Publish, FinalPush, PushHead, MainShrinks
<1>3. CASE PushRefused
  BY <1>3 DEF PushRefused, MainShrinks
<1>4. ASSUME NEW p \in Papers, RemoveMarker(p) \/ Requeue(p) \/ DeleteMarkdown(p)
      PROVE  MainShrinks'
  BY <1>0, <1>4 DEF RemoveMarker, Requeue, DeleteMarkdown, Reopen, Tree, MainShrinks
<1>5. CASE UNCHANGED <<remote, base>>
  BY <1>0, <1>5 DEF MainShrinks
<1> QED
  BY <1>1, <1>2, <1>3, <1>4, <1>5
  DEF Next, Run, Trouble, vars, trees, Fetch, WriteInventory, SaveCursor,
      CommitInventory, StartBatch, EndLoop, Convert, WriteIndex, SaveState,
      CommitBatch, PublishRaises, RollBack, RefuseDirty, Leave, FetchFails,
      DeadlinePasses, ConvertFails, PublishRefused, TransactionFails,
      RollBackFails, GiveUpPush, CutOff, DiscardChanges

\* The steps that leave the run's own world alone.
Untouched ==
  UNCHANGED <<worktree, head, pc, inventory, state, before, batch, result, checkout>>

LEMMA EditUntouched ==
  ASSUME NEW p \in Papers, RemoveMarker(p) \/ Requeue(p) \/ DeleteMarkdown(p)
  PROVE  Untouched
BY DEF RemoveMarker, Requeue, DeleteMarkdown, Reopen, Untouched, loop

\* The fetch and inventory transaction reaches its commit with all it fetched.
LEMMA FetchFactsStep == ConsistentInv /\ [Next]_vars => FetchFacts'
<1> SUFFICES ASSUME ConsistentInv, [Next]_vars,
                    pc' \in {"fetch", "inventory", "cursor", "commit_inventory"}
             PROVE  FetchFacts'
  BY DEF FetchFacts
<1>0. /\ FetchFacts /\ Consistent(head) /\ worktree \in Tree /\ head \in Tree
      /\ OnTopic \subseteq Papers
  BY NightlyAssumption
  DEF ConsistentInv, CommitsConsistent, TypeInv, TypeOK, TreesOK
<1>1. CASE Launch
  BY <1>1 DEF Launch, FetchFacts
<1>2. ASSUME NEW delivered \in SUBSET (Papers \ state.seen), Fetch(delivered)
      PROVE  FetchFacts'
  <2>1. worktree = head /\ state = StateFile(head)
    BY <1>0, <1>2 DEF Fetch, FetchFacts
  <2>2. inventory' = head.inv \cup (delivered \cap OnTopic)
    BY <1>2, <2>1 DEF Fetch
  <2>3. state'.seen = head.seen \cup delivered /\ state'.strikes = head.strikes
    BY <1>2, <2>1 DEF Fetch, StateFile
  <2>4. UNCHANGED <<worktree, head>> /\ pc' \in {"loop", "inventory"}
    BY <1>2 DEF Fetch, trees
  <2>5. Fetched'
    BY <1>0, <2>2, <2>3, <2>4 DEF Fetched, Consistent
  <2> QED
    BY <2>1, <2>4, <2>5 DEF FetchFacts
<1>3. CASE WriteInventory
  BY <1>0, <1>3 DEF WriteInventory, FetchFacts, Fetched
<1>4. CASE SaveCursor
  <2>1. Fetched' /\ UNCHANGED <<head, state, inventory>> /\ pc' = "commit_inventory"
    BY <1>0, <1>4 DEF SaveCursor, FetchFacts, Fetched
  <2>2. worktree' = [head EXCEPT !.inv = inventory, !.seen = state.seen,
                                 !.strikes = state.strikes]
    BY <1>0, <1>4 DEF SaveCursor, FetchFacts, Tree
  <2> QED
    BY <2>1, <2>2 DEF FetchFacts
<1>5. CASE Untouched
  BY <1>0, <1>5 DEF Untouched, FetchFacts, Fetched
<1>6. CASE UNCHANGED vars
  BY <1>5, <1>6 DEF Untouched, vars, trees, loop, history
<1> QED
  BY <1>1, <1>2, <1>3, <1>4, <1>5, <1>6, EditUntouched
  DEF Next, Run, Trouble, StartBatch, CommitInventory,
      EndLoop, Convert, WriteIndex, SaveState, CommitBatch, Publish, PublishRaises,
      RollBack, RefuseDirty, FinalPush, Leave, Exit, FetchFails, DeadlinePasses,
      ConvertFails, PushRefused, PublishRefused, TransactionFails, RollBackFails,
      GiveUpPush, CutOff, DiscardChanges

\* A batch commit leaves nothing uncommitted.
LEMMA CommittedIsWorktree ==
  ASSUME worktree \in Tree, head \in Tree, Batched, Indexed,
         worktree.strikes = state.strikes
  PROVE  /\ Committed = worktree
         /\ ~HasCommitPaths => worktree = head
<1>1. /\ Committed \in [inv : {worktree.inv}, seen : {worktree.seen},
                        strikes : {worktree.strikes}, md : {worktree.md},
                        fixme : {worktree.fixme}, figs : {worktree.figs},
                        listed : {worktree.listed}, linked : {worktree.linked}]
  <2> DEFINE figs == (head.figs \ result.succeeded)
                        \cup (worktree.figs \cap result.succeeded)
  <2>1. figs = worktree.figs
    BY DEF Batched, Tree
  <2>2. (IF IndexChanged THEN worktree.listed ELSE head.listed) = worktree.listed
        /\ (IF IndexChanged THEN worktree.linked ELSE head.linked) = worktree.linked
    BY DEF IndexChanged, Batched
  <2>3. (IF result.changed THEN worktree.seen ELSE head.seen) = worktree.seen
        /\ (IF result.changed THEN worktree.strikes ELSE head.strikes)
             = worktree.strikes
    BY DEF Batched
  <2>4. head.md \cup result.succeeded = worktree.md
        /\ head.fixme \cup result.promoted = worktree.fixme
        /\ head.inv = worktree.inv
    BY DEF Batched
  <2>5. Committed = [head EXCEPT
          !.md = worktree.md, !.fixme = worktree.fixme, !.figs = worktree.figs,
          !.listed = worktree.listed, !.linked = worktree.linked,
          !.seen = worktree.seen, !.strikes = worktree.strikes]
    BY <2>1, <2>2, <2>3, <2>4, Zenon DEF Committed
  <2> QED
    BY <2>4, <2>5 DEF Tree
<1>2. Committed = worktree
  BY <1>1 DEF Tree
<1>3. ASSUME ~HasCommitPaths PROVE worktree = head
  <2>1. result.succeeded = {} /\ result.promoted = {} /\ ~IndexChanged
        /\ ~result.changed
    BY <1>3 DEF HasCommitPaths
  <2> QED
    BY <2>1 DEF Batched, IndexChanged, Tree
<1> QED
  BY <1>2, <1>3

\* A rebase keeps of the local papers those that main still has, and adds none.
LEMMA RebasedFields ==
  ASSUME NEW from \in Tree, NEW ours \in Tree, NEW theirs \in Tree,
         theirs.md \subseteq from.md, theirs.fixme \subseteq from.fixme
  PROVE  LET new == Rebased(from, ours, theirs) IN
         /\ new.inv = ours.inv /\ new.seen = ours.seen
         /\ new.strikes = ours.strikes
         /\ new.md \subseteq ours.md /\ new.fixme \subseteq ours.fixme
BY DEF Rebased, Replay, Tree

LEMMA RebasedConsistent ==
  ASSUME NEW from \in Tree, NEW ours \in Tree, NEW theirs \in Tree,
         theirs.md \subseteq from.md, theirs.fixme \subseteq from.fixme,
         Consistent(ours)
  PROVE  Consistent(Rebased(from, ours, theirs))
BY RebasedFields DEF Consistent, Pending

\* Between transactions, also after a push, the run and its worktree agree.
LEMMA SteadyStep ==
  ConsistentInv /\ [Next]_vars =>
    (pc' \in {"loop", "publish", "convert"} => Steady')
<1> SUFFICES ASSUME ConsistentInv, [Next]_vars, pc' \in {"loop", "publish", "convert"}
             PROVE  Steady'
  OBVIOUS
<1>0. /\ LoopFacts /\ FetchFacts /\ BatchFacts /\ MainShrinks
      /\ worktree \in Tree /\ head \in Tree /\ base \in Tree /\ remote \in Tree
      /\ state \in [seen : SUBSET Papers, strikes : [Papers -> 0..2]]
  BY DEF ConsistentInv, TypeInv, TypeOK, TreesOK, MemoryOK
<1>1. ASSUME NEW delivered \in SUBSET (Papers \ state.seen), Fetch(delivered)
      PROVE  Steady'
  <2>1. worktree = head /\ checkout = head
    BY <1>0, <1>1 DEF Fetch, FetchFacts
  <2>2. inventory' = head.inv /\ state' = StateFile(head)
    BY <1>1, <2>1 DEF Fetch
  <2> QED
    BY <1>1, <2>1, <2>2 DEF Fetch, trees, Steady, StateFile
<1>2. CASE CommitInventory
  <2>1. /\ worktree = [head EXCEPT !.inv = inventory, !.seen = state.seen,
                                   !.strikes = state.strikes]
        /\ UNCHANGED <<worktree, inventory, state>>
    BY <1>0, <1>2 DEF CommitInventory, FetchFacts
  <2>2. worktree.inv = inventory /\ worktree.seen = state.seen
        /\ worktree.strikes = state.strikes
    BY <1>0, <2>1 DEF Tree
  <2>3. head' = worktree
    BY <1>2, <2>1, <2>2 DEF CommitInventory
  <2> QED
    BY <1>0, <2>1, <2>2, <2>3 DEF Steady, StateFile
<1>3. CASE StartBatch
  BY <1>0, <1>3 DEF StartBatch, LoopFacts, Steady, trees, StateFile
<1>4. CASE CommitBatch
  <2>1. /\ Batched /\ Indexed /\ worktree.strikes = state.strikes
        /\ UNCHANGED <<worktree, inventory, state>>
    BY <1>0, <1>4 DEF CommitBatch, BatchFacts
  <2>2. head' = worktree
    BY <1>0, <1>4, <2>1, CommittedIsWorktree DEF CommitBatch
  <2>3. state = StateFile(worktree) /\ inventory = worktree.inv
    BY <1>0, <2>1 DEF Batched, StateFile
  <2> QED
    BY <2>1, <2>2, <2>3 DEF Steady, StateFile
<1>5. CASE Publish \/ PushRefused
  <2> DEFINE new == Rebased(base, head, remote)
  <2>1. head' = new /\ worktree' = new /\ UNCHANGED <<inventory, state>>
    BY <1>5 DEF Publish, PushHead, PushRefused
  <2>2. Steady
    BY <1>0, <1>5 DEF Publish, PushRefused, LoopFacts
  <2>3. new.inv = head.inv /\ new.seen = head.seen /\ new.strikes = head.strikes
    BY <1>0, RebasedFields DEF MainShrinks
  <2> QED
    BY <2>1, <2>2, <2>3 DEF Steady, StateFile
<1>6. CASE DeadlinePasses \/ PublishRefused
  BY <1>0, <1>6
  DEF DeadlinePasses, PublishRefused, trees, LoopFacts, Steady, StateFile
<1>7. CASE Untouched
  BY <1>0, <1>7 DEF Untouched, LoopFacts, Steady, StateFile
<1>8. CASE UNCHANGED vars
  BY <1>7, <1>8 DEF Untouched, vars, trees, loop, history
<1> QED
  BY <1>1, <1>2, <1>3, <1>4, <1>5, <1>6, <1>7, <1>8, EditUntouched
  DEF Next, Run, Trouble, Launch, WriteInventory, SaveCursor,
      EndLoop, Convert, WriteIndex, SaveState, PublishRaises,
      RollBack, RefuseDirty, FinalPush, Leave, Exit, FetchFails,
      ConvertFails, TransactionFails, RollBackFails,
      GiveUpPush, CutOff, DiscardChanges

\* A batch takes pending papers, and the index it commits describes it.
LEMMA LoopFactsStep == ConsistentInv /\ [Next]_vars => LoopFacts'
<1> SUFFICES ASSUME ConsistentInv, [Next]_vars
             PROVE  /\ pc' = "convert" =>
                         before' = head' /\ batch' \subseteq Pending(head.inv, head)'
                    /\ pc' = "publish" => head'.listed = head'.inv
                                          /\ head'.linked = head'.md
  BY SteadyStep DEF LoopFacts
<1>0. /\ LoopFacts /\ BatchFacts /\ worktree \in Tree /\ head \in Tree
      /\ Consistent(head)
  BY DEF ConsistentInv, CommitsConsistent, TypeInv, TypeOK, TreesOK
<1>1. CASE StartBatch
  <2>1. Steady /\ UNCHANGED <<worktree, head>> /\ before' = worktree
        /\ batch' = NextBatch /\ pc' = "convert"
    BY <1>0, <1>1 DEF StartBatch, LoopFacts, trees
  <2> QED
    BY <2>1, NextBatchPending DEF Steady, Pending
<1>2. CASE CommitBatch
  <2>1. Batched /\ Indexed /\ worktree.strikes = state.strikes
    BY <1>0, <1>2 DEF CommitBatch, BatchFacts
  <2>2. head' = worktree /\ pc' # "convert"
    BY <1>0, <1>2, <2>1, CommittedIsWorktree DEF CommitBatch
  <2>3. worktree.md \subseteq worktree.inv
    BY <1>0, <2>1 DEF Batched, Consistent, Pending
  <2>4. worktree.listed = worktree.inv /\ worktree.linked = worktree.md
    BY <2>1, <2>3 DEF Batched, Indexed
  <2> QED
    BY <2>2, <2>4
<1>3. CASE Untouched
  BY <1>0, <1>3 DEF Untouched, LoopFacts, Pending
<1>4. CASE UNCHANGED vars
  BY <1>3, <1>4 DEF Untouched, vars, trees, loop, history
<1> QED
  BY <1>1, <1>2, <1>3, <1>4, EditUntouched
  DEF Next, Run, Trouble, Launch, Fetch, WriteInventory, SaveCursor, CommitInventory,
      EndLoop, Convert, WriteIndex, SaveState, Publish, PublishRaises,
      RollBack, RefuseDirty, FinalPush, Leave, Exit, FetchFails, DeadlinePasses,
      ConvertFails, PushRefused, PublishRefused, TransactionFails, RollBackFails,
      GiveUpPush, CutOff, DiscardChanges

\* convert_batch changes its batch alone, and leaves no strike on what it ended.
LEMMA ConvertBatched ==
  ASSUME ConsistentInv, NEW outcome \in [batch -> Outcome],
         NEW drawn \in SUBSET batch, Convert(outcome, drawn)
  PROVE  /\ Batched'
         /\ worktree'.listed = head'.listed /\ worktree'.linked = head'.linked
         /\ worktree'.strikes = head'.strikes
<1> DEFINE good   == Ended(outcome, "succeeded")
           marked == Third(outcome)
<1>1. /\ worktree = head /\ inventory = head.inv /\ state = StateFile(head)
      /\ before = head /\ batch \subseteq Pending(head.inv, head)
      /\ Consistent(head) /\ head \in Tree
  BY DEF Convert, ConsistentInv, CommitsConsistent, LoopFacts, Steady, TypeInv,
         TypeOK, TreesOK
<1>2. good \subseteq batch /\ marked \subseteq batch /\ good \cap marked = {}
  BY DEF Ended, Third
<1>3. worktree' = Promoted(good, marked, drawn) /\ drawn \subseteq good
  BY DEF Convert
<1>4. /\ worktree'.inv = head.inv /\ worktree'.seen = head.seen
      /\ worktree'.strikes = head.strikes
      /\ worktree'.listed = head.listed /\ worktree'.linked = head.linked
      /\ worktree'.md = head.md \cup good
      /\ worktree'.fixme = head.fixme \cup marked
      /\ worktree'.figs = (head.figs \ good) \cup drawn
  BY <1>1, <1>3 DEF Promoted, Tree
<1>5. /\ result' = [succeeded |-> good, promoted |-> marked,
                    changed |-> StrikesAfter(outcome) # state.strikes]
      /\ state' = [state EXCEPT !.strikes = StrikesAfter(outcome)]
      /\ UNCHANGED <<head, before, inventory>>
  BY DEF Convert
<1>6. /\ result'.succeeded = good /\ result'.promoted = marked
      /\ result'.changed <=> (StrikesAfter(outcome) # head.strikes)
      /\ state'.seen = head.seen /\ state'.strikes = StrikesAfter(outcome)
  BY <1>1, <1>5 DEF StateFile
<1>7. ASSUME NEW p \in Papers, state'.strikes[p] > 0
      PROVE  p \in Pending(head.inv, head) \ (good \cup marked)
  <2>1. p \notin good \cup marked
    BY <1>6, <1>7 DEF StrikesAfter
  <2>2. p \in Ended(outcome, "failed") \/ state.strikes[p] > 0
    BY <1>6, <1>7, <2>1 DEF StrikesAfter
  <2>3. p \in Pending(head.inv, head)
    BY <1>1, <2>2 DEF Ended, StateFile, Consistent
  <2> QED
    BY <2>1, <2>3
<1>8. worktree'.figs \ good = head.figs \ good
  BY <1>3, <1>4
<1>9. good \cup marked \subseteq Pending(head.inv, head)
  BY <1>1, <1>2
<1> HIDE DEF good, marked
<1>10. Pending(head.inv, head)' = Pending(head.inv, head)
  BY <1>5 DEF Pending
<1>11. \A p \in Papers : state'.strikes[p] > 0 =>
         p \in Pending(head.inv, head)' \ (result'.succeeded \cup result'.promoted)
  BY <1>6, <1>7, <1>10
<1> QED
  BY <1>1, <1>2, <1>4, <1>5, <1>6, <1>8, <1>9, <1>10, <1>11 DEF Batched

\* The steps of a batch transaction keep the worktree at HEAD plus the batch.
LEMMA BatchFactsStep == ConsistentInv /\ [Next]_vars => BatchFacts'
<1> SUFFICES ASSUME ConsistentInv, [Next]_vars, pc' \in {"index", "save", "commit"}
             PROVE  BatchFacts'
  BY DEF BatchFacts
<1>0. /\ BatchFacts /\ worktree \in Tree /\ head \in Tree
      /\ state \in [seen : SUBSET Papers, strikes : [Papers -> 0..2]]
  BY DEF ConsistentInv, TypeInv, TypeOK, TreesOK, MemoryOK
<1>1. ASSUME NEW outcome \in [batch -> Outcome], NEW drawn \in SUBSET batch,
             Convert(outcome, drawn)
      PROVE  BatchFacts'
  <2>1. pc' = "index"
    BY <1>1 DEF Convert
  <2> QED
    BY <1>1, <2>1, ConvertBatched DEF BatchFacts
<1>2. CASE WriteIndex
  <2>1. Batched /\ worktree.strikes = head.strikes /\ pc' = "save"
        /\ UNCHANGED <<head, before, inventory, state, result>>
    BY <1>0, <1>2 DEF WriteIndex, BatchFacts, loop
  <2>2. /\ worktree'.listed = inventory
        /\ worktree'.linked = inventory \cap worktree.md
        /\ worktree'.inv = worktree.inv /\ worktree'.seen = worktree.seen
        /\ worktree'.md = worktree.md /\ worktree'.fixme = worktree.fixme
        /\ worktree'.figs = worktree.figs /\ worktree'.strikes = worktree.strikes
    BY <1>0, <1>2 DEF WriteIndex, Tree
  <2>3. Batched'
    BY <2>1, <2>2 DEF Batched, Pending
  <2> QED
    BY <2>1, <2>2, <2>3 DEF BatchFacts, Indexed
<1>3. CASE SaveState
  <2>1. Batched /\ Indexed /\ worktree.strikes = head.strikes /\ pc' = "commit"
        /\ UNCHANGED <<head, before, inventory, state, result>>
    BY <1>0, <1>3 DEF SaveState, BatchFacts, loop
  <2>2. /\ worktree'.listed = worktree.listed /\ worktree'.linked = worktree.linked
        /\ worktree'.inv = worktree.inv /\ worktree'.seen = worktree.seen
        /\ worktree'.md = worktree.md /\ worktree'.fixme = worktree.fixme
        /\ worktree'.figs = worktree.figs /\ worktree'.strikes = state.strikes
    BY <1>0, <1>3, <2>1 DEF SaveState, Batched, Tree
  <2>3. Batched' /\ Indexed'
    BY <2>1, <2>2 DEF Batched, Indexed, Pending
  <2> QED
    BY <2>1, <2>2, <2>3 DEF BatchFacts
<1>4. CASE Untouched
  BY <1>0, <1>4 DEF Untouched, BatchFacts, Batched, Indexed, Pending
<1>5. CASE UNCHANGED vars
  BY <1>4, <1>5 DEF Untouched, vars, trees, loop, history
<1> QED
  BY <1>1, <1>2, <1>3, <1>4, <1>5, EditUntouched
  DEF Next, Run, Trouble, Launch, Fetch, WriteInventory, SaveCursor, CommitInventory,
      StartBatch, EndLoop, CommitBatch, Publish, PublishRaises,
      RollBack, RefuseDirty, FinalPush, Leave, Exit, FetchFails, DeadlinePasses,
      ConvertFails, PushRefused, PublishRefused, TransactionFails, RollBackFails,
      GiveUpPush, CutOff, DiscardChanges

\* Each commit and each push makes a consistent tree.
LEMMA CommitsStep == ConsistentInv /\ [Next]_vars => CommitsConsistent'
<1> SUFFICES ASSUME ConsistentInv, [Next]_vars PROVE CommitsConsistent'
  OBVIOUS
<1>0. /\ Consistent(head) /\ Consistent(remote) /\ MainShrinks
      /\ FetchFacts /\ BatchFacts
      /\ worktree \in Tree /\ head \in Tree /\ base \in Tree /\ remote \in Tree
  BY DEF ConsistentInv, CommitsConsistent, TypeInv, TypeOK, TreesOK
<1>1. CASE Launch
  BY <1>0, <1>1 DEF Launch, CommitsConsistent
<1>2. CASE CommitInventory
  <2>1. Fetched /\ UNCHANGED remote
        /\ worktree = [head EXCEPT !.inv = inventory, !.seen = state.seen,
                                   !.strikes = state.strikes]
    BY <1>0, <1>2 DEF CommitInventory, FetchFacts
  <2>2. /\ head'.inv = inventory /\ head'.seen = state.seen
        /\ head'.strikes = head.strikes
        /\ head'.md = head.md /\ head'.fixme = head.fixme
    BY <1>0, <1>2, <2>1 DEF CommitInventory, Fetched, Tree
  <2>3. Consistent(head')
    BY <1>0, <2>1, <2>2 DEF Fetched, Consistent, Pending
  <2> QED
    BY <1>0, <2>1, <2>3 DEF CommitsConsistent
<1>3. CASE CommitBatch
  <2>1. Batched /\ Indexed /\ worktree.strikes = state.strikes /\ UNCHANGED remote
    BY <1>0, <1>3 DEF CommitBatch, BatchFacts
  <2>2. head' = worktree
    BY <1>0, <1>3, <2>1, CommittedIsWorktree DEF CommitBatch
  <2>3. Consistent(worktree)
    BY <1>0, <2>1 DEF Batched, Consistent, Pending
  <2> QED
    BY <1>0, <2>1, <2>2, <2>3 DEF CommitsConsistent
<1>4. CASE Publish \/ PushRefused \/ FinalPush
  BY <1>0, <1>4, RebasedConsistent
  DEF Publish, FinalPush, PushHead, PushRefused, MainShrinks, CommitsConsistent
<1>5. ASSUME NEW p \in Papers, RemoveMarker(p) \/ Requeue(p) \/ DeleteMarkdown(p)
      PROVE  CommitsConsistent'
  <2>1. head' = head
    BY <1>5 DEF RemoveMarker, Requeue, DeleteMarkdown, Reopen
  <2>2. /\ remote'.inv = remote.inv /\ remote'.seen = remote.seen
        /\ remote'.strikes = remote.strikes
        /\ remote'.md \subseteq remote.md /\ remote'.fixme \subseteq remote.fixme
    BY <1>0, <1>5 DEF RemoveMarker, Requeue, DeleteMarkdown, Reopen, Tree
  <2> QED
    BY <1>0, <2>1, <2>2 DEF CommitsConsistent, Consistent, Pending
<1>6. CASE UNCHANGED <<head, remote>>
  BY <1>0, <1>6 DEF CommitsConsistent
<1> QED
  BY <1>1, <1>2, <1>3, <1>4, <1>5, <1>6
  DEF Next, Run, Trouble, vars, trees, Fetch, WriteInventory, SaveCursor,
      StartBatch, EndLoop, Convert, WriteIndex, SaveState,
      PublishRaises, RollBack, RefuseDirty, Leave, FetchFails,
      DeadlinePasses, ConvertFails, PublishRefused, TransactionFails,
      RollBackFails, GiveUpPush, CutOff, DiscardChanges

LEMMA ConsistentInvInit == Init => ConsistentInv
<1> SUFFICES ASSUME Init PROVE ConsistentInv
  OBVIOUS
<1>1. CommitsConsistent /\ MainShrinks
  BY DEF Init, CommitsConsistent, Consistent, EmptyTree, MainShrinks
<1>2. FetchFacts /\ LoopFacts /\ BatchFacts
  BY DEF Init, FetchFacts, LoopFacts, BatchFacts
<1> QED
  BY <1>1, <1>2, TypeInvInit DEF ConsistentInv

LEMMA ConsistentInvStep == ConsistentInv /\ [Next]_vars => ConsistentInv'
<1>1. ConsistentInv => TypeInv
  BY DEF ConsistentInv
<1> QED
  BY <1>1, TypeInvStep, CommitsStep, MainShrinksStep, FetchFactsStep, LoopFactsStep,
     BatchFactsStep DEF ConsistentInv

\* No run commits or pushes a corpus whose parts contradict one another, however
\* it fails, is cut off, or is rebased over edits of main.
THEOREM CommitsAreConsistent == Spec => []CommitsConsistent
<1>1. ConsistentInv => CommitsConsistent
  BY DEF ConsistentInv
<1> QED
  BY <1>1, ConsistentInvInit, ConsistentInvStep, PTL DEF Spec

\* Every batch commit carries an index that describes it.
THEOREM IndexIsAccurate == Spec => []IndexDescribesBatch
<1>1. ConsistentInv => IndexDescribesBatch
  BY DEF ConsistentInv, LoopFacts, IndexDescribesBatch
<1> QED
  BY <1>1, ConsistentInvInit, ConsistentInvStep, PTL DEF Spec

=============================================================================
