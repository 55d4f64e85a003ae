---------------------------- MODULE CorpusProofs ----------------------------
(***************************************************************************)
(* The runs of the workflow implement Corpus: every change of main moves   *)
(* each paper by one legal step of its life.                               *)
(***************************************************************************)
EXTENDS NightlyRunProofs

-----------------------------------------------------------------------------
(***************************************************************************)
(* The inductive invariant.  A run of the workflow starts from main, so    *)
(* what its commits hold beyond the base they sit on is one run's work: at *)
(* most one strike against a paper, a marker for one that had two.         *)
(***************************************************************************)
LegalStrikes(strikes, p) ==
  strikes[p] = base.strikes[p] \/ strikes[p] = base.strikes[p] + 1

\* Only runs change inventory and strikes, so main has those of the base.
BaseOfMain ==
  /\ Consistent(base)
  /\ base.inv = remote.inv /\ base.strikes = remote.strikes

HeadLegal ==
  /\ base.inv \subseteq head.inv
  /\ \A p \in Pending(head.inv, head) : LegalStrikes(head.strikes, p)
  /\ \A p \in head.fixme \ base.fixme : base.strikes[p] = 2
  /\ \A p \in Papers : Open(p) => head.strikes[p] = base.strikes[p]

\* What the batch that is not yet committed makes of HEAD.
BatchLegal ==
  /\ \A p \in Pending(head.inv, head) \ (result.succeeded \cup result.promoted) :
       LegalStrikes(state.strikes, p)
  /\ \A p \in result.promoted : base.strikes[p] = 2
  /\ \A p \in Papers : Open(p) => state.strikes[p] = base.strikes[p]

LegalInv ==
  /\ BaseKept /\ BaseOfMain
  /\ pc # "idle" => HeadLegal
  /\ pc \in {"index", "save", "commit"} => BatchLegal

LEMMA LegalInit == Init => LegalInv
<1> SUFFICES ASSUME Init PROVE LegalInv
  OBVIOUS
<1>1. base = EmptyTree /\ remote = EmptyTree /\ head = EmptyTree /\ pc = "idle"
  BY DEF Init
<1>2. Consistent(EmptyTree)
  BY DEF Consistent, EmptyTree
<1> QED
  BY <1>1, <1>2 DEF LegalInv, BaseKept, BaseOfMain, EmptyTree

\* The base is a commit that main had.
LEMMA BaseOfMainStep == ConsistentInv /\ ConsistentInv' /\ BaseOfMain /\ [Next]_vars => BaseOfMain'
<1> SUFFICES ASSUME ConsistentInv, ConsistentInv', BaseOfMain, [Next]_vars PROVE BaseOfMain'
  OBVIOUS
<1>0. Consistent(remote) /\ Consistent(remote') /\ remote \in Tree
  BY DEF ConsistentInv, CommitsConsistent, TypeInv, TypeOK, TreesOK
<1>1. CASE Launch
  BY <1>0, <1>1 DEF Launch, BaseOfMain
<1>2. CASE Publish \/ FinalPush
  BY <1>0, <1>2 DEF Publish, FinalPush, PushHead, BaseOfMain
<1>3. CASE PushRefused
  BY <1>0, <1>3 DEF PushRefused, BaseOfMain
<1>4. ASSUME NEW p \in Papers, RemoveMarker(p) \/ Requeue(p) \/ DeleteMarkdown(p)
      PROVE  BaseOfMain'
  <2>1. base' = base /\ remote'.inv = remote.inv /\ remote'.strikes = remote.strikes
    BY <1>0, <1>4 DEF RemoveMarker, Requeue, DeleteMarkdown, Reopen, Tree
  <2> QED BY <2>1 DEF BaseOfMain, Consistent
<1>5. CASE UNCHANGED <<remote, base>>
  BY <1>5 DEF BaseOfMain
<1> QED
  BY <1>1, <1>2, <1>3, <1>4, <1>5
  DEF Next, Run, Trouble, vars, trees, Fetch, WriteInventory, SaveCursor,
      CommitInventory, StartBatch, EndLoop, Convert, WriteIndex, SaveState,
      CommitBatch, PublishRaises, RollBack, RefuseDirty, Leave, FetchFails,
      DeadlinePasses, ConvertFails, PublishRefused, TransactionFails, RollBackFails,
      GiveUpPush, CutOff, DiscardChanges

\* A paper without a markdown file or a marker on the base has no strike there unless
\* it is pending there.
LEMMA NoStrikes ==
  ASSUME NEW tree \in Tree, Consistent(tree), NEW p \in Papers,
         p \notin Pending(tree.inv, tree)
  PROVE  tree.strikes[p] = 0
<1>1. tree.strikes[p] \in 0..2
  BY DEF Tree
<1> QED BY <1>1 DEF Consistent

-----------------------------------------------------------------------------
(***************************************************************************)
(* The steps that change HEAD or what a batch found.                       *)
(***************************************************************************)
LEMMA LegalConverted ==
  ASSUME ConsistentInv, StrikeInv, LegalInv, NEW outcome \in [batch -> Outcome],
         NEW drawn \in SUBSET batch, Convert(outcome, drawn)
  PROVE  HeadLegal' /\ BatchLegal'
<1>0. /\ pc = "convert" /\ pc' = "index"
      /\ UNCHANGED <<head, base, remote, attempted, batch>>
      /\ state' = [state EXCEPT !.strikes = StrikesAfter(outcome)]
      /\ needsPdf' = needsPdf \cup Ended(outcome, "needs_pdf")
      /\ result'.succeeded = Ended(outcome, "succeeded")
      /\ result'.promoted = Third(outcome)
  BY DEF Convert
<1>1. /\ HeadLegal /\ batch \subseteq attempted /\ batch \cap needsPdf = {}
      /\ state = StateFile(head) /\ batch \subseteq Papers
      /\ head \in Tree /\ base \in Tree
  BY <1>0, InvFacts DEF LegalInv, StrikeInv, LoopFacts, Steady
<1>2. state.strikes = head.strikes /\ state'.strikes = StrikesAfter(outcome)
  BY <1>0, <1>1, InvFacts DEF StateFile
<1>3. \A p \in batch : head.strikes[p] = base.strikes[p]
  BY <1>0, <1>1 DEF HeadLegal, Open
<1>4. ASSUME NEW p \in Pending(head.inv, head),
             p \notin Ended(outcome, "succeeded") \cup Third(outcome)
      PROVE  LegalStrikes(StrikesAfter(outcome), p)
  <2>0. p \in Papers
    BY <1>1 DEF Pending, Tree
  <2>1. CASE p \in Ended(outcome, "failed")
    BY <1>2, <1>3, <1>4, <2>0, <2>1 DEF StrikesAfter, LegalStrikes, Ended
  <2>2. CASE p \notin Ended(outcome, "failed")
    BY <1>1, <1>2, <1>4, <2>0, <2>2 DEF StrikesAfter, LegalStrikes, HeadLegal
  <2> QED BY <2>1, <2>2
<1>5. \A p \in Third(outcome) : base.strikes[p] = 2
  BY <1>2, <1>3 DEF Third, Ended
<1>6. ASSUME NEW p \in Papers, Open(p)'
      PROVE  Open(p) /\ StrikesAfter(outcome)[p] = base.strikes[p]
  <2>1. p \notin attempted \/ p \in needsPdf \/ p \in Ended(outcome, "needs_pdf")
    BY <1>0, <1>6 DEF Open
  <2>2. p \notin Ended(outcome, "succeeded") \cup Ended(outcome, "failed")
    BY <1>1, <2>1 DEF Ended
  <2>3. Open(p)
    BY <1>0, <2>1 DEF Open, Ended
  <2> QED BY <1>1, <1>2, <2>2, <2>3 DEF StrikesAfter, Third, HeadLegal
<1>7. HeadLegal'
  BY <1>0, <1>1, <1>6 DEF HeadLegal, LegalStrikes
<1>8. BatchLegal'
  BY <1>0, <1>2, <1>4, <1>5, <1>6 DEF BatchLegal, LegalStrikes
<1> QED BY <1>7, <1>8

\* The papers of an inventory commit that are new have no strikes yet.
LEMMA LegalInventory ==
  ASSUME ConsistentInv, LegalInv, CommitInventory
  PROVE  HeadLegal'
<1>1. /\ head'.md = head.md /\ head'.fixme = head.fixme
      /\ head'.strikes = head.strikes /\ head'.inv = inventory
      /\ head.inv \subseteq inventory /\ inventory \subseteq Papers
      /\ UNCHANGED <<base, attempted, needsPdf, batch>> /\ pc' = "loop"
  <2>1. Fetched /\ worktree.inv = inventory
    BY InvFacts DEF CommitInventory, FetchFacts, Tree
  <2>2. head' = [head EXCEPT !.inv = worktree.inv, !.seen = worktree.seen,
                             !.strikes = worktree.strikes]
    BY DEF CommitInventory
  <2>3. head'.inv = worktree.inv
    BY <2>2, InvFacts DEF Tree
  <2>4. worktree \in Tree
    BY InvFacts
  <2> QED
    BY <2>1, <2>3, <2>4, InventoryCommit DEF CommitInventory, Fetched, loop, Tree
<1>2. HeadLegal /\ BaseOfMain /\ head \in Tree /\ base \in Tree /\ Consistent(head)
  BY InvFacts DEF LegalInv, CommitInventory
<1>3. ASSUME NEW p \in Pending(head'.inv, head') PROVE LegalStrikes(head.strikes, p)
  <2>1. CASE p \in head.inv
    BY <1>1, <1>2, <1>3, <2>1 DEF Pending, HeadLegal
  <2>2. CASE p \notin head.inv
    <3>1. p \in Papers /\ p \notin base.inv
      BY <1>1, <1>2, <1>3, <2>2 DEF Pending, HeadLegal
    <3>2. head.strikes[p] = 0 /\ base.strikes[p] = 0
      BY <1>2, <2>2, <3>1, NoStrikes DEF Pending, BaseOfMain
    <3> QED BY <3>2 DEF LegalStrikes
  <2> QED BY <2>1, <2>2
<1>4. \A p \in Papers : Open(p)' => Open(p)
  BY <1>1 DEF Open
<1> QED BY <1>1, <1>2, <1>3, <1>4 DEF HeadLegal, LegalStrikes

LEMMA LegalBatch ==
  ASSUME ConsistentInv, LegalInv, CommitBatch
  PROVE  HeadLegal'
<1>1. /\ head'.strikes = state.strikes /\ head'.inv = head.inv
      /\ head'.md = head.md \cup result.succeeded
      /\ head'.fixme = head.fixme \cup result.promoted
  BY BatchCommit DEF Batched
<1>2. /\ HeadLegal /\ BatchLegal /\ pc = "commit" /\ pc' \in {"loop", "publish"}
      /\ UNCHANGED <<base, attempted, needsPdf, batch>>
  BY DEF CommitBatch, LegalInv, loop
<1>3. Pending(head'.inv, head') =
        Pending(head.inv, head) \ (result.succeeded \cup result.promoted)
  BY <1>1 DEF Pending
<1>4. \A p \in Papers : Open(p)' => Open(p)
  BY <1>2 DEF Open
<1> QED BY <1>1, <1>2, <1>3, <1>4 DEF HeadLegal, BatchLegal, LegalStrikes

\* What a rebase makes of the commits of the run.
LEMMA RebaseFacts ==
  ASSUME ConsistentInv, NEW new, new = Rebased(base, head, remote)
  PROVE  /\ new \in Tree
         /\ new.inv = head.inv /\ new.strikes = head.strikes
         /\ new.md = Replay(base.md, head.md, remote.md)
         /\ new.fixme = Replay(base.fixme, head.fixme, remote.fixme)
         /\ new.md \subseteq head.md /\ new.fixme \subseteq head.fixme
<1>1. /\ base \in Tree /\ head \in Tree /\ remote \in Tree
      /\ remote.md \subseteq base.md /\ remote.fixme \subseteq base.fixme
  BY InvFacts DEF MainShrinks
<1>2. /\ new.inv = head.inv /\ new.strikes = head.strikes
      /\ new.md \subseteq head.md /\ new.fixme \subseteq head.fixme
  BY <1>1, RebasedFields
<1>3. new \in Tree
  BY <1>1, RebasedType
<1>4. new.md = Replay(base.md, head.md, remote.md)
  BY <1>1, RebasedMarkdown
<1>5. new.fixme = Replay(base.fixme, head.fixme, remote.fixme)
  BY <1>1, RebasedMarkers
<1> QED BY <1>2, <1>3, <1>4, <1>5

LEMMA LegalRebase ==
  ASSUME ConsistentInv, LegalInv, Publish \/ PushRefused
  PROVE  HeadLegal'
<1>1. /\ head' = Rebased(base, head, remote)
      /\ base' = head' \/ base' = remote
      /\ pc = "publish" /\ pc' = "loop" /\ UNCHANGED <<attempted, needsPdf, batch>>
  BY DEF Publish, PushHead, PushRefused, loop
<1>2. /\ head' \in Tree /\ head'.inv = head.inv /\ head'.strikes = head.strikes
      /\ head'.md = Replay(base.md, head.md, remote.md)
      /\ head'.fixme = Replay(base.fixme, head.fixme, remote.fixme)
  BY <1>1, RebaseFacts
<1>3. /\ HeadLegal /\ BaseOfMain /\ BaseKept /\ MainShrinks
      /\ head \in Tree /\ base \in Tree /\ remote \in Tree
      /\ Consistent(head)
  BY <1>1, InvFacts DEF LegalInv
<1>4. \A p \in Papers : Open(p)' => Open(p)
  BY <1>1 DEF Open
<1>5. CASE base' = head'
  BY <1>1, <1>2, <1>3, <1>4, <1>5 DEF HeadLegal, LegalStrikes
<1>6. CASE base' = remote
  <2>1. ASSUME NEW p \in Pending(head'.inv, head') PROVE LegalStrikes(head.strikes, p)
    <3>0. p \in Papers
      BY <1>2, <2>1 DEF Pending, Tree
    <3>1. CASE p \in Pending(head.inv, head)
      BY <1>3, <3>1 DEF HeadLegal
    <3>2. CASE p \notin Pending(head.inv, head)
      <4>1. p \in head.md \cup head.fixme
        BY <1>2, <2>1, <3>2 DEF Pending
      <4>2. p \in base.md \cup base.fixme
        BY <1>2, <1>3, <2>1, <3>0, <4>1 DEF Pending, Replay
      <4>3. head.strikes[p] = 0 /\ base.strikes[p] = 0
        BY <1>3, <3>0, <4>1, <4>2, NoStrikes DEF Pending, BaseOfMain
      <4> QED BY <4>3 DEF LegalStrikes
    <3> QED BY <3>1, <3>2
  <2>2. \A p \in head'.fixme \ remote.fixme : p \in head.fixme \ base.fixme
    BY <1>2 DEF Replay
  <2>3. base'.inv = base.inv /\ base'.strikes = base.strikes
    BY <1>3, <1>6 DEF BaseOfMain
  <2> QED BY <1>2, <1>3, <1>4, <1>6, <2>1, <2>2, <2>3 DEF HeadLegal, LegalStrikes
<1> QED BY <1>1, <1>5, <1>6

-----------------------------------------------------------------------------
LEMMA LegalStep ==
  ASSUME Automated, ConsistentInv, ConsistentInv', StrikeInv, LegalInv, [Next]_vars
  PROVE  LegalInv'
<1>0. BaseKept' /\ BaseOfMain'
  BY BaseKeptStep, BaseOfMainStep DEF LegalInv
<1>1. CASE Launch
  <2>1. head' = base' /\ pc' = "fetch"
    BY <1>1 DEF Launch
  <2> QED BY <1>0, <2>1 DEF LegalInv, HeadLegal, LegalStrikes
<1>2. ASSUME NEW outcome \in [batch -> Outcome], NEW drawn \in SUBSET batch,
             Convert(outcome, drawn)
      PROVE  LegalInv'
  BY <1>0, <1>2, LegalConverted DEF LegalInv
<1>3. CASE CommitInventory
  BY <1>0, <1>3, LegalInventory DEF LegalInv, CommitInventory
<1>4. CASE CommitBatch
  <2>1. pc' \in {"loop", "publish"}
    BY <1>4 DEF CommitBatch
  <2> QED BY <1>0, <1>4, <2>1, LegalBatch DEF LegalInv
<1>5. CASE Publish \/ PushRefused
  <2>1. pc' = "loop"
    BY <1>5 DEF Publish, PushRefused
  <2> QED BY <1>0, <1>5, <2>1, LegalRebase DEF LegalInv
<1>6. ASSUME UNCHANGED <<head, base>>, pc # "idle",
             \A p \in Papers : Open(p)' => Open(p),
             pc' \in {"index", "save", "commit"} =>
               /\ pc \in {"index", "save", "commit"}
               /\ UNCHANGED <<state, result>>
      PROVE  LegalInv'
  BY <1>0, <1>6 DEF LegalInv, HeadLegal, BatchLegal, LegalStrikes
<1>7. CASE StartBatch
  <2>1. /\ attempted' = attempted \cup NextBatch /\ needsPdf' = needsPdf \ NextBatch
        /\ batch' = NextBatch /\ pc' = "convert" /\ pc = "loop"
        /\ UNCHANGED <<head, base>>
    BY <1>7 DEF StartBatch, trees
  <2>2. NextBatch \subseteq IF Untried # {} THEN Untried
                            ELSE Pending(inventory, worktree) \cap needsPdf
    BY SelectBatchSubset DEF NextBatch
  <2>3. \A p \in NextBatch : p \notin attempted \/ p \in needsPdf
    BY <2>2 DEF Untried
  <2>4. \A p \in Papers : Open(p)' => Open(p)
    BY <2>1, <2>3 DEF Open
  <2> QED BY <1>6, <2>1, <2>4
<1>8. ASSUME pc' = "idle" PROVE LegalInv'
  BY <1>0, <1>8 DEF LegalInv
<1>9. ASSUME UNCHANGED <<head, base, pc, attempted, needsPdf, batch, state, result>>
      PROVE  LegalInv'
  BY <1>0, <1>9 DEF LegalInv, HeadLegal, BatchLegal, LegalStrikes, Open
<1>10. CASE UNCHANGED vars
  BY <1>9, <1>10 DEF vars, trees, loop
<1>11. ASSUME UNCHANGED <<head, base, attempted, needsPdf, batch, result>>, pc # "idle",
              pc' # "convert",
              pc' \in {"index", "save", "commit"} =>
                pc \in {"index", "save", "commit"} /\ UNCHANGED state
       PROVE  LegalInv'
  <2>1. \A p \in Papers : Open(p)' => Open(p)
    BY <1>11 DEF Open
  <2> QED BY <1>6, <1>11, <2>1
<1>12. CASE \/ \E delivered \in SUBSET (Papers \ state.seen) : Fetch(delivered)
            \/ WriteInventory \/ SaveCursor \/ EndLoop \/ WriteIndex \/ SaveState
            \/ PublishRaises \/ RollBack
  BY <1>11, <1>12 DEF Fetch, WriteInventory, SaveCursor, EndLoop, WriteIndex, SaveState,
                      PublishRaises, RollBack, trees, loop
<1>13. CASE \/ FetchFails \/ DeadlinePasses \/ PublishRefused \/ TransactionFails
            \/ RollBackFails
            \/ \E succeeded, marked, drawn \in SUBSET batch :
                 ConvertFails(succeeded, marked, drawn)
  BY <1>11, <1>13 DEF FetchFails, DeadlinePasses, PublishRefused, TransactionFails,
                      RollBackFails, ConvertFails, trees, loop
<1>14. CASE RefuseDirty \/ FinalPush \/ Leave \/ GiveUpPush \/ CutOff
  BY <1>8, <1>14 DEF RefuseDirty, FinalPush, Leave, GiveUpPush, CutOff, Exit
<1>15. ASSUME NEW p \in Papers, RemoveMarker(p) \/ Requeue(p) \/ DeleteMarkdown(p)
       PROVE  LegalInv'
  BY <1>9, <1>15 DEF RemoveMarker, Requeue, DeleteMarkdown, Reopen, loop
<1>16. ~DiscardChanges
  BY DEF DiscardChanges
<1> QED
  BY <1>1, <1>2, <1>3, <1>4, <1>5, <1>7, <1>10, <1>12, <1>13, <1>14, <1>15, <1>16
  DEF Next, Run, Trouble

-----------------------------------------------------------------------------
(***************************************************************************)
(* Steps of main.                                                          *)
(***************************************************************************)
Stages == [p \in Papers |-> Stage(remote, p)]

\* A push moves every paper by one step of its life, or leaves it.
LEMMA PushIsLegal ==
  ASSUME ConsistentInv, ConsistentInv', LegalInv, pc # "idle",
         remote' = Rebased(base, head, remote)
  PROVE  Main!Push
<1>1. /\ remote' \in Tree /\ remote'.inv = head.inv /\ remote'.strikes = head.strikes
      /\ remote'.md = Replay(base.md, head.md, remote.md)
      /\ remote'.fixme = Replay(base.fixme, head.fixme, remote.fixme)
      /\ remote'.md \subseteq head.md /\ remote'.fixme \subseteq head.fixme
  BY RebaseFacts
<1>2. /\ HeadLegal /\ BaseOfMain /\ BaseKept /\ MainShrinks
      /\ Consistent(head) /\ Consistent(remote) /\ Consistent(base)
      /\ head \in Tree /\ base \in Tree /\ remote \in Tree
  BY InvFacts DEF LegalInv, BaseOfMain
<1>3. Stages' \in [Papers -> Main!Life] /\ remote'.strikes \in [Papers -> 0..Main!MaxStrikes]
  BY <1>1 DEF Stages, Stage, Main!Life, Main!MaxStrikes, Tree
<1>4. ASSUME NEW p \in Papers
      PROVE  Main!Stays(p) \/ Main!Found(p) \/ Main!Fails(p) \/ Main!Blocks(p)
             \/ Main!Converts(p)
  <2> USE DEF Main!Stays, Main!Found, Main!Fails, Main!Blocks, Main!Converts,
              Main!Waiting, Main!MaxStrikes
  <2>0. /\ head.strikes[p] \in 0..2 /\ remote.strikes[p] \in 0..2
        /\ base.strikes[p] = remote.strikes[p]
    BY <1>2 DEF Tree, BaseOfMain
  <2>1. CASE p \in head.md \ base.md
    <3>1. p \notin remote.md /\ p \in remote'.md
      BY <1>1, <1>2, <2>1 DEF MainShrinks, Replay
    <3>2. p \notin remote.fixme
      BY <1>2, <2>1 DEF MainShrinks, BaseKept, Consistent
    <3>3. head.strikes[p] = 0
      BY <1>2, <2>1, NoStrikes DEF Pending
    <3>4. Stage(remote, p) \in {"unknown", "pending"} /\ Stage(remote, p)' = "converted"
      BY <3>1, <3>2 DEF Stage
    <3> QED BY <1>1, <3>3, <3>4
  <2>2. CASE p \in head.fixme \ base.fixme
    <3>1. p \notin remote.fixme /\ p \in remote'.fixme
      BY <1>1, <1>2, <2>2 DEF MainShrinks, Replay
    <3>2. p \notin remote.md /\ p \notin remote'.md
      BY <1>1, <1>2, <2>2 DEF MainShrinks, BaseKept, Consistent
    <3>3. head.strikes[p] = 0 /\ remote.strikes[p] = 2
      BY <1>2, <2>0, <2>2, NoStrikes DEF Pending, HeadLegal
    <3>4. p \in remote.inv
      BY <1>2, <3>3 DEF Consistent, Pending
    <3>5. Stage(remote, p) = "pending" /\ Stage(remote, p)' = "blocked"
      BY <3>1, <3>2, <3>4 DEF Stage
    <3> QED BY <1>1, <3>3, <3>5
  <2>3. CASE p \notin head.md \ base.md /\ p \notin head.fixme \ base.fixme
    <3>1. (p \in remote'.md <=> p \in remote.md) /\ (p \in remote'.fixme <=> p \in remote.fixme)
      BY <1>1, <1>2, <2>3 DEF Replay, BaseKept
    <3>2. p \in remote.inv => p \in head.inv
      BY <1>2 DEF HeadLegal, BaseOfMain
    <3>3. CASE p \in remote.md \cup remote.fixme
      <4>1. Stage(remote, p)' = Stage(remote, p)
        BY <3>1, <3>3 DEF Stage
      <4>2. p \in head.md \cup head.fixme
        BY <1>2, <3>3 DEF MainShrinks, BaseKept
      <4>3. head.strikes[p] = 0 /\ remote.strikes[p] = 0
        BY <1>2, <3>3, <4>2, NoStrikes DEF Pending
      <4> QED BY <1>1, <4>1, <4>3
    <3>4. CASE p \notin remote.md \cup remote.fixme
      <4>1. head.strikes[p] = remote.strikes[p] \/ head.strikes[p] = remote.strikes[p] + 1
        <5>1. CASE p \in Pending(head.inv, head)
          BY <1>2, <2>0, <5>1 DEF HeadLegal, LegalStrikes
        <5>2. CASE p \notin Pending(head.inv, head)
          <6>1. p \notin Pending(base.inv, base)
            BY <1>2, <2>3, <5>2 DEF Pending, HeadLegal
          <6> QED BY <1>2, <2>0, <5>2, <6>1, NoStrikes
        <5> QED BY <5>1, <5>2
      <4>2. CASE p \in remote.inv
        <5>1. Stage(remote, p) = "pending" /\ Stage(remote, p)' = "pending"
          BY <1>1, <3>1, <3>2, <3>4, <4>2 DEF Stage
        <5> QED BY <1>1, <2>0, <4>1, <5>1
      <4>3. CASE p \notin remote.inv
        <5>1. remote.strikes[p] = 0 /\ Stage(remote, p) = "unknown"
          BY <1>2, <3>4, <4>3, NoStrikes DEF Pending, Stage
        <5>2. CASE p \in head.inv
          <6>1. Stage(remote, p)' = "pending"
            BY <1>1, <3>1, <3>4, <5>2 DEF Stage
          <6> QED BY <1>1, <4>1, <5>1, <6>1
        <5>3. CASE p \notin head.inv
          <6>1. Stage(remote, p)' = "unknown"
            BY <1>1, <3>1, <3>4, <5>3 DEF Stage
          <6>2. head.strikes[p] = 0
            BY <1>2, <5>3, NoStrikes DEF Pending
          <6> QED BY <1>1, <5>1, <6>1, <6>2
        <5> QED BY <5>2, <5>3
      <4> QED BY <4>2, <4>3
    <3> QED BY <3>3, <3>4
  <2> QED BY <2>1, <2>2, <2>3
<1> QED BY <1>3, <1>4 DEF Main!Push, Stages

LEMMA EditIsLegal ==
  ASSUME ConsistentInv, NEW p \in Papers,
         RemoveMarker(p) \/ Requeue(p) \/ DeleteMarkdown(p)
  PROVE  Main!Reopen(p)
<1>0. remote \in Tree /\ Consistent(remote)
  BY InvFacts
<1>1. /\ remote'.inv = remote.inv /\ remote'.strikes = remote.strikes
      /\ \/ /\ p \in remote.fixme
            /\ remote'.fixme = remote.fixme \ {p} /\ remote'.md = remote.md
         \/ /\ p \in remote.md
            /\ remote'.md = remote.md \ {p} /\ remote'.fixme = remote.fixme
  <2>1. CASE RemoveMarker(p)
    BY <1>0, <2>1 DEF RemoveMarker, Reopen, Tree
  <2>2. CASE Requeue(p)
    <3>1. p \in remote.md /\ remote' = [remote EXCEPT !.md = @ \ {p}, !.figs = @ \ {p}]
      BY <2>2 DEF Requeue, Reopen
    <3> QED BY <1>0, <3>1 DEF Tree
  <2>3. CASE DeleteMarkdown(p)
    <3>1. p \in remote.md /\ remote' = [remote EXCEPT !.md = @ \ {p}]
      BY <2>3 DEF DeleteMarkdown, Reopen
    <3> QED BY <1>0, <3>1 DEF Tree
  <2> QED BY <2>1, <2>2, <2>3
<1>2. p \in remote.inv /\ ~(p \in remote.md /\ p \in remote.fixme)
  BY <1>0, <1>1 DEF Consistent
<1>3. Stage(remote, p) \in {"converted", "blocked"} /\ Stage(remote, p)' = "pending"
  BY <1>1, <1>2 DEF Stage
<1>4. \A q \in Papers \ {p} : Stage(remote, q)' = Stage(remote, q)
  BY <1>1 DEF Stage
<1> QED BY <1>1, <1>3, <1>4 DEF Main!Reopen

LEMMA StepIsLegal ==
  ASSUME ConsistentInv, ConsistentInv', LegalInv, [Next]_vars
  PROVE  Main!Next \/ UNCHANGED remote
<1>1. CASE Publish \/ FinalPush
  <2>1. remote' = Rebased(base, head, remote) /\ pc # "idle"
    BY <1>1 DEF Publish, FinalPush, PushHead
  <2> QED BY <2>1, PushIsLegal DEF Main!Next
<1>2. ASSUME NEW p \in Papers, RemoveMarker(p) \/ Requeue(p) \/ DeleteMarkdown(p)
      PROVE  Main!Next
  BY <1>2, EditIsLegal DEF Main!Next
<1>3. CASE UNCHANGED remote
  BY <1>3
<1> QED
  BY <1>1, <1>2, <1>3
  DEF Next, Run, Trouble, vars, trees, Launch, Fetch, WriteInventory, SaveCursor,
      CommitInventory, StartBatch, EndLoop, Convert, WriteIndex, SaveState, CommitBatch,
      PublishRaises, RollBack, RefuseDirty, Leave, FetchFails, DeadlinePasses,
      ConvertFails, PushRefused, PublishRefused, TransactionFails, RollBackFails,
      GiveUpPush, CutOff, DiscardChanges

\* The runs of the workflow keep the promise of Corpus to the readers of main: whatever
\* fails, is lost or is edited meanwhile, a paper is found, struck once at a time, blocked
\* at the third failure, converted, or opened again by a person, and nothing else.
THEOREM CorpusImplemented == ASSUME Automated PROVE Spec => ImplementsCorpus
<1>1. Init => Main!Init
  BY DEF Init, Main!Init, Stage, EmptyTree
<1>2. ConsistentInv /\ ConsistentInv' /\ LegalInv /\ [Next]_vars =>
        [Main!Next]_<<[p \in Papers |-> Stage(remote, p)], remote.strikes>>
  BY StepIsLegal DEF Stage
<1>3. ConsistentInv /\ ConsistentInv' /\ StrikeInv /\ LegalInv /\ [Next]_vars => LegalInv'
  BY LegalStep
<1>4. Init => StrikeInv
  BY DEF Init, StrikeInv, Running
<1> QED
  BY <1>1, <1>2, <1>3, <1>4, ConsistentInvInit, ConsistentInvStep, StrikesStep, LegalInit, PTL
  DEF Spec, ImplementsCorpus, Main!Spec, Main!corpus

-----------------------------------------------------------------------------
(***************************************************************************)
(* A clone that does not rebase.  There HEAD moves by commits alone, and   *)
(* what a batch makes of a paper is legal from HEAD: a run works on a      *)
(* worktree that has all of HEAD, since assert_clean refuses any other.    *)
(***************************************************************************)
BatchLegalInClone ==
  /\ \A p \in Pending(head.inv, head) \ (result.succeeded \cup result.promoted) :
       state.strikes[p] = head.strikes[p] \/ state.strikes[p] = head.strikes[p] + 1
  /\ \A p \in result.promoted : head.strikes[p] = 2

CloneInv ==
  /\ Stray \/ pc # "publish"
  /\ pc \in {"index", "save", "commit"} => BatchLegalInClone

LEMMA CloneConverted ==
  ASSUME ConsistentInv, NEW outcome \in [batch -> Outcome], NEW drawn \in SUBSET batch,
         Convert(outcome, drawn)
  PROVE  BatchLegalInClone'
<1>0. /\ pc = "convert" /\ UNCHANGED head
      /\ state' = [state EXCEPT !.strikes = StrikesAfter(outcome)]
      /\ result'.succeeded = Ended(outcome, "succeeded")
      /\ result'.promoted = Third(outcome)
  BY DEF Convert
<1>1. state = StateFile(head) /\ head \in Tree
  BY <1>0, InvFacts DEF LoopFacts, Steady
<1>2. state.strikes = head.strikes /\ state'.strikes = StrikesAfter(outcome)
  BY <1>0, <1>1, InvFacts DEF StateFile
<1>3. ASSUME NEW p \in Pending(head.inv, head),
             p \notin Ended(outcome, "succeeded") \cup Third(outcome)
      PROVE  \/ StrikesAfter(outcome)[p] = head.strikes[p]
             \/ StrikesAfter(outcome)[p] = head.strikes[p] + 1
  <2>0. p \in Papers
    BY <1>1 DEF Pending, Tree
  <2> QED BY <1>2, <1>3, <2>0 DEF StrikesAfter
<1>4. \A p \in Third(outcome) : head.strikes[p] = 2
  BY <1>2 DEF Third
<1> QED BY <1>0, <1>2, <1>3, <1>4 DEF BatchLegalInClone

LEMMA CloneStep ==
  ASSUME Stray \/ ~Publishing, ConsistentInv, CloneInv, [Next]_vars
  PROVE  CloneInv'
<1>1. ASSUME NEW outcome \in [batch -> Outcome], NEW drawn \in SUBSET batch,
             Convert(outcome, drawn)
      PROVE  CloneInv'
  BY <1>1, CloneConverted DEF CloneInv, Convert
<1>2. CASE CommitBatch
  BY <1>2 DEF CommitBatch, CloneInv
<1>3. ASSUME pc' \notin {"index", "save", "commit", "publish"} PROVE CloneInv'
  BY <1>3 DEF CloneInv
<1>4. CASE \/ Launch \/ \E delivered \in SUBSET (Papers \ state.seen) : Fetch(delivered)
           \/ WriteInventory \/ SaveCursor \/ CommitInventory \/ StartBatch \/ EndLoop
           \/ Publish \/ PublishRaises \/ RollBack \/ RefuseDirty \/ FinalPush \/ Leave
  BY <1>3, <1>4
  DEF Launch, Fetch, WriteInventory, SaveCursor, CommitInventory, StartBatch, EndLoop,
      Publish, PublishRaises, RollBack, RefuseDirty, FinalPush, Leave, Exit
<1>5. CASE \/ FetchFails \/ DeadlinePasses \/ PushRefused \/ PublishRefused
           \/ TransactionFails \/ RollBackFails \/ GiveUpPush \/ CutOff
           \/ \E succeeded, marked, drawn \in SUBSET batch :
                ConvertFails(succeeded, marked, drawn)
  BY <1>3, <1>5
  DEF FetchFails, DeadlinePasses, PushRefused, PublishRefused, TransactionFails,
      RollBackFails, ConvertFails, GiveUpPush, CutOff, Exit
<1>6. ASSUME UNCHANGED <<head, state, result>>,
             pc' = pc \/ (pc \in {"index", "save"} /\ pc' \in {"save", "commit"})
      PROVE  CloneInv'
  BY <1>6 DEF CloneInv, BatchLegalInClone
<1>7. CASE WriteIndex \/ SaveState \/ DiscardChanges \/ UNCHANGED vars
  BY <1>6, <1>7 DEF WriteIndex, SaveState, DiscardChanges, vars, trees, loop
<1>8. ASSUME NEW p \in Papers, RemoveMarker(p) \/ Requeue(p) \/ DeleteMarkdown(p)
      PROVE  CloneInv'
  BY <1>6, <1>8 DEF RemoveMarker, Requeue, DeleteMarkdown, Reopen, loop
<1> QED
  BY <1>1, <1>2, <1>4, <1>5, <1>7, <1>8 DEF Next, Run, Trouble

\* The inventory commit finds papers.
LEMMA InventoryIsLegal ==
  ASSUME ConsistentInv, ConsistentInv', CommitInventory
  PROVE  Clone!Push
<1>1. /\ head \in Tree /\ head' \in Tree /\ Consistent(head)
      /\ head'.md = head.md /\ head'.fixme = head.fixme /\ head'.strikes = head.strikes
  BY InventoryCommit, InvFacts DEF ConsistentInv, TypeInv, TypeOK, TreesOK
<1>2. head.inv \subseteq head'.inv
  <2>1. Fetched /\ worktree.inv = inventory /\ head \in Tree
    BY InvFacts DEF CommitInventory, FetchFacts, Tree
  <2>2. head'.inv = worktree.inv
    BY <2>1 DEF CommitInventory, Tree
  <2> QED BY <2>1, <2>2 DEF Fetched
<1>3. /\ [p \in Papers |-> Stage(head', p)] \in [Papers -> Clone!Life]
      /\ head'.strikes \in [Papers -> 0..Clone!MaxStrikes]
  BY <1>1 DEF Stage, Clone!Life, Clone!MaxStrikes, Tree
<1>4. ASSUME NEW p \in Papers PROVE Clone!Stays(p) \/ Clone!Found(p)
  <2>1. CASE p \in head.inv \/ p \notin head'.inv
    <3>1. Stage(head', p) = Stage(head, p)
      BY <1>1, <1>2, <2>1 DEF Stage, Consistent
    <3> QED BY <1>1, <3>1 DEF Clone!Stays, Stage
  <2>2. CASE p \notin head.inv /\ p \in head'.inv
    <3>1. p \notin head.md \cup head.fixme
      BY <1>1, <2>2 DEF Consistent
    <3>2. Stage(head, p) = "unknown" /\ Stage(head', p) = "pending"
      BY <1>1, <2>2, <3>1 DEF Stage
    <3>3. head.strikes[p] = 0
      BY <1>1, <2>2, NoStrikes DEF Pending
    <3> QED BY <1>1, <3>2, <3>3 DEF Clone!Found, Stage
  <2> QED BY <2>1, <2>2
<1> QED BY <1>3, <1>4 DEF Clone!Push, Stage

\* The commit of a batch converts, blocks and strikes papers that were pending in HEAD.
LEMMA BatchIsLegal ==
  ASSUME ConsistentInv, ConsistentInv', CloneInv, CommitBatch
  PROVE  Clone!Push
<1>1. /\ head \in Tree /\ head' \in Tree /\ Consistent(head)
      /\ Batched /\ BatchLegalInClone
      /\ head'.inv = head.inv /\ head'.strikes = state.strikes
      /\ head'.md = head.md \cup result.succeeded
      /\ head'.fixme = head.fixme \cup result.promoted
  BY BatchCommit, InvFacts
  DEF ConsistentInv, TypeInv, TypeOK, TreesOK, Batched, CommitBatch, CloneInv
<1>2. /\ [p \in Papers |-> Stage(head', p)] \in [Papers -> Clone!Life]
      /\ head'.strikes \in [Papers -> 0..Clone!MaxStrikes]
  BY <1>1 DEF Stage, Clone!Life, Clone!MaxStrikes, Tree
<1>3. ASSUME NEW p \in Papers
      PROVE  Clone!Stays(p) \/ Clone!Fails(p) \/ Clone!Blocks(p) \/ Clone!Converts(p)
  <2>0. head.strikes[p] \in 0..2 /\ head'.strikes[p] \in 0..2
    BY <1>1 DEF Tree
  <2>1. CASE p \notin Pending(head.inv, head)
    <3>1. p \notin result.succeeded \cup result.promoted
      BY <1>1, <2>1 DEF Batched
    <3>2. Stage(head', p) = Stage(head, p)
      BY <1>1, <3>1 DEF Stage
    <3>3. head.strikes[p] = 0 /\ head'.strikes[p] = 0
      BY <1>1, <2>0, <2>1, NoStrikes DEF Batched
    <3> QED BY <3>2, <3>3 DEF Clone!Stays, Stage
  <2>2. CASE p \in Pending(head.inv, head)
    <3>1. p \in head.inv /\ p \notin head.md \cup head.fixme /\ Stage(head, p) = "pending"
      BY <2>2 DEF Pending, Stage
    <3>2. CASE p \in result.succeeded
      <4>1. Stage(head', p) = "converted" /\ head'.strikes[p] = 0
        BY <1>1, <2>0, <3>2 DEF Stage, Batched
      <4> QED BY <3>1, <4>1 DEF Clone!Converts, Clone!Waiting, Stage
    <3>3. CASE p \in result.promoted
      <4>1. p \notin head'.md /\ p \in head'.fixme
        BY <1>1, <3>1, <3>3 DEF Batched
      <4>2. Stage(head', p) = "blocked" /\ head'.strikes[p] = 0 /\ head.strikes[p] = 2
        BY <1>1, <2>0, <3>3, <4>1 DEF Stage, Batched, BatchLegalInClone
      <4> QED BY <3>1, <4>2 DEF Clone!Blocks, Clone!MaxStrikes, Stage
    <3>4. CASE p \notin result.succeeded \cup result.promoted
      <4>1. Stage(head', p) = "pending"
        BY <1>1, <3>1, <3>4 DEF Stage
      <4>2. head'.strikes[p] = head.strikes[p] \/ head'.strikes[p] = head.strikes[p] + 1
        BY <1>1, <2>2, <3>4 DEF BatchLegalInClone
      <4> QED BY <2>0, <3>1, <4>1, <4>2 DEF Clone!Stays, Clone!Fails, Clone!MaxStrikes, Stage
    <3> QED BY <3>2, <3>3, <3>4
  <2> QED BY <2>1, <2>2
<1> QED BY <1>2, <1>3 DEF Clone!Push, Stage

LEMMA CloneStepIsLegal ==
  ASSUME ~Automated, Stray \/ ~Publishing, ConsistentInv, ConsistentInv', CloneInv,
         [Next]_vars
  PROVE  Clone!Next \/ UNCHANGED head
<1>1. CASE CommitInventory \/ CommitBatch
  BY <1>1, InventoryIsLegal, BatchIsLegal DEF Clone!Next
<1>2. CASE Publish \/ PushRefused \/ FinalPush
  BY <1>2 DEF Publish, PushRefused, FinalPush, CanRebase, CloneInv
<1>3. CASE Launch
  BY <1>3 DEF Launch
<1>4. CASE UNCHANGED head
  BY <1>4
<1> QED
  BY <1>1, <1>2, <1>3, <1>4
  DEF Next, Run, Trouble, vars, trees, Fetch, WriteInventory, SaveCursor, StartBatch,
      EndLoop, Convert, WriteIndex, SaveState, PublishRaises, RollBack, RefuseDirty, Leave,
      FetchFails, DeadlinePasses, ConvertFails, PublishRefused, TransactionFails,
      RollBackFails, GiveUpPush, CutOff, RemoveMarker, Requeue, DeleteMarkdown, Reopen,
      DiscardChanges

\* In a developer's clone that does not rebase, because nothing is published or because a
\* stray change makes every publish raise, each commit is a legal step of the life of every
\* paper, whatever fails and however far a rollback takes the worktree behind HEAD.
THEOREM CloneImplemented ==
  ASSUME ~Automated, Stray \/ ~Publishing PROVE Spec => CloneImplementsCorpus
<1>1. Init => Clone!Init /\ CloneInv
  BY DEF Init, Clone!Init, CloneInv, Stage, EmptyTree
<1>2. ConsistentInv /\ ConsistentInv' /\ CloneInv /\ [Next]_vars =>
        [Clone!Next]_<<[p \in Papers |-> Stage(head, p)], head.strikes>>
  BY CloneStepIsLegal DEF Stage
<1>3. ConsistentInv /\ CloneInv /\ [Next]_vars => CloneInv'
  BY CloneStep
<1> QED
  BY <1>1, <1>2, <1>3, ConsistentInvInit, ConsistentInvStep, PTL
  DEF Spec, CloneImplementsCorpus, Clone!Spec, Clone!corpus

=============================================================================
