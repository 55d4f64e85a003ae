------------------------- MODULE MaintenanceProofs -------------------------
(***************************************************************************)
(* Proofs about the two workflows that open pull requests: the script      *)
(* leaves its checkout as it found it, and shards cover the corpus.        *)
(***************************************************************************)
EXTENDS Maintenance, FiniteSetTheorems, TLAPS

-----------------------------------------------------------------------------
(***************************************************************************)
(* Types.                                                                  *)
(***************************************************************************)
RequestOK(r) == r.from \in Releases /\ r.to \in Releases

\* TypeOK, and that Copier, requests and patches are given releases.
Typed ==
  /\ TypeOK
  /\ updating \in {"commit", "copier"} => target \in Releases
  /\ RequestOK(patch)
  /\ \A r \in request : RequestOK(r)

\* The scripts' constants are commits and corpora.
LEMMA StartTyped == Start \in Commits /\ NoPaper \in Corpora /\ 1 \in Releases
BY MaintenanceAssumption DEF Start, Commits, Releases, NoPaper, Corpora, Contents, Absent

\* The changes of the papers that a patch may consist of.
Changes == [paper : Papers, before : Contents, after : Contents]

\* Shards and their requests change papers only.
StyleTyped ==
  /\ shard_patch \in [Jobs -> SUBSET Changes]
  /\ style_request \subseteq SUBSET Changes

\* Differences are changes of papers.
LEMMA DiffTyped ==
  ASSUME NEW before, NEW after
  PROVE  Diff(before, after) \subseteq Changes
BY DEF Diff, Changes

\* A corpus stays one under a patch.
LEMMA ApplyTyped ==
  ASSUME NEW papers \in Corpora, NEW diff \in SUBSET Changes
  PROVE  Apply(papers, diff) \in Corpora
<1>1. ASSUME NEW p \in Papers, p \in Changed(diff)
      PROVE  (CHOOSE c \in diff : c.paper = p).after \in Contents
  <2>1. \E c \in diff : c.paper = p
    BY <1>1 DEF Changed
  <2>2. (CHOOSE c \in diff : c.paper = p) \in diff
    BY <2>1
  <2> QED BY <2>2 DEF Changes
<1> QED BY <1>1 DEF Apply, Corpora

\* Changes within the bound.
LEMMA ChangeTyped ==
  ASSUME changes \in 0 .. MaxChanges, Change \/ UNCHANGED changes
  PROVE  changes' \in 0 .. MaxChanges
BY MaintenanceAssumption DEF Change

\* The types, inductive together.
LEMMA TypedAlways == Spec => [](Typed /\ StyleTyped)
<1> DEFINE Inv == Typed /\ StyleTyped
<1>1. Init => Inv
  <2> SUFFICES ASSUME Init PROVE Inv
    OBVIOUS
  <2>1. main \in Commits
    <3>1. PICK papers \in [Papers -> {Absent, [text |-> "first", tidy |-> FALSE]}] :
            main = [release |-> 1, papers |-> papers]
      BY DEF Init
    <3>2. Absent \in Contents /\ [text |-> "first", tidy |-> FALSE] \in Contents
      BY DEF Contents, Absent
    <3>3. papers \in Corpora
      BY <3>2 DEF Corpora
    <3> QED BY <3>1, <3>3, StartTyped DEF Commits
  <2>2. TypeOK
    <3>1. /\ base \in Commits /\ head \in Commits /\ tree \in Commits
          /\ backup \in Corpora /\ plan_base \in Corpora
          /\ target \in References /\ rejected \in BOOLEAN
      BY StartTyped DEF Init, References
    <3>2. /\ updating \in Script \cup {"idle", "publish"}
          /\ formatting \in {"idle", "format"}
          /\ shard \in [Jobs -> {"waiting", "formatted", "failed"}]
          /\ changes \in 0 .. MaxChanges
      BY MaintenanceAssumption DEF Init
    <3> QED BY <2>1, <3>1, <3>2 DEF TypeOK
  <2>3. RequestOK(patch) /\ request = {}
    BY StartTyped DEF Init, RequestOK, NoPatch
  <2>4. StyleTyped
    BY DEF Init, StyleTyped
  <2> QED BY <2>2, <2>3, <2>4 DEF Typed, Init
<1>2. Inv /\ [Next]_vars => Inv'
  <2> SUFFICES ASSUME Inv, [Next]_vars PROVE Inv'
    OBVIOUS
  <2> USE DEF Typed, TypeOK
  <2>1. CASE MainMoves
    <3>1. changes' \in 0 .. MaxChanges
      BY <2>1, ChangeTyped DEF MainMoves
    <3>2. main' \in Commits
      <4>1. CASE \E p \in Papers, c \in {Absent} \cup [text : {"first", "second"}, tidy : BOOLEAN] :
                   main' = [main EXCEPT !.papers[p] = c]
        <5>1. PICK p \in Papers, c \in {Absent} \cup [text : {"first", "second"}, tidy : BOOLEAN] :
                     main' = [main EXCEPT !.papers[p] = c]
          BY <4>1
        <5>2. c \in Contents
          <6>1. CASE c = Absent
            BY <6>1 DEF Contents, Absent
          <6>2. CASE c \in [text : {"first", "second"}, tidy : BOOLEAN]
            BY <6>2 DEF Contents
          <6> QED BY <6>1, <6>2
        <5> QED BY <5>1, <5>2 DEF Commits, Corpora
      <4>2. CASE \E r \in Releases : main' = [main EXCEPT !.release = r]
        BY <4>2 DEF Commits
      <4> QED BY <2>1, <4>1, <4>2 DEF MainMoves
    <3> QED BY <2>1, <3>1, <3>2 DEF MainMoves, update, format, RequestOK, StyleTyped
  <2>2. CASE CheckOut
    BY <2>2, StartTyped DEF CheckOut, format, RequestOK, NoPatch, StyleTyped, Script
  <2>3. CASE NothingToUpdate
    BY <2>3 DEF NothingToUpdate, format, RequestOK, StyleTyped, Script
  <2>4. CASE MoveCorpus
    <3>1. tree' \in Commits /\ backup' \in Corpora
      BY <2>4, StartTyped DEF MoveCorpus, Commits
    <3>2. target' \in Releases
      BY <2>4 DEF MoveCorpus, NewerRelease
    <3> QED BY <2>4, <3>1, <3>2 DEF MoveCorpus, format, RequestOK, StyleTyped, Script
  <2>5. CASE CommitWithout
    <3>1. head' \in Commits
      BY <2>5, StartTyped DEF CommitWithout, Commits
    <3> QED BY <2>5, <3>1 DEF CommitWithout, format, RequestOK, StyleTyped, Script
  <2>6. CASE CopierUpdate
    <3>1. tree' \in Commits
      BY <2>6 DEF CopierUpdate, Commits
    <3> QED BY <2>6, <3>1 DEF CopierUpdate, format, RequestOK, StyleTyped, Script
  <2>7. CASE CommandFails
    <3>1. changes' \in 0 .. MaxChanges
      BY <2>7, ChangeTyped DEF CommandFails
    <3> QED BY <2>7, <3>1 DEF CommandFails, format, RequestOK, StyleTyped, Script
  <2>8. CASE MoveBack
    <3>1. tree' \in Commits /\ backup' \in Corpora
      BY <2>8, StartTyped DEF MoveBack, Commits
    <3> QED BY <2>8, <3>1 DEF MoveBack, format, RequestOK, StyleTyped, Script
  <2>20. CASE ResetHead
    BY <2>20 DEF ResetHead, format, RequestOK, StyleTyped, Script
  <2>9. CASE Invalid
    <3>1. changes' \in 0 .. MaxChanges
      BY <2>9, ChangeTyped DEF Invalid
    <3> QED BY <2>9, <3>1 DEF Invalid, format, RequestOK, StyleTyped, Script
  <2>10. CASE CreatePatch
    <3>1. RequestOK(patch')
      BY <2>10 DEF CreatePatch, RequestOK, Commits
    <3> QED BY <2>10, <3>1 DEF CreatePatch, format, RequestOK, StyleTyped, Script
  <2>11. CASE OpenRequest
    BY <2>11 DEF OpenRequest, format, RequestOK, StyleTyped, Script
  <2>12. CASE PublishFails
    <3>1. changes' \in 0 .. MaxChanges
      BY <2>12, ChangeTyped DEF PublishFails
    <3> QED BY <2>12, <3>1 DEF PublishFails, format, RequestOK, StyleTyped, Script
  <2>13. CASE Plan
    <3>1. plan_base' \in Corpora
      BY <2>13 DEF Plan, Commits
    <3> QED BY <2>13, <3>1 DEF Plan, update, RequestOK, StyleTyped
  <2>14. ASSUME NEW k \in Jobs, FormatShard(k) PROVE Inv'
    <3>1. changes' \in 0 .. MaxChanges
      BY <2>14, ChangeTyped DEF FormatShard
    <3>2. shard' \in [Jobs -> {"waiting", "formatted", "failed"}]
      BY <2>14 DEF FormatShard
    <3>3. StyleTyped'
      BY <2>14, DiffTyped DEF FormatShard, StyleTyped
    <3> QED BY <2>14, <3>1, <3>2, <3>3 DEF FormatShard, update, RequestOK
  <2>15. CASE Combine
    <3>1. StyleTyped'
      BY <2>15 DEF Combine, Combined, StyleTyped
    <3> QED BY <2>15, <3>1 DEF Combine, update, RequestOK
  <2>16. CASE FormattingFails
    <3>1. changes' \in 0 .. MaxChanges
      BY <2>16, ChangeTyped DEF FormattingFails
    <3> QED BY <2>16, <3>1 DEF FormattingFails, update, RequestOK, StyleTyped
  <2>17. CASE MergeUpdate
    <3>1. main' \in Commits
      BY <2>17 DEF MergeUpdate, RequestOK, Commits
    <3> QED BY <2>17, <3>1 DEF MergeUpdate, format, RequestOK, StyleTyped
  <2>18. CASE MergeStyle
    <3>1. main' \in Commits
      <4>1. PICK diff \in style_request : main' = [main EXCEPT !.papers = Apply(@, diff)]
        BY <2>18 DEF MergeStyle
      <4>2. Apply(main.papers, diff) \in Corpora
        BY ApplyTyped DEF StyleTyped, Commits
      <4> QED BY <4>1, <4>2 DEF Commits
    <3> QED BY <2>18, <3>1 DEF MergeStyle, update, RequestOK, StyleTyped
  <2>19. CASE UNCHANGED vars
    BY <2>19 DEF vars, update, format, RequestOK, StyleTyped
  <2> QED
    BY <2>1, <2>2, <2>3, <2>4, <2>5, <2>6, <2>7, <2>8, <2>9, <2>10, <2>11, <2>12, <2>13,
       <2>14, <2>15, <2>16, <2>17, <2>18, <2>19, <2>20 DEF Next, Update, Format
<1> QED BY <1>1, <1>2, PTL DEF Spec

\* Every state is well formed: no reference but a release reaches the checkout, and
\* every patch is one of known releases and papers (template-update.sh:4-40).
THEOREM MaintenanceTypeCorrect == Spec => []TypeOK
<1>1. Typed => TypeOK
  BY DEF Typed
<1> QED BY <1>1, TypedAlways, PTL

-----------------------------------------------------------------------------
(***************************************************************************)
(* The checkout of the update.                                             *)
(***************************************************************************)
MovedAside == tree.papers = NoPaper /\ backup = base.papers
MovedBack  == tree.papers = base.papers /\ backup = NoPaper
AsFound    == MovedBack /\ head = base

\* What is where at each step of the script: TypeOK and CorpusComesBack alone do not say
\* where the corpus is while Copier runs, nor which release it was given.
ScriptInv ==
  /\ updating \in {"idle", "check", "restored", "publish"} => AsFound
  /\ updating = "check" => tree = base
  /\ updating \in {"commit", "copier", "restore"} => MovedAside
  /\ updating = "trap" => MovedAside \/ MovedBack
  /\ updating \in {"reset", "trap_reset"} => MovedBack
  /\ updating \in {"commit", "copier", "restore", "reset", "restored"} =>
       target > base.release
  /\ updating \in {"restore", "reset", "restored"} => tree.release = target
  /\ updating = "publish" =>
       /\ patch.from = base.release /\ patch.from < patch.to
       /\ patch.papers = {}
  /\ \A r \in request : r.from < r.to /\ r.papers = {}

\* A tree does not differ from itself.
LEMMA DiffSame == ASSUME NEW papers PROVE Diff(papers, papers) = {}
BY DEF Diff

LEMMA ScriptInvariant == Spec => []ScriptInv
<1> DEFINE Inv == ScriptInv
<1>1. Init => ScriptInv
  BY DEF Init, ScriptInv, AsFound, MovedBack, Start
<1>2. TypeOK /\ ScriptInv /\ [Next]_vars => ScriptInv'
  <2> SUFFICES ASSUME TypeOK, ScriptInv, [Next]_vars PROVE ScriptInv'
    OBVIOUS
  <2> USE DEF ScriptInv, AsFound, MovedAside, MovedBack
  <2>1. CASE CheckOut
    BY <2>1 DEF CheckOut
  <2>2. CASE NothingToUpdate
    BY <2>2 DEF NothingToUpdate
  <2>3. CASE MoveCorpus
    <3>1. target > base.release
      BY <2>3 DEF MoveCorpus, NewerRelease
    <3>2. tree'.papers = NoPaper
      BY <2>3 DEF MoveCorpus, TypeOK, Commits
    <3> QED BY <2>3, <3>1, <3>2 DEF MoveCorpus
  <2>4. CASE CommitWithout
    BY <2>4 DEF CommitWithout
  <2>5. CASE CopierUpdate
    <3>1. tree'.release = target /\ tree'.papers = tree.papers
      BY <2>5 DEF CopierUpdate, TypeOK, Commits
    <3> QED BY <2>5, <3>1 DEF CopierUpdate
  <2>6. CASE CommandFails
    BY <2>6 DEF CommandFails
  <2>7. CASE MoveBack
    <3>1. tree'.papers = base.papers /\ tree'.release = tree.release
      BY <2>7 DEF MoveBack, TypeOK, Commits
    <3> QED BY <2>7, <3>1 DEF MoveBack
  <2>14. CASE ResetHead
    BY <2>14 DEF ResetHead
  <2>8. CASE Invalid
    BY <2>8 DEF Invalid
  <2>9. CASE CreatePatch
    <3>1. patch'.papers = {}
      BY <2>9, DiffSame DEF CreatePatch
    <3>2. patch'.from = base.release /\ patch'.from < patch'.to
      BY <2>9 DEF CreatePatch, TypeOK, Commits, Releases, References
    <3> QED BY <2>9, <3>1, <3>2 DEF CreatePatch
  <2>10. CASE OpenRequest
    BY <2>10 DEF OpenRequest
  <2>11. CASE PublishFails
    BY <2>11 DEF PublishFails
  <2>12. CASE MergeUpdate
    BY <2>12 DEF MergeUpdate
  <2>13. CASE MainMoves \/ Format \/ MergeStyle \/ UNCHANGED vars
    BY <2>13 DEF MainMoves, Format, Plan, FormatShard, Combine, FormattingFails, MergeStyle,
                 vars, update
  <2> QED
    BY <2>1, <2>2, <2>3, <2>4, <2>5, <2>6, <2>7, <2>8, <2>9, <2>10, <2>11, <2>12, <2>13,
       <2>14 DEF Next, Update
<1> QED BY <1>1, <1>2, MaintenanceTypeCorrect, PTL DEF Spec

\* However the script ends, the checkout is as it was found (template-update.sh:48-72).
THEOREM CorpusRestored == Spec => []CorpusComesBack
<1>1. ScriptInv => CorpusComesBack
  BY DEF ScriptInv, AsFound, MovedBack, CorpusComesBack
<1> QED BY <1>1, ScriptInvariant, PTL

\* Pull requests and patches go forward from the commit that was validated, and touch no
\* paper (template-update.sh:26-40, template-update.yml:94-110).
THEOREM UpdatesGoForward == Spec => []UpdatesAreForward
<1>1. ScriptInv => UpdatesAreForward
  BY DEF ScriptInv, UpdatesAreForward
<1> QED BY <1>1, ScriptInvariant, PTL

-----------------------------------------------------------------------------
(***************************************************************************)
(* The shards of the formatting.                                           *)
(***************************************************************************)
\* The place of a file, from zero.
Position(p) == Cardinality({q \in Filed(plan_base) : q < p})

\* What shard k uploads.
PatchOf(k) ==
  Diff(plan_base, [p \in Papers |-> IF p \in Owned(plan_base, k)
                                    THEN Tidied(plan_base[p]) ELSE plan_base[p]])

\* A finished shard has formatted its share of the planned commit.
ShardInv ==
  formatting = "format" =>
    \A k \in Jobs : shard[k] = "formatted" => shard_patch[k] = PatchOf(k)

LEMMA ShardInvariant == Spec => []ShardInv
<1>1. Init => ShardInv
  BY DEF Init, ShardInv
<1>2. TypeOK /\ StyleTyped /\ ShardInv /\ [Next]_vars => ShardInv'
  <2> SUFFICES ASSUME TypeOK, StyleTyped, ShardInv, [Next]_vars PROVE ShardInv'
    OBVIOUS
  <2>1. CASE Plan
    BY <2>1 DEF Plan, ShardInv
  <2>2. ASSUME NEW k \in Jobs, FormatShard(k) PROVE ShardInv'
    <3>1. plan_base' = plan_base /\ formatting' = formatting
      BY <2>2 DEF FormatShard
    <3>2. ASSUME NEW l \in Jobs, shard'[l] = "formatted"
          PROVE  shard_patch'[l] = PatchOf(l)
      BY <2>2, <3>2 DEF FormatShard, ShardInv, PatchOf, ShardCheckout, TypeOK, StyleTyped
    <3> QED BY <3>1, <3>2 DEF ShardInv, PatchOf
  <2>3. CASE Combine \/ FormattingFails
    BY <2>3 DEF Combine, FormattingFails, ShardInv
  <2>4. CASE MainMoves \/ Update \/ MergeUpdate \/ MergeStyle \/ UNCHANGED vars
    BY <2>4 DEF MainMoves, Update, CheckOut, NothingToUpdate, MoveCorpus, CommitWithout,
         CopierUpdate, CommandFails, MoveBack, ResetHead, Invalid, CreatePatch, OpenRequest,
         PublishFails,
         MergeUpdate, MergeStyle, vars, format, ShardInv, PatchOf
  <2> QED BY <2>1, <2>2, <2>3, <2>4 DEF Next, Format
<1> QED BY <1>1, <1>2, MaintenanceTypeCorrect, TypedAlways, PTL DEF Spec

\* Every file is owned by the job with its position's remainder, and by no other.
LEMMA OwnedOnce ==
  ASSUME plan_base \in Corpora, NEW p \in Filed(plan_base)
  PROVE  /\ Position(p) % Shards \in Jobs
         /\ \A k \in Jobs : p \in Owned(plan_base, k) <=> k = Position(p) % Shards
<1>1. IsFiniteSet({q \in Filed(plan_base) : q < p})
  BY MaintenanceAssumption, FS_Subset DEF Filed
<1>2. Position(p) \in Nat
  BY <1>1, FS_CardinalityType DEF Position
<1>3. Position(p) % Shards \in Jobs
  BY <1>2, MaintenanceAssumption DEF Jobs
<1>4. \A k \in Jobs : p \in Owned(plan_base, k) <=> Position(p) % Shards = k
  BY DEF Owned, Position
<1> QED BY <1>3, <1>4

\* The changes in a shard's patch: its own files that are not tidy yet.
LEMMA PatchChanges ==
  ASSUME plan_base \in Corpora, NEW k \in Jobs
  PROVE  \A c : c \in PatchOf(k) <=>
                 /\ c \in Changes
                 /\ c.paper \in Owned(plan_base, k)
                 /\ c.before = plan_base[c.paper] /\ c.after = Tidied(plan_base[c.paper])
                 /\ c.before # c.after
BY DEF PatchOf, Diff, Changes, Owned, Filed

\* The shards' patches apply in turn to the planned commit, and format each of its files
\* (format-corpus.yml:56-95, 105-126; formatting.py:30-44).
THEOREM ShardsCombineAlways == Spec => []ShardsCombine
<1>1. TypeOK /\ ShardInv => ShardsCombine
  <2> SUFFICES ASSUME TypeOK, ShardInv,
                      formatting = "format", \A k \in Jobs : shard[k] = "formatted"
               PROVE  /\ AllApply
                      /\ Apply(plan_base, Combined) =
                           [p \in Papers |-> IF plan_base[p] = Absent THEN Absent
                                             ELSE Tidied(plan_base[p])]
    BY DEF ShardsCombine
  <2>1. \A k \in Jobs : shard_patch[k] = PatchOf(k)
    BY DEF ShardInv
  <2>2. plan_base \in Corpora
    BY DEF TypeOK
  <2>3. \A k \in Jobs : \A c \in shard_patch[k] :
          /\ c.paper \in Owned(plan_base, k)
          /\ c.before = plan_base[c.paper] /\ c.after = Tidied(plan_base[c.paper])
    BY <2>1, <2>2, PatchChanges
  <2>4. AllApply
    <3>1. FitsOn(plan_base, Combined)
      BY <2>3 DEF FitsOn, Combined
    <3>2. ASSUME NEW k \in Jobs, NEW l \in Jobs, k # l
          PROVE  Changed(shard_patch[k]) \cap Changed(shard_patch[l]) = {}
      <4>1. \A p \in Changed(shard_patch[k]) : p \in Owned(plan_base, k)
        BY <2>3 DEF Changed
      <4>2. \A p \in Changed(shard_patch[l]) : p \in Owned(plan_base, l)
        BY <2>3 DEF Changed
      <4>3. \A p : p \in Owned(plan_base, k) => p \notin Owned(plan_base, l)
        BY <3>2, <2>2, OwnedOnce DEF Owned
      <4> QED BY <4>1, <4>2, <4>3
    <3> QED BY <3>1, <3>2 DEF AllApply
  <2>5. ASSUME NEW p \in Papers
        PROVE  Apply(plan_base, Combined)[p] =
                 IF plan_base[p] = Absent THEN Absent ELSE Tidied(plan_base[p])
    <3>1. \A c \in Combined : c.paper = p =>
            p \in Filed(plan_base) /\ c.after = Tidied(plan_base[p])
      BY <2>3 DEF Combined, Owned
    <3>2. CASE p \in Changed(Combined)
      <4>1. \E c \in Combined : c.paper = p
        BY <3>2 DEF Changed
      <4>2. (CHOOSE c \in Combined : c.paper = p) \in Combined /\
            (CHOOSE c \in Combined : c.paper = p).paper = p
        BY <4>1
      <4>3. Apply(plan_base, Combined)[p] = Tidied(plan_base[p]) /\ p \in Filed(plan_base)
        BY <3>1, <3>2, <4>2 DEF Apply
      <4> QED BY <4>3 DEF Filed
    <3>3. CASE p \notin Changed(Combined)
      <4>1. Apply(plan_base, Combined)[p] = plan_base[p]
        BY <3>3 DEF Apply
      <4>2. ASSUME plan_base[p] # Absent PROVE plan_base[p] = Tidied(plan_base[p])
        <5>1. p \in Filed(plan_base)
          BY <4>2 DEF Filed
        <5>2. PICK k \in Jobs : p \in Owned(plan_base, k)
          BY <5>1, <2>2, OwnedOnce
        <5>3. plan_base[p] \in Contents /\ Tidied(plan_base[p]) \in Contents
          BY <2>2 DEF Corpora, Contents, Tidied
        <5> DEFINE change == [paper |-> p, before |-> plan_base[p],
                              after |-> Tidied(plan_base[p])]
        <5>4. ASSUME plan_base[p] # Tidied(plan_base[p]) PROVE change \in PatchOf(k)
          <6>1. change \in Changes
            BY <5>3 DEF Changes
          <6> QED BY <6>1, <5>2, <5>4, <2>2, PatchChanges
        <5>5. change \in PatchOf(k) => p \in Changed(Combined)
          BY <2>1 DEF Changed, Combined
        <5> QED BY <5>4, <5>5, <3>3
      <4> QED BY <4>1, <4>2
    <3> QED BY <3>2, <3>3
  <2>6. Apply(plan_base, Combined) = [p \in Papers |-> Apply(plan_base, Combined)[p]]
    BY DEF Apply
  <2> QED BY <2>4, <2>5, <2>6
<1> QED BY <1>1, ShardInvariant, MaintenanceTypeCorrect, PTL

-----------------------------------------------------------------------------
(***************************************************************************)
(* Merging.                                                                *)
(***************************************************************************)
\* Formatting changes no text.
StyleOnly(diff) == \A c \in diff : c.after.text = c.before.text

StyleInv ==
  /\ \A k \in Jobs : StyleOnly(shard_patch[k])
  /\ \A diff \in style_request : StyleOnly(diff)

LEMMA StyleInvariant == Spec => []StyleInv
<1>1. Init => StyleInv
  BY DEF Init, StyleInv, StyleOnly
<1>2. TypeOK /\ StyleTyped /\ StyleInv /\ [Next]_vars => StyleInv'
  <2> SUFFICES ASSUME TypeOK, StyleTyped, StyleInv, [Next]_vars PROVE StyleInv'
    OBVIOUS
  <2> USE DEF StyleInv, StyleOnly
  <2>1. CASE Plan
    BY <2>1 DEF Plan
  <2>2. ASSUME NEW k \in Jobs, FormatShard(k) PROVE StyleInv'
    <3>1. StyleOnly(PatchOf(k))
      <4>1. \A p \in Papers : Tidied(plan_base[p]).text = plan_base[p].text
        BY DEF TypeOK, Corpora, Contents, Tidied
      <4> QED BY <4>1 DEF PatchOf, Diff
    <3>2. shard_patch' \in {shard_patch, [shard_patch EXCEPT ![k] = PatchOf(k)]}
      BY <2>2 DEF FormatShard, PatchOf, ShardCheckout
    <3>3. style_request' = style_request
      BY <2>2 DEF FormatShard
    <3> QED BY <3>1, <3>2, <3>3 DEF StyleTyped
  <2>3. CASE Combine
    BY <2>3 DEF Combine, Combined
  <2>4. CASE FormattingFails \/ MergeStyle
    BY <2>4 DEF FormattingFails, MergeStyle
  <2>5. CASE MainMoves \/ Update \/ MergeUpdate \/ UNCHANGED vars
    BY <2>5 DEF MainMoves, Update, CheckOut, NothingToUpdate, MoveCorpus, CommitWithout,
         CopierUpdate, CommandFails, MoveBack, ResetHead, Invalid, CreatePatch, OpenRequest,
         PublishFails,
         MergeUpdate, vars, format
  <2> QED BY <2>1, <2>2, <2>3, <2>4, <2>5 DEF Next, Format
<1> QED BY <1>1, <1>2, MaintenanceTypeCorrect, TypedAlways, PTL DEF Spec

\* No merge of an update or of a formatting removes or rewrites a paper that main has by
\* then, or takes the template back (README.md.jinja:206-208).
THEOREM MergesAreSafe == Spec => MergesKeepCorpus
<1>1. Typed /\ StyleTyped /\ StyleInv /\ ScriptInv /\ [Next]_vars =>
        [UNCHANGED changes /\ ~UNCHANGED main =>
           /\ main'.release >= main.release
           /\ \A p \in Papers : main'.papers[p].text = main.papers[p].text]_vars
  <2> SUFFICES ASSUME Typed, StyleTyped, StyleInv, ScriptInv, Next,
                      UNCHANGED changes, ~UNCHANGED main
               PROVE  /\ main'.release >= main.release
                      /\ \A p \in Papers : main'.papers[p].text = main.papers[p].text
    BY DEF vars, update, format
  <2>0. main.release \in Int
    BY MaintenanceAssumption DEF Typed, TypeOK, Commits, Releases
  <2>1. ~MainMoves
    BY MaintenanceAssumption DEF MainMoves, Change, Typed, TypeOK
  <2>2. ~Update /\ ~Format
    BY DEF Update, CheckOut, NothingToUpdate, MoveCorpus, CommitWithout, CopierUpdate,
       CommandFails, MoveBack, ResetHead, Invalid, CreatePatch, OpenRequest, PublishFails,
       Format, Plan, FormatShard, Combine, FormattingFails
  <2>3. CASE MergeUpdate
    <3>1. PICK r \in request : main.release = r.from /\ main' = [main EXCEPT !.release = r.to]
      BY <2>3 DEF MergeUpdate
    <3>2. main'.release = r.to /\ main'.papers = main.papers
      BY <3>1 DEF Typed, TypeOK, Commits
    <3>3. r.to \in Int
      BY MaintenanceAssumption DEF Typed, RequestOK, Releases
    <3>4. main.release < r.to
      BY <3>1 DEF ScriptInv
    <3> QED BY <2>0, <3>2, <3>3, <3>4
  <2>4. CASE MergeStyle
    <3>1. PICK diff \in style_request :
             FitsOn(main.papers, diff) /\ main' = [main EXCEPT !.papers = Apply(@, diff)]
      BY <2>4 DEF MergeStyle
    <3>2. main'.papers = Apply(main.papers, diff) /\ main'.release = main.release
      BY <3>1 DEF Typed, TypeOK, Commits
    <3>3. ASSUME NEW p \in Papers PROVE Apply(main.papers, diff)[p].text = main.papers[p].text
      <4>1. CASE p \in Changed(diff)
        <5>1. \E c \in diff : c.paper = p
          BY <4>1 DEF Changed
        <5> DEFINE c == CHOOSE c \in diff : c.paper = p
        <5>2. c \in diff /\ c.paper = p
          BY <5>1
        <5>3. c.before = main.papers[p] /\ c.after.text = c.before.text
          BY <5>2, <3>1 DEF FitsOn, StyleInv, StyleOnly
        <5> QED BY <5>3, <4>1 DEF Apply
      <4>2. CASE p \notin Changed(diff)
        BY <4>2 DEF Apply
      <4> QED BY <4>1, <4>2
    <3> QED BY <2>0, <3>2, <3>3
  <2> QED BY <2>1, <2>2, <2>3, <2>4 DEF Next
<1> QED BY <1>1, MaintenanceTypeCorrect, TypedAlways, StyleInvariant, ScriptInvariant,
           PTL DEF Spec, MergesKeepCorpus

=============================================================================
