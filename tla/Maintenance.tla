---------------------------- MODULE Maintenance ----------------------------
(***************************************************************************)
(* The two workflows that change main by pull request: the weekly update   *)
(* of the template and the formatting of the whole corpus.  Both record    *)
(* the commit that they start from, work on checkouts of it, and open a    *)
(* pull request, while nightly runs and people go on to change main.       *)
(***************************************************************************)
EXTENDS Integers, FiniteSets

CONSTANTS
  Papers,      \* numbers, in the order of the markdown files
  Shards,      \* shard_count of the formatting workflow
  MaxRelease,  \* bound: releases of the template are 1 .. MaxRelease
  MaxChanges   \* bound: changes of main from outside, and failures

ASSUME MaintenanceAssumption ==
  /\ Papers \subseteq Nat /\ IsFiniteSet(Papers)
  /\ Shards \in Nat \ {0}
  /\ MaxRelease \in Nat \ {0} /\ MaxChanges \in Nat

Releases == 1 .. MaxRelease
Jobs     == 0 .. Shards - 1

\* What TEMPLATE_REF may be: a release, or 0 for anything else.
References == Releases \cup {0}

\* The markdown of a paper: its text, "none" without a file, and its layout.
Contents == [text : {"none", "first", "second"}, tidy : BOOLEAN]
Absent   == [text |-> "none", tidy |-> FALSE]
Corpora  == [Papers -> Contents]
Commits  == [release : Releases, papers : Corpora]

NoPaper == [p \in Papers |-> Absent]
Filed(papers) == {p \in Papers : papers[p] # Absent}
Tidied(content) == [content EXCEPT !.tidy = TRUE]

VARIABLES
  main,      \* the commit on the default branch
  updating,  \* where template-update.sh and its workflow are
  base,      \* steps.base.outputs.sha, checked out by both jobs
  target,    \* TEMPLATE_REF
  head,      \* HEAD of the checkout
  tree,      \* its worktree: release and papers/
  backup,    \* .git/template-update-corpus
  rejected,  \* Copier left .rej files
  patch,     \* template-update.patch
  request,   \* the open pull request of the update, if any
  formatting,    \* where the formatting workflow is
  plan_base,     \* its base_sha, of which only papers/ matters
  shard,         \* of each job of the matrix
  shard_patch,   \* what it uploads
  style_request, \* the open pull request of the formatting, if any
  changes        \* auxiliary: counted against MaxChanges

update == <<updating, base, target, head, tree, backup, rejected, patch, request>>
format == <<formatting, plan_base, shard, shard_patch, style_request>>
vars   == <<main, update, format, changes>>

(***************************************************************************)
(* git: patches as sets of changes, and where they apply.                  *)
(***************************************************************************)
Diff(before, after) ==
  {c \in [paper : Papers, before : Contents, after : Contents] :
     /\ c.before = before[c.paper] /\ c.after = after[c.paper]
     /\ c.before # c.after}

FitsOn(papers, diff) == \A c \in diff : papers[c.paper] = c.before

Changed(diff) == {c.paper : c \in diff}

Apply(papers, diff) ==
  [p \in Papers |-> IF p \in Changed(diff) THEN (CHOOSE c \in diff : c.paper = p).after
                    ELSE papers[p]]

Start   == [release |-> 1, papers |-> NoPaper]
NoPatch == [from |-> 1, to |-> 1, papers |-> {}]

Init ==
  /\ main \in {[release |-> 1, papers |-> papers] :
                 papers \in [Papers -> {Absent, [text |-> "first", tidy |-> FALSE]}]}
  /\ updating = "idle" /\ base = Start /\ target = 1
  /\ head = Start /\ tree = Start /\ backup = NoPaper /\ rejected = FALSE
  /\ patch = NoPatch /\ request = {}
  /\ formatting = "idle" /\ plan_base = NoPaper
  /\ shard = [k \in Jobs |-> "waiting"] /\ shard_patch = [k \in Jobs |-> {}]
  /\ style_request = {}
  /\ changes = 0

Change == changes < MaxChanges /\ changes' = changes + 1

\* Main, from outside: nightly runs add papers and remove those that are converted
\* again, and a person may update the template.
MainMoves ==
  /\ Change
  /\ \/ \E p \in Papers, c \in {Absent} \cup [text : {"first", "second"}, tidy : BOOLEAN] :
          main' = [main EXCEPT !.papers[p] = c]
     \/ \E r \in Releases : r > main.release /\ main' = [main EXCEPT !.release = r]
  /\ UNCHANGED <<update, format>>

-----------------------------------------------------------------------------
(***************************************************************************)
(* Job validate of template-update.yml, and template-update.sh.            *)
(***************************************************************************)
CheckOut ==
  /\ updating = "idle"
  /\ updating' = "check"
  /\ base' = main /\ head' = main /\ tree' = main
  /\ target' \in References
  /\ backup' = NoPaper /\ rejected' = FALSE /\ patch' = NoPatch
  /\ UNCHANGED <<main, request, format, changes>>

\* Mutants: the reference need only be another one; a release may be older, or the same.
OtherReference == target # tree.release
OtherRelease   == target \in Releases /\ target # tree.release
NotOlder       == target \in Releases /\ target >= tree.release

NewerRelease == target \in Releases /\ target > tree.release

\* No release, the current one, or an older one: the script ends.
NothingToUpdate ==
  /\ updating = "check" /\ ~NewerRelease
  /\ updating' = "idle"
  /\ UNCHANGED <<main, base, target, head, tree, backup, rejected, patch, request,
                 format, changes>>

\* The corpus is moved aside, if there is one.
MoveCorpus ==
  /\ updating = "check" /\ NewerRelease
  /\ updating' = IF Filed(tree.papers) = {} THEN "copier" ELSE "commit"
  /\ backup' = tree.papers
  /\ tree' = [tree EXCEPT !.papers = NoPaper]
  /\ UNCHANGED <<main, base, target, head, rejected, patch, request, format, changes>>

\* git rm --cached and the temporary commit.
CommitWithout ==
  /\ updating = "commit"
  /\ updating' = "copier"
  /\ head' = [head EXCEPT !.papers = NoPaper]
  /\ UNCHANGED <<main, base, target, tree, backup, rejected, patch, request,
                 format, changes>>

CopierUpdate ==
  /\ updating = "copier"
  /\ updating' = "restore"
  /\ tree' = [tree EXCEPT !.release = target]
  /\ rejected' \in BOOLEAN
  /\ UNCHANGED <<main, base, target, head, backup, patch, request, format, changes>>

\* Mutant: the trap is removed before restore_corpus is called.
TrapRemovedEarly ==
  /\ updating \in {"commit", "copier", "restore", "reset"}
  /\ Change
  /\ updating' = IF updating \in {"commit", "copier"} THEN "trap" ELSE "idle"
  /\ UNCHANGED <<main, base, target, head, tree, backup, rejected, patch, request, format>>

\* One of these commands fails, those of restore_corpus among them: the trap runs
\* restore_corpus, again if need be, and the job ends.
CommandFails ==
  /\ updating \in {"commit", "copier", "restore", "reset"}
  /\ Change
  /\ updating' = "trap"
  /\ UNCHANGED <<main, base, target, head, tree, backup, rejected, patch, request, format>>

\* restore_corpus: mv, if the corpus is still where it was moved to.
MoveBack ==
  /\ updating \in {"restore", "trap"}
  /\ tree' = IF backup = NoPaper THEN tree ELSE [tree EXCEPT !.papers = backup]
  /\ backup' = NoPaper
  /\ updating' = IF updating = "trap" THEN "trap_reset" ELSE "reset"
  /\ UNCHANGED <<main, base, target, head, rejected, patch, request, format, changes>>

\* restore_corpus: git reset --mixed.
ResetHead ==
  /\ updating \in {"reset", "trap_reset"}
  /\ head' = base
  /\ updating' = IF updating = "trap_reset" THEN "idle" ELSE "restored"
  /\ UNCHANGED <<main, base, target, tree, backup, rejected, patch, request, format,
                 changes>>

\* Conflicts, or a check that fails.
Invalid ==
  /\ updating = "restored"
  /\ \/ rejected /\ UNCHANGED changes
     \/ Change
  /\ updating' = "idle"
  /\ UNCHANGED <<main, base, target, head, tree, backup, rejected, patch, request, format>>

\* All checks passed; the difference from HEAD is uploaded.
CreatePatch ==
  /\ updating = "restored" /\ ~rejected
  /\ patch' = [from |-> head.release, to |-> tree.release,
               papers |-> Diff(head.papers, tree.papers)]
  /\ updating' = "publish"
  /\ UNCHANGED <<main, base, target, head, tree, backup, rejected, request, format, changes>>

\* Job publish: the patch is applied to the recorded commit.
OpenRequest ==
  /\ updating = "publish"
  /\ patch.from = base.release /\ FitsOn(base.papers, patch.papers)
  /\ request' = {patch}
  /\ updating' = "idle"
  /\ UNCHANGED <<main, base, target, head, tree, backup, rejected, patch, format, changes>>

\* The token is missing, or GitHub does not answer.
PublishFails ==
  /\ updating = "publish"
  /\ Change
  /\ updating' = "idle"
  /\ UNCHANGED <<main, base, target, head, tree, backup, rejected, patch, request, format>>

-----------------------------------------------------------------------------
(***************************************************************************)
(* format-corpus.yml: shards are formatted in parallel, then combined.     *)
(***************************************************************************)
Plan ==
  /\ formatting = "idle"
  /\ formatting' = "format"
  /\ plan_base' = main.papers
  /\ shard' = [k \in Jobs |-> "waiting"] /\ shard_patch' = [k \in Jobs |-> {}]
  /\ UNCHANGED <<main, update, style_request, changes>>

\* shard_paths: every Shards-th of the files, in order.
Owned(papers, k) ==
  {p \in Filed(papers) : Cardinality({q \in Filed(papers) : q < p}) % Shards = k}

\* Mutant: a job checks out the default branch as it is now.
CurrentMain == main.papers

ShardCheckout == plan_base

FormatShard(k) ==
  /\ formatting = "format" /\ shard[k] = "waiting"
  /\ \/ /\ shard' = [shard EXCEPT ![k] = "formatted"]
        /\ shard_patch' = [shard_patch EXCEPT ![k] =
             Diff(ShardCheckout,
                  [p \in Papers |-> IF p \in Owned(ShardCheckout, k)
                                    THEN Tidied(ShardCheckout[p]) ELSE ShardCheckout[p]])]
        /\ UNCHANGED changes
     \/ /\ Change
        /\ shard' = [shard EXCEPT ![k] = "failed"]
        /\ UNCHANGED shard_patch
  /\ UNCHANGED <<main, update, formatting, plan_base, style_request>>

Combined == UNION {shard_patch[k] : k \in Jobs}

\* Every patch applies after those before it.
AllApply ==
  /\ FitsOn(plan_base, Combined)
  /\ \A k, l \in Jobs : k # l => Changed(shard_patch[k]) \cap Changed(shard_patch[l]) = {}

Combine ==
  /\ formatting = "format" /\ \A k \in Jobs : shard[k] = "formatted"
  /\ AllApply
  /\ style_request' = IF Combined = {} THEN {} ELSE {Combined}
  /\ formatting' = "idle"
  /\ UNCHANGED <<main, update, plan_base, shard, shard_patch, changes>>

\* A shard failed, or GitHub does not answer: there is no pull request.
FormattingFails ==
  /\ formatting = "format" /\ \A k \in Jobs : shard[k] # "waiting"
  /\ \/ (\E k \in Jobs : shard[k] = "failed") /\ UNCHANGED changes
     \/ Change
  /\ formatting' = "idle"
  /\ UNCHANGED <<main, update, plan_base, shard, shard_patch, style_request>>

-----------------------------------------------------------------------------
(***************************************************************************)
(* A person merges a pull request that git can merge.  That of the update  *)
(* adds no path of the corpus (add-paths).                                 *)
(***************************************************************************)
MergeUpdate ==
  /\ \E r \in request :
       /\ main.release = r.from
       /\ main' = [main EXCEPT !.release = r.to]
  /\ request' = {}
  /\ UNCHANGED <<updating, base, target, head, tree, backup, rejected, patch, format, changes>>

MergeStyle ==
  /\ \E diff \in style_request :
       /\ FitsOn(main.papers, diff)
       /\ main' = [main EXCEPT !.papers = Apply(@, diff)]
  /\ style_request' = {}
  /\ UNCHANGED <<update, formatting, plan_base, shard, shard_patch, changes>>

-----------------------------------------------------------------------------
Update == \/ CheckOut \/ NothingToUpdate \/ MoveCorpus \/ CommitWithout \/ CopierUpdate
          \/ CommandFails \/ MoveBack \/ ResetHead \/ Invalid \/ CreatePatch
          \/ OpenRequest \/ PublishFails

Format == Plan \/ Combine \/ FormattingFails \/ \E k \in Jobs : FormatShard(k)

Next == MainMoves \/ Update \/ Format \/ MergeUpdate \/ MergeStyle

Spec == Init /\ [][Next]_vars

-----------------------------------------------------------------------------
(***************************************************************************)
(* Properties.                                                             *)
(***************************************************************************)
Script == {"check", "commit", "copier", "restore", "reset", "restored", "trap",
           "trap_reset"}

\* Commits, worktrees and patches are well formed, and an update or a matrix of shards
\* is always at a step of its workflow.
TypeOK ==
  /\ main \in Commits /\ base \in Commits /\ head \in Commits /\ tree \in Commits
  /\ backup \in Corpora /\ plan_base \in Corpora
  /\ updating \in Script \cup {"idle", "publish"}
  /\ target \in References /\ rejected \in BOOLEAN
  /\ formatting \in {"idle", "format"}
  /\ shard \in [Jobs -> {"waiting", "formatted", "failed"}]
  /\ changes \in 0 .. MaxChanges

\* However the script ends, and before anything is validated or uploaded, the checkout
\* has its corpus and its commit back (template-update.sh:48-72).
CorpusComesBack ==
  updating \in {"idle", "restored", "publish"} =>
    /\ tree.papers = base.papers /\ backup = NoPaper
    /\ head = base

\* A patch of the update goes forward from the commit it was validated on, where it
\* applies, and leaves the corpus alone (template-update.sh:26-40, template-update.yml:94-110).
UpdatesAreForward ==
  \A r \in request \cup (IF updating = "publish" THEN {patch} ELSE {}) :
    /\ r.from < r.to /\ r.papers = {}
    /\ updating = "publish" => patch.from = base.release

\* The shards' patches apply one after the other, and together they format every file
\* of the planned commit once, although main moves while they run
\* (format-corpus.yml:56-95, 105-126; formatting.py:30-44).
ShardsCombine ==
  formatting = "format" /\ (\A k \in Jobs : shard[k] = "formatted") =>
    /\ AllApply
    /\ Apply(plan_base, Combined) =
         [p \in Papers |-> IF plan_base[p] = Absent THEN Absent ELSE Tidied(plan_base[p])]

\* Merging a pull request of either workflow neither removes nor rewrites a paper that
\* main has meanwhile, nor takes the template back (README.md.jinja:206-208).
MergesKeepCorpus == [][
  UNCHANGED changes /\ ~UNCHANGED main =>
    /\ main'.release >= main.release
    /\ \A p \in Papers : main'.papers[p].text = main.papers[p].text]_vars

=============================================================================
