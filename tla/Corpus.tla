------------------------------- MODULE Corpus -------------------------------
(***************************************************************************)
(* What the pipeline promises to those who read the main branch: the life  *)
(* of each paper there, whatever runs fail, overlap with edits, or are     *)
(* lost.  A push moves any number of papers, each by one step of its life. *)
(***************************************************************************)
EXTENDS Naturals

CONSTANT Papers

VARIABLES
  stage,    \* "unknown", "pending", "converted" or "blocked"
  strikes   \* recorded consecutive failures of a pending paper

corpus == <<stage, strikes>>

MaxStrikes == 2  \* a third one blocks the paper

Life == {"unknown", "pending", "converted", "blocked"}

Waiting(p) == stage[p] \in {"unknown", "pending"}

Init ==
  /\ stage = [p \in Papers |-> "unknown"]
  /\ strikes = [p \in Papers |-> 0]

Stays(p) == stage'[p] = stage[p] /\ strikes'[p] = strikes[p]

\* Found by a source; the run that finds it may go on to try it.
Found(p) ==
  /\ stage[p] = "unknown"
  /\ stage'[p] = "pending"
  /\ strikes'[p] \in {0, 1}

Fails(p) ==
  /\ stage[p] = "pending"
  /\ strikes[p] < MaxStrikes
  /\ stage'[p] = "pending"
  /\ strikes'[p] = strikes[p] + 1

Blocks(p) ==
  /\ stage[p] = "pending"
  /\ strikes[p] = MaxStrikes
  /\ stage'[p] = "blocked"
  /\ strikes'[p] = 0

Converts(p) ==
  /\ Waiting(p)
  /\ stage'[p] = "converted"
  /\ strikes'[p] = 0

Push ==
  /\ stage' \in [Papers -> Life]
  /\ strikes' \in [Papers -> 0..MaxStrikes]
  /\ \A p \in Papers :
       Stays(p) \/ Found(p) \/ Fails(p) \/ Blocks(p) \/ Converts(p)

\* A person removes the marker, or the conversion.
Reopen(p) ==
  /\ stage[p] \in {"converted", "blocked"}
  /\ stage' = [stage EXCEPT ![p] = "pending"]
  /\ UNCHANGED strikes

Next == Push \/ \E p \in Papers : Reopen(p)

Spec == Init /\ [][Next]_corpus

=============================================================================
