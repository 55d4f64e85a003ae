---------------------------- MODULE ConvertBatch ----------------------------
(***************************************************************************)
(* What convert_batch promises to its caller: it ends once, either with    *)
(* one outcome for every paper or by raising, and then with none.          *)
(***************************************************************************)
EXTENDS Outcomes

CONSTANTS
  Papers,  \* the papers of the batch
  Fast     \* allow_pdf is false

VARIABLES
  phase,  \* "running", "returned" or "raised"
  fate    \* each paper's outcome; "open" while there is none

Init ==
  /\ phase = "running"
  /\ fate = [p \in Papers |-> "open"]

Return ==
  /\ phase = "running"
  /\ phase' = "returned"
  /\ fate' \in [Papers -> Outcome]
  /\ \A p \in Papers : fate'[p] \in Expected(p, Fast) \cup Upset(p, Fast)

Raise ==
  /\ phase = "running"
  /\ phase' = "raised"
  /\ UNCHANGED fate

Next == Return \/ Raise

Spec == Init /\ [][Next]_<<phase, fate>>

=============================================================================
