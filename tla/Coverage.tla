------------------------------ MODULE Coverage ------------------------------
(***************************************************************************)
(* What fetch_all promises to the inventory: for every source a growing    *)
(* set of times is walked, and what the source published at a walked time  *)
(* has been delivered, or reported as a permanent error.  Budgets, cursors *)
(* and windows do not appear here.                                         *)
(***************************************************************************)
CONSTANTS
  Sources,
  Listing     \* the publication times of the items of each source

VARIABLES walked, delivered
vars == <<walked, delivered>>

Init ==
  /\ walked    = [s \in Sources |-> {}]
  /\ delivered = [s \in Sources |-> {}]

\* Nothing of a walked time is missing.
Accounted(times, items) ==
  \A s \in Sources : \A i \in DOMAIN Listing[s] :
    Listing[s][i] \in times[s] => i \in items[s]

\* A run adds times and items to any of its sources, and takes none back.
Extend ==
  /\ walked' \in [Sources -> SUBSET UNION {walked'[s] : s \in Sources}]
  /\ \A s \in Sources : /\ walked[s] \subseteq walked'[s]
                        /\ delivered[s] \subseteq delivered'[s]
                        /\ delivered'[s] \subseteq DOMAIN Listing[s]
  /\ Accounted(walked', delivered')

Spec == Init /\ [][Extend]_vars

=============================================================================
