--------------------------- MODULE BatchSelection ---------------------------
(***************************************************************************)
(* select_batch as the loop it is, one iteration a step.  Nightly uses its *)
(* result, SelectBatch, directly; here the loop is shown to compute it.    *)
(***************************************************************************)
EXTENDS Batching

VARIABLES
  pending,    \* the papers the loop was given
  rest,       \* those it has not come to yet
  selected, estimated, \* the batch so far and its estimated_cost
  done

vars == <<pending, rest, selected, estimated, done>>

Init ==
  /\ pending \in SUBSET Papers
  /\ rest = pending
  /\ selected = {} /\ estimated = 0
  /\ done = FALSE

Full == Cardinality(selected) >= MaxPapers

\* Mutant: the last paper may exceed the limit.
TooCostlyLate(p) == Cost[p] > MaxCost \/ estimated >= MaxCost

TooCostly(p) == Cost[p] > MaxCost \/ estimated + Cost[p] > MaxCost

\* Papers are sorted by identifier.
First == CHOOSE p \in rest : \A q \in rest : p <= q

HasRoom == rest # {} /\ ~Full /\ ~TooCostly(First)

Take ==
  /\ ~done
  /\ HasRoom
  /\ selected' = selected \cup {First}
  /\ estimated' = estimated + Cost[First]
  /\ rest' = rest \ {First}
  /\ UNCHANGED <<pending, done>>

Stop ==
  /\ ~done
  /\ ~HasRoom
  /\ done' = TRUE
  /\ UNCHANGED <<pending, rest, selected, estimated>>

Next == Take \/ Stop

Spec == Init /\ [][Next]_vars

-----------------------------------------------------------------------------

\* The loop takes the longest run of papers, in order, within both limits: no paper
\* is passed over for a later one, and none that still fits is left (batching.py).
LongestPrefix == done => selected = SelectBatch(pending)

\* While anything is pending a batch takes something, whatever it costs, so the
\* nightly loop never stops in front of an expensive paper (config.py:156).
NeverEmpty == done /\ pending # {} => selected # {}

=============================================================================
