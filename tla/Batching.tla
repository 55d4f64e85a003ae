------------------------------ MODULE Batching ------------------------------
(***************************************************************************)
(* The pure operators of batching.py: which papers of an inventory are     *)
(* still to be converted, and which of them one batch takes.  Papers are   *)
(* numbers; their order stands for the order of the identifiers.           *)
(***************************************************************************)
EXTENDS Naturals, FiniteSets, FiniteSetsExt

CONSTANTS
  Papers,     \* the papers the sources can deliver
  Cost,       \* conversion cost of each paper, html_cost, latex_cost or pdf_cost
  MaxPapers,  \* conversion.max_papers
  MaxCost     \* conversion.max_cost

ASSUME BatchingAssumption ==
  /\ Papers \subseteq Nat
  /\ IsFiniteSet(Papers)
  /\ Cost \in [Papers -> Nat \ {0}]
  /\ MaxPapers \in Nat \ {0}
  /\ MaxCost \in Nat
  /\ \A p \in Papers : Cost[p] <= MaxCost

-----------------------------------------------------------------------------

\* infer_backlog: a paper with markdown is generated, one with a marker blocked.
Pending(papers, tree) == papers \ (tree.md \cup tree.fixme)

TotalCost(papers) == MapThenSumSet(LAMBDA p : Cost[p], papers)

\* The papers the loop has selected after some of its iterations.
IsPrefix(front, papers) ==
  \A p \in front, q \in papers \ front : p < q

Fits(papers) ==
  /\ Cardinality(papers) <= MaxPapers
  /\ TotalCost(papers) <= MaxCost

\* Costs are positive, so the loop stops exactly at its longest affordable prefix.
SelectBatch(papers) ==
  UNION {front \in SUBSET papers : IsPrefix(front, papers) /\ Fits(front)}

=============================================================================
