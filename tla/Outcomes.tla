------------------------------ MODULE Outcomes ------------------------------
(***************************************************************************)
(* How a paper can end in one convert_batch.  A fast pass (allow_pdf is    *)
(* false) runs pandoc alone.  Nightly takes these outcomes as the result   *)
(* of a batch; Conversion is shown to give no others.                      *)
(***************************************************************************)

CONSTANTS
  Kind,      \* "pandoc", "arxiv" (PDF with an arXiv ID) or "pdf"
  Throttled  \* papers whose host answers every request with 429

Outcome == {"succeeded", "failed", "deferred", "needs_pdf", "interrupted"}

\* Without an arXiv rendering to try, a PDF is set aside at once by a fast pass.
SetAside(p, fast) == fast /\ Kind[p] = "pdf"

Expected(p, fast) ==
  IF SetAside(p, fast) THEN {"needs_pdf"}
  ELSE IF p \in Throttled THEN {"deferred"}
  ELSE {"succeeded", "failed"}
         \cup (IF fast /\ Kind[p] = "arxiv" THEN {"needs_pdf"} ELSE {})

\* The time was up before the paper was done, or its host refused for once.
Upset(p, fast) ==
  IF SetAside(p, fast) THEN {} ELSE {"deferred", "interrupted"}

=============================================================================
