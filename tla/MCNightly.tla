----------------------------- MODULE MCNightly -----------------------------
(***************************************************************************)
(* Instances of Nightly for model checking: the constants that a           *)
(* configuration cannot write itself.                                      *)
(***************************************************************************)
EXTENDS Nightly, TLC

\* Paper 3 is off topic, or the third of three.
MCPandocArxiv == (1 :> "pandoc") @@ (2 :> "arxiv")
MCThreeKinds  == (1 :> "pandoc") @@ (2 :> "arxiv") @@ (3 :> "pdf")
MCUnitCost    == [p \in Papers |-> 1]
=============================================================================
