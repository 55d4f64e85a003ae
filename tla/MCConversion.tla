---------------------------- MODULE MCConversion ----------------------------
(***************************************************************************)
(* Instances of Conversion for model checking.  Paper 1 is the one with an *)
(* arXiv ID.  The others are on the host of one press, which gets two      *)
(* attempts; where there is a DOI resolver, paper 2 is linked through it.  *)
(***************************************************************************)
EXTENDS Conversion

MCHosts      == {"arxiv", "ar5iv", "press"}
MCDoiHosts   == MCHosts \cup {"doi"}
MCRenderings == <<"arxiv", "ar5iv">>

MCInputHost    == [p \in Papers |-> IF p = 1 THEN "arxiv" ELSE "press"]
MCDoiInputHost == [p \in Papers |-> IF p = 2 THEN "doi" ELSE "press"]

MCAttempts == [h \in Hosts |-> IF h = "press" THEN 2 ELSE 1]
MCPaced    == {"ar5iv", "press"} \cap Hosts

\* Only the resolver redirects to another host.
MCHops == [h \in Hosts |-> IF h = "doi" THEN {"doi", "press"} ELSE {h}]

MCAllPdf      == [p \in Papers |-> "pdf"]
MCFastFormats == <<"pdf", "pdf", "latex", "html">>

\* The kinds of these papers, as KindAssumption has it.
MCArxivPdf  == [p \in Papers |-> IF p \in ArxivIds THEN "arxiv" ELSE "pdf"]
MCFastKinds == <<"arxiv", "pdf", "pandoc", "pandoc">>

MCSlots == [html |-> 1, latex |-> 1, pdf |-> 1]

=============================================================================
