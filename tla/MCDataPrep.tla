---------------------------- MODULE MCDataPrep ------------------------------
(* Instances of DataPrep: two sources that share a class, repeat one and     *)
(* hold a blank document; every way to run each stage.                       *)
EXTENDS DataPrep

TwoSources == <<"web", "code">>
SmallestFirst == <<"code", "web">>
Streams == [web |-> <<1, 2, 3, 1, 5>>, code |-> <<2, 0>>]
Budgets == [web |-> 6, code |-> 2]

With(dls, dds, toks) == [dl : dls, discard : BOOLEAN, dd : dds, tok : toks]
AllFlags == With({0, 2}, BOOLEAN, {0, 1})
DownloadFlags == With({0, 2}, {FALSE}, {0})
DedupFlags == With({2}, BOOLEAN, {0})
TokenizeFlags == With({0}, {FALSE}, {0, 1})
=============================================================================
