----------------------------- MODULE MCQuickScan -----------------------------
(* One username on one site, for the row the quick scan leaves behind. *)
EXTENDS QuickScan

OneName == <<"u">>
=============================================================================
