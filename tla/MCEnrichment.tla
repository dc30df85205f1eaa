------------------------------ MODULE MCEnrichment ------------------------------
(* Small instances of Enrichment for TLC: rows of every kind on one host   *)
(* (the last one beyond the budget), and accounts of one API.              *)
EXTENDS Enrichment, TLC

CONSTANTS r1, r2, r3, r4, r5, r6, h1

Three == <<r1, r2, r3>>
Six == <<r1, r2, r3, r4, r5, r6>>
OwnUrls == [r \in Row |-> r]
OneHost == [r \in Row |-> h1]

Adapters == [r \in Row |-> "adapter"]
Mixed == [r \in Row |-> IF r = r1 THEN "denied" ELSE IF r = r2 THEN "adapter" ELSE "page"]

(* Enrichment.CanGoOn says by hand what ENABLED says of a row's steps.     *)
GuardsAreExact == \A r \in Row : CanGoOn(r) <=> ENABLED RowNext(r)
=============================================================================
