------------------------------- MODULE MCPipeline -------------------------------
(* Small instances of Pipeline: a username with one variant, which is also *)
(* a name candidate, or there are no candidates.                           *)
EXTENDS Pipeline, TLC

CONSTANTS b, v, s1

NoName == <<>>
OneName == <<b>>
OneVariant == (b :> <<v>>)

(* Pipeline.CanGoOn says by hand what ENABLED says of the actions.         *)
GuardsAreExact == CanGoOn <=> ENABLED Progress
=============================================================================
