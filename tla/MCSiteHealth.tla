----------------------------- MODULE MCSiteHealth -----------------------------
(* Small instances of SiteHealth for TLC. *)
EXTENDS SiteHealth, TLC

Symmetry == Permutations(Run)
=============================================================================
