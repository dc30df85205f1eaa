----------------------------- MODULE MCWatchlist -----------------------------
(* Small instances of Watchlist for TLC. *)
EXTENDS Watchlist, TLC

Symmetry == Permutations(Key)
=============================================================================
