--------------------------- MODULE MCTilePrefetch ---------------------------
(* Jobs for TilePrefetch. *)
EXTENDS TilePrefetch

\* Two zoom levels of one tile each.
OneAndOne == << {1}, {2} >>
=============================================================================
