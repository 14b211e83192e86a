----------------------------- MODULE MCNodePool -----------------------------
(* Two nodes of one country and one of another; the catalog lists one of   *)
(* each.  The ranks by id and by country differ from the one by quality.   *)
EXTENDS NodePool
CONSTANTS x1, x2, y1, x, y
MCCountryOf(n) == IF n = y1 THEN y ELSE x
MCRank(n, by) == CASE n = x1 -> 1
                   [] n = x2 -> 2
                   [] OTHER  -> IF by = "quality" THEN 3 ELSE 0
MCCatalogs == {{x1, y1}}
=============================================================================
