-------------------------- MODULE MCBasemapScraper --------------------------
(* BasemapScraper on small instances. *)
EXTENDS BasemapScraper

CONSTANTS p1, p2, p3

MCRank == [p \in Providers |-> IF p = p1 THEN 1 ELSE IF p = p2 THEN 2 ELSE 3]
TwoHosts == [p \in Providers |-> IF p = p3 THEN "b" ELSE "a"]
OneTile == [z \in Zooms |-> 1]
ThreeTiles == [z \in Zooms |-> 2 * z + 1]
FourTiles == [z \in Zooms |-> 3 * z + 1]
LastAbsent == {<<1, 2>>}
NoneAbsent == {}
=============================================================================
