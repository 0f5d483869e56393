---------------------------- MODULE MCTilesetSync ----------------------------
(* TilesetSync on small instances. *)
EXTENDS TilesetSync, TLC

CONSTANTS k1, k2

\* The tiles of a tileset are interchangeable.
TileSymmetry == Permutations({k1, k2})

Budget(events) == [kind \in Kinds |-> IF kind \in events THEN 1 ELSE 0]

SatelliteBudgets ==
    {Budget({"fault", "watchdog"}), Budget({"fault", "restart", "evict"}),
     Budget({"fault", "retire"})}

RadarBudgets == {Budget({"fault", "watchdog"})}
=============================================================================
