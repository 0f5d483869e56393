--------------------------- MODULE MCForecastSync ---------------------------
(* ForecastSync on small instances, one of them at a time. *)
EXTENDS ForecastSync

Instance(p, ids, runs, units, layers) ==
    [product |-> p, ids |-> ids, runs |-> runs, units |-> units, layers |-> layers]

\* Two runs where a run must be pruned, two units where a run is half done, two
\* ids where the failure of one must not stop the other.
MCShapes ==
    {Instance("ecmwf_tp", 1, 2, 1, 0), Instance("ecmwf_mslp", 1, 1, 2, 1),
     Instance("ecmwf_mslp", 1, 2, 1, 1), Instance("wrf", 1, 1, 1, 1),
     Instance("wrf", 1, 2, 1, 0), Instance("gfs", 1, 2, 1, 1),
     Instance("gfs", 2, 1, 1, 0)}
=============================================================================
