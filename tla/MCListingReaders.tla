-------------------------- MODULE MCListingReaders --------------------------
EXTENDS ListingReaders

Endpoint(products, calls, modes, viewers, runs, bad) ==
    [product : products, call : calls, mode : modes, target : {runs},
     viewers : {viewers}, runs : {runs}, retire : {bad}, fault : {bad}]

Both == {"full", "on_demand"}
Forecasts == {"ecmwf_tp", "ecmwf_mslp", "wrf", "gfs"}

\* Two runs where the newest matter; two viewers where they share a lock or a
\* memo.
AllEndpoints ==
    Endpoint({"satellite"}, {"tilesets"}, Both, 1, 1, 1)
      \cup Endpoint({"radar"}, {"radars", "variables", "elevations", "tilesets"}, Both, 1, 1, 1)
      \cup Endpoint(Forecasts, {"runs"}, {"on_demand"}, 1, 2, 1)
      \cup Endpoint(Forecasts, {"runs"}, {"full"}, 1, 2, 0)
      \cup Endpoint({"ecmwf_tp", "ecmwf_mslp"}, {"units"}, Both, 1, 2, 1)
      \cup Endpoint({"wrf", "gfs"}, {"units"}, {"on_demand"}, 1, 1, 1)
      \cup Endpoint({"wrf", "gfs"}, {"units"}, {"full"}, 1, 1, 0)
      \cup Endpoint({"gfs"}, {"units"}, {"on_demand"}, 2, 1, 0)
      \cup Endpoint({"satellite", "radar", "ecmwf_tp", "wrf", "gfs"}, {"availability"}, Both, 1, 1, 1)
      \cup Endpoint({"satellite", "wrf"}, {"availability"}, {"on_demand"}, 2, 1, 1)
=============================================================================
