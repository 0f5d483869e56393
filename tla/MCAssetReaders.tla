--------------------------- MODULE MCAssetReaders ---------------------------
EXTENDS AssetReaders

\* Every route in both modes; GFS and the satellite catalogue also with what they
\* do not offer.
AllEndpoints ==
    {e \in [name : Names, mode : {"full", "on_demand"}, offered : BOOLEAN] :
        /\ ~e.offered => e.name \in {"satellite_tile", "gfs_tile", "gfs_geojson", "gfs_barb",
                                     "satellite_point", "gfs_point", "gfs_secondary"}
        /\ e.name \in {"satellite_point", "radar_point", "ecmwf_tp_point", "mslp_point",
                       "wrf_point", "wrf_secondary", "gfs_point", "gfs_secondary"}
             => e.mode = "full"}
=============================================================================
