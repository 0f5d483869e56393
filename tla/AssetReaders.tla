---------------------------- MODULE AssetReaders ----------------------------
(***************************************************************************)
(* How the API serves one asset of a product: a map tile, a GeoJSON        *)
(* overlay, a wind-barb tile or a point sampled from a raster.  A request  *)
(* crosses a route (routes/*.py), a product service, a read strategy       *)
(* (services/*_sync_strategy.py), Redis and S3; what it finds in S3 is     *)
(* written to Redis behind its back.  Viewers keep what they were given    *)
(* and revalidate it by ETag.                                              *)
(*                                                                         *)
(* The model follows one URL.  A strategy method is the sequence of the    *)
(* places it looks, in order; each look is an await, so a step.            *)
(***************************************************************************)
EXTENDS RedisClient, Sequences, FiniteSets

CONSTANTS
    Endpoints,    \* the endpoints to explore: name, mode, offered
    Viewers,
    TTL,          \* tile_ttl, geojson_ttl
    TileAge,      \* max-age of an asset that was found
    MissAge,      \* max-age of a gap
    MaxWrites,    \* bound: background writes under way
    Faults,       \* bound: Redis and S3 calls that fail
    Retirements   \* bound: times the publisher removes the object

Names == {"satellite_tile", "radar_tile", "ecmwf_tp_tile", "wrf_tile", "gfs_tile",
          "wrf_geojson", "gfs_geojson", "mslp_geojson", "wrf_barb", "gfs_barb",
          "satellite_point", "radar_point", "ecmwf_tp_point", "mslp_point",
          "wrf_point", "wrf_secondary", "gfs_point", "gfs_secondary"}

ASSUME AssetAssumption ==
    /\ Endpoints \subseteq [name : Names, mode : {"full", "on_demand"}, offered : BOOLEAN]
    /\ TTL \in Nat \ {0} /\ TileAge \in Nat \ {0} /\ MissAge \in Nat \ {0}
    /\ MaxWrites \in Nat \ {0} /\ Faults \in Nat /\ Retirements \in Nat

VARIABLES
    ep,       \* the endpoint: never changes
    s3,       \* is the object in the bucket?
    db,       \* Redis
    req,      \* the request of each viewer
    kept,     \* the copy each viewer keeps
    writes,   \* background writes not finished yet
    left      \* what remains of each bound

vars == <<ep, s3, db, req, kept, writes, left>>

-----------------------------------------------------------------------------
(* Where each strategy looks.  "cache": Redis; "s3": download_tile, and    *)
(* "s3+cache" when what is found is also stored in Redis in the background;*)
(* "head", "cog": the two halves of sampling a raster.                     *)

satellite_on_demand_get_tile == <<"cache", "s3+cache">>
satellite_full_get_tile == <<"cache">> \o satellite_on_demand_get_tile
radar_on_demand_get_tile == <<"cache", "s3+cache">>
radar_full_get_tile == <<"cache">> \o radar_on_demand_get_tile
ecmwf_tp_on_demand_get_tile == <<"cache", "s3+cache">>
ecmwf_tp_full_get_tile == <<"cache">> \o ecmwf_tp_on_demand_get_tile
mslp_on_demand_get_geojson == <<"cache", "s3+cache">>
mslp_full_get_geojson == <<"cache">> \o mslp_on_demand_get_geojson
wrf_on_demand_get_tile == <<"cache", "s3+cache">>
wrf_full_get_tile == <<"cache">> \o wrf_on_demand_get_tile
wrf_on_demand_get_geojson == <<"cache", "s3+cache">>
wrf_full_get_geojson == <<"cache">> \o wrf_on_demand_get_geojson
wrf_on_demand_get_barb_tile == <<"s3">>
wrf_full_get_barb_tile == <<"s3">>
gfs_on_demand_get_tile == <<"cache", "s3+cache">>
gfs_full_get_tile == gfs_on_demand_get_tile
gfs_geojson_from_s3 == <<"s3+cache">>
gfs_on_demand_get_geojson == <<"cache">> \o gfs_geojson_from_s3
gfs_full_get_geojson == <<"cache">> \o gfs_geojson_from_s3
gfs_on_demand_get_barb_tile == <<"s3">>
gfs_full_get_barb_tile == gfs_on_demand_get_barb_tile
sample_cog_value == <<"head", "cog">>

-----------------------------------------------------------------------------
(* The services: which strategy answers, and what is refused first.  An    *)
(* empty path is None at once.                                             *)

Full == ep.mode = "full"

satellite_get_tile_data ==
    IF Full THEN satellite_full_get_tile ELSE satellite_on_demand_get_tile
radar_get_tile_data ==
    IF Full THEN radar_full_get_tile ELSE radar_on_demand_get_tile
ecmwf_tp_get_tile_data ==
    IF Full THEN ecmwf_tp_full_get_tile ELSE ecmwf_tp_on_demand_get_tile
mslp_get_geojson ==
    IF Full THEN mslp_full_get_geojson ELSE mslp_on_demand_get_geojson
wrf_get_tile_data ==
    IF Full THEN wrf_full_get_tile ELSE wrf_on_demand_get_tile
wrf_get_geojson ==
    IF Full THEN wrf_full_get_geojson ELSE wrf_on_demand_get_geojson
wrf_get_barb_tile ==
    IF Full THEN wrf_full_get_barb_tile ELSE wrf_on_demand_get_barb_tile

\* offered: the product exists and has_tiles, has the layer, has_barbs.
gfs_get_tile_data ==
    CASE ~ep.offered -> <<>>
      [] Full        -> gfs_full_get_tile
      [] OTHER       -> gfs_on_demand_get_tile
gfs_get_geojson ==
    CASE ~ep.offered -> <<>>
      [] Full        -> gfs_full_get_geojson
      [] OTHER       -> gfs_on_demand_get_geojson
gfs_get_barb_tile ==
    CASE ~ep.offered -> <<>>
      [] Full        -> gfs_full_get_barb_tile
      [] OTHER       -> gfs_on_demand_get_barb_tile

\* Every sample_*_point ends in _sample_value; GFS first looks the product and
\* the secondary variable up.
sample_satellite_point == sample_cog_value
sample_radar_point == sample_cog_value
sample_ecmwf_tp_point == sample_cog_value
sample_ecmwf_mslp_point == sample_cog_value
sample_wrf_point == sample_cog_value
sample_wrf_secondary_point == sample_cog_value
sample_gfs_point == IF ep.offered THEN sample_cog_value ELSE <<>>
sample_gfs_secondary_point == IF ep.offered THEN sample_cog_value ELSE <<>>

-----------------------------------------------------------------------------
(* The routes.  zoom: z is validated; known: an unknown channel is refused *)
(* before anything else; tags: "pair" (a gap is a 200 with an ETag of its  *)
(* own), "single" (a gap is a 404), "none" (not cacheable); path: where    *)
(* the service looks.                                                      *)

satellite_tile_route == [zoom |-> TRUE, known |-> ep.offered, tags |-> "single",
                         path |-> satellite_get_tile_data]
radar_tile_route == [zoom |-> FALSE, known |-> TRUE, tags |-> "pair",
                     path |-> radar_get_tile_data]
ecmwf_tp_get_tile == [zoom |-> TRUE, known |-> TRUE, tags |-> "single",
                      path |-> ecmwf_tp_get_tile_data]
wrf_get_tile == [zoom |-> TRUE, known |-> TRUE, tags |-> "pair",
                 path |-> wrf_get_tile_data]
gfs_get_tile == [zoom |-> TRUE, known |-> TRUE, tags |-> "pair",
                 path |-> gfs_get_tile_data]
wrf_get_geojson_layer == [zoom |-> FALSE, known |-> TRUE, tags |-> "single",
                          path |-> wrf_get_geojson]
gfs_get_geojson_layer == [zoom |-> FALSE, known |-> TRUE, tags |-> "single",
                          path |-> gfs_get_geojson]
get_isobars_geojson == [zoom |-> FALSE, known |-> TRUE, tags |-> "single",
                        path |-> mslp_get_geojson]
wrf_barb_route == [zoom |-> TRUE, known |-> TRUE, tags |-> "pair",
                   path |-> wrf_get_barb_tile]
gfs_barb_route == [zoom |-> TRUE, known |-> TRUE, tags |-> "pair",
                   path |-> gfs_get_barb_tile]

PointRoute(known, path) ==
    [zoom |-> FALSE, known |-> known, tags |-> "none", path |-> path]

get_satellite_point_value == PointRoute(ep.offered, sample_satellite_point)
get_radar_point_value == PointRoute(TRUE, sample_radar_point)
ecmwf_tp_get_point_value == PointRoute(TRUE, sample_ecmwf_tp_point)
mslp_get_point_value == PointRoute(TRUE, sample_ecmwf_mslp_point)
wrf_get_point_value == PointRoute(TRUE, sample_wrf_point)
wrf_get_secondary_point_value == PointRoute(TRUE, sample_wrf_secondary_point)
gfs_get_point_value == PointRoute(TRUE, sample_gfs_point)
gfs_get_secondary_point_value == PointRoute(TRUE, sample_gfs_secondary_point)

route ==
    CASE ep.name = "satellite_tile"  -> satellite_tile_route
      [] ep.name = "radar_tile"      -> radar_tile_route
      [] ep.name = "ecmwf_tp_tile"   -> ecmwf_tp_get_tile
      [] ep.name = "wrf_tile"        -> wrf_get_tile
      [] ep.name = "gfs_tile"        -> gfs_get_tile
      [] ep.name = "wrf_geojson"     -> wrf_get_geojson_layer
      [] ep.name = "gfs_geojson"     -> gfs_get_geojson_layer
      [] ep.name = "mslp_geojson"    -> get_isobars_geojson
      [] ep.name = "wrf_barb"        -> wrf_barb_route
      [] ep.name = "gfs_barb"        -> gfs_barb_route
      [] ep.name = "satellite_point" -> get_satellite_point_value
      [] ep.name = "radar_point"     -> get_radar_point_value
      [] ep.name = "ecmwf_tp_point"  -> ecmwf_tp_get_point_value
      [] ep.name = "mslp_point"      -> mslp_get_point_value
      [] ep.name = "wrf_point"       -> wrf_get_point_value
      [] ep.name = "wrf_secondary"   -> wrf_get_secondary_point_value
      [] ep.name = "gfs_point"       -> gfs_get_point_value
      [] ep.name = "gfs_secondary"   -> gfs_get_secondary_point_value

\* The asset in Redis, and Redis with the asset.
Cached ==
    CASE ep.name = "satellite_tile" -> get_satellite_tile(db, 1, 1)
      [] ep.name = "radar_tile"     -> get_radar_tile(db, 1, 1)
      [] ep.name = "ecmwf_tp_tile"  -> get_ecmwf_tp_tile(db, 1, 1)
      [] ep.name = "wrf_tile"       -> get_wrf_tile(db, 1, 1, 1)
      [] ep.name = "gfs_tile"       -> get_gfs_tile(db, 1, 1, 1)
      [] ep.name = "wrf_geojson"    -> get_wrf_geojson(db, 1, 1, 1, 1)
      [] ep.name = "gfs_geojson"    -> get_gfs_geojson(db, 1, 1, 1, 1)
      [] ep.name = "mslp_geojson"   -> get_ecmwf_mslp_geojson(db, 1, 1)

Stored ==
    CASE ep.name = "satellite_tile" -> store_satellite_tile(db, 1, 1, TTL)
      [] ep.name = "radar_tile"     -> store_radar_tile(db, 1, 1, TTL)
      [] ep.name = "ecmwf_tp_tile"  -> store_ecmwf_tp_tile(db, 1, 1, TTL)
      [] ep.name = "wrf_tile"       -> store_wrf_tile(db, 1, 1, 1, TTL)
      [] ep.name = "gfs_tile"       -> store_gfs_tile(db, 1, 1, 1, TTL)
      [] ep.name = "wrf_geojson"    -> store_wrf_geojson(db, 1, 1, 1, 1, TTL)
      [] ep.name = "gfs_geojson"    -> store_gfs_geojson(db, 1, 1, 1, 1, TTL)
      [] ep.name = "mslp_geojson"   -> store_ecmwf_mslp_geojson(db, 1, 1, TTL)

-----------------------------------------------------------------------------
(* ETags *)

\* Mutant: a gap and the asset share a tag.
etag_pair_equal == [hit |-> "id", miss |-> "id"]

\* They must differ.
etag_pair == [hit |-> "id", miss |-> "id-miss"]

Tag == etag_pair.hit
MissTag == etag_pair.miss

-----------------------------------------------------------------------------
(* Requests and the copies of the viewers *)

Answers == {"none", "asset", "gap", "304", "400", "404", "500"}

\* at: the look under way, 0 when there is none; tag: If-None-Match; excused:
\* at some moment of the request the object was not there to be found.
Requests == [at : 0..3, tag : {None, "id", "id-miss"}, answer : Answers, excused : BOOLEAN]

\* fresh: for how long the viewer shows its copy without asking.
Copies == [body : {None, "asset", "gap"}, tag : {None, "id", "id-miss"},
           fresh : 0..(TileAge + MissAge)]

TypeOK ==
    /\ ep \in Endpoints
    /\ s3 \in BOOLEAN
    /\ Cardinality(DOMAIN db) <= 1 /\ \A k \in DOMAIN db : db[k].ttl \in 1..TTL
    /\ req \in [Viewers -> Requests]
    /\ \A v \in Viewers : req[v].at <= Len(route.path)
    /\ kept \in [Viewers -> Copies]
    /\ writes \in 0..MaxWrites
    /\ left \in [{"fault", "retire"} -> Nat]

Idle == [at |-> 0, tag |-> None, answer |-> "none", excused |-> FALSE]
NoCopy == [body |-> None, tag |-> None, fresh |-> 0]

Init ==
    /\ ep \in Endpoints
    /\ s3 \in BOOLEAN
    /\ db = NoKeys
    /\ req = [v \in Viewers |-> Idle]
    /\ kept = [v \in Viewers |-> NoCopy]
    /\ writes = 0
    /\ left = [fault |-> Faults, retire |-> Retirements]

Spend(kind) ==
    /\ left[kind] > 0
    /\ left' = [left EXCEPT ![kind] = @ - 1]

InFlight(v) == req[v].at > 0
Looking(v, where) == InFlight(v) /\ route.path[req[v].at] \in where

-----------------------------------------------------------------------------
(* Answers *)

\* excuse: the request could not have found the object.
Answer(v, a, excuse) ==
    req' = [req EXCEPT ![v] = [Idle EXCEPT !.answer = a, !.excused = excuse]]

Keep(v, body, tag, age) ==
    kept' = [kept EXCEPT ![v] = [body |-> body, tag |-> tag, fresh |-> age]]

Refused(v, a) == Answer(v, a, TRUE) /\ UNCHANGED kept

\* create_tile_response: the asset, its tag and a long max-age.
Found(v) ==
    /\ Answer(v, "asset", FALSE)
    /\ IF route.tags = "none" THEN UNCHANGED kept ELSE Keep(v, "asset", Tag, TileAge)

\* 304 before anything is read: the viewer goes on with what it has.
NotModified(v) ==
    /\ Answer(v, "304", FALSE)
    /\ kept' = [kept EXCEPT ![v].fresh =
                    IF kept[v].body = "gap" THEN MissAge ELSE TileAge]

\* No data: 404; or a gap with a tag and a short max-age of its own, 304 for a
\* viewer that already has that gap.
Missing(v, tag, excuse) ==
    CASE route.tags # "pair" -> Answer(v, "404", excuse) /\ UNCHANGED kept
      [] route.tags = "pair" /\ tag = MissTag ->
            Answer(v, "304", excuse) /\ kept' = [kept EXCEPT ![v].fresh = MissAge]
      [] OTHER -> Answer(v, "gap", excuse) /\ Keep(v, "gap", MissTag, MissAge)

NotFound(v) == Missing(v, req[v].tag, req[v].excused)
FailedToFind(v) == Missing(v, req[v].tag, TRUE)

-----------------------------------------------------------------------------
(* The steps of a request *)

\* Mutant: the tag is not compared before the object is looked for.
Ask_no_revalidation(v, zoomOk) ==
    /\ ~InFlight(v) /\ kept[v].fresh = 0
    /\ CASE ~route.known -> Refused(v, "404")
         [] route.known /\ route.zoom /\ ~zoomOk -> Refused(v, "400")
         [] route.known /\ (route.zoom => zoomOk) /\ route.path = <<>> ->
                Missing(v, kept[v].tag, TRUE)
         [] OTHER ->
                /\ req' = [req EXCEPT ![v] = [at |-> 1, tag |-> kept[v].tag,
                                              answer |-> "none", excused |-> ~s3]]
                /\ UNCHANGED kept
    /\ UNCHANGED <<ep, s3, db, writes, left>>

\* A viewer shows a fresh copy without asking.  zoomOk: z is in the valid range.
Ask(v, zoomOk) ==
    /\ ~InFlight(v) /\ kept[v].fresh = 0
    /\ CASE ~route.known -> Refused(v, "404")
         [] route.known /\ route.zoom /\ ~zoomOk -> Refused(v, "400")
         [] route.known /\ (route.zoom => zoomOk) /\ kept[v].tag = Tag -> NotModified(v)
         [] route.known /\ (route.zoom => zoomOk) /\ kept[v].tag # Tag
            /\ route.path = <<>> -> Missing(v, kept[v].tag, TRUE)
         [] OTHER ->
                /\ req' = [req EXCEPT ![v] = [at |-> 1, tag |-> kept[v].tag,
                                              answer |-> "none", excused |-> ~s3]]
                /\ UNCHANGED kept
    /\ UNCHANGED <<ep, s3, db, writes, left>>

\* Mutant: what is not in Redis is not there.
LookInCache_no_fallback(v) ==
    /\ Looking(v, {"cache"})
    /\ IF Cached # None THEN Found(v) ELSE NotFound(v)
    /\ UNCHANGED <<ep, s3, db, writes, left>>

LookInCache(v) ==
    /\ Looking(v, {"cache"})
    /\ IF Cached # None THEN Found(v)
       ELSE req' = [req EXCEPT ![v].at = @ + 1] /\ UNCHANGED kept
    /\ UNCHANGED <<ep, s3, db, writes, left>>

\* Redis is down: nothing catches it.
CacheFails(v) ==
    /\ Looking(v, {"cache"})
    /\ Spend("fault")
    /\ Refused(v, "500")
    /\ UNCHANGED <<ep, s3, db, writes>>

\* What is found is stored by a task of its own.
download_tile(v) ==
    /\ Looking(v, {"s3", "s3+cache"})
    /\ IF s3
       THEN /\ Found(v)
            /\ writes < MaxWrites
            /\ writes' = IF Looking(v, {"s3+cache"}) THEN writes + 1 ELSE writes
       ELSE NotFound(v) /\ UNCHANGED writes
    /\ UNCHANGED <<ep, s3, db, left>>

\* Any S3 error is None, as a 404 is.
DownloadFails(v) ==
    /\ Looking(v, {"s3", "s3+cache"})
    /\ Spend("fault")
    /\ FailedToFind(v)
    /\ UNCHANGED <<ep, s3, db, writes>>

\* HEAD: absent is a 404.
object_exists(v) ==
    /\ Looking(v, {"head"})
    /\ IF s3 THEN req' = [req EXCEPT ![v].at = @ + 1] /\ UNCHANGED kept ELSE NotFound(v)
    /\ UNCHANGED <<ep, s3, db, writes, left>>

\* Any other S3 error is raised.
HeadFails(v) ==
    /\ Looking(v, {"head"})
    /\ Spend("fault")
    /\ Refused(v, "500")
    /\ UNCHANGED <<ep, s3, db, writes>>

\* The raster is opened in a thread; gone since: 404.  The viewer asks for a
\* point inside the raster; one outside it, or without data, is a 404 for good.
read_point_from_cog_sync(v) ==
    /\ Looking(v, {"cog"})
    /\ IF s3 THEN Found(v) ELSE NotFound(v)
    /\ UNCHANGED <<ep, s3, db, writes, left>>

\* RasterioIOError is "no data" too.
CogFails(v) ==
    /\ Looking(v, {"cog"})
    /\ Spend("fault")
    /\ FailedToFind(v)
    /\ UNCHANGED <<ep, s3, db, writes>>

-----------------------------------------------------------------------------
(* The background write, time, and the publisher *)

Store ==
    /\ writes > 0
    /\ writes' = writes - 1
    /\ db' = Stored
    /\ UNCHANGED <<ep, s3, req, kept, left>>

\* The write fails; or, but for GFS, its task is collected before it runs.
StoreLost ==
    /\ writes > 0
    /\ Spend("fault")
    /\ writes' = writes - 1
    /\ UNCHANGED <<ep, s3, db, req, kept>>

Tick ==
    /\ db' = Aged(db)
    /\ kept' = [v \in Viewers |->
                  [kept[v] EXCEPT !.fresh = IF @ > 0 THEN @ - 1 ELSE 0]]
    /\ <<db, kept>>' # <<db, kept>>
    /\ UNCHANGED <<ep, s3, req, writes, left>>

Publish ==
    /\ ~s3
    /\ s3' = TRUE
    /\ UNCHANGED <<ep, db, req, kept, writes, left>>

Retire ==
    /\ s3
    /\ Spend("retire")
    /\ s3' = FALSE
    /\ req' = [v \in Viewers |->
                 IF InFlight(v) THEN [req[v] EXCEPT !.excused = TRUE] ELSE req[v]]
    /\ UNCHANGED <<ep, db, kept, writes>>

Looks(v) ==
    \/ LookInCache(v)
    \/ CacheFails(v)
    \/ download_tile(v)
    \/ DownloadFails(v)
    \/ object_exists(v)
    \/ HeadFails(v)
    \/ read_point_from_cog_sync(v)
    \/ CogFails(v)

Next ==
    \/ \E v \in Viewers, z \in BOOLEAN : Ask(v, z)
    \/ \E v \in Viewers : Looks(v)
    \/ Store
    \/ StoreLost
    \/ Tick
    \/ Publish
    \/ Retire

Spec == Init /\ [][Next]_vars

\* Calls return, tasks run, time passes; and a viewer that looks at the map
\* keeps asking for what it does not have.
FairSpec ==
    /\ Spec
    /\ WF_vars(Store)
    /\ WF_vars(Tick)
    /\ \A v \in Viewers : WF_vars(Looks(v)) /\ WF_vars(Ask(v, TRUE))

-----------------------------------------------------------------------------
(* Properties *)

\* While the object stays in S3 a valid request finds it, whatever Redis has
\* lost: "no data" (404 or a gap) is only answered when the object was absent
\* at some moment of the request, S3 failed in it, or the catalogue does not
\* offer it.
\* satellite_sync_strategy.py: "Redis eviction only makes a read slower, never
\* unservable".
ServableWhileInS3 ==
    \A v \in Viewers : req[v].answer \in {"404", "gap"} => req[v].excused

\* A viewer that was given the asset never gets a gap in its place, although
\* the asset is removed from S3 and expires from Redis: its tag alone settles
\* the request.
AssetNeverLost ==
    [][\A v \in Viewers : kept[v].body = "asset" => kept'[v].body = "asset"]_vars

\* An asset that is in S3 for good reaches every viewer that keeps asking, also
\* one that was given a gap first (routes/utils.py etag_pair: with a single tag
\* "the tile would never arrive").
AssetArrives ==
    \A v \in Viewers :
        (<>[]s3 /\ []ep.offered) =>
            <>(kept[v].body = "asset" \/ (route.tags = "none" /\ req[v].answer = "asset"))
=============================================================================
