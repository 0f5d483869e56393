----------------------------- MODULE RedisClient -----------------------------
(***************************************************************************)
(* Redis as clients/redis_client.py uses it.  A database is a function     *)
(* from the keys that exist to what they hold and how long they still      *)
(* live; the remaining life, not a deadline, is kept, so that time needs   *)
(* no bound.  A key is a tuple: its kind, then what the code formats into  *)
(* it.  A tile, a GeoJSON or a flag is a value; an index is the set of its *)
(* members (a sorted set's order is that of its members).                  *)
(***************************************************************************)
EXTENDS Integers

\* The value of a key that holds bytes nobody looks into.
Bytes == "bytes"

\* What get() answers when there is no key.
None == "none"

NoKeys == [k \in {} |-> 0]

Has(db, k) == k \in DOMAIN db

Get(db, k) == IF Has(db, k) THEN db[k].val ELSE None

\* SMEMBERS, ZRANGE: no key is an empty set.
Members(db, k) == IF Has(db, k) THEN db[k].val ELSE {}

\* SET with EX.
SetEx(db, k, v, ttl) ==
    [x \in DOMAIN db \cup {k} |-> IF x = k THEN [val |-> v, ttl |-> ttl] ELSE db[x]]

Del(db, k) == [x \in DOMAIN db \ {k} |-> db[x]]

\* SADD or ZADD and EXPIRE in one transaction.
AddMembers(db, k, ms, ttl) ==
    IF ms = {} THEN db ELSE SetEx(db, k, Members(db, k) \cup ms, ttl)

\* SREM or ZREM of all the others: a set without members is no key, and the
\* life of what remains is not touched.
KeepMembers(db, k, keep) ==
    IF Members(db, k) \cap keep = {} THEN Del(db, k)
    ELSE [db EXCEPT ![k].val = @ \cap keep]

\* A unit of time: what had one unit left is gone.
Aged(db) ==
    [k \in {x \in DOMAIN db : db[x].ttl > 1} |-> [db[k] EXCEPT !.ttl = @ - 1]]

-----------------------------------------------------------------------------
(* Satellite and radar tiles as the readers use them: d a channel directory  *)
(* or an elevation, t a tileset.  The synchronisers' view is in TilesetSync. *)

SatTile(d, t) == <<"tile:sat", d, t>>
RadarTile(d, t) == <<"tile:radar", d, t>>

store_satellite_tile(db, d, t, ttl) == SetEx(db, SatTile(d, t), Bytes, ttl)
get_satellite_tile(db, d, t) == Get(db, SatTile(d, t))
store_radar_tile(db, d, t, ttl) == SetEx(db, RadarTile(d, t), Bytes, ttl)
get_radar_tile(db, d, t) == Get(db, RadarTile(d, t))

-----------------------------------------------------------------------------
(* ECMWF total precipitation: f a forecast, p a period *)

TpForecasts == <<"idx:ecmwf_tp:forecasts">>
TpPeriods(f) == <<"idx:ecmwf_tp:periods", f>>
TpTile(f, p) == <<"tile:ecmwf_tp", f, p>>

store_ecmwf_tp_tile(db, f, p, ttl) == SetEx(db, TpTile(f, p), Bytes, ttl)
get_ecmwf_tp_tile(db, f, p) == Get(db, TpTile(f, p))

\* The forecasts key is written and refreshed whatever the periods are.
store_ecmwf_tp_index(db, f, periods, ttl) ==
    AddMembers(AddMembers(db, TpForecasts, {f}, ttl), TpPeriods(f), periods, ttl)

get_ecmwf_tp_forecasts(db) == Members(db, TpForecasts)
get_ecmwf_tp_periods(db, f) == Members(db, TpPeriods(f))

prune_index_set(db, k, keep) == KeepMembers(db, k, keep)
prune_ecmwf_tp_forecasts(db, keep) == prune_index_set(db, TpForecasts, keep)

-----------------------------------------------------------------------------
(* ECMWF mean sea level pressure: f a forecast, t a timestamp *)

MslpForecasts == <<"idx:ecmwf_mslp:forecasts">>
MslpTimestamps(f) == <<"idx:ecmwf_mslp:timestamps", f>>
MslpGeojson(f, t) == <<"geojson:ecmwf_mslp", f, t>>

store_ecmwf_mslp_geojson(db, f, t, ttl) == SetEx(db, MslpGeojson(f, t), Bytes, ttl)
get_ecmwf_mslp_geojson(db, f, t) == Get(db, MslpGeojson(f, t))

store_ecmwf_mslp_index(db, f, timestamps, ttl) ==
    AddMembers(AddMembers(db, MslpForecasts, {f}, ttl),
               MslpTimestamps(f), timestamps, ttl)

get_ecmwf_mslp_forecasts(db) == Members(db, MslpForecasts)
get_ecmwf_mslp_timestamps(db, f) == Members(db, MslpTimestamps(f))
prune_ecmwf_mslp_forecasts(db, keep) == prune_index_set(db, MslpForecasts, keep)

-----------------------------------------------------------------------------
(* WRF: i a product, r an init run, s a step, l an overlay layer *)

WrfProducts == <<"idx:wrf:products">>
WrfInits(i) == <<"idx:wrf:init_runs", i>>
WrfSteps(i, r) == <<"idx:wrf:steps", i, r>>
WrfLayers(i, r, s) == <<"idx:wrf:layers", i, r, s>>
WrfDone(i, r, s) == <<"idx:wrf:overlays_done", i, r, s>>
WrfTile(i, r, s) == <<"tile:wrf", i, r, s>>
WrfGeojson(i, r, s, l) == <<"geojson:wrf", i, r, s, l>>

store_wrf_tile(db, i, r, s, ttl) == SetEx(db, WrfTile(i, r, s), Bytes, ttl)
get_wrf_tile(db, i, r, s) == Get(db, WrfTile(i, r, s))
store_wrf_geojson(db, i, r, s, l, ttl) == SetEx(db, WrfGeojson(i, r, s, l), Bytes, ttl)
get_wrf_geojson(db, i, r, s, l) == Get(db, WrfGeojson(i, r, s, l))

add_wrf_index(db, i, r, s, ttl) ==
    AddMembers(AddMembers(AddMembers(db, WrfProducts, {i}, ttl),
                          WrfInits(i), {r}, ttl),
               WrfSteps(i, r), {s}, ttl)

get_wrf_init_runs(db, i) == Members(db, WrfInits(i))
get_wrf_steps(db, i, r) == Members(db, WrfSteps(i, r))

prune_sorted_index(db, k, keep) == KeepMembers(db, k, keep)
prune_wrf_inits(db, i, keep) == prune_sorted_index(db, WrfInits(i), keep)

add_wrf_layers(db, i, r, s, layers, ttl) ==
    AddMembers(db, WrfLayers(i, r, s), layers, ttl)
get_wrf_layers(db, i, r, s) == Members(db, WrfLayers(i, r, s))

set_wrf_overlays_complete(db, i, r, s, ttl) == SetEx(db, WrfDone(i, r, s), Bytes, ttl)
is_wrf_overlays_complete(db, i, r, s) == Has(db, WrfDone(i, r, s))

-----------------------------------------------------------------------------
(* GFS: i a product, c a cycle, s a step, l an overlay layer *)

GfsCycles(i) == <<"idx:gfs:cycles", i>>
GfsSteps(i, c) == <<"idx:gfs:steps", i, c>>
GfsLayers(i, c, s) == <<"idx:gfs:layers", i, c, s>>
GfsTile(i, c, s) == <<"tile:gfs", i, c, s>>
GfsGeojson(i, c, s, l) == <<"geojson:gfs", i, c, s, l>>

add_gfs_index(db, i, c, s, ttl) ==
    AddMembers(AddMembers(db, GfsCycles(i), {c}, ttl), GfsSteps(i, c), {s}, ttl)

get_gfs_cycles(db, i) == Members(db, GfsCycles(i))
get_gfs_steps(db, i, c) == Members(db, GfsSteps(i, c))
prune_gfs_cycles(db, i, keep) == prune_sorted_index(db, GfsCycles(i), keep)

store_gfs_geojson(db, i, c, s, l, ttl) == SetEx(db, GfsGeojson(i, c, s, l), Bytes, ttl)
get_gfs_geojson(db, i, c, s, l) == Get(db, GfsGeojson(i, c, s, l))
store_gfs_tile(db, i, c, s, ttl) == SetEx(db, GfsTile(i, c, s), Bytes, ttl)
get_gfs_tile(db, i, c, s) == Get(db, GfsTile(i, c, s))

add_gfs_layers(db, i, c, s, layers, ttl) ==
    AddMembers(db, GfsLayers(i, c, s), layers, ttl)
get_gfs_layers(db, i, c, s) == Members(db, GfsLayers(i, c, s))
=============================================================================
