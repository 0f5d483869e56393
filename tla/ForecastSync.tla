---------------------------- MODULE ForecastSync ----------------------------
(***************************************************************************)
(* The loops that mirror forecast runs from S3 to Redis:                   *)
(* services/ecmwf_tp_sync_service.py, ecmwf_mslp_sync_service.py,          *)
(* wrf_sync_service.py and gfs_sync_service.py.  All four keep the newest  *)
(* runs only; they differ in what they list, in what they download and in  *)
(* what they write to the index when.                                      *)
(*                                                                         *)
(* A run is an ECMWF forecast, a WRF init run or a GFS cycle; a unit is    *)
(* one of its periods, timestamps or steps.  Both are numbered in the      *)
(* order of their names.  The tiles of a unit are one object: partial      *)
(* downloads are the subject of TilesetSync.  Each await is a step.        *)
(***************************************************************************)
EXTENDS RedisClient, FiniteSets

CONSTANTS
    Shapes,       \* instances: a product and how many ids, runs, units and overlay
                  \* layers it has
    Keep,         \* ecmwf_forecasts_to_keep, wrf_inits_to_keep, gfs_cycles_to_keep
    TTL,          \* life of tiles, GeoJSON and index keys
    RecheckTTL,   \* wrf_overlay_recheck_ttl
    Faults,       \* bound: S3 and Redis calls that fail
    Cancels,      \* bound: cycles that the watchdog or a stop cancels
    Retirements   \* bound: runs the publisher removes

Products == {"ecmwf_tp", "ecmwf_mslp", "wrf", "gfs"}

ASSUME ForecastAssumption ==
    /\ Shapes \subseteq [product : Products, ids : Nat, runs : Nat, units : Nat, layers : Nat]
    /\ \A sh \in Shapes :
         /\ sh.ids > 0
         /\ sh.product \in {"ecmwf_tp", "ecmwf_mslp"} => sh.ids = 1
         /\ sh.product = "ecmwf_mslp" => sh.layers = 1
    /\ Keep \in Nat \ {0} /\ TTL \in Nat \ {0} /\ RecheckTTL \in Nat \ {0}
    /\ Faults \in Nat /\ Cancels \in Nat /\ Retirements \in Nat

VARIABLES
    shape,        \* the instance: never changes
    s3,           \* objects <<id, run, unit, asset>>
    db,           \* Redis
    pc,           \* the await the loop is suspended at
    walk,         \* the locals of the cycle
    outcome,      \* "ok" or "error"
    left,         \* what remains of each bound
    retired       \* <<id, run>> the publisher removed

vars == <<shape, s3, db, pc, walk, outcome, left, retired>>

product == shape.product
Ids == 1..shape.ids
Runs == 1..shape.runs
Units == 1..shape.units
Layers == 1..shape.layers

\* The object that makes a unit appear in a listing: its tiles (ECMWF-TP, WRF)
\* or its COG (MSLP and GFS, which may have no raster).
Raster == 0

\* The other assets are overlays; MSLP's only one is its GeoJSON.
Assets == {Raster} \cup Layers

Places == {"asleep", "runs", "units", "known", "steps", "fetch", "index",
           "marker", "layers", "compare", "latch", "mirror", "register", "seal",
           "prune", "report"}

\* id: product id; active: runs kept; todo: those still to visit; run, unit:
\* where the loop is; listed, known: units in S3, in the index; units: those
\* still to visit; pending: downloads or layers under way; stored: what landed;
\* layers: what the step's listing found; latch: TTL of the marker to write.
Walks == [id : Ids, active : SUBSET Runs, todo : SUBSET Runs, run : 0..shape.runs,
          listed : SUBSET Units, known : SUBSET Units, units : SUBSET Units,
          unit : 0..shape.units,
          pending : SUBSET (Units \cup Layers), stored : SUBSET (Units \cup Layers),
          layers : SUBSET Layers, latch : 0..(TTL + RecheckTTL)]

NoWalk == [id |-> 1, active |-> {}, todo |-> {}, run |-> 0, listed |-> {},
           known |-> {}, units |-> {}, unit |-> 0, pending |-> {}, stored |-> {},
           layers |-> {}, latch |-> 0]

TypeOK ==
    /\ shape \in Shapes
    /\ s3 \subseteq Ids \X Runs \X Units \X Assets
    /\ \A k \in DOMAIN db : db[k].ttl \in 1..(TTL + RecheckTTL)
    /\ pc \in Places
    /\ walk \in Walks
    /\ outcome \in {"ok", "error"}
    /\ left \in [{"fault", "cancel", "retire"} -> Nat]
    /\ retired \subseteq Ids \X Runs

Init ==
    /\ shape \in Shapes
    /\ s3 = {}
    /\ db = NoKeys
    /\ pc = "asleep"
    /\ walk = NoWalk
    /\ outcome = "ok"
    /\ left = [fault |-> Faults, cancel |-> Cancels, retire |-> Retirements]
    /\ retired = {}

Spend(kind) ==
    /\ left[kind] > 0
    /\ left' = [left EXCEPT ![kind] = @ - 1]

-----------------------------------------------------------------------------
(* What S3 and the index hold *)

InS3(u, a) == <<walk.id, walk.run, u, a>> \in s3

RunsOf(i) == {r \in Runs : \E u \in Units : <<i, r, u, Raster>> \in s3}

UnitsOf(i, r) == {u \in Units : <<i, r, u, Raster>> \in s3}

LayersOf(i, r, u) == {l \in Layers : <<i, r, u, l>> \in s3}

\* sorted(..., reverse=True)[:keep]
Newest(runs) == {r \in runs : Cardinality({q \in runs : q >= r}) <= Keep}

Highest(S) == CHOOSE x \in S : \A y \in S : y <= x
Lowest(S) == CHOOSE x \in S : \A y \in S : x <= y

RunIndex(i) ==
    CASE product = "ecmwf_tp"   -> get_ecmwf_tp_forecasts(db)
      [] product = "ecmwf_mslp" -> get_ecmwf_mslp_forecasts(db)
      [] product = "wrf"        -> get_wrf_init_runs(db, i)
      [] product = "gfs"        -> get_gfs_cycles(db, i)

UnitIndex(i, r) ==
    CASE product = "ecmwf_tp"   -> get_ecmwf_tp_periods(db, r)
      [] product = "ecmwf_mslp" -> get_ecmwf_mslp_timestamps(db, r)
      [] product = "wrf"        -> get_wrf_steps(db, i, r)
      [] product = "gfs"        -> get_gfs_steps(db, i, r)

LayerIndex(i, r, u) ==
    CASE product = "wrf" -> get_wrf_layers(db, i, r, u)
      [] product = "gfs" -> get_gfs_layers(db, i, r, u)
      [] OTHER           -> {}

-----------------------------------------------------------------------------
(* The cycle *)

Wake ==
    /\ pc = "asleep"
    /\ pc' = "runs"
    /\ outcome' = "ok"
    /\ walk' = NoWalk
    /\ UNCHANGED <<shape, s3, db, left, retired>>

\* The next product id, or the end of the cycle.
NextId ==
    IF walk.id + 1 \in Ids
    THEN pc' = "runs" /\ walk' = [NoWalk EXCEPT !.id = walk.id + 1]
    ELSE pc' = "report" /\ walk' = NoWalk

\* The newest runs of the product: the head of _sync_ecmwf_tp and
\* _sync_ecmwf_mslp, _select_active_inits, _active_cycles.  No run: no prune.
ListRuns ==
    /\ pc = "runs"
    /\ LET active == Newest(RunsOf(walk.id)) IN
       IF active = {} THEN NextId
       ELSE /\ pc' = "units"
            /\ walk' = [walk EXCEPT !.active = active, !.todo = active]
    /\ UNCHANGED <<shape, s3, db, outcome, left, retired>>

\* The units of the newest run not yet visited.
ListUnits ==
    /\ pc = "units"
    /\ LET r == Highest(walk.todo)
           units == UnitsOf(walk.id, r) IN
       walk' = [walk EXCEPT !.run = r, !.todo = @ \ {r}, !.listed = units, !.units = units]
    /\ pc' = IF product = "gfs" THEN "steps" ELSE "known"
    /\ UNCHANGED <<shape, s3, db, outcome, left, retired>>

\* What Redis knows of the run.  ECMWF visits the new units only; WRF visits
\* all, for their overlays.
ReadKnown ==
    /\ pc = "known"
    /\ LET known == UnitIndex(walk.id, walk.run)
           new == walk.listed \ known IN
       CASE product = "ecmwf_tp" ->
              /\ pc' = "steps"
              /\ walk' = [walk EXCEPT !.known = known, !.units = new]
         [] product = "ecmwf_mslp" ->
              /\ pc' = IF new = {} THEN "seal" ELSE "fetch"
              /\ walk' = [walk EXCEPT !.known = known, !.units = {}, !.pending = new]
         [] product = "wrf" ->
              /\ pc' = "steps"
              /\ walk' = [walk EXCEPT !.known = known]
    /\ UNCHANGED <<shape, s3, db, outcome, left, retired>>

\* The locals of one run are dead.
RunDone(w) ==
    /\ pc' = IF w.todo = {} THEN "prune" ELSE "units"
    /\ walk' = [NoWalk EXCEPT !.id = w.id, !.active = w.active, !.todo = w.todo]

NextUnit ==
    /\ pc = "steps"
    /\ walk.units # {}
    /\ LET u == Lowest(walk.units) IN
       /\ walk' = [walk EXCEPT !.unit = u, !.units = @ \ {u}, !.pending = {},
                               !.stored = {}, !.layers = {}]
       /\ pc' = CASE product = "ecmwf_tp" -> "fetch"
                  [] product = "wrf"      -> IF u \in walk.known THEN "marker" ELSE "fetch"
                  [] product = "gfs"      -> "index"
    /\ UNCHANGED <<shape, s3, db, outcome, left, retired>>

UnitsDone ==
    /\ pc = "steps"
    /\ walk.units = {}
    /\ IF product = "ecmwf_tp" THEN pc' = "seal" /\ UNCHANGED walk ELSE RunDone(walk)
    /\ UNCHANGED <<shape, s3, db, outcome, left, retired>>

\* Where a unit goes on when its tiles were looked at.
AfterFetch == IF product = "wrf" THEN "marker" ELSE "steps"

\* sync_ecmwf_tp_period_to_redis, sync_wrf_step_to_redis: the tiles land.
TilesLand ==
    /\ pc = "fetch"
    /\ product \in {"ecmwf_tp", "wrf"}
    /\ InS3(walk.unit, Raster)
    /\ db' = IF product = "ecmwf_tp"
             THEN store_ecmwf_tp_tile(db, walk.run, walk.unit, TTL)
             ELSE store_wrf_tile(db, walk.id, walk.run, walk.unit, TTL)
    /\ pc' = "index"
    /\ UNCHANGED <<shape, s3, walk, outcome, left, retired>>

\* The tiles are gone, or every download returned False: nothing is stored.
TilesMissing ==
    /\ pc = "fetch"
    /\ product \in {"ecmwf_tp", "wrf"}
    /\ \/ ~InS3(walk.unit, Raster) /\ UNCHANGED left
       \/ Spend("fault")
    /\ pc' = AfterFetch
    /\ UNCHANGED <<shape, s3, db, walk, outcome, retired>>

\* _download_ecmwf_mslp_geojson_to_redis of each new timestamp, side by side:
\* one that is not there yet, or fails, returns False.
GeojsonLands(t) ==
    /\ pc = "fetch"
    /\ product = "ecmwf_mslp"
    /\ t \in walk.pending
    /\ \E l \in Layers : InS3(t, l)
    /\ db' = store_ecmwf_mslp_geojson(db, walk.run, t, TTL)
    /\ walk' = [walk EXCEPT !.pending = @ \ {t}, !.stored = @ \cup {t}]
    /\ UNCHANGED <<shape, s3, pc, outcome, left, retired>>

GeojsonMissing(t) ==
    /\ pc = "fetch"
    /\ product = "ecmwf_mslp"
    /\ t \in walk.pending
    /\ \/ (\A l \in Layers : ~InS3(t, l)) /\ UNCHANGED left
       \/ Spend("fault")
    /\ walk' = [walk EXCEPT !.pending = @ \ {t}]
    /\ UNCHANGED <<shape, s3, db, pc, outcome, retired>>

AllFetched ==
    /\ pc = "fetch"
    /\ product = "ecmwf_mslp"
    /\ walk.pending = {}
    /\ pc' = "seal"
    /\ UNCHANGED <<shape, s3, db, walk, outcome, left, retired>>

\* The frontier checkpoint of ECMWF-TP and WRF; GFS indexes a step before it
\* looks at its overlays.
IndexUnit ==
    /\ pc = "index"
    /\ CASE product = "ecmwf_tp" ->
              /\ db' = store_ecmwf_tp_index(db, walk.run, {walk.unit}, TTL)
              /\ pc' = "steps"
              /\ UNCHANGED walk
         [] product = "wrf" ->
              /\ db' = add_wrf_index(db, walk.id, walk.run, walk.unit, TTL)
              /\ pc' = "marker"
              /\ UNCHANGED walk
         [] product = "gfs" ->
              /\ db' = add_gfs_index(db, walk.id, walk.run, walk.unit, TTL)
              /\ pc' = "mirror"
              /\ walk' = [walk EXCEPT !.pending = Layers]
    /\ UNCHANGED <<shape, s3, outcome, left, retired>>

\* Mutant: MSLP indexes every timestamp its COG listing shows.
Seal_whole_listing ==
    /\ pc = "seal"
    /\ db' = IF product = "ecmwf_tp"
             THEN store_ecmwf_tp_index(db, walk.run, walk.listed, TTL)
             ELSE store_ecmwf_mslp_index(db, walk.run, walk.listed, TTL)
    /\ RunDone(walk)
    /\ UNCHANGED <<shape, s3, outcome, left, retired>>

\* ECMWF-TP refreshes its index with every listed period; MSLP indexes the
\* known timestamps that are still listed and those stored now.
Seal ==
    /\ pc = "seal"
    /\ db' = IF product = "ecmwf_tp"
             THEN store_ecmwf_tp_index(db, walk.run, walk.listed, TTL)
             ELSE store_ecmwf_mslp_index(db, walk.run,
                      (walk.known \cap walk.listed) \cup walk.stored, TTL)
    /\ RunDone(walk)
    /\ UNCHANGED <<shape, s3, outcome, left, retired>>

-----------------------------------------------------------------------------
(* Overlays *)

\* Mutant: looking at the marker prolongs it.
CheckMarker_refreshes ==
    /\ pc = "marker"
    /\ LET done == is_wrf_overlays_complete(db, walk.id, walk.run, walk.unit) IN
       /\ pc' = IF done THEN "steps" ELSE "layers"
       /\ db' = IF done
                THEN set_wrf_overlays_complete(db, walk.id, walk.run, walk.unit, TTL)
                ELSE db
    /\ UNCHANGED <<shape, s3, walk, outcome, left, retired>>

\* _sync_wrf_overlays: a step with a completion marker is skipped.
CheckMarker ==
    /\ pc = "marker"
    /\ pc' = IF is_wrf_overlays_complete(db, walk.id, walk.run, walk.unit)
             THEN "steps" ELSE "layers"
    /\ UNCHANGED <<shape, s3, db, walk, outcome, left, retired>>

\* list_wrf_layers; none is latched for the short recheck time.
ListLayers ==
    /\ pc = "layers"
    /\ LET layers == LayersOf(walk.id, walk.run, walk.unit) IN
       IF layers = {}
       THEN pc' = "latch" /\ walk' = [walk EXCEPT !.latch = RecheckTTL]
       ELSE pc' = "compare" /\ walk' = [walk EXCEPT !.layers = layers]
    /\ UNCHANGED <<shape, s3, db, outcome, left, retired>>

\* "Skip when Redis already mirrors every layer": judged by the layer index.
CompareLayers ==
    /\ pc = "compare"
    /\ LET missing == walk.layers \ get_wrf_layers(db, walk.id, walk.run, walk.unit) IN
       IF missing = {}
       THEN pc' = "latch" /\ walk' = [walk EXCEPT !.latch = TTL]
       ELSE pc' = "register" /\ walk' = [walk EXCEPT !.pending = missing]
    /\ UNCHANGED <<shape, s3, db, outcome, left, retired>>

Latch ==
    /\ pc = "latch"
    /\ db' = set_wrf_overlays_complete(db, walk.id, walk.run, walk.unit, walk.latch)
    /\ pc' = "steps"
    /\ walk' = [walk EXCEPT !.latch = 0]
    /\ UNCHANGED <<shape, s3, outcome, left, retired>>

\* WRF registers every layer of S3 before it copies the missing ones; GFS the
\* layers that are in Redis, after it copied them.
RegisterLayers ==
    /\ pc = "register"
    /\ db' = IF product = "wrf"
             THEN add_wrf_layers(db, walk.id, walk.run, walk.unit, walk.layers, TTL)
             ELSE add_gfs_layers(db, walk.id, walk.run, walk.unit, walk.stored, TTL)
    /\ pc' = IF product = "wrf" THEN "mirror" ELSE "steps"
    /\ UNCHANGED <<shape, s3, walk, outcome, left, retired>>

\* sync_wrf_geojson_to_redis, and an iteration of _mirror_overlays: GFS keeps a
\* layer Redis already holds.
LayerMirrored(l) ==
    /\ pc = "mirror"
    /\ l \in walk.pending
    /\ \/ /\ product = "gfs"
          /\ get_gfs_geojson(db, walk.id, walk.run, walk.unit, l) # None
          /\ UNCHANGED db
       \/ /\ product = "gfs"
          /\ get_gfs_geojson(db, walk.id, walk.run, walk.unit, l) = None
          /\ InS3(walk.unit, l)
          /\ db' = store_gfs_geojson(db, walk.id, walk.run, walk.unit, l, TTL)
       \/ /\ product = "wrf"
          /\ InS3(walk.unit, l)
          /\ db' = store_wrf_geojson(db, walk.id, walk.run, walk.unit, l, TTL)
    /\ walk' = [walk EXCEPT !.pending = @ \ {l}, !.stored = @ \cup {l}]
    /\ UNCHANGED <<shape, s3, pc, outcome, left, retired>>

\* The object is not there, or the download fails: no error, no layer.
LayerMissing(l) ==
    /\ pc = "mirror"
    /\ l \in walk.pending
    /\ product = "gfs" => get_gfs_geojson(db, walk.id, walk.run, walk.unit, l) = None
    /\ \/ ~InS3(walk.unit, l) /\ UNCHANGED left
       \/ Spend("fault")
    /\ walk' = [walk EXCEPT !.pending = @ \ {l}]
    /\ UNCHANGED <<shape, s3, db, pc, outcome, retired>>

LayersDone ==
    /\ pc = "mirror"
    /\ walk.pending = {}
    /\ pc' = IF product = "wrf" THEN "steps" ELSE "register"
    /\ UNCHANGED <<shape, s3, db, walk, outcome, left, retired>>

-----------------------------------------------------------------------------
(* The end of a cycle *)

\* Mutant: one run too many is kept.
Pruned_one_more(keep) ==
    LET more == keep \cup {r \in RunIndex(walk.id) : r + 1 \in keep} IN
    CASE product = "ecmwf_tp"   -> prune_ecmwf_tp_forecasts(db, more)
      [] product = "ecmwf_mslp" -> prune_ecmwf_mslp_forecasts(db, more)
      [] product = "wrf"        -> prune_wrf_inits(db, walk.id, more)
      [] product = "gfs"        -> prune_gfs_cycles(db, walk.id, more)

Pruned(keep) ==
    CASE product = "ecmwf_tp"   -> prune_ecmwf_tp_forecasts(db, keep)
      [] product = "ecmwf_mslp" -> prune_ecmwf_mslp_forecasts(db, keep)
      [] product = "wrf"        -> prune_wrf_inits(db, walk.id, keep)
      [] product = "gfs"        -> prune_gfs_cycles(db, walk.id, keep)

\* The run index is reconciled to the runs listed when the walk began.
Prune ==
    /\ pc = "prune"
    /\ db' = Pruned(walk.active)
    /\ NextId
    /\ UNCHANGED <<shape, s3, outcome, left, retired>>

\* Mutant: the listing of the runs degrades to an empty one, and is pruned to.
WalkFails_prunes ==
    /\ \/ pc \in {"runs", "units", "known", "fetch", "index", "marker", "seal", "prune"}
       \/ pc \in {"mirror", "register"} /\ product = "gfs"
    /\ Spend("fault")
    /\ outcome' = "error"
    /\ pc' = "prune"
    /\ walk' = [NoWalk EXCEPT !.id = walk.id]
    /\ UNCHANGED <<shape, s3, db, retired>>

\* A listing or a Redis call raises.  GFS goes on with its next product, the
\* others end the cycle; nothing is pruned.
WalkFails ==
    /\ \/ pc \in {"runs", "units", "known", "fetch", "index", "marker", "seal", "prune"}
       \/ pc \in {"mirror", "register"} /\ product = "gfs"
    /\ Spend("fault")
    /\ outcome' = "error"
    /\ IF product = "gfs" THEN NextId ELSE pc' = "report" /\ walk' = NoWalk
    /\ UNCHANGED <<shape, s3, db, retired>>

\* An exception inside _sync_wrf_overlays is logged; the walk goes on.
OverlaysFail ==
    /\ pc \in {"layers", "compare", "latch", "register"}
    /\ product = "wrf"
    /\ Spend("fault")
    /\ pc' = "steps"
    /\ walk' = [walk EXCEPT !.latch = 0]
    /\ UNCHANGED <<shape, s3, db, outcome, retired>>

Report ==
    /\ pc = "report"
    /\ pc' = "asleep"
    /\ walk' = NoWalk
    /\ UNCHANGED <<shape, s3, db, outcome, left, retired>>

\* The watchdog, stop() or a crash ends the walk at any await.
Cancel ==
    /\ pc # "asleep"
    /\ Spend("cancel")
    /\ pc' = "asleep"
    /\ walk' = NoWalk
    /\ outcome' = "error"
    /\ UNCHANGED <<shape, s3, db, retired>>

-----------------------------------------------------------------------------
(* What happens around the loop *)

\* The tiles processor uploads an object; GeoJSON may follow its raster late.
Publish(i, r, u, a) ==
    /\ <<i, r>> \notin retired
    /\ a # Raster => <<i, r, u, Raster>> \in s3
    /\ <<i, r, u, a>> \notin s3
    /\ s3' = s3 \cup {<<i, r, u, a>>}
    /\ UNCHANGED <<shape, db, pc, walk, outcome, left, retired>>

\* The publisher's retention removes the oldest run.
Retire(i) ==
    /\ RunsOf(i) # {}
    /\ Spend("retire")
    /\ LET r == Lowest(RunsOf(i)) IN
       /\ s3' = {o \in s3 : <<o[1], o[2]>> # <<i, r>>}
       /\ retired' = retired \cup {<<i, r>>}
    /\ UNCHANGED <<shape, db, pc, walk, outcome>>

Tick ==
    /\ db' = Aged(db)
    /\ UNCHANGED <<shape, s3, pc, walk, outcome, left, retired>>

Loop ==
    \/ Wake \/ ListRuns \/ ListUnits \/ ReadKnown \/ NextUnit \/ UnitsDone
    \/ TilesLand \/ TilesMissing \/ AllFetched \/ IndexUnit \/ Seal
    \/ \E t \in Units : GeojsonLands(t) \/ GeojsonMissing(t)
    \/ CheckMarker \/ ListLayers \/ CompareLayers \/ Latch \/ RegisterLayers
    \/ \E l \in Layers : LayerMirrored(l) \/ LayerMissing(l)
    \/ LayersDone \/ Prune \/ WalkFails \/ OverlaysFail \/ Report

Environment ==
    \/ Cancel \/ Tick
    \/ \E i \in Ids : Retire(i)
    \/ \E i \in Ids, r \in Runs, u \in Units, a \in Assets : Publish(i, r, u, a)

Next == Loop \/ Environment

Spec == Init /\ [][Next]_vars

\* The event loop runs the coroutine, its sleep ends, and time passes.
FairSpec == Spec /\ WF_vars(Loop) /\ WF_vars(Tick)

-----------------------------------------------------------------------------
(* Properties *)

Mirrored(i, r, u, l) ==
    CASE product = "ecmwf_tp"   -> get_ecmwf_tp_tile(db, r, u) # None
      [] product = "ecmwf_mslp" -> get_ecmwf_mslp_geojson(db, r, u) # None
      [] product = "wrf"        -> IF l = Raster THEN get_wrf_tile(db, i, r, u) # None
                                   ELSE get_wrf_geojson(db, i, r, u, l) # None
      [] product = "gfs"        -> l = Raster \/ get_gfs_geojson(db, i, r, u, l) # None

Servable(i, r, u, a) == Mirrored(i, r, u, a) \/ <<i, r, u, a>> \in s3

\* What a listing advertises can be fetched, from Redis or from S3, until its
\* publisher removes the run: a unit whose overlay is late is never advertised
\* before it exists.  MSLP: "indexes only what landed"; GFS: "the step listing
\* advertises what a client can really fetch".
AdvertisedServable ==
    \A i \in Ids, r \in Runs : <<i, r>> \notin retired =>
        \A u \in UnitIndex(i, r) :
            /\ product = "ecmwf_mslp" => \A l \in Layers : Servable(i, r, u, l)
            /\ product # "ecmwf_mslp" => Servable(i, r, u, Raster)
            /\ \A l \in LayerIndex(i, r, u) : Servable(i, r, u, l)

\* "so it can't accumulate stale forecast timestamps over time": a cycle that
\* ends without error leaves no more runs in the index than are to be kept,
\* whatever earlier cycles left there when they failed or were cancelled.  Only
\* the index of a product none of whose indexed runs is left in S3 is spared: the
\* cycle found no run to prune it to, and its TTL ends it.
IndexBounded ==
    pc = "report" /\ outcome = "ok" =>
        \A i \in Ids : RunIndex(i) \cap RunsOf(i) # {} => Cardinality(RunIndex(i)) <= Keep

\* "aborting before this prune, so the index survives": a run that is still
\* one of the newest in S3 leaves the index only when the key's TTL ends,
\* whatever fails.
NewestRunsKept ==
    [][\A i \in Ids : \A r \in RunIndex(i) \cap Newest(RunsOf(i)) :
          r \in RunIndex(i)' \/ db' = Aged(db)]_vars

\* An overlay of a step has an index of its own.
Advertised(i, r, u, a) ==
    IF a # Raster /\ product \in {"wrf", "gfs"}
    THEN a \in LayerIndex(i, r, u) ELSE u \in UnitIndex(i, r)

\* Every object some instance has: temporal formulas need a constant.
Objects ==
    UNION {(1..sh.ids) \X (1..sh.runs) \X (1..sh.units) \X (0..sh.layers) : sh \in Shapes}

\* What is published of a run that stays among the newest is advertised some
\* day, however late its overlays are and whichever cycles fail or are cut: a
\* step that had no overlay, or not all, is looked at again.
EventuallyAdvertised ==
    \A o \in Objects :
        o \in s3 /\ ~(product = "ecmwf_mslp" /\ o[4] = Raster) ~>
            \/ Advertised(o[1], o[2], o[3], o[4])
            \/ o \notin s3
            \/ o[2] \notin Newest(RunsOf(o[1]))
=============================================================================
