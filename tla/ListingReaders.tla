--------------------------- MODULE ListingReaders ---------------------------
(***************************************************************************)
(* How the API answers "what is there?": the listing methods of the read   *)
(* strategies (services/*_sync_strategy.py), the product services that     *)
(* combine them, the routes and the availability snapshot                  *)
(* (services/product_availability_service.py).  A listing is read from the *)
(* index the synchronisers keep in Redis, else from a copy of an earlier   *)
(* S3 listing, else from S3, and then a copy is left in Redis.             *)
(*                                                                         *)
(* A run is a tileset, forecast, init run or cycle; a unit a period,       *)
(* timestamp or step of it.  A strategy method is the sequence of its      *)
(* awaits; each is a step of the request.  The requests of a fan-out       *)
(* (gather) are taken one after the other.                                 *)
(***************************************************************************)
EXTENDS RedisClient, Sequences, FiniteSets, SequencesExt

CONSTANTS
    Endpoints,    \* the endpoints to explore: product, call, mode, target run, and
                  \* bounds: how many viewers ask, runs are published, runs the
                  \* publisher removes, Redis and S3 calls fail
    Viewers,
    Runs, Units,  \* numbered in the order of their names
    Keep,         \* ecmwf_forecasts_to_keep, wrf_inits_to_keep, gfs_cycles_to_keep
    IndexTTL,
    ListingTTL,   \* tileset_listing_ttl
    MemoTTL       \* product_availability_ttl_seconds

Products == {"satellite", "radar", "ecmwf_tp", "ecmwf_mslp", "wrf", "gfs"}
Calls == {"radars", "variables", "elevations", "tilesets", "runs", "units",
          "availability"}

\* The listings each product has routes for, and the products of the snapshot:
\* pressure has no contributor.
Served ==
    [satellite |-> {"tilesets", "availability"},
     radar |-> {"radars", "variables", "elevations", "tilesets", "availability"},
     ecmwf_tp |-> {"runs", "units", "availability"},
     ecmwf_mslp |-> {"runs", "units"},
     wrf |-> {"runs", "units", "availability"},
     gfs |-> {"runs", "units", "availability"}]

ASSUME ListingAssumption ==
    /\ Endpoints \subseteq [product : Products, call : Calls,
                            mode : {"full", "on_demand"}, target : Runs,
                            viewers : Nat, runs : Nat, retire : Nat, fault : Nat]
    /\ \A e \in Endpoints : e.call \in Served[e.product]
    /\ Viewers \subseteq Nat \ {0} /\ Runs \subseteq Nat /\ Units \subseteq Nat
    /\ IsFiniteSet(Runs) /\ IsFiniteSet(Units)
    /\ Keep \in Nat \ {0} /\ IndexTTL \in Nat \ {0} /\ ListingTTL \in Nat \ {0}
    /\ MemoTTL \in Nat \ {0}

VARIABLES
    ep,         \* the endpoint: never changes
    s3,         \* objects <<run, unit, asset>>; asset 0 is the raster, 1 an overlay
    published,  \* every object there has been
    db,         \* Redis
    req,        \* the request of each viewer
    shown,      \* what each viewer was last told
    lock,       \* who holds _layer_map_lock or the snapshot's lock, 0: nobody
    memo,       \* the availability snapshot and how long it stays fresh
    left        \* what remains of each bound

vars == <<ep, s3, published, db, req, shown, lock, memo, left>>

-----------------------------------------------------------------------------
(* The awaits of each strategy method.  "index": the synchronisers' index; *)
(* "cached": the copy of a listing; "s3": the S3 listing, empty when S3    *)
(* fails; "s3!": one that raises; "cap": an S3 listing of the newest runs; *)
(* "write": leave a copy; "lock", "recheck": the lock of the layer map and *)
(* the second look at the copy.                                            *)

FromS3 == <<"cached", "s3", "write">>

satellite_on_demand_get_tilesets == FromS3
satellite_full_get_tilesets == <<"index">> \o satellite_on_demand_get_tilesets
radar_on_demand_list_radars == FromS3
radar_full_list_radars == <<"index">> \o radar_on_demand_list_radars
radar_on_demand_list_variables == FromS3
radar_full_list_variables == <<"index">> \o radar_on_demand_list_variables
radar_on_demand_list_elevations == FromS3
radar_full_list_elevations == <<"index">> \o radar_on_demand_list_elevations
radar_on_demand_list_tilesets == FromS3
radar_full_list_tilesets == <<"index">> \o radar_on_demand_list_tilesets
ecmwf_tp_on_demand_list_forecasts == FromS3
ecmwf_tp_full_list_forecasts == <<"index">> \o ecmwf_tp_on_demand_list_forecasts
ecmwf_tp_on_demand_list_periods == FromS3
ecmwf_tp_full_list_periods == <<"index">> \o ecmwf_tp_on_demand_list_periods
mslp_on_demand_list_forecasts == FromS3
mslp_full_list_forecasts == <<"index">> \o mslp_on_demand_list_forecasts
mslp_on_demand_list_timestamps == FromS3
mslp_full_list_timestamps == <<"index">> \o mslp_on_demand_list_timestamps
wrf_on_demand_list_products == FromS3
wrf_full_list_products == <<"index">> \o wrf_on_demand_list_products
wrf_on_demand_list_init_runs == <<"cached", "cap", "write">>
wrf_full_list_init_runs == <<"index">> \o wrf_on_demand_list_init_runs
wrf_on_demand_list_steps == FromS3
wrf_full_list_steps == <<"index">> \o wrf_on_demand_list_steps
wrf_on_demand_list_layers == <<"cached", "s3!", "write">>
wrf_full_list_layers_bulk == <<"index">> \o wrf_on_demand_list_layers
gfs_on_demand_list_cycles == <<"cached", "cap", "write">>
gfs_full_list_cycles == <<"index">> \o gfs_on_demand_list_cycles
gfs_on_demand_list_steps == FromS3
gfs_full_list_steps == <<"index">> \o gfs_on_demand_list_steps
gfs_cycle_layer_map == <<"cached", "lock", "recheck", "s3", "write">>
gfs_full_list_layers_bulk == <<"index">> \o gfs_cycle_layer_map

Full == ep.mode = "full"
Mode(full, onDemand) == IF Full THEN full ELSE onDemand

\* The method that answers a listing, a tuple whose head names its level.
Path(listing) ==
    LET level == Head(listing)
    IN  CASE ep.product = "satellite" ->
                Mode(satellite_full_get_tilesets, satellite_on_demand_get_tilesets)
          [] ep.product = "radar" /\ level = "radars" ->
                Mode(radar_full_list_radars, radar_on_demand_list_radars)
          [] ep.product = "radar" /\ level = "variables" ->
                Mode(radar_full_list_variables, radar_on_demand_list_variables)
          [] ep.product = "radar" /\ level = "elevations" ->
                Mode(radar_full_list_elevations, radar_on_demand_list_elevations)
          [] ep.product = "radar" /\ level = "tilesets" ->
                Mode(radar_full_list_tilesets, radar_on_demand_list_tilesets)
          [] ep.product = "ecmwf_tp" /\ level = "runs" ->
                Mode(ecmwf_tp_full_list_forecasts, ecmwf_tp_on_demand_list_forecasts)
          [] ep.product = "ecmwf_tp" /\ level = "units" ->
                Mode(ecmwf_tp_full_list_periods, ecmwf_tp_on_demand_list_periods)
          [] ep.product = "ecmwf_mslp" /\ level = "runs" ->
                Mode(mslp_full_list_forecasts, mslp_on_demand_list_forecasts)
          [] ep.product = "ecmwf_mslp" /\ level = "units" ->
                Mode(mslp_full_list_timestamps, mslp_on_demand_list_timestamps)
          [] ep.product = "wrf" /\ level = "products" ->
                Mode(wrf_full_list_products, wrf_on_demand_list_products)
          [] ep.product = "wrf" /\ level = "runs" ->
                Mode(wrf_full_list_init_runs, wrf_on_demand_list_init_runs)
          [] ep.product = "wrf" /\ level = "units" ->
                Mode(wrf_full_list_steps, wrf_on_demand_list_steps)
          [] ep.product = "wrf" /\ level = "layers" ->
                Mode(wrf_full_list_layers_bulk, wrf_on_demand_list_layers)
          [] ep.product = "gfs" /\ level = "runs" ->
                Mode(gfs_full_list_cycles, gfs_on_demand_list_cycles)
          [] ep.product = "gfs" /\ level = "units" ->
                Mode(gfs_full_list_steps, gfs_on_demand_list_steps)
          [] ep.product = "gfs" /\ level = "layers" ->
                Mode(gfs_full_list_layers_bulk, gfs_cycle_layer_map)

IndexKey(listing) == <<"idx">> \o listing
CopyKey(listing) == <<"cache:listing">> \o listing

-----------------------------------------------------------------------------
(* What S3 holds, as a listing sees it *)

HasUnits == ep.product \in {"ecmwf_tp", "ecmwf_mslp", "wrf", "gfs"}
HasLayers == ep.product \in {"wrf", "gfs"}

RunsIn(objects) == {o[1] : o \in {x \in objects : x[3] = 0}}

\* sorted(..., reverse=True)[:keep]
Newest(runs) == {r \in runs : Cardinality({q \in runs : q >= r}) <= Keep}

\* There is one radar, with one variable and one elevation, and one WRF product.
Contents(listing) ==
    LET level == Head(listing)
    IN  CASE level \in {"runs", "tilesets"} -> RunsIn(s3)
          [] level \in {"radars", "variables", "elevations", "products"} ->
                IF s3 = {} THEN {} ELSE {1}
          [] level = "units" -> {u \in Units : <<listing[2], u, 0>> \in s3}
          [] level = "layers" /\ ep.product = "gfs" ->
                {u \in Units : <<listing[2], u, 1>> \in s3}
          [] level = "layers" /\ ep.product = "wrf" ->
                {u \in {listing[3]} : <<listing[2], u, 1>> \in s3}

-----------------------------------------------------------------------------
(* Requests *)

NoUnits == [r \in Runs |-> {}]
Nothing == [status |-> 0, runs |-> {}, units |-> NoUnits, layers |-> {}]

Answers == [status : {0, 200, 404, 500}, runs : SUBSET (Runs \cup {1}),
            units : [Runs -> SUBSET Units], layers : SUBSET (Runs \X Units)]

\* at: the await of the method under way, 0 between requests; todo: the listings
\* still to read, the first under way; indexed: what the index had of it when it
\* did not suffice; found: what S3 listed; got: the answer so far.
Idle == [at |-> 0, todo |-> <<>>, indexed |-> {}, found |-> {}, got |-> Nothing]

Listings ==
    {<<l>> : l \in {"radars", "variables", "elevations", "tilesets", "products", "runs",
                    "snapshot"}}
      \cup {<<"units", r>> : r \in Runs} \cup {<<"layers", r>> : r \in Runs}
      \cup {<<"layers", r, u>> : r \in Runs, u \in Units}

TypeOK ==
    /\ ep \in Endpoints
    /\ s3 \subseteq published /\ published \subseteq Runs \X Units \X {0, 1}
    /\ \A k \in DOMAIN db : db[k].ttl \in 1..(IndexTTL + ListingTTL)
    /\ \A v \in Viewers :
         /\ req[v].at \in 0..6
         /\ \A i \in DOMAIN req[v].todo : req[v].todo[i] \in Listings
         /\ req[v].indexed \subseteq Units
         /\ req[v].found \subseteq Runs \cup Units \cup {1}
         /\ req[v].got \in Answers /\ shown[v] \in Answers
    /\ lock \in Viewers \cup {0}
    /\ memo.fresh \in 0..MemoTTL /\ memo.val \subseteq Runs \cup {1}
    /\ left \in [{"fault", "retire"} -> Nat]

Init ==
    /\ ep \in Endpoints
    /\ s3 = {} /\ published = {}
    /\ db = NoKeys
    /\ req = [v \in Viewers |-> Idle]
    /\ shown = [v \in Viewers |-> Nothing]
    /\ lock = 0
    /\ memo = [val |-> {}, fresh |-> 0]
    /\ left = [fault |-> ep.fault, retire |-> ep.retire]

Spend(kind) ==
    /\ left[kind] > 0
    /\ left' = [left EXCEPT ![kind] = @ - 1]

Listing(v) == Head(req[v].todo)
Awaiting(v, what) ==
    req[v].at > 0 /\ Listing(v) # <<"snapshot">> /\ Path(Listing(v))[req[v].at] \in what

\* The lock is given back however the block is left.
Unlocked(v) == IF lock = v THEN 0 ELSE lock

\* Answer viewer v: a listing's ETag is the digest of its body, so a 304 tells
\* the viewer what a 200 would.
json_listing_response(v, answer) ==
    /\ req' = [req EXCEPT ![v] = Idle]
    /\ shown' = [shown EXCEPT ![v] = answer]

Reading(v, todo, got) ==
    /\ req' = [req EXCEPT ![v] = [Idle EXCEPT !.at = 1, !.todo = todo, !.got = got]]
    /\ UNCHANGED shown

-----------------------------------------------------------------------------
(* The services: what follows when a listing has returned `found` *)

\* The newest runs: ECMWF and GFS cap here too; WRF trusts the index.
advertised(found) ==
    IF ep.product \in {"ecmwf_tp", "ecmwf_mslp", "gfs"} THEN Newest(found) ELSE found

\* The route of the runs: each run with the number of its units.
list_runs(v, found) ==
    LET active == advertised(found)
        todo == SetToSeq({<<"units", r>> : r \in active})
        got == [Nothing EXCEPT !.status = 200, !.runs = active]
    IN  IF todo = <<>> THEN json_listing_response(v, got) ELSE Reading(v, todo, got)

\* The route of the units of the target run; 404 when it is not advertised.
list_units(v, found) ==
    IF ep.target \in advertised(found)
    THEN Reading(v, <<<<"units", ep.target>>>>, [Nothing EXCEPT !.status = 200])
    ELSE json_listing_response(v, [Nothing EXCEPT !.status = 404])

\* GFS reads the overlays of the whole cycle at once, WRF those of each step; a
\* GFS cycle without steps is a 404.
list_layers(v, r, units, got) ==
    CASE ep.product = "gfs" /\ units = {} ->
            json_listing_response(v, [Nothing EXCEPT !.status = 404])
      [] ep.product = "gfs" /\ units # {} -> Reading(v, <<<<"layers", r>>>>, got)
      [] ep.product = "wrf" /\ units # {} ->
            Reading(v, SetToSeq({<<"layers", r, u>> : u \in units}), got)
      [] OTHER -> json_listing_response(v, got)

\* The next listing of the same method, or the answer.
Proceed(v, got) ==
    IF Tail(req[v].todo) = <<>> THEN json_listing_response(v, got)
    ELSE Reading(v, Tail(req[v].todo), got)

\* RadarAvailability, SatelliteAvailability, EcmwfTpAvailability,
\* WrfAvailability and GfsAvailability: a product is available when the last
\* listing is not empty.
Deeper ==
    [radars |-> "variables", variables |-> "elevations", elevations |-> "tilesets",
     products |-> "runs"]

available(v, found) ==
    LET level == Head(Listing(v))
    IN  IF found # {} /\ level \in DOMAIN Deeper
        THEN /\ Reading(v, <<<<Deeper[level]>>>>, Nothing)
             /\ UNCHANGED <<memo, lock>>
        ELSE /\ json_listing_response(v, [Nothing EXCEPT !.status = 200,
                                             !.runs = IF found = {} THEN {} ELSE {1}])
             /\ memo' = [val |-> IF found = {} THEN {} ELSE {1}, fresh |-> MemoTTL]
             /\ lock' = Unlocked(v)

Listed(v, found) ==
    LET level == Head(Listing(v))
        got == req[v].got
    IN  IF ep.call = "availability" THEN available(v, found)
        ELSE /\ CASE level = "runs" /\ ep.call = "runs" -> list_runs(v, found)
                  [] level = "runs" /\ ep.call = "units" -> list_units(v, found)
                  [] level = "units" ->
                       LET r == Listing(v)[2]
                           more == [got EXCEPT !.units[r] = found]
                       IN  IF ep.call = "units" THEN list_layers(v, r, found, more)
                           ELSE Proceed(v, more)
                  [] level = "layers" ->
                       Proceed(v, [got EXCEPT !.layers = @ \cup ({Listing(v)[2]} \X found)])
                  [] OTHER ->
                       json_listing_response(v, [Nothing EXCEPT !.status = 200,
                                                                !.runs = found])
             /\ lock' = Unlocked(v)
             /\ UNCHANGED memo

\* An exception nobody catches.
Raised(v) ==
    /\ json_listing_response(v, [Nothing EXCEPT !.status = 500])
    /\ lock' = Unlocked(v)
    /\ UNCHANGED memo

NextAwait(v, indexed, found) ==
    /\ req' = [req EXCEPT ![v] = [req[v] EXCEPT !.at = req[v].at + 1,
                                               !.indexed = indexed, !.found = found]]
    /\ UNCHANGED <<shown, lock, memo>>

-----------------------------------------------------------------------------
(* The steps of a request *)

FirstListing ==
    CASE ep.call \in {"runs", "units"} -> <<"runs">>
      [] ep.call = "availability" /\ ep.product = "radar" -> <<"radars">>
      [] ep.call = "availability" /\ ep.product = "satellite" -> <<"tilesets">>
      [] ep.call = "availability" /\ ep.product = "wrf" -> <<"products">>
      [] ep.call = "availability" /\ ep.product \in {"ecmwf_tp", "gfs"} -> <<"runs">>
      [] OTHER -> <<ep.call>>

\* A request for a listing; for the snapshot, the answer when it is fresh.
Ask(v) ==
    /\ v <= ep.viewers /\ req[v].at = 0
    /\ CASE ep.call = "availability" /\ memo.fresh > 0 ->
              json_listing_response(v, [Nothing EXCEPT !.status = 200, !.runs = memo.val])
         [] ep.call = "availability" /\ memo.fresh = 0 ->
              Reading(v, <<<<"snapshot">>>>, Nothing)
         [] OTHER -> Reading(v, <<FirstListing>>, Nothing)
    /\ UNCHANGED <<ep, s3, published, db, lock, memo, left>>

\* Mutant: no second look after the lock.
SnapshotLocked_no_recheck(v) ==
    /\ req[v].at > 0 /\ Listing(v) = <<"snapshot">> /\ lock = 0
    /\ Reading(v, <<FirstListing>>, Nothing) /\ lock' = v
    /\ UNCHANGED <<ep, s3, published, db, memo, left>>

\* The snapshot's lock, then a second look: who held it may have refreshed it.
SnapshotLocked(v) ==
    /\ req[v].at > 0 /\ Listing(v) = <<"snapshot">> /\ lock = 0
    /\ IF memo.fresh > 0
       THEN /\ json_listing_response(v, [Nothing EXCEPT !.status = 200, !.runs = memo.val])
            /\ UNCHANGED lock
       ELSE Reading(v, <<FirstListing>>, Nothing) /\ lock' = v
    /\ UNCHANGED <<ep, s3, published, db, memo, left>>

\* The index answers when it holds anything; the overlays of many steps only
\* when it has some for each, and then what is missing is looked for.
ReadIndex(v) ==
    LET indexed == Members(db, IndexKey(Listing(v)))
        enough == IF Head(Listing(v)) = "layers" /\ ep.product = "gfs"
                  THEN req[v].got.units[Listing(v)[2]] \subseteq indexed
                  ELSE indexed # {}
    IN  /\ Awaiting(v, {"index"})
        /\ IF enough THEN Listed(v, indexed) ELSE NextAwait(v, indexed, {})
        /\ UNCHANGED <<ep, s3, published, db, left>>

\* Mutant: a copy that is read starts a new life.
ReadCopy_slides(v) ==
    /\ Awaiting(v, {"cached", "recheck"})
    /\ IF Has(db, CopyKey(Listing(v)))
       THEN /\ Listed(v, Members(db, CopyKey(Listing(v))) \cup req[v].indexed)
            /\ db' = [db EXCEPT ![CopyKey(Listing(v))].ttl = ListingTTL]
       ELSE NextAwait(v, req[v].indexed, {}) /\ UNCHANGED db
    /\ UNCHANGED <<ep, s3, published, left>>

\* A copy answers although it is the copy of an empty listing.
ReadCopy(v) ==
    /\ Awaiting(v, {"cached", "recheck"})
    /\ IF Has(db, CopyKey(Listing(v)))
       THEN Listed(v, Members(db, CopyKey(Listing(v))) \cup req[v].indexed)
       ELSE NextAwait(v, req[v].indexed, {})
    /\ UNCHANGED <<ep, s3, published, db, left>>

TakeLock(v) ==
    /\ Awaiting(v, {"lock"})
    /\ lock = 0
    /\ lock' = v
    /\ req' = [req EXCEPT ![v] = [req[v] EXCEPT !.at = req[v].at + 1]]
    /\ UNCHANGED <<ep, s3, published, db, shown, memo, left>>

\* Mutant: the overlays of the catalogue instead of the objects.
ListS3_catalogue(v) ==
    LET listed == IF Head(Listing(v)) = "layers" THEN req[v].got.units[Listing(v)[2]]
                  ELSE Contents(Listing(v))
    IN  /\ Awaiting(v, {"s3", "s3!", "cap"})
        /\ NextAwait(v, req[v].indexed,
                     IF Awaiting(v, {"cap"}) THEN Newest(listed) ELSE listed)
        /\ UNCHANGED <<ep, s3, published, db, left>>

ListS3(v) ==
    LET listed == Contents(Listing(v))
    IN  /\ Awaiting(v, {"s3", "s3!", "cap"})
        /\ NextAwait(v, req[v].indexed,
                     IF Awaiting(v, {"cap"}) THEN Newest(listed) ELSE listed)
        /\ UNCHANGED <<ep, s3, published, db, left>>

\* try_get_subdirectories and try_list_object_basenames make a failure an empty
\* listing; list_wrf_layers does not.
ListS3Fails(v) ==
    /\ Awaiting(v, {"s3", "s3!", "cap"})
    /\ Spend("fault")
    /\ IF Awaiting(v, {"s3!"}) THEN Raised(v) ELSE NextAwait(v, req[v].indexed, {})
    /\ UNCHANGED <<ep, s3, published, db>>

\* The copy is written, the empty listing of a failure too, and the request
\* answers with what it listed.
cache_listing(v) ==
    /\ Awaiting(v, {"write"})
    /\ db' = SetEx(db, CopyKey(Listing(v)), req[v].found, ListingTTL)
    /\ Listed(v, req[v].found \cup req[v].indexed)
    /\ UNCHANGED <<ep, s3, published, left>>

\* Redis is down: nothing catches it.
RedisFails(v) ==
    /\ Awaiting(v, {"index", "cached", "recheck", "write"})
    /\ Spend("fault")
    /\ Raised(v)
    /\ UNCHANGED <<ep, s3, published, db>>

-----------------------------------------------------------------------------
(* The synchronisers (ForecastSync, TilesetSync), time and the publisher *)

\* A unit that was mirrored is added to the index, level by level.
SyncIndexes(r, u) ==
    LET above == IF HasUnits THEN {<<"runs">>, <<"products">>}
                 ELSE {<<"tilesets">>, <<"elevations">>, <<"variables">>, <<"radars">>}
        member(k) == IF k \in {<<"runs">>, <<"tilesets">>} THEN r ELSE 1
        keys == {IndexKey(k) : k \in above}
                  \cup (IF HasUnits THEN {IndexKey(<<"units", r>>)} ELSE {})
                  \cup (IF <<r, u, 1>> \in s3
                        THEN {IndexKey(IF ep.product = "gfs" THEN <<"layers", r>>
                                       ELSE <<"layers", r, u>>)}
                        ELSE {})
        added(k) == IF \E a \in above : k = IndexKey(a)
                    THEN {member(CHOOSE a \in above : k = IndexKey(a))} ELSE {u}
    IN  /\ Full /\ <<r, u, 0>> \in s3 /\ r \in Newest(RunsIn(s3))
        /\ db' = [k \in DOMAIN db \cup keys |->
                    IF k \in keys
                    THEN [val |-> Members(db, k) \cup added(k), ttl |-> IndexTTL]
                    ELSE db[k]]
        /\ db' # db
        /\ UNCHANGED <<ep, s3, published, req, shown, lock, memo, left>>

\* The end of a forecast cycle: only the newest runs stay in the index.
SyncPrunes ==
    LET runs == IndexKey(<<"runs">>)
    IN  /\ Full /\ HasUnits /\ ~(Members(db, runs) \subseteq Newest(RunsIn(s3)))
        /\ db' = KeepMembers(db, runs, Newest(RunsIn(s3)))
        /\ UNCHANGED <<ep, s3, published, req, shown, lock, memo, left>>

Tick ==
    /\ db' = Aged(db)
    /\ memo' = [memo EXCEPT !.fresh = IF @ > 0 THEN @ - 1 ELSE 0]
    /\ <<db, memo>>' # <<db, memo>>
    /\ UNCHANGED <<ep, s3, published, req, shown, lock, left>>

\* A raster, or the overlay of a raster that is there already or comes later;
\* only the route of the units looks at overlays.
Publish(r, u, a) ==
    /\ r <= ep.runs /\ <<r, u, a>> \notin published
    /\ a = 1 => HasLayers /\ ep.call = "units"
    /\ s3' = s3 \cup {<<r, u, a>>} /\ published' = published \cup {<<r, u, a>>}
    /\ UNCHANGED <<ep, db, req, shown, lock, memo, left>>

Retire(r) ==
    /\ Spend("retire")
    /\ r \in RunsIn(s3)
    /\ s3' = {o \in s3 : o[1] # r}
    /\ UNCHANGED <<ep, published, db, req, shown, lock, memo>>

Looks(v) ==
    \/ SnapshotLocked(v)
    \/ ReadIndex(v)
    \/ ReadCopy(v)
    \/ TakeLock(v)
    \/ ListS3(v)
    \/ ListS3Fails(v)
    \/ cache_listing(v)
    \/ RedisFails(v)

Next ==
    \/ \E v \in Viewers : Ask(v)
    \/ \E v \in Viewers : Looks(v)
    \/ \E r \in Runs, u \in Units : SyncIndexes(r, u)
    \/ SyncPrunes
    \/ Tick
    \/ \E r \in Runs, u \in Units, a \in {0, 1} : Publish(r, u, a)
    \/ \E r \in Runs : Retire(r)

Spec == Init /\ [][Next]_vars

\* Calls return, locks are fair, time passes, the synchronisers run, and a client
\* polls.
FairSpec ==
    /\ Spec
    /\ WF_vars(Tick)
    /\ WF_vars(SyncPrunes)
    /\ \A r \in Runs, u \in Units : WF_vars(SyncIndexes(r, u))
    /\ \A v \in Viewers : SF_vars(Looks(v)) /\ WF_vars(Ask(v))

-----------------------------------------------------------------------------
(* Properties *)

\* A viewer is never told of a unit or an overlay that was never uploaded:
\* gfs_service.py list_steps, "so the frontend never asks for a layer that would
\* 404".
ListedWasPublished ==
    \A v \in Viewers :
        /\ \A r \in Runs : \A u \in shown[v].units[r] : <<r, u, 0>> \in published
        /\ \A x \in shown[v].layers : <<x[1], x[2], 1>> \in published

\* Concurrent requests for the snapshot share one sweep, and none begins while
\* the snapshot is fresh: "recomputed at most once per ttl_seconds"
\* (product_availability_service.py snapshot).
Sweeping(v) ==
    ep.call = "availability" /\ req[v].at > 0 /\ Listing(v) # <<"snapshot">>

OneSweepPerTTL ==
    [][\A v \in Viewers : ~Sweeping(v) /\ Sweeping(v)' =>
        memo.fresh = 0 /\ \A w \in Viewers : ~Sweeping(w)]_vars

\* What is in S3 for good and is new enough to be advertised is listed to every
\* client that polls, although a failed listing was answered, and copied, as an
\* empty one (satellite_sync_strategy.py get_tilesets).
ListingArrives ==
    \A r \in Runs, u \in Units, v \in Viewers :
        <>[](v <= ep.viewers /\ <<r, u, 0>> \in s3 /\ r \in Newest(RunsIn(s3))) =>
            <>(CASE ep.call = "units" ->
                       ep.target = r => u \in shown[v].units[r]
                 [] ep.call \in {"runs", "tilesets"} -> r \in shown[v].runs
                 [] OTHER -> shown[v].runs # {})
=============================================================================
