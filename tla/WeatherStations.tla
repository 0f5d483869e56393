--------------------------- MODULE WeatherStations ---------------------------
(***************************************************************************)
(* services/weather_stations_service.py behind routes/weather_stations.py, *)
(* beside the scraper: every read looks in Redis first, falls back to S3   *)
(* through a LIST it keeps in the process, and writes what it found back   *)
(* to Redis in the background.                                             *)
(*                                                                         *)
(* A deployment makes one kind of call.  The Times of the model lie in one *)
(* day, so that the day's prefix and the prefix of all snapshots list the  *)
(* same; they are never listed in the same deployment.                     *)
(***************************************************************************)
EXTENDS WeatherScraper, SequencesExt, Bags

CONSTANTS
    Viewers,
    Asked,      \* the station whose series is asked for
    ListTTL,    \* weather_stations_list_cache_ttl_seconds
    MaxWrites   \* bound: write-backs under way when a request comes in

ASSUME ReaderAssumption ==
    /\ Asked \in Stations /\ {ListTTL, MaxWrites} \subseteq Nat \ {0}

VARIABLES
    listing,   \* _list_cache: the listed times and how long they are good for
    req,       \* the request of each viewer
    shown,     \* the last answer: <<what>>, or <<>> for a 404, 500 or 503
    tasks      \* write-backs under way, a bag of <<Redis key, value>>

readerVars == <<listing, req, shown, tasks>>
vars == <<deploy, smn, token, s3, db, scraper, clock, left, listing, req, shown, tasks>>

\* key: the Redis key it reads next; keys: what the listing gave it; points: the
\* series while the name of the station is looked up.
Idle == [at |-> "idle", key |-> latest_key, keys |-> {}, points |-> <<>>]
NoListing == [keys |-> {}, ttl |-> 0]

Init ==
    /\ ScraperInit
    /\ listing = NoListing
    /\ req = [v \in Viewers |-> Idle]
    /\ shown = [v \in Viewers |-> <<>>]
    /\ tasks = EmptyBag

CacheKeys == {latest_key, tilesets_key, registry_key}
               \cup {snap_body_key(t) : t \in Times} \cup {series_key(s) : s \in Stations}

TypeOK ==
    /\ ScraperTypeOK
    /\ DOMAIN db \subseteq CacheKeys
    /\ listing.keys \subseteq Times /\ listing.ttl \in 0..ListTTL
    /\ \A v \in Viewers :
         /\ req[v].at \in {"idle", "cache", "list", "listing", "assemble", "store"}
         /\ req[v].key \in CacheKeys /\ req[v].keys \subseteq Times
         /\ Len(shown[v]) <= 1
    /\ \A w \in BagToSet(tasks) : w[1] \in CacheKeys

-----------------------------------------------------------------------------
(* Answers *)

Answer(v, what) ==
    /\ req' = [req EXCEPT ![v] = Idle]
    /\ shown' = [shown EXCEPT ![v] = what]

\* The read of Redis is left out when the cache is off.
Look(v, r, otherwise) ==
    /\ req' = [req EXCEPT ![v] = [r EXCEPT !.at = IF deploy.cache THEN "cache" ELSE otherwise]]
    /\ UNCHANGED shown

_cache_set_bg(writes) ==
    tasks' = IF deploy.cache THEN tasks (+) SetToBag(writes) ELSE tasks

\* The name and the province of the station are looked up after its series.
_station_meta(v, points) ==
    Look(v, [Idle EXCEPT !.key = registry_key, !.points = points], "store")

-----------------------------------------------------------------------------
(* A request *)

\* The route: without an S3 client every read is a 503.
Ask(v) ==
    /\ req[v].at = "idle" /\ BagCardinality(tasks) < MaxWrites
    /\ IF ~deploy.configured THEN Answer(v, <<>>)
       ELSE CASE deploy.call = "latest"   -> Look(v, [Idle EXCEPT !.key = latest_key], "store")
              [] deploy.call = "stations" -> Look(v, [Idle EXCEPT !.key = registry_key], "store")
              [] deploy.call = "tilesets" -> Look(v, [Idle EXCEPT !.key = tilesets_key], "list")
              [] deploy.call = "series"   -> Look(v, [Idle EXCEPT !.key = series_key(Asked)], "list")
              [] deploy.call = "snapshot" ->
                   req' = [req EXCEPT ![v] = [Idle EXCEPT !.at = "list"]] /\ UNCHANGED shown
    /\ UNCHANGED <<deploy, smn, token, s3, db, scraper, clock, left, listing, tasks>>

\* What a miss in Redis leads to.
Fallback(v) ==
    /\ req' = [req EXCEPT ![v].at = IF req[v].key \in {tilesets_key, series_key(Asked)}
                                    THEN "list" ELSE "store"]
    /\ UNCHANGED shown

\* A Redis error is a miss.
_cache_get(v) ==
    LET k == req[v].key
    IN  /\ req[v].at = "cache"
        /\ \/ /\ Has(db, k)
              /\ CASE k = series_key(Asked) -> _station_meta(v, db[k].val)
                   [] k = registry_key /\ deploy.call = "series" -> Answer(v, <<req[v].points>>)
                   [] OTHER -> Answer(v, <<db[k].val>>)
              /\ UNCHANGED left
           \/ /\ IF Has(db, k) THEN Spend("redis") ELSE UNCHANGED left
              /\ Fallback(v)
        /\ UNCHANGED <<deploy, smn, token, s3, db, scraper, clock, listing, tasks>>

\* The newest snapshot of the bucket that was asked for.
_resolve_bucket_snapshot_key(times) ==
    {t \in _latest_snapshot_per_bucket(times) : tileset_id_for(t) = deploy.hour}

\* What a request does with the listing.
Listed(v, times) ==
    IF deploy.call = "snapshot"
    THEN IF _resolve_bucket_snapshot_key(times) = {} THEN Answer(v, <<>>)
         ELSE LET best == CHOOSE t \in _resolve_bucket_snapshot_key(times) : TRUE
              IN  Look(v, [Idle EXCEPT !.key = snap_body_key(best)], "store")
    ELSE /\ req' = [req EXCEPT ![v] = [@ EXCEPT !.at = "assemble", !.keys = times]]
         /\ UNCHANGED shown

\* Mutant: a listing that is read stays good.
_cached_list_slides(v) ==
    /\ req[v].at = "list"
    /\ IF listing.ttl > 0 THEN Listed(v, listing.keys) /\ listing' = [listing EXCEPT !.ttl = ListTTL]
       ELSE /\ \A w \in Viewers : req[w].at # "listing"
            /\ req' = [req EXCEPT ![v].at = "listing"]
            /\ UNCHANGED <<shown, listing>>
    /\ UNCHANGED <<deploy, smn, token, s3, db, scraper, clock, left, tasks>>

\* A listing that is still good, or the lock and a listing of one's own; who waits
\* for the lock looks again.
_cached_list(v) ==
    /\ req[v].at = "list"
    /\ IF listing.ttl > 0 THEN Listed(v, listing.keys)
       ELSE /\ \A w \in Viewers : req[w].at # "listing"
            /\ req' = [req EXCEPT ![v].at = "listing"]
            /\ UNCHANGED shown
    /\ UNCHANGED <<deploy, smn, token, s3, db, scraper, clock, left, listing, tasks>>

\* A listing that failed is kept as long as another one.
ListS3(v) ==
    /\ req[v].at = "listing"
    /\ \E times \in {SnapshotTimes, {}} :
         /\ list_object_keys(times)
         /\ listing' = [keys |-> times, ttl |-> ListTTL]
         /\ Listed(v, times)
    /\ UNCHANGED <<deploy, smn, token, s3, db, scraper, clock, tasks>>

\* The stations of each hour are counted, and the list is written back.
list_tilesets(v) ==
    /\ req[v].at = "assemble" /\ deploy.call = "tilesets"
    /\ \E unread \in SUBSET req[v].keys :
         LET entries == compute_tilesets_entries(req[v].keys, unread)
         IN  /\ MetasUnread(req[v].keys, unread)
             /\ Answer(v, <<entries>>)
             /\ _cache_set_bg({<<tilesets_key, entries>>})
    /\ UNCHANGED <<deploy, smn, token, s3, db, scraper, clock, listing>>

\* The bodies are pivoted.  A body comes from Redis, or from S3 and is then written
\* back by itself (_get_snapshot_body); one read of either may fail, and a body
\* whose download fails is left out of the series that is written back.
_station_series_points(v) ==
    LET keys == recent_snapshot_keys(req[v].keys, deploy.hours)
        cached == {t \in keys : Has(db, snap_body_key(t))}
    IN  /\ req[v].at = "assemble" /\ deploy.call = "series"
        /\ \E missed \in {{}} \cup {{t} : t \in keys} :
             /\ CASE missed = {}            -> UNCHANGED left
                  [] missed \cap cached # {} -> Spend("redis")
                  [] OTHER                  -> Spend("s3")
             /\ LET fetched == {t \in keys : Stored(_snapshot_key(t)) /\ (t \in cached <=> t \in missed)}
                    points == extract_station_series((cached \ missed) \cup fetched, Asked)
                IN  /\ _station_meta(v, points)
                    /\ _cache_set_bg({<<snap_body_key(t), s3[_snapshot_key(t)]>> : t \in fetched}
                                       \cup {<<series_key(Asked), points>>})
        /\ UNCHANGED <<deploy, smn, token, s3, db, scraper, clock, listing>>

\* The object of S3 behind a Redis key.
Behind(k) ==
    CASE k = latest_key   -> _LATEST_KEY
      [] k = registry_key -> _REGISTRY_KEY
      [] OTHER            -> _snapshot_key(k[2])

\* _get_cached_object and _get_snapshot_body after a miss: a download that fails is
\* a None, and a None is not written back.
_get_cached_object(v) ==
    LET k == req[v].key
    IN  /\ req[v].at = "store"
        /\ \/ /\ Stored(Behind(k))
              /\ Answer(v, <<IF deploy.call = "series" THEN req[v].points ELSE s3[Behind(k)]>>)
              /\ _cache_set_bg({<<k, s3[Behind(k)]>>})
              /\ UNCHANGED left
           \/ /\ IF Stored(Behind(k)) THEN Spend("s3") ELSE UNCHANGED left
              /\ Answer(v, IF deploy.call = "series" THEN <<req[v].points>> ELSE <<>>)
              /\ UNCHANGED tasks
        /\ UNCHANGED <<deploy, smn, token, s3, db, scraper, clock, listing>>

\* A write-back lands, however late, or is lost.
_cache_set ==
    /\ \E w \in BagToSet(tasks) :
         /\ tasks' = tasks (-) SetToBag({w})
         /\ \/ db' = SetEx(db, w[1], w[2], CacheTTL) /\ UNCHANGED left
            \/ Spend("redis") /\ UNCHANGED db
    /\ UNCHANGED <<deploy, smn, token, s3, scraper, clock, listing, req, shown>>

ListingAges ==
    /\ listing.ttl > 0
    /\ listing' = IF listing.ttl = 1 THEN NoListing ELSE [listing EXCEPT !.ttl = @ - 1]
    /\ UNCHANGED <<deploy, smn, token, s3, db, scraper, clock, left, req, shown, tasks>>

Step(v) ==
    \/ _cache_get(v)
    \/ _cached_list(v)
    \/ ListS3(v)
    \/ list_tilesets(v)
    \/ _station_series_points(v)
    \/ _get_cached_object(v)

Next ==
    \/ ScraperNext /\ UNCHANGED readerVars
    \/ \E v \in Viewers : Ask(v)
    \/ \E v \in Viewers : Step(v)
    \/ _cache_set
    \/ ListingAges

Spec == Init /\ [][Next]_vars

\* The scraper's loop goes on, calls return, background tasks run, clients poll and
\* time passes for the caches.
FairSpec ==
    /\ Spec
    /\ WF_vars(Cycle /\ UNCHANGED readerVars)
    /\ WF_vars(Tick /\ UNCHANGED readerVars)
    /\ WF_vars(ListingAges)
    /\ WF_vars(_cache_set)
    /\ \A v \in Viewers : SF_vars(Step(v)) /\ SF_vars(Ask(v))

-----------------------------------------------------------------------------
(* Properties *)

Expired(t) == t + Retention < clock
Published(t) == Stored(_snapshot_key(t)) \/ Expired(t)

\* What latest.json says can be had under its own time as well, counted: the
\* snapshot and its meta are stored before it (_upload_snapshot), whatever fails or
\* stops the cycle between the uploads.
LatestBacked ==
    Stored(_LATEST_KEY) =>
        LET t == s3[_LATEST_KEY]
        IN  Expired(t) \/ (Stored(_snapshot_key(t)) /\ Stored(_snapshot_meta_key(t)))

\* Redis is never ahead of S3: nothing is cached, by the scraper or by a late
\* write-back, that was not stored before (_run_sync, _cache_set_bg).
CacheBehindStore ==
    /\ Has(db, latest_key) => Stored(_LATEST_KEY) /\ db[latest_key].val <= s3[_LATEST_KEY]
    /\ Has(db, tilesets_key) => \A e \in db[tilesets_key].val : Published(e[2])
    /\ \A t \in Times : Has(db, snap_body_key(t)) => Published(t) /\ db[snap_body_key(t)].val = t

\* A series has every reading once and in the order of observation, whoever built
\* it, and each reading is one the station reported (pivot_station_series,
\* extract_station_series).
SeriesOrdered ==
    LET wellFormed(s, points) ==
          \A i \in DOMAIN points :
             /\ points[i][1] = Reports[s][points[i][2]] /\ points[i][1] # NoDate
             /\ i > 1 => points[i - 1][1] < points[i][1]
    IN  /\ \A s \in Stations : Has(db, series_key(s)) => wellFormed(s, db[series_key(s)].val)
        /\ deploy.call = "series" =>
             \A v \in Viewers : shown[v] # <<>> => wellFormed(Asked, shown[v][1])

\* What a request would answer if it read S3 now.
Truth ==
    CASE deploy.call = "latest"   -> IF Stored(_LATEST_KEY) THEN <<s3[_LATEST_KEY]>> ELSE <<>>
      [] deploy.call = "stations" -> IF Stored(_REGISTRY_KEY) THEN <<s3[_REGISTRY_KEY]>> ELSE <<>>
      [] deploy.call = "tilesets" -> <<compute_tilesets_entries(SnapshotTimes, {})>>
      [] deploy.call = "series"   ->
           <<extract_station_series(recent_snapshot_keys(SnapshotTimes, deploy.hours), Asked)>>
      [] deploy.call = "snapshot" -> SetToSeq(_resolve_bucket_snapshot_key(SnapshotTimes))

\* Whoever polls ends up with what S3 holds: an old write-back, a listing kept too
\* long or taken for empty when it failed, a count read before its meta or lost, a
\* body that could not be read, all pass
\* (_get_cached_object, _cached_list, list_tilesets, _station_series_points).
ReadersCatchUp ==
    \A v \in Viewers : deploy.configured => <>[](shown[v] = Truth)

\* Observations reach S3 when the API stays up, although tokens expire or are
\* rejected, the API goes away and uploads fail (fetch_current_weather_stations,
\* _refresh_token).
ObservationsArrive ==
    <>[](smn.api = "up") => <>[](Stored(_LATEST_KEY) /\ s3[_LATEST_KEY] = clock)

\* The registry S3 holds ends up as SMN's: also after a half of it was uploaded,
\* after the bundle was stored for it, and after it was swept from the bucket,
\* which only the read of the cache's warm-up notices (_warm_registry_cache).
RegistryHealed ==
    <>[](smn.registry = "up" /\ deploy.cache) =>
        <>[](Stored(_REGISTRY_KEY) /\ s3[_REGISTRY_KEY] = smn.version)

\* "every reading in the last `hours`" (routes/weather_stations.py): a series of
\* so many hour buckets has at most as many readings.
SeriesWithinHours ==
    \A v \in Viewers : deploy.call = "series" /\ shown[v] # <<>> => Len(shown[v][1]) <= deploy.hours
=============================================================================
