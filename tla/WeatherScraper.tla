--------------------------- MODULE WeatherScraper ---------------------------
(***************************************************************************)
(* services/weather_stations_scraper_service.py: one cycle after another   *)
(* refreshes the registry of stations, fetches the current observations,   *)
(* stores both in S3 and warms Redis, with the SMN clients it calls and    *)
(* the S3 layout of services/weather_stations_cache.py.                    *)
(*                                                                         *)
(* A snapshot is named by the time it was scraped at: its body is what the *)
(* feed (Reports) said then.  The text of the registry is its version      *)
(* number, which is also its hash.  Each call of the cycle is a step.      *)
(***************************************************************************)
EXTENDS RedisClient, Sequences, FiniteSets

CONSTANTS
    Deployments,   \* the settings to explore, and how often each event happens
    Stations,
    Reports,       \* Reports[s][t]: the observed_at station s reports at time t
    MaxTime,       \* bound: from then on scrapes carry this time
    Retention,     \* weather_stations_s3_object_ttl_days
    CacheTTL,      \* the TTL of the cache:ws keys
    Bundle,        \* the version of the registry in the repository
    MaxVersion     \* bound: how far SMN's registry changes

Times == 0..MaxTime
Versions == 1..MaxVersion
NoDate == -1   \* an observed_at that is missing or does not parse
NoHash == -1   \* _registry_hash is None

Calls == {"latest", "stations", "tilesets", "snapshot", "series"}
Events == {"s3", "redis", "smn", "token", "restart", "sweep", "edit", "later"}

ASSUME WeatherAssumption ==
    /\ Deployments \subseteq
         [configured : BOOLEAN, cache : BOOLEAN, fallback : BOOLEAN, animation : Nat,
          series : Nat, perHour : Nat \ {0}, call : Calls, hour : Nat, hours : Nat,
          registry : {"up", "down"}, bounds : [Events -> Nat]]
    /\ Reports \in [Stations -> [Times -> Nat \cup {NoDate}]]
    /\ {Retention, CacheTTL, MaxVersion} \subseteq Nat \ {0}
    /\ MaxTime \in Nat /\ Bundle \in Versions

VARIABLES
    deploy,    \* the deployment: never changes
    smn,       \* the API: "up" or "down"; the registry: "up", "down" or "garbage"; its version
    token,     \* the cached JWT: "none", "good", or "dead" (rejected by SMN)
    s3,        \* the bucket: a function from object keys, its lifecycle rule among them
    db,        \* Redis
    scraper,   \* the process: where its cycle is and what it remembers
    clock,
    left       \* what remains of each bound

Spend(kind) ==
    /\ left[kind] > 0
    /\ left' = [left EXCEPT ![kind] = @ - 1]

-----------------------------------------------------------------------------
(* weather_stations_cache.py: keys, hour buckets, series *)

_LATEST_KEY == <<"latest.json">>
_REGISTRY_KEY == <<"stations.json">>
_REGISTRY_META_KEY == <<"stations.meta.json">>
_snapshot_key(t) == <<"snapshots", t>>
_snapshot_meta_key(t) == <<"snapshots.meta", t>>
_LIFECYCLE_RULE_ID == <<"weather-stations-expiration">>

latest_key == <<"cache:ws:latest">>
tilesets_key == <<"cache:ws:tilesets">>
registry_key == <<"cache:ws:registry">>
snap_body_key(t) == <<"cache:ws:snap", t>>
series_key(s) == <<"cache:ws:series", s>>

Stored(k) == k \in DOMAIN s3
Put(k, v) == [x \in DOMAIN s3 \cup {k} |-> IF x = k THEN v ELSE s3[x]]

\* perHour: how many scrapes fall in an hour.
tileset_id_for(t) == t \div deploy.perHour

SnapshotTimes == {t \in Times : Stored(_snapshot_key(t))}

\* list_object_keys of the snapshots, the .meta.json left out: a listing that
\* fails is an empty one.
list_object_keys(times) ==
    \/ times = SnapshotTimes /\ UNCHANGED left
    \/ times = {} /\ Spend("s3")

_latest_snapshot_per_bucket(times) ==
    {t \in times : \A u \in times : tileset_id_for(u) = tileset_id_for(t) => u <= t}

\* A meta that is missing, or that could not be read, counts no station.
_read_station_count(t, unread) ==
    IF Stored(_snapshot_meta_key(t)) /\ t \notin unread THEN s3[_snapshot_meta_key(t)] ELSE 0

compute_tilesets_entries(times, unread) ==
    {<<tileset_id_for(t), t, _read_station_count(t, unread)>> :
        t \in _latest_snapshot_per_bucket(times)}

\* No meta of these snapshots fails to be read, or one does.
MetasUnread(times, unread) ==
    \/ unread = {} /\ UNCHANGED left
    \/ (\E t \in times : unread = {t}) /\ Spend("s3")

\* The code's lists of snapshots are sorted newest first and hold a time once:
\* they are sets here, and a list's first n its newest n.
Newest(times, n) == {t \in times : Cardinality({u \in times : u >= t}) <= n}

\* The representatives of the newest buckets.
recent_snapshot_keys(times, window) == Newest(_latest_snapshot_per_bucket(times), window)

parse_observed_at(o) == o # NoDate

\* Points are <<observed_at, the scrape it was read from>>, oldest first.
_sorted_points(points) ==
    LET dated == {p \in points : parse_observed_at(p[1])}
    IN  CHOOSE q \in [1..Cardinality(dated) -> dated] :
           \A i, j \in DOMAIN q : i < j => q[i] # q[j] /\ q[i][1] <= q[j][1]

\* Mutant: a reading that the next buckets repeat is kept every time.
extract_station_series_repeats(bodies, s) ==
    _sorted_points({<<Reports[s][t], t>> : t \in bodies})

\* Adjacent buckets repeat a reading: the newest body that has it counts.
extract_station_series(bodies, s) ==
    LET first(t) == \A u \in bodies : u > t => Reports[s][u] # Reports[s][t]
    IN  _sorted_points({<<Reports[s][t], t>> : t \in {u \in bodies : first(u)}})

pivot_station_series(bodies) == [s \in Stations |-> extract_station_series(bodies, s)]

-----------------------------------------------------------------------------
(* The process *)

\* hash, bootstrapped: of the registry; lifecycle: the latch; time: of the snapshot
\* under way; bodies: those _warm_recent_snapshot_bodies read.
Fresh == [at |-> "idle", hash |-> NoHash, bootstrapped |-> FALSE, lifecycle |-> FALSE,
          text |-> Bundle, time |-> 0, bodies |-> {}]

ScraperInit ==
    /\ deploy \in Deployments
    /\ smn = [api |-> "up", registry |-> deploy.registry, version |-> 1]
    /\ token = "none"
    /\ s3 = [k \in {} |-> 0]
    /\ db = NoKeys
    /\ scraper = Fresh
    /\ clock = 0
    /\ left = deploy.bounds

Stages == {"idle", "bootstrap", "registry", "put_registry", "put_registry_meta",
           "warm_registry", "token", "fetch", "refresh", "refetch", "put_snapshot", "put_meta",
           "put_latest", "warm_latest", "warm_tilesets", "warm_bodies", "warm_series"}

ScraperTypeOK ==
    /\ deploy \in Deployments
    /\ smn \in [api : {"up", "down"}, registry : {"up", "down", "garbage"}, version : Versions]
    /\ token \in {"none", "good", "dead"}
    /\ \A t \in Times : /\ Stored(_snapshot_key(t)) => s3[_snapshot_key(t)] = t
                        /\ Stored(_snapshot_meta_key(t)) => s3[_snapshot_meta_key(t)] \in 1..Cardinality(Stations)
    /\ Stored(_LATEST_KEY) => s3[_LATEST_KEY] \in Times
    /\ Stored(_REGISTRY_KEY) => s3[_REGISTRY_KEY] \in Versions
    /\ Stored(_REGISTRY_META_KEY) => s3[_REGISTRY_META_KEY] \in Versions
    /\ \A k \in DOMAIN db : db[k].ttl \in 1..CacheTTL
    /\ scraper.at \in Stages /\ scraper.hash \in Versions \cup {NoHash}
    /\ scraper.time \in Times /\ scraper.text \in Versions
    /\ scraper.bodies \subseteq Times
    /\ clock \in Times
    /\ left \in [Events -> Nat]

GoTo(stage) == scraper' = [scraper EXCEPT !.at = stage]

_redis_set(k, v) == SetEx(db, k, v, CacheTTL)

AfterRegistry == IF deploy.cache THEN "warm_registry" ELSE "token"

-----------------------------------------------------------------------------
(* The registry *)

\* A cycle starts: _ensure_lifecycle_applied, which latches.
_ensure_lifecycle_applied ==
    /\ scraper.at = "idle"
    /\ scraper' = [scraper EXCEPT !.lifecycle = TRUE,
                                  !.at = IF scraper.bootstrapped THEN "registry" ELSE "bootstrap"]
    /\ s3' = IF scraper.lifecycle THEN s3 ELSE Put(_LIFECYCLE_RULE_ID, Retention)
    /\ UNCHANGED <<deploy, smn, token, db, clock, left>>

LifecycleFails ==
    /\ scraper.at = "idle" /\ ~scraper.lifecycle
    /\ Spend("s3")
    /\ GoTo(IF scraper.bootstrapped THEN "registry" ELSE "bootstrap")
    /\ UNCHANGED <<deploy, smn, token, s3, db, clock>>

\* download_tile makes a failure a None: the hash stays unknown, once and for all.
_maybe_bootstrap_registry_hash ==
    /\ scraper.at = "bootstrap"
    /\ \/ /\ scraper' = [scraper EXCEPT !.at = "registry", !.bootstrapped = TRUE,
                            !.hash = IF Stored(_REGISTRY_META_KEY) THEN s3[_REGISTRY_META_KEY] ELSE @]
          /\ UNCHANGED left
       \/ /\ Spend("s3")
          /\ scraper' = [scraper EXCEPT !.at = "registry", !.bootstrapped = TRUE]
    /\ UNCHANGED <<deploy, smn, token, s3, db, clock>>

_should_seed_from_bundle == deploy.fallback /\ scraper.hash = NoHash

\* parse_estaciones_txt of a text: are there stations?
parse_estaciones_txt == smn.registry # "garbage"

\* A text whose hash is not the one in memory is uploaded.
Upload(text) ==
    scraper' = IF text = scraper.hash THEN [scraper EXCEPT !.at = AfterRegistry]
               ELSE [scraper EXCEPT !.at = "put_registry", !.text = text]

_refresh_registry_if_changed ==
    /\ scraper.at = "registry"
    /\ CASE smn.registry = "down" ->
              IF _should_seed_from_bundle THEN Upload(Bundle) ELSE GoTo(AfterRegistry)
         [] smn.registry # "down" ->
              IF parse_estaciones_txt THEN Upload(smn.version) ELSE GoTo(AfterRegistry)
    /\ UNCHANGED <<deploy, smn, token, s3, db, clock, left>>

\* The client of the registry raises what is not a SmnRegistryError: the cycle is
\* abandoned.
RegistryRaises ==
    /\ scraper.at = "registry"
    /\ Spend("smn")
    /\ GoTo("idle")
    /\ UNCHANGED <<deploy, smn, token, s3, db, clock>>

PutRegistry ==
    /\ scraper.at = "put_registry"
    /\ s3' = Put(_REGISTRY_KEY, scraper.text)
    /\ GoTo("put_registry_meta")
    /\ UNCHANGED <<deploy, smn, token, db, clock, left>>

PutRegistryMeta ==
    /\ scraper.at = "put_registry_meta"
    /\ s3' = Put(_REGISTRY_META_KEY, scraper.text)
    /\ scraper' = [scraper EXCEPT !.at = AfterRegistry, !.hash = scraper.text]
    /\ UNCHANGED <<deploy, smn, token, db, clock, left>>

\* Either upload fails: the hash in memory is not touched.
RegistryUploadFails ==
    /\ scraper.at \in {"put_registry", "put_registry_meta"}
    /\ Spend("s3")
    /\ GoTo(AfterRegistry)
    /\ UNCHANGED <<deploy, smn, token, s3, db, clock>>

\* Mutant: a registry that is gone from S3 is not noticed.
_warm_registry_cache_no_heal ==
    /\ scraper.at = "warm_registry"
    /\ GoTo("token")
    /\ db' = IF Stored(_REGISTRY_KEY) THEN _redis_set(registry_key, s3[_REGISTRY_KEY]) ELSE db
    /\ UNCHANGED <<deploy, smn, token, s3, clock, left>>

\* Redis gets what S3 holds; if S3 holds nothing, or the read fails, the hash is
\* forgotten, so that the next cycle uploads again.
_warm_registry_cache ==
    /\ scraper.at = "warm_registry"
    /\ \/ /\ Stored(_REGISTRY_KEY)
          /\ GoTo("token")
          /\ \/ db' = _redis_set(registry_key, s3[_REGISTRY_KEY]) /\ UNCHANGED left
             \/ Spend("redis") /\ UNCHANGED db
       \/ /\ IF Stored(_REGISTRY_KEY) THEN Spend("s3") ELSE UNCHANGED left
          /\ scraper' = [scraper EXCEPT !.at = "token", !.hash = NoHash]
          /\ UNCHANGED db
    /\ UNCHANGED <<deploy, smn, token, s3, clock>>

-----------------------------------------------------------------------------
(* The observations: smn_api_client.py and the upload *)

\* POST /api-token/auth.  A failure is an SmnApiError: the cycle is skipped.
Mint(stage) ==
    IF smn.api = "up" THEN token' = "good" /\ GoTo(stage)
    ELSE GoTo("idle") /\ UNCHANGED token

_get_token ==
    /\ scraper.at = "token"
    /\ IF token = "none" THEN Mint("fetch") ELSE GoTo("fetch") /\ UNCHANGED token
    /\ UNCHANGED <<deploy, smn, s3, db, clock, left>>

\* Mutant: the double check hands the rejected token back.
_refresh_token_keeps ==
    /\ scraper.at = "refresh"
    /\ IF token = "none" THEN Mint("refetch") ELSE GoTo("refetch") /\ UNCHANGED token
    /\ UNCHANGED <<deploy, smn, s3, db, clock, left>>

\* The rejected token is the cached one, nobody else calls: a new one is minted.
_refresh_token ==
    /\ scraper.at = "refresh"
    /\ Mint("refetch")
    /\ UNCHANGED <<deploy, smn, s3, db, clock, left>>

\* GET /weather/station.  The first 401 refreshes the token, the second one, like
\* any other failure, skips the cycle.
_get_stations ==
    /\ scraper.at \in {"fetch", "refetch"}
    /\ CASE smn.api = "down" -> GoTo("idle")
         [] smn.api = "up" /\ token = "dead" ->
              GoTo(IF scraper.at = "fetch" THEN "refresh" ELSE "idle")
         [] OTHER -> scraper' = [scraper EXCEPT !.at = "put_snapshot", !.time = clock]
    /\ UNCHANGED <<deploy, smn, token, s3, db, clock, left>>

_build_snapshot(t) == t

PutThen(stage, k, v, next) == scraper.at = stage /\ s3' = Put(k, v) /\ GoTo(next)

\* Mutant: latest.json first.
_upload_snapshot_latest_first ==
    LET t == scraper.time
    IN  /\ \/ PutThen("put_snapshot", _LATEST_KEY, _build_snapshot(t), "put_meta")
           \/ PutThen("put_meta", _snapshot_key(t), _build_snapshot(t), "put_latest")
           \/ PutThen("put_latest", _snapshot_meta_key(t), Cardinality(Stations),
                      IF deploy.cache THEN "warm_latest" ELSE "idle")
        /\ UNCHANGED <<deploy, smn, token, db, clock, left>>

_upload_snapshot ==
    LET t == scraper.time
    IN  /\ \/ PutThen("put_snapshot", _snapshot_key(t), _build_snapshot(t), "put_meta")
           \/ PutThen("put_meta", _snapshot_meta_key(t), Cardinality(Stations), "put_latest")
           \/ PutThen("put_latest", _LATEST_KEY, _build_snapshot(t),
                      IF deploy.cache THEN "warm_latest" ELSE "idle")
        /\ UNCHANGED <<deploy, smn, token, db, clock, left>>

\* Mutant: a failed upload does not end the cycle.
UploadFails_goes_on ==
    /\ scraper.at \in {"put_snapshot", "put_meta", "put_latest"}
    /\ Spend("s3")
    /\ GoTo(IF deploy.cache THEN "warm_latest" ELSE "idle")
    /\ UNCHANGED <<deploy, smn, token, s3, db, clock>>

UploadFails ==
    /\ scraper.at \in {"put_snapshot", "put_meta", "put_latest"}
    /\ Spend("s3")
    /\ GoTo("idle")
    /\ UNCHANGED <<deploy, smn, token, s3, db, clock>>

-----------------------------------------------------------------------------
(* Warming Redis: every failure is logged and the cycle goes on *)

WarmLatest ==
    /\ scraper.at = "warm_latest"
    /\ GoTo("warm_tilesets")
    /\ \/ db' = _redis_set(latest_key, _build_snapshot(scraper.time)) /\ UNCHANGED left
       \/ Spend("redis") /\ UNCHANGED db
    /\ UNCHANGED <<deploy, smn, token, s3, clock>>

WarmWindow == IF deploy.animation > deploy.series THEN deploy.animation ELSE deploy.series

\* The tilesets of a listing that failed are none, and written like any other.
WarmTilesets ==
    /\ scraper.at = "warm_tilesets"
    /\ GoTo(IF WarmWindow > 0 THEN "warm_bodies" ELSE "idle")
    /\ \/ \E times \in {SnapshotTimes, {}} :
             /\ list_object_keys(times)
             /\ db' = _redis_set(tilesets_key, compute_tilesets_entries(times, {}))
       \/ \E unread \in SUBSET SnapshotTimes :
             /\ MetasUnread(SnapshotTimes, unread)
             /\ db' = _redis_set(tilesets_key, compute_tilesets_entries(SnapshotTimes, unread))
       \/ Spend("redis") /\ UNCHANGED db
    /\ UNCHANGED <<deploy, smn, token, s3, clock>>

\* The bodies of the window, those within the animation also to Redis; a body whose
\* download fails is left out, and a listing that fails leaves all of them out.
_warm_recent_snapshot_bodies ==
    LET keys == recent_snapshot_keys(SnapshotTimes, WarmWindow)
        animated == Newest(keys, deploy.animation)
    IN  /\ scraper.at = "warm_bodies"
        /\ \/ \E lost, unwritten \in {{}} \cup {{t} : t \in keys} :
                /\ lost = {} \/ unwritten = {}
                /\ CASE lost # {}      -> Spend("s3")
                     [] unwritten # {} -> unwritten \subseteq animated /\ Spend("redis")
                     [] OTHER          -> UNCHANGED left
                /\ scraper' = [scraper EXCEPT !.at = "warm_series", !.bodies = keys \ lost]
                /\ LET bodies == {snap_body_key(t) : t \in animated \ (lost \cup unwritten)}
                   IN  db' = [k \in DOMAIN db \cup bodies |->
                                IF k \in bodies THEN [val |-> k[2], ttl |-> CacheTTL] ELSE db[k]]
           \/ Spend("s3") /\ GoTo("warm_series") /\ UNCHANGED db
        /\ UNCHANGED <<deploy, smn, token, s3, clock>>

_warm_station_series ==
    LET bodies == Newest(scraper.bodies, deploy.series)
        pivot == pivot_station_series(bodies)
        keys == IF bodies = {} THEN {} ELSE {series_key(s) : s \in Stations}
    IN  /\ scraper.at = "warm_series"
        /\ scraper' = [scraper EXCEPT !.at = "idle", !.bodies = {}]
        /\ \E lost \in {{}} \cup {{k} : k \in keys} :
             /\ IF lost = {} THEN UNCHANGED left ELSE Spend("redis")
             /\ db' = [k \in DOMAIN db \cup (keys \ lost) |->
                         IF k \in keys \ lost THEN [val |-> pivot[k[2]], ttl |-> CacheTTL] ELSE db[k]]
        /\ UNCHANGED <<deploy, smn, token, s3, clock>>

-----------------------------------------------------------------------------
(* The process, SMN, S3 and time *)

\* A crash or a stop: only S3 and Redis survive.
Restart ==
    /\ scraper # Fresh
    /\ Spend("restart")
    /\ scraper' = Fresh
    /\ token' = "none"
    /\ UNCHANGED <<deploy, smn, s3, db, clock>>

Cycle ==
    \/ _ensure_lifecycle_applied
    \/ LifecycleFails
    \/ _maybe_bootstrap_registry_hash
    \/ _refresh_registry_if_changed
    \/ RegistryRaises
    \/ PutRegistry
    \/ PutRegistryMeta
    \/ RegistryUploadFails
    \/ _warm_registry_cache
    \/ _get_token
    \/ _refresh_token
    \/ _get_stations
    \/ _upload_snapshot
    \/ UploadFails
    \/ WarmLatest
    \/ WarmTilesets
    \/ _warm_recent_snapshot_bodies
    \/ _warm_station_series

\* The upstreams go and come back, the registry is edited, a token dies early.
SmnChanges ==
    /\ \/ Spend("smn") /\ \E a \in {"up", "down"}, r \in {"up", "down", "garbage"} :
                            smn' = [smn EXCEPT !.api = a, !.registry = r] /\ smn' # smn
       \/ smn.version < MaxVersion /\ Spend("edit") /\ smn' = [smn EXCEPT !.version = @ + 1]
    /\ UNCHANGED <<deploy, token, s3, db, scraper, clock>>

\* SMN rejects the token, or its time in the cache is over.
TokenEnds ==
    /\ token = "good"
    /\ Spend("token")
    /\ token' \in {"dead", "none"}
    /\ UNCHANGED <<deploy, smn, s3, db, scraper, clock>>

\* The lifecycle rule, on snapshots only, once the bucket has it.
Expire ==
    /\ Stored(_LIFECYCLE_RULE_ID)
    /\ \E t \in Times, k \in DOMAIN s3 :
         /\ t + Retention < clock /\ k \in {_snapshot_key(t), _snapshot_meta_key(t)}
         /\ s3' = [x \in DOMAIN s3 \ {k} |-> s3[x]]
    /\ UNCHANGED <<deploy, smn, token, db, scraper, clock, left>>

\* "a bucket-wide rule swept the static stations.json" (_ensure_lifecycle_applied).
Sweep ==
    /\ Spend("sweep")
    /\ \E k \in DOMAIN s3 \cap {_REGISTRY_KEY, _REGISTRY_META_KEY} :
         s3' = [x \in DOMAIN s3 \ {k} |-> s3[x]]
    /\ UNCHANGED <<deploy, smn, token, db, scraper, clock>>

Later ==
    /\ clock < MaxTime
    /\ Spend("later")
    /\ clock' = clock + 1
    /\ UNCHANGED <<deploy, smn, token, s3, db, scraper>>

Tick ==
    /\ db # NoKeys
    /\ db' = Aged(db)
    /\ UNCHANGED <<deploy, smn, token, s3, scraper, clock, left>>

ScraperNext ==
    \/ Cycle
    \/ Restart
    \/ SmnChanges
    \/ TokenEnds
    \/ Expire
    \/ Sweep
    \/ Later
    \/ Tick
=============================================================================
