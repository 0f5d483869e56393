----------------------------- MODULE TileReader -----------------------------
(***************************************************************************)
(* How base map tiles are served: services/basemap_tile_reader.py (relay   *)
(* to the provider, then Redis, then S3, under one deadline and one flight *)
(* per tile), the provider listing of services/basemap_service.py, and the *)
(* HTTP client both use.  The scraper stores tiles at the same time, in    *)
(* another process (BasemapScraper models its sweep).                      *)
(*                                                                         *)
(* There is one provider.  Each await of a request is a step; what is      *)
(* computed between two awaits belongs to the step before it.              *)
(***************************************************************************)
EXTENDS RedisClient, CircuitRules, Bags

CONSTANTS
    Services,     \* the deployments to explore: call, mode, online, negative, breaker,
                  \* and bounds: the tiles asked for, how often each fault happens
    Viewers,
    Tiles,
    ProbeTile,    \* the tile (min_zoom, 0, 0) of _probe_provider
    HttpSlots,    \* max_concurrent of the reader's HttpTileClient
    MaxRetries,   \* its max_retries
    TileTTL,      \* basemap_tile_ttl
    MissTTL,      \* basemap_negative_cache_ttl
    ListTTL,      \* basemap_provider_availability_ttl
    MaxWrites     \* bound: background writes under way when a request comes in

Modes == {"backup_and_prefetch", "backup_and_cache_on_read", "backup_only", "relay_only",
          "disabled"}
Faults == {"redis", "s3", "outage", "deadline", "restart"}

ASSUME TileReaderAssumption ==
    /\ Services \subseteq [call : {"tile", "providers"}, mode : Modes, online : BOOLEAN,
                           negative : BOOLEAN, breaker : BOOLEAN,
                           asked : SUBSET Tiles, bounds : [Faults -> Nat]]
    /\ ProbeTile \in Tiles /\ None \notin Viewers
    /\ \A n \in {HttpSlots, MaxRetries, TileTTL, MissTTL, ListTTL, MaxWrites} : n \in Nat \ {0}

VARIABLES
    service,   \* the deployment: never changes
    exists,    \* the tiles the provider has: never changes
    upstream,  \* the provider: "up", "down", or "captive" (200 with a text page)
    s3,        \* what the bucket holds: a function from tiles
    db,        \* Redis
    circuit,   \* the relay circuit of the provider
    req,       \* the request of each viewer
    shown,     \* what each viewer was last answered, for each tile
    tasks,     \* background writes under way, a bag of <<where, tile, content>>
    scraper,   \* how far the scraper is with each tile
    left       \* what remains of each bound

vars == <<service, exists, upstream, s3, db, circuit, req, shown, tasks, scraper, left>>

-----------------------------------------------------------------------------
(* The deployment (main.py configure_basemap) *)

redis_cache_enabled == service.mode \in {"backup_and_prefetch", "backup_and_cache_on_read"}
s3_cache_enabled == service.mode \notin {"relay_only", "disabled"}
scraper_writes_redis == service.mode = "backup_and_prefetch"
negative_cache_enabled == service.negative /\ redis_cache_enabled
validate_provider == service.mode # "disabled"

TileKey(t) == <<"tile:basemap", t>>
MissKey(t) == <<"tile:basemap:miss", t>>
AvailabilityKey == <<"basemap:availability">>

store_basemap_tile(t, content) == SetEx(db, TileKey(t), content, TileTTL)
get_basemap_tile(t) == Get(db, TileKey(t))
get_basemap_tile_miss(t) == Has(db, MissKey(t))

mark_basemap_tile_miss(t) == SetEx(db, MissKey(t), Bytes, MissTTL)
clear_basemap_tile_miss(t) == Del(db, MissKey(t))
set_basemap_provider_availability(flag) == SetEx(db, AvailabilityKey, flag, ListTTL)
get_basemap_provider_availability == Get(db, AvailabilityKey)

-----------------------------------------------------------------------------
(* Requests.  A leader resolves the tile, a follower waits for the leader's *)
(* future.                                                                  *)

Resolving == {"miss", "queue", "fetch", "redis", "s3"}
Leading == Resolving \cup {"probe", "announce"}

\* leader: whose future a follower awaits; tries: failed attempts of _fetch_once;
\* probed, stored: the two halves of _refresh_availability.
Idle == [at |-> "idle", tile |-> ProbeTile, leader |-> None, tries |-> 0,
         probed |-> "?", stored |-> "?"]

Answers == {"nothing", "hit", "page", "gap", "unknown", "error"}
Contents == {"tile", "page"}

TypeOK ==
    /\ service \in Services /\ exists \subseteq Tiles
    /\ upstream \in {"up", "down", "captive"}
    /\ DOMAIN s3 \subseteq Tiles /\ \A t \in DOMAIN s3 : s3[t] \in Contents
    /\ \A k \in DOMAIN db : db[k].ttl \in 1..(TileTTL + MissTTL + ListTTL)
    /\ circuit.mode \in {"closed", "cooling", "probe"} /\ circuit.trips \in 0..MaxTrips
    /\ \A v \in Viewers :
         /\ req[v].at \in Leading \cup {"idle", "waiting", "availability", "offline"}
         /\ req[v].tile \in Tiles /\ req[v].leader \in Viewers \cup {None}
         /\ req[v].tries \in 0..(MaxRetries - 1)
         /\ req[v].probed \in {"?", "yes", "no"} /\ req[v].stored \in {"?", "yes", "no"}
         /\ shown[v] \in [Tiles -> Answers]
    /\ BagToSet(tasks) \subseteq {"redis", "s3", "miss"} \X Tiles \X Contents
    /\ scraper \in [Tiles -> {"idle", "redis", "clear", "done"}]
    /\ left \in [Faults -> Nat]

Init ==
    /\ service \in Services
    /\ exists \in SUBSET service.asked
    /\ upstream = "up"
    /\ s3 = [t \in {} |-> "tile"]
    /\ db = NoKeys
    /\ circuit = NewCircuit
    /\ req = [v \in Viewers |-> Idle]
    /\ shown = [v \in Viewers |-> [t \in Tiles |-> "nothing"]]
    /\ tasks = EmptyBag
    /\ scraper = [t \in Tiles |-> "idle"]
    /\ left = service.bounds

Spend(kind) ==
    /\ left[kind] > 0
    /\ left' = [left EXCEPT ![kind] = @ - 1]

LeaderOf(t) == {v \in Viewers : req[v].at \in Leading /\ req[v].tile = t}

\* Mutant: an exception pops the flight and leaves its followers behind.
Resolved_alone(v, answer) ==
    LET told(w) == w = v \/ (answer # "error" /\ req[w].at = "waiting" /\ req[w].leader = v)
    IN  /\ req' = [w \in Viewers |-> IF told(w) THEN Idle ELSE req[w]]
        /\ shown' = [w \in Viewers |-> IF told(w) THEN [shown[w] EXCEPT ![req[v].tile] = answer]
                                       ELSE shown[w]]

\* The end of a flight: the future is resolved, with a result or an exception,
\* and is no longer in flight.
Resolved(v, answer) ==
    LET told(w) == w = v \/ (req[w].at = "waiting" /\ req[w].leader = v)
    IN  /\ req' = [w \in Viewers |-> IF told(w) THEN Idle ELSE req[w]]
        /\ shown' = [w \in Viewers |-> IF told(w) THEN [shown[w] EXCEPT ![req[v].tile] = answer]
                                       ELSE shown[w]]

\* An answer without a flight.
Refused(v, t, answer) ==
    /\ shown' = [shown EXCEPT ![v][t] = answer]
    /\ UNCHANGED req

_schedule_cache_write(writes) == tasks' = tasks (+) SetToBag(writes)

-----------------------------------------------------------------------------
(* _resolve_tile: the tiers in order, those that are off left out *)

FromS3 == IF s3_cache_enabled THEN "s3" ELSE "missed"
FromRedis == IF redis_cache_enabled THEN "redis" ELSE FromS3

\* The relay circuit is asked once, before the call is queued.
_try_provider ==
    IF service.online /\ (service.breaker => AllowsWrite(circuit)) THEN "queue" ELSE FromRedis

_resolve_tile == IF negative_cache_enabled THEN "miss" ELSE _try_provider

\* Viewer v goes on with tile t at a tier; after the last, the miss of the full
\* chain is marked.
Enter(v, t, stage) ==
    IF stage = "missed"
    THEN /\ IF req[v].at = "idle" THEN Refused(v, t, "gap") ELSE Resolved(v, "gap")
         /\ _schedule_cache_write(IF negative_cache_enabled THEN {<<"miss", t, "tile">>} ELSE {})
    ELSE /\ req' = [req EXCEPT ![v] = [Idle EXCEPT !.at = stage, !.tile = t]]
         /\ UNCHANGED <<shown, tasks>>

Follow(v, t) ==
    /\ req' = [req EXCEPT ![v] = [Idle EXCEPT !.at = "waiting", !.tile = t,
                                              !.leader = CHOOSE w \in LeaderOf(t) : TRUE]]
    /\ UNCHANGED <<shown, tasks>>

-----------------------------------------------------------------------------
(* A tile request *)

\* Mutant: nobody looks for a flight to join.
get_tile_no_dedup(v, t) == Enter(v, t, _resolve_tile)

\* Join the flight of the tile, or lead one.
get_tile(v, t) ==
    IF LeaderOf(t) # {} THEN Follow(v, t) ELSE Enter(v, t, _resolve_tile)

\* The route.  A matching If-None-Match is answered before anything is read, or,
\* for a gap, changes nothing the viewer sees.
AskTile(v, t) ==
    /\ service.call = "tile" /\ t \in service.asked
    /\ req[v].at = "idle" /\ BagCardinality(tasks) < MaxWrites
    /\ IF validate_provider THEN get_tile(v, t)
       ELSE Refused(v, t, "unknown") /\ UNCHANGED tasks
    /\ UNCHANGED <<service, exists, upstream, s3, db, circuit, scraper, left>>

\* Mutant: a tombstone that is hit starts a new life.
_safe_get_miss_slides(v) ==
    LET t == req[v].tile
    IN  /\ req[v].at = "miss"
        /\ IF get_basemap_tile_miss(t)
           THEN Resolved(v, "gap") /\ db' = mark_basemap_tile_miss(t) /\ UNCHANGED tasks
           ELSE Enter(v, t, _try_provider) /\ UNCHANGED db
        /\ UNCHANGED <<service, exists, upstream, s3, circuit, scraper, left>>

_safe_get_miss(v) ==
    /\ req[v].at = "miss"
    /\ IF get_basemap_tile_miss(req[v].tile) THEN Resolved(v, "gap") /\ UNCHANGED tasks
       ELSE Enter(v, req[v].tile, _try_provider)
    /\ UNCHANGED <<service, exists, upstream, s3, db, circuit, scraper, left>>

\* The semaphore of HttpTileClient.
Dequeue(v) ==
    /\ req[v].at = "queue"
    /\ Cardinality({w \in Viewers : req[w].at = "fetch"}) < HttpSlots
    /\ req' = [req EXCEPT ![v].at = "fetch"]
    /\ UNCHANGED <<service, exists, upstream, s3, db, circuit, shown, tasks, scraper, left>>

\* Mutant: any 200 is a tile.
_fetch_once_any_200(t) ==
    CASE upstream = "down"    -> "retry"
      [] upstream = "captive" -> "page"
      [] OTHER                -> IF t \in exists THEN "tile" ELSE None

\* One attempt: 200 with an image; 404, 403 or a text page, a permanent miss; 429,
\* 5xx, a network error or a timeout, worth another attempt.
_fetch_once(t) ==
    CASE upstream = "down"    -> "retry"
      [] upstream = "captive" -> None
      [] OTHER                -> IF t \in exists THEN "tile" ELSE None

\* What the circuit makes of an outcome; nobody asks how often it tripped, so
\* the count stops at MaxTrips.
Recorded(c) == [c EXCEPT !.trips = IF @ > MaxTrips THEN MaxTrips ELSE @]

\* HttpTileClient.download_tile as _download_from_provider sees it: an answer is
\* a success of the provider, a tile is also written through.
Fetch(v) ==
    LET t == req[v].tile
        answer == _fetch_once(t)
    IN  /\ req[v].at = "fetch" /\ answer # "retry"
        /\ circuit' = IF service.breaker THEN AfterSuccess(circuit) ELSE circuit
        /\ IF answer = None THEN Enter(v, t, FromRedis)
           ELSE /\ Resolved(v, IF answer = "tile" THEN "hit" ELSE "page")
                /\ _schedule_cache_write(
                       (IF redis_cache_enabled THEN {<<"redis", t, answer>>} ELSE {})
                         \cup (IF s3_cache_enabled THEN {<<"s3", t, answer>>} ELSE {}))
        /\ UNCHANGED <<service, exists, upstream, s3, db, scraper, left>>

\* A failed attempt: another one, or ProviderUnavailableError.
FetchFails(v) ==
    /\ req[v].at = "fetch" /\ _fetch_once(req[v].tile) = "retry"
    /\ IF req[v].tries + 1 < MaxRetries
       THEN /\ req' = [req EXCEPT ![v].tries = @ + 1]
            /\ UNCHANGED <<shown, tasks, circuit>>
       ELSE /\ circuit' = IF service.breaker THEN Recorded(AfterFailure(circuit)) ELSE circuit
            /\ Enter(v, req[v].tile, FromRedis)
    /\ UNCHANGED <<service, exists, upstream, s3, db, scraper, left>>

_safe_redis_get(v) ==
    LET found == get_basemap_tile(req[v].tile)
    IN  /\ req[v].at = "redis"
        /\ IF found = None THEN Enter(v, req[v].tile, FromS3)
           ELSE Resolved(v, IF found = "tile" THEN "hit" ELSE "page") /\ UNCHANGED tasks
        /\ UNCHANGED <<service, exists, upstream, s3, db, circuit, scraper, left>>

\* A tile found in S3 goes back to Redis.
_safe_s3_get(v) ==
    LET t == req[v].tile
    IN  /\ req[v].at = "s3"
        /\ IF t \notin DOMAIN s3 THEN Enter(v, t, "missed")
           ELSE /\ Resolved(v, IF s3[t] = "tile" THEN "hit" ELSE "page")
                /\ _schedule_cache_write(IF redis_cache_enabled THEN {<<"redis", t, s3[t]>>}
                                         ELSE {})
        /\ UNCHANGED <<service, exists, upstream, s3, db, circuit, scraper, left>>

\* download_tile makes every S3 failure a None, so the chain counts it as a miss.
S3GetFails(v) ==
    /\ req[v].at = "s3"
    /\ Spend("s3")
    /\ Enter(v, req[v].tile, "missed")
    /\ UNCHANGED <<service, exists, upstream, s3, db, circuit, scraper>>

\* redis-py's errors are none of those the reader catches: the leader and its
\* followers raise.
RedisFails(v) ==
    /\ req[v].at \in {"miss", "redis", "availability", "announce"}
    /\ Spend("redis")
    /\ Resolved(v, "error")
    /\ UNCHANGED <<service, exists, upstream, s3, db, circuit, tasks, scraper>>

\* request_deadline_seconds: whatever the leader awaits is cancelled, the relay
\* circuit hears nothing, and no miss is marked.
Deadline(v) ==
    /\ req[v].at \in Resolving
    /\ Spend("deadline")
    /\ Resolved(v, "gap")
    /\ UNCHANGED <<service, exists, upstream, s3, db, circuit, tasks, scraper>>

-----------------------------------------------------------------------------
(* Background writes *)

Finished(w) == tasks' = tasks (-) SetToBag({w})

_write_redis(t, content) ==
    /\ Finished(<<"redis", t, content>>)
    /\ db' = store_basemap_tile(t, content)
    /\ UNCHANGED s3

_write_s3(t, content) ==
    /\ Finished(<<"s3", t, content>>)
    /\ s3' = [x \in DOMAIN s3 \cup {t} |-> IF x = t THEN content ELSE s3[x]]
    /\ UNCHANGED db

MarkMiss(t, content) ==
    /\ Finished(<<"miss", t, content>>)
    /\ db' = mark_basemap_tile_miss(t)
    /\ UNCHANGED s3

Write(w) ==
    /\ BagIn(w, tasks)
    /\ CASE w[1] = "redis" -> _write_redis(w[2], w[3])
         [] w[1] = "s3"    -> _write_s3(w[2], w[3])
         [] w[1] = "miss"  -> MarkMiss(w[2], w[3])
    /\ UNCHANGED <<service, exists, upstream, circuit, req, shown, scraper, left>>

\* _run_throttled logs a failure and drops the write.
_run_throttled(w) ==
    /\ BagIn(w, tasks)
    /\ Spend(IF w[1] = "s3" THEN "s3" ELSE "redis")
    /\ Finished(w)
    /\ UNCHANGED <<service, exists, upstream, s3, db, circuit, req, shown, scraper>>

-----------------------------------------------------------------------------
(* The provider listing *)

\* Without the relay only S3 counts; otherwise the cached flag is read first.
_check_provider_available(v) ==
    IF service.online \/ s3_cache_enabled
    THEN /\ req' = [req EXCEPT ![v] = [Idle EXCEPT !.at = IF service.online THEN "availability"
                                                          ELSE "offline"]]
         /\ UNCHANGED shown
    ELSE Refused(v, ProbeTile, "gap")

list_providers(v) ==
    /\ service.call = "providers" /\ req[v].at = "idle"
    /\ IF validate_provider THEN _check_provider_available(v)
       ELSE Refused(v, ProbeTile, "gap")
    /\ UNCHANGED <<service, exists, upstream, s3, db, circuit, tasks, scraper, left>>

\* The cached flag, else the flight of another request, else a flight of its own.
ReadAvailability(v) ==
    LET cached == get_basemap_provider_availability
    IN  /\ req[v].at = "availability"
        /\ CASE cached # None ->
                  /\ Resolved(v, IF cached = "yes" THEN "hit" ELSE "gap") /\ UNCHANGED tasks
             [] cached = None /\ LeaderOf(ProbeTile) # {} -> Follow(v, ProbeTile)
             [] OTHER -> Enter(v, ProbeTile, "probe")
        /\ UNCHANGED <<service, exists, upstream, s3, db, circuit, scraper, left>>

\* Both halves are awaited; when both are known the flag is written.
Half(v, half, flag) ==
    LET r == [req[v] EXCEPT ![half] = flag]
    IN  req' = [req EXCEPT ![v] = [r EXCEPT !.at = IF r.probed # "?" /\ r.stored # "?"
                                                   THEN "announce" ELSE "probe"]]

_probe_provider(v) ==
    LET answer == _fetch_once(ProbeTile)
    IN  /\ req[v].at = "probe" /\ req[v].probed = "?"
        /\ IF answer = "retry" /\ req[v].tries + 1 < MaxRetries
           THEN req' = [req EXCEPT ![v].tries = @ + 1]
           ELSE Half(v, "probed", IF answer \in {"retry", None} THEN "no" ELSE "yes")
        /\ UNCHANGED <<service, exists, upstream, s3, db, circuit, shown, tasks, scraper, left>>

_has_any_s3_tile(v) ==
    /\ req[v].at = "probe" /\ req[v].stored = "?"
    /\ Half(v, "stored", IF s3_cache_enabled /\ DOMAIN s3 # {} THEN "yes" ELSE "no")
    /\ UNCHANGED <<service, exists, upstream, s3, db, circuit, shown, tasks, scraper, left>>

\* has_any_object makes a failure "no object".
HasAnyFails(v) ==
    /\ s3_cache_enabled /\ Spend("s3")
    /\ \/ req[v].at = "probe" /\ req[v].stored = "?" /\ Half(v, "stored", "no") /\ UNCHANGED shown
       \/ req[v].at = "offline" /\ Resolved(v, "gap")
    /\ UNCHANGED <<service, exists, upstream, s3, db, circuit, tasks, scraper>>

_refresh_availability(v) ==
    LET available == "yes" \in {req[v].probed, req[v].stored}
    IN  /\ req[v].at = "announce"
        /\ db' = set_basemap_provider_availability(IF available THEN "yes" ELSE "no")
        /\ Resolved(v, IF available THEN "hit" ELSE "gap")
        /\ UNCHANGED <<service, exists, upstream, s3, circuit, tasks, scraper, left>>

OfflineCheck(v) ==
    /\ req[v].at = "offline"
    /\ Resolved(v, IF DOMAIN s3 # {} THEN "hit" ELSE "gap")
    /\ UNCHANGED <<service, exists, upstream, s3, db, circuit, tasks, scraper, left>>

-----------------------------------------------------------------------------
(* The scraper, the provider, time and the process *)

\* _persist_to_s3 of a tile that was fetched; then the hot cache, where the mode
\* says so: the tile is stored and its tombstone cleared.
_persist_to_s3(t) ==
    /\ s3_cache_enabled /\ upstream = "up" /\ t \in exists /\ scraper[t] = "idle"
    /\ s3' = [x \in DOMAIN s3 \cup {t} |-> IF x = t THEN "tile" ELSE s3[x]]
    /\ scraper' = [scraper EXCEPT ![t] = IF scraper_writes_redis THEN "redis" ELSE "done"]
    /\ UNCHANGED <<service, exists, upstream, db, circuit, req, shown, tasks, left>>

_write_through_redis(t) ==
    /\ \/ scraper[t] = "redis" /\ db' = store_basemap_tile(t, "tile")
                               /\ scraper' = [scraper EXCEPT ![t] = "clear"]
       \/ scraper[t] = "clear" /\ db' = clear_basemap_tile_miss(t)
                               /\ scraper' = [scraper EXCEPT ![t] = "done"]
    /\ UNCHANGED <<service, exists, upstream, s3, circuit, req, shown, tasks, left>>

Outage ==
    /\ Spend("outage")
    /\ upstream' \in {"up", "down", "captive"} \ {upstream}
    /\ UNCHANGED <<service, exists, s3, db, circuit, req, shown, tasks, scraper>>

Tick ==
    /\ db # NoKeys
    /\ db' = Aged(db)
    /\ UNCHANGED <<service, exists, upstream, s3, circuit, req, shown, tasks, scraper, left>>

CooldownOver ==
    /\ circuit.mode = "cooling"
    /\ circuit' = AfterCooldown(circuit)
    /\ UNCHANGED <<service, exists, upstream, s3, db, req, shown, tasks, scraper, left>>

\* A restart, close() included: what the drain does not finish is lost.
close ==
    /\ Spend("restart")
    /\ circuit' = NewCircuit
    /\ req' = [v \in Viewers |-> Idle]
    /\ tasks' = EmptyBag
    /\ UNCHANGED <<service, exists, upstream, s3, db, shown, scraper>>

Step(v) ==
    \/ _safe_get_miss(v)
    \/ Dequeue(v)
    \/ Fetch(v)
    \/ FetchFails(v)
    \/ _safe_redis_get(v)
    \/ _safe_s3_get(v)
    \/ S3GetFails(v)
    \/ RedisFails(v)
    \/ Deadline(v)
    \/ ReadAvailability(v)
    \/ _probe_provider(v)
    \/ _has_any_s3_tile(v)
    \/ HasAnyFails(v)
    \/ _refresh_availability(v)
    \/ OfflineCheck(v)

Writes == {"redis", "s3", "miss"} \X Tiles \X Contents

Next ==
    \/ \E v \in Viewers, t \in Tiles : AskTile(v, t)
    \/ \E v \in Viewers : list_providers(v)
    \/ \E v \in Viewers : Step(v)
    \/ \E w \in Writes : Write(w)
    \/ \E w \in Writes : _run_throttled(w)
    \/ \E t \in Tiles : _persist_to_s3(t)
    \/ \E t \in Tiles : _write_through_redis(t)
    \/ Outage
    \/ Tick
    \/ CooldownOver
    \/ close

Spec == Init /\ [][Next]_vars

\* Every call returns, the semaphores are fair, background tasks run, time passes
\* and a client polls.  Nothing obliges the scraper or the provider.
FairSpec ==
    /\ Spec
    /\ WF_vars(Tick) /\ WF_vars(CooldownOver)
    /\ WF_vars(\E w \in Writes : Write(w))
    /\ \A v \in Viewers : SF_vars(Step(v)) /\ WF_vars(list_providers(v))
    /\ \A v \in Viewers : SF_vars(\E t \in Tiles : AskTile(v, t))

-----------------------------------------------------------------------------
(* Properties *)

\* Concurrent requests for a tile, or for the listing, cost the provider one call:
\* "collapses bursts of concurrent requests for the same tile down to one
\* upstream round-trip" (basemap_tile_reader.py BasemapTileReader).
OneFlight == \A t \in Tiles : Cardinality(LeaderOf(t)) <= 1

\* A request that waits for a future waits for one somebody will resolve, also
\* after an error, a deadline or a restart (get_tile's except and finally).
FollowerHasLeader ==
    \A v \in Viewers : req[v].at = "waiting" =>
        req[v].leader # None /\ req[v].leader \in LeaderOf(req[v].tile)

\* A page of the provider is never served or kept as a tile: "so it isn't cached
\* and served as a real tile" (http_tile_client.py _fetch_once).
NoPageServed ==
    /\ \A v \in Viewers, t \in Tiles : shown[v][t] # "page"
    /\ \A t \in DOMAIN s3 : s3[t] = "tile"

\* Can tile t be had, now and as long as nothing changes?
Obtainable(t) ==
    \/ s3_cache_enabled /\ t \in DOMAIN s3
    \/ service.online /\ upstream = "up" /\ t \in exists

\* A tile that can be had for good is in the end shown to everyone who polls it,
\* and stays: although misses were marked while S3, Redis or the provider failed
\* and while the relay circuit was open.  The same for the listing of the
\* provider (_resolve_tile, _refresh_availability).
TileArrives ==
    \A t \in Tiles, v \in Viewers :
        <>[](validate_provider /\ Obtainable(t) /\ service.asked = {t}) =>
            <>[](shown[v][t] = "hit")
=============================================================================
