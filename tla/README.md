# A TLA+ verification of data-service

`data-service` serves weather products (satellite, radar, GFS, WRF, ECMWF,
weather stations) and base maps.  Background loops copy tiles from S3, from
map providers and from the SMN API into Redis, S3 and SQLite; HTTP handlers
read what the loops left, falling back to the source.  The interesting part is
not any single function but what the loops and the handlers do to shared state
when they are cancelled, restarted, overlapped or half failed.

Source paths below are relative to the repository root.

## 1. Inventory

| Part | State | Operations | Interacts with |
|---|---|---|---|
| Storage circuit (`src/services/storage_circuit.py`) | rolling window, open deadline, cooldown, trip count | `allows_write`, `record_success`, `record_failure`, `exhausted`, `cooldown_remaining` | one instance for S3 shared by every provider of the scraper; one for Redis; one per provider in the reader |
| Basemap scraper (`src/services/basemap_scraper_service.py`) | per sweep: watermark, completed indices, error window, verdict; per cycle: storage flags | a cycle over groups of providers, zoom by zoom, chunk by chunk; retry of failed tiles; completion bookkeeping | state store, circuit, provider HTTP, S3, Redis |
| Basemap state store (`src/clients/basemap_state_store.py`) | SQLite tables: cursor, failed tiles, last completion, provider health, statistics | one statement each | scraper, dashboard |
| Sync base (`src/services/base_sync_service.py`) | running flag, task, file lock | `start`, `stop`, the loop and its sleep | every loop |
| Tile reader (`src/services/basemap_tile_reader.py`, `basemap_service.py`, `http_tile_client.py`) | in-flight relays, relay circuits, background writes, tombstones in Redis | `get_tile` through provider, Redis, S3; `list_providers` | scraper (same keys), provider |
| Domain sync (`src/services/domain_sync_service.py`, satellite, radar, GFS, WRF, two ECMWF services) | Redis indexes, tiles with TTL, overlay markers, status hash, counters | list, download, index, trim or prune, watchdog | S3, Redis, readers |
| Product readers (`*_service.py`, `*_sync_strategy.py`, `point_value_*.py`, `product_availability_service.py`) | copies of listings, availability memo, background writes | Redis first, S3 on a miss | domain sync, routes |
| Weather stations (`weather_stations_*.py`, `smn_*.py`) | registry, snapshots and `latest.json` in S3, `cache:ws` keys in Redis, registry hash, token, in-process listing | scrape, upload, warm, read, write back | SMN API and registry, S3, Redis |
| HTTP routes (`src/routes/`) | none; the viewer keeps copies and ETags | validate, compare the tag, call the service | every reader |
| Key store (`weather_stations_keystore.py`) | API keys in SQLite | validate, touch, revoke | weather station routes |
| Metrics, settings, start-up | counters, configuration | | |

What is hard here:

* **interleaving** — tasks of one chunk complete in any order; groups of
  providers share one circuit; handlers and loops write the same Redis keys;
* **crash and cancellation** — every SQLite statement commits by itself, so a
  restart can fall between any two; `stop()` cancels a sweep at any `await`
  and its `finally` blocks still run;
* **partial failure** — S3 refuses some tiles of a sweep, a provider fails for
  a while, one of several writes is made;
* **time** — cooldowns, backoff with a cap, a scrape interval, watchdogs;
* **liveness** — a sweep that pauses, is abandoned or is tripped must finish
  some day.

What makes each part correct, in one line:

* circuit: no reported outcome, early or late, changes the schedule by more
  than the rules say; it never wedges shut and never gives up early;
* scraper: a tile the persisted cursor has passed is stored or remembered; a
  completion stamp is honest; every due provider is stamped eventually;
* tile reader: one relay per tile, nobody waits for a flight that is gone, no
  error page is kept, and no tombstone hides an obtainable tile for good;
* domain sync: what an index promises can be read; an interrupted cycle
  resumes; the index does not grow without bound;
* product readers: what is in S3 is served, listed and reaches a viewer who was
  shown a gap before; nothing that was never published is cached or listed;
* weather stations: `latest.json` and Redis never run ahead of the snapshots,
  and whatever failed or came late, readers end up with what S3 holds.

## 2. Modules

| Module | What it is |
|---|---|
| `OutcomeWindow` | the rolling window both breakers judge |
| `CircuitRules` | the storage circuit without its clock, as operators on a record |
| `CircuitGate` | what the circuit promises its callers (abstract specification) |
| `StorageCircuit` | the circuit with clock, backoff and concurrent writers; implements `CircuitGate` |
| `StorageCircuitProofs` | theorems about `StorageCircuit` |
| `BasemapScraper` | the resumable sweep, its SQLite tables, both breakers, crash and stop |
| `BasemapScraperProofs` | theorems about `BasemapScraper` |
| `TilesetSync` | the satellite and radar loops: cycle, watchdog, counters, index and tiles in Redis |
| `TilesetSyncProofs` | theorems about `TilesetSync` |
| `RedisClient` | Redis as the products use it: keys with a remaining life, one operator per method of the client |
| `ForecastSync` | the two ECMWF loops, WRF and GFS |
| `ForecastSyncProofs` | theorems about `ForecastSync` |
| `AssetReaders` | one asset URL from route to S3: strategies, ETags, viewers' copies, background writes |
| `AssetReadersProofs` | theorems about `AssetReaders` |
| `ListingReaders` | the listing routes and the availability snapshot |
| `ListingReadersProofs` | theorems about `ListingReaders` |
| `TileReader` | base map requests, provider listing, HTTP client, beside the scraper's writes |
| `TileReaderProofs` | theorems about `TileReader` |
| `WeatherScraper` | the weather station cycle: registry, token, uploads, cache warming |
| `WeatherStations` | `WeatherScraper` composed with the read service |
| `WeatherStationsProofs` | theorems about `WeatherStations` |
| `MCStorageCircuit`, `MCBasemapScraper`, `MCTilesetSync`, `MCForecastSync`, `MCAssetReaders`, `MCListingReaders`, `MCTileReader`, `MCWeatherStations` | instances for TLC |

The readers' modules do not repeat the loops they read from: `ListingReaders`
keeps of a synchroniser what it leaves in the index (`SyncIndexes`,
`SyncPrunes`), `TileReader` of the scraper what it stores (`_persist_to_s3`,
`_write_through_redis`).  `TileReader` uses the circuit as `CircuitRules`
states it, which `ImplementsGate` justifies.

### Storage circuit

`StorageCircuit` keeps the fields of the class (`recent`, `openUntil`,
`cooldown`, `consecutiveTrips`, `openedAt`) and a clock in whole seconds.  The
methods `record_success` and `record_failure` are actions with their own
names; `_open`, `_rearm` and `_close` are the conjunctions `Opening`,
`Rearming`, `Closing`.  Writers are counted between `allows_write()` and their
report; `Forget` is a writer that reports nothing because its tile was a 404
or its provider was down.  `_failures_while_open` and the `CircuitTransition`
values are left out: they only reach log lines.

`CircuitRules` abstracts the clock into three modes, *closed*, *cooling* and
*probe*; `CircuitGate` is the specification whose only steps are those rules.
The refinement mapping is `AbstractGate`.  The scraper uses the abstract
circuit, which is what the refinement justifies.

### Basemap scraper

One process per provider, one variable per local of the coroutine, `pc` for
the `await` it is suspended at:

    off -> gate -> zoom -> retry <-> retrying
                            |
                          chunk -> waiting
                            |
             spawned -> sweep <-> advance [-> checkpoint]
                                     |
                                   close -> zoomEnd -> finish
    finish -> (off | clearFailed -> stamp -> closeCircuit -> off)

| Code | Model |
|---|---|
| `_run_sync`, `_build_scrape_groups`, `_scrape_group` | `Wake`, `SameGroup`, `IsHead`, `Follows`, `EndTurn` |
| early returns of `_scrape_provider` | `NotDue`, `Skip`; otherwise `Begin` |
| `_retry_failed_tiles` | `NextZoom` (list), `RetryTile`, `RetryDone` |
| `_run_indexed_sweep`, `_await_storage_cooldown` | `StartSweep`, `AwaitCooldown`, `Dispatch`, `CloseSweep` |
| `_sweep_chunk`, `_download_and_store`, `_persist_to_s3` | `StartTasks`, `TileDone` |
| `_handle_completion`, `_update_sweep_state` | `HandleCompletion`, `FoldIn`, `update_sweep_state` |
| `_advance_watermark`, the rest of `_handle_completion` | `AdvanceWatermark`, `AdvancedTo`, `Checkpoint`, `Checkpointed`, `GoOn` |
| end of `_scrape_provider` | `OpenCircuit`, `FinishAbandoned`, `FinishIncomplete`, `ClearCursor`, `ClearFailed`, `Stamp`, `CloseCircuit` |
| process restart, `stop()` | `Crash`, `Stop` |

A checkpoint is two steps, as in the code: `set_cursor` writes the row in a
thread (`AdvanceWatermark`), and only when it has returned is
`progress.watermark` assigned (`Checkpointed`).  A `stop()` in between does not
undo the write; the `finally` block writes the older watermark over it, or the
thread writes last.

A tile is `<<zoom, index>>`; its coordinates, URL and bytes do not matter to
the control.  Times are abstract: a cooldown or the interval ends at some
moment.  That the storage circuit makes the next cycle come sooner
(`_storage_retry_due`) is therefore not seen; `last` says whether the
completion stamp is within the interval.  Each SQLite statement is a step of
its own.  `outcome` and `from` are
history variables: the last outcome folded in for each tile of the current
logical sweep (from a start without cursor to the next), and the position the
current pass resumed from.

Simplifications, all of which only add behaviours or concern state no property
reads: tasks of a chunk pass their gate in one step (they do, before any I/O);
completed tasks are consumed in any order, although `as_completed` yields them
in completion order; the periodic checkpoint by time may fall at any advance;
a task cancelled while it uploads reports nothing and counts as not stored; the
completion's dashboard row and the sweep statistics are not kept.

### Satellite and radar synchronisation

`TilesetSync` is one loop of `DomainSyncService` with its Redis keys.  The two
products share the shape of the cycle and differ where it matters; the
constant `Product` chooses.

| | satellite | radar |
|---|---|---|
| channels of a cycle | a fixed list of prefixes | the elevations S3 lists |
| order of the two reads | S3 listing, then index | index, then S3 listing |
| `zadd` and `expire` of the index | two commands | one transaction |
| an exception ends | the channel | the whole walk |

| Code | Model |
|---|---|
| `_run_single_domain`, `_on_sync_error` | `Wake`, `WakeFails`, `Count`, `Report`, `ReportFails` |
| `_timed_domain` | `Watchdog` |
| nested listings of `_sync_radar` | `Discover` |
| `get_subdirectories` | `ListTilesets` |
| `get_satellite_tilesets`, `get_radar_tilesets` | `ReadIndex` |
| `sync_prefix_to_redis`, `_download_tile_to_redis` | `NextTileset`, `TileStored`, `TileFails`, `Downloaded` |
| `add_satellite_tileset`, `add_radar_index` | `AddToIndex`, `ExpireIndex` |
| `trim_satellite_index`, `trim_radar_index` | `TrimIndex`, `Trimmed` |
| `except` clauses of the two loops | `ChannelFails` |
| process restart, `stop()` | `Restart` |
| Redis, tiles processor (external) | `Tick`, `EvictTile`, `EvictIndex`, `Publish`, `Retire` |

Time is a clock whose unit is a fraction of the TTL; a key with a TTL leaves
Redis at the tick that ends it, a sorted set without members is no key.  The
history variable `evicted` names the channels that lost a key to memory
pressure, for which no promise is made.

Simplifications: the watchdog may fire at any await, not only when its budget
is spent; a Redis command in flight when a cycle is cancelled counts as made
or as not made; the elevations of a radar are discovered one at a time, when
their turn comes; the one-off migration of an index of the old type, and the
tiles a reader puts back into Redis after a miss (they only prolong a tile's
life), are left out.

### Forecast synchronisation

`ForecastSync` is one loop; the variable `shape`, chosen in `Init`, says which
product it is and how large.  A *run* is a forecast, an init run or a cycle, a
*unit* a period, timestamp or step; both are numbered in the order of their
names, so that "the newest `Keep`" is `Newest`.

| | ECMWF-TP | ECMWF-MSLP | WRF | GFS |
|---|---|---|---|---|
| units come from | tiles | COGs | tiles | COGs |
| downloads | tiles of new periods | GeoJSON of new timestamps, side by side | tiles of new steps, overlays of all | overlays of all |
| indexes | each period, then all listed | those known and those stored, at the end | each step, then its layers before their copy | each step, then the layers that landed |
| an exception ends | the cycle | the cycle | the cycle; in the overlays, the step | the product |

| Code | Model |
|---|---|
| heads of the `_sync_*` methods, `_select_active_inits`, `_active_cycles` | `ListRuns`, `ListUnits`, `ReadKnown`, `NextUnit`, `UnitsDone` |
| `sync_ecmwf_tp_period_to_redis`, `sync_wrf_step_to_redis` | `TilesLand`, `TilesMissing` |
| `sync_ecmwf_mslp_forecast_to_redis` | `GeojsonLands`, `GeojsonMissing`, `AllFetched` |
| index writes | `IndexUnit`, `Seal` |
| `_sync_wrf_overlays`, `_mirror_overlays` | `CheckMarker`, `ListLayers`, `CompareLayers`, `Latch`, `RegisterLayers`, `LayerMirrored`, `LayerMissing`, `LayersDone` |
| `prune_*` | `Prune`, `Pruned` |
| `except` clauses; watchdog, stop, crash | `WalkFails`, `OverlaysFail`; `Cancel` |
| tiles processor, Redis (external) | `Publish`, `Retire`, `Tick` |

The tiles of a unit are one object: partial downloads are `TilesetSync`'s
subject.  Redis time is a remaining life, so `Tick` needs no horizon.
`IndexBounded` speaks of an index that still has one of its runs in S3.  When a
cycle lists no run of a product it does not prune its index (an empty listing
is not trusted), so runs that were all removed from S3 stay in the index until
its TTL ends it; counted against `Keep`, they would exceed it.

### Product readers

`AssetReaders` follows one URL.  A strategy method is written as the sequence
of places it looks (`<<"cache", "s3+cache">>`), a service and a route wrap it,
and the steps of a request walk the sequence; so eighteen routes in two modes
share eight actions, and what distinguishes them stays one line each.  Viewers
have a copy with a freshness and an ETag.  `excused` is a history field: the
object was absent at some moment of the request, or S3 failed in it.

`ListingReaders` does the same for listings, with the fan-out of the services
(`list_runs`, `list_units`, `list_layers`, `available`) in `Listed`, the lock
of the GFS layer map, and the lock and memo of the availability snapshot.
Requests of a `gather` are taken one after another; unknown products and
channels, which are refused before anything is read, are left out.

### Base map reader

| Code | Model |
|---|---|
| route, `get_tile`, single flight | `AskTile`, `get_tile`, `Follow`, `Resolved` |
| `_resolve_tile`, `_try_provider` | `_resolve_tile`, `_try_provider`, `Enter` |
| `_safe_get_miss`, `_safe_redis_get`, `_safe_s3_get` | the same names; `RedisFails`, `S3GetFails` |
| `HttpTileClient.download_tile`, `_fetch_once` | `Dequeue`, `_fetch_once`, `Fetch`, `FetchFails` |
| `asyncio.wait_for` of the request | `Deadline` |
| `_schedule_cache_write`, `_run_throttled` | `tasks`, `Write`, `_run_throttled` |
| `list_providers`, `_check_provider_available`, `_refresh_availability` | `list_providers` … `_refresh_availability`, `OfflineCheck` |
| `close`, restart | `close` |

The provider is *up*, *down* (errors worth a retry) or *captive* (200 with a
text page).  What the model keeps of a tile is whether it is one.

### Weather stations

A snapshot is named by its time; its body is what the constant `Reports` says
the stations reported then.  The registry's text is a version number, which is
also its hash; SMN's versions never return to an earlier one, and a station has
one row per snapshot.  The code's lists of snapshots are sorted and hold a time
once, so they are sets here, and the first `n` of a list are its `Newest`; a
series is a sequence, sorted by `_sorted_points`.  A deployment (settings, the
kind of read, how often each event happens) is chosen in `Init`.

A failed read does what it does in the code, which is seldom an error:
`list_object_keys` turns a failed listing into an empty one, which the reader
keeps like another and the scraper writes to Redis; a meta that could not be
read counts no station; a body that could not be read is left out of the series
it belongs to.  The series path writes back every body it had to read from S3
besides the series itself, each by a background task of its own.  The lifecycle
rule belongs to the bucket: once set it survives the process whose latch said
so, and `Expire` asks for it.

| Code | Model |
|---|---|
| `_ensure_lifecycle_applied` | `_ensure_lifecycle_applied`, `LifecycleFails`, `Expire` |
| `_maybe_bootstrap_registry_hash`, `_refresh_registry_if_changed` | the same names; `PutRegistry`, `PutRegistryMeta`, `RegistryUploadFails`; `RegistryRaises` (an exception that is no `SmnRegistryError` ends the cycle) |
| `_warm_registry_cache` | `_warm_registry_cache` |
| `SmnApiClient` | `_get_token`, `_get_stations`, `_refresh_token`, `TokenEnds` |
| `_upload_snapshot` | `_upload_snapshot` (one upload a step), `UploadFails` |
| warming of Redis | `WarmLatest`, `WarmTilesets`, `_warm_recent_snapshot_bodies`, `_warm_station_series` |
| `list_object_keys`, `_read_station_count` | the same names, with what fails as `unread` in `MetasUnread` |
| `get_latest`, `get_stations`, `list_tilesets`, snapshot, series | `Ask`, `_cache_get`, `_cached_list`, `ListS3`, `list_tilesets`, `_station_series_points`, `_get_cached_object` |
| `_cache_set_bg`, `_cache_set` | `tasks`, `_cache_set` |

## 3. Runs

| Run | Instance | Shows |
|---|---|---|
| `storage_circuit` | window 3, base 1 s, cap 3 s, 3 trips, 3 writers, 16 s | types, `BackoffState`, `BackoffPaid`, `ExhaustedAfterFullSchedule`, the refinement `ImplementsGate`, and `ProbeEventuallyAdmitted` |
| `scraper_sequential` | 1 provider, zooms of 1 and 4 tiles, window 3, checkpoint every 2, two S3 faults, one provider fault, one restart, one absent tile | `CursorCoverage`, `ChunkDrained`, `StampHonest`, `NeverSkipsAlone`, `ProgressKept` |
| `scraper_parallel` | 3 providers on two hosts, one group per host, one tile each, two S3 faults, one provider fault | `StampHonest` when one group's failure opens the circuit under the other, and `EventuallyStamped`, also for the second provider of a host and after abandoned and tripped sweeps |
| `scraper_stamp_doc` | 1 provider, zooms of 1 and 3 tiles | a sentence of the documentation the code does not keep (below) |
| `tileset_satellite` | 1 channel, 2 tilesets of 2 tiles, TTL 2, 3 ticks, one failing call, and with it a watchdog timeout, or a restart and an eviction, or a removal from S3 | types, `IndexBacked`, `WindowAfterCycle` |
| `tileset_radar` | 2 elevations, 2 tilesets of 1 tile, TTL 2, 2 ticks, one failing call, one watchdog | `FrontierKept`, `EventuallyIndexed`, `HealthRestored` |
| `forecast_sync` | seven shapes of the four products, up to 2 ids, runs, units; keep 1; one fault, one cancellation, one removed run | `AdvertisedServable`, `IndexBounded`, `NewestRunsKept`, `EventuallyAdvertised` |
| `asset_readers` | 18 routes, both modes, 2 viewers, 2 faults, one removal | `ServableWhileInS3`, `AssetNeverLost`, `AssetArrives` |
| `listing_readers` | every listing of the six products, up to 2 runs, 1 unit, 2 viewers | `ListedWasPublished`, `OneSweepPerTTL`, `ListingArrives` |
| `tile_reader` | 5 modes and the switches, 2 viewers, 2 tiles sharing one slot, up to two outages and one fault | `OneFlight`, `FollowerHasLeader`, `NoPageServed`, `TileArrives` |
| `weather_stations` | 17 deployments, 2 stations, 3 times, 2 registry versions | `LatestBacked`, `CacheBehindStore`, `SeriesOrdered`, `ReadersCatchUp`, `ObservationsArrive`, `RegistryHealed` |
| `weather_series_doc` | one deployment | the second sentence (below) |

The bounds are named in the modules: `MaxInflight` and `Horizon` for the
circuit, `S3Faults`, `ProviderFaults` and `Restarts` for the scraper.  The
horizon leaves room for the whole backoff schedule; a chunk of three in a zoom of
four gives full and partial chunks, completions out of order and a checkpoint
in the middle; two S3 faults open, re-arm and exhaust
the circuit of the instance, one provider fault trips the provider or not,
depending on where it falls, and a restart can interrupt a pass after either.
With three providers the second S3 fault is what makes a probe fail: it moves
the deadline another group waits for, or exhausts the circuit so that the sweep
and the rest of its cycle are abandoned.  Restarts are left to the sequential
run; `StampHonest` is proved for any number of groups with all of them.
`CursorCoverage` follows from `NeverSkipsAlone` in the sequential run; it is
kept for its theorem, which holds in every mode.

For the tileset loops the bounds are `Horizon` and `Budgets`, how often each
kind of event may happen; a behaviour gets one of the budgets. The clock runs
past one TTL, so that entries and tiles of an earlier cycle expire while a
later one works, and a cycle may last longer than a TTL. Two tiles tell a
partial download from a whole one and from none; two tilesets let the index
outlive one of its entries; two elevations, in the radar run, put one behind
another whose failing call ends the walk. Events of the five kinds are
combined as far as their number of states allows; the theorems cover every
combination. The cycle itself is unbounded: the loop starts again for ever.

The five runs of the newer modules choose one instance out of a set in `Init`
and give each instance only the faults its question needs (`Faults`,
`Cancels`, `Retirements`; the records `bounds` of a service or a deployment;
`retire` and `fault` of an endpoint), so one run covers all products and modes
without their product.  Two runs with `Keep` 1 make pruning and capping happen;
two units or layers, a half filled run; a provider needs two outages to go and
come back; two viewers are what single flight, locks and memos are about; two
scrapes in an hour make a bucket have a representative that changes.
The deployments that read a series run without the registry, whose
freshness is another deployment's question.
`MaxWrites` holds back new requests, never a write that is under way.
`IndexBacked` and `CursorCoverage` are checked in one run each; for the other
product and for several providers they are proved, like every other safety
property of the runs (section 4).  `TypeOK` of the
newer modules documents their state and is no property of a run.

Fairness.  For the circuit only time is fair (`Tick`); no writer is obliged to
arrive or to report.  For the scraper `FairSpec` assumes that the event loop
runs a ready coroutine (`Step`), that sleeps and cooldowns end (`Wake`,
`CircuitCooldown`, `ProviderCooldown`) and nothing about crashes, stops or the
scrape interval.  Faults are finite in number: while S3 or a provider stays
down for ever no sweep can complete.  For the tileset loops `FairSpec` assumes
only that the event loop runs the coroutine (`Loop`); nothing is assumed of
the clock, the publisher, the watchdog, evictions or restarts, whose number is
finite.  A watchdog that fires in every cycle before the first download is
done would starve the loop: that its budget is long enough is an assumption.
`ForecastSync` adds that time passes (`Tick`), since a completion marker ends
by its TTL.  For the readers, calls return, background tasks run, time passes
and a client keeps asking; strong fairness of a request's steps (`Looks`,
`Step`) stands for the fair queues of `asyncio.Lock` and `asyncio.Semaphore`,
and strong fairness of asking, where a request is held back while `MaxWrites`
writes are under way, for a client that polls.  Nothing obliges the publisher,
the provider, SMN or the scraper of the base maps; the properties say "if it is
up for good".  All faults are finite in number.

What the two `violation` runs show:

* `README.md` says a sweep that touches a `STORAGE_ERROR` is not stamped.  The
  count of storage errors belongs to one pass; a pass that trips, is abandoned
  or is interrupted hands over only the cursor, so the resumed pass stamps.
  `StampHonest` is what the code does guarantee.
* `routes/weather_stations.py` promises the readings of the last `hours`.  The
  Redis key of a series is that of the station alone, so a request for one hour
  gets the window the scraper (or an earlier request) cached.

Observed while modelling, without a run of their own:

* a `stop()` while a checkpoint's thread runs moves the persisted cursor back
  behind that checkpoint, since the `finally` block writes a watermark that was
  not yet assigned; the tiles in between are downloaded again.  `ProgressKept`
  says that this is the only case, and that no more than the chunk under way is
  lost;
* a listing of the weather snapshots that failed is taken for an empty one: for
  the life of the in-process listing, and of the key in Redis, readers are told
  that there are no tilesets.  `ReadersCatchUp` says that it gives way;
* the watermark passes a tile the open storage circuit skipped, and an
  abandoned sweep resumes after it (`NeverSkipsAlone`: this needs a second
  group), although the comment of `_handle_completion` expects it to be reached;
* another group's write can move the deadline `_await_storage_cooldown` waits
  for;
* a tileset is indexed as soon as one of its tiles was stored, and trimming may
  drop an entry whose tiles still live: `IndexBacked` depends on the latter;
* ECMWF-TP indexes at the end every listed period, also one of which no tile
  was stored; `AdvertisedServable` holds because the reader falls back to S3;
* the `except` clauses of `_safe_redis_get` and `_safe_get_miss` do not name
  redis-py's own errors: a Redis failure answers the request with an error
  instead of going on to the next tier (`RedisFails`);
* the registry's self-heal is in the cache warming, so it needs the Redis cache
  enabled; and when the hash is unknown after a failed or half upload, the
  bundled registry may replace a newer stored one until SMN answers again.
  `RegistryHealed` says what holds: it is SMN's version in the end.

`WindowAfterCycle` is claimed for the satellite loop only: a radar cycle does
not visit an elevation S3 no longer lists, so its old entries stay until the
key expires.  `FrontierKept` is checked for radar only.  In the satellite loop a new entry is
added before the key's TTL is renewed, so the key can expire between the two
commands and take the entry with it; the next cycle downloads it again.

## 4. Proofs

TLAPS proves, for every value of the constants that satisfies the `ASSUME`s,
every safety property that a passing run checks: 28 theorems in eight modules.
Each rests on an inductive invariant, the larger of which were model-checked
before they were proved; the parts below are its named conjuncts.

**Storage circuit** (`TypeCorrect`, `BackoffStateHolds`, `BackoffPaidHolds`,
`ExhaustedAfterFullScheduleHolds`, `ImplementsGateHolds`).  `BackoffPaid` is
inductive with `BackoffState` and the types: each re-arm happens at or after
the old deadline, so the new deadline is at least the old one plus the doubled
cooldown.  `ExhaustedAfterFullSchedule` compares the clock with a sum over the
schedule (`PauseSum`, a recursive function).  The invariant `Waited` says that
since the opening the clock has run through the pauses of all trips so far and
that the deadline lies one pause further; that the two recursive functions have
the values their definitions name, and that the sum grows, is proved by taking a
least counterexample, which needs no induction schema.  The refinement is shown step by step: `record_success`,
`record_failure`, `Tick` and the rest map under `AbstractGate` to a step of
`CircuitGate` or to a stutter.

**Basemap scraper** (`TypeCorrect`, `CursorCoverageHolds`,
`ChunkDrainedHolds`, `NeverSkipsAloneHolds`, `StampHonestHolds`,
`ProgressKeptHolds`), for any set of providers, grouping, zooms, window,
checkpoint period, faults and restarts.  The invariant has five parts:

* `TypeInv`: `TypeOK`, and a sweep at a place inside a zoom has its zoom and
  its tasks inside the box (`InZoom`);
* `Alone`: in sequential mode one provider at most is between `gate` and the
  end of its turn, so nothing opens the circuit between the end of the pause
  and the first step of the chunk's tasks, and no task of the main sweep is
  skipped;
* `Accounted`: what is done at each place: everything below the resume
  position before the chunk loop, everything below the watermark inside it;
  and, while a chunk drains, each of its indices is below the watermark,
  parked above it, still a task or in hand (`Draining`).  *Done* means tried,
  stored or queued (or skipped, when groups run side by side), and a storage
  failure from the resume position on is on the books of the pass (`Cleared`);
* `AllClosing`: the zoom loop only ends over tiles that are all done, and the
  closing writes are only reached without storage failures;
* `AllBehind`: the persisted cursor is nowhere ahead of the position, the
  watermark or the next zoom of the sweep under way; while a checkpoint is
  under way, of what it flushes.  The watermark being inside the chunk by then
  (`Draining`), a stop gives back no more than that (`GivenBack`).

`CursorCoverage` alone is not inductive, since the cursor is written from the
watermark and nothing in it speaks of the watermark; `StampHonest` needs the
whole of `Accounted`, since a stamp comes many steps after the failure it must
not hide.  A step of one provider leaves the others' part unchanged
(`OthersUntouched`), so each action is treated for its own provider only.

**Satellite and radar** (`TypeCorrect` and `IndexBackedHolds` for both
products, `FrontierKeptHolds` for radar, `WindowHolds` for satellite), for any
number of channels, tilesets and tiles, any TTL, and any failures, timeouts,
restarts, evictions and removals.  `IndexBacked` is proved from `TypeOK`,
`Landed` (while the cycle is younger than the TTL, a tile it stored expires no
earlier than a TTL after the cycle began), `SomethingStored` (a tileset about
to be indexed has a stored tile) and `Outlived` (an entry younger than the TTL
has a tile that expires no earlier than a TTL after the entry's score);
channels with evictions are excepted.  The score must be the start of the
cycle: with the time of the `zadd`, `Outlived` would be lost.  `FrontierKept`
rests on `KeyOutlives` (the key of a radar index lives at least a TTL after
each of its scores), `WindowAfterCycle` on `Swept` (the channels a good cycle
has passed hold no entry older than the TTL).

**Forecasts** (`AdvertisedServableHolds`, `IndexBoundedHolds`,
`NewestRunsKeptHolds`), for the four products with any number of ids, runs,
units and layers.  What was uploaded is in S3 until its run is retired, so
*uploaded or retired* never becomes false; Redis (`IndexUploaded`) and the
locals of the walk (`WalkUploaded`) name nothing else.  `WalkCovers` says that
an indexed run that is still among the newest was listed when the walk began,
which is why pruning to the runs listed then takes none of them away;
`WalkBounded` and `DoneBounded` count.  That the newest `Keep` runs are at most
`Keep` is proved from the least of them.

**Product readers** (`ServableWhileInS3Holds`, `AssetNeverLostHolds`,
`ListedWasPublishedHolds`, `OneSweepPerTTLHolds`).  For an asset, a request
under way has no answer yet and is excused if the object is not there now
(`UnderWay`), and a viewer who holds the asset holds its tag, so that a
comparison answers it at once and no request of it is under way
(`HolderAtRest`).  For listings, index and copies
(`StoredBacked`), what a request has read so far (`RequestsBacked`) and what it
answered (`ShownHonest`) name only what was uploaded; a key names its listing,
so a copy is never read as another.  The sweep of the availability snapshot is
exclusive because who sweeps holds the lock (`SweeperHolds`).

**Base map reader** (`OneFlightHolds`, `FollowerHasLeaderHolds`,
`NoPageServedHolds`).  The flights are a function of the requests: a tile has
one leader (`LeadersDiffer`) and a follower's leader leads its tile, kept
together since the end of a flight must release exactly its followers.
`NoPages` says that S3, Redis and the writes under way hold tiles only, which
is what a tier hands on.

**Weather stations** (`LatestBackedHolds`, `CacheBehindStoreHolds`,
`SeriesOrderedHolds`), for any finite feed and any deployment.  `UploadOrdered`
says what the uploads have stored at each stage of a cycle.  Everything in
Redis, in a write-back under way (a request may have several) or in the hands
of a request is backed by S3
or, for a snapshot past its retention, by what was published (`DbBacked`,
`TasksBacked`, `RequestsSound`), and backing once given is never lost
(`Carries`).  `SeriesOrdered` rests on `Sortable`: a finite set of readings has
an ascending enumeration, given by the rank of each reading.

Assumptions on constants.  They are the types of the parameters, and:

* a viewer is not the value `None` that stands for no leader (`TileReader`);
* a product has at least one id, ECMWF one id, and ECMWF-MSLP one layer, as
  its single GeoJSON per timestamp (`ForecastSync`);
* an endpoint is a route the product has (`Served`), and runs and units are
  finite (`ListingReaders`);
* distinct ranks, an interval of zooms with a natural number of tiles each and
  positive windows (`BasemapScraper`); a positive TTL in the synchronisers.

TLC evaluates them in every run.

Only model-checked: liveness (`ProbeEventuallyAdmitted`, `EventuallyStamped`,
`EventuallyIndexed`, `HealthRestored`, `EventuallyAdvertised`, `AssetArrives`,
`ListingArrives`, `TileArrives`, `ReadersCatchUp`, `ObservationsArrive`,
`RegistryHealed`), since `ENABLED` and with it fairness are outside the
prover's reach, and the two properties the code violates.

## 5. Plan

All subsystems that keep state of their own, but for the key store and the
metrics, have a module, and every safety property of the runs has a theorem.
What is left, in order:

1. The full type invariants of the newer modules (their proofs carry the types
   they need) and, from them, facts the runs do not ask for yet: how many
   background writes a reader has under way, and that the availability lock is
   free whenever nobody sweeps.
2. What the liveness properties rest on that is safety: that a waiting
   follower, a cooldown and a held lock always have an actor that can move.
3. A failing state store in `BasemapScraper`, with the exception that then
   escapes a group while the other groups go on.

## 6. Not modelled

Tile geometry and provider tables (`basemap_config.py`): floating-point
arithmetic whose only trace in the control is the number of tiles of a zoom.
The numeric side of sampling a raster, for the same reason.  Metrics and
dashboard: append-only counters nothing else reads.  The key store: checking
API keys is authentication, outside this project.  Response models, parameter
validation and compression: stateless.  Settings and start-up wiring, but for
the modes the models take as constants.  The inter-process lock file of a
synchroniser: the operating system's.  Inside the scraper: the circuit of the
Redis writes, the lifecycle flag, and exceptions of the SQLite store.  Logging.
