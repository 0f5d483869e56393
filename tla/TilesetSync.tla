----------------------------- MODULE TilesetSync -----------------------------
(***************************************************************************)
(* The background loops that copy tilesets from S3 to Redis: the cycle of  *)
(* services/domain_sync_service.py with the bodies of                      *)
(* satellite_sync_service.py and radar_sync_service.py.                    *)
(*                                                                         *)
(* A channel is what has an index of its own: a satellite channel, or one  *)
(* elevation of one variable of one radar.  Channels and tilesets are      *)
(* numbered in the order in which a cycle visits them.  Each await is a    *)
(* step.  Redis is its contents and a clock; a key leaves it when its TTL  *)
(* ends, or earlier when Redis runs out of memory (Evict).                 *)
(***************************************************************************)
EXTENDS Integers

CONSTANTS
    Product,      \* "satellite" or "radar"
    NumChannels,  \* channels of the product
    NumTilesets,  \* tilesets of a channel
    Tiles,        \* the .webp objects of a tileset
    TTL,          \* satellite_tile_ttl, radar_tile_ttl
    Horizon,      \* bound: the last moment of the clock
    Budgets       \* bounds: how often each kind of event may happen, one of them a run

Channels == 1..NumChannels
Tilesets == 1..NumTilesets

\* Failing S3 and Redis calls, cycles cut by the watchdog, crashes and stops, keys
\* evicted by Redis and tilesets removed by the publisher.
Kinds == {"fault", "watchdog", "restart", "evict", "retire"}

ASSUME SyncAssumption ==
    /\ Product \in {"satellite", "radar"}
    /\ NumChannels \in Nat \ {0}
    /\ NumTilesets \in Nat
    /\ TTL \in Nat \ {0}
    /\ Horizon \in Nat
    /\ Budgets \subseteq [Kinds -> Nat]

VARIABLES
    \* S3, Redis and their clock
    now,
    s3,           \* tiles published of each tileset
    tile,         \* when a tile's key expires; 0 if there is no key
    index,        \* score of each tileset in its channel's sorted set
    indexTTL,     \* when the sorted set expires; 0 if it has no TTL
    running,      \* is_running in the status hash
    \* the loop
    pc,           \* the await it is suspended at
    started,      \* now and cutoff of _sync_satellite_prefixes
    channel,      \* the channel it works on
    listed,       \* its tilesets in S3 still to be looked at
    existing,     \* its tilesets in the index when the cycle read it
    tileset,      \* the tileset it downloads
    objects,      \* tile_objects of sync_prefix_to_redis
    pending,      \* downloads under way
    stored,       \* downloads that returned True
    outcome,      \* "ok", "error" or "timeout"
    failures,     \* _consecutive_failures
    timeouts,     \* _consecutive_timeouts
    \* bookkeeping of the model
    left,         \* what remains of the budget
    evicted       \* channels that lost a key to eviction

redis == <<tile, index, indexTTL, running>>
locals == <<channel, listed, existing, tileset, objects, pending, stored>>
counters == <<failures, timeouts>>
vars == <<now, s3, redis, pc, started, locals, outcome, counters, left, evicted>>

NoScore == -1
NoTileset == 0

Places == {"asleep", "discover", "list", "known", "tilesets", "download",
           "index", "expire", "report"}

\* Places inside the coroutine that the watchdog may cancel.
Working == Places \ {"asleep", "report"}

StoreTyped ==
    /\ now \in 0..Horizon
    /\ s3 \in [Channels -> [Tilesets -> SUBSET Tiles]]
    /\ tile \in [Channels -> [Tilesets -> [Tiles -> 0..(Horizon + TTL)]]]
    /\ index \in [Channels -> [Tilesets -> 0..Horizon \cup {NoScore}]]
    /\ indexTTL \in [Channels -> 0..(Horizon + TTL)]
    /\ running \in {"true", "false"}

LoopTyped ==
    /\ pc \in Places
    /\ channel \in Channels
    /\ listed \subseteq Tilesets
    /\ existing \subseteq Tilesets
    /\ tileset \in Tilesets \cup {NoTileset}
    /\ pc \in {"download", "index", "expire"} => tileset \in Tilesets
    /\ objects \subseteq Tiles
    /\ pending \subseteq objects
    /\ stored \subseteq objects \ pending

CountersTyped ==
    /\ started \in 0..now
    /\ outcome \in {"ok", "error", "timeout"}
    /\ failures \in Nat
    /\ timeouts \in Nat
    /\ left \in [Kinds -> Nat]
    /\ evicted \subseteq Channels

TypeOK == StoreTyped /\ LoopTyped /\ CountersTyped

Indexed(c) == {t \in Tilesets : index[c][t] # NoScore}

Published(c) == {t \in Tilesets : s3[c][t] # {}}

Live(c, t) == {k \in Tiles : tile[c][t][k] > now}

NoTiles == [t \in Tilesets |-> [k \in Tiles |-> 0]]
NoEntries == [t \in Tilesets |-> NoScore]

Spend(kind) ==
    /\ left[kind] > 0
    /\ left' = [left EXCEPT ![kind] = @ - 1]

\* The locals that belong to one channel are dead.
Clear ==
    /\ listed' = {}
    /\ existing' = {}
    /\ tileset' = NoTileset
    /\ objects' = {}
    /\ pending' = {}
    /\ stored' = {}

\* The locals of a coroutine that has not begun or has ended.
Idle ==
    /\ channel' = 1
    /\ Clear

Init ==
    /\ now = 0
    /\ s3 = [c \in Channels |-> [t \in Tilesets |-> {}]]
    /\ tile = [c \in Channels |-> NoTiles]
    /\ index = [c \in Channels |-> NoEntries]
    /\ indexTTL = [c \in Channels |-> 0]
    /\ running = "false"
    /\ pc = "asleep"
    /\ started = 0
    /\ channel = 1
    /\ listed = {}
    /\ existing = {}
    /\ tileset = NoTileset
    /\ objects = {}
    /\ pending = {}
    /\ stored = {}
    /\ outcome = "ok"
    /\ failures = 0
    /\ timeouts = 0
    /\ left \in Budgets
    /\ evicted = {}

-----------------------------------------------------------------------------
(* The cycle *)

\* Satellite prefixes are a fixed list; radar elevations are those S3 lists.
FirstStep == IF Product = "satellite" THEN "list" ELSE "discover"

\* _run_single_domain up to the start of the coroutine.
Wake ==
    /\ pc = "asleep"
    /\ running' = "true"
    /\ started' = now
    /\ outcome' = "ok"
    /\ pc' = FirstStep
    /\ Idle
    /\ UNCHANGED <<now, s3, tile, index, indexTTL, counters, left, evicted>>

\* The status update that opens a cycle raises: _on_sync_error.
WakeFails ==
    /\ pc = "asleep"
    /\ Spend("fault")
    /\ failures' = failures + 1
    /\ UNCHANGED <<now, s3, redis, pc, started, locals, outcome, timeouts, evicted>>

\* The loop leaves its channel for the next one, or for the end of the cycle.
NextChannel ==
    /\ Clear
    /\ IF channel + 1 \in Channels
       THEN pc' = FirstStep /\ channel' = channel + 1
       ELSE pc' = "report" /\ channel' = 1

\* Mutant: an elevation that S3 no longer lists ends the walk of the radars.
Discover_ends_walk ==
    /\ pc = "discover"
    /\ IF Published(channel) # {}
       THEN pc' = "known" /\ UNCHANGED locals
       ELSE pc' = "report" /\ Idle
    /\ UNCHANGED <<now, s3, redis, started, outcome, counters, left, evicted>>

\* The nested listings of _sync_radar: an elevation that is no longer in S3 is
\* not visited.
Discover ==
    /\ pc = "discover"
    /\ IF Published(channel) # {}
       THEN pc' = "known" /\ UNCHANGED locals
       ELSE NextChannel
    /\ UNCHANGED <<now, s3, redis, started, outcome, counters, left, evicted>>

\* get_subdirectories of the channel.
ListTilesets ==
    /\ pc = "list"
    /\ listed' = Published(channel)
    /\ pc' = IF Product = "satellite" THEN "known" ELSE "tilesets"
    /\ UNCHANGED <<now, s3, redis, started, channel, existing, tileset, objects,
                   pending, stored, outcome, counters, left, evicted>>

\* get_satellite_tilesets, get_radar_tilesets.
ReadIndex ==
    /\ pc = "known"
    /\ existing' = Indexed(channel)
    /\ pc' = IF Product = "satellite" THEN "tilesets" ELSE "list"
    /\ UNCHANGED <<now, s3, redis, started, channel, listed, tileset, objects,
                   pending, stored, outcome, counters, left, evicted>>

\* Mutant: the results of the previous tileset are counted again.
NextTileset_keeps_results ==
    /\ pc = "tilesets"
    /\ \E t \in listed \ existing :
          /\ \A u \in listed \ existing : t <= u
          /\ tileset' = t
          /\ listed' = listed \ {t}
          /\ objects' = s3[channel][t]
          /\ pending' = s3[channel][t]
    /\ pc' = "download"
    /\ UNCHANGED <<now, s3, redis, started, channel, existing, stored, outcome, counters,
                   left, evicted>>

\* The next tileset that was not in the index, and the listing of its objects.
NextTileset ==
    /\ pc = "tilesets"
    /\ \E t \in listed \ existing :
          /\ \A u \in listed \ existing : t <= u
          /\ tileset' = t
          /\ listed' = listed \ {t}
          /\ objects' = s3[channel][t]
          /\ pending' = s3[channel][t]
    /\ stored' = {}
    /\ pc' = "download"
    /\ UNCHANGED <<now, s3, redis, started, channel, existing, outcome, counters,
                   left, evicted>>

\* _download_tile_to_redis: the tile is stored with its own TTL.
TileStored(k) ==
    /\ pc = "download"
    /\ k \in pending
    /\ pending' = pending \ {k}
    /\ stored' = stored \cup {k}
    /\ tile' = [tile EXCEPT ![channel][tileset][k] = now + TTL]
    /\ UNCHANGED <<now, s3, index, indexTTL, running, pc, started, channel, listed,
                   existing, tileset, objects, outcome, counters, left, evicted>>

\* A tile that cannot be fetched or stored only returns False.
TileFails(k) ==
    /\ pc = "download"
    /\ k \in pending
    /\ Spend("fault")
    /\ pending' = pending \ {k}
    /\ UNCHANGED <<now, s3, redis, pc, started, channel, listed, existing, tileset,
                   objects, stored, outcome, counters, evicted>>

\* Mutant: a tileset is indexed whatever was stored of it.
Downloaded_always_indexes ==
    /\ pc = "download"
    /\ pending = {}
    /\ pc' = "index"
    /\ UNCHANGED <<now, s3, redis, started, locals, outcome, counters, left, evicted>>

\* A tileset of which at least one tile landed is indexed.
Downloaded ==
    /\ pc = "download"
    /\ pending = {}
    /\ pc' = IF stored # {} THEN "index" ELSE "tilesets"
    /\ UNCHANGED <<now, s3, redis, started, locals, outcome, counters, left, evicted>>

\* Mutant: the TTL of the key is set once and not refreshed.
AddToIndex_keeps_ttl ==
    /\ pc = "index"
    /\ index' = [index EXCEPT ![channel][tileset] = started]
    /\ IF Product = "satellite"
       THEN pc' = "expire" /\ UNCHANGED indexTTL
       ELSE /\ pc' = "tilesets"
            /\ indexTTL' = [indexTTL EXCEPT ![channel] = IF @ = 0 THEN now + TTL ELSE @]
    /\ UNCHANGED <<now, s3, tile, running, started, locals, outcome, counters, left,
                   evicted>>

\* zadd with the start of the cycle as score.  add_radar_index sets the TTL of
\* the key in the same transaction, add_satellite_tileset in a second command.
AddToIndex ==
    /\ pc = "index"
    /\ index' = [index EXCEPT ![channel][tileset] = started]
    /\ IF Product = "satellite"
       THEN pc' = "expire" /\ UNCHANGED indexTTL
       ELSE /\ pc' = "tilesets"
            /\ indexTTL' = [indexTTL EXCEPT ![channel] = now + TTL]
    /\ UNCHANGED <<now, s3, tile, running, started, locals, outcome, counters, left,
                   evicted>>

\* EXPIRE does nothing to a key that is gone.
ExpireIndex ==
    /\ pc = "expire"
    /\ indexTTL' = IF Indexed(channel) = {} THEN indexTTL
                   ELSE [indexTTL EXCEPT ![channel] = now + TTL]
    /\ pc' = "tilesets"
    /\ UNCHANGED <<now, s3, tile, index, running, started, locals, outcome, counters,
                   left, evicted>>

\* zremrangebyscore "(cutoff": what is strictly older goes; an empty sorted set
\* is no key.
Trimmed(c) ==
    [t \in Tilesets |-> IF index[c][t] + TTL < started THEN NoScore ELSE index[c][t]]

\* Mutant: the index is trimmed only when something new was downloaded.
TrimIndex_after_download ==
    /\ pc = "tilesets"
    /\ listed \ existing = {}
    /\ IF tileset = NoTileset
       THEN UNCHANGED <<index, indexTTL>>
       ELSE /\ index' = [index EXCEPT ![channel] = Trimmed(channel)]
            /\ indexTTL' = IF Trimmed(channel) = NoEntries
                           THEN [indexTTL EXCEPT ![channel] = 0] ELSE indexTTL
    /\ NextChannel
    /\ UNCHANGED <<now, s3, tile, running, started, outcome, counters, left, evicted>>

TrimIndex ==
    /\ pc = "tilesets"
    /\ listed \ existing = {}
    /\ index' = [index EXCEPT ![channel] = Trimmed(channel)]
    /\ indexTTL' = IF Trimmed(channel) = NoEntries
                   THEN [indexTTL EXCEPT ![channel] = 0] ELSE indexTTL
    /\ NextChannel
    /\ UNCHANGED <<now, s3, tile, running, started, outcome, counters, left, evicted>>

\* A call to S3 or Redis raises.  The satellite loop catches it channel by
\* channel, the radar loop around the whole walk.
ChannelFails ==
    /\ pc \in Working \ {"download"}
    /\ Spend("fault")
    /\ outcome' = "error"
    /\ IF Product = "satellite" THEN NextChannel ELSE pc' = "report" /\ Idle
    /\ UNCHANGED <<now, s3, redis, started, counters, evicted>>

\* The watchdog of _timed_domain cancels the coroutine, its downloads included.
Watchdog ==
    /\ pc \in Working
    /\ Spend("watchdog")
    /\ outcome' = "timeout"
    /\ pc' = "report"
    /\ Idle
    /\ UNCHANGED <<now, s3, redis, started, counters, evicted>>

\* Mutant: a good cycle forgets the failures but not the timeouts.
Count_keeps_timeouts(extra) ==
    /\ timeouts' = IF outcome = "timeout" THEN timeouts + 1 ELSE timeouts
    /\ failures' = extra + CASE outcome = "timeout" -> failures
                             [] outcome = "ok"      -> 0
                             [] outcome = "error"   -> failures + 1

\* The counters of _run_single_domain; extra counts an exception that reaches
\* _on_sync_error.
Count(extra) ==
    /\ timeouts' = CASE outcome = "timeout" -> timeouts + 1
                     [] outcome = "ok"      -> 0
                     [] outcome = "error"   -> timeouts
    /\ failures' = extra + CASE outcome = "timeout" -> failures
                             [] outcome = "ok"      -> 0
                             [] outcome = "error"   -> failures + 1

\* The cycle is over and its locals with it.
Asleep ==
    /\ pc' = "asleep"
    /\ started' = 0
    /\ outcome' = "ok"
    /\ Idle

Report ==
    /\ pc = "report"
    /\ Count(0)
    /\ running' = "false"
    /\ Asleep
    /\ UNCHANGED <<now, s3, tile, index, indexTTL, left, evicted>>

\* The status update that closes a cycle raises: the status stays "running".
ReportFails ==
    /\ pc = "report"
    /\ Spend("fault")
    /\ Count(1)
    /\ Asleep
    /\ UNCHANGED <<now, s3, redis, evicted>>

-----------------------------------------------------------------------------
(* What happens around the loop *)

\* The process dies, or stop() cancels the task: memory is lost, Redis is not.
Restart ==
    /\ Spend("restart")
    /\ failures' = 0
    /\ timeouts' = 0
    /\ Asleep
    /\ UNCHANGED <<now, s3, redis, evicted>>

\* The tiles processor uploads a tile, or removes a whole tileset.
Publish(c, t, k) ==
    /\ k \notin s3[c][t]
    /\ s3' = [s3 EXCEPT ![c][t] = @ \cup {k}]
    /\ UNCHANGED <<now, redis, pc, started, locals, outcome, counters, left, evicted>>

Retire(c, t) ==
    /\ s3[c][t] # {}
    /\ Spend("retire")
    /\ s3' = [s3 EXCEPT ![c][t] = {}]
    /\ UNCHANGED <<now, redis, pc, started, locals, outcome, counters, evicted>>

\* Time passes and Redis drops the keys whose TTL ends.
Tick ==
    /\ now < Horizon
    /\ now' = now + 1
    /\ tile' = [c \in Channels |-> [t \in Tilesets |-> [k \in Tiles |->
                  IF tile[c][t][k] <= now + 1 THEN 0 ELSE tile[c][t][k]]]]
    /\ LET gone == {c \in Channels : indexTTL[c] # 0 /\ indexTTL[c] <= now + 1}
       IN  /\ index' = [c \in Channels |-> IF c \in gone THEN NoEntries ELSE index[c]]
           /\ indexTTL' = [c \in Channels |-> IF c \in gone THEN 0 ELSE indexTTL[c]]
    /\ UNCHANGED <<s3, running, pc, started, locals, outcome, counters, left, evicted>>

\* maxmemory-policy volatile-ttl: a key that has a TTL is dropped.
EvictTile(c, t, k) ==
    /\ tile[c][t][k] # 0
    /\ Spend("evict")
    /\ tile' = [tile EXCEPT ![c][t][k] = 0]
    /\ evicted' = evicted \cup {c}
    /\ UNCHANGED <<now, s3, index, indexTTL, running, pc, started, locals, outcome, counters>>

EvictIndex(c) ==
    /\ indexTTL[c] # 0
    /\ Spend("evict")
    /\ index' = [index EXCEPT ![c] = NoEntries]
    /\ indexTTL' = [indexTTL EXCEPT ![c] = 0]
    /\ evicted' = evicted \cup {c}
    /\ UNCHANGED <<now, s3, tile, running, pc, started, locals, outcome, counters>>

Loop ==
    \/ Wake \/ Discover \/ ListTilesets \/ ReadIndex \/ NextTileset
    \/ \E k \in Tiles : TileStored(k) \/ TileFails(k)
    \/ Downloaded \/ AddToIndex \/ ExpireIndex \/ TrimIndex
    \/ WakeFails \/ ChannelFails \/ Report \/ ReportFails

Environment ==
    \/ Watchdog \/ Restart \/ Tick
    \/ \E c \in Channels : EvictIndex(c)
    \/ \E c \in Channels, t \in Tilesets : Retire(c, t)
    \/ \E c \in Channels, t \in Tilesets, k \in Tiles :
          Publish(c, t, k) \/ EvictTile(c, t, k)

Next == Loop \/ Environment

Spec == Init /\ [][Next]_vars

\* The event loop runs the coroutine and its sleep ends.  Nothing is assumed
\* of the clock, the publisher, the watchdog or restarts.
FairSpec == Spec /\ WF_vars(Loop)

-----------------------------------------------------------------------------
(* Properties *)

\* An index entry younger than the TTL is backed by data: unless Redis evicted
\* a key of the channel, at least one tile of the tileset is live.  This is
\* what "only index a tileset whose tiles actually landed" and the score
\* "insertion time" are for, whatever was cancelled, restarted or half failed.
IndexBacked ==
    \A c \in Channels \ evicted : \A t \in Indexed(c) :
        index[c][t] + TTL > now => Live(c, t) # {}

\* "Trim every cycle so the index stays bounded to the live-tile window": when
\* a cycle without error ends, no entry is older than the TTL was at its start.
\* Of the satellite loop: a radar elevation that S3 no longer lists is not
\* trimmed.
WindowAfterCycle ==
    pc = "report" /\ outcome = "ok" =>
        \A c \in Channels : \A t \in Indexed(c) : index[c][t] + TTL >= started

\* The frontier a cycle leaves behind is not lost: an entry goes only when it
\* is older than the TTL, never because a cycle was cancelled, failed or
\* restarted.
FrontierKept ==
    [][\A c \in Channels \ evicted' : \A t \in Indexed(c) :
          index'[c][t] = NoScore => index[c][t] + TTL <= now']_vars

\* Every published tileset is indexed some day, or removed by its publisher,
\* although cycles fail, time out and start again at the first channel: those
\* behind the channel that failed are reached by a later cycle.
EventuallyIndexed ==
    \A c \in Channels, t \in Tilesets :
        []<>(t \in Indexed(c) \/ s3[c][t] = {})

\* When the faults are over the status heals: both counters return to zero for
\* good, and the status hash does not stay at "running".
HealthRestored ==
    /\ <>[](failures = 0 /\ timeouts = 0)
    /\ []<>(running = "false")
=============================================================================
