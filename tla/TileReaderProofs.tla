-------------------------- MODULE TileReaderProofs --------------------------
(***************************************************************************)
(* Proofs about TileReader for every set of deployments, viewers and tiles *)
(* and every bound.                                                        *)
(***************************************************************************)
EXTENDS TileReader, FiniteSetTheorems, TLAPS

-----------------------------------------------------------------------------
(* Flights: who leads, who follows *)

Requests ==
    [at : Leading \cup {"idle", "waiting", "availability", "offline"},
     tile : Tiles, leader : Viewers \cup {None}, tries : Nat,
     probed : {"?", "yes", "no"}, stored : {"?", "yes", "no"}]

RequestsTyped == req \in [Viewers -> Requests]

\* A tile has one leader.
LeadersDiffer ==
    \A v, w \in Viewers :
        req[v].at \in Leading /\ req[w].at \in Leading /\ req[v].tile = req[w].tile => v = w

Flights == RequestsTyped /\ LeadersDiffer /\ FollowerHasLeader

LEMMA IdleTyped == Idle \in Requests
BY TileReaderAssumption DEF Idle, Requests

\* The leaders that differ are one at most (the dictionary of futures in flight
\* has one entry per tile).
LEMMA OneLeader == Flights => OneFlight
<1> SUFFICES ASSUME Flights, NEW t \in Tiles
             PROVE  Cardinality(LeaderOf(t)) <= 1
  BY DEF OneFlight
<1>1. CASE LeaderOf(t) = {}
  BY <1>1, FS_EmptySet
<1>2. CASE LeaderOf(t) # {}
  <2>1. PICK v \in LeaderOf(t) : TRUE
    BY <1>2
  <2>2. LeaderOf(t) = {v}
    BY <2>1 DEF LeaderOf, Flights, LeadersDiffer
  <2>3. QED
    BY <2>2, FS_Singleton
<1>3. QED
  BY <1>1, <1>2

\* A viewer goes on, without waiting for anybody: a leader keeps leading its
\* tile, and nobody else begins to lead a tile that has a leader.
LEMMA GoesOn ==
    ASSUME Flights, NEW v \in Viewers, NEW r \in Requests,
           req' = [req EXCEPT ![v] = r],
           r.at # "waiting",
           req[v].at \in Leading => r.at \in Leading /\ r.tile = req[v].tile,
           r.at \in Leading => req[v].at \in Leading \/ LeaderOf(r.tile) = {}
    PROVE  Flights'
<1>1. RequestsTyped'
  BY DEF Flights, RequestsTyped
<1>2. \A w \in Viewers : req'[w] = IF w = v THEN r ELSE req[w]
  BY DEF Flights, RequestsTyped
<1>3. LeadersDiffer'
  BY <1>2 DEF Flights, LeadersDiffer, LeaderOf
<1>4. FollowerHasLeader'
  BY <1>2 DEF Flights, FollowerHasLeader, LeaderOf
<1>5. QED
  BY <1>1, <1>3, <1>4 DEF Flights

\* A viewer that leads nothing joins a flight.
LEMMA Joins ==
    ASSUME Flights, NEW v \in Viewers, NEW t \in Tiles, Follow(v, t),
           LeaderOf(t) # {}, req[v].at \notin Leading
    PROVE  Flights'
<1> DEFINE l == CHOOSE w \in LeaderOf(t) : TRUE
           r == [Idle EXCEPT !.at = "waiting", !.tile = t, !.leader = l]
<1>1. l \in LeaderOf(t) /\ l \in Viewers
  BY DEF LeaderOf
<1> HIDE DEF l
<1>2. r \in Requests /\ r.at = "waiting" /\ r.tile = t /\ r.leader = l
  BY <1>1, IdleTyped DEF Requests, Idle
<1>3. req' = [req EXCEPT ![v] = r]
  BY DEF Follow, l
<1> HIDE DEF r
<1>4. \A w \in Viewers : req'[w] = IF w = v THEN r ELSE req[w]
  BY <1>3 DEF Flights, RequestsTyped
<1>5. RequestsTyped'
  BY <1>2, <1>3 DEF Flights, RequestsTyped
<1>6. LeadersDiffer'
  BY <1>2, <1>4 DEF Flights, LeadersDiffer, Leading, Resolving
<1>7. l # v /\ l # None
  BY <1>1, TileReaderAssumption DEF LeaderOf
<1>8. FollowerHasLeader'
  BY <1>1, <1>2, <1>4, <1>7 DEF Flights, FollowerHasLeader, LeaderOf
<1>9. QED
  BY <1>5, <1>6, <1>8 DEF Flights

\* The end of a flight leaves no follower behind.
LEMMA FlightEnds ==
    ASSUME Flights, NEW v \in Viewers, NEW answer, Resolved(v, answer)
    PROVE  Flights'
<1> DEFINE told(w) == w = v \/ (req[w].at = "waiting" /\ req[w].leader = v)
<1>1. \A w \in Viewers : req'[w] = IF told(w) THEN Idle ELSE req[w]
  BY DEF Resolved
<1>2. RequestsTyped'
  BY IdleTyped DEF Flights, RequestsTyped, Resolved
<1>3. Idle.at = "idle"
  BY DEF Idle
<1>4. LeadersDiffer'
  BY <1>1, <1>3 DEF Flights, LeadersDiffer, Leading, Resolving
<1>5. FollowerHasLeader'
  <2> SUFFICES ASSUME NEW w \in Viewers, req'[w].at = "waiting"
               PROVE  (req[w].leader # None /\ req[w].leader \in LeaderOf(req[w].tile))'
    BY DEF FollowerHasLeader
  <2>1. req'[w] = req[w] /\ ~told(w)
    BY <1>1, <1>3
  <2>2. req[w].leader # None /\ req[w].leader \in LeaderOf(req[w].tile)
    BY <2>1 DEF Flights, FollowerHasLeader
  <2>3. ~told(req[w].leader)
    BY <2>1, <2>2 DEF LeaderOf, Leading, Resolving
  <2>4. QED
    BY <1>1, <2>1, <2>2, <2>3 DEF LeaderOf
<1>6. QED
  BY <1>2, <1>4, <1>5 DEF Flights

\* A tier that is entered, by who asked for the tile or by who already leads it.
LEMMA Enters ==
    ASSUME Flights, NEW v \in Viewers, NEW t \in Tiles, NEW stage \in Leading \cup {"missed"},
           Enter(v, t, stage),
           req[v].at # "waiting",
           req[v].at \in Leading => t = req[v].tile,
           req[v].at \notin Leading => LeaderOf(t) = {}
    PROVE  Flights'
<1>1. CASE stage = "missed" /\ req[v].at = "idle"
  BY <1>1 DEF Enter, Refused, Flights, RequestsTyped, LeadersDiffer, FollowerHasLeader, LeaderOf
<1>2. CASE stage = "missed" /\ req[v].at # "idle"
  BY <1>2, FlightEnds DEF Enter
<1>3. CASE stage # "missed"
  <2> DEFINE r == [Idle EXCEPT !.at = stage, !.tile = t]
  <2>1. r \in Requests /\ r.at = stage /\ r.tile = t
    BY <1>3, IdleTyped DEF Requests, Idle
  <2>2. req' = [req EXCEPT ![v] = r]
    BY <1>3 DEF Enter
  <2>3. stage \in Leading /\ stage # "waiting"
    BY <1>3 DEF Leading, Resolving
  <2> HIDE DEF r
  <2>4. QED
    BY <2>1, <2>2, <2>3, GoesOn
<1>4. QED
  BY <1>1, <1>2, <1>3

LEMMA TiersTyped ==
    {FromS3, FromRedis, _try_provider, _resolve_tile} \subseteq Leading \cup {"missed"}
BY DEF FromS3, FromRedis, _try_provider, _resolve_tile, Leading, Resolving

\* What nothing of the flights reads may change.
LEMMA FlightsIgnore == Flights /\ UNCHANGED req => Flights'
BY DEF Flights, RequestsTyped, LeadersDiffer, FollowerHasLeader, LeaderOf

LEMMA InitFlights == Init => Flights
BY IdleTyped DEF Init, Idle, Flights, RequestsTyped, LeadersDiffer, FollowerHasLeader,
                 LeaderOf, Leading, Resolving

LEMMA StepFlights ==
    ASSUME Flights, NEW v \in Viewers, Step(v)
    PROVE  Flights'
<1> DEFINE t == req[v].tile
<1>0. req[v] \in Requests /\ t \in Tiles
  BY DEF Flights, RequestsTyped, Requests
<1>1. CASE _safe_get_miss(v)
  BY <1>0, <1>1, FlightEnds, Enters, TiersTyped DEF _safe_get_miss, Leading, Resolving
<1>2. CASE Dequeue(v)
  <2> DEFINE r == [req[v] EXCEPT !.at = "fetch"]
  <2>1. r \in Requests /\ r.at = "fetch" /\ r.tile = t
    BY <1>0 DEF Requests, Leading, Resolving
  <2>2. req' = [req EXCEPT ![v] = r] /\ req[v].at = "queue"
    BY <1>2 DEF Dequeue
  <2> HIDE DEF r
  <2>3. QED
    BY <2>1, <2>2, GoesOn DEF Leading, Resolving
<1>3. CASE Fetch(v)
  BY <1>0, <1>3, FlightEnds, Enters, TiersTyped DEF Fetch, Leading, Resolving
<1>4. CASE FetchFails(v)
  <2>1. CASE req[v].tries + 1 < MaxRetries
    <3> DEFINE r == [req[v] EXCEPT !.tries = @ + 1]
    <3>1. r \in Requests /\ r.at = "fetch" /\ r.tile = t
      BY <1>0, <1>4 DEF Requests, FetchFails
    <3>2. req' = [req EXCEPT ![v] = r] /\ req[v].at = "fetch"
      BY <1>4, <2>1 DEF FetchFails
    <3> HIDE DEF r
    <3>3. QED
      BY <3>1, <3>2, GoesOn DEF Leading, Resolving
  <2>2. CASE ~(req[v].tries + 1 < MaxRetries)
    BY <1>0, <1>4, <2>2, Enters, TiersTyped DEF FetchFails, Leading, Resolving
  <2>3. QED
    BY <2>1, <2>2
<1>5. CASE _safe_redis_get(v)
  BY <1>0, <1>5, FlightEnds, Enters, TiersTyped DEF _safe_redis_get, Leading, Resolving
<1>6. CASE _safe_s3_get(v)
  BY <1>0, <1>6, FlightEnds, Enters DEF _safe_s3_get, Leading, Resolving
<1>7. CASE S3GetFails(v)
  BY <1>0, <1>7, Enters DEF S3GetFails, Leading, Resolving
<1>8. CASE RedisFails(v)
  BY <1>8, FlightEnds DEF RedisFails
<1>9. CASE Deadline(v)
  BY <1>9, FlightEnds DEF Deadline
<1>10. CASE ReadAvailability(v)
  BY <1>10, FlightEnds, Joins, Enters, TileReaderAssumption
     DEF ReadAvailability, Leading, Resolving
<1>11. ASSUME NEW half \in {"probed", "stored"}, NEW flag \in {"yes", "no"},
              Half(v, half, flag), req[v].at = "probe"
       PROVE  Flights'
  <2> DEFINE h == [req[v] EXCEPT ![half] = flag]
             r == [h EXCEPT !.at = IF h.probed # "?" /\ h.stored # "?"
                                   THEN "announce" ELSE "probe"]
  <2>1. h \in Requests /\ h.tile = t
    BY <1>0 DEF Requests
  <2>2. r \in Requests /\ r.at \in {"announce", "probe"} /\ r.tile = t
    BY <2>1 DEF Requests, Leading, Resolving
  <2>3. req' = [req EXCEPT ![v] = r]
    BY <1>11 DEF Half
  <2> HIDE DEF r
  <2>4. QED
    BY <1>11, <2>2, <2>3, GoesOn DEF Leading, Resolving
<1>12. CASE _probe_provider(v)
  <2>1. CASE _fetch_once(ProbeTile) = "retry" /\ req[v].tries + 1 < MaxRetries
    <3> DEFINE r == [req[v] EXCEPT !.tries = @ + 1]
    <3>1. r \in Requests /\ r.at = "probe" /\ r.tile = t
      BY <1>0, <1>12 DEF Requests, _probe_provider
    <3>2. req' = [req EXCEPT ![v] = r] /\ req[v].at = "probe"
      BY <1>12, <2>1 DEF _probe_provider
    <3> HIDE DEF r
    <3>3. QED
      BY <3>1, <3>2, GoesOn DEF Leading, Resolving
  <2>2. CASE ~(_fetch_once(ProbeTile) = "retry" /\ req[v].tries + 1 < MaxRetries)
    BY <1>11, <1>12, <2>2 DEF _probe_provider
  <2>3. QED
    BY <2>1, <2>2
<1>13. CASE _has_any_s3_tile(v)
  BY <1>11, <1>13 DEF _has_any_s3_tile
<1>14. CASE HasAnyFails(v)
  BY <1>11, <1>14, FlightEnds DEF HasAnyFails
<1>15. CASE _refresh_availability(v)
  BY <1>15, FlightEnds DEF _refresh_availability
<1>16. CASE OfflineCheck(v)
  BY <1>16, FlightEnds DEF OfflineCheck
<1>17. QED
  BY <1>1, <1>2, <1>3, <1>4, <1>5, <1>6, <1>7, <1>8, <1>9, <1>10, <1>12, <1>13, <1>14,
     <1>15, <1>16 DEF Step

LEMMA NextFlights == Flights /\ [Next]_vars => Flights'
<1> SUFFICES ASSUME Flights, [Next]_vars
             PROVE  Flights'
  OBVIOUS
<1>1. ASSUME NEW v \in Viewers, NEW t \in Tiles, AskTile(v, t)
      PROVE  Flights'
  <2>1. CASE ~validate_provider
    BY <1>1, <2>1, FlightsIgnore DEF AskTile, Refused
  <2>2. CASE validate_provider /\ LeaderOf(t) # {}
    BY <1>1, <2>2, Joins DEF AskTile, get_tile, Leading, Resolving
  <2>3. CASE validate_provider /\ LeaderOf(t) = {}
    <3>1. req[v].at = "idle" /\ req[v].at \notin Leading /\ Enter(v, t, _resolve_tile)
      BY <1>1, <2>3 DEF AskTile, get_tile, Leading, Resolving
    <3>2. QED
      BY <2>3, <3>1, Enters, TiersTyped
  <2>4. QED
    BY <2>1, <2>2, <2>3
<1>2. ASSUME NEW v \in Viewers, list_providers(v)
      PROVE  Flights'
  <2>1. CASE UNCHANGED req
    BY <2>1, FlightsIgnore
  <2>2. CASE ~UNCHANGED req
    <3> DEFINE r == [Idle EXCEPT !.at = IF service.online THEN "availability" ELSE "offline"]
    <3>1. r \in Requests /\ r.at \in {"availability", "offline"}
      BY IdleTyped DEF Requests, Idle
    <3>2. req' = [req EXCEPT ![v] = r] /\ req[v].at = "idle"
      BY <1>2, <2>2 DEF list_providers, _check_provider_available, Refused
    <3> HIDE DEF r
    <3>3. QED
      BY <3>1, <3>2, GoesOn DEF Leading, Resolving
  <2>3. QED
    BY <2>1, <2>2
<1>3. ASSUME NEW v \in Viewers, Step(v)
      PROVE  Flights'
  BY <1>3, StepFlights
<1>4. CASE close
  BY <1>4, IdleTyped DEF close, Idle, Flights, RequestsTyped, LeadersDiffer, FollowerHasLeader,
                         LeaderOf, Leading, Resolving
<1>5. CASE UNCHANGED req
  BY <1>5, FlightsIgnore
<1>6. QED
  BY <1>1, <1>2, <1>3, <1>4, <1>5
     DEF Next, vars, Write, _run_throttled, _persist_to_s3, _write_through_redis, Outage, Tick,
         CooldownOver

\* However requests, deadlines, errors and restarts interleave, a tile has one
\* relay at a time (get_tile's dictionary of futures).
THEOREM OneFlightHolds == Spec => []OneFlight
<1>1. QED
  BY InitFlights, NextFlights, OneLeader, PTL DEF Spec

\* Nobody waits for a future that nobody will resolve (get_tile's except and
\* finally, ReadAvailability's).
THEOREM FollowerHasLeaderHolds == Spec => []FollowerHasLeader
<1>1. Flights => FollowerHasLeader
  BY DEF Flights
<1>2. QED
  BY <1>1, InitFlights, NextFlights, PTL DEF Spec

-----------------------------------------------------------------------------
(* No page is kept, so none is served *)

ShownTyped == shown \in [Viewers -> [Tiles -> Answers]]

NoPageShown == \A v \in Viewers, t \in Tiles : shown[v][t] # "page"
NoPageInS3 == \A t \in DOMAIN s3 : s3[t] = "tile"
NoPageInRedis == \A t \in Tiles : Has(db, TileKey(t)) => Get(db, TileKey(t)) = "tile"
NoPageUnderWay == \A w \in BagToSet(tasks) : w[3] = "tile"

\* What is shown comes from Redis, from S3 or from the provider, what is kept
\* from writes under way.
NoPages == ShownTyped /\ NoPageShown /\ NoPageInS3 /\ NoPageInRedis /\ NoPageUnderWay

LEMMA BagUnionDomain ==
    ASSUME NEW A, NEW B
    PROVE  /\ BagToSet(A (+) B) = BagToSet(A) \cup BagToSet(B)
           /\ BagToSet(A (-) B) \subseteq BagToSet(A)
BY DEF BagToSet, (+), (-)

LEMMA ScheduleClean ==
    ASSUME NoPageUnderWay, NEW ws, \A w \in ws : w[3] = "tile", _schedule_cache_write(ws)
    PROVE  NoPageUnderWay'
BY BagUnionDomain DEF NoPageUnderWay, _schedule_cache_write, SetToBag, BagToSet

LEMMA ResolvedClean ==
    ASSUME Flights, ShownTyped, NoPageShown, NEW v \in Viewers,
           NEW answer \in Answers \ {"page"}, Resolved(v, answer)
    PROVE  ShownTyped' /\ NoPageShown'
<1> DEFINE t == req[v].tile
<1>1. t \in Tiles
  BY DEF Flights, RequestsTyped, Requests
<1>2. \A w \in Viewers : [shown[w] EXCEPT ![t] = answer] \in [Tiles -> Answers]
  BY <1>1 DEF ShownTyped
<1>3. ShownTyped'
  BY <1>2 DEF ShownTyped, Resolved
<1>4. \A w \in Viewers : \/ shown'[w] = shown[w]
                         \/ shown'[w] = [shown[w] EXCEPT ![t] = answer]
  BY DEF Resolved
<1>5. NoPageShown'
  <2> SUFFICES ASSUME NEW w \in Viewers, NEW u \in Tiles
               PROVE  shown'[w][u] # "page"
    BY DEF NoPageShown
  <2>1. shown[w] \in [Tiles -> Answers] /\ shown[w][u] # "page"
    BY DEF ShownTyped, NoPageShown
  <2>2. [shown[w] EXCEPT ![t] = answer][u] = IF u = t THEN answer ELSE shown[w][u]
    BY <2>1
  <2>3. QED
    BY <1>4, <2>1, <2>2
<1>6. QED
  BY <1>3, <1>5

LEMMA RefusedClean ==
    ASSUME ShownTyped, NoPageShown, NEW v \in Viewers, NEW t \in Tiles,
           NEW answer \in Answers \ {"page"}, Refused(v, t, answer)
    PROVE  ShownTyped' /\ NoPageShown'
<1>1. [shown[v] EXCEPT ![t] = answer] \in [Tiles -> Answers]
  BY DEF ShownTyped
<1>2. shown' = [shown EXCEPT ![v] = [shown[v] EXCEPT ![t] = answer]]
  BY DEF Refused
<1>3. ShownTyped'
  BY <1>1, <1>2 DEF ShownTyped
<1>4. NoPageShown'
  BY <1>2 DEF NoPageShown, ShownTyped
<1>5. QED
  BY <1>3, <1>4

LEMMA EnterClean ==
    ASSUME Flights, NoPages, NEW v \in Viewers, NEW t \in Tiles, NEW stage, Enter(v, t, stage)
    PROVE  ShownTyped' /\ NoPageShown' /\ NoPageUnderWay'
<1>1. "gap" \in Answers \ {"page"}
  BY DEF Answers
<1>2. CASE stage = "missed"
  <2> DEFINE ws == IF negative_cache_enabled THEN {<<"miss", t, "tile">>} ELSE {}
  <2>1. \A w \in ws : w[3] = "tile"
    OBVIOUS
  <2>2. _schedule_cache_write(ws)
    BY <1>2 DEF Enter
  <2> HIDE DEF ws
  <2>3. NoPageUnderWay'
    BY <2>1, <2>2, ScheduleClean DEF NoPages
  <2>4. ShownTyped' /\ NoPageShown'
    BY <1>1, <1>2, ResolvedClean, RefusedClean DEF Enter, NoPages
  <2>5. QED
    BY <2>3, <2>4
<1>3. CASE stage # "missed"
  BY <1>3 DEF Enter, NoPages, ShownTyped, NoPageShown, NoPageUnderWay
<1>4. QED
  BY <1>2, <1>3

\* Storing a tile, or anything under another key, keeps the tiles of Redis tiles.
LEMMA RedisKeysDiffer ==
    \A t, u : TileKey(t) # MissKey(u) /\ TileKey(t) # AvailabilityKey
                /\ (TileKey(t) = TileKey(u) => t = u)
BY DEF TileKey, MissKey, AvailabilityKey

LEMMA RedisClean ==
    ASSUME NoPageInRedis, NEW t, NEW flag
    PROVE  /\ db' = store_basemap_tile(t, "tile") => NoPageInRedis'
           /\ db' = mark_basemap_tile_miss(t) => NoPageInRedis'
           /\ db' = clear_basemap_tile_miss(t) => NoPageInRedis'
           /\ db' = set_basemap_provider_availability(flag) => NoPageInRedis'
           /\ db' = Aged(db) => NoPageInRedis'
<1>1. ASSUME NEW k, NEW val, NEW ttl, db' = SetEx(db, k, val, ttl),
             \A u \in Tiles : k = TileKey(u) => val = "tile"
      PROVE  NoPageInRedis'
  BY <1>1 DEF NoPageInRedis, SetEx, Has, Get
<1>2. ASSUME NEW k, db' = Del(db, k)
      PROVE  NoPageInRedis'
  BY <1>2 DEF NoPageInRedis, Del, Has, Get
<1>3. db' = store_basemap_tile(t, "tile") => NoPageInRedis'
  BY <1>1 DEF store_basemap_tile
<1>4. db' = mark_basemap_tile_miss(t) => NoPageInRedis'
  BY <1>1, RedisKeysDiffer DEF mark_basemap_tile_miss
<1>5. db' = clear_basemap_tile_miss(t) => NoPageInRedis'
  BY <1>2 DEF clear_basemap_tile_miss
<1>6. db' = set_basemap_provider_availability(flag) => NoPageInRedis'
  BY <1>1, RedisKeysDiffer DEF set_basemap_provider_availability
<1>7. db' = Aged(db) => NoPageInRedis'
  BY DEF NoPageInRedis, Aged, Has, Get
<1>8. QED
  BY <1>3, <1>4, <1>5, <1>6, <1>7

\* What nothing of the pages reads may change.
LEMMA PagesIgnore == NoPages /\ UNCHANGED <<shown, s3, db, tasks>> => NoPages'
BY DEF NoPages, ShownTyped, NoPageShown, NoPageInS3, NoPageInRedis, NoPageUnderWay, Has, Get

\* An attempt yields a tile, nothing, or is worth another one (_fetch_once).
LEMMA AttemptClean == \A t : _fetch_once(t) \in {"retry", "tile", None}
BY DEF _fetch_once

LEMMA InitPages == Init => NoPages
<1>1. "nothing" \in Answers
  BY DEF Answers
<1>2. QED
  BY <1>1 DEF Init, NoPages, ShownTyped, NoPageShown, NoPageInS3, NoPageInRedis, NoPageUnderWay,
              NoKeys, Has, EmptyBag, SetToBag, BagToSet

LEMMA StepPages ==
    ASSUME Flights, NoPages, NEW v \in Viewers, Step(v)
    PROVE  NoPages'
<1> DEFINE t == req[v].tile
<1>0. t \in Tiles /\ {"gap", "error", "hit"} \subseteq Answers \ {"page"}
  BY DEF Flights, RequestsTyped, Requests, Answers
<1>a. ASSUME UNCHANGED <<s3, db>>, ShownTyped', NoPageShown', NoPageUnderWay'
      PROVE  NoPages'
  BY <1>a DEF NoPages, NoPageInS3, NoPageInRedis, Has, Get
<1>b. ASSUME UNCHANGED <<s3, db, tasks>>, NEW answer \in {"gap", "error", "hit"},
             Resolved(v, answer)
      PROVE  NoPages'
  <2>1. ShownTyped' /\ NoPageShown'
    BY <1>0, <1>b, ResolvedClean DEF NoPages
  <2>2. QED
    BY <1>a, <1>b, <2>1 DEF NoPages, NoPageUnderWay
<1>c. ASSUME UNCHANGED <<s3, db>>, NEW stage, NEW u \in Tiles, Enter(v, u, stage)
      PROVE  NoPages'
  BY <1>a, <1>c, EnterClean
<1>d. ASSUME UNCHANGED <<s3, db>>, Resolved(v, "hit"), NEW ws, \A w \in ws : w[3] = "tile",
             _schedule_cache_write(ws)
      PROVE  NoPages'
  <2>1. ShownTyped' /\ NoPageShown'
    BY <1>0, <1>d, ResolvedClean DEF NoPages
  <2>2. NoPageUnderWay'
    BY <1>d, ScheduleClean DEF NoPages
  <2>3. QED
    BY <1>a, <1>d, <2>1, <2>2
<1>1. CASE _safe_get_miss(v)
  BY <1>0, <1>1, <1>b, <1>c DEF _safe_get_miss
<1>2. CASE Dequeue(v)
  BY <1>2, PagesIgnore DEF Dequeue
<1>3. CASE Fetch(v)
  <2>1. CASE _fetch_once(t) = None
    BY <1>0, <1>3, <1>c, <2>1 DEF Fetch
  <2>2. CASE _fetch_once(t) # None
    <3> DEFINE answer == _fetch_once(t)
               ws == (IF redis_cache_enabled THEN {<<"redis", t, answer>>} ELSE {})
                       \cup (IF s3_cache_enabled THEN {<<"s3", t, answer>>} ELSE {})
    <3>1. answer = "tile"
      BY <1>3, <2>2, AttemptClean DEF Fetch
    <3>2. Resolved(v, "hit") /\ _schedule_cache_write(ws) /\ UNCHANGED <<s3, db>>
      BY <1>3, <2>2, <3>1 DEF Fetch
    <3>3. \A w \in ws : w[3] = "tile"
      BY <3>1
    <3> HIDE DEF ws
    <3>4. QED
      BY <1>d, <3>2, <3>3
  <2>3. QED
    BY <2>1, <2>2
<1>4. CASE FetchFails(v)
  BY <1>0, <1>4, <1>c, PagesIgnore DEF FetchFails
<1>5. CASE _safe_redis_get(v)
  <2>1. CASE get_basemap_tile(t) = None
    BY <1>0, <1>5, <1>c, <2>1 DEF _safe_redis_get
  <2>2. CASE get_basemap_tile(t) # None
    <3>1. get_basemap_tile(t) = "tile"
      BY <1>0, <2>2 DEF NoPages, NoPageInRedis, get_basemap_tile, Get
    <3>2. QED
      BY <1>5, <1>b, <2>2, <3>1 DEF _safe_redis_get
  <2>3. QED
    BY <2>1, <2>2
<1>6. CASE _safe_s3_get(v)
  <2>1. CASE t \notin DOMAIN s3
    BY <1>0, <1>6, <1>c, <2>1 DEF _safe_s3_get
  <2>2. CASE t \in DOMAIN s3
    <3> DEFINE ws == IF redis_cache_enabled THEN {<<"redis", t, s3[t]>>} ELSE {}
    <3>1. s3[t] = "tile"
      BY <2>2 DEF NoPages, NoPageInS3
    <3>2. Resolved(v, "hit") /\ _schedule_cache_write(ws) /\ UNCHANGED <<s3, db>>
      BY <1>6, <2>2, <3>1 DEF _safe_s3_get
    <3>3. \A w \in ws : w[3] = "tile"
      BY <3>1
    <3> HIDE DEF ws
    <3>4. QED
      BY <1>d, <3>2, <3>3
  <2>3. QED
    BY <2>1, <2>2
<1>7. CASE S3GetFails(v)
  BY <1>0, <1>7, <1>c DEF S3GetFails
<1>8. CASE RedisFails(v)
  BY <1>8, <1>b DEF RedisFails
<1>9. CASE Deadline(v)
  BY <1>9, <1>b DEF Deadline
<1>10. CASE ReadAvailability(v)
  BY <1>10, <1>b, <1>c, PagesIgnore, TileReaderAssumption DEF ReadAvailability, Follow
<1>11. CASE _probe_provider(v)
  BY <1>11, PagesIgnore DEF _probe_provider
<1>12. CASE _has_any_s3_tile(v)
  BY <1>12, PagesIgnore DEF _has_any_s3_tile
<1>13. CASE HasAnyFails(v)
  BY <1>13, <1>b, PagesIgnore DEF HasAnyFails
<1>14. CASE _refresh_availability(v)
  <2>1. ShownTyped' /\ NoPageShown'
    BY <1>0, <1>14, ResolvedClean DEF NoPages, _refresh_availability
  <2>2. NoPageInRedis'
    BY <1>14, RedisClean DEF NoPages, _refresh_availability
  <2>3. QED
    BY <1>14, <2>1, <2>2 DEF NoPages, NoPageInS3, NoPageUnderWay, _refresh_availability
<1>15. CASE OfflineCheck(v)
  BY <1>15, <1>b DEF OfflineCheck
<1>16. QED
  BY <1>1, <1>2, <1>3, <1>4, <1>5, <1>6, <1>7, <1>8, <1>9, <1>10, <1>11, <1>12, <1>13, <1>14,
     <1>15 DEF Step

LEMMA NextPages == Flights /\ NoPages /\ [Next]_vars => NoPages'
<1> SUFFICES ASSUME Flights, NoPages, [Next]_vars
             PROVE  NoPages'
  OBVIOUS
<1>0. {"gap", "unknown"} \subseteq Answers \ {"page"}
  BY DEF Answers
<1>1. ASSUME NEW v \in Viewers, NEW t \in Tiles, AskTile(v, t)
      PROVE  NoPages'
  <2>1. CASE ~validate_provider
    BY <1>0, <1>1, <2>1, RefusedClean
       DEF AskTile, NoPages, NoPageInS3, NoPageInRedis, NoPageUnderWay, Has, Get
  <2>2. CASE validate_provider /\ LeaderOf(t) # {}
    BY <1>1, <2>2, PagesIgnore DEF AskTile, get_tile, Follow
  <2>3. CASE validate_provider /\ LeaderOf(t) = {}
    BY <1>1, <2>3, EnterClean DEF AskTile, get_tile, NoPages, NoPageInS3, NoPageInRedis, Has, Get
  <2>4. QED
    BY <2>1, <2>2, <2>3
<1>2. ASSUME NEW v \in Viewers, list_providers(v)
      PROVE  NoPages'
  <2>1. CASE UNCHANGED shown
    BY <1>2, <2>1, PagesIgnore DEF list_providers
  <2>2. CASE Refused(v, ProbeTile, "gap")
    BY <1>0, <1>2, <2>2, RefusedClean, TileReaderAssumption
       DEF list_providers, NoPages, NoPageInS3, NoPageInRedis, NoPageUnderWay, Has, Get
  <2>3. QED
    BY <1>2, <2>1, <2>2 DEF list_providers, _check_provider_available
<1>3. ASSUME NEW v \in Viewers, Step(v)
      PROVE  NoPages'
  BY <1>3, StepPages
<1>4. ASSUME NEW w \in Writes, Write(w)
      PROVE  NoPages'
  <2>1. w[3] = "tile" /\ w[2] \in Tiles
    BY <1>4 DEF Write, BagIn, NoPages, NoPageUnderWay, Writes
  <2>2. NoPageUnderWay'
    <3>0. w = <<w[1], w[2], w[3]>> /\ w[1] \in {"redis", "s3", "miss"}
      BY <1>4 DEF Writes
    <3>1. Finished(<<w[1], w[2], w[3]>>)
      BY <1>4, <3>0 DEF Write, _write_redis, _write_s3, MarkMiss
    <3>2. tasks' = tasks (-) SetToBag({w})
      BY <3>0, <3>1, Zenon DEF Finished
    <3>3. QED
      BY <3>2, BagUnionDomain DEF NoPages, NoPageUnderWay
  <2>3. NoPageInRedis' /\ NoPageInS3'
    <3>1. CASE w[1] = "redis"
      BY <1>4, <2>1, <3>1, RedisClean DEF Write, _write_redis, NoPages, NoPageInS3
    <3>2. CASE w[1] = "s3"
      BY <1>4, <2>1, <3>2 DEF Write, _write_s3, NoPages, NoPageInS3, NoPageInRedis, Has, Get
    <3>3. CASE w[1] = "miss"
      BY <1>4, <3>3, RedisClean DEF Write, MarkMiss, NoPages, NoPageInS3
    <3>4. QED
      BY <1>4, <3>1, <3>2, <3>3 DEF Writes
  <2>4. QED
    BY <1>4, <2>2, <2>3 DEF Write, NoPages, ShownTyped, NoPageShown
<1>5. ASSUME NEW w \in Writes, _run_throttled(w)
      PROVE  NoPages'
  <2>1. NoPageUnderWay'
    BY <1>5, BagUnionDomain DEF _run_throttled, Finished, NoPages, NoPageUnderWay
  <2>2. QED
    BY <1>5, <2>1
       DEF _run_throttled, NoPages, ShownTyped, NoPageShown, NoPageInS3, NoPageInRedis, Has, Get
<1>6. ASSUME NEW t \in Tiles, _persist_to_s3(t)
      PROVE  NoPages'
  BY <1>6 DEF _persist_to_s3, NoPages, ShownTyped, NoPageShown, NoPageInS3, NoPageInRedis,
              NoPageUnderWay, Has, Get
<1>7. ASSUME NEW t \in Tiles, _write_through_redis(t)
      PROVE  NoPages'
  <2>1. NoPageInRedis'
    BY <1>7, RedisClean DEF _write_through_redis, NoPages
  <2>2. QED
    BY <1>7, <2>1
       DEF _write_through_redis, NoPages, ShownTyped, NoPageShown, NoPageInS3, NoPageUnderWay
<1>8. CASE Outage \/ CooldownOver \/ UNCHANGED vars
  BY <1>8, PagesIgnore DEF Outage, CooldownOver, vars
<1>9. CASE Tick
  <2>1. NoPageInRedis'
    BY <1>9, RedisClean DEF Tick, NoPages
  <2>2. QED
    BY <1>9, <2>1 DEF Tick, NoPages, ShownTyped, NoPageShown, NoPageInS3, NoPageUnderWay
<1>10. CASE close
  BY <1>10 DEF close, NoPages, ShownTyped, NoPageShown, NoPageInS3, NoPageInRedis,
               NoPageUnderWay, Has, Get, EmptyBag, SetToBag, BagToSet
<1>11. QED
  BY <1>1, <1>2, <1>3, <1>4, <1>5, <1>6, <1>7, <1>8, <1>9, <1>10 DEF Next

\* A captive portal or a text page of the provider is never served or stored as
\* a tile, whatever path it could take (_fetch_once, _schedule_cache_write).
THEOREM NoPageServedHolds == Spec => []NoPageServed
<1>1. NoPages => NoPageServed
  BY DEF NoPages, NoPageShown, NoPageInS3, NoPageServed
<1>2. Init => Flights /\ NoPages
  BY InitFlights, InitPages
<1>3. (Flights /\ NoPages) /\ [Next]_vars => (Flights /\ NoPages)'
  BY NextFlights, NextPages
<1>4. QED
  BY <1>1, <1>2, <1>3, PTL DEF Spec
=============================================================================
