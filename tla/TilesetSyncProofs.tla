-------------------------- MODULE TilesetSyncProofs --------------------------
(***************************************************************************)
(* Theorems about TilesetSync, for every number of channels and tilesets,  *)
(* every set of tiles, TTL and bound.                                      *)
(***************************************************************************)
EXTENDS TilesetSync, TLAPS

\* What the cycle has put into Redis and not yet indexed: unless the channel
\* lost a key to eviction, a tile stored in this cycle lives at least until the
\* TTL has passed since the cycle began.
Landed ==
    channel \notin evicted /\ started + TTL > now =>
        \A k \in stored : tile[channel][tileset][k] >= started + TTL

\* The cycle goes on to the index only with something stored, and what was
\* stored belongs to a tileset.
SomethingStored ==
    /\ pc = "index" => stored # {}
    /\ stored # {} => tileset \in Tilesets

\* An entry still inside the window has a tile that outlives it, and no entry
\* is scored in the future.
Outlived ==
    /\ \A c \in Channels, t \in Tilesets : index[c][t] <= now
    /\ \A c \in Channels \ evicted : \A t \in Indexed(c) :
          index[c][t] + TTL > now =>
              \E k \in Tiles : tile[c][t][k] >= index[c][t] + TTL

IInv == TypeOK /\ Landed /\ SomethingStored /\ Outlived

-----------------------------------------------------------------------------

LEMMA InitTyped == Init => TypeOK
<1> SUFFICES ASSUME Init PROVE TypeOK
  OBVIOUS
<1> USE SyncAssumption
<1>1. StoreTyped
  <2>1. NoTiles \in [Tilesets -> [Tiles -> 0..(Horizon + TTL)]]
    BY DEF NoTiles
  <2>2. NoEntries \in [Tilesets -> 0..Horizon \cup {NoScore}]
    BY DEF NoEntries
  <2>3. now \in 0..Horizon /\ running \in {"true", "false"}
    BY DEF Init
  <2>4. QED BY <2>1, <2>2, <2>3 DEF Init, StoreTyped
<1>2. LoopTyped
  BY DEF Init, LoopTyped, Channels, Places, NoTileset
<1>3. CountersTyped
  BY DEF Init, CountersTyped, Kinds
<1>4. QED BY <1>1, <1>2, <1>3 DEF TypeOK

\* The locals of the loop after they are cleared.
LEMMA ClearTyped ==
  ASSUME Clear
  PROVE  /\ listed' \subseteq Tilesets
         /\ existing' \subseteq Tilesets
         /\ tileset' \in Tilesets \cup {NoTileset}
         /\ objects' \subseteq Tiles
         /\ pending' \subseteq objects'
         /\ stored' \subseteq objects' \ pending'
  BY DEF Clear

LEMMA SpendTyped ==
  ASSUME left \in [Kinds -> Nat], NEW kind \in Kinds, Spend(kind)
  PROVE  left' \in [Kinds -> Nat]
  BY DEF Spend

LEMMA FirstStepWorks == FirstStep \in {"list", "discover"}
  BY DEF FirstStep

LEMMA NextChannelTyped ==
  ASSUME channel \in Channels, NextChannel
  PROVE  /\ channel' \in Channels
         /\ pc' \in {"list", "discover", "report"}
         /\ Clear
  BY FirstStepWorks, SyncAssumption DEF NextChannel, Channels

-----------------------------------------------------------------------------
(* Types *)

\* The steps that leave S3, Redis and the clock alone.
Quiet == UNCHANGED <<now, s3, redis>>

LEMMA QuietTyped == StoreTyped /\ Quiet => StoreTyped'
  BY DEF StoreTyped, Quiet, redis

LEMMA QuietSteps ==
  /\ Discover \/ ListTilesets \/ ReadIndex \/ NextTileset \/ Downloaded => Quiet
  /\ WakeFails \/ ChannelFails \/ ReportFails \/ Watchdog \/ Restart => Quiet
  /\ \A k \in Tiles : TileFails(k) => Quiet
  BY DEF Quiet, Discover, ListTilesets, ReadIndex, NextTileset, Downloaded, WakeFails,
     ChannelFails, ReportFails, Watchdog, Restart, TileFails, redis

\* Removing old scores leaves scores.
LEMMA TrimmedTyped ==
  ASSUME StoreTyped, NEW c \in Channels
  PROVE  Trimmed(c) \in [Tilesets -> 0..Horizon \cup {NoScore}]
  BY DEF StoreTyped, Trimmed

LEMMA NoEntriesTyped == NoEntries \in [Tilesets -> 0..Horizon \cup {NoScore}]
  BY DEF NoEntries

LEMMA StoreStep == TypeOK /\ [Next]_vars => StoreTyped'
<1> SUFFICES ASSUME TypeOK, [Next]_vars PROVE StoreTyped'
  OBVIOUS
<1> USE SyncAssumption DEF TypeOK
<1>1. CASE Wake
  BY <1>1 DEF Wake, StoreTyped
<1>2. CASE Discover \/ ListTilesets \/ ReadIndex \/ NextTileset \/ Downloaded
           \/ WakeFails \/ ChannelFails \/ ReportFails \/ Watchdog \/ Restart
  BY <1>2, QuietSteps, QuietTyped
<1>3. ASSUME NEW k \in Tiles, TileStored(k) PROVE StoreTyped'
  <2>1. tileset \in Tilesets /\ channel \in Channels
    BY <1>3 DEF TileStored, LoopTyped
  <2>2. now + TTL \in 0..(Horizon + TTL)
    BY DEF StoreTyped
  <2>3. tile' \in [Channels -> [Tilesets -> [Tiles -> 0..(Horizon + TTL)]]]
    BY <1>3, <2>1, <2>2 DEF TileStored, StoreTyped
  <2>4. QED BY <1>3, <2>3 DEF TileStored, StoreTyped
<1>4. ASSUME NEW k \in Tiles, TileFails(k) PROVE StoreTyped'
  BY <1>4, QuietSteps, QuietTyped
<1>5. CASE AddToIndex
  <2>1. tileset \in Tilesets /\ channel \in Channels
    BY <1>5 DEF AddToIndex, LoopTyped
  <2>2. now + TTL \in 0..(Horizon + TTL) /\ started \in 0..Horizon
    BY DEF StoreTyped, CountersTyped
  <2>3. index' \in [Channels -> [Tilesets -> 0..Horizon \cup {NoScore}]]
    BY <1>5, <2>1, <2>2 DEF AddToIndex, StoreTyped
  <2>4. indexTTL' \in [Channels -> 0..(Horizon + TTL)]
    BY <1>5, <2>1, <2>2 DEF AddToIndex, StoreTyped
  <2>5. QED BY <1>5, <2>3, <2>4 DEF AddToIndex, StoreTyped
<1>6. CASE ExpireIndex
  <2>1. now + TTL \in 0..(Horizon + TTL)
    BY DEF StoreTyped
  <2>2. indexTTL' \in [Channels -> 0..(Horizon + TTL)]
    BY <1>6, <2>1 DEF ExpireIndex, StoreTyped
  <2>3. QED BY <1>6, <2>2 DEF ExpireIndex, StoreTyped
<1>7. CASE TrimIndex
  <2>1. channel \in Channels
    BY DEF LoopTyped
  <2>2. index' \in [Channels -> [Tilesets -> 0..Horizon \cup {NoScore}]]
    BY <1>7, <2>1, TrimmedTyped DEF TrimIndex, StoreTyped
  <2>3. indexTTL' \in [Channels -> 0..(Horizon + TTL)]
    <3>1. 0 \in 0..(Horizon + TTL)
      OBVIOUS
    <3>2. indexTTL' \in {indexTTL, [indexTTL EXCEPT ![channel] = 0]}
      BY <1>7 DEF TrimIndex
    <3>3. QED BY <3>1, <3>2 DEF StoreTyped
  <2>4. QED BY <1>7, <2>2, <2>3 DEF TrimIndex, StoreTyped
<1>8. CASE Report
  BY <1>8 DEF Report, StoreTyped
<1>9. ASSUME NEW c \in Channels, NEW t \in Tilesets, NEW k \in Tiles, Publish(c, t, k)
      PROVE  StoreTyped'
  BY <1>9 DEF Publish, redis, StoreTyped
<1>10. ASSUME NEW c \in Channels, NEW t \in Tilesets, Retire(c, t)
       PROVE  StoreTyped'
  BY <1>10 DEF Retire, redis, StoreTyped
<1>11. CASE Tick
  <2>1. now' \in 0..Horizon
    BY <1>11 DEF Tick, StoreTyped
  <2>2. tile' \in [Channels -> [Tilesets -> [Tiles -> 0..(Horizon + TTL)]]]
    BY <1>11 DEF Tick, StoreTyped
  <2>3. index' \in [Channels -> [Tilesets -> 0..Horizon \cup {NoScore}]]
    BY <1>11, NoEntriesTyped DEF Tick, StoreTyped
  <2>4. indexTTL' \in [Channels -> 0..(Horizon + TTL)]
    BY <1>11 DEF Tick, StoreTyped
  <2>5. QED BY <1>11, <2>1, <2>2, <2>3, <2>4 DEF Tick, StoreTyped
<1>12. ASSUME NEW c \in Channels, NEW t \in Tilesets, NEW k \in Tiles,
              EvictTile(c, t, k)
       PROVE  StoreTyped'
  <2>1. tile' \in [Channels -> [Tilesets -> [Tiles -> 0..(Horizon + TTL)]]]
    BY <1>12 DEF EvictTile, StoreTyped
  <2>2. QED BY <1>12, <2>1 DEF EvictTile, StoreTyped
<1>13. ASSUME NEW c \in Channels, EvictIndex(c) PROVE StoreTyped'
  BY <1>13, NoEntriesTyped DEF EvictIndex, StoreTyped
<1>14. CASE UNCHANGED vars
  BY <1>14 DEF vars, redis, StoreTyped
<1>15. QED
  BY <1>1, <1>2, <1>3, <1>4, <1>5, <1>6, <1>7, <1>8, <1>9, <1>10, <1>11, <1>12, <1>13,
     <1>14 DEF Next, Loop, Environment

LEMMA LoopStep == TypeOK /\ [Next]_vars => LoopTyped'
<1> SUFFICES ASSUME TypeOK, [Next]_vars PROVE LoopTyped'
  OBVIOUS
<1> USE DEF TypeOK
<1>1. ASSUME Idle, pc' \in {"asleep", "list", "discover", "report"} PROVE LoopTyped'
  <2>1. channel' \in Channels
    BY <1>1, SyncAssumption DEF Idle, Channels
  <2>2. QED BY <1>1, <2>1, ClearTyped DEF Idle, LoopTyped, Places
<1>2. ASSUME NextChannel PROVE LoopTyped'
  <2>1. channel' \in Channels /\ pc' \in {"list", "discover", "report"} /\ Clear
    BY <1>2, NextChannelTyped DEF LoopTyped
  <2>2. QED BY <2>1, ClearTyped DEF LoopTyped, Places
<1>3. CASE Wake
  BY <1>3, <1>1, FirstStepWorks DEF Wake
<1>4. CASE Report \/ ReportFails \/ Restart
  BY <1>4, <1>1 DEF Report, ReportFails, Restart, Asleep
<1>5. CASE Watchdog
  BY <1>5, <1>1 DEF Watchdog
<1>6. CASE ChannelFails
  BY <1>6, <1>1, <1>2 DEF ChannelFails
<1>7. CASE TrimIndex
  BY <1>7, <1>2 DEF TrimIndex
<1>8. CASE Discover
  <2>1. CASE Published(channel) # {}
    BY <1>8, <2>1 DEF Discover, locals, LoopTyped, Places
  <2>2. CASE Published(channel) = {}
    BY <1>8, <2>2, <1>2 DEF Discover
  <2>3. QED BY <2>1, <2>2
<1>9. CASE ListTilesets
  BY <1>9 DEF ListTilesets, Published, LoopTyped, Places
<1>10. CASE ReadIndex
  BY <1>10 DEF ReadIndex, Indexed, LoopTyped, Places
<1>11. CASE NextTileset
  <2>1. PICK t \in listed \ existing :
           /\ tileset' = t
           /\ listed' = listed \ {t}
           /\ objects' = s3[channel][t]
           /\ pending' = s3[channel][t]
    BY <1>11 DEF NextTileset
  <2>2. t \in Tilesets /\ s3[channel][t] \subseteq Tiles
    BY <2>1 DEF LoopTyped, StoreTyped
  <2>3. QED BY <1>11, <2>1, <2>2 DEF NextTileset, LoopTyped, Places
<1>12. ASSUME NEW k \in Tiles, TileStored(k) \/ TileFails(k) PROVE LoopTyped'
  BY <1>12 DEF TileStored, TileFails, LoopTyped
<1>13. CASE Downloaded
  BY <1>13 DEF Downloaded, locals, LoopTyped, Places
<1>14. CASE AddToIndex \/ ExpireIndex
  BY <1>14 DEF AddToIndex, ExpireIndex, locals, LoopTyped, Places
<1>15. CASE WakeFails
  BY <1>15 DEF WakeFails, locals, LoopTyped
<1>16. CASE Tick \/ UNCHANGED vars
  BY <1>16 DEF Tick, vars, locals, LoopTyped
<1>17. ASSUME NEW c \in Channels, EvictIndex(c) PROVE LoopTyped'
  BY <1>17 DEF EvictIndex, locals, LoopTyped
<1>18. ASSUME NEW c \in Channels, NEW t \in Tilesets, Retire(c, t) PROVE LoopTyped'
  BY <1>18 DEF Retire, locals, LoopTyped
<1>19. ASSUME NEW c \in Channels, NEW t \in Tilesets, NEW k \in Tiles,
              Publish(c, t, k) \/ EvictTile(c, t, k)
       PROVE  LoopTyped'
  BY <1>19 DEF Publish, EvictTile, locals, LoopTyped
<1>20. QED
  BY <1>3, <1>4, <1>5, <1>6, <1>7, <1>8, <1>9, <1>10, <1>11, <1>12, <1>13, <1>14, <1>15,
     <1>16, <1>17, <1>18, <1>19 DEF Next, Loop, Environment

LEMMA CountersStep == TypeOK /\ [Next]_vars => CountersTyped'
<1> SUFFICES ASSUME TypeOK, [Next]_vars PROVE CountersTyped'
  OBVIOUS
<1> USE DEF TypeOK
<1>1. now \in Nat /\ started \in 0..now /\ left \in [Kinds -> Nat]
  BY SyncAssumption DEF StoreTyped, CountersTyped
<1>2. \A kind \in Kinds : Spend(kind) => left' \in [Kinds -> Nat]
  BY <1>1, SpendTyped
<1>3. {"fault", "watchdog", "restart", "evict", "retire"} = Kinds
  BY DEF Kinds
<1>4. CASE Wake
  BY <1>1, <1>4 DEF Wake, counters, CountersTyped
<1>5. CASE WakeFails
  BY <1>1, <1>2, <1>3, <1>5 DEF WakeFails, CountersTyped
<1>6. CASE Discover \/ ListTilesets \/ ReadIndex \/ NextTileset \/ Downloaded
           \/ AddToIndex \/ ExpireIndex \/ TrimIndex
  BY <1>1, <1>6 DEF Discover, ListTilesets, ReadIndex, NextTileset, Downloaded, AddToIndex,
     ExpireIndex, TrimIndex, counters, CountersTyped
<1>7. ASSUME NEW k \in Tiles, TileStored(k) PROVE CountersTyped'
  BY <1>1, <1>7 DEF TileStored, counters, CountersTyped
<1>8. ASSUME NEW k \in Tiles, TileFails(k) PROVE CountersTyped'
  BY <1>1, <1>2, <1>3, <1>8 DEF TileFails, counters, CountersTyped
<1>9. CASE ChannelFails
  BY <1>1, <1>2, <1>3, <1>9 DEF ChannelFails, counters, CountersTyped
<1>10. CASE Watchdog
  BY <1>1, <1>2, <1>3, <1>10 DEF Watchdog, counters, CountersTyped
<1>11. ASSUME NEW extra \in Nat, Count(extra) PROVE failures' \in Nat /\ timeouts' \in Nat
  BY <1>11 DEF Count, CountersTyped
<1>12. CASE Report
  BY <1>1, <1>11, <1>12 DEF Report, Asleep, CountersTyped
<1>13. CASE ReportFails
  BY <1>1, <1>2, <1>3, <1>11, <1>13 DEF ReportFails, Asleep, CountersTyped
<1>14. CASE Restart
  BY <1>1, <1>2, <1>3, <1>14 DEF Restart, Asleep, CountersTyped
<1>15. CASE Tick
  BY <1>1, <1>15 DEF Tick, counters, CountersTyped
<1>16. ASSUME NEW c \in Channels, NEW t \in Tilesets, Retire(c, t) PROVE CountersTyped'
  BY <1>1, <1>2, <1>3, <1>16 DEF Retire, counters, CountersTyped
<1>17. ASSUME NEW c \in Channels, NEW t \in Tilesets, NEW k \in Tiles, Publish(c, t, k)
       PROVE  CountersTyped'
  BY <1>1, <1>17 DEF Publish, counters, CountersTyped
<1>18. ASSUME NEW c \in Channels, NEW t \in Tilesets, NEW k \in Tiles, EvictTile(c, t, k)
       PROVE  CountersTyped'
  BY <1>1, <1>2, <1>3, <1>18 DEF EvictTile, counters, CountersTyped
<1>19. ASSUME NEW c \in Channels, EvictIndex(c) PROVE CountersTyped'
  BY <1>1, <1>2, <1>3, <1>19 DEF EvictIndex, counters, CountersTyped
<1>20. CASE UNCHANGED vars
  BY <1>20 DEF vars, counters, CountersTyped
<1>21. QED
  BY <1>4, <1>5, <1>6, <1>7, <1>8, <1>9, <1>10, <1>12, <1>13, <1>14, <1>15, <1>16, <1>17,
     <1>18, <1>19, <1>20 DEF Next, Loop, Environment

\* S3, Redis, the loop and its counters keep their types, whatever fails.
THEOREM TypeCorrect == Spec => []TypeOK
<1>1. TypeOK /\ [Next]_vars => TypeOK'
  BY StoreStep, LoopStep, CountersStep DEF TypeOK
<1>2. QED BY InitTyped, <1>1, PTL DEF Spec

-----------------------------------------------------------------------------
(* What an index entry promises *)

\* The steps that change neither the clock nor Redis, and forget what was
\* stored.
LEMMA ClearBacked ==
  ASSUME IInv, Quiet, stored' = {}, pc' # "index", UNCHANGED evicted
  PROVE  (Landed /\ SomethingStored /\ Outlived)'
  BY DEF IInv, Quiet, redis, Landed, SomethingStored, Outlived, Indexed

\* The steps that change nothing this invariant speaks of but the place.
LEMMA PlaceBacked ==
  ASSUME IInv, Quiet, pc' # "index",
         UNCHANGED <<started, channel, tileset, stored, evicted>>
  PROVE  (Landed /\ SomethingStored /\ Outlived)'
  BY DEF IInv, Quiet, redis, Landed, SomethingStored, Outlived, Indexed

\* Numbers the arithmetic below needs.
LEMMA Numbers ==
  ASSUME TypeOK
  PROVE  /\ now \in Nat /\ started \in Nat /\ started <= now /\ TTL \in Nat /\ TTL > 0
         /\ \A c \in Channels, t \in Tilesets : index[c][t] \in Int
         /\ \A c \in Channels, t \in Tilesets, k \in Tiles : tile[c][t][k] \in Nat
<1>1. now \in Nat /\ started \in Nat /\ started <= now /\ TTL \in Nat /\ TTL > 0
  BY SyncAssumption DEF TypeOK, StoreTyped, CountersTyped
<1>2. \A c \in Channels, t \in Tilesets : index[c][t] \in 0..Horizon \cup {NoScore}
  BY DEF TypeOK, StoreTyped
<1>3. \A c \in Channels, t \in Tilesets, k \in Tiles : tile[c][t][k] \in 0..(Horizon + TTL)
  BY DEF TypeOK, StoreTyped
<1>4. QED BY <1>1, <1>2, <1>3, SyncAssumption DEF NoScore

LEMMA BackedStep == IInv /\ [Next]_vars => (Landed /\ SomethingStored /\ Outlived)'
<1> SUFFICES ASSUME IInv, [Next]_vars PROVE (Landed /\ SomethingStored /\ Outlived)'
  OBVIOUS
<1>0. TypeOK /\ Landed /\ SomethingStored /\ Outlived
  BY DEF IInv
<1>n. /\ now \in Nat /\ started \in Nat /\ started <= now /\ TTL \in Nat /\ TTL > 0
      /\ \A c \in Channels, t \in Tilesets : index[c][t] \in Int
      /\ \A c \in Channels, t \in Tilesets, k \in Tiles : tile[c][t][k] \in Nat
  BY <1>0, Numbers
<1>l. channel \in Channels /\ stored \subseteq Tiles
      /\ (pc \in {"download", "index", "expire"} => tileset \in Tilesets)
  BY <1>0 DEF TypeOK, LoopTyped
<1>1. CASE Wake
  BY <1>0, <1>1, FirstStepWorks
     DEF Wake, Idle, Clear, Landed, SomethingStored, Outlived, Indexed
<1>2. CASE WakeFails
  BY <1>2, PlaceBacked, QuietSteps DEF WakeFails, locals
<1>3. CASE Discover
  <2>1. Quiet /\ UNCHANGED <<started, evicted>>
    BY <1>3, QuietSteps DEF Discover
  <2>2. CASE Published(channel) # {}
    BY <1>3, <2>1, <2>2, PlaceBacked DEF Discover, locals
  <2>3. CASE Published(channel) = {}
    BY <1>3, <1>l, <2>1, <2>3, ClearBacked, NextChannelTyped DEF Discover, Clear
  <2>4. QED BY <2>2, <2>3
<1>4. CASE ListTilesets
  BY <1>4, PlaceBacked, QuietSteps DEF ListTilesets
<1>5. CASE ReadIndex
  BY <1>5, PlaceBacked, QuietSteps DEF ReadIndex
<1>6. CASE NextTileset
  BY <1>6, ClearBacked, QuietSteps DEF NextTileset
<1>7. ASSUME NEW k \in Tiles, TileStored(k)
      PROVE  (Landed /\ SomethingStored /\ Outlived)'
  <2>1. /\ pc = "download" /\ pc' = pc /\ now' = now /\ started' = started
        /\ channel' = channel /\ tileset' = tileset /\ index' = index
        /\ evicted' = evicted /\ stored' = stored \cup {k}
        /\ tile' = [tile EXCEPT ![channel][tileset][k] = now + TTL]
    BY <1>7 DEF TileStored
  <2>2. tileset \in Tilesets
    BY <1>l, <2>1
  <2>3. \A c \in Channels, t \in Tilesets, j \in Tiles :
           tile'[c][t][j] = IF c = channel /\ t = tileset /\ j = k
                            THEN now + TTL ELSE tile[c][t][j]
    BY <1>0, <2>1, <2>2, <1>l DEF TypeOK, StoreTyped
  <2>4. Landed'
    BY <1>0, <1>n, <1>l, <2>1, <2>2, <2>3 DEF Landed
  <2>5. Outlived'
    <3>1. ASSUME NEW c \in Channels \ evicted, NEW t \in Indexed(c),
                 index[c][t] + TTL > now
          PROVE  \E j \in Tiles : tile'[c][t][j] >= index[c][t] + TTL
      <4>1. t \in Tilesets
        BY DEF Indexed
      <4>2. PICK j \in Tiles : tile[c][t][j] >= index[c][t] + TTL
        BY <1>0, <3>1 DEF Outlived
      <4>3. index[c][t] <= now /\ index[c][t] \in Int
        BY <1>0, <1>n, <4>1 DEF Outlived
      <4>4. tile'[c][t][j] >= index[c][t] + TTL
        BY <1>n, <2>3, <4>1, <4>2, <4>3
      <4>5. QED BY <4>4
    <3>2. QED BY <1>0, <2>1, <3>1 DEF Outlived, Indexed
  <2>6. QED BY <2>1, <2>2, <2>4, <2>5 DEF SomethingStored
<1>8. ASSUME NEW k \in Tiles, TileFails(k)
      PROVE  (Landed /\ SomethingStored /\ Outlived)'
  BY <1>8, PlaceBacked, QuietSteps DEF TileFails
<1>9. CASE Downloaded
  <2>1. Quiet /\ UNCHANGED <<started, channel, tileset, stored, evicted>>
    BY <1>9, QuietSteps DEF Downloaded, locals
  <2>2. pc' = "index" => stored # {}
    BY <1>9 DEF Downloaded
  <2>3. QED BY <1>0, <2>1, <2>2
               DEF Quiet, redis, Landed, SomethingStored, Outlived, Indexed
<1>10. CASE AddToIndex
  <2>1. /\ pc = "index" /\ pc' \in {"expire", "tilesets"} /\ UNCHANGED <<now, tile, started,
           channel, tileset, stored, evicted>>
        /\ index' = [index EXCEPT ![channel][tileset] = started]
    BY <1>10 DEF AddToIndex, locals
  <2>2. tileset \in Tilesets
    BY <1>l, <2>1
  <2>3. \A c \in Channels, t \in Tilesets :
           index'[c][t] = IF c = channel /\ t = tileset THEN started ELSE index[c][t]
    BY <1>0, <1>l, <2>1, <2>2 DEF TypeOK, StoreTyped
  <2>4. PICK j \in stored : TRUE
    BY <1>0, <2>1 DEF SomethingStored
  <2>5. channel \notin evicted /\ started + TTL > now =>
           tile[channel][tileset][j] >= started + TTL
    BY <1>0, <2>4 DEF Landed
  <2>6. \A c \in Channels, t \in Tilesets : index'[c][t] <= now
    BY <1>0, <1>n, <2>3 DEF Outlived
  <2>7. ASSUME NEW c \in Channels \ evicted, NEW t \in Indexed(c)',
               index'[c][t] + TTL > now
        PROVE  \E k \in Tiles : tile[c][t][k] >= index'[c][t] + TTL
    <3>1. t \in Tilesets /\ index'[c][t] # NoScore
      BY DEF Indexed
    <3>2. CASE c = channel /\ t = tileset
      BY <1>l, <2>3, <2>4, <2>5, <2>7, <3>1, <3>2
    <3>3. CASE ~(c = channel /\ t = tileset)
      BY <1>0, <2>3, <2>7, <3>1, <3>3 DEF Outlived, Indexed
    <3>4. QED BY <3>2, <3>3
  <2>8. Landed' /\ SomethingStored'
    BY <1>0, <2>1 DEF Landed, SomethingStored
  <2>9. Outlived'
    BY <2>1, <2>6, <2>7 DEF Outlived
  <2>10. QED BY <2>8, <2>9
<1>11. CASE ExpireIndex
  BY <1>0, <1>11 DEF ExpireIndex, locals, Landed, SomethingStored, Outlived, Indexed
<1>12. CASE TrimIndex
  <2>1. /\ UNCHANGED <<now, tile, started, evicted>>
        /\ index' = [index EXCEPT ![channel] = Trimmed(channel)]
        /\ pc' # "index" /\ stored' = {}
    BY <1>12, <1>l, NextChannelTyped DEF TrimIndex, Clear
  <2>2. \A c \in Channels, t \in Tilesets : index'[c][t] \in {index[c][t], NoScore}
    BY <1>0, <1>l, <2>1 DEF Trimmed, TypeOK, StoreTyped
  <2>3. Outlived'
    BY <1>0, <1>n, <2>1, <2>2 DEF Outlived, Indexed, NoScore
  <2>4. QED BY <2>1, <2>3 DEF Landed, SomethingStored
<1>13. CASE ChannelFails
  <2>1. Quiet /\ UNCHANGED <<started, evicted>> /\ stored' = {} /\ pc' # "index"
    BY <1>13, <1>l, QuietSteps, NextChannelTyped DEF ChannelFails, Idle, Clear
  <2>2. QED BY <2>1, ClearBacked
<1>14. CASE Watchdog
  BY <1>14, QuietSteps, ClearBacked DEF Watchdog, Idle, Clear
<1>15. CASE Report
  BY <1>0, <1>15 DEF Report, Asleep, Idle, Clear, Landed, SomethingStored, Outlived, Indexed
<1>16. CASE ReportFails \/ Restart
  BY <1>16, QuietSteps, ClearBacked DEF ReportFails, Restart, Asleep, Idle, Clear
<1>17. ASSUME NEW c \in Channels, NEW t \in Tilesets, NEW k \in Tiles, Publish(c, t, k)
       PROVE  (Landed /\ SomethingStored /\ Outlived)'
  BY <1>0, <1>17 DEF Publish, redis, locals, Landed, SomethingStored, Outlived, Indexed
<1>18. ASSUME NEW c \in Channels, NEW t \in Tilesets, Retire(c, t)
       PROVE  (Landed /\ SomethingStored /\ Outlived)'
  BY <1>0, <1>18 DEF Retire, redis, locals, Landed, SomethingStored, Outlived, Indexed
<1>19. CASE Tick
  <2>1. /\ now' = now + 1
        /\ UNCHANGED <<pc, started, channel, tileset, stored, evicted>>
    BY <1>19 DEF Tick, locals
  <2>2. \A c \in Channels, t \in Tilesets, k \in Tiles :
           tile'[c][t][k] = IF tile[c][t][k] <= now + 1 THEN 0 ELSE tile[c][t][k]
    BY <1>19 DEF Tick
  <2>3. \A c \in Channels, t \in Tilesets : index'[c][t] \in {index[c][t], NoScore}
    BY <1>19 DEF Tick, NoEntries
  <2>4. Landed'
    <3>1. ASSUME channel \notin evicted, started + TTL > now + 1, NEW k \in stored
          PROVE  tile'[channel][tileset][k] >= started + TTL
      <4>1. tile[channel][tileset][k] >= started + TTL
        BY <1>0, <1>n, <3>1 DEF Landed
      <4>2. tileset \in Tilesets
        BY <1>0, <3>1 DEF SomethingStored
      <4>3. QED BY <1>n, <1>l, <2>2, <3>1, <4>1, <4>2
    <3>2. QED BY <2>1, <3>1 DEF Landed
  <2>5. Outlived'
    <3>1. \A c \in Channels, t \in Tilesets : index'[c][t] <= now + 1
      BY <1>0, <1>n, <2>3 DEF Outlived, NoScore
    <3>2. ASSUME NEW c \in Channels \ evicted, NEW t \in Indexed(c)',
                 index'[c][t] + TTL > now + 1
          PROVE  \E k \in Tiles : tile'[c][t][k] >= index'[c][t] + TTL
      <4>1. t \in Tilesets /\ index'[c][t] # NoScore
        BY DEF Indexed
      <4>2. index'[c][t] = index[c][t] /\ t \in Indexed(c)
        BY <2>3, <4>1 DEF Indexed
      <4>3. PICK k \in Tiles : tile[c][t][k] >= index[c][t] + TTL
        BY <1>0, <1>n, <3>2, <4>1, <4>2 DEF Outlived
      <4>4. QED BY <1>n, <2>2, <3>2, <4>1, <4>2, <4>3
    <3>3. QED BY <2>1, <3>1, <3>2 DEF Outlived
  <2>6. QED BY <1>0, <2>1, <2>4, <2>5 DEF SomethingStored
<1>20. ASSUME NEW c \in Channels, NEW t \in Tilesets, NEW k \in Tiles, EvictTile(c, t, k)
       PROVE  (Landed /\ SomethingStored /\ Outlived)'
  <2>1. /\ UNCHANGED <<now, pc, started, channel, tileset, stored, index>>
        /\ evicted' = evicted \cup {c}
        /\ tile' = [tile EXCEPT ![c][t][k] = 0]
    BY <1>20 DEF EvictTile, locals
  <2>2. \A b \in Channels : b # c => tile'[b] = tile[b]
    BY <1>0, <2>1 DEF TypeOK, StoreTyped
  <2>3. QED BY <1>0, <1>l, <2>1, <2>2 DEF Landed, SomethingStored, Outlived, Indexed
<1>21. ASSUME NEW c \in Channels, EvictIndex(c)
       PROVE  (Landed /\ SomethingStored /\ Outlived)'
  <2>1. /\ UNCHANGED <<now, pc, started, channel, tileset, stored, tile>>
        /\ evicted' = evicted \cup {c}
        /\ index' = [index EXCEPT ![c] = NoEntries]
    BY <1>21 DEF EvictIndex, locals
  <2>2. \A b \in Channels, t \in Tilesets :
           index'[b][t] = IF b = c THEN NoScore ELSE index[b][t]
    BY <1>0, <2>1 DEF TypeOK, StoreTyped, NoEntries
  <2>3. QED BY <1>0, <1>n, <1>l, <2>1, <2>2
               DEF Landed, SomethingStored, Outlived, Indexed, NoScore
<1>22. CASE UNCHANGED vars
  BY <1>0, <1>22 DEF vars, redis, locals, Landed, SomethingStored, Outlived, Indexed
<1>23. QED
  BY <1>1, <1>2, <1>3, <1>4, <1>5, <1>6, <1>7, <1>8, <1>9, <1>10, <1>11, <1>12, <1>13,
     <1>14, <1>15, <1>16, <1>17, <1>18, <1>19, <1>20, <1>21, <1>22
     DEF Next, Loop, Environment

LEMMA InitBacked == Init => IInv
<1> SUFFICES ASSUME Init PROVE IInv
  OBVIOUS
<1>1. TypeOK
  BY InitTyped
<1>2. \A c \in Channels, t \in Tilesets : index[c][t] = NoScore
  BY DEF Init, NoEntries
<1>3. QED BY <1>1, <1>2
             DEF Init, IInv, Landed, SomethingStored, Outlived, Indexed, NoScore

LEMMA BackedInductive == IInv /\ [Next]_vars => IInv'
  BY BackedStep, StoreStep, LoopStep, CountersStep DEF IInv, TypeOK

\* A tile that outlives its entry is live while the entry is in the window.
LEMMA BackedImplies == IInv => IndexBacked
<1> SUFFICES ASSUME IInv,
                    NEW c \in Channels \ evicted, NEW t \in Indexed(c),
                    index[c][t] + TTL > now
             PROVE  Live(c, t) # {}
  BY DEF IndexBacked
<1>1. t \in Tilesets
  BY DEF Indexed
<1>2. PICK k \in Tiles : tile[c][t][k] >= index[c][t] + TTL
  BY DEF IInv, Outlived
<1>3. tile[c][t][k] > now
  BY <1>1, <1>2, Numbers DEF IInv
<1>4. QED BY <1>3 DEF Live

\* For both products, any instance and any failure: an index entry inside the
\* window has a live tile unless Redis evicted a key of its channel.
THEOREM IndexBackedHolds == Spec => []IndexBacked
  BY InitBacked, BackedInductive, BackedImplies, PTL DEF Spec

-----------------------------------------------------------------------------
(* What may leave the index of a radar *)

\* The key of an index outlives every entry it holds.
KeyOutlives ==
    \A c \in Channels : indexTTL[c] # 0 =>
        \A t \in Indexed(c) : indexTTL[c] >= index[c][t] + TTL

LEMMA KeyStep ==
  ASSUME Product = "radar", IInv, KeyOutlives, [Next]_vars
  PROVE  KeyOutlives'
<1>n. /\ now \in Nat /\ started \in Nat /\ started <= now /\ TTL \in Nat
      /\ \A c \in Channels, t \in Tilesets : index[c][t] \in Int
  BY Numbers DEF IInv
<1>t. /\ \A c \in Channels, t \in Tilesets : index[c][t] <= now
      /\ channel \in Channels
      /\ index \in [Channels -> [Tilesets -> 0..Horizon \cup {NoScore}]]
      /\ indexTTL \in [Channels -> 0..(Horizon + TTL)]
  BY DEF IInv, Outlived, TypeOK, LoopTyped, StoreTyped
<1>1. ASSUME UNCHANGED <<index, indexTTL>> PROVE KeyOutlives'
  BY <1>1 DEF KeyOutlives, Indexed
<1>2. CASE AddToIndex
  <2>1. tileset \in Tilesets
    BY <1>2 DEF AddToIndex, IInv, TypeOK, LoopTyped
  <2>2. /\ index' = [index EXCEPT ![channel][tileset] = started]
        /\ indexTTL' = [indexTTL EXCEPT ![channel] = now + TTL]
    BY <1>2 DEF AddToIndex
  <2>3. \A c \in Channels, t \in Tilesets :
           index'[c][t] = IF c = channel /\ t = tileset THEN started ELSE index[c][t]
    BY <1>t, <2>1, <2>2
  <2>4. \A c \in Channels : indexTTL'[c] = IF c = channel THEN now + TTL ELSE indexTTL[c]
    BY <1>t, <2>2
  <2>5. QED BY <1>n, <1>t, <2>3, <2>4 DEF KeyOutlives, Indexed
<1>3. CASE ExpireIndex
  <2>1. /\ UNCHANGED index
        /\ \A c \in Channels : indexTTL'[c] \in {indexTTL[c], now + TTL}
    BY <1>3, <1>t DEF ExpireIndex
  <2>2. QED BY <1>n, <1>t, <2>1 DEF KeyOutlives, Indexed
<1>4. CASE TrimIndex
  <2>1. \A c \in Channels, t \in Tilesets : index'[c][t] \in {index[c][t], NoScore}
    BY <1>4, <1>t DEF TrimIndex, Trimmed
  <2>2. \A c \in Channels : indexTTL'[c] \in {indexTTL[c], 0}
    BY <1>4, <1>t DEF TrimIndex
  <2>3. QED BY <2>1, <2>2 DEF KeyOutlives, Indexed
<1>5. CASE Tick
  <2>1. \A c \in Channels, t \in Tilesets : index'[c][t] \in {index[c][t], NoScore}
    BY <1>5 DEF Tick, NoEntries
  <2>2. \A c \in Channels : indexTTL'[c] \in {indexTTL[c], 0}
    BY <1>5 DEF Tick
  <2>3. QED BY <2>1, <2>2 DEF KeyOutlives, Indexed
<1>6. ASSUME NEW c \in Channels, EvictIndex(c) PROVE KeyOutlives'
  <2>1. \A b \in Channels, t \in Tilesets : index'[b][t] \in {index[b][t], NoScore}
    BY <1>6, <1>t DEF EvictIndex, NoEntries
  <2>2. \A b \in Channels : indexTTL'[b] \in {indexTTL[b], 0}
    BY <1>6, <1>t DEF EvictIndex
  <2>3. QED BY <2>1, <2>2 DEF KeyOutlives, Indexed
<1>7. CASE Wake \/ Report \/ UNCHANGED vars
  BY <1>1, <1>7 DEF Wake, Report, vars, redis
<1>8. CASE Discover \/ ListTilesets \/ ReadIndex \/ NextTileset \/ Downloaded
           \/ WakeFails \/ ChannelFails \/ ReportFails \/ Watchdog \/ Restart
  BY <1>1, <1>8, QuietSteps DEF Quiet, redis
<1>9. ASSUME NEW k \in Tiles, TileStored(k) \/ TileFails(k) PROVE KeyOutlives'
  BY <1>1, <1>9 DEF TileStored, TileFails, redis
<1>10. ASSUME NEW c \in Channels, NEW t \in Tilesets, Retire(c, t) PROVE KeyOutlives'
  BY <1>1, <1>10 DEF Retire, redis
<1>11. ASSUME NEW c \in Channels, NEW t \in Tilesets, NEW k \in Tiles,
              Publish(c, t, k) \/ EvictTile(c, t, k)
       PROVE  KeyOutlives'
  BY <1>1, <1>11 DEF Publish, EvictTile, redis
<1>12. QED
  BY <1>2, <1>3, <1>4, <1>5, <1>6, <1>7, <1>8, <1>9, <1>10, <1>11
     DEF Next, Loop, Environment

\* The body of FrontierKept: what one step may remove from an index.
KeepsFrontier ==
    \A c \in Channels \ evicted' : \A t \in Indexed(c) :
        index'[c][t] = NoScore => index[c][t] + TTL <= now'

LEMMA FrontierStep ==
  ASSUME Product = "radar", IInv, KeyOutlives, [Next]_vars
  PROVE  KeepsFrontier
<1>n. /\ now \in Nat /\ started \in Nat /\ started <= now /\ TTL \in Nat
      /\ \A c \in Channels, t \in Tilesets : index[c][t] \in Int
  BY Numbers DEF IInv
<1>t. /\ channel \in Channels
      /\ index \in [Channels -> [Tilesets -> 0..Horizon \cup {NoScore}]]
      /\ indexTTL \in [Channels -> 0..(Horizon + TTL)]
  BY DEF IInv, TypeOK, LoopTyped, StoreTyped
<1>1. ASSUME UNCHANGED index PROVE KeepsFrontier
  BY <1>1 DEF KeepsFrontier, Indexed
<1>2. CASE AddToIndex
  <2>1. tileset \in Tilesets /\ started # NoScore
    BY <1>2, <1>n DEF AddToIndex, IInv, TypeOK, LoopTyped, NoScore
  <2>2. \A c \in Channels, t \in Tilesets : index'[c][t] \in {index[c][t], started}
    BY <1>2, <1>t, <2>1 DEF AddToIndex
  <2>3. QED BY <2>1, <2>2 DEF KeepsFrontier, Indexed
<1>3. CASE TrimIndex
  <2>1. UNCHANGED now
    BY <1>3 DEF TrimIndex
  <2>2. \A c \in Channels, t \in Tilesets :
           index'[c][t] # index[c][t] => index[c][t] + TTL < started
    BY <1>3, <1>t DEF TrimIndex, Trimmed
  <2>3. QED BY <1>n, <2>1, <2>2 DEF KeepsFrontier, Indexed
<1>4. CASE Tick
  <2>1. now' = now + 1
    BY <1>4 DEF Tick
  <2>2. \A c \in Channels : index'[c] # index[c] =>
           indexTTL[c] # 0 /\ indexTTL[c] <= now + 1
    BY <1>4 DEF Tick
  <2>3. ASSUME NEW c \in Channels, NEW t \in Indexed(c), index'[c][t] = NoScore
        PROVE  index[c][t] + TTL <= now'
    <3>1. t \in Tilesets /\ index[c][t] # NoScore
      BY DEF Indexed
    <3>2. indexTTL[c] # 0 /\ indexTTL[c] <= now + 1
      BY <2>2, <2>3, <3>1
    <3>3. indexTTL[c] >= index[c][t] + TTL /\ indexTTL[c] \in Int
      BY <1>t, <1>n, <3>2, SyncAssumption DEF KeyOutlives
    <3>4. QED BY <1>n, <2>1, <3>1, <3>2, <3>3
  <2>4. QED BY <2>3 DEF KeepsFrontier
<1>5. ASSUME NEW c \in Channels, EvictIndex(c) PROVE KeepsFrontier
  <2>1. evicted' = evicted \cup {c} /\ index' = [index EXCEPT ![c] = NoEntries]
    BY <1>5 DEF EvictIndex
  <2>2. \A b \in Channels \ evicted' : index'[b] = index[b]
    BY <1>t, <2>1
  <2>3. QED BY <2>2 DEF KeepsFrontier, Indexed
<1>6. CASE Wake \/ Report \/ ExpireIndex \/ UNCHANGED vars
  BY <1>1, <1>6 DEF Wake, Report, ExpireIndex, vars, redis
<1>7. CASE Discover \/ ListTilesets \/ ReadIndex \/ NextTileset \/ Downloaded
           \/ WakeFails \/ ChannelFails \/ ReportFails \/ Watchdog \/ Restart
  BY <1>1, <1>7, QuietSteps DEF Quiet, redis
<1>8. ASSUME NEW k \in Tiles, TileStored(k) \/ TileFails(k) PROVE KeepsFrontier
  BY <1>1, <1>8 DEF TileStored, TileFails, redis
<1>9. ASSUME NEW c \in Channels, NEW t \in Tilesets, Retire(c, t) PROVE KeepsFrontier
  BY <1>1, <1>9 DEF Retire, redis
<1>10. ASSUME NEW c \in Channels, NEW t \in Tilesets, NEW k \in Tiles,
              Publish(c, t, k) \/ EvictTile(c, t, k)
       PROVE  KeepsFrontier
  BY <1>1, <1>10 DEF Publish, EvictTile, redis
<1>11. QED
  BY <1>2, <1>3, <1>4, <1>5, <1>6, <1>7, <1>8, <1>9, <1>10 DEF Next, Loop, Environment

\* For any radar instance, an index entry leaves the index only when it is
\* older than the TTL or Redis evicts the key: no cancelled, failed or
\* restarted cycle loses what an earlier one indexed.
THEOREM FrontierKeptHolds == Product = "radar" /\ Spec => FrontierKept
<1> SUFFICES ASSUME Product = "radar" PROVE Spec => FrontierKept
  OBVIOUS
<1>1. Init => IInv /\ KeyOutlives
  BY InitBacked DEF Init, KeyOutlives
<1>2. IInv /\ KeyOutlives /\ [Next]_vars => IInv' /\ KeyOutlives'
  BY BackedInductive, KeyStep
<1>3. IInv /\ KeyOutlives /\ [Next]_vars => [KeepsFrontier]_vars
  BY FrontierStep
<1>4. FrontierKept <=> [][KeepsFrontier]_vars
  BY DEF FrontierKept, KeepsFrontier
<1>5. QED BY <1>1, <1>2, <1>3, <1>4, PTL DEF Spec

-----------------------------------------------------------------------------
(* The window of a satellite index *)

\* No entry of the channel is older than the TTL was when the cycle began.
Fresh(c) == \A t \in Indexed(c) : index[c][t] + TTL >= started

\* While a cycle has met no error, the channels behind it are fresh.
Swept ==
    /\ pc # "discover"
    /\ outcome = "ok" /\ pc \in Working => \A c \in Channels : c < channel => Fresh(c)
    /\ outcome = "ok" /\ pc = "report" => \A c \in Channels : Fresh(c)

LEMMA SweptStep ==
  ASSUME Product = "satellite", TypeOK, Swept, [Next]_vars
  PROVE  Swept'
<1>n. /\ now \in Nat /\ started \in Nat /\ started <= now /\ TTL \in Nat
      /\ \A c \in Channels, t \in Tilesets : index[c][t] \in Int
  BY Numbers
<1>t. /\ channel \in Channels /\ channel \in Nat /\ pc \in Places
      /\ index \in [Channels -> [Tilesets -> 0..Horizon \cup {NoScore}]]
  BY SyncAssumption DEF TypeOK, LoopTyped, StoreTyped, Channels
<1>1. ASSUME UNCHANGED <<started, channel, outcome>>,
             \A c \in Channels, t \in Tilesets : index'[c][t] \in {index[c][t], NoScore},
             \/ UNCHANGED pc
             \/ pc \in Working /\ pc' \in Working /\ pc' # "discover"
      PROVE  Swept'
  <2>1. \A c \in Channels : Fresh(c) => Fresh(c)'
    BY <1>1 DEF Fresh, Indexed
  <2>2. QED BY <1>1, <2>1 DEF Swept, Working
<1>2. ASSUME pc' \in {"asleep", "report"}, pc' = "report" => outcome' # "ok" PROVE Swept'
  BY <1>2 DEF Swept, Working
<1>3. CASE Wake
  <2>1. channel' = 1 /\ pc' = "list"
    BY <1>3 DEF Wake, Idle, FirstStep
  <2>2. \A c \in Channels : ~(c < 1)
    BY SyncAssumption DEF Channels
  <2>3. QED BY <2>1, <2>2 DEF Swept
<1>4. CASE TrimIndex
  <2>1. UNCHANGED <<started, outcome>> /\ NextChannel /\ pc \in Working
    BY <1>4 DEF TrimIndex, Working, Places
  <2>2. \A c \in Channels, t \in Tilesets :
           index'[c][t] = IF c = channel /\ index[c][t] + TTL < started
                          THEN NoScore ELSE index[c][t]
    BY <1>4, <1>t DEF TrimIndex, Trimmed
  <2>3. \A c \in Channels : Fresh(c) \/ c = channel => Fresh(c)'
    BY <1>n, <2>1, <2>2 DEF Fresh, Indexed
  <2>4. outcome = "ok" => \A c \in Channels : c <= channel => Fresh(c)'
    BY <1>t, <2>1, <2>3, SyncAssumption DEF Swept, Channels
  <2>5. CASE channel + 1 \in Channels
    <3>1. channel' = channel + 1 /\ pc' = "list"
      BY <2>1, <2>5 DEF NextChannel, FirstStep
    <3>2. \A c \in Channels : c < channel + 1 => c <= channel
      BY <1>t, SyncAssumption DEF Channels
    <3>3. QED BY <2>1, <2>4, <3>1, <3>2 DEF Swept
  <2>6. CASE channel + 1 \notin Channels
    <3>1. pc' = "report"
      BY <2>1, <2>6 DEF NextChannel
    <3>2. \A c \in Channels : c <= channel
      BY <1>t, <2>6, SyncAssumption DEF Channels
    <3>3. QED BY <2>1, <2>4, <3>1, <3>2 DEF Swept, Working
  <2>7. QED BY <2>5, <2>6
<1>5. CASE AddToIndex
  <2>1. /\ UNCHANGED <<started, channel, outcome>>
        /\ pc \in Working /\ pc' = "expire" /\ tileset \in Tilesets
        /\ index' = [index EXCEPT ![channel][tileset] = started]
    BY <1>5 DEF AddToIndex, locals, Working, Places, TypeOK, LoopTyped
  <2>2. \A c \in Channels, t \in Tilesets : index'[c][t] \in {index[c][t], started}
    BY <1>t, <2>1
  <2>3. \A c \in Channels : Fresh(c) => Fresh(c)'
    BY <1>n, <2>1, <2>2 DEF Fresh, Indexed
  <2>4. QED BY <2>1, <2>3 DEF Swept
<1>6. CASE Discover
  BY <1>6 DEF Discover, Swept
<1>7. CASE ListTilesets \/ ReadIndex \/ NextTileset \/ Downloaded
  BY <1>1, <1>7 DEF ListTilesets, ReadIndex, NextTileset, Downloaded, redis, locals, Working,
     Places
<1>8. CASE ExpireIndex
  BY <1>1, <1>8 DEF ExpireIndex, locals, Working, Places
<1>9. ASSUME NEW k \in Tiles, TileStored(k) \/ TileFails(k) PROVE Swept'
  BY <1>1, <1>9 DEF TileStored, TileFails, redis
<1>10. CASE WakeFails \/ UNCHANGED vars
  BY <1>1, <1>10 DEF WakeFails, vars, redis, locals
<1>11. CASE ChannelFails
  <2>1. outcome' = "error" /\ pc' # "discover"
    BY <1>11 DEF ChannelFails, NextChannel, FirstStep
  <2>2. QED BY <2>1 DEF Swept
<1>12. CASE Watchdog
  BY <1>2, <1>12 DEF Watchdog
<1>13. CASE Report \/ ReportFails \/ Restart
  BY <1>2, <1>13 DEF Report, ReportFails, Restart, Asleep
<1>14. CASE Tick
  <2>1. \A c \in Channels, t \in Tilesets : index'[c][t] \in {index[c][t], NoScore}
    BY <1>14 DEF Tick, NoEntries
  <2>2. QED BY <1>1, <1>14, <2>1 DEF Tick, locals
<1>15. ASSUME NEW c \in Channels, EvictIndex(c) PROVE Swept'
  <2>1. \A b \in Channels, t \in Tilesets : index'[b][t] \in {index[b][t], NoScore}
    BY <1>15, <1>t DEF EvictIndex, NoEntries
  <2>2. QED BY <1>1, <1>15, <2>1 DEF EvictIndex, locals
<1>16. ASSUME NEW c \in Channels, NEW t \in Tilesets, Retire(c, t) PROVE Swept'
  BY <1>1, <1>16 DEF Retire, redis, locals
<1>17. ASSUME NEW c \in Channels, NEW t \in Tilesets, NEW k \in Tiles,
              Publish(c, t, k) \/ EvictTile(c, t, k)
       PROVE  Swept'
  BY <1>1, <1>17 DEF Publish, EvictTile, redis, locals
<1>18. QED
  BY <1>3, <1>4, <1>5, <1>6, <1>7, <1>8, <1>9, <1>10, <1>11, <1>12, <1>13, <1>14, <1>15,
     <1>16, <1>17 DEF Next, Loop, Environment

\* For any satellite instance, a cycle that ends without error leaves no entry
\* in any index older than the TTL was at its start.
THEOREM WindowHolds == Product = "satellite" /\ Spec => []WindowAfterCycle
<1> SUFFICES ASSUME Product = "satellite" PROVE Spec => []WindowAfterCycle
  OBVIOUS
<1>1. Init => Swept
  BY DEF Init, Swept, Working
<1>2. TypeOK /\ Swept /\ [Next]_vars => Swept'
  BY SweptStep
<1>3. Swept => WindowAfterCycle
  BY DEF Swept, WindowAfterCycle, Fresh
<1>4. QED BY <1>1, <1>2, <1>3, TypeCorrect, PTL DEF Spec
=============================================================================
