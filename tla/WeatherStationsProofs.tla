----------------------- MODULE WeatherStationsProofs -----------------------
(***************************************************************************)
(* Proofs about WeatherStations for every set of deployments, stations and *)
(* viewers, every feed, every retention and every bound.                   *)
(***************************************************************************)
EXTENDS WeatherStations, FiniteSetTheorems, TLAPS

-----------------------------------------------------------------------------
(* The inductive invariant *)

Uploading == {"put_snapshot", "put_meta", "put_latest"}

ScraperFields == {"at", "hash", "bootstrapped", "lifecycle", "text", "time", "bodies"}

ScraperTyped ==
    /\ DOMAIN scraper = ScraperFields
    /\ clock \in Times
    /\ scraper.time \in Times /\ scraper.time <= clock
    /\ scraper.bodies \subseteq Times

\* A snapshot is what its name says, and latest.json is not from the future.
StoreTyped ==
    /\ \A t \in Times : Stored(_snapshot_key(t)) => s3[_snapshot_key(t)] = t
    /\ Stored(_LATEST_KEY) => s3[_LATEST_KEY] \in Times /\ s3[_LATEST_KEY] <= clock

\* Where an upload is, and what it has stored by then.
UploadOrdered ==
    /\ scraper.at \in Uploading /\ Stored(_LATEST_KEY) => s3[_LATEST_KEY] <= scraper.time
    /\ scraper.at \in {"put_meta", "put_latest"} => Published(scraper.time)
    /\ scraper.at = "put_latest" => Stored(_snapshot_meta_key(scraper.time)) \/ Expired(scraper.time)
    /\ scraper.at = "warm_latest" => Stored(_LATEST_KEY) /\ s3[_LATEST_KEY] = scraper.time

StoreInv == ScraperTyped /\ StoreTyped /\ UploadOrdered /\ LatestBacked

\* The points of station s, each once and oldest first.
WellFormed(s, points) ==
    \A i \in DOMAIN points :
        /\ points[i][1] = Reports[s][points[i][2]] /\ points[i][1] # NoDate
        /\ i > 1 => points[i - 1][1] < points[i][1]

\* What may be cached under a key.
Backed(k, val) ==
    /\ k = latest_key => Stored(_LATEST_KEY) /\ val \in Times /\ val <= s3[_LATEST_KEY]
    /\ k = tilesets_key => \A e \in val : e[2] \in Times /\ Published(e[2])
    /\ \A t \in Times : k = snap_body_key(t) => Published(t) /\ val = t
    /\ \A s \in Stations : k = series_key(s) => WellFormed(s, val)

DbBacked == \A k, val : k \in DOMAIN db /\ db[k].val = val => Backed(k, val)
TasksBacked == \A w \in BagToSet(tasks) : Backed(w[1], w[2])

Listable(times) == times \subseteq Times /\ \A t \in times : Published(t)

RequestFields == {"at", "key", "keys", "points"}

BodyKeys == {snap_body_key(t) : t \in Times}

\* A request: what it was given, and which key it asks for.
Sound(r) ==
    /\ DOMAIN r = RequestFields
    /\ r.at = "assemble" => Listable(r.keys)
    /\ WellFormed(Asked, r.points)
    /\ r.key \in {latest_key, registry_key, tilesets_key, series_key(Asked)} \cup BodyKeys
    /\ r.at = "store" => r.key \in {latest_key, registry_key} \cup BodyKeys
    /\ deploy.call = "series" /\ r.at \in {"cache", "store"} => r.key \in {series_key(Asked), registry_key}

RequestsSound ==
    /\ deploy.call \in Calls
    /\ DOMAIN req = Viewers
    /\ \A v \in Viewers : \A r : req[v] = r => Sound(r)
    /\ \A times : listing.keys = times => Listable(times)

ShownOrdered ==
    /\ DOMAIN shown = Viewers
    /\ deploy.call = "series" =>
         \A v \in Viewers : shown[v] # <<>> => WellFormed(Asked, shown[v][1])

IInv == StoreInv /\ DbBacked /\ TasksBacked /\ RequestsSound /\ ShownOrdered

-----------------------------------------------------------------------------
(* Keys *)

LEMMA CacheKeysApart ==
    /\ latest_key # tilesets_key /\ latest_key # registry_key /\ tilesets_key # registry_key
    /\ \A t : /\ snap_body_key(t) \notin {latest_key, tilesets_key, registry_key}
              /\ series_key(t) \notin {latest_key, tilesets_key, registry_key}
              /\ snap_body_key(t)[2] = t /\ series_key(t)[2] = t
    /\ \A t, s : snap_body_key(t) # series_key(s)
<1>1. latest_key # tilesets_key /\ latest_key # registry_key /\ tilesets_key # registry_key
  BY DEF latest_key, tilesets_key, registry_key
<1>2. ASSUME NEW t
      PROVE  /\ snap_body_key(t) \notin {latest_key, tilesets_key, registry_key}
             /\ series_key(t) \notin {latest_key, tilesets_key, registry_key}
             /\ snap_body_key(t)[2] = t /\ series_key(t)[2] = t
  BY DEF latest_key, tilesets_key, registry_key, snap_body_key, series_key
<1>3. ASSUME NEW t, NEW s
      PROVE  snap_body_key(t) # series_key(s)
  BY DEF snap_body_key, series_key
<1>4. QED
  BY <1>1, <1>2, <1>3

\* What the bucket holds beside the snapshots, their metas and latest.json.
Others == {_REGISTRY_KEY, _REGISTRY_META_KEY, _LIFECYCLE_RULE_ID}

LEMMA StoreKeysApart ==
    /\ _LATEST_KEY \notin Others
    /\ \A t : /\ _snapshot_key(t) \notin {_LATEST_KEY} \cup Others
              /\ _snapshot_meta_key(t) \notin {_LATEST_KEY} \cup Others
    /\ \A t, u : /\ _snapshot_key(t) # _snapshot_meta_key(u)
                 /\ _snapshot_key(t) = _snapshot_key(u) => t = u
                 /\ _snapshot_meta_key(t) = _snapshot_meta_key(u) => t = u
<1>1. _LATEST_KEY \notin Others
  BY DEF Others, _LATEST_KEY, _REGISTRY_KEY, _REGISTRY_META_KEY, _LIFECYCLE_RULE_ID
<1>2. ASSUME NEW t
      PROVE  /\ _snapshot_key(t) \notin {_LATEST_KEY} \cup Others
             /\ _snapshot_meta_key(t) \notin {_LATEST_KEY} \cup Others
  BY DEF Others, _LATEST_KEY, _REGISTRY_KEY, _REGISTRY_META_KEY, _LIFECYCLE_RULE_ID,
         _snapshot_key, _snapshot_meta_key
<1>3. ASSUME NEW t, NEW u
      PROVE  /\ _snapshot_key(t) # _snapshot_meta_key(u)
             /\ _snapshot_key(t) = _snapshot_key(u) => t = u
             /\ _snapshot_meta_key(t) = _snapshot_meta_key(u) => t = u
  BY DEF _snapshot_key, _snapshot_meta_key
<1>4. QED
  BY <1>1, <1>2, <1>3

-----------------------------------------------------------------------------
(* A series is sorted *)

\* Elements with different labels can be put in the order of their labels: an
\* element's place is the number of elements whose label is not greater.
LEMMA Sortable ==
    ASSUME NEW D, IsFiniteSet(D), NEW f \in [D -> Nat],
           \A x, y \in D : f[x] = f[y] => x = y
    PROVE  \E q \in [1..Cardinality(D) -> D] :
              \A i, j \in 1..Cardinality(D) : i < j => f[q[i]] < f[q[j]]
<1> DEFINE n == Cardinality(D)
           Upto(x) == {y \in D : f[y] <= f[x]}
           rank == [x \in D |-> Cardinality(Upto(x))]
<1>1. n \in Nat
  BY FS_CardinalityType
<1>2. ASSUME NEW x \in D
      PROVE  /\ IsFiniteSet(Upto(x)) /\ Cardinality(Upto(x)) \in Nat
             /\ Cardinality(Upto(x)) <= n /\ Cardinality(Upto(x)) # 0
  <2>1. Upto(x) \in SUBSET D
    OBVIOUS
  <2>2. IsFiniteSet(Upto(x)) /\ Cardinality(Upto(x)) <= n
    BY <2>1, FS_Subset
  <2>3. x \in Upto(x)
    OBVIOUS
  <2>4. Cardinality(Upto(x)) \in Nat
    BY <2>2, FS_CardinalityType
  <2>5. Cardinality(Upto(x)) # 0
    BY <2>2, <2>3, FS_EmptySet
  <2>6. QED
    BY <2>2, <2>4, <2>5
<1>3. rank \in [D -> 1..n]
  BY <1>1, <1>2
<1>4. ASSUME NEW x \in D, NEW y \in D, f[x] < f[y]
      PROVE  rank[x] < rank[y]
  <2>1. Upto(x) \in SUBSET Upto(y)
    BY <1>4
  <2>2. y \in Upto(y) /\ y \notin Upto(x)
    BY <1>4
  <2>3. Cardinality(Upto(x)) <= Cardinality(Upto(y)) /\ Cardinality(Upto(y)) # Cardinality(Upto(x))
    BY <1>2, <2>1, <2>2, FS_Subset
  <2>4. QED
    BY <1>2, <2>3
<1>5. \A x, y \in D : rank[x] = rank[y] => x = y
  <2> SUFFICES ASSUME NEW x \in D, NEW y \in D, x # y
               PROVE  rank[x] # rank[y]
    OBVIOUS
  <2>1. f[x] \in Nat /\ f[y] \in Nat /\ f[x] # f[y]
    OBVIOUS
  <2>2. rank[x] \in Nat /\ rank[y] \in Nat
    BY <1>2
  <2>3. CASE f[x] < f[y]
    BY <1>4, <2>2, <2>3
  <2>4. CASE f[y] < f[x]
    BY <1>4, <2>2, <2>4
  <2>5. QED
    BY <2>1, <2>3, <2>4
<1> HIDE DEF rank
<1>6. rank \in Injection(D, 1..n)
  BY <1>3, <1>5 DEF Injection, IsInjective
<1>7. IsFiniteSet(1..n) /\ Cardinality(1..n) = n
  BY <1>1, FS_Interval
<1>8. rank \in Surjection(D, 1..n)
  BY <1>6, <1>7, FS_Injection
<1>9. \A i \in 1..n : \E x \in D : rank[x] = i
  BY <1>8 DEF Surjection
<1> DEFINE q == [i \in 1..n |-> CHOOSE x \in D : rank[x] = i]
<1>10. \A i \in 1..n : q[i] \in D /\ rank[q[i]] = i
  BY <1>9
<1>11. q \in [1..n -> D]
  BY <1>10
<1> HIDE DEF q
<1>12. ASSUME NEW i \in 1..n, NEW j \in 1..n, i < j
       PROVE  f[q[i]] < f[q[j]]
  <2>1. q[i] \in D /\ q[j] \in D /\ rank[q[i]] = i /\ rank[q[j]] = j
    BY <1>10
  <2>2. f[q[i]] \in Nat /\ f[q[j]] \in Nat
    BY <2>1
  <2>3. i \in Nat /\ j \in Nat
    BY <1>1
  <2>4. f[q[i]] # f[q[j]]
    BY <1>12, <2>1, <2>3
  <2>5. ~(f[q[j]] < f[q[i]])
    BY <1>4, <1>12, <2>1, <2>3
  <2>6. QED
    BY <2>2, <2>4, <2>5
<1>13. QED
  BY <1>11, <1>12

\* A series, whatever bodies it is read from (extract_station_series).
LEMMA SeriesSorted ==
    ASSUME NEW bodies, bodies \subseteq Times, NEW s \in Stations
    PROVE  WellFormed(s, extract_station_series(bodies, s))
<1> DEFINE First(t) == \A u \in bodies : u > t => Reports[s][u] # Reports[s][t]
           points == {<<Reports[s][t], t>> : t \in {u \in bodies : First(u)}}
           D == {p \in points : parse_observed_at(p[1])}
           n == Cardinality(D)
           Sorted(q) == \A i, j \in DOMAIN q : i < j => q[i] # q[j] /\ q[i][1] <= q[j][1]
           f == [p \in D |-> p[1]]
<1>1. MaxTime \in Nat /\ Reports \in [Stations -> [Times -> Nat \cup {NoDate}]]
  BY WeatherAssumption
<1>2. ASSUME NEW p \in D
      PROVE  p[2] \in bodies /\ First(p[2]) /\ p = <<Reports[s][p[2]], p[2]>>
  <2>1. PICK t \in bodies : First(t) /\ p = <<Reports[s][t], t>>
    OBVIOUS
  <2>2. QED
    BY <2>1
<1>3. ASSUME NEW p \in D
      PROVE  p[2] \in Times /\ p[1] = Reports[s][p[2]] /\ p[1] # NoDate /\ p[1] \in Nat
  <2>1. p[2] \in Times /\ p[1] = Reports[s][p[2]]
    BY <1>2
  <2>2. p[1] # NoDate
    BY DEF parse_observed_at
  <2>3. QED
    BY <1>1, <2>1, <2>2
<1>4. IsFiniteSet(D)
  <2> DEFINE g == [p \in D |-> p[2]]
  <2>1. g \in [D -> Times]
    BY <1>3
  <2>2. \A p, r \in D : g[p] = g[r] => p = r
    BY <1>2
  <2> HIDE DEF g, D
  <2>3. g \in Injection(D, Times)
    BY <2>1, <2>2 DEF Injection, IsInjective
  <2>4. IsFiniteSet(Times)
    BY <1>1, FS_Interval DEF Times
  <2>5. QED
    BY <2>3, <2>4, FS_Injection
<1>5. f \in [D -> Nat]
  BY <1>3
<1>6. ASSUME NEW p \in D, NEW r \in D, p[1] = r[1]
      PROVE  p = r
  <2>1. p[2] \in Nat /\ r[2] \in Nat
    BY <1>1, <1>3 DEF Times
  <2>2. ~(p[2] > r[2]) /\ ~(r[2] > p[2])
    BY <1>2, <1>6
  <2>3. p[2] = r[2]
    BY <2>1, <2>2
  <2>4. QED
    BY <1>2, <2>3
<1>7. \A p, r \in D : f[p] = f[r] => p = r
  BY <1>6
<1>8. n \in Nat
  BY <1>4, FS_CardinalityType
<1>9. extract_station_series(bodies, s) = CHOOSE q \in [1..n -> D] : Sorted(q)
  BY DEF extract_station_series, _sorted_points
<1> HIDE DEF D
<1>10. \E q \in [1..n -> D] : \A i, j \in 1..n : i < j => f[q[i]] < f[q[j]]
  BY <1>4, <1>5, <1>7, Sortable
<1>11. \E q \in [1..n -> D] : Sorted(q)
  <2>1. PICK q \in [1..n -> D] : \A i, j \in 1..n : i < j => f[q[i]] < f[q[j]]
    BY <1>10
  <2>2. \A i \in 1..n : q[i] \in D /\ f[q[i]] = q[i][1] /\ q[i][1] \in Nat
    BY <1>3
  <2>3. ASSUME NEW i \in 1..n, NEW j \in 1..n, i < j
        PROVE  q[i] # q[j] /\ q[i][1] <= q[j][1]
    <3>1. f[q[i]] = q[i][1] /\ f[q[j]] = q[j][1] /\ q[i][1] \in Nat /\ q[j][1] \in Nat
      BY <2>2
    <3>2. f[q[i]] < f[q[j]]
      BY <2>1, <2>3
    <3> HIDE DEF f
    <3>3. QED
      BY <3>1, <3>2
  <2>4. DOMAIN q = 1..n
    OBVIOUS
  <2>5. QED
    BY <2>3, <2>4
<1> DEFINE q == extract_station_series(bodies, s)
<1>12. q \in [1..n -> D] /\ Sorted(q)
  BY <1>9, <1>11
<1> HIDE DEF q
<1>13. ASSUME NEW i \in DOMAIN q
       PROVE  /\ q[i][1] = Reports[s][q[i][2]] /\ q[i][1] # NoDate
              /\ i > 1 => q[i - 1][1] < q[i][1]
  <2>1. i \in 1..n /\ q[i] \in D
    BY <1>12
  <2>2. q[i][1] = Reports[s][q[i][2]] /\ q[i][1] # NoDate /\ q[i][1] \in Nat
    BY <1>3, <2>1
  <2>3. ASSUME i > 1
        PROVE  q[i - 1][1] < q[i][1]
    <3>1. i - 1 \in 1..n /\ i - 1 < i
      BY <1>8, <2>1, <2>3
    <3>2. q[i - 1] \in D /\ q[i - 1] # q[i] /\ q[i - 1][1] <= q[i][1]
      BY <1>12, <2>1, <3>1
    <3>3. q[i - 1][1] \in Nat /\ q[i - 1][1] # q[i][1]
      BY <1>3, <1>6, <2>1, <3>2
    <3>4. QED
      BY <2>2, <3>2, <3>3
  <2>4. QED
    BY <2>2, <2>3
<1>14. QED
  BY <1>13 DEF WellFormed, q

-----------------------------------------------------------------------------
(* The store under the scraper's steps *)

\* What is published stays so, and latest.json does not go back.
Grows ==
    /\ \A t \in Times : Published(t) => Published(t)'
    /\ Stored(_LATEST_KEY) => Stored(_LATEST_KEY)' /\ s3[_LATEST_KEY] <= s3'[_LATEST_KEY]

LEMMA TimesAreNat == Times \subseteq Nat /\ 0 \in Times /\ Retention \in Nat
BY WeatherAssumption DEF Times

LEMMA Moves ==
    ASSUME ScraperTyped, NEW stage, GoTo(stage)
    PROVE  /\ DOMAIN scraper' = ScraperFields /\ scraper'.at = stage
           /\ scraper'.time = scraper.time /\ scraper'.bodies = scraper.bodies
BY DEF ScraperTyped, ScraperFields, GoTo

LEMMA NothingGrows ==
    ASSUME StoreInv, UNCHANGED <<s3, clock>>
    PROVE  Grows
<1>1. Stored(_LATEST_KEY) => s3[_LATEST_KEY] \in Nat
  BY TimesAreNat DEF StoreInv, StoreTyped
<1>2. QED
  BY <1>1 DEF Grows, Published, Expired, Stored

\* The bucket and the time stay, and no upload is under way afterwards.
LEMMA Quiet ==
    ASSUME StoreInv, UNCHANGED <<s3, clock>>,
           DOMAIN scraper' = ScraperFields,
           scraper'.at \notin Uploading \cup {"warm_latest"},
           scraper'.time \in Times, scraper'.time <= clock,
           scraper'.bodies \subseteq Times
    PROVE  StoreInv' /\ Grows
<1>1. ScraperTyped'
  BY DEF StoreInv, ScraperTyped
<1>2. StoreTyped' /\ LatestBacked'
  BY DEF StoreInv, StoreTyped, LatestBacked, Stored, Expired
<1>3. UploadOrdered'
  BY DEF UploadOrdered, Uploading
<1>4. QED
  BY <1>1, <1>2, <1>3, NothingGrows DEF StoreInv

LEMMA QuietMove ==
    ASSUME StoreInv, UNCHANGED <<s3, clock>>, NEW stage, GoTo(stage),
           stage \notin Uploading \cup {"warm_latest"}
    PROVE  StoreInv' /\ Grows
<1>1. /\ DOMAIN scraper' = ScraperFields /\ scraper'.at = stage
      /\ scraper'.time = scraper.time /\ scraper'.bodies = scraper.bodies
  BY Moves DEF StoreInv
<1>2. QED
  BY <1>1, Quiet DEF StoreInv, ScraperTyped

LEMMA StoreAlone ==
    ASSUME StoreInv, UNCHANGED <<s3, clock, scraper>>
    PROVE  StoreInv' /\ Grows
<1>1. StoreInv'
  BY DEF StoreInv, ScraperTyped, StoreTyped, UploadOrdered, LatestBacked, Stored, Expired, Published
<1>2. QED
  BY <1>1, NothingGrows

\* An object other than a snapshot, its meta and latest.json.
LEMMA PutsElsewhere ==
    ASSUME StoreInv, NEW k \in Others, NEW x, s3' = Put(k, x),
           UNCHANGED clock, DOMAIN scraper' = ScraperFields,
           scraper'.at \notin Uploading \cup {"warm_latest"},
           scraper'.time = scraper.time, scraper'.bodies = scraper.bodies
    PROVE  StoreInv' /\ Grows
<1>1. \A j : j # k => (Stored(j)' <=> Stored(j)) /\ (Stored(j) => s3'[j] = s3[j])
  BY DEF Put, Stored
<1>2. _LATEST_KEY # k /\ \A t : _snapshot_key(t) # k /\ _snapshot_meta_key(t) # k
  BY StoreKeysApart
<1>3. /\ Stored(_LATEST_KEY)' <=> Stored(_LATEST_KEY)
      /\ Stored(_LATEST_KEY) => s3'[_LATEST_KEY] = s3[_LATEST_KEY]
      /\ \A t : /\ Stored(_snapshot_key(t))' <=> Stored(_snapshot_key(t))
                /\ Stored(_snapshot_key(t)) => s3'[_snapshot_key(t)] = s3[_snapshot_key(t)]
                /\ Stored(_snapshot_meta_key(t))' <=> Stored(_snapshot_meta_key(t))
  BY <1>1, <1>2 DEF Stored
<1>4. ScraperTyped'
  BY DEF StoreInv, ScraperTyped
<1>5. StoreTyped' /\ LatestBacked'
  BY <1>3 DEF StoreInv, StoreTyped, LatestBacked, Expired
<1>6. UploadOrdered'
  BY DEF UploadOrdered, Uploading
<1>7. Grows
  <2>1. Stored(_LATEST_KEY) => s3[_LATEST_KEY] \in Nat
    BY TimesAreNat DEF StoreInv, StoreTyped
  <2>2. QED
    BY <1>3, <2>1 DEF Grows, Published, Expired
<1>8. QED
  BY <1>4, <1>5, <1>6, <1>7 DEF StoreInv

\* The snapshot, then its meta, then latest.json (_upload_snapshot).
LEMMA UploadKeepsStore ==
    ASSUME StoreInv, _upload_snapshot
    PROVE  StoreInv' /\ Grows
<1>0. PICK t \in Times : t = scraper.time
  BY DEF StoreInv, ScraperTyped
<1>1. /\ t \in Times /\ clock \in Times /\ t <= clock /\ t \in Nat /\ clock \in Nat
      /\ Retention \in Nat /\ clock' = clock
  BY <1>0, TimesAreNat DEF StoreInv, ScraperTyped, _upload_snapshot
<1>2. ASSUME NEW k, NEW x, s3' = Put(k, x)
      PROVE  /\ Stored(k)' /\ s3'[k] = x
             /\ \A j : j # k => (Stored(j)' <=> Stored(j)) /\ (Stored(j) => s3'[j] = s3[j])
  BY <1>2 DEF Put, Stored
<1>3. CASE PutThen("put_snapshot", _snapshot_key(t), _build_snapshot(t), "put_meta")
  <2>1. /\ scraper.at = "put_snapshot" /\ GoTo("put_meta") /\ s3' = Put(_snapshot_key(t), t)
    BY <1>3 DEF PutThen, _build_snapshot
  <2>2. /\ DOMAIN scraper' = ScraperFields /\ scraper'.at = "put_meta"
        /\ scraper'.time = t /\ scraper'.bodies = scraper.bodies
    BY <1>0, <2>1, Moves DEF StoreInv
  <2>3. /\ Stored(_snapshot_key(t))' /\ s3'[_snapshot_key(t)] = t
        /\ \A j : j # _snapshot_key(t) => (Stored(j)' <=> Stored(j)) /\ (Stored(j) => s3'[j] = s3[j])
    BY <1>2, <2>1 DEF Stored
  <2>4. /\ Stored(_LATEST_KEY)' <=> Stored(_LATEST_KEY)
        /\ Stored(_LATEST_KEY) => s3'[_LATEST_KEY] = s3[_LATEST_KEY]
        /\ \A u : /\ Stored(_snapshot_meta_key(u))' <=> Stored(_snapshot_meta_key(u))
                  /\ Stored(_snapshot_key(u)) => Stored(_snapshot_key(u))'
                  /\ u # t => (Stored(_snapshot_key(u))' <=> Stored(_snapshot_key(u)))
                  /\ Stored(_snapshot_key(u)) /\ u # t => s3'[_snapshot_key(u)] = s3[_snapshot_key(u)]
    BY <2>3, StoreKeysApart DEF Stored
  <2>5. ScraperTyped'
    BY <1>1, <2>2 DEF StoreInv, ScraperTyped
  <2>6. StoreTyped'
    <3>1. \A u \in Times : Stored(_snapshot_key(u))' => s3'[_snapshot_key(u)] = u
      BY <2>3, <2>4 DEF StoreInv, StoreTyped
    <3>2. QED
      BY <1>1, <2>4, <3>1 DEF StoreInv, StoreTyped
  <2>7. LatestBacked'
    BY <1>1, <2>4 DEF StoreInv, LatestBacked, Expired
  <2>8. UploadOrdered'
    BY <1>0, <1>1, <2>1, <2>2, <2>3, <2>4 DEF StoreInv, UploadOrdered, Uploading, Published
  <2>9. Grows
    <3>1. Stored(_LATEST_KEY) => s3[_LATEST_KEY] \in Nat
      BY TimesAreNat DEF StoreInv, StoreTyped
    <3>2. QED
      BY <1>1, <2>3, <2>4, <3>1 DEF Grows, Published, Expired
  <2>10. QED
    BY <2>5, <2>6, <2>7, <2>8, <2>9 DEF StoreInv
<1>4. CASE PutThen("put_meta", _snapshot_meta_key(t), Cardinality(Stations), "put_latest")
  <2>1. /\ scraper.at = "put_meta" /\ GoTo("put_latest")
        /\ s3' = Put(_snapshot_meta_key(t), Cardinality(Stations))
    BY <1>4 DEF PutThen
  <2>2. /\ DOMAIN scraper' = ScraperFields /\ scraper'.at = "put_latest"
        /\ scraper'.time = t /\ scraper'.bodies = scraper.bodies
    BY <1>0, <2>1, Moves DEF StoreInv
  <2>3. /\ Stored(_snapshot_meta_key(t))'
        /\ \A j : j # _snapshot_meta_key(t) => (Stored(j)' <=> Stored(j)) /\ (Stored(j) => s3'[j] = s3[j])
    BY <1>2, <2>1 DEF Stored
  <2>4. /\ Stored(_LATEST_KEY)' <=> Stored(_LATEST_KEY)
        /\ Stored(_LATEST_KEY) => s3'[_LATEST_KEY] = s3[_LATEST_KEY]
        /\ \A u : /\ Stored(_snapshot_key(u))' <=> Stored(_snapshot_key(u))
                  /\ Stored(_snapshot_key(u)) => s3'[_snapshot_key(u)] = s3[_snapshot_key(u)]
                  /\ Stored(_snapshot_meta_key(u)) => Stored(_snapshot_meta_key(u))'
    BY <2>3, StoreKeysApart DEF Stored
  <2>5. ScraperTyped'
    BY <1>1, <2>2 DEF StoreInv, ScraperTyped
  <2>6. StoreTyped'
    BY <1>1, <2>4 DEF StoreInv, StoreTyped
  <2>7. LatestBacked'
    BY <1>1, <2>4 DEF StoreInv, LatestBacked, Expired
  <2>8. UploadOrdered'
    BY <1>0, <1>1, <2>1, <2>2, <2>3, <2>4 DEF StoreInv, UploadOrdered, Uploading, Published, Expired
  <2>9. Grows
    <3>1. Stored(_LATEST_KEY) => s3[_LATEST_KEY] \in Nat
      BY TimesAreNat DEF StoreInv, StoreTyped
    <3>2. QED
      BY <1>1, <2>4, <3>1 DEF Grows, Published, Expired
  <2>10. QED
    BY <2>5, <2>6, <2>7, <2>8, <2>9 DEF StoreInv
<1>5. CASE PutThen("put_latest", _LATEST_KEY, _build_snapshot(t),
                   IF deploy.cache THEN "warm_latest" ELSE "idle")
  <2> DEFINE next == IF deploy.cache THEN "warm_latest" ELSE "idle"
  <2>1. /\ scraper.at = "put_latest" /\ GoTo(next) /\ s3' = Put(_LATEST_KEY, t)
    BY <1>5 DEF PutThen, _build_snapshot
  <2>2. /\ DOMAIN scraper' = ScraperFields /\ scraper'.at = next
        /\ scraper'.time = t /\ scraper'.bodies = scraper.bodies
    BY <1>0, <2>1, Moves DEF StoreInv
  <2>3. /\ Stored(_LATEST_KEY)' /\ s3'[_LATEST_KEY] = t
        /\ \A j : j # _LATEST_KEY => (Stored(j)' <=> Stored(j)) /\ (Stored(j) => s3'[j] = s3[j])
    BY <1>2, <2>1 DEF Stored
  <2>4. /\ \A u : /\ Stored(_snapshot_key(u))' <=> Stored(_snapshot_key(u))
                  /\ Stored(_snapshot_key(u)) => s3'[_snapshot_key(u)] = s3[_snapshot_key(u)]
                  /\ Stored(_snapshot_meta_key(u))' <=> Stored(_snapshot_meta_key(u))
    BY <2>3, StoreKeysApart DEF Stored
  <2>5. ScraperTyped'
    BY <1>1, <2>2 DEF StoreInv, ScraperTyped
  <2>6. StoreTyped'
    BY <1>1, <2>3, <2>4 DEF StoreInv, StoreTyped
  <2>7. LatestBacked'
    BY <1>0, <1>1, <2>1, <2>3, <2>4 DEF StoreInv, UploadOrdered, LatestBacked, Published, Expired
  <2>8. UploadOrdered'
    BY <1>1, <2>2, <2>3 DEF UploadOrdered, Uploading
  <2>9. Grows
    BY <1>0, <1>1, <2>1, <2>3, <2>4 DEF Grows, Published, Expired, StoreInv, UploadOrdered, Uploading
  <2>10. QED
    BY <2>5, <2>6, <2>7, <2>8, <2>9 DEF StoreInv
<1>6. QED
  BY <1>0, <1>3, <1>4, <1>5 DEF _upload_snapshot

\* A snapshot begins with the time of the clock (_get_stations).
LEMMA FetchKeepsStore ==
    ASSUME StoreInv, _get_stations
    PROVE  StoreInv' /\ Grows
<1>1. UNCHANGED <<s3, clock>>
  BY DEF _get_stations
<1>2. CASE \E stage \in {"idle", "refresh"} : GoTo(stage)
  BY <1>1, <1>2, QuietMove DEF Uploading
<1>3. CASE scraper' = [scraper EXCEPT !.at = "put_snapshot", !.time = clock]
  <2>1. /\ DOMAIN scraper' = ScraperFields /\ scraper'.at = "put_snapshot"
        /\ scraper'.time = clock /\ scraper'.bodies = scraper.bodies
    BY <1>3 DEF StoreInv, ScraperTyped, ScraperFields
  <2>2. clock \in Nat
    BY TimesAreNat DEF StoreInv, ScraperTyped
  <2>3. ScraperTyped'
    BY <1>1, <2>1, <2>2 DEF StoreInv, ScraperTyped
  <2>4. StoreTyped' /\ LatestBacked'
    BY <1>1 DEF StoreInv, StoreTyped, LatestBacked, Stored, Expired
  <2>5. UploadOrdered'
    BY <1>1, <2>1 DEF StoreInv, StoreTyped, UploadOrdered, Stored
  <2>6. QED
    BY <1>1, <2>3, <2>4, <2>5, NothingGrows DEF StoreInv
<1>4. QED
  BY <1>2, <1>3 DEF _get_stations

\* Time passes: what was published is published or has expired.
LEMMA LaterKeepsStore ==
    ASSUME StoreInv, Later
    PROVE  StoreInv' /\ Grows
<1>1. clock \in Nat /\ MaxTime \in Nat /\ clock' = clock + 1 /\ clock' \in Times
  BY TimesAreNat, WeatherAssumption DEF StoreInv, ScraperTyped, Later, Times
<1>2. UNCHANGED <<s3, scraper>>
  BY DEF Later
<1>3. \A t \in Times : Expired(t) => Expired(t)'
  BY <1>1, TimesAreNat DEF Expired
<1>4. \A t \in Times : Published(t) => Published(t)'
  BY <1>2, <1>3 DEF Published, Stored
<1>5. \A t \in Times : t <= clock => t <= clock'
  BY <1>1, TimesAreNat
<1>6. ScraperTyped'
  BY <1>1, <1>2, <1>5 DEF StoreInv, ScraperTyped
<1>7. StoreTyped'
  BY <1>2, <1>5 DEF StoreInv, StoreTyped, Stored
<1>8. LatestBacked'
  BY <1>2, <1>3 DEF StoreInv, StoreTyped, LatestBacked, Stored
<1>9. UploadOrdered'
  BY <1>2, <1>3, <1>4 DEF StoreInv, ScraperTyped, UploadOrdered, Stored
<1>10. Grows
  <2>1. Stored(_LATEST_KEY) => s3[_LATEST_KEY] \in Nat
    BY TimesAreNat DEF StoreInv, StoreTyped
  <2>2. QED
    BY <1>2, <1>4, <2>1 DEF Grows, Stored
<1>11. QED
  BY <1>6, <1>7, <1>8, <1>9, <1>10 DEF StoreInv

\* An object is deleted that is the registry's, or a snapshot's that has expired.
LEMMA DeleteKeepsStore ==
    ASSUME StoreInv, NEW k, s3' = [x \in DOMAIN s3 \ {k} |-> s3[x]],
           UNCHANGED <<clock, scraper>>,
           \/ k \in Others
           \/ \E t \in Times : Expired(t) /\ k \in {_snapshot_key(t), _snapshot_meta_key(t)}
    PROVE  StoreInv' /\ Grows
<1>1. \A j : /\ j # k => (Stored(j)' <=> Stored(j)) /\ (Stored(j) => s3'[j] = s3[j])
             /\ Stored(j)' => Stored(j) /\ s3'[j] = s3[j]
  BY DEF Stored
<1>2. k # _LATEST_KEY
  BY StoreKeysApart
<1>3. \A t \in Times : k \in {_snapshot_key(t), _snapshot_meta_key(t)} => Expired(t)
  BY StoreKeysApart
<1>4. \A t \in Times : Expired(t)' <=> Expired(t)
  BY DEF Expired
<1>5. /\ Stored(_LATEST_KEY)' <=> Stored(_LATEST_KEY)
      /\ Stored(_LATEST_KEY) => s3'[_LATEST_KEY] = s3[_LATEST_KEY]
      /\ \A t \in Times :
           /\ Stored(_snapshot_key(t)) => Stored(_snapshot_key(t))' \/ Expired(t)
           /\ Stored(_snapshot_meta_key(t)) => Stored(_snapshot_meta_key(t))' \/ Expired(t)
           /\ Stored(_snapshot_key(t))' => Stored(_snapshot_key(t)) /\ s3'[_snapshot_key(t)] = s3[_snapshot_key(t)]
  BY <1>1, <1>2, <1>3 DEF Stored
<1>6. \A t \in Times : Published(t) => Published(t)'
  BY <1>4, <1>5 DEF Published
<1>7. ScraperTyped'
  BY DEF StoreInv, ScraperTyped
<1>8. StoreTyped'
  BY <1>5 DEF StoreInv, StoreTyped
<1>9. LatestBacked'
  BY <1>4, <1>5 DEF StoreInv, StoreTyped, LatestBacked
<1>10. UploadOrdered'
  BY <1>4, <1>5, <1>6 DEF StoreInv, ScraperTyped, UploadOrdered
<1>11. Grows
  <2>1. Stored(_LATEST_KEY) => s3[_LATEST_KEY] \in Nat
    BY TimesAreNat DEF StoreInv, StoreTyped
  <2>2. QED
    BY <1>5, <1>6, <2>1 DEF Grows
<1>12. QED
  BY <1>7, <1>8, <1>9, <1>10, <1>11 DEF StoreInv

LEMMA ScraperKeepsStore ==
    ASSUME StoreInv, ScraperNext
    PROVE  StoreInv' /\ Grows
<1> DEFINE far == Uploading \cup {"warm_latest"}
<1>1. AfterRegistry \notin far
  BY DEF AfterRegistry, Uploading
<1>2. /\ scraper.time \in Times /\ scraper.time <= clock /\ clock \in Times
      /\ scraper.bodies \subseteq Times
  BY DEF StoreInv, ScraperTyped
<1>3. CASE _ensure_lifecycle_applied
  <2>1. /\ DOMAIN scraper' = ScraperFields /\ scraper'.at \in {"registry", "bootstrap"}
        /\ scraper'.time = scraper.time /\ scraper'.bodies = scraper.bodies
    BY <1>3 DEF _ensure_lifecycle_applied, StoreInv, ScraperTyped, ScraperFields
  <2>2. UNCHANGED clock /\ (UNCHANGED s3 \/ s3' = Put(_LIFECYCLE_RULE_ID, Retention))
    BY <1>3 DEF _ensure_lifecycle_applied
  <2>3. CASE UNCHANGED s3
    BY <1>2, <2>1, <2>2, <2>3, Quiet DEF Uploading
  <2>4. CASE s3' = Put(_LIFECYCLE_RULE_ID, Retention)
    BY <2>1, <2>2, <2>4, PutsElsewhere DEF Uploading, Others
  <2>5. QED
    BY <2>2, <2>3, <2>4
<1>4. CASE LifecycleFails
  <2>1. \E stage \in {"registry", "bootstrap"} : GoTo(stage)
    BY <1>4 DEF LifecycleFails
  <2>2. UNCHANGED <<s3, clock>>
    BY <1>4 DEF LifecycleFails
  <2>3. QED
    BY <2>1, <2>2, QuietMove DEF Uploading
<1>5. CASE _maybe_bootstrap_registry_hash
  <2>1. /\ DOMAIN scraper' = ScraperFields /\ scraper'.at = "registry"
        /\ scraper'.time = scraper.time /\ scraper'.bodies = scraper.bodies
    BY <1>5 DEF _maybe_bootstrap_registry_hash, StoreInv, ScraperTyped, ScraperFields
  <2>2. UNCHANGED <<s3, clock>>
    BY <1>5 DEF _maybe_bootstrap_registry_hash
  <2>3. QED
    BY <1>2, <2>1, <2>2, Quiet DEF Uploading
<1>6. CASE _refresh_registry_if_changed
  <2>1. UNCHANGED <<s3, clock>>
    BY <1>6 DEF _refresh_registry_if_changed
  <2>2. GoTo(AfterRegistry) \/ \E text : Upload(text)
    BY <1>6 DEF _refresh_registry_if_changed
  <2>3. CASE GoTo(AfterRegistry)
    BY <1>1, <2>1, <2>3, QuietMove
  <2>4. ASSUME NEW text, Upload(text)
        PROVE  StoreInv' /\ Grows
    <3>1. /\ DOMAIN scraper' = ScraperFields /\ scraper'.at \in {AfterRegistry, "put_registry"}
          /\ scraper'.time = scraper.time /\ scraper'.bodies = scraper.bodies
      BY <2>4 DEF Upload, StoreInv, ScraperTyped, ScraperFields
    <3>2. QED
      BY <1>1, <1>2, <2>1, <3>1, Quiet DEF Uploading
  <2>5. QED
    BY <2>2, <2>3, <2>4
<1>7. CASE RegistryRaises
  <2>1. GoTo("idle") /\ UNCHANGED <<s3, clock>>
    BY <1>7 DEF RegistryRaises
  <2>2. QED
    BY <2>1, QuietMove DEF Uploading
<1>8. CASE PutRegistry
  <2>1. /\ DOMAIN scraper' = ScraperFields /\ scraper'.at = "put_registry_meta"
        /\ scraper'.time = scraper.time /\ scraper'.bodies = scraper.bodies
    BY <1>8, Moves DEF PutRegistry, StoreInv
  <2>2. s3' = Put(_REGISTRY_KEY, scraper.text) /\ UNCHANGED clock
    BY <1>8 DEF PutRegistry
  <2>3. QED
    BY <2>1, <2>2, PutsElsewhere DEF Uploading, Others
<1>9. CASE PutRegistryMeta
  <2>1. /\ DOMAIN scraper' = ScraperFields /\ scraper'.at = AfterRegistry
        /\ scraper'.time = scraper.time /\ scraper'.bodies = scraper.bodies
    BY <1>9 DEF PutRegistryMeta, StoreInv, ScraperTyped, ScraperFields
  <2>2. s3' = Put(_REGISTRY_META_KEY, scraper.text) /\ UNCHANGED clock
    BY <1>9 DEF PutRegistryMeta
  <2>3. QED
    BY <1>1, <2>1, <2>2, PutsElsewhere DEF Others
<1>10. CASE RegistryUploadFails
  <2>1. GoTo(AfterRegistry) /\ UNCHANGED <<s3, clock>>
    BY <1>10 DEF RegistryUploadFails
  <2>2. QED
    BY <1>1, <2>1, QuietMove
<1>11. CASE _warm_registry_cache
  <2>1. /\ DOMAIN scraper' = ScraperFields /\ scraper'.at = "token"
        /\ scraper'.time = scraper.time /\ scraper'.bodies = scraper.bodies
    BY <1>11 DEF _warm_registry_cache, GoTo, StoreInv, ScraperTyped, ScraperFields
  <2>2. UNCHANGED <<s3, clock>>
    BY <1>11 DEF _warm_registry_cache
  <2>3. QED
    BY <1>2, <2>1, <2>2, Quiet DEF Uploading
<1>12. CASE _get_token
  <2>1. \E stage \in {"fetch", "idle"} : GoTo(stage)
    BY <1>12 DEF _get_token, Mint
  <2>2. UNCHANGED <<s3, clock>>
    BY <1>12 DEF _get_token
  <2>3. QED
    BY <2>1, <2>2, QuietMove DEF Uploading
<1>13. CASE _refresh_token
  <2>1. \E stage \in {"refetch", "idle"} : GoTo(stage)
    BY <1>13 DEF _refresh_token, Mint
  <2>2. UNCHANGED <<s3, clock>>
    BY <1>13 DEF _refresh_token
  <2>3. QED
    BY <2>1, <2>2, QuietMove DEF Uploading
<1>14. CASE _get_stations
  BY <1>14, FetchKeepsStore
<1>15. CASE _upload_snapshot
  BY <1>15, UploadKeepsStore
<1>16. CASE UploadFails
  <2>1. GoTo("idle") /\ UNCHANGED <<s3, clock>>
    BY <1>16 DEF UploadFails
  <2>2. QED
    BY <2>1, QuietMove DEF Uploading
<1>17. CASE WarmLatest
  <2>1. GoTo("warm_tilesets") /\ UNCHANGED <<s3, clock>>
    BY <1>17 DEF WarmLatest
  <2>2. QED
    BY <2>1, QuietMove DEF Uploading
<1>18. CASE WarmTilesets
  <2>1. \E stage \in {"warm_bodies", "idle"} : GoTo(stage)
    BY <1>18 DEF WarmTilesets
  <2>2. UNCHANGED <<s3, clock>>
    BY <1>18 DEF WarmTilesets
  <2>3. QED
    BY <2>1, <2>2, QuietMove DEF Uploading
<1>19. CASE _warm_recent_snapshot_bodies
  <2> DEFINE keys == recent_snapshot_keys(SnapshotTimes, WarmWindow)
  <2>1. keys \subseteq Times
    BY DEF recent_snapshot_keys, Newest, _latest_snapshot_per_bucket, SnapshotTimes
  <2>2. UNCHANGED <<s3, clock>>
    BY <1>19 DEF _warm_recent_snapshot_bodies
  <2> HIDE DEF keys
  <2>3. GoTo("warm_series") \/ \E lost : scraper' = [scraper EXCEPT !.at = "warm_series", !.bodies = keys \ lost]
    BY <1>19 DEF _warm_recent_snapshot_bodies, keys
  <2>4. CASE GoTo("warm_series")
    BY <2>2, <2>4, QuietMove DEF Uploading
  <2>5. ASSUME NEW lost, scraper' = [scraper EXCEPT !.at = "warm_series", !.bodies = keys \ lost]
        PROVE  StoreInv' /\ Grows
    <3>1. /\ DOMAIN scraper' = ScraperFields /\ scraper'.at = "warm_series"
          /\ scraper'.time = scraper.time /\ scraper'.bodies = keys \ lost
      BY <2>5 DEF StoreInv, ScraperTyped, ScraperFields
    <3>2. QED
      BY <1>2, <2>1, <2>2, <3>1, Quiet DEF Uploading
  <2>6. QED
    BY <2>3, <2>4, <2>5
<1>20. CASE _warm_station_series
  <2>1. /\ DOMAIN scraper' = ScraperFields /\ scraper'.at = "idle"
        /\ scraper'.time = scraper.time /\ scraper'.bodies = {}
    BY <1>20 DEF _warm_station_series, StoreInv, ScraperTyped, ScraperFields
  <2>2. UNCHANGED <<s3, clock>>
    BY <1>20 DEF _warm_station_series
  <2>3. QED
    BY <1>2, <2>1, <2>2, Quiet DEF Uploading
<1>21. CASE Restart
  <2>1. /\ DOMAIN scraper' = ScraperFields /\ scraper'.at = "idle"
        /\ scraper'.time = 0 /\ scraper'.bodies = {}
    BY <1>21 DEF Restart, Fresh, ScraperFields
  <2>2. UNCHANGED <<s3, clock>>
    BY <1>21 DEF Restart
  <2>3. 0 \in Times /\ 0 <= clock
    BY <1>2, TimesAreNat
  <2>4. QED
    BY <2>1, <2>2, <2>3, Quiet DEF Uploading
<1>22. CASE SmnChanges \/ TokenEnds \/ Tick
  BY <1>22, StoreAlone DEF SmnChanges, TokenEnds, Tick
<1>23. CASE Expire
  <2>1. PICK t \in Times, k \in DOMAIN s3 :
          /\ t + Retention < clock /\ k \in {_snapshot_key(t), _snapshot_meta_key(t)}
          /\ s3' = [x \in DOMAIN s3 \ {k} |-> s3[x]]
    BY <1>23 DEF Expire
  <2>2. Expired(t) /\ UNCHANGED <<clock, scraper>>
    BY <1>23, <2>1 DEF Expire, Expired
  <2>3. QED
    BY <2>1, <2>2, DeleteKeepsStore
<1>24. CASE Sweep
  <2>1. PICK k \in DOMAIN s3 \cap {_REGISTRY_KEY, _REGISTRY_META_KEY} :
          s3' = [x \in DOMAIN s3 \ {k} |-> s3[x]]
    BY <1>24 DEF Sweep
  <2>2. UNCHANGED <<clock, scraper>>
    BY <1>24 DEF Sweep
  <2>3. QED
    BY <2>1, <2>2, DeleteKeepsStore DEF Others
<1>25. CASE Later
  BY <1>25, LaterKeepsStore
<1>26. QED
  BY <1>3, <1>4, <1>5, <1>6, <1>7, <1>8, <1>9, <1>10, <1>11, <1>12, <1>13, <1>14, <1>15, <1>16,
     <1>17, <1>18, <1>19, <1>20, <1>21, <1>22, <1>23, <1>24, <1>25 DEF ScraperNext, Cycle

-----------------------------------------------------------------------------
(* The cache under the scraper's steps *)

\* What may be cached stays so.
Carries == \A k, val : Backed(k, val) => Backed(k, val)'

LEMMA GrowsCarries ==
    ASSUME StoreInv, StoreInv', Grows
    PROVE  Carries
<1> SUFFICES ASSUME NEW k, NEW val, Backed(k, val)
             PROVE  Backed(k, val)'
  BY DEF Carries
<1>1. (k = latest_key => Stored(_LATEST_KEY) /\ val \in Times /\ val <= s3[_LATEST_KEY])'
  <2>1. Stored(_LATEST_KEY) => s3[_LATEST_KEY] \in Nat
    BY TimesAreNat DEF StoreInv, StoreTyped
  <2>2. Stored(_LATEST_KEY)' => s3'[_LATEST_KEY] \in Nat
    BY TimesAreNat DEF StoreInv, StoreTyped
  <2>3. QED
    BY <2>1, <2>2, TimesAreNat DEF Backed, Grows
<1>2. (k = tilesets_key => \A e \in val : e[2] \in Times /\ Published(e[2]))'
  BY DEF Backed, Grows
<1>3. (\A t \in Times : k = snap_body_key(t) => Published(t) /\ val = t)'
  BY DEF Backed, Grows
<1>4. (\A s \in Stations : k = series_key(s) => WellFormed(s, val))'
  BY DEF Backed, WellFormed
<1>5. QED
  BY <1>1, <1>2, <1>3, <1>4 DEF Backed

LEMMA DbAlone ==
    ASSUME DbBacked, Carries, UNCHANGED db
    PROVE  DbBacked'
BY DEF DbBacked, Carries

LEMMA DbSet ==
    ASSUME DbBacked, Carries, NEW k, NEW x, db' = SetEx(db, k, x, CacheTTL), Backed(k, x)'
    PROVE  DbBacked'
<1> SUFFICES ASSUME NEW j, NEW val, j \in DOMAIN db', db'[j].val = val
             PROVE  Backed(j, val)'
  BY DEF DbBacked
<1>1. CASE j = k
  BY <1>1 DEF SetEx
<1>2. CASE j # k
  <2>1. j \in DOMAIN db /\ db[j].val = val
    BY <1>2 DEF SetEx
  <2>2. QED
    BY <2>1 DEF DbBacked, Carries
<1>3. QED
  BY <1>1, <1>2

LEMMA RegistryBacked == \A x : Backed(registry_key, x)
BY CacheKeysApart DEF Backed

\* The entries of snapshots that are published name nothing else.
LEMMA EntriesPublished ==
    ASSUME NEW times, Listable(times), NEW unread
    PROVE  Backed(tilesets_key, compute_tilesets_entries(times, unread))
<1>1. ASSUME NEW e \in compute_tilesets_entries(times, unread)
      PROVE  e[2] \in Times /\ Published(e[2])
  <2>1. PICK t \in _latest_snapshot_per_bucket(times) :
               e = <<tileset_id_for(t), t, _read_station_count(t, unread)>>
    BY DEF compute_tilesets_entries
  <2>2. t \in times /\ e[2] = t
    BY <2>1 DEF _latest_snapshot_per_bucket
  <2>3. QED
    BY <2>2 DEF Listable
<1>2. QED
  BY <1>1, CacheKeysApart DEF Backed

LEMMA SnapshotsListable == Listable(SnapshotTimes) /\ Listable({})
BY DEF Listable, SnapshotTimes, Published

\* The bodies of published snapshots.
LEMMA BodyBacked == \A t \in Times : Published(t) => Backed(snap_body_key(t), t)
<1> SUFFICES ASSUME NEW t \in Times, Published(t)
             PROVE  Backed(snap_body_key(t), t)
  OBVIOUS
<1>1. \A u \in Times : snap_body_key(t) = snap_body_key(u) => u = t
  BY CacheKeysApart
<1>2. QED
  BY <1>1, CacheKeysApart DEF Backed

LEMMA SeriesBacked ==
    ASSUME NEW s \in Stations, NEW points, WellFormed(s, points)
    PROVE  Backed(series_key(s), points)
<1>1. \A u \in Stations : series_key(s) = series_key(u) => u = s
  BY CacheKeysApart
<1>2. QED
  BY <1>1, CacheKeysApart DEF Backed

LEMMA ScraperKeepsCache ==
    ASSUME StoreInv, DbBacked, Carries, ScraperNext
    PROVE  DbBacked'
<1>1. CASE UNCHANGED db
  BY <1>1, DbAlone
<1>2. CASE _warm_registry_cache
  <2>1. UNCHANGED db \/ db' = SetEx(db, registry_key, s3[_REGISTRY_KEY], CacheTTL)
    BY <1>2 DEF _warm_registry_cache, _redis_set
  <2>2. PICK x : x = s3[_REGISTRY_KEY]
    OBVIOUS
  <2>3. Backed(registry_key, x)'
    BY RegistryBacked DEF Carries
  <2>4. QED
    BY <1>1, <2>1, <2>2, <2>3, DbSet
<1>3. CASE WarmLatest
  <2>1. PICK t : t = scraper.time
    OBVIOUS
  <2>2. UNCHANGED db \/ db' = SetEx(db, latest_key, t, CacheTTL)
    BY <1>3, <2>1 DEF WarmLatest, _redis_set, _build_snapshot
  <2>3. /\ Stored(_LATEST_KEY) /\ s3[_LATEST_KEY] = t /\ t \in Times /\ t \in Nat
    BY <1>3, <2>1, TimesAreNat DEF WarmLatest, StoreInv, UploadOrdered, ScraperTyped
  <2>4. Backed(latest_key, t)
    BY <2>3, CacheKeysApart DEF Backed
  <2>5. Backed(latest_key, t)'
    BY <2>4 DEF Carries
  <2>6. QED
    BY <1>1, <2>2, <2>5, DbSet
<1>4. CASE WarmTilesets
  <2>1. \/ UNCHANGED db
        \/ \E times \in {SnapshotTimes, {}} : \E unread :
              db' = SetEx(db, tilesets_key, compute_tilesets_entries(times, unread), CacheTTL)
    BY <1>4 DEF WarmTilesets, _redis_set
  <2>2. ASSUME NEW times \in {SnapshotTimes, {}}, NEW unread,
               db' = SetEx(db, tilesets_key, compute_tilesets_entries(times, unread), CacheTTL)
        PROVE  DbBacked'
    <3>1. PICK entries : entries = compute_tilesets_entries(times, unread)
      OBVIOUS
    <3>2. Backed(tilesets_key, entries)
      BY <3>1, EntriesPublished, SnapshotsListable
    <3>3. Backed(tilesets_key, entries)'
      BY <3>2 DEF Carries
    <3>4. QED
      BY <2>2, <3>1, <3>3, DbSet
  <2>3. QED
    BY <1>1, <2>1, <2>2
<1>5. CASE _warm_recent_snapshot_bodies
  <2> DEFINE keys == recent_snapshot_keys(SnapshotTimes, WarmWindow)
             animated == Newest(keys, deploy.animation)
  <2>1. animated \subseteq SnapshotTimes
    BY DEF recent_snapshot_keys, Newest, _latest_snapshot_per_bucket
  <2>2. \A t \in SnapshotTimes : t \in Times /\ Published(t)
    BY SnapshotsListable DEF Listable
  <2> HIDE DEF keys, animated
  <2>3. \/ UNCHANGED db
        \/ \E chosen : LET bodies == {snap_body_key(t) : t \in animated \ chosen}
                       IN  db' = [k \in DOMAIN db \cup bodies |->
                                    IF k \in bodies THEN [val |-> k[2], ttl |-> CacheTTL] ELSE db[k]]
    BY <1>5 DEF _warm_recent_snapshot_bodies, keys, animated
  <2>4. ASSUME NEW chosen,
               db' = [k \in DOMAIN db \cup {snap_body_key(t) : t \in animated \ chosen} |->
                        IF k \in {snap_body_key(t) : t \in animated \ chosen}
                        THEN [val |-> k[2], ttl |-> CacheTTL] ELSE db[k]]
        PROVE  DbBacked'
    <3> SUFFICES ASSUME NEW j, NEW val, j \in DOMAIN db', db'[j].val = val
                 PROVE  Backed(j, val)'
      BY DEF DbBacked
    <3> DEFINE bodies == {snap_body_key(t) : t \in animated \ chosen}
    <3>1. CASE j \in bodies
      <4>1. PICK t \in animated : j = snap_body_key(t)
        BY <3>1
      <4>2. t \in Times /\ Published(t)
        BY <2>1, <2>2, <4>1
      <4>3. val = j[2]
        BY <2>4, <3>1
      <4>4. val = t
        BY <4>1, <4>3, CacheKeysApart
      <4>5. QED
        BY <4>1, <4>2, <4>4, BodyBacked DEF Carries
    <3>2. CASE j \notin bodies
      <4>1. j \in DOMAIN db /\ db[j].val = val
        BY <2>4, <3>2
      <4>2. QED
        BY <4>1 DEF DbBacked, Carries
    <3>3. QED
      BY <3>1, <3>2
  <2>5. QED
    BY <1>1, <2>3, <2>4
<1>6. CASE _warm_station_series
  <2> DEFINE bodies == Newest(scraper.bodies, deploy.series)
             pivot == pivot_station_series(bodies)
             keys == IF bodies = {} THEN {} ELSE {series_key(s) : s \in Stations}
  <2>1. bodies \subseteq Times
    BY DEF Newest, StoreInv, ScraperTyped
  <2>2. ASSUME NEW j \in keys
        PROVE  \E s \in Stations : j = series_key(s) /\ j[2] = s /\ WellFormed(s, pivot[j[2]])
    <3>1. PICK s \in Stations : j = series_key(s)
      BY <2>2
    <3>2. j[2] = s
      BY <3>1, CacheKeysApart
    <3>3. pivot[s] = extract_station_series(bodies, s)
      BY DEF pivot_station_series
    <3>4. QED
      BY <2>1, <3>1, <3>2, <3>3, SeriesSorted
  <2> HIDE DEF bodies, pivot, keys
  <2>3. PICK lost :
          db' = [k \in DOMAIN db \cup (keys \ lost) |->
                   IF k \in keys \ lost THEN [val |-> pivot[k[2]], ttl |-> CacheTTL] ELSE db[k]]
    BY <1>6 DEF _warm_station_series, bodies, pivot, keys
  <2> SUFFICES ASSUME NEW j, NEW val, j \in DOMAIN db', db'[j].val = val
               PROVE  Backed(j, val)'
    BY DEF DbBacked
  <2>4. CASE j \in keys \ lost
    <3>1. val = pivot[j[2]]
      BY <2>3, <2>4
    <3>2. PICK s \in Stations : j = series_key(s) /\ j[2] = s /\ WellFormed(s, pivot[j[2]])
      BY <2>2, <2>4
    <3>3. WellFormed(s, val)
      BY <3>1, <3>2
    <3>4. Backed(j, val)
      BY <3>2, <3>3, SeriesBacked
    <3>5. QED
      BY <3>4 DEF Carries
  <2>5. CASE j \notin keys \ lost
    <3>1. j \in DOMAIN db /\ db[j].val = val
      BY <2>3, <2>5
    <3>2. QED
      BY <3>1 DEF DbBacked, Carries
  <2>6. QED
    BY <2>4, <2>5
<1>7. CASE Tick
  <2> SUFFICES ASSUME NEW j, NEW val, j \in DOMAIN db', db'[j].val = val
               PROVE  Backed(j, val)'
    BY DEF DbBacked
  <2>1. db' = [k \in {x \in DOMAIN db : db[x].ttl > 1} |-> [db[k] EXCEPT !.ttl = @ - 1]]
    BY <1>7 DEF Tick, Aged
  <2>2. j \in DOMAIN db /\ db'[j] = [db[j] EXCEPT !.ttl = @ - 1]
    BY <2>1
  <2>3. db[j].val = val
    BY <2>2
  <2>4. QED
    BY <2>2, <2>3 DEF DbBacked, Carries
<1>8. QED
  BY <1>1, <1>2, <1>3, <1>4, <1>5, <1>6, <1>7
     DEF ScraperNext, Cycle, _ensure_lifecycle_applied, LifecycleFails,
         _maybe_bootstrap_registry_hash, _refresh_registry_if_changed, RegistryRaises, PutRegistry,
         PutRegistryMeta, RegistryUploadFails, _get_token, _refresh_token, _get_stations,
         _upload_snapshot, UploadFails, Restart, SmnChanges, TokenEnds, Expire, Sweep, Later

-----------------------------------------------------------------------------
(* The readers *)

Right(what) == deploy.call = "series" /\ what # <<>> => WellFormed(Asked, what[1])

\* What the step of a request may leave.
Fine(v) ==
    /\ \E r : Sound(r) /\ req' = [req EXCEPT ![v] = r]
    /\ \/ UNCHANGED shown
       \/ \E what : Right(what) /\ shown' = [shown EXCEPT ![v] = what]

LEMMA EmptySeries == WellFormed(Asked, <<>>)
BY DEF WellFormed

LEMMA IdleSound == Sound(Idle)
<1>1. DOMAIN Idle = RequestFields /\ Idle.at = "idle" /\ Idle.key = latest_key /\ Idle.points = <<>>
  BY DEF Idle, RequestFields
<1> HIDE DEF Idle
<1>2. QED
  BY <1>1, EmptySeries DEF Sound

LEMMA AnswerFine ==
    ASSUME NEW v \in Viewers, NEW what, Answer(v, what), Right(what)
    PROVE  Fine(v)
BY IdleSound DEF Answer, Fine

\* A request that is begun, or begun again for another key.
LEMMA LookFine ==
    ASSUME NEW v \in Viewers, NEW r, NEW otherwise, Look(v, r, otherwise),
           DOMAIN r = RequestFields, WellFormed(Asked, r.points),
           otherwise \in {"store", "list"},
           r.key \in {latest_key, registry_key, tilesets_key, series_key(Asked)} \cup BodyKeys,
           otherwise = "store" => r.key \in {latest_key, registry_key} \cup BodyKeys,
           deploy.call = "series" => r.key \in {series_key(Asked), registry_key}
    PROVE  Fine(v)
<1> DEFINE at == IF deploy.cache THEN "cache" ELSE otherwise
           q == [r EXCEPT !.at = at]
<1>1. DOMAIN q = RequestFields /\ q.at = at /\ q.key = r.key /\ q.points = r.points
  BY DEF RequestFields
<1>2. req' = [req EXCEPT ![v] = q] /\ UNCHANGED shown
  BY DEF Look
<1> HIDE DEF q
<1>3. Sound(q)
  BY <1>1 DEF Sound
<1>4. QED
  BY <1>2, <1>3 DEF Fine

\* A request that looks for its first key.
LEMMA FirstLookFine ==
    ASSUME NEW v \in Viewers, NEW k, NEW otherwise,
           Look(v, [Idle EXCEPT !.key = k], otherwise),
           otherwise \in {"store", "list"},
           k \in {latest_key, registry_key, tilesets_key, series_key(Asked)} \cup BodyKeys,
           otherwise = "store" => k \in {latest_key, registry_key} \cup BodyKeys,
           deploy.call = "series" => k \in {series_key(Asked), registry_key}
    PROVE  Fine(v)
<1> DEFINE r == [Idle EXCEPT !.key = k]
<1>1. DOMAIN r = RequestFields /\ r.key = k /\ r.points = <<>>
  BY DEF Idle, RequestFields
<1> HIDE DEF r
<1>2. Look(v, r, otherwise)
  BY DEF r
<1>3. QED
  BY <1>1, <1>2, LookFine, EmptySeries

LEMMA MetaFine ==
    ASSUME NEW v \in Viewers, NEW points, _station_meta(v, points), WellFormed(Asked, points)
    PROVE  Fine(v)
<1> DEFINE r == [Idle EXCEPT !.key = registry_key, !.points = points]
<1>1. DOMAIN r = RequestFields /\ r.key = registry_key /\ r.points = points
  BY DEF Idle, RequestFields
<1> HIDE DEF r
<1>2. Look(v, r, "store")
  BY DEF _station_meta, r
<1>3. QED
  BY <1>1, <1>2, LookFine

LEMMA AskFine ==
    ASSUME RequestsSound, NEW v \in Viewers, Ask(v)
    PROVE  Fine(v)
<1>1. CASE ~deploy.configured
  <2>1. Answer(v, <<>>) /\ Right(<<>>)
    BY <1>1 DEF Ask, Right
  <2>2. QED
    BY <2>1, AnswerFine
<1>2. CASE deploy.configured /\ deploy.call = "latest"
  <2>1. Look(v, [Idle EXCEPT !.key = latest_key], "store")
    BY <1>2 DEF Ask
  <2>2. QED
    BY <1>2, <2>1, FirstLookFine
<1>3. CASE deploy.configured /\ deploy.call = "stations"
  <2>1. Look(v, [Idle EXCEPT !.key = registry_key], "store")
    BY <1>3 DEF Ask
  <2>2. QED
    BY <1>3, <2>1, FirstLookFine
<1>4. CASE deploy.configured /\ deploy.call = "tilesets"
  <2>1. Look(v, [Idle EXCEPT !.key = tilesets_key], "list")
    BY <1>4 DEF Ask
  <2>2. QED
    BY <1>4, <2>1, FirstLookFine
<1>5. CASE deploy.configured /\ deploy.call = "series"
  <2>1. Look(v, [Idle EXCEPT !.key = series_key(Asked)], "list")
    BY <1>5 DEF Ask
  <2>2. QED
    BY <1>5, <2>1, FirstLookFine
<1>6. CASE deploy.configured /\ deploy.call = "snapshot"
  <2> DEFINE r == [Idle EXCEPT !.at = "list"]
  <2>1. req' = [req EXCEPT ![v] = r] /\ UNCHANGED shown
    BY <1>6 DEF Ask
  <2>2. DOMAIN r = RequestFields /\ r.at = "list" /\ r.key = latest_key /\ r.points = <<>>
    BY DEF Idle, RequestFields
  <2> HIDE DEF r
  <2>3. Sound(r)
    BY <2>2, EmptySeries DEF Sound
  <2>4. QED
    BY <2>1, <2>3 DEF Fine
<1>7. QED
  BY <1>1, <1>2, <1>3, <1>4, <1>5, <1>6 DEF RequestsSound, Calls

\* Another stage of the same request.
LEMMA StageFine ==
    ASSUME RequestsSound, NEW v \in Viewers, NEW stage,
           req' = [req EXCEPT ![v].at = stage], UNCHANGED shown,
           stage \in {"list", "listing", "store"},
           stage = "store" => /\ req[v].key \in {latest_key, registry_key} \cup BodyKeys
                              /\ deploy.call = "series" => req[v].key \in {series_key(Asked), registry_key}
    PROVE  Fine(v)
<1>1. PICK q : q = req[v]
  OBVIOUS
<1>2. Sound(q)
  BY <1>1 DEF RequestsSound
<1> DEFINE r == [q EXCEPT !.at = stage]
<1>3. DOMAIN r = RequestFields /\ r.at = stage /\ r.key = q.key /\ r.points = q.points
  BY <1>2 DEF Sound, RequestFields
<1>4. req' = [req EXCEPT ![v] = r]
  BY <1>1
<1> HIDE DEF r
<1>5. Sound(r)
  BY <1>1, <1>2, <1>3 DEF Sound
<1>6. QED
  BY <1>4, <1>5 DEF Fine

\* A hit, or a miss (_cache_get).
LEMMA GetFine ==
    ASSUME RequestsSound, DbBacked, NEW v \in Viewers, _cache_get(v)
    PROVE  Fine(v)
<1>1. PICK k : k = req[v].key
  OBVIOUS
<1>2. Sound(req[v]) /\ req[v].at = "cache"
  BY DEF RequestsSound, _cache_get
<1>3. /\ k \in {latest_key, registry_key, tilesets_key, series_key(Asked)} \cup BodyKeys
      /\ deploy.call = "series" => k \in {series_key(Asked), registry_key}
      /\ WellFormed(Asked, req[v].points)
  BY <1>1, <1>2 DEF Sound
<1>4. CASE Has(db, k) /\ k = series_key(Asked) /\ _station_meta(v, db[k].val)
  <2>1. Backed(k, db[k].val)
    BY <1>4 DEF DbBacked, Has
  <2>2. WellFormed(Asked, db[k].val)
    BY <1>4, <2>1, ReaderAssumption DEF Backed
  <2>3. QED
    BY <1>4, <2>2, MetaFine
<1>5. CASE deploy.call = "series" /\ Answer(v, <<req[v].points>>)
  <2>1. Right(<<req[v].points>>)
    BY <1>3 DEF Right
  <2>2. QED
    BY <1>5, <2>1, AnswerFine
<1>6. CASE /\ k # series_key(Asked) /\ ~(k = registry_key /\ deploy.call = "series")
           /\ Answer(v, <<db[k].val>>)
  <2>1. Right(<<db[k].val>>)
    BY <1>3, <1>6 DEF Right
  <2>2. QED
    BY <1>6, <2>1, AnswerFine
<1>7. CASE Fallback(v)
  <2> DEFINE stage == IF req[v].key \in {tilesets_key, series_key(Asked)} THEN "list" ELSE "store"
  <2>1. req' = [req EXCEPT ![v].at = stage] /\ UNCHANGED shown
    BY <1>7 DEF Fallback
  <2>2. stage \in {"list", "listing", "store"}
    OBVIOUS
  <2>3. stage = "store" => /\ req[v].key \in {latest_key, registry_key} \cup BodyKeys
                           /\ deploy.call = "series" => req[v].key \in {series_key(Asked), registry_key}
    BY <1>1, <1>3
  <2> HIDE DEF stage
  <2>4. QED
    BY <2>1, <2>2, <2>3, StageFine
<1>8. QED
  BY <1>1, <1>4, <1>5, <1>6, <1>7 DEF _cache_get

\* The listing is used (Listed).
LEMMA ListedFine ==
    ASSUME RequestsSound, NEW v \in Viewers, NEW times, Listable(times), Listed(v, times)
    PROVE  Fine(v)
<1>1. CASE deploy.call = "snapshot" /\ _resolve_bucket_snapshot_key(times) = {}
  <2>1. Answer(v, <<>>) /\ Right(<<>>)
    BY <1>1 DEF Listed, Right
  <2>2. QED
    BY <2>1, AnswerFine
<1>2. CASE deploy.call = "snapshot" /\ _resolve_bucket_snapshot_key(times) # {}
  <2> DEFINE best == CHOOSE t \in _resolve_bucket_snapshot_key(times) : TRUE
  <2>1. best \in Times
    BY <1>2 DEF _resolve_bucket_snapshot_key, _latest_snapshot_per_bucket, Listable
  <2> HIDE DEF best
  <2>2. Look(v, [Idle EXCEPT !.key = snap_body_key(best)], "store")
    BY <1>2 DEF Listed, best
  <2>3. snap_body_key(best) \in BodyKeys
    BY <2>1 DEF BodyKeys
  <2>4. QED
    BY <1>2, <2>2, <2>3, FirstLookFine
<1>3. CASE deploy.call # "snapshot"
  <2>1. PICK q : q = req[v]
    OBVIOUS
  <2>2. Sound(q)
    BY <2>1 DEF RequestsSound
  <2> DEFINE r == [q EXCEPT !.at = "assemble", !.keys = times]
  <2>3. DOMAIN r = RequestFields /\ r.at = "assemble" /\ r.key = q.key /\ r.points = q.points /\ r.keys = times
    BY <2>2 DEF Sound, RequestFields
  <2>4. req' = [req EXCEPT ![v] = r] /\ UNCHANGED shown
    BY <1>3, <2>1 DEF Listed
  <2> HIDE DEF r
  <2>5. Sound(r)
    BY <2>2, <2>3 DEF Sound
  <2>6. QED
    BY <2>4, <2>5 DEF Fine
<1>4. QED
  BY <1>1, <1>2, <1>3

-----------------------------------------------------------------------------
(* Write-backs *)

LEMMA BagDomains ==
    ASSUME NEW A, NEW B
    PROVE  /\ BagToSet(A (+) B) = BagToSet(A) \cup BagToSet(B)
           /\ BagToSet(A (-) B) \subseteq BagToSet(A)
BY DEF BagToSet, (+), (-)

LEMMA BagOfSet == \A W : BagToSet(SetToBag(W)) = W
BY DEF BagToSet, SetToBag

LEMMA TasksAlone ==
    ASSUME TasksBacked, Carries, UNCHANGED tasks
    PROVE  TasksBacked'
BY DEF TasksBacked, Carries

\* What is cached in the background may be cached (_cache_set_bg).
LEMMA TasksGrow ==
    ASSUME TasksBacked, Carries, NEW writes, _cache_set_bg(writes),
           \A w \in writes : Backed(w[1], w[2])
    PROVE  TasksBacked'
<1>1. BagToSet(tasks') \subseteq BagToSet(tasks) \cup writes
  BY BagDomains, BagOfSet DEF _cache_set_bg
<1> SUFFICES ASSUME NEW w \in BagToSet(tasks')
             PROVE  Backed(w[1], w[2])'
  BY DEF TasksBacked, BagToSet
<1>2. Backed(w[1], w[2])
  BY <1>1 DEF TasksBacked
<1>3. QED
  BY <1>2 DEF Carries

-----------------------------------------------------------------------------
(* The readers' steps *)

\* The bucket, the time and the deployment stay.
Frame == UNCHANGED <<s3, clock, scraper, deploy>>

LEMMA FrameKeeps ==
    ASSUME StoreInv, Frame
    PROVE  StoreInv' /\ Grows /\ Carries
<1>1. StoreInv' /\ Grows
  BY StoreAlone DEF Frame
<1>2. QED
  BY <1>1, GrowsCarries

LEMMA SoundCarries ==
    ASSUME Grows, UNCHANGED deploy
    PROVE  /\ \A times : Listable(times) => Listable(times)'
           /\ \A r : Sound(r) => Sound(r)'
           /\ \A what : Right(what) => Right(what)'
<1>1. ASSUME NEW times, Listable(times)
      PROVE  Listable(times)'
  BY <1>1 DEF Listable, Grows
<1>2. ASSUME NEW r, Sound(r)
      PROVE  Sound(r)'
  <2>1. (r.at = "assemble" => Listable(r.keys))'
    BY <1>1, <1>2 DEF Sound
  <2>2. WellFormed(Asked, r.points)'
    BY <1>2 DEF Sound, WellFormed
  <2>3. QED
    BY <1>2, <2>1, <2>2 DEF Sound
<1>3. ASSUME NEW what, Right(what)
      PROVE  Right(what)'
  BY <1>3 DEF Right, WellFormed
<1>4. QED
  BY <1>1, <1>2, <1>3

LEMMA RequestsAlone ==
    ASSUME RequestsSound, ShownOrdered, Grows, UNCHANGED deploy, UNCHANGED <<req, shown>>,
           \A times : listing'.keys = times => Listable(times)
    PROVE  RequestsSound' /\ ShownOrdered'
<1>1. RequestsSound'
  BY SoundCarries DEF RequestsSound
<1>2. ShownOrdered'
  BY DEF ShownOrdered, WellFormed
<1>3. QED
  BY <1>1, <1>2

LEMMA FineKeeps ==
    ASSUME RequestsSound, ShownOrdered, Grows, UNCHANGED deploy, NEW v \in Viewers, Fine(v),
           \A times : listing'.keys = times => Listable(times)
    PROVE  RequestsSound' /\ ShownOrdered'
<1>1. PICK r : Sound(r) /\ req' = [req EXCEPT ![v] = r]
  BY DEF Fine
<1>2. DOMAIN req' = Viewers /\ \A w \in Viewers : req'[w] = IF w = v THEN r ELSE req[w]
  BY <1>1 DEF RequestsSound
<1>3. \A w \in Viewers : \A q : req'[w] = q => Sound(q)
  BY <1>1, <1>2 DEF RequestsSound
<1>4. RequestsSound'
  BY <1>2, <1>3, SoundCarries DEF RequestsSound
<1>5. ShownOrdered'
  <2>1. CASE UNCHANGED shown
    BY <2>1 DEF ShownOrdered, WellFormed
  <2>2. ASSUME NEW what, Right(what), shown' = [shown EXCEPT ![v] = what]
        PROVE  ShownOrdered'
    <3>1. DOMAIN shown' = Viewers /\ \A w \in Viewers : shown'[w] = IF w = v THEN what ELSE shown[w]
      BY <2>2 DEF ShownOrdered
    <3>2. ASSUME deploy.call = "series", NEW w \in Viewers, shown'[w] # <<>>
          PROVE  WellFormed(Asked, shown'[w][1])
      BY <2>2, <3>1, <3>2 DEF ShownOrdered, Right
    <3>3. QED
      BY <3>1, <3>2 DEF ShownOrdered, WellFormed
  <2>3. QED
    BY <2>1, <2>2 DEF Fine
<1>6. QED
  BY <1>4, <1>5

\* The series a request assembles, and the bodies it read from S3
\* (_station_series_points).
LEMMA PointsFine ==
    ASSUME StoreInv, RequestsSound, TasksBacked, Carries, NEW v \in Viewers, _station_series_points(v)
    PROVE  Fine(v) /\ TasksBacked'
<1> DEFINE keys == recent_snapshot_keys(req[v].keys, deploy.hours)
           cached == {t \in keys : Has(db, snap_body_key(t))}
           Fetched(missed) == {t \in keys : Stored(_snapshot_key(t)) /\ (t \in cached <=> t \in missed)}
           Points(missed) == extract_station_series((cached \ missed) \cup Fetched(missed), Asked)
           Writes(missed) == {<<snap_body_key(t), s3[_snapshot_key(t)]>> : t \in Fetched(missed)}
                               \cup {<<series_key(Asked), Points(missed)>>}
<1>1. Sound(req[v]) /\ req[v].at = "assemble"
  BY DEF RequestsSound, _station_series_points
<1>2. keys \subseteq Times
  BY <1>1 DEF Sound, Listable, recent_snapshot_keys, Newest, _latest_snapshot_per_bucket
<1>3. PICK missed : _station_meta(v, Points(missed)) /\ _cache_set_bg(Writes(missed))
  BY DEF _station_series_points
<1> HIDE DEF keys
<1> DEFINE fetched == Fetched(missed)
           points == Points(missed)
           writes == Writes(missed)
<1>4. fetched \subseteq Times /\ \A t \in fetched : Stored(_snapshot_key(t))
  BY <1>2
<1>5. WellFormed(Asked, points)
  <2>1. (cached \ missed) \cup fetched \subseteq Times
    BY <1>2
  <2>2. PICK bodies : bodies = (cached \ missed) \cup fetched
    OBVIOUS
  <2>3. points = extract_station_series(bodies, Asked)
    BY <2>2
  <2> HIDE DEF points
  <2>4. QED
    BY <2>1, <2>2, <2>3, SeriesSorted, ReaderAssumption
<1>6. writes = {<<snap_body_key(t), s3[_snapshot_key(t)]>> : t \in fetched}
                  \cup {<<series_key(Asked), points>>}
  OBVIOUS
<1>7. _station_meta(v, points) /\ _cache_set_bg(writes)
  BY <1>3
<1> HIDE DEF fetched, points, writes, cached, Fetched, Points, Writes
<1>8. Fine(v)
  BY <1>5, <1>7, MetaFine
<1>9. Backed(series_key(Asked), points)
  BY <1>5, SeriesBacked, ReaderAssumption
<1>10. \A t \in fetched : Backed(snap_body_key(t), s3[_snapshot_key(t)])
  BY <1>4, BodyBacked DEF StoreInv, StoreTyped, Published
<1>11. \A w \in writes : Backed(w[1], w[2])
  BY <1>6, <1>9, <1>10
<1>12. QED
  BY <1>7, <1>8, <1>11, TasksGrow

\* A fallback to S3 (_get_cached_object).
LEMMA ObjectFine ==
    ASSUME StoreInv, RequestsSound, TasksBacked, Carries, NEW v \in Viewers, _get_cached_object(v)
    PROVE  Fine(v) /\ TasksBacked'
<1>1. PICK k : k = req[v].key
  OBVIOUS
<1>2. Sound(req[v]) /\ req[v].at = "store"
  BY DEF RequestsSound, _get_cached_object
<1>3. /\ k \in {latest_key, registry_key} \cup BodyKeys
      /\ WellFormed(Asked, req[v].points)
  BY <1>1, <1>2 DEF Sound
<1>4. \A what : deploy.call # "series" => Right(what)
  BY DEF Right
<1>5. Right(<<req[v].points>>) /\ Right(<<>>)
  BY <1>3 DEF Right
<1>6. CASE /\ Stored(Behind(k)) /\ _cache_set_bg({<<k, s3[Behind(k)]>>})
           /\ Answer(v, <<IF deploy.call = "series" THEN req[v].points ELSE s3[Behind(k)]>>)
  <2>1. Right(<<IF deploy.call = "series" THEN req[v].points ELSE s3[Behind(k)]>>)
    BY <1>4, <1>5
  <2>2. Fine(v)
    BY <1>6, <2>1, AnswerFine
  <2>3. Backed(k, s3[Behind(k)])
    <3>1. CASE k = latest_key
      <4>1. Behind(k) = _LATEST_KEY
        BY <3>1, CacheKeysApart DEF Behind
      <4>2. s3[_LATEST_KEY] \in Times /\ s3[_LATEST_KEY] \in Nat
        BY <1>6, <4>1, TimesAreNat DEF StoreInv, StoreTyped
      <4>3. QED
        BY <1>6, <3>1, <4>1, <4>2, CacheKeysApart DEF Backed
    <3>2. CASE k = registry_key
      BY <3>2, RegistryBacked
    <3>3. CASE k \in BodyKeys
      <4>1. PICK t \in Times : k = snap_body_key(t)
        BY <3>3 DEF BodyKeys
      <4>2. Behind(k) = _snapshot_key(t)
        BY <4>1, CacheKeysApart DEF Behind
      <4>3. s3[Behind(k)] = t /\ Published(t)
        BY <1>6, <4>2 DEF StoreInv, StoreTyped, Published
      <4>4. QED
        BY <4>1, <4>3, BodyBacked
    <3>4. QED
      BY <1>3, <3>1, <3>2, <3>3
  <2>4. QED
    BY <1>6, <2>2, <2>3, TasksGrow
<1>7. CASE UNCHANGED tasks /\ Answer(v, IF deploy.call = "series" THEN <<req[v].points>> ELSE <<>>)
  BY <1>5, <1>7, AnswerFine, TasksAlone
<1>8. QED
  BY <1>1, <1>6, <1>7 DEF _get_cached_object

LEMMA StepKeeps ==
    ASSUME IInv, NEW v \in Viewers, Ask(v) \/ Step(v)
    PROVE  IInv'
<1>1. Frame /\ UNCHANGED db
  BY DEF Frame, Ask, Step, _cache_get, _cached_list, ListS3, list_tilesets,
         _station_series_points, _get_cached_object
<1>2. StoreInv' /\ Grows /\ Carries
  BY <1>1, FrameKeeps DEF IInv
<1>3. DbBacked'
  BY <1>1, <1>2, DbAlone DEF IInv
<1>4. \A times : listing.keys = times => Listable(times)
  BY DEF IInv, RequestsSound
<1>5. ASSUME Fine(v), TasksBacked', \A times : listing'.keys = times => Listable(times)
      PROVE  IInv'
  <2>1. RequestsSound' /\ ShownOrdered'
    BY <1>1, <1>2, <1>5, FineKeeps DEF IInv, Frame
  <2>2. QED
    BY <1>2, <1>3, <1>5, <2>1 DEF IInv
<1>6. CASE Ask(v)
  <2>1. Fine(v)
    BY <1>6, AskFine DEF IInv
  <2>2. UNCHANGED <<listing, tasks>>
    BY <1>6 DEF Ask
  <2>3. QED
    BY <1>2, <1>4, <1>5, <2>1, <2>2, TasksAlone DEF IInv
<1>7. CASE _cache_get(v)
  <2>1. Fine(v)
    BY <1>7, GetFine DEF IInv
  <2>2. UNCHANGED <<listing, tasks>>
    BY <1>7 DEF _cache_get
  <2>3. QED
    BY <1>2, <1>4, <1>5, <2>1, <2>2, TasksAlone DEF IInv
<1>8. CASE _cached_list(v)
  <2>1. UNCHANGED <<listing, tasks>>
    BY <1>8 DEF _cached_list
  <2>2. CASE Listed(v, listing.keys)
    <3>1. Fine(v)
      BY <1>4, <2>2, ListedFine DEF IInv
    <3>2. QED
      BY <1>2, <1>4, <1>5, <2>1, <3>1, TasksAlone DEF IInv
  <2>3. CASE req' = [req EXCEPT ![v].at = "listing"] /\ UNCHANGED shown
    <3>1. Fine(v)
      BY <2>3, StageFine DEF IInv
    <3>2. QED
      BY <1>2, <1>4, <1>5, <2>1, <3>1, TasksAlone DEF IInv
  <2>4. QED
    BY <1>8, <2>2, <2>3 DEF _cached_list
<1>9. CASE ListS3(v)
  <2>1. PICK times \in {SnapshotTimes, {}} : listing'.keys = times /\ Listed(v, times)
    BY <1>9 DEF ListS3
  <2>2. Listable(times) /\ UNCHANGED tasks
    BY <1>9, <2>1, SnapshotsListable DEF ListS3
  <2>3. Fine(v)
    BY <2>1, <2>2, ListedFine DEF IInv
  <2>4. QED
    BY <1>2, <1>5, <2>1, <2>2, <2>3, TasksAlone DEF IInv
<1>10. CASE list_tilesets(v)
  <2>1. PICK unread : LET entries == compute_tilesets_entries(req[v].keys, unread)
                      IN  Answer(v, <<entries>>) /\ _cache_set_bg({<<tilesets_key, entries>>})
    BY <1>10 DEF list_tilesets
  <2>2. PICK entries : entries = compute_tilesets_entries(req[v].keys, unread)
    OBVIOUS
  <2>3. /\ req[v].at = "assemble" /\ deploy.call = "tilesets" /\ UNCHANGED listing
        /\ Answer(v, <<entries>>) /\ _cache_set_bg({<<tilesets_key, entries>>})
    BY <1>10, <2>1, <2>2 DEF list_tilesets
  <2>4. Listable(req[v].keys)
    BY <2>3 DEF IInv, RequestsSound, Sound
  <2>5. Backed(tilesets_key, entries)
    BY <2>2, <2>4, EntriesPublished
  <2>6. Right(<<entries>>)
    BY <2>3 DEF Right
  <2>7. Fine(v) /\ TasksBacked'
    BY <1>2, <2>3, <2>5, <2>6, AnswerFine, TasksGrow DEF IInv
  <2>8. QED
    BY <1>4, <1>5, <2>3, <2>7
<1>11. CASE _station_series_points(v)
  <2>1. Fine(v) /\ TasksBacked'
    BY <1>2, <1>11, PointsFine DEF IInv
  <2>2. UNCHANGED listing
    BY <1>11 DEF _station_series_points
  <2>3. QED
    BY <1>4, <1>5, <2>1, <2>2
<1>12. CASE _get_cached_object(v)
  <2>1. Fine(v) /\ TasksBacked'
    BY <1>2, <1>12, ObjectFine DEF IInv
  <2>2. UNCHANGED listing
    BY <1>12 DEF _get_cached_object
  <2>3. QED
    BY <1>4, <1>5, <2>1, <2>2
<1>13. QED
  BY <1>6, <1>7, <1>8, <1>9, <1>10, <1>11, <1>12 DEF Step

\* A write-back lands, however late (_cache_set).
LEMMA WriteKeeps ==
    ASSUME IInv, _cache_set
    PROVE  IInv'
<1>1. Frame /\ UNCHANGED <<listing, req, shown>>
  BY DEF Frame, _cache_set
<1>2. StoreInv' /\ Grows /\ Carries
  BY <1>1, FrameKeeps DEF IInv
<1>3. PICK w \in BagToSet(tasks) :
        /\ tasks' = tasks (-) SetToBag({w})
        /\ UNCHANGED db \/ db' = SetEx(db, w[1], w[2], CacheTTL)
  BY DEF _cache_set
<1>4. Backed(w[1], w[2])'
  BY <1>2 DEF IInv, TasksBacked, Carries
<1>5. DbBacked'
  <2>1. PICK k, x : k = w[1] /\ x = w[2]
    OBVIOUS
  <2>2. CASE db' = SetEx(db, k, x, CacheTTL)
    BY <1>2, <1>4, <2>1, <2>2, DbSet DEF IInv
  <2>3. QED
    BY <1>2, <1>3, <2>1, <2>2, DbAlone DEF IInv
<1>6. TasksBacked'
  <2>1. BagToSet(tasks') \subseteq BagToSet(tasks)
    BY <1>3, BagDomains
  <2>2. QED
    BY <1>2, <2>1 DEF IInv, TasksBacked, Carries, BagToSet
<1>7. RequestsSound' /\ ShownOrdered'
  BY <1>1, <1>2, RequestsAlone DEF IInv, RequestsSound, Frame
<1>8. QED
  BY <1>2, <1>5, <1>6, <1>7 DEF IInv

LEMMA AgesKeeps ==
    ASSUME IInv, ListingAges
    PROVE  IInv'
<1>1. Frame /\ UNCHANGED <<db, tasks, req, shown>>
  BY DEF Frame, ListingAges
<1>2. StoreInv' /\ Grows /\ Carries
  BY <1>1, FrameKeeps DEF IInv
<1>3. DbBacked' /\ TasksBacked'
  BY <1>1, <1>2, DbAlone, TasksAlone DEF IInv
<1>4. listing'.keys = {} \/ listing'.keys = listing.keys
  BY DEF ListingAges, NoListing
<1>5. \A times : listing'.keys = times => Listable(times)
  BY <1>4 DEF IInv, RequestsSound, Listable
<1>6. RequestsSound' /\ ShownOrdered'
  BY <1>1, <1>2, <1>5, RequestsAlone DEF IInv, Frame
<1>7. QED
  BY <1>2, <1>3, <1>6 DEF IInv

LEMMA ScraperKeeps ==
    ASSUME IInv, ScraperNext, UNCHANGED readerVars
    PROVE  IInv'
<1>1. UNCHANGED deploy
  BY DEF ScraperNext, Cycle, _ensure_lifecycle_applied, LifecycleFails,
         _maybe_bootstrap_registry_hash, _refresh_registry_if_changed, RegistryRaises, PutRegistry,
         PutRegistryMeta, RegistryUploadFails, _warm_registry_cache, _get_token, _refresh_token,
         _get_stations, _upload_snapshot, UploadFails, WarmLatest, WarmTilesets,
         _warm_recent_snapshot_bodies, _warm_station_series, Restart, SmnChanges, TokenEnds,
         Expire, Sweep, Later, Tick
<1>2. StoreInv' /\ Grows
  BY ScraperKeepsStore DEF IInv
<1>3. Carries
  BY <1>2, GrowsCarries DEF IInv
<1>4. DbBacked'
  BY <1>3, ScraperKeepsCache DEF IInv
<1>5. TasksBacked'
  BY <1>3, TasksAlone DEF IInv, readerVars
<1>6. RequestsSound' /\ ShownOrdered'
  BY <1>1, <1>2, RequestsAlone DEF IInv, RequestsSound, readerVars
<1>7. QED
  BY <1>2, <1>4, <1>5, <1>6 DEF IInv

-----------------------------------------------------------------------------
(* The theorems *)

LEMMA InitInv == Init => IInv
<1> SUFFICES ASSUME Init
             PROVE  IInv
  OBVIOUS
<1>1. StoreInv
  <2>1. ScraperTyped
    BY TimesAreNat DEF Init, ScraperInit, Fresh, ScraperTyped, ScraperFields
  <2>2. DOMAIN s3 = {} /\ scraper.at = "idle"
    BY DEF Init, ScraperInit, Fresh
  <2>3. QED
    BY <2>1, <2>2 DEF StoreInv, StoreTyped, UploadOrdered, Uploading, LatestBacked, Stored
<1>2. DbBacked /\ TasksBacked
  BY DEF Init, ScraperInit, NoKeys, EmptyBag, SetToBag, BagToSet, DbBacked, TasksBacked
<1>3. RequestsSound
  <2>1. deploy.call \in Calls
    BY WeatherAssumption DEF Init, ScraperInit
  <2>2. Listable({})
    BY DEF Listable
  <2>3. listing.keys = {} /\ req = [v \in Viewers |-> Idle]
    BY DEF Init, NoListing
  <2>4. QED
    BY <2>1, <2>2, <2>3, IdleSound DEF RequestsSound
<1>4. ShownOrdered
  BY DEF Init, ShownOrdered
<1>5. QED
  BY <1>1, <1>2, <1>3, <1>4 DEF IInv

LEMMA NextInv == IInv /\ [Next]_vars => IInv'
<1> SUFFICES ASSUME IInv, [Next]_vars
             PROVE  IInv'
  OBVIOUS
<1>1. CASE UNCHANGED vars
  <2>1. Frame /\ UNCHANGED <<db, tasks, req, shown, listing>>
    BY <1>1 DEF vars, Frame
  <2>2. StoreInv' /\ Grows /\ Carries
    BY <2>1, FrameKeeps DEF IInv
  <2>3. DbBacked' /\ TasksBacked'
    BY <2>1, <2>2, DbAlone, TasksAlone DEF IInv
  <2>4. RequestsSound' /\ ShownOrdered'
    BY <2>1, <2>2, RequestsAlone DEF IInv, RequestsSound, Frame
  <2>5. QED
    BY <2>2, <2>3, <2>4 DEF IInv
<1>2. CASE Next
  BY <1>2, ScraperKeeps, StepKeeps, WriteKeeps, AgesKeeps DEF Next
<1>3. QED
  BY <1>1, <1>2

LEMMA IInvHolds == Spec => []IInv
BY InitInv, NextInv, PTL DEF Spec

\* Whenever latest.json is read, the snapshot it repeats is stored under its own
\* time with its count, or is past its retention: whatever upload failed, wherever
\* the process was stopped and however many cycles came before (_upload_snapshot).
THEOREM LatestBackedHolds == Spec => []LatestBacked
<1>1. IInv => LatestBacked
  BY DEF IInv, StoreInv
<1>2. QED
  BY <1>1, IInvHolds, PTL

\* Redis is never ahead of S3, whoever wrote what it holds and however late: the
\* scraper that warms it (_run_sync) or a write-back of a reader (_cache_set_bg).
THEOREM CacheBehindStoreHolds == Spec => []CacheBehindStore
<1>1. IInv => CacheBehindStore
  BY DEF IInv, DbBacked, Backed, CacheBehindStore, Has
<1>2. QED
  BY <1>1, IInvHolds, PTL

\* A series, cached or shown, has every reading once, in the order of observation,
\* and only readings of the station: for every feed, and whether the scraper
\* pivoted it (_warm_station_series) or a request did (_station_series_points).
THEOREM SeriesOrderedHolds == Spec => []SeriesOrdered
<1>1. IInv => SeriesOrdered
  <2> SUFFICES ASSUME IInv
               PROVE  SeriesOrdered
    OBVIOUS
  <2>1. ASSUME NEW s \in Stations, Has(db, series_key(s))
        PROVE  WellFormed(s, db[series_key(s)].val)
    BY <2>1 DEF IInv, DbBacked, Backed, Has
  <2>2. ASSUME deploy.call = "series", NEW v \in Viewers, shown[v] # <<>>
        PROVE  WellFormed(Asked, shown[v][1])
    BY <2>2 DEF IInv, ShownOrdered
  <2>3. QED
    BY <2>1, <2>2 DEF SeriesOrdered, WellFormed
<1>2. QED
  BY <1>1, IInvHolds, PTL
=============================================================================
