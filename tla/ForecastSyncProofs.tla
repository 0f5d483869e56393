------------------------- MODULE ForecastSyncProofs -------------------------
(***************************************************************************)
(* Proofs about ForecastSync for every product, number of runs, units and  *)
(* overlay layers, every retention and every bound.                        *)
(***************************************************************************)
EXTENDS ForecastSync, FiniteSetTheorems, WellFoundedInduction, NaturalsInduction, TLAPS

-----------------------------------------------------------------------------
(* The invariant *)

\* Redis holds values with a life, and nothing else.
Entries(base) == \A k \in DOMAIN base : base[k] = [val |-> base[k].val, ttl |-> base[k].ttl]

\* Where the loop of a product may wait.
Stops ==
    {"asleep", "runs", "units", "prune", "report"} \cup
    CASE product = "ecmwf_tp"   -> {"known", "steps", "fetch", "index", "seal"}
      [] product = "ecmwf_mslp" -> {"known", "fetch", "seal"}
      [] product = "wrf"        -> {"known", "steps", "fetch", "index", "marker", "layers",
                                    "compare", "latch", "mirror", "register"}
      [] product = "gfs"        -> {"steps", "index", "mirror", "register"}

Typed ==
    /\ shape \in Shapes
    /\ s3 \subseteq Ids \X Runs \X Units \X Assets
    /\ retired \subseteq Ids \X Runs
    /\ pc \in Stops
    /\ walk \in Walks
    /\ Entries(db)

\* What was once in S3 is there until its run is retired: both stay true for ever.
Uploaded(i, r, u, a) == <<i, r>> \in retired \/ <<i, r, u, a>> \in s3
RunUploaded(i, r) == <<i, r>> \in retired \/ r \in RunsOf(i)

\* The assets of a unit that make it servable.
UnitUploaded(i, r, u) ==
    IF product = "ecmwf_mslp" THEN \A l \in Layers : Uploaded(i, r, u, l)
    ELSE Uploaded(i, r, u, Raster)

\* Redis only knows what was uploaded.
IndexUploaded ==
    /\ \A i \in Ids : \A r \in RunIndex(i) : r \in Runs /\ RunUploaded(i, r)
    /\ \A i \in Ids, r \in Runs : \A u \in UnitIndex(i, r) : u \in Units /\ UnitUploaded(i, r, u)
    /\ \A i \in Ids, r \in Runs, u \in Units :
         \A l \in LayerIndex(i, r, u) : l \in Layers /\ Uploaded(i, r, u, l)
    /\ product = "gfs" =>
         \A i \in Ids, r \in Runs, u \in Units, l \in Layers :
            Has(db, GfsGeojson(i, r, u, l)) => Uploaded(i, r, u, l)

InRun == {"known", "steps", "fetch", "index", "marker", "layers", "compare", "latch", "mirror",
          "register", "seal"}
InUnit == {"index", "marker", "layers", "compare", "latch", "mirror", "register"}
BetweenRuns == {"runs", "units", "prune"}

\* So do the locals of the walk.
WalkOf(w, p) ==
    /\ w.todo \subseteq w.active
    /\ \A r \in w.active : RunUploaded(w.id, r)
    /\ p = "units" => w.todo # {}
    /\ p \in InRun => w.run \in w.active
    /\ p \in InUnit \/ (p = "fetch" /\ product # "ecmwf_mslp") => w.unit \in w.listed
    /\ w.units \subseteq w.listed
    /\ \A u \in w.listed : Uploaded(w.id, w.run, u, Raster)
    /\ \A u \in w.known : UnitUploaded(w.id, w.run, u)
    /\ product = "ecmwf_mslp" =>
         \A u \in w.stored : u \in Units /\ UnitUploaded(w.id, w.run, u)
    /\ product # "ecmwf_mslp" =>
         \A l \in w.stored : l \in Layers /\ Uploaded(w.id, w.run, w.unit, l)
    /\ \A l \in w.layers : Uploaded(w.id, w.run, w.unit, l)
    /\ p \in BetweenRuns => w.known = {} /\ w.stored = {} /\ w.layers = {}

WalkUploaded == WalkOf(walk, pc)

\* A run that is indexed and still among the newest was among those listed when
\* the walk began: what is published later is not indexed yet, and an older run
\* never gets newer.
WalkCovers ==
    pc \notin {"asleep", "runs", "report"} =>
        \A i \in Ids : i = walk.id => RunIndex(i) \cap Newest(RunsOf(i)) \subseteq walk.active

\* At most as many runs as are to be kept are listed.
WalkBounded == IsFiniteSet(walk.active) /\ Cardinality(walk.active) <= Keep

IdsDone ==
    CASE pc = "report" -> Ids
      [] pc = "asleep" -> {}
      [] OTHER         -> {i \in Ids : i < walk.id}

DoneBounded ==
    outcome = "ok" =>
        \A i \in IdsDone :
            RunIndex(i) \cap RunsOf(i) # {} => Cardinality(RunIndex(i)) <= Keep

IInv == Typed /\ IndexUploaded /\ WalkUploaded /\ WalkCovers /\ WalkBounded /\ DoneBounded

-----------------------------------------------------------------------------
(* The newest runs *)

\* A set of numbers has a least element; a bounded one, a greatest.
LEMMA LeastExists ==
    ASSUME NEW S \in SUBSET Nat, S # {}
    PROVE  \E m \in S : \A y \in S : m <= y
<1>1. IsWellFoundedOn(OpToRel(<, Nat), Nat)
  BY NatLessThanWellFounded
<1>2. PICK m \in S : \A y \in S : <<y, m>> \notin OpToRel(<, Nat)
  BY <1>1, WFMin
<1>3. \A y \in S : ~(y < m)
  BY <1>2 DEF OpToRel
<1>4. QED
  BY <1>3

LEMMA GreatestExists ==
    ASSUME NEW n \in Nat, NEW S \in SUBSET (1..n), S # {}
    PROVE  \E m \in S : \A y \in S : y <= m
<1> DEFINE T == {k \in Nat : n - k \in S}
<1>1. PICK x \in S : TRUE
  OBVIOUS
<1>2. n - x \in T
  BY <1>1
<1>3. PICK k \in T : \A j \in T : k <= j
  BY <1>2, LeastExists
<1>4. \A y \in S : n - y \in T
  OBVIOUS
<1>5. \A y \in S : y <= n - k
  BY <1>3, <1>4
<1>6. QED
  BY <1>3, <1>5

LEMMA HighestIn ==
    ASSUME NEW n \in Nat, NEW S \in SUBSET (1..n), S # {}
    PROVE  Highest(S) \in S
BY GreatestExists DEF Highest

LEMMA LowestIn ==
    ASSUME NEW n \in Nat, NEW S \in SUBSET (1..n), S # {}
    PROVE  Lowest(S) \in S /\ \A y \in S : Lowest(S) <= y
<1>1. S \in SUBSET Nat
  OBVIOUS
<1>2. QED
  BY <1>1, LeastExists DEF Lowest

LEMMA NewestSubset == \A S : Newest(S) \subseteq S
BY DEF Newest

\* The newest runs are at most as many as are to be kept: all of them are above
\* the lowest of them, which has at most so many above it.
LEMMA NewestBounded ==
    ASSUME NEW n \in Nat, NEW S \in SUBSET (1..n)
    PROVE  IsFiniteSet(Newest(S)) /\ Cardinality(Newest(S)) <= Keep
<1>1. IsFiniteSet(S) /\ Newest(S) \in SUBSET S /\ Newest(S) \in SUBSET Nat
  <2>1. IsFiniteSet(1..n)
    BY FS_Interval
  <2>2. IsFiniteSet(S)
    BY <2>1, FS_Subset
  <2>3. Newest(S) \in SUBSET S
    BY NewestSubset
  <2>4. S \in SUBSET Nat
    OBVIOUS
  <2>5. Newest(S) \in SUBSET Nat
    BY <2>3, <2>4
  <2>6. QED
    BY <2>2, <2>3, <2>5
<1>2. IsFiniteSet(Newest(S))
  BY <1>1, FS_Subset
<1>3. CASE Newest(S) = {}
  BY <1>3, FS_EmptySet, ForecastAssumption
<1>4. CASE Newest(S) # {}
  <2>1. PICK m \in Newest(S) : \A y \in Newest(S) : m <= y
    BY <1>1, <1>4, LeastExists
  <2>0. m \in S
    BY <1>1
  <2> DEFINE above == {q \in S : q >= m}
  <2>2. above \in SUBSET S /\ Cardinality(above) <= Keep
    BY <2>0 DEF Newest
  <2>3. Newest(S) \in SUBSET above
    BY <1>1, <2>1
  <2>4. IsFiniteSet(above)
    BY <1>1, <2>2, FS_Subset
  <2>5. /\ Cardinality(Newest(S)) <= Cardinality(above)
        /\ Cardinality(Newest(S)) \in Nat /\ Cardinality(above) \in Nat
    BY <1>2, <2>3, <2>4, FS_Subset, FS_CardinalityType
  <2>6. QED
    BY <1>2, <2>2, <2>5, ForecastAssumption
<1>5. QED
  BY <1>2, <1>3, <1>4

LEMMA NewestNotEmpty ==
    ASSUME NEW n \in Nat, NEW S \in SUBSET (1..n), S # {}
    PROVE  Newest(S) # {}
<1>1. PICK m \in S : \A y \in S : y <= m
  BY GreatestExists
<1>2. {q \in S : q >= m} = {m}
  <2>1. \A q \in S : q >= m => q = m
    BY <1>1
  <2>2. m >= m
    OBVIOUS
  <2>3. QED
    BY <2>1, <2>2
<1>3. Cardinality({q \in S : q >= m}) <= Keep
  BY <1>2, FS_Singleton, ForecastAssumption
<1>4. QED
  BY <1>1, <1>3 DEF Newest

\* A run does not become one of the newest because others arrive, nor because a
\* lower one leaves.
LEMMA NewestWas ==
    ASSUME NEW n \in Nat, NEW S \in SUBSET (1..n), NEW T \in SUBSET (1..n),
           NEW r \in S, r \in Newest(T), \A q \in S : q >= r => q \in T
    PROVE  r \in Newest(S)
<1> DEFINE aboveS == {q \in S : q >= r}
           aboveT == {q \in T : q >= r}
<1>1. aboveS \in SUBSET aboveT /\ aboveT \in SUBSET (1..n)
  OBVIOUS
<1>2. IsFiniteSet(aboveT) /\ IsFiniteSet(aboveS)
  <2>1. IsFiniteSet(1..n)
    BY FS_Interval
  <2>2. IsFiniteSet(aboveT)
    BY <1>1, <2>1, FS_Subset
  <2>3. QED
    BY <1>1, <2>2, FS_Subset
<1>3. /\ Cardinality(aboveS) <= Cardinality(aboveT)
      /\ Cardinality(aboveS) \in Nat /\ Cardinality(aboveT) \in Nat
  BY <1>1, <1>2, FS_Subset, FS_CardinalityType
<1>4. Cardinality(aboveT) <= Keep
  BY DEF Newest
<1>5. QED
  BY <1>3, <1>4, ForecastAssumption DEF Newest

-----------------------------------------------------------------------------
(* The indexes by their keys *)

RunKey(i) ==
    CASE product = "ecmwf_tp"   -> TpForecasts
      [] product = "ecmwf_mslp" -> MslpForecasts
      [] product = "wrf"        -> WrfInits(i)
      [] product = "gfs"        -> GfsCycles(i)

UnitKey(i, r) ==
    CASE product = "ecmwf_tp"   -> TpPeriods(r)
      [] product = "ecmwf_mslp" -> MslpTimestamps(r)
      [] product = "wrf"        -> WrfSteps(i, r)
      [] product = "gfs"        -> GfsSteps(i, r)

LayerKey(i, r, u) == IF product = "wrf" THEN WrfLayers(i, r, u) ELSE GfsLayers(i, r, u)

RunKinds == {"idx:ecmwf_tp:forecasts", "idx:ecmwf_mslp:forecasts", "idx:wrf:init_runs",
             "idx:gfs:cycles"}
UnitKinds == {"idx:ecmwf_tp:periods", "idx:ecmwf_mslp:timestamps", "idx:wrf:steps",
              "idx:gfs:steps"}
LayerKinds == {"idx:wrf:layers", "idx:gfs:layers"}
GeojsonKinds == {"geojson:gfs"}

LEMMA ByKey ==
    ASSUME Typed
    PROVE  /\ \A i : RunIndex(i) = Members(db, RunKey(i))
           /\ \A i, r : UnitIndex(i, r) = Members(db, UnitKey(i, r))
           /\ \A i, r, u : LayerIndex(i, r, u) =
                 IF product \in {"wrf", "gfs"} THEN Members(db, LayerKey(i, r, u)) ELSE {}
<1>1. product \in Products
  BY ForecastAssumption DEF Typed, product
<1>2. QED
  BY <1>1 DEF Products, RunIndex, UnitIndex, LayerIndex, RunKey, UnitKey, LayerKey,
     get_ecmwf_tp_forecasts, get_ecmwf_mslp_forecasts, get_wrf_init_runs, get_gfs_cycles,
     get_ecmwf_tp_periods, get_ecmwf_mslp_timestamps, get_wrf_steps, get_gfs_steps,
     get_wrf_layers, get_gfs_layers

LEMMA KeyKinds ==
    ASSUME Typed
    PROVE  /\ \A i : RunKey(i)[1] \in RunKinds
           /\ \A i, r : UnitKey(i, r)[1] \in UnitKinds
           /\ \A i, r, u : LayerKey(i, r, u)[1] \in LayerKinds
           /\ \A i, r, u, l : GfsGeojson(i, r, u, l)[1] \in GeojsonKinds
<1>1. product \in Products
  BY ForecastAssumption DEF Typed, product
<1>2. QED
  BY <1>1 DEF Products, RunKey, UnitKey, LayerKey, RunKinds, UnitKinds, LayerKinds, GeojsonKinds,
     TpForecasts, MslpForecasts, WrfInits, GfsCycles, TpPeriods, MslpTimestamps, WrfSteps, GfsSteps,
     WrfLayers, GfsLayers, GfsGeojson

\* Two names have two keys; an ECMWF product has one id.
LEMMA KeysDiffer ==
    ASSUME Typed
    PROVE  /\ \A i, j \in Ids : RunKey(i) = RunKey(j) => i = j
           /\ \A i, j \in Ids : \A r, q : UnitKey(i, r) = UnitKey(j, q) => i = j /\ r = q
           /\ \A i, j, r, q, u, w : LayerKey(i, r, u) = LayerKey(j, q, w) => i = j /\ r = q /\ u = w
           /\ \A i, j, r, q, u, w, l, m :
                 GfsGeojson(i, r, u, l) = GfsGeojson(j, q, w, m) => i = j /\ r = q /\ u = w /\ l = m
<1>1. /\ product \in Products /\ shape \in Shapes
      /\ product \in {"ecmwf_tp", "ecmwf_mslp"} => \A i, j \in Ids : i = j
  BY ForecastAssumption DEF Typed, product, Ids
<1>2. \A i, j \in Ids : RunKey(i) = RunKey(j) => i = j
  BY <1>1 DEF Products, RunKey, TpForecasts, MslpForecasts, WrfInits, GfsCycles
<1>3. ASSUME NEW i \in Ids, NEW j \in Ids, NEW r, NEW q, UnitKey(i, r) = UnitKey(j, q)
      PROVE  i = j /\ r = q
  BY <1>1, <1>3 DEF Products, UnitKey, TpPeriods, MslpTimestamps, WrfSteps, GfsSteps
<1>4. ASSUME NEW i, NEW j, NEW r, NEW q, NEW u, NEW w, LayerKey(i, r, u) = LayerKey(j, q, w)
      PROVE  i = j /\ r = q /\ u = w
  BY <1>4 DEF LayerKey, WrfLayers, GfsLayers
<1>5. \A i, j, r, q, u, w, l, m :
        GfsGeojson(i, r, u, l) = GfsGeojson(j, q, w, m) => i = j /\ r = q /\ u = w /\ l = m
  BY DEF GfsGeojson
<1>6. QED
  BY <1>2, <1>3, <1>4, <1>5

-----------------------------------------------------------------------------
(* What a call of Redis does to the members of a key *)

LEMMA SetExMembers ==
    ASSUME NEW base, NEW k, NEW v, NEW ttl
    PROVE  /\ \A x : Members(SetEx(base, k, v, ttl), x) = IF x = k THEN v ELSE Members(base, x)
           /\ \A x : Has(SetEx(base, k, v, ttl), x) <=> x = k \/ Has(base, x)
           /\ Entries(base) => Entries(SetEx(base, k, v, ttl))
<1>1. DOMAIN SetEx(base, k, v, ttl) = DOMAIN base \cup {k}
  BY DEF SetEx
<1>2. SetEx(base, k, v, ttl)[k] = [val |-> v, ttl |-> ttl]
  BY DEF SetEx
<1>3. \A x \in DOMAIN base : x # k => SetEx(base, k, v, ttl)[x] = base[x]
  BY DEF SetEx
<1> HIDE DEF SetEx
<1>4. QED
  BY <1>1, <1>2, <1>3 DEF Members, Has, Entries

LEMMA AddMembersMembers ==
    ASSUME NEW base, NEW k, NEW ms, NEW ttl
    PROVE  /\ \A x : Members(AddMembers(base, k, ms, ttl), x) =
                       IF x = k THEN Members(base, x) \cup ms ELSE Members(base, x)
           /\ \A x : Has(AddMembers(base, k, ms, ttl), x) => x = k \/ Has(base, x)
           /\ Entries(base) => Entries(AddMembers(base, k, ms, ttl))
<1>1. CASE ms = {}
  BY <1>1 DEF AddMembers
<1>2. CASE ms # {}
  BY <1>2, SetExMembers DEF AddMembers
<1>3. QED
  BY <1>1, <1>2

LEMMA KeepMembersMembers ==
    ASSUME NEW base, NEW k, NEW keep, Entries(base)
    PROVE  /\ \A x : Members(KeepMembers(base, k, keep), x) =
                       IF x = k THEN Members(base, x) \cap keep ELSE Members(base, x)
           /\ \A x : Has(KeepMembers(base, k, keep), x) => Has(base, x)
           /\ Entries(KeepMembers(base, k, keep))
<1>1. CASE Members(base, k) \cap keep = {}
  BY <1>1 DEF KeepMembers, Del, Members, Has, Entries
<1>2. CASE Members(base, k) \cap keep # {}
  <2> DEFINE e == [base[k] EXCEPT !.val = @ \cap keep]
             kept == [base EXCEPT ![k] = e]
  <2>1. k \in DOMAIN base
    BY <1>2 DEF Members, Has
  <2>2. e.val = base[k].val \cap keep /\ e = [val |-> e.val, ttl |-> e.ttl]
    <3>1. PICK v, t : base[k] = [val |-> v, ttl |-> t]
      BY <2>1 DEF Entries
    <3>2. e = [[val |-> v, ttl |-> t] EXCEPT !.val = v \cap keep]
      BY <3>1
    <3>3. e = [val |-> v \cap keep, ttl |-> t]
      BY <3>2
    <3>4. QED
      BY <3>1, <3>3
  <2> HIDE DEF e
  <2>3. DOMAIN kept = DOMAIN base /\ \A x \in DOMAIN base : kept[x] = IF x = k THEN e ELSE base[x]
    OBVIOUS
  <2>4. KeepMembers(base, k, keep) = kept
    BY <1>2 DEF KeepMembers, e
  <2> HIDE DEF kept
  <2>5. QED
    BY <2>1, <2>2, <2>3, <2>4 DEF Members, Has, Entries
<1>3. QED
  BY <1>1, <1>2

\* Time takes a key away or leaves what it holds.
LEMMA AgedMembers ==
    ASSUME NEW base, Entries(base)
    PROVE  /\ \A x : Members(Aged(base), x) \in {Members(base, x), {}}
           /\ \A x : Has(Aged(base), x) => Has(base, x)
           /\ Entries(Aged(base))
<1>1. DOMAIN Aged(base) \subseteq DOMAIN base
  BY DEF Aged
<1>2. \A x \in DOMAIN Aged(base) : Aged(base)[x] = [base[x] EXCEPT !.ttl = @ - 1]
  BY DEF Aged
<1>3. \A x \in DOMAIN Aged(base) : Aged(base)[x] = [val |-> base[x].val, ttl |-> base[x].ttl - 1]
  BY <1>1, <1>2 DEF Entries
<1>4. QED
  BY <1>1, <1>3 DEF Members, Has, Entries

-----------------------------------------------------------------------------
(* What a step does to the indexes *)

LEMMA SameShape ==
    ASSUME UNCHANGED shape
    PROVE  /\ product' = product /\ Ids' = Ids /\ Runs' = Runs /\ Units' = Units /\ Layers' = Layers
           /\ Assets' = Assets /\ Walks' = Walks /\ NoWalk' = NoWalk /\ Stops' = Stops
           /\ \A i : RunKey(i)' = RunKey(i)
           /\ \A i, r : UnitKey(i, r)' = UnitKey(i, r)
           /\ \A i, r, u : LayerKey(i, r, u)' = LayerKey(i, r, u)
<1>1. product' = product /\ Ids' = Ids /\ Runs' = Runs /\ Units' = Units /\ Layers' = Layers
  BY DEF product, Ids, Runs, Units, Layers
<1>2. QED
  BY <1>1 DEF Assets, Walks, NoWalk, Stops, RunKey, UnitKey, LayerKey

LEMMA ByKeyNext ==
    ASSUME Typed, UNCHANGED shape
    PROVE  /\ \A i : RunIndex(i)' = Members(db', RunKey(i))
           /\ \A i, r : UnitIndex(i, r)' = Members(db', UnitKey(i, r))
           /\ \A i, r, u : LayerIndex(i, r, u)' =
                 IF product \in {"wrf", "gfs"} THEN Members(db', LayerKey(i, r, u)) ELSE {}
<1>1. product \in Products
  BY ForecastAssumption DEF Typed, product
<1>2. product' = product
  BY SameShape
<1>3. QED
  BY <1>1, <1>2 DEF Products, RunIndex, UnitIndex, LayerIndex, RunKey, UnitKey, LayerKey,
     get_ecmwf_tp_forecasts, get_ecmwf_mslp_forecasts, get_wrf_init_runs, get_gfs_cycles,
     get_ecmwf_tp_periods, get_ecmwf_mslp_timestamps, get_wrf_steps, get_gfs_steps,
     get_wrf_layers, get_gfs_layers

\* The run index, and what a run has in Redis besides.
RunIndexKept == \A i : RunIndex(i)' = RunIndex(i)
UnitIndexKept == \A i, r : UnitIndex(i, r)' = UnitIndex(i, r)
LayerIndexKept == \A i, r, u : LayerIndex(i, r, u)' = LayerIndex(i, r, u)
NoNewGeojson == \A i, r, u, l : Has(db, GfsGeojson(i, r, u, l))' => Has(db, GfsGeojson(i, r, u, l))
IndexesKept == RunIndexKept /\ UnitIndexKept /\ LayerIndexKept /\ NoNewGeojson

\* A run and units of it are indexed.
Indexed(i, r, us) ==
    /\ \A j \in Ids : RunIndex(j)' = IF j = i THEN RunIndex(j) \cup {r} ELSE RunIndex(j)
    /\ \A j \in Ids, q \in Runs :
          UnitIndex(j, q)' = IF j = i /\ q = r THEN UnitIndex(j, q) \cup us ELSE UnitIndex(j, q)
    /\ LayerIndexKept /\ NoNewGeojson

\* Overlays of a unit are indexed.
LayersIndexed(i, r, u, ls) ==
    /\ RunIndexKept /\ UnitIndexKept /\ NoNewGeojson
    /\ \A j, q, w : LayerIndex(j, q, w)' \subseteq
          IF j = i /\ q = r /\ w = u THEN LayerIndex(j, q, w) \cup ls ELSE LayerIndex(j, q, w)

\* The run index is cut down.
RunsCut(i, keep) ==
    /\ \A j \in Ids : RunIndex(j)' = IF j = i THEN RunIndex(j) \cap keep ELSE RunIndex(j)
    /\ UnitIndexKept /\ LayerIndexKept /\ NoNewGeojson

\* Keys expire.
Shrunk ==
    /\ \A i : RunIndex(i)' \in {RunIndex(i), {}}
    /\ \A i, r : UnitIndex(i, r)' \subseteq UnitIndex(i, r)
    /\ \A i, r, u : LayerIndex(i, r, u)' \subseteq LayerIndex(i, r, u)
    /\ NoNewGeojson

LEMMA DbKept ==
    ASSUME Typed, UNCHANGED <<shape, db>>
    PROVE  IndexesKept /\ Entries(db)'
<1>1. RunIndexKept /\ UnitIndexKept /\ LayerIndexKept
  BY ByKey, ByKeyNext DEF RunIndexKept, UnitIndexKept, LayerIndexKept
<1>2. NoNewGeojson
  BY DEF NoNewGeojson, Has
<1>3. Entries(db)'
  BY DEF Typed, Entries
<1>4. QED
  BY <1>1, <1>2, <1>3 DEF IndexesKept

LEMMA BytesStored ==
    ASSUME Typed, UNCHANGED shape, NEW k, NEW ttl, db' = SetEx(db, k, Bytes, ttl),
           k[1] \notin RunKinds \cup UnitKinds \cup LayerKinds \cup GeojsonKinds
    PROVE  IndexesKept /\ Entries(db)'
<1>1. /\ \A x : x # k => Members(db', x) = Members(db, x) /\ (Has(db', x) => Has(db, x))
      /\ Entries(db')
  BY SetExMembers DEF Typed
<1>2. /\ \A i : RunKey(i) # k
      /\ \A i, r : UnitKey(i, r) # k
      /\ \A i, r, u : LayerKey(i, r, u) # k
      /\ \A i, r, u, l : GfsGeojson(i, r, u, l) # k
  BY KeyKinds
<1>3. QED
  BY <1>1, <1>2, ByKey, ByKeyNext DEF Entries, Has, IndexesKept, RunIndexKept, UnitIndexKept,
     LayerIndexKept, NoNewGeojson

LEMMA RunAndUnitsAdded ==
    ASSUME Typed, UNCHANGED shape, NEW base, Entries(base),
           \A x : x[1] # "idx:wrf:products" =>
                 Members(base, x) = Members(db, x) /\ (Has(base, x) => Has(db, x)),
           NEW i \in Ids, NEW r, NEW us, NEW ttl,
           db' = AddMembers(AddMembers(base, RunKey(i), {r}, ttl), UnitKey(i, r), us, ttl)
    PROVE  Indexed(i, r, us) /\ Entries(db)'
<1> DEFINE b1 == AddMembers(base, RunKey(i), {r}, ttl)
<1>0. db' = AddMembers(b1, UnitKey(i, r), us, ttl)
  OBVIOUS
<1>1. /\ \A x : Members(b1, x) = IF x = RunKey(i) THEN Members(base, x) \cup {r} ELSE Members(base, x)
      /\ \A x : Has(b1, x) => x = RunKey(i) \/ Has(base, x)
      /\ Entries(b1)
  BY AddMembersMembers
<1> HIDE DEF b1
<1>2. /\ \A x : Members(db', x) = IF x = UnitKey(i, r) THEN Members(b1, x) \cup us ELSE Members(b1, x)
      /\ \A x : Has(db', x) => x = UnitKey(i, r) \/ Has(b1, x)
      /\ Entries(db')
  <2> DEFINE b2 == AddMembers(b1, UnitKey(i, r), us, ttl)
  <2>1. /\ \A x : Members(b2, x) = IF x = UnitKey(i, r) THEN Members(b1, x) \cup us ELSE Members(b1, x)
        /\ \A x : Has(b2, x) => x = UnitKey(i, r) \/ Has(b1, x)
        /\ Entries(b2)
    BY <1>1, AddMembersMembers
  <2>2. db' = b2
    BY <1>0
  <2> HIDE DEF b2
  <2>3. QED
    BY <2>1, <2>2
<1>3. /\ \A j : RunKey(j)[1] # "idx:wrf:products" /\ \A q : RunKey(j) # UnitKey(i, q)
      /\ \A j, q : UnitKey(j, q)[1] # "idx:wrf:products" /\ UnitKey(j, q) # RunKey(i)
      /\ \A j, q, w : /\ LayerKey(j, q, w)[1] # "idx:wrf:products"
                      /\ LayerKey(j, q, w) # RunKey(i) /\ LayerKey(j, q, w) # UnitKey(i, r)
      /\ \A j, q, w, l : /\ GfsGeojson(j, q, w, l)[1] # "idx:wrf:products"
                         /\ GfsGeojson(j, q, w, l) # RunKey(i) /\ GfsGeojson(j, q, w, l) # UnitKey(i, r)
  BY KeyKinds DEF RunKinds, UnitKinds, LayerKinds, GeojsonKinds
<1>4. ASSUME NEW j \in Ids
      PROVE  RunIndex(j)' = IF j = i THEN RunIndex(j) \cup {r} ELSE RunIndex(j)
  <2>1. RunIndex(j)' = Members(b1, RunKey(j))
    BY <1>2, <1>3, ByKeyNext
  <2>2. Members(base, RunKey(j)) = RunIndex(j)
    BY <1>3, ByKey
  <2>3. RunKey(j) = RunKey(i) <=> j = i
    BY KeysDiffer
  <2>4. QED
    BY <1>1, <2>1, <2>2, <2>3
<1>5. ASSUME NEW j \in Ids, NEW q \in Runs
      PROVE  UnitIndex(j, q)' = IF j = i /\ q = r THEN UnitIndex(j, q) \cup us ELSE UnitIndex(j, q)
  <2>1. Members(b1, UnitKey(j, q)) = UnitIndex(j, q)
    BY <1>1, <1>3, ByKey
  <2>2. UnitIndex(j, q)' = Members(db', UnitKey(j, q))
    BY ByKeyNext
  <2>3. UnitKey(j, q) = UnitKey(i, r) <=> j = i /\ q = r
    BY KeysDiffer
  <2>4. QED
    BY <1>2, <2>1, <2>2, <2>3
<1>6. LayerIndexKept
  <2>1. ASSUME NEW j, NEW q, NEW w
        PROVE  Members(db', LayerKey(j, q, w)) = Members(db, LayerKey(j, q, w))
    <3>1. Members(db', LayerKey(j, q, w)) = Members(b1, LayerKey(j, q, w))
      BY <1>2, <1>3
    <3>2. Members(b1, LayerKey(j, q, w)) = Members(base, LayerKey(j, q, w))
      BY <1>1, <1>3
    <3>3. QED
      BY <1>3, <3>1, <3>2
  <2>2. QED
    BY <2>1, ByKey, ByKeyNext DEF LayerIndexKept
<1>7. NoNewGeojson
  BY <1>1, <1>2, <1>3 DEF NoNewGeojson, Has
<1>8. QED
  BY <1>2, <1>4, <1>5, <1>6, <1>7 DEF Indexed, Entries

LEMMA LayersAdded ==
    ASSUME Typed, product \in {"wrf", "gfs"}, UNCHANGED shape, NEW i, NEW r, NEW u, NEW ls, NEW ttl,
           db' = AddMembers(db, LayerKey(i, r, u), ls, ttl)
    PROVE  LayersIndexed(i, r, u, ls) /\ Entries(db)'
<1> DEFINE k == LayerKey(i, r, u)
           b1 == AddMembers(db, k, ls, ttl)
<1>1. /\ \A x : Members(b1, x) = IF x = k THEN Members(db, x) \cup ls ELSE Members(db, x)
      /\ \A x : Has(b1, x) => x = k \/ Has(db, x)
      /\ Entries(b1)
  BY AddMembersMembers DEF Typed
<1>2. db' = b1
  OBVIOUS
<1> HIDE DEF b1
<1>3. /\ \A j : RunKey(j) # k
      /\ \A j, q : UnitKey(j, q) # k
      /\ \A j, q, w, l : GfsGeojson(j, q, w, l) # k
  BY KeyKinds DEF RunKinds, UnitKinds, LayerKinds, GeojsonKinds
<1>4. RunIndexKept /\ UnitIndexKept
  BY <1>1, <1>2, <1>3, ByKey, ByKeyNext DEF RunIndexKept, UnitIndexKept
<1>5. NoNewGeojson
  BY <1>1, <1>2, <1>3 DEF NoNewGeojson, Has
<1>6. ASSUME NEW j, NEW q, NEW w
      PROVE  LayerIndex(j, q, w)' \subseteq
               IF j = i /\ q = r /\ w = u THEN LayerIndex(j, q, w) \cup ls ELSE LayerIndex(j, q, w)
  <2>1. LayerIndex(j, q, w)' = Members(b1, LayerKey(j, q, w))
    BY <1>2, ByKeyNext
  <2>2. LayerIndex(j, q, w) = Members(db, LayerKey(j, q, w))
    BY ByKey
  <2>3. LayerKey(j, q, w) = k => j = i /\ q = r /\ w = u
    BY KeysDiffer
  <2>4. QED
    BY <1>1, <2>1, <2>2, <2>3
<1>7. QED
  BY <1>1, <1>2, <1>4, <1>5, <1>6 DEF LayersIndexed, Entries

LEMMA GfsGeojsonStored ==
    ASSUME Typed, UNCHANGED shape, NEW i, NEW r, NEW u, NEW l, NEW ttl,
           db' = store_gfs_geojson(db, i, r, u, l, ttl)
    PROVE  /\ RunIndexKept /\ UnitIndexKept /\ LayerIndexKept
           /\ \A j, q, w, m : Has(db, GfsGeojson(j, q, w, m))' =>
                 Has(db, GfsGeojson(j, q, w, m)) \/ (j = i /\ q = r /\ w = u /\ m = l)
           /\ Entries(db)'
<1> DEFINE k == GfsGeojson(i, r, u, l)
<1>1. /\ \A x : x # k => Members(db', x) = Members(db, x) /\ (Has(db', x) => Has(db, x))
      /\ Entries(db')
  BY SetExMembers DEF Typed, store_gfs_geojson
<1>2. /\ \A j : RunKey(j) # k
      /\ \A j, q : UnitKey(j, q) # k
      /\ \A j, q, w : LayerKey(j, q, w) # k
  BY KeyKinds DEF RunKinds, UnitKinds, LayerKinds, GeojsonKinds
<1>3. \A j, q, w, m : GfsGeojson(j, q, w, m) = k => j = i /\ q = r /\ w = u /\ m = l
  BY KeysDiffer
<1> HIDE DEF k
<1>4. QED
  BY <1>1, <1>2, <1>3, ByKey, ByKeyNext DEF Entries, Has, RunIndexKept, UnitIndexKept, LayerIndexKept

LEMMA RunsPruned ==
    ASSUME Typed, UNCHANGED shape, NEW i \in Ids, NEW keep, db' = KeepMembers(db, RunKey(i), keep)
    PROVE  RunsCut(i, keep) /\ Entries(db)'
<1> DEFINE k == RunKey(i)
           b1 == KeepMembers(db, k, keep)
<1>1. /\ \A x : Members(b1, x) = IF x = k THEN Members(db, x) \cap keep ELSE Members(db, x)
      /\ \A x : Has(b1, x) => Has(db, x)
      /\ Entries(b1)
  BY KeepMembersMembers DEF Typed
<1>2. db' = b1
  OBVIOUS
<1> HIDE DEF b1
<1>3. /\ \A j, q : UnitKey(j, q) # k
      /\ \A j, q, w : LayerKey(j, q, w) # k
  BY KeyKinds DEF RunKinds, UnitKinds, LayerKinds
<1>4. UnitIndexKept /\ LayerIndexKept /\ NoNewGeojson
  BY <1>1, <1>2, <1>3, ByKey, ByKeyNext DEF UnitIndexKept, LayerIndexKept, NoNewGeojson, Has
<1>5. ASSUME NEW j \in Ids
      PROVE  RunIndex(j)' = IF j = i THEN RunIndex(j) \cap keep ELSE RunIndex(j)
  BY <1>1, <1>2, ByKey, ByKeyNext, KeysDiffer
<1>6. QED
  BY <1>1, <1>2, <1>4, <1>5 DEF RunsCut, Entries

LEMMA Expired ==
    ASSUME Typed, Tick
    PROVE  Shrunk /\ Entries(db)'
<1> DEFINE b1 == Aged(db)
<1>1. /\ \A x : Members(b1, x) \in {Members(db, x), {}}
      /\ \A x : Has(b1, x) => Has(db, x)
      /\ Entries(b1)
  BY AgedMembers DEF Typed
<1>2. db' = b1 /\ UNCHANGED shape
  BY DEF Tick
<1> HIDE DEF b1
<1>3. \A i : RunIndex(i)' \in {RunIndex(i), {}}
  BY <1>1, <1>2, ByKey, ByKeyNext
<1>4. \A i, r : UnitIndex(i, r)' \subseteq UnitIndex(i, r)
  BY <1>1, <1>2, ByKey, ByKeyNext
<1>5. \A i, r, u : LayerIndex(i, r, u)' \subseteq LayerIndex(i, r, u)
  BY <1>1, <1>2, ByKey, ByKeyNext
<1>6. NoNewGeojson
  BY <1>1, <1>2 DEF NoNewGeojson, Has
<1>7. QED
  BY <1>1, <1>2, <1>3, <1>4, <1>5, <1>6 DEF Shrunk, Entries

-----------------------------------------------------------------------------
(* The steps of the loop that write to Redis *)

LEMMA IndexUnitAdds ==
    ASSUME Typed, IndexUnit
    PROVE  Indexed(walk.id, walk.run, {walk.unit}) /\ Entries(db)'
<1> DEFINE i == walk.id
           r == walk.run
           us == {walk.unit}
<1>0. i \in Ids /\ UNCHANGED shape /\ Entries(db) /\ product \in Products
  BY ForecastAssumption DEF Typed, IndexUnit, Walks, product
<1>1. CASE product \in {"ecmwf_tp", "gfs"}
  <2>1. db' = AddMembers(AddMembers(db, RunKey(i), {r}, TTL), UnitKey(i, r), us, TTL)
    BY <1>1 DEF IndexUnit, store_ecmwf_tp_index, add_gfs_index, RunKey, UnitKey
  <2> HIDE DEF i, r, us
  <2>2. Indexed(i, r, us) /\ Entries(db)'
    BY <1>0, <2>1, RunAndUnitsAdded
  <2>3. QED
    BY <2>2 DEF i, r, us
<1>2. CASE product = "wrf"
  <2> DEFINE b == AddMembers(db, WrfProducts, {i}, TTL)
  <2>1. db' = AddMembers(AddMembers(b, RunKey(i), {r}, TTL), UnitKey(i, r), us, TTL)
    BY <1>2 DEF IndexUnit, add_wrf_index, RunKey, UnitKey
  <2>2. /\ Entries(b)
        /\ \A x : x # WrfProducts => Members(b, x) = Members(db, x) /\ (Has(b, x) => Has(db, x))
    BY <1>0, AddMembersMembers
  <2>3. WrfProducts[1] = "idx:wrf:products"
    BY DEF WrfProducts
  <2> HIDE DEF i, r, us, b
  <2>4. Indexed(i, r, us) /\ Entries(db)'
    BY <1>0, <2>1, <2>2, <2>3, RunAndUnitsAdded
  <2>5. QED
    BY <2>4 DEF i, r, us
<1>3. CASE product = "ecmwf_mslp"
  BY <1>3 DEF Typed, Stops, IndexUnit
<1>4. QED
  BY <1>0, <1>1, <1>2, <1>3 DEF Products

\* What Seal indexes.
Sealed == IF product = "ecmwf_tp" THEN walk.listed ELSE (walk.known \cap walk.listed) \cup walk.stored

LEMMA SealAdds ==
    ASSUME Typed, Seal
    PROVE  Indexed(walk.id, walk.run, Sealed) /\ Entries(db)'
<1> DEFINE i == walk.id
           r == walk.run
           us == Sealed
<1>0. i \in Ids /\ UNCHANGED shape /\ Entries(db) /\ product \in {"ecmwf_tp", "ecmwf_mslp"}
  BY ForecastAssumption DEF Typed, Stops, Seal, Walks, product, Products
<1>1. db' = AddMembers(AddMembers(db, RunKey(i), {r}, TTL), UnitKey(i, r), us, TTL)
  BY <1>0 DEF Seal, Sealed, store_ecmwf_tp_index, store_ecmwf_mslp_index, RunKey, UnitKey
<1> HIDE DEF i, r, us
<1>2. Indexed(i, r, us) /\ Entries(db)'
  BY <1>0, <1>1, RunAndUnitsAdded
<1>3. QED
  BY <1>2 DEF i, r, us

\* What RegisterLayers indexes.
Registered == IF product = "wrf" THEN walk.layers ELSE walk.stored

LEMMA RegisterLayersAdds ==
    ASSUME Typed, RegisterLayers
    PROVE  LayersIndexed(walk.id, walk.run, walk.unit, Registered) /\ Entries(db)'
<1> DEFINE i == walk.id
           r == walk.run
           u == walk.unit
           ls == Registered
<1>0. UNCHANGED shape /\ product \in {"wrf", "gfs"}
  BY ForecastAssumption DEF Typed, Stops, RegisterLayers, product, Products
<1>1. db' = AddMembers(db, LayerKey(i, r, u), ls, TTL)
  BY <1>0 DEF RegisterLayers, Registered, add_wrf_layers, add_gfs_layers, LayerKey
<1> HIDE DEF i, r, u, ls
<1>2. LayersIndexed(i, r, u, ls) /\ Entries(db)'
  BY <1>0, <1>1, LayersAdded
<1>3. QED
  BY <1>2 DEF i, r, u, ls

LEMMA PruneCuts ==
    ASSUME Typed, Prune
    PROVE  RunsCut(walk.id, walk.active) /\ Entries(db)'
<1> DEFINE i == walk.id
           keep == walk.active
<1>0. i \in Ids /\ UNCHANGED shape /\ product \in Products
  BY ForecastAssumption DEF Typed, Prune, Walks, product
<1>1. db' = KeepMembers(db, RunKey(i), keep)
  BY <1>0 DEF Prune, Pruned, Products, RunKey, prune_ecmwf_tp_forecasts, prune_ecmwf_mslp_forecasts,
     prune_wrf_inits, prune_gfs_cycles, prune_index_set, prune_sorted_index
<1> HIDE DEF i, keep
<1>2. RunsCut(i, keep) /\ Entries(db)'
  BY <1>0, <1>1, RunsPruned
<1>3. QED
  BY <1>2 DEF i, keep

\* Tiles, the GeoJSON of MSLP and WRF, and markers are in no index.
LEMMA TilesLandAdds ==
    ASSUME Typed, TilesLand
    PROVE  IndexesKept /\ Entries(db)'
<1>0. UNCHANGED shape
  BY DEF TilesLand
<1>1. CASE product = "ecmwf_tp"
  <2> DEFINE k == TpTile(walk.run, walk.unit)
  <2>1. db' = SetEx(db, k, Bytes, TTL)
    BY <1>1 DEF TilesLand, store_ecmwf_tp_tile
  <2>2. k[1] \notin RunKinds \cup UnitKinds \cup LayerKinds \cup GeojsonKinds
    BY DEF TpTile, RunKinds, UnitKinds, LayerKinds, GeojsonKinds
  <2> HIDE DEF k
  <2>3. QED
    BY <1>0, <2>1, <2>2, BytesStored
<1>2. CASE product = "wrf"
  <2> DEFINE k == WrfTile(walk.id, walk.run, walk.unit)
  <2>1. db' = SetEx(db, k, Bytes, TTL)
    BY <1>2 DEF TilesLand, store_wrf_tile
  <2>2. k[1] \notin RunKinds \cup UnitKinds \cup LayerKinds \cup GeojsonKinds
    BY DEF WrfTile, RunKinds, UnitKinds, LayerKinds, GeojsonKinds
  <2> HIDE DEF k
  <2>3. QED
    BY <1>0, <2>1, <2>2, BytesStored
<1>3. QED
  BY <1>1, <1>2 DEF TilesLand

LEMMA GeojsonLandsAdds ==
    ASSUME Typed, NEW t, GeojsonLands(t)
    PROVE  IndexesKept /\ Entries(db)'
<1> DEFINE k == MslpGeojson(walk.run, t)
<1>1. db' = SetEx(db, k, Bytes, TTL) /\ UNCHANGED shape
  BY DEF GeojsonLands, store_ecmwf_mslp_geojson
<1>2. k[1] \notin RunKinds \cup UnitKinds \cup LayerKinds \cup GeojsonKinds
  BY DEF MslpGeojson, RunKinds, UnitKinds, LayerKinds, GeojsonKinds
<1> HIDE DEF k
<1>3. QED
  BY <1>1, <1>2, BytesStored

LEMMA LatchAdds ==
    ASSUME Typed, Latch
    PROVE  IndexesKept /\ Entries(db)'
<1> DEFINE k == WrfDone(walk.id, walk.run, walk.unit)
           ttl == walk.latch
<1>1. db' = SetEx(db, k, Bytes, ttl) /\ UNCHANGED shape
  BY DEF Latch, set_wrf_overlays_complete
<1>2. k[1] \notin RunKinds \cup UnitKinds \cup LayerKinds \cup GeojsonKinds
  BY DEF WrfDone, RunKinds, UnitKinds, LayerKinds, GeojsonKinds
<1> HIDE DEF k, ttl
<1>3. QED
  BY <1>1, <1>2, BytesStored

LEMMA LayerMirroredAdds ==
    ASSUME Typed, NEW l, LayerMirrored(l)
    PROVE  /\ RunIndexKept /\ UnitIndexKept /\ LayerIndexKept
           /\ \A j, q, w, m : Has(db, GfsGeojson(j, q, w, m))' =>
                 \/ Has(db, GfsGeojson(j, q, w, m))
                 \/ InS3(walk.unit, l) /\ j = walk.id /\ q = walk.run /\ w = walk.unit /\ m = l
           /\ product = "gfs" => InS3(walk.unit, l) \/ Has(db, GfsGeojson(walk.id, walk.run, walk.unit, l))
           /\ product = "wrf" => InS3(walk.unit, l)
           /\ Entries(db)'
<1> DEFINE i == walk.id
           r == walk.run
           u == walk.unit
<1>0. UNCHANGED shape
  BY DEF LayerMirrored
<1>1. CASE product = "gfs" /\ get_gfs_geojson(db, i, r, u, l) # None /\ UNCHANGED db
  BY <1>0, <1>1, DbKept DEF IndexesKept, NoNewGeojson, get_gfs_geojson, Get
<1>2. CASE product = "gfs" /\ InS3(u, l) /\ db' = store_gfs_geojson(db, i, r, u, l, TTL)
  <2>1. InS3(walk.unit, l) /\ product = "gfs"
    BY <1>2
  <2> HIDE DEF i, r, u
  <2>2. /\ RunIndexKept /\ UnitIndexKept /\ LayerIndexKept
        /\ \A j, q, w, m : Has(db, GfsGeojson(j, q, w, m))' =>
              Has(db, GfsGeojson(j, q, w, m)) \/ (j = i /\ q = r /\ w = u /\ m = l)
        /\ Entries(db)'
    BY <1>0, <1>2, GfsGeojsonStored
  <2>3. QED
    BY <2>1, <2>2 DEF i, r, u
<1>3. CASE product = "wrf" /\ InS3(u, l) /\ db' = store_wrf_geojson(db, i, r, u, l, TTL)
  <2> DEFINE k == WrfGeojson(i, r, u, l)
  <2>1. db' = SetEx(db, k, Bytes, TTL)
    BY <1>3 DEF store_wrf_geojson
  <2>2. k[1] \notin RunKinds \cup UnitKinds \cup LayerKinds \cup GeojsonKinds
    BY DEF WrfGeojson, RunKinds, UnitKinds, LayerKinds, GeojsonKinds
  <2> HIDE DEF k
  <2>3. IndexesKept /\ Entries(db)'
    BY <1>0, <2>1, <2>2, BytesStored
  <2>4. QED
    BY <1>3, <2>3 DEF IndexesKept, NoNewGeojson
<1>4. QED
  BY <1>1, <1>2, <1>3 DEF LayerMirrored

-----------------------------------------------------------------------------
(* Types *)

\* A walk of which nothing is known.
Bare(w) ==
    /\ w.listed = {} /\ w.known = {} /\ w.units = {} /\ w.unit = 0 /\ w.run = 0
    /\ w.pending = {} /\ w.stored = {} /\ w.layers = {} /\ w.latch = 0

LEMMA NoWalkBare ==
    ASSUME Typed
    PROVE  NoWalk \in Walks /\ Bare(NoWalk) /\ NoWalk.id = 1 /\ NoWalk.active = {} /\ NoWalk.todo = {}
<1>1. shape.ids \in Nat /\ shape.ids > 0 /\ shape.runs \in Nat /\ shape.units \in Nat
  BY ForecastAssumption DEF Typed
<1>2. 1 \in Ids /\ 0 \in 0..shape.runs /\ 0 \in 0..shape.units /\ 0 \in 0..(TTL + RecheckTTL)
  BY <1>1, ForecastAssumption DEF Ids
<1>3. QED
  BY <1>2 DEF NoWalk, Walks, Bare

\* The next id, or none: the walk starts afresh.
LEMMA NextIdMoves ==
    ASSUME Typed, NextId
    PROVE  /\ walk' \in Walks /\ Bare(walk') /\ walk'.active = {} /\ walk'.todo = {}
           /\ \/ pc' = "runs" /\ walk'.id = walk.id + 1 /\ walk.id + 1 \in Ids
              \/ pc' = "report" /\ walk.id + 1 \notin Ids
<1>1. CASE walk.id + 1 \in Ids
  <2>1. walk' = [NoWalk EXCEPT !.id = walk.id + 1] /\ pc' = "runs"
    BY <1>1 DEF NextId
  <2>2. walk' \in Walks /\ Bare(walk') /\ walk'.active = {} /\ walk'.todo = {} /\ walk'.id = walk.id + 1
    BY <1>1, <2>1, NoWalkBare DEF Walks, Bare
  <2>3. QED
    BY <1>1, <2>1, <2>2
<1>2. CASE walk.id + 1 \notin Ids
  <2>1. walk' = NoWalk /\ pc' = "report"
    BY <1>2 DEF NextId
  <2>2. QED
    BY <1>2, <2>1, NoWalkBare
<1>3. QED
  BY <1>1, <1>2

LEMMA RunDoneMoves ==
    ASSUME Typed, RunDone(walk)
    PROVE  /\ walk' \in Walks /\ Bare(walk')
           /\ walk'.id = walk.id /\ walk'.active = walk.active /\ walk'.todo = walk.todo
           /\ pc' = IF walk.todo = {} THEN "prune" ELSE "units"
<1>1. walk.id \in Ids /\ walk.active \in SUBSET Runs /\ walk.todo \in SUBSET Runs
  BY DEF Typed, Walks
<1>2. walk' = [NoWalk EXCEPT !.id = walk.id, !.active = walk.active, !.todo = walk.todo]
  BY DEF RunDone
<1>3. QED
  BY <1>1, <1>2, NoWalkBare DEF RunDone, Walks, Bare

LEMMA WalkWith ==
    ASSUME NEW w \in Walks
    PROVE  /\ \A x \in 0..shape.runs : [w EXCEPT !.run = x] \in Walks
           /\ \A x \in SUBSET Runs : [w EXCEPT !.todo = x] \in Walks
           /\ \A x \in SUBSET Units : [w EXCEPT !.listed = x] \in Walks
           /\ \A x \in SUBSET Units : [w EXCEPT !.units = x] \in Walks
           /\ \A x \in 0..shape.units : [w EXCEPT !.unit = x] \in Walks
           /\ \A x \in SUBSET (Units \cup Layers) : [w EXCEPT !.pending = x] \in Walks
           /\ \A x \in SUBSET (Units \cup Layers) : [w EXCEPT !.stored = x] \in Walks
           /\ \A x \in SUBSET Layers : [w EXCEPT !.layers = x] \in Walks
<1>1. \A x \in 0..shape.runs : [w EXCEPT !.run = x] \in Walks
  BY DEF Walks
<1>2. \A x \in SUBSET Runs : [w EXCEPT !.todo = x] \in Walks
  BY DEF Walks
<1>3. \A x \in SUBSET Units : [w EXCEPT !.listed = x] \in Walks
  BY DEF Walks
<1>4. \A x \in SUBSET Units : [w EXCEPT !.units = x] \in Walks
  BY DEF Walks
<1>5. \A x \in 0..shape.units : [w EXCEPT !.unit = x] \in Walks
  BY DEF Walks
<1>6. \A x \in SUBSET (Units \cup Layers) : [w EXCEPT !.pending = x] \in Walks
  BY DEF Walks
<1>7. \A x \in SUBSET (Units \cup Layers) : [w EXCEPT !.stored = x] \in Walks
  BY DEF Walks
<1>8. \A x \in SUBSET Layers : [w EXCEPT !.layers = x] \in Walks
  BY DEF Walks
<1>9. QED
  BY <1>1, <1>2, <1>3, <1>4, <1>5, <1>6, <1>7, <1>8

\* The walk does not leave its types, nor the loop its stops.
Moves == pc' \in Stops /\ walk' \in Walks

LEMMA WalkMoves ==
    ASSUME Typed, IndexUploaded, WalkUploaded, Loop
    PROVE  Moves
<1> USE DEF Moves
<1>0. /\ product \in Products /\ walk \in Walks
      /\ shape.runs \in Nat /\ shape.units \in Nat /\ shape.layers \in Nat
  BY ForecastAssumption DEF Typed, product
<1>s. /\ {"asleep", "runs", "units", "prune", "report"} \subseteq Stops
      /\ product = "ecmwf_tp" =>
            {"known", "steps", "fetch", "index", "seal"} \subseteq Stops
      /\ product = "ecmwf_mslp" => {"known", "fetch", "seal"} \subseteq Stops
      /\ product = "wrf" =>
            {"known", "steps", "fetch", "index", "marker", "layers", "compare", "latch", "mirror", "register"}
               \subseteq Stops
      /\ product = "gfs" => {"steps", "index", "mirror", "register"} \subseteq Stops
  BY DEF Stops
<1>p. /\ pc \in Stops
      /\ product = "ecmwf_tp" => pc \notin {"marker", "layers", "compare", "latch", "mirror", "register"}
      /\ product = "ecmwf_mslp" => pc \notin {"steps", "index", "marker", "layers", "compare", "latch", "mirror", "register"}
      /\ product = "wrf" => pc \notin {"seal"}
      /\ product = "gfs" => pc \notin {"known", "fetch", "marker", "layers", "compare", "latch", "seal"}
  BY DEF Typed, Stops
<1>n. /\ RecheckTTL \in 0..(TTL + RecheckTTL) /\ TTL \in 0..(TTL + RecheckTTL)
      /\ 0 \in 0..(TTL + RecheckTTL)
  BY ForecastAssumption
<1>1. CASE Wake \/ Report
  BY <1>0, <1>s, <1>1, NoWalkBare DEF Wake, Report
<1>2. CASE ListRuns
  <2>1. Newest(RunsOf(walk.id)) \subseteq Runs
    BY NewestSubset DEF RunsOf
  <2>2. CASE Newest(RunsOf(walk.id)) = {}
    BY <1>s, <1>2, <2>2, NextIdMoves DEF ListRuns
  <2>3. CASE Newest(RunsOf(walk.id)) # {}
    BY <1>0, <1>s, <1>2, <2>1, <2>3 DEF ListRuns, Walks
  <2>4. QED
    BY <2>2, <2>3
<1>3. CASE ListUnits
  <2> DEFINE r == Highest(walk.todo)
             units == UnitsOf(walk.id, r)
  <2>1. walk.todo \in SUBSET (1..shape.runs) /\ units \subseteq Units
    BY <1>0 DEF Walks, Runs, UnitsOf
  <2>2. walk.todo # {}
    BY <1>3 DEF ListUnits, WalkUploaded, WalkOf
  <2>3. r \in Runs
    BY <1>0, <2>1, <2>2, HighestIn DEF Runs
  <2>4. walk' = [walk EXCEPT !.run = r, !.todo = walk.todo \ {r}, !.listed = units, !.units = units]
    BY <1>3 DEF ListUnits
  <2>5. pc' \in Stops
    BY <1>0, <1>s, <1>3 DEF ListUnits, Products
  <2> HIDE DEF r, units
  <2>6. walk' \in Walks
    <3> DEFINE todo == walk.todo \ {r}
    <3>1. r \in 0..shape.runs /\ todo \in SUBSET Runs /\ units \in SUBSET Units
      BY <1>0, <2>1, <2>3 DEF Runs
    <3> HIDE DEF todo
    <3> DEFINE w1 == [walk EXCEPT !.run = r]
               w2 == [w1 EXCEPT !.todo = todo]
               w3 == [w2 EXCEPT !.listed = units]
    <3>2. w1 \in Walks
      BY <1>0, <3>1, WalkWith
    <3>3. w2 \in Walks
      BY <3>1, <3>2, WalkWith
    <3>4. w3 \in Walks
      BY <3>1, <3>3, WalkWith
    <3>5. walk' = [w3 EXCEPT !.units = units]
      BY <2>4 DEF todo
    <3> HIDE DEF w3
    <3>6. QED
      BY <3>1, <3>4, <3>5, WalkWith
  <2>7. QED
    BY <2>5, <2>6
<1>4. CASE ReadKnown
  <2> DEFINE known == UnitIndex(walk.id, walk.run)
             new == walk.listed \ known
  <2>1. known \subseteq Units /\ new \subseteq Units
    BY <1>0, <1>4 DEF Walks, IndexUploaded, WalkUploaded, WalkOf, ReadKnown, InRun
  <2>2. /\ product = "ecmwf_tp" => walk' = [walk EXCEPT !.known = known, !.units = new] /\ pc' = "steps"
        /\ product = "ecmwf_mslp" => /\ walk' = [walk EXCEPT !.known = known, !.units = {}, !.pending = new]
                                     /\ pc' \in {"seal", "fetch"}
        /\ product = "wrf" => walk' = [walk EXCEPT !.known = known] /\ pc' = "steps"
    BY <1>4 DEF ReadKnown
  <2> HIDE DEF known, new
  <2>3. walk' \in Walks /\ pc' \in Stops
    BY <1>0, <1>s, <1>p, <1>4, <2>1, <2>2 DEF Walks, Products, ReadKnown
  <2>4. QED
    BY <2>3
<1>5. CASE NextUnit
  <2> DEFINE u == Lowest(walk.units)
  <2>1. u \in walk.units
    BY <1>0, <1>5, LowestIn DEF NextUnit, Walks, Units
  <2>2. walk' = [walk EXCEPT !.unit = u, !.units = @ \ {u}, !.pending = {}, !.stored = {}, !.layers = {}]
    BY <1>5 DEF NextUnit
  <2>3. pc' \in Stops
    BY <1>0, <1>s, <1>p, <1>5 DEF NextUnit, Products
  <2> HIDE DEF u
  <2>4. walk' \in Walks
    <3> DEFINE units == walk.units \ {u}
    <3>1. u \in 0..shape.units /\ units \in SUBSET Units /\ {} \in SUBSET (Units \cup Layers) /\ {} \in SUBSET Layers
      BY <1>0, <2>1 DEF Walks, Units
    <3> HIDE DEF units
    <3> DEFINE w1 == [walk EXCEPT !.unit = u]
               w2 == [w1 EXCEPT !.units = units]
               w3 == [w2 EXCEPT !.pending = {}]
               w4 == [w3 EXCEPT !.stored = {}]
    <3>2. w1 \in Walks
      BY <1>0, <3>1, WalkWith
    <3>3. w2 \in Walks
      BY <3>1, <3>2, WalkWith
    <3>4. w3 \in Walks
      BY <3>1, <3>3, WalkWith
    <3>5. w4 \in Walks
      BY <3>1, <3>4, WalkWith
    <3>6. walk' = [w4 EXCEPT !.layers = {}]
      BY <2>2 DEF units
    <3> HIDE DEF w4
    <3>7. QED
      BY <3>1, <3>5, <3>6, WalkWith
  <2>5. QED
    BY <2>3, <2>4
<1>6. CASE UnitsDone
  BY <1>0, <1>s, <1>6, RunDoneMoves DEF UnitsDone
<1>7. CASE TilesLand \/ TilesMissing
  BY <1>0, <1>s, <1>7 DEF TilesLand, TilesMissing, AfterFetch
<1>8. CASE AllFetched \/ CheckMarker \/ LayersDone
  BY <1>0, <1>s, <1>p, <1>8 DEF AllFetched, CheckMarker, LayersDone, Products
<1>9. CASE \E t \in Units : GeojsonLands(t) \/ GeojsonMissing(t)
  <2>1. PICK t \in Units : GeojsonLands(t) \/ GeojsonMissing(t)
    BY <1>9
  <2> DEFINE pending == walk.pending \ {t}
             stored == walk.stored \cup {t}
             w1 == [walk EXCEPT !.pending = pending]
  <2>2. walk' \in {w1, [w1 EXCEPT !.stored = stored]}
    BY <2>1 DEF GeojsonLands, GeojsonMissing
  <2>a. pending \in SUBSET (Units \cup Layers) /\ stored \in SUBSET (Units \cup Layers)
    BY <1>0 DEF Walks
  <2> HIDE DEF pending, stored
  <2>b. w1 \in Walks
    BY <1>0, <2>a, WalkWith
  <2>3. walk' \in Walks
    BY <2>2, <2>a, <2>b, WalkWith
  <2>4. QED
    BY <1>p, <2>1, <2>3 DEF GeojsonLands, GeojsonMissing
<1>10. CASE IndexUnit
  <2>1. walk' \in {walk, [walk EXCEPT !.pending = Layers]} /\ pc' \in Stops
    BY <1>0, <1>s, <1>p, <1>10 DEF IndexUnit, Products
  <2>2. QED
    BY <1>0, <2>1 DEF Walks
<1>11. CASE Seal
  BY <1>s, <1>11, RunDoneMoves DEF Seal
<1>12. CASE ListLayers
  <2> DEFINE layers == LayersOf(walk.id, walk.run, walk.unit)
  <2>1. layers \subseteq Layers
    BY DEF LayersOf
  <2>2. walk' \in {[walk EXCEPT !.latch = RecheckTTL], [walk EXCEPT !.layers = layers]}
    BY <1>12 DEF ListLayers
  <2>3. pc' \in Stops
    BY <1>0, <1>s, <1>p, <1>12 DEF ListLayers, Products
  <2> HIDE DEF layers
  <2>4. walk' \in Walks
    BY <1>0, <1>n, <2>1, <2>2 DEF Walks
  <2>5. QED
    BY <2>3, <2>4
<1>13. CASE CompareLayers
  <2> DEFINE missing == walk.layers \ get_wrf_layers(db, walk.id, walk.run, walk.unit)
  <2>1. missing \subseteq Layers
    BY <1>0 DEF Walks
  <2>2. walk' \in {[walk EXCEPT !.latch = TTL], [walk EXCEPT !.pending = missing]}
    BY <1>13 DEF CompareLayers
  <2>3. pc' \in Stops
    BY <1>0, <1>s, <1>p, <1>13 DEF CompareLayers, Products
  <2> HIDE DEF missing
  <2>4. walk' \in Walks
    BY <1>0, <1>n, <2>1, <2>2 DEF Walks
  <2>5. QED
    BY <2>3, <2>4
<1>14. CASE Latch \/ OverlaysFail
  <2>1. walk' = [walk EXCEPT !.latch = 0]
    BY <1>14 DEF Latch, OverlaysFail
  <2>2. walk' \in Walks
    BY <1>0, <1>n, <2>1 DEF Walks
  <2>3. pc' \in Stops
    BY <1>0, <1>s, <1>p, <1>14 DEF Latch, OverlaysFail, Products
  <2>4. QED
    BY <2>2, <2>3
<1>15. CASE RegisterLayers
  BY <1>0, <1>s, <1>p, <1>15 DEF RegisterLayers, Products
<1>16. CASE \E l \in Layers : LayerMirrored(l) \/ LayerMissing(l)
  <2>1. PICK l \in Layers : LayerMirrored(l) \/ LayerMissing(l)
    BY <1>16
  <2> DEFINE pending == walk.pending \ {l}
             stored == walk.stored \cup {l}
             w1 == [walk EXCEPT !.pending = pending]
  <2>2. walk' \in {w1, [w1 EXCEPT !.stored = stored]}
    BY <2>1 DEF LayerMirrored, LayerMissing
  <2>a. pending \in SUBSET (Units \cup Layers) /\ stored \in SUBSET (Units \cup Layers)
    BY <1>0 DEF Walks
  <2> HIDE DEF pending, stored
  <2>b. w1 \in Walks
    BY <1>0, <2>a, WalkWith
  <2>3. walk' \in Walks
    BY <2>2, <2>a, <2>b, WalkWith
  <2>4. QED
    BY <1>p, <2>1, <2>3 DEF LayerMirrored, LayerMissing
<1>17. CASE Prune
  BY <1>s, <1>17, NextIdMoves DEF Prune
<1>18. CASE WalkFails
  BY <1>0, <1>s, <1>18, NextIdMoves, NoWalkBare DEF WalkFails
<1>19. QED
  BY <1>1, <1>2, <1>3, <1>4, <1>5, <1>6, <1>7, <1>8, <1>9, <1>10, <1>11, <1>12, <1>13, <1>14, <1>15,
     <1>16, <1>17, <1>18 DEF Loop

LEMMA LoopFrame == Loop => UNCHANGED <<shape, s3, retired>>
BY DEF Loop, Wake, ListRuns, ListUnits, ReadKnown, NextUnit, UnitsDone, TilesLand, TilesMissing,
   AllFetched, IndexUnit, Seal, GeojsonLands, GeojsonMissing, CheckMarker, ListLayers, CompareLayers,
   Latch, RegisterLayers, LayerMirrored, LayerMissing, LayersDone, Prune, WalkFails, OverlaysFail, Report

\* The steps of the loop that only read Redis.
Reads ==
    \/ Wake \/ ListRuns \/ ListUnits \/ ReadKnown \/ NextUnit \/ UnitsDone
    \/ TilesMissing \/ AllFetched \/ CheckMarker \/ ListLayers \/ CompareLayers
    \/ \E t \in Units : GeojsonMissing(t)
    \/ \E l \in Layers : LayerMissing(l)
    \/ LayersDone \/ WalkFails \/ OverlaysFail \/ Report

LEMMA ReadsFrame == Reads => UNCHANGED db
BY DEF Reads, Wake, ListRuns, ListUnits, ReadKnown, NextUnit, UnitsDone, TilesMissing,
   AllFetched, GeojsonMissing, CheckMarker, ListLayers, CompareLayers, LayerMissing, LayersDone,
   WalkFails, OverlaysFail, Report

LEMMA LoopKinds ==
    Loop => \/ Reads \/ TilesLand \/ IndexUnit \/ Seal \/ Latch \/ RegisterLayers \/ Prune
            \/ \E t \in Units : GeojsonLands(t)
            \/ \E l \in Layers : LayerMirrored(l)
BY DEF Loop, Reads

LEMMA LoopEntries ==
    ASSUME Typed, Loop
    PROVE  Entries(db)'
<1>1. CASE Reads
  BY <1>1, ReadsFrame, LoopFrame, DbKept
<1>2. QED
  BY <1>1, LoopKinds, TilesLandAdds, IndexUnitAdds, SealAdds, LatchAdds, RegisterLayersAdds, PruneCuts,
     GeojsonLandsAdds, LayerMirroredAdds

LEMMA TypedStep ==
    ASSUME Typed, IndexUploaded, WalkUploaded, [Next]_vars
    PROVE  Typed' /\ UNCHANGED shape
<1>1. CASE Loop
  BY <1>1, LoopFrame, LoopEntries, WalkMoves, SameShape DEF Typed, Moves
<1>2. CASE UNCHANGED vars
  BY <1>2, SameShape, DbKept DEF Typed, vars
<1>3. CASE Cancel
  <2>1. pc' = "asleep" /\ walk' = NoWalk /\ UNCHANGED <<shape, s3, db, retired>>
    BY <1>3 DEF Cancel
  <2>2. "asleep" \in Stops
    BY DEF Stops
  <2>3. QED
    BY <2>1, <2>2, SameShape, DbKept, NoWalkBare DEF Typed
<1>4. CASE Tick
  BY <1>4, SameShape, Expired DEF Typed, Tick
<1>5. ASSUME NEW i \in Ids, Retire(i)
      PROVE  Typed' /\ UNCHANGED shape
  <2> DEFINE r == Lowest(RunsOf(i))
  <2>1. /\ UNCHANGED <<shape, db, pc, walk>> /\ RunsOf(i) # {}
        /\ s3' \subseteq s3 /\ retired' = retired \cup {<<i, r>>}
    BY <1>5 DEF Retire
  <2>2. RunsOf(i) \in SUBSET (1..shape.runs) /\ shape.runs \in Nat
    BY ForecastAssumption DEF Typed, RunsOf, Runs
  <2>3. r \in Runs
    BY <2>1, <2>2, LowestIn DEF Runs
  <2> HIDE DEF r
  <2>4. QED
    BY <2>1, <2>3, SameShape, DbKept DEF Typed
<1>6. ASSUME NEW i \in Ids, NEW r \in Runs, NEW u \in Units, NEW a \in Assets, Publish(i, r, u, a)
      PROVE  Typed' /\ UNCHANGED shape
  <2>1. UNCHANGED <<shape, db, pc, walk, retired>> /\ s3' = s3 \cup {<<i, r, u, a>>}
    BY <1>6 DEF Publish
  <2>2. QED
    BY <2>1, SameShape, DbKept DEF Typed
<1>7. QED
  BY <1>1, <1>2, <1>3, <1>4, <1>5, <1>6 DEF Next, Environment

-----------------------------------------------------------------------------
(* What was uploaded stays uploaded *)

UploadedKept ==
    /\ \A i, r, u, a : Uploaded(i, r, u, a) => Uploaded(i, r, u, a)'
    /\ \A i, r : RunUploaded(i, r) => RunUploaded(i, r)'
    /\ \A i, r, u : UnitUploaded(i, r, u) => UnitUploaded(i, r, u)'

LEMMA UploadedStays ==
    ASSUME Typed, [Next]_vars, UNCHANGED shape
    PROVE  UploadedKept
<1>1. /\ \A i, r : <<i, r>> \in retired => <<i, r>> \in retired'
      /\ \A i, r, u, a : <<i, r, u, a>> \in s3 => <<i, r, u, a>> \in s3' \/ <<i, r>> \in retired'
  <2>1. CASE UNCHANGED <<s3, retired>>
    BY <2>1
  <2>2. ASSUME NEW i \in Ids, Retire(i)
        PROVE  /\ \A j, r : <<j, r>> \in retired => <<j, r>> \in retired'
               /\ \A j, r, u, a : <<j, r, u, a>> \in s3 => <<j, r, u, a>> \in s3' \/ <<j, r>> \in retired'
    BY <2>2 DEF Retire
  <2>3. ASSUME NEW i \in Ids, NEW r \in Runs, NEW u \in Units, NEW a \in Assets, Publish(i, r, u, a)
        PROVE  UNCHANGED retired /\ s3 \subseteq s3'
    BY <2>3 DEF Publish
  <2>4. QED
    BY <2>1, <2>2, <2>3, LoopFrame DEF Next, Environment, Cancel, Tick, vars
<1>2. \A i, r, u, a : Uploaded(i, r, u, a) => Uploaded(i, r, u, a)'
  BY <1>1 DEF Uploaded
<1>3. \A i, r : RunUploaded(i, r) => RunUploaded(i, r)'
  BY <1>1, SameShape DEF RunUploaded, RunsOf
<1>4. \A i, r, u : UnitUploaded(i, r, u) => UnitUploaded(i, r, u)'
  BY <1>2, SameShape DEF UnitUploaded
<1>5. QED
  BY <1>2, <1>3, <1>4 DEF UploadedKept

-----------------------------------------------------------------------------
(* Redis only knows what was uploaded *)

LEMMA IndexFrom ==
    ASSUME Typed, IndexUploaded, UploadedKept, UNCHANGED shape,
           \A i \in Ids : \A r \in RunIndex(i)' : r \in RunIndex(i) \/ (r \in Runs /\ RunUploaded(i, r)),
           \A i \in Ids, r \in Runs : \A u \in UnitIndex(i, r)' :
              u \in UnitIndex(i, r) \/ (u \in Units /\ UnitUploaded(i, r, u)),
           \A i \in Ids, r \in Runs, u \in Units : \A l \in LayerIndex(i, r, u)' :
              l \in LayerIndex(i, r, u) \/ (l \in Layers /\ Uploaded(i, r, u, l)),
           product = "gfs" =>
              \A i \in Ids, r \in Runs, u \in Units, l \in Layers :
                 Has(db, GfsGeojson(i, r, u, l))' =>
                    Has(db, GfsGeojson(i, r, u, l)) \/ Uploaded(i, r, u, l)
    PROVE  IndexUploaded'
<1> USE SameShape
<1>1. \A i \in Ids' : \A r \in RunIndex(i)' : r \in Runs' /\ RunUploaded(i, r)'
  BY DEF IndexUploaded, UploadedKept
<1>2. \A i \in Ids', r \in Runs' : \A u \in UnitIndex(i, r)' : u \in Units' /\ UnitUploaded(i, r, u)'
  BY DEF IndexUploaded, UploadedKept
<1>3. \A i \in Ids', r \in Runs', u \in Units' :
        \A l \in LayerIndex(i, r, u)' : l \in Layers' /\ Uploaded(i, r, u, l)'
  BY DEF IndexUploaded, UploadedKept
<1>4. product' = "gfs" =>
        \A i \in Ids', r \in Runs', u \in Units', l \in Layers' :
           Has(db, GfsGeojson(i, r, u, l))' => Uploaded(i, r, u, l)'
  BY DEF IndexUploaded, UploadedKept
<1>5. QED
  BY <1>1, <1>2, <1>3, <1>4 DEF IndexUploaded

LEMMA IndexesKeptStep ==
    ASSUME Typed, IndexUploaded, UploadedKept, UNCHANGED shape, IndexesKept
    PROVE  IndexUploaded'
BY IndexFrom DEF IndexesKept, RunIndexKept, UnitIndexKept, LayerIndexKept, NoNewGeojson

LEMMA IndexedStep ==
    ASSUME Typed, IndexUploaded, UploadedKept, UNCHANGED shape, NEW i, NEW r \in Runs, NEW us,
           Indexed(i, r, us), RunUploaded(i, r), \A u \in us : u \in Units /\ UnitUploaded(i, r, u)
    PROVE  IndexUploaded'
<1>1. \A j \in Ids : \A q \in RunIndex(j)' : q \in RunIndex(j) \/ (q \in Runs /\ RunUploaded(j, q))
  BY DEF Indexed
<1>2. \A j \in Ids, q \in Runs : \A u \in UnitIndex(j, q)' :
         u \in UnitIndex(j, q) \/ (u \in Units /\ UnitUploaded(j, q, u))
  BY DEF Indexed
<1>3. QED
  BY <1>1, <1>2, IndexFrom DEF Indexed, LayerIndexKept, NoNewGeojson

LEMMA LayersIndexedStep ==
    ASSUME Typed, IndexUploaded, UploadedKept, UNCHANGED shape, NEW i, NEW r, NEW u, NEW ls,
           LayersIndexed(i, r, u, ls), \A l \in ls : l \in Layers /\ Uploaded(i, r, u, l)
    PROVE  IndexUploaded'
<1>1. \A j \in Ids, q \in Runs, w \in Units : \A l \in LayerIndex(j, q, w)' :
         l \in LayerIndex(j, q, w) \/ (l \in Layers /\ Uploaded(j, q, w, l))
  BY DEF LayersIndexed
<1>2. QED
  BY <1>1, IndexFrom DEF LayersIndexed, RunIndexKept, UnitIndexKept, NoNewGeojson

LEMMA IndexUploadedStep ==
    ASSUME Typed, IndexUploaded, WalkUploaded, UploadedKept, [Next]_vars, UNCHANGED shape
    PROVE  IndexUploaded'
<1>1. CASE Reads \/ (\E i \in Ids : Retire(i))
           \/ (\E i \in Ids, r \in Runs, u \in Units, a \in Assets : Publish(i, r, u, a))
           \/ Cancel \/ UNCHANGED vars
  <2>1. UNCHANGED db
    BY <1>1, ReadsFrame DEF Retire, Publish, Cancel, vars
  <2>2. QED
    BY <2>1, DbKept, IndexesKeptStep
<1>2. CASE TilesLand \/ Latch \/ (\E t \in Units : GeojsonLands(t))
  BY <1>2, TilesLandAdds, LatchAdds, GeojsonLandsAdds, IndexesKeptStep
<1>3. CASE Tick
  BY <1>3, Expired, IndexFrom DEF Shrunk, NoNewGeojson
<1>4. CASE Prune
  <2>1. RunsCut(walk.id, walk.active)
    BY <1>4, PruneCuts
  <2>2. QED
    BY <2>1, IndexFrom DEF RunsCut, UnitIndexKept, LayerIndexKept, NoNewGeojson
<1>5. CASE IndexUnit
  <2>1. /\ walk.run \in Runs /\ RunUploaded(walk.id, walk.run)
        /\ walk.unit \in Units /\ Uploaded(walk.id, walk.run, walk.unit, Raster)
    BY <1>5 DEF IndexUnit, WalkUploaded, WalkOf, InRun, InUnit, Typed, Walks
  <2>2. product # "ecmwf_mslp"
    BY <1>5 DEF IndexUnit, Typed, Stops
  <2>3. UnitUploaded(walk.id, walk.run, walk.unit)
    BY <2>1, <2>2 DEF UnitUploaded
  <2>4. Indexed(walk.id, walk.run, {walk.unit})
    BY <1>5, IndexUnitAdds
  <2>5. QED
    BY <2>1, <2>3, <2>4, IndexedStep
<1>6. CASE Seal
  <2>1. walk.run \in Runs /\ RunUploaded(walk.id, walk.run)
    BY <1>6 DEF Seal, WalkUploaded, WalkOf, InRun, Typed, Walks
  <2>2. \A u \in Sealed : u \in Units /\ UnitUploaded(walk.id, walk.run, u)
    <3>1. product \in {"ecmwf_tp", "ecmwf_mslp"}
      BY <1>6, ForecastAssumption DEF Seal, Typed, Stops, product, Products
    <3>2. QED
      BY <3>1 DEF Sealed, WalkUploaded, WalkOf, UnitUploaded, Typed, Walks
  <2>3. Indexed(walk.id, walk.run, Sealed)
    BY <1>6, SealAdds
  <2>4. QED
    BY <2>1, <2>2, <2>3, IndexedStep
<1>7. CASE RegisterLayers
  <2>1. LayersIndexed(walk.id, walk.run, walk.unit, Registered)
    BY <1>7, RegisterLayersAdds
  <2>2. \A l \in Registered : l \in Layers /\ Uploaded(walk.id, walk.run, walk.unit, l)
    BY <1>7 DEF RegisterLayers, Registered, WalkUploaded, WalkOf, Typed, Stops, Walks
  <2>3. QED
    BY <2>1, <2>2, LayersIndexedStep
<1>8. ASSUME NEW l \in Layers, LayerMirrored(l)
      PROVE  IndexUploaded'
  <2>1. \A j, q, w, m : Has(db, GfsGeojson(j, q, w, m))' =>
                 Has(db, GfsGeojson(j, q, w, m)) \/ Uploaded(j, q, w, m)
    <3>1. \A j, q, w, m : Has(db, GfsGeojson(j, q, w, m))' =>
             \/ Has(db, GfsGeojson(j, q, w, m))
             \/ InS3(walk.unit, l) /\ j = walk.id /\ q = walk.run /\ w = walk.unit /\ m = l
      BY <1>8, LayerMirroredAdds
    <3>2. InS3(walk.unit, l) => Uploaded(walk.id, walk.run, walk.unit, l)
      BY DEF InS3, Uploaded
    <3>3. QED
      BY <3>1, <3>2
  <2>2. RunIndexKept /\ UnitIndexKept /\ LayerIndexKept
    BY <1>8, LayerMirroredAdds
  <2>3. QED
    BY <2>1, <2>2, IndexFrom DEF RunIndexKept, UnitIndexKept, LayerIndexKept
<1>9. QED
  BY <1>1, <1>2, <1>3, <1>4, <1>5, <1>6, <1>7, <1>8, LoopKinds DEF Next, Environment

-----------------------------------------------------------------------------
(* So do the locals of the walk *)

LEMMA WalkFrom ==
    ASSUME UploadedKept, UNCHANGED shape, WalkOf(walk', pc')
    PROVE  WalkUploaded'
<1> USE SameShape
<1>1. (\A r \in walk.active : RunUploaded(walk.id, r))'
  BY DEF WalkOf, UploadedKept, RunUploaded, RunsOf
<1>2. (\A u \in walk.listed : Uploaded(walk.id, walk.run, u, Raster))'
  BY DEF WalkOf, UploadedKept, Uploaded
<1>3. (\A u \in walk.known : UnitUploaded(walk.id, walk.run, u))'
  BY DEF WalkOf, UploadedKept, UnitUploaded, Uploaded
<1>4. (\A l \in walk.layers : Uploaded(walk.id, walk.run, walk.unit, l))'
  BY DEF WalkOf, UploadedKept, Uploaded
<1>5. (product = "ecmwf_mslp" => \A u \in walk.stored : u \in Units /\ UnitUploaded(walk.id, walk.run, u))'
  BY DEF WalkOf, UploadedKept, UnitUploaded, Uploaded
<1>6. (product # "ecmwf_mslp" =>
         \A l \in walk.stored : l \in Layers /\ Uploaded(walk.id, walk.run, walk.unit, l))'
  BY DEF WalkOf, UploadedKept, Uploaded
<1>7. QED
  BY <1>1, <1>2, <1>3, <1>4, <1>5, <1>6 DEF WalkUploaded, WalkOf

LEMMA BareWalkOf ==
    ASSUME NEW w, NEW p, Bare(w), w.todo \subseteq w.active,
           \A r \in w.active : RunUploaded(w.id, r), p = "units" => w.todo # {},
           p \in BetweenRuns \cup {"asleep", "report"}
    PROVE  WalkOf(w, p)
BY DEF Bare, WalkOf, BetweenRuns, InRun, InUnit

\* Downloads under way and the life of a marker bear on nothing.
SameButPending(w) ==
    /\ w.id = walk.id /\ w.active = walk.active /\ w.todo = walk.todo /\ w.run = walk.run
    /\ w.listed = walk.listed /\ w.known = walk.known /\ w.units = walk.units
    /\ w.unit = walk.unit

\* The walk stays with its run.
LEMMA InRunWalkOf ==
    ASSUME WalkUploaded, pc \in InRun, NEW w, NEW p, SameButPending(w), p \in InRun,
           p \in InUnit \/ (p = "fetch" /\ product # "ecmwf_mslp") => walk.unit \in walk.listed,
           product = "ecmwf_mslp" =>
              \A u \in w.stored : u \in Units /\ UnitUploaded(walk.id, walk.run, u),
           product # "ecmwf_mslp" =>
              \A l \in w.stored : l \in Layers /\ Uploaded(walk.id, walk.run, walk.unit, l),
           \A l \in w.layers : Uploaded(walk.id, walk.run, walk.unit, l)
    PROVE  WalkOf(w, p)
BY DEF SameButPending, WalkUploaded, WalkOf, InRun, BetweenRuns

LEMMA SameWalkOf ==
    ASSUME WalkUploaded, pc \in InRun, NEW w, NEW p, SameButPending(w), p \in InRun,
           w.stored = walk.stored, w.layers = walk.layers,
           p \in InUnit \/ (p = "fetch" /\ product # "ecmwf_mslp") => walk.unit \in walk.listed
    PROVE  WalkOf(w, p)
<1>1. /\ product = "ecmwf_mslp" =>
              \A u \in w.stored : u \in Units /\ UnitUploaded(walk.id, walk.run, u)
      /\ product # "ecmwf_mslp" =>
              \A l \in w.stored : l \in Layers /\ Uploaded(walk.id, walk.run, walk.unit, l)
      /\ \A l \in w.layers : Uploaded(walk.id, walk.run, walk.unit, l)
  BY DEF WalkUploaded, WalkOf
<1>2. QED
  BY <1>1, InRunWalkOf

LEMMA RunDoneWalkOf ==
    ASSUME Typed, WalkUploaded, RunDone(walk)
    PROVE  WalkOf(walk', pc')
<1>1. /\ Bare(walk') /\ walk'.id = walk.id /\ walk'.active = walk.active /\ walk'.todo = walk.todo
      /\ pc' = IF walk.todo = {} THEN "prune" ELSE "units"
  BY RunDoneMoves
<1> DEFINE w == walk'
           p == pc'
<1>2. WalkOf(w, p)
  <2>1. Bare(w) /\ w.todo \subseteq w.active /\ \A r \in w.active : RunUploaded(w.id, r)
    BY <1>1 DEF WalkUploaded, WalkOf
  <2>2. p \in BetweenRuns /\ (p = "units" => w.todo # {})
    BY <1>1 DEF BetweenRuns
  <2> HIDE DEF w, p
  <2>3. QED
    BY <2>1, <2>2, BareWalkOf
<1>3. QED
  BY <1>2

LEMMA NextIdWalkOf ==
    ASSUME Typed, NextId
    PROVE  WalkOf(walk', pc')
<1> DEFINE w == walk'
           p == pc'
<1>1. Bare(w) /\ w.todo = {} /\ w.active = {} /\ p \in {"runs", "report"}
  BY NextIdMoves
<1> HIDE DEF w, p
<1>2. WalkOf(w, p)
  BY <1>1, BareWalkOf DEF BetweenRuns
<1>3. QED
  BY <1>2 DEF w, p

LEMMA NoWalkOf ==
    ASSUME Typed, walk' = NoWalk, pc' \in {"runs", "report", "asleep"}
    PROVE  WalkOf(walk', pc')
<1> DEFINE w == NoWalk
           p == pc'
<1>1. Bare(w) /\ w.todo = {} /\ w.active = {} /\ p \in {"runs", "report", "asleep"}
  BY NoWalkBare
<1>2. walk' = w
  OBVIOUS
<1> HIDE DEF w, p
<1>3. WalkOf(w, p)
  BY <1>1, BareWalkOf DEF BetweenRuns
<1>4. QED
  BY <1>2, <1>3 DEF p

\* The steps that change neither what is stored nor where the walk is.
LEMMA GoesOnWalkOf ==
    ASSUME Typed, WalkUploaded,
           \/ TilesLand \/ TilesMissing \/ AllFetched \/ IndexUnit \/ CheckMarker \/ CompareLayers
           \/ Latch \/ RegisterLayers \/ LayersDone \/ OverlaysFail
           \/ \E t \in Units : GeojsonMissing(t)
           \/ \E l \in Layers : LayerMissing(l)
    PROVE  WalkOf(walk', pc')
<1> DEFINE w == walk'
           p == pc'
<1>0. walk \in Walks /\ product \in Products /\ pc \in Stops
  BY ForecastAssumption DEF Typed, product
<1>1. SameButPending(w) /\ w.stored = walk.stored /\ w.layers = walk.layers
  BY <1>0 DEF SameButPending, Walks, TilesLand, TilesMissing, AllFetched, IndexUnit, CheckMarker,
     CompareLayers, Latch, RegisterLayers, LayersDone, OverlaysFail, GeojsonMissing, LayerMissing, Products, Stops
<1>2. pc \in InRun /\ p \in InRun
  BY <1>0 DEF InRun, TilesLand, TilesMissing, AfterFetch, AllFetched, IndexUnit, CheckMarker,
     CompareLayers, Latch, RegisterLayers, LayersDone, OverlaysFail, GeojsonMissing, LayerMissing, Products, Stops
<1>3. \/ pc \in InUnit \/ (pc = "fetch" /\ product # "ecmwf_mslp")
      \/ p \in {"seal", "steps"} \/ (p = "fetch" /\ product = "ecmwf_mslp")
  BY <1>0 DEF InUnit, TilesLand, TilesMissing, AfterFetch, AllFetched, IndexUnit, CheckMarker,
     CompareLayers, Latch, RegisterLayers, LayersDone, OverlaysFail, GeojsonMissing, LayerMissing, Products, Stops
<1>4. p \in InUnit \/ (p = "fetch" /\ product # "ecmwf_mslp") => walk.unit \in walk.listed
  BY <1>3 DEF WalkUploaded, WalkOf, InUnit
<1> HIDE DEF w, p
<1>5. WalkOf(w, p)
  BY <1>1, <1>2, <1>4, SameWalkOf
<1>6. QED
  BY <1>5 DEF w, p

LEMMA ListRunsWalkOf ==
    ASSUME Typed, WalkUploaded, ListRuns
    PROVE  WalkOf(walk', pc')
<1> DEFINE active == Newest(RunsOf(walk.id))
<1>1. CASE active = {}
  BY <1>1, NextIdWalkOf DEF ListRuns
<1>2. CASE active # {}
  <2>1. pc = "runs" /\ pc' = "units" /\ walk' = [walk EXCEPT !.active = active, !.todo = active]
    BY <1>2 DEF ListRuns
  <2>2. \A r \in active : RunUploaded(walk.id, r)
    BY NewestSubset DEF RunUploaded
  <2> HIDE DEF active
  <2> DEFINE w == walk'
  <2>3. /\ w.id = walk.id /\ w.active = active /\ w.todo = active /\ w.run = walk.run
        /\ w.listed = walk.listed /\ w.known = walk.known /\ w.units = walk.units
        /\ w.unit = walk.unit /\ w.stored = walk.stored /\ w.layers = walk.layers
    BY <2>1 DEF Typed, Walks
  <2> HIDE DEF w
  <2>4. WalkOf(w, "units")
    BY <1>2, <2>1, <2>2, <2>3 DEF WalkUploaded, WalkOf, InRun, InUnit, BetweenRuns
  <2>5. QED
    BY <2>1, <2>4 DEF w
<1>3. QED
  BY <1>1, <1>2

LEMMA ListUnitsWalkOf ==
    ASSUME Typed, WalkUploaded, ListUnits
    PROVE  WalkOf(walk', pc')
<1> DEFINE r == Highest(walk.todo)
           units == UnitsOf(walk.id, r)
           w == walk'
           p == pc'
<1>1. walk.todo \in SUBSET (1..shape.runs) /\ shape.runs \in Nat /\ walk.todo # {}
  BY ForecastAssumption DEF Typed, Walks, Runs, ListUnits, WalkUploaded, WalkOf
<1>2. r \in walk.todo
  BY <1>1, HighestIn
<1>3. \A u \in units : Uploaded(walk.id, r, u, Raster)
  BY DEF UnitsOf, Uploaded
<1>4. walk' = [walk EXCEPT !.run = r, !.todo = walk.todo \ {r}, !.listed = units, !.units = units]
  BY DEF ListUnits
<1>5. p \in {"steps", "known"} /\ pc = "units"
  BY DEF ListUnits
<1> HIDE DEF r, units
<1>6. /\ w.id = walk.id /\ w.active = walk.active /\ w.todo = walk.todo \ {r} /\ w.run = r
      /\ w.listed = units /\ w.known = walk.known /\ w.units = units
      /\ w.stored = walk.stored /\ w.layers = walk.layers
  BY <1>4 DEF Typed, Walks
<1> HIDE DEF w, p
<1>7. WalkOf(w, p)
  BY <1>2, <1>3, <1>5, <1>6 DEF WalkUploaded, WalkOf, InRun, InUnit, BetweenRuns
<1>8. QED
  BY <1>7 DEF w, p

LEMMA ReadKnownWalkOf ==
    ASSUME Typed, IndexUploaded, WalkUploaded, ReadKnown
    PROVE  WalkOf(walk', pc')
<1> DEFINE known == UnitIndex(walk.id, walk.run)
           new == walk.listed \ known
           w == walk'
           p == pc'
<1>1. walk.id \in Ids /\ walk.run \in Runs /\ pc = "known" /\ pc \in Stops
  BY DEF ReadKnown, Typed, Walks, WalkUploaded, WalkOf, InRun
<1>2. \A u \in known : UnitUploaded(walk.id, walk.run, u)
  BY <1>1 DEF IndexUploaded
<1>3. /\ \/ walk' = [walk EXCEPT !.known = known, !.units = new]
         \/ walk' = [walk EXCEPT !.known = known, !.units = {}, !.pending = new]
         \/ walk' = [walk EXCEPT !.known = known]
      /\ p \in {"steps", "seal"} \/ (p = "fetch" /\ product = "ecmwf_mslp")
  BY <1>1, ForecastAssumption DEF ReadKnown, Stops, Typed, product, Products
<1>4. new \subseteq walk.listed
  OBVIOUS
<1> HIDE DEF known, new
<1>5. /\ w.id = walk.id /\ w.active = walk.active /\ w.todo = walk.todo /\ w.run = walk.run
      /\ w.listed = walk.listed /\ w.known = known /\ w.units \in {walk.units, new, {}}
      /\ w.unit = walk.unit /\ w.stored = walk.stored /\ w.layers = walk.layers
  BY <1>3 DEF Typed, Walks
<1> HIDE DEF w, p
<1>6. WalkOf(w, p)
  BY <1>1, <1>2, <1>3, <1>4, <1>5 DEF WalkUploaded, WalkOf, InRun, InUnit, BetweenRuns
<1>7. QED
  BY <1>6 DEF w, p

LEMMA NextUnitWalkOf ==
    ASSUME Typed, WalkUploaded, NextUnit
    PROVE  WalkOf(walk', pc')
<1> DEFINE u == Lowest(walk.units)
           w == walk'
           p == pc'
<1>1. walk.units \in SUBSET (1..shape.units) /\ shape.units \in Nat /\ walk.units # {}
  BY ForecastAssumption DEF Typed, Walks, Units, NextUnit
<1>2. u \in walk.units
  BY <1>1, LowestIn
<1>3. walk' = [walk EXCEPT !.unit = u, !.units = walk.units \ {u}, !.pending = {}, !.stored = {},
                          !.layers = {}]
  BY DEF NextUnit
<1>4. p \in {"fetch", "marker", "index"} /\ pc = "steps"
  BY ForecastAssumption DEF NextUnit, Typed, Stops, product, Products
<1> HIDE DEF u
<1>5. /\ w.id = walk.id /\ w.active = walk.active /\ w.todo = walk.todo /\ w.run = walk.run
      /\ w.listed = walk.listed /\ w.known = walk.known /\ w.units = walk.units \ {u}
      /\ w.unit = u /\ w.stored = {} /\ w.layers = {}
  BY <1>3 DEF Typed, Walks
<1> HIDE DEF w, p
<1>6. WalkOf(w, p)
  BY <1>2, <1>4, <1>5 DEF WalkUploaded, WalkOf, InRun, InUnit, BetweenRuns
<1>7. QED
  BY <1>6 DEF w, p

\* The only overlay of an MSLP timestamp is its GeoJSON.
LEMMA GeojsonLandsWalkOf ==
    ASSUME Typed, WalkUploaded, NEW t \in Units, GeojsonLands(t)
    PROVE  WalkOf(walk', pc')
<1> DEFINE w == walk'
           p == pc'
<1>1. product = "ecmwf_mslp" /\ pc = "fetch" /\ p = "fetch"
  BY DEF GeojsonLands
<1>2. \A k, l \in Layers : k = l
  BY <1>1, ForecastAssumption DEF Typed, product, Layers
<1>3. UnitUploaded(walk.id, walk.run, t)
  BY <1>1, <1>2 DEF GeojsonLands, InS3, UnitUploaded, Uploaded
<1>4. walk' = [walk EXCEPT !.pending = walk.pending \ {t}, !.stored = walk.stored \cup {t}]
  BY DEF GeojsonLands
<1>5. SameButPending(w) /\ w.stored = walk.stored \cup {t} /\ w.layers = walk.layers
  BY <1>4 DEF Typed, Walks, SameButPending
<1>6. \A x \in w.stored : x \in Units /\ UnitUploaded(walk.id, walk.run, x)
  BY <1>1, <1>3, <1>5 DEF WalkUploaded, WalkOf
<1>7. \A l \in w.layers : Uploaded(walk.id, walk.run, walk.unit, l)
  BY <1>5 DEF WalkUploaded, WalkOf
<1>8. "fetch" \in InRun /\ "fetch" \notin InUnit
  BY DEF InRun, InUnit
<1> HIDE DEF w, p
<1>9. WalkOf(w, p)
  BY <1>1, <1>5, <1>6, <1>7, <1>8, InRunWalkOf
<1>10. QED
  BY <1>9 DEF w, p

LEMMA ListLayersWalkOf ==
    ASSUME Typed, WalkUploaded, ListLayers
    PROVE  WalkOf(walk', pc')
<1> DEFINE layers == LayersOf(walk.id, walk.run, walk.unit)
           w == walk'
           p == pc'
<1>1. /\ walk' \in {[walk EXCEPT !.latch = RecheckTTL], [walk EXCEPT !.layers = layers]}
      /\ p \in {"latch", "compare"} /\ pc = "layers" /\ product # "ecmwf_mslp"
  BY DEF ListLayers, Typed, Stops
<1>2. \A l \in layers : Uploaded(walk.id, walk.run, walk.unit, l)
  BY DEF LayersOf, Uploaded
<1> HIDE DEF layers
<1>3. SameButPending(w) /\ w.stored = walk.stored /\ w.layers \in {layers, walk.layers}
  BY <1>1 DEF Typed, Walks, SameButPending
<1>4. /\ pc \in InRun /\ p \in InRun /\ pc \in InUnit
      /\ \A l \in w.layers : Uploaded(walk.id, walk.run, walk.unit, l)
      /\ walk.unit \in walk.listed
      /\ \A l \in w.stored : l \in Layers /\ Uploaded(walk.id, walk.run, walk.unit, l)
  BY <1>1, <1>2, <1>3 DEF WalkUploaded, WalkOf, InRun, InUnit
<1> HIDE DEF w, p
<1>5. WalkOf(w, p)
  BY <1>1, <1>3, <1>4, InRunWalkOf
<1>6. QED
  BY <1>5 DEF w, p

LEMMA LayerMirroredWalkOf ==
    ASSUME Typed, IndexUploaded, WalkUploaded, NEW l \in Layers, LayerMirrored(l)
    PROVE  WalkOf(walk', pc')
<1> DEFINE w == walk'
           p == pc'
<1>1. product \in {"wrf", "gfs"} /\ pc = "mirror" /\ p = "mirror"
  BY DEF LayerMirrored
<1>2. walk.id \in Ids /\ walk.run \in Runs /\ walk.unit \in Units /\ walk.unit \in walk.listed
  BY <1>1 DEF Typed, Walks, WalkUploaded, WalkOf, InRun, InUnit
<1>3. Uploaded(walk.id, walk.run, walk.unit, l)
  <2>1. CASE InS3(walk.unit, l)
    BY <2>1 DEF InS3, Uploaded
  <2>2. CASE product = "gfs" /\ Has(db, GfsGeojson(walk.id, walk.run, walk.unit, l))
    BY <1>2, <2>2 DEF IndexUploaded
  <2>3. QED
    BY <1>1, <2>1, <2>2, LayerMirroredAdds
<1>4. walk' = [walk EXCEPT !.pending = walk.pending \ {l}, !.stored = walk.stored \cup {l}]
  BY DEF LayerMirrored
<1>5. SameButPending(w) /\ w.stored = walk.stored \cup {l} /\ w.layers = walk.layers
  BY <1>4 DEF Typed, Walks, SameButPending
<1>6. /\ pc \in InRun /\ p \in InRun
      /\ \A k \in w.layers : Uploaded(walk.id, walk.run, walk.unit, k)
      /\ \A k \in w.stored : k \in Layers /\ Uploaded(walk.id, walk.run, walk.unit, k)
  BY <1>1, <1>3, <1>5 DEF WalkUploaded, WalkOf, InRun
<1> HIDE DEF w, p
<1>7. WalkOf(w, p)
  BY <1>1, <1>2, <1>5, <1>6, InRunWalkOf
<1>8. QED
  BY <1>7 DEF w, p

LEMMA WalkUploadedStep ==
    ASSUME Typed, IndexUploaded, WalkUploaded, UploadedKept, [Next]_vars, UNCHANGED shape
    PROVE  WalkUploaded'
<1> SUFFICES WalkOf(walk', pc')
  BY WalkFrom
<1>1. CASE Wake \/ Report \/ Cancel
  BY <1>1, NoWalkOf DEF Wake, Report, Cancel
<1>2. CASE ListRuns \/ ListUnits \/ ReadKnown \/ NextUnit \/ ListLayers
  BY <1>2, ListRunsWalkOf, ListUnitsWalkOf, ReadKnownWalkOf, NextUnitWalkOf, ListLayersWalkOf
<1>3. CASE UnitsDone
  <2>1. CASE product = "ecmwf_tp"
    <3>1. pc = "steps" /\ pc' = "seal" /\ UNCHANGED walk
      BY <1>3, <2>1 DEF UnitsDone
    <3>2. QED
      BY <3>1, SameWalkOf DEF SameButPending, InRun, InUnit
  <2>2. CASE product # "ecmwf_tp"
    BY <1>3, <2>2, RunDoneWalkOf DEF UnitsDone
  <2>3. QED
    BY <2>1, <2>2
<1>4. CASE Seal
  BY <1>4, RunDoneWalkOf DEF Seal
<1>5. CASE Prune
  BY <1>5, NextIdWalkOf DEF Prune
<1>6. CASE WalkFails
  BY <1>6, NextIdWalkOf, NoWalkOf DEF WalkFails
<1>7. CASE \/ TilesLand \/ TilesMissing \/ AllFetched \/ IndexUnit \/ CheckMarker \/ CompareLayers
           \/ Latch \/ RegisterLayers \/ LayersDone \/ OverlaysFail
           \/ \E t \in Units : GeojsonMissing(t)
           \/ \E l \in Layers : LayerMissing(l)
  BY <1>7, GoesOnWalkOf
<1>8. CASE (\E t \in Units : GeojsonLands(t)) \/ (\E l \in Layers : LayerMirrored(l))
  BY <1>8, GeojsonLandsWalkOf, LayerMirroredWalkOf
<1>9. CASE UNCHANGED <<walk, pc>>
  <2>1. walk' = walk /\ pc' = pc
    BY <1>9
  <2>2. WalkOf(walk, pc)
    BY DEF WalkUploaded
  <2>3. QED
    BY <2>1, <2>2
<1>10. ASSUME NEW i \in Ids, Retire(i)
       PROVE  UNCHANGED <<walk, pc>>
  BY <1>10 DEF Retire
<1>11. ASSUME NEW i \in Ids, NEW r \in Runs, NEW u \in Units, NEW a \in Assets, Publish(i, r, u, a)
       PROVE  UNCHANGED <<walk, pc>>
  BY <1>11 DEF Publish
<1>12. QED
  BY <1>1, <1>2, <1>3, <1>4, <1>5, <1>6, <1>7, <1>8, <1>9, <1>10, <1>11 DEF Next, Loop, Environment, Tick, vars

-----------------------------------------------------------------------------
(* The run index and the newest runs *)

\* What a step does to the index of the runs.
LEMMA RunIndexMoves ==
    ASSUME Typed, WalkUploaded, [Next]_vars, NEW i \in Ids
    PROVE  \/ RunIndex(i)' = RunIndex(i)
           \/ Tick /\ RunIndex(i)' = {}
           \/ /\ IndexUnit \/ Seal
              /\ i = walk.id /\ RunIndex(i)' = RunIndex(i) \cup {walk.run} /\ walk.run \in walk.active
           \/ Prune /\ i = walk.id /\ RunIndex(i)' = RunIndex(i) \cap walk.active
<1>1. CASE UNCHANGED <<shape, db>>
  BY <1>1, DbKept DEF IndexesKept, RunIndexKept
<1>2. CASE TilesLand \/ Latch \/ (\E t \in Units : GeojsonLands(t))
  BY <1>2, TilesLandAdds, LatchAdds, GeojsonLandsAdds DEF IndexesKept, RunIndexKept
<1>3. CASE RegisterLayers \/ (\E l \in Layers : LayerMirrored(l))
  BY <1>3, RegisterLayersAdds, LayerMirroredAdds DEF LayersIndexed, RunIndexKept
<1>4. CASE IndexUnit \/ Seal
  <2>1. walk.run \in walk.active
    BY <1>4 DEF IndexUnit, Seal, WalkUploaded, WalkOf, InRun
  <2>2. RunIndex(i)' = IF i = walk.id THEN RunIndex(i) \cup {walk.run} ELSE RunIndex(i)
    BY <1>4, IndexUnitAdds, SealAdds DEF Indexed
  <2>3. QED
    BY <1>4, <2>1, <2>2
<1>5. CASE Prune
  BY <1>5, PruneCuts DEF RunsCut
<1>6. CASE Tick
  BY <1>6, Expired DEF Shrunk
<1>7. Reads \/ Cancel \/ UNCHANGED vars => UNCHANGED <<shape, db>>
  BY ReadsFrame, LoopFrame DEF Reads, Loop, Cancel, vars
<1>8. (\E j \in Ids : Retire(j))
         \/ (\E j \in Ids, r \in Runs, u \in Units, a \in Assets : Publish(j, r, u, a))
         => UNCHANGED <<shape, db>>
  BY DEF Retire, Publish
<1>9. QED
  BY <1>1, <1>2, <1>3, <1>4, <1>5, <1>6, <1>7, <1>8, LoopKinds DEF Next, Environment

\* An indexed run does not come back to S3, nor to the newest runs.
LEMMA RunsOfMoves ==
    ASSUME Typed, IndexUploaded, [Next]_vars, UNCHANGED shape, NEW i \in Ids, NEW r \in RunIndex(i)
    PROVE  /\ r \in RunsOf(i)' => r \in RunsOf(i)
           /\ r \in Newest(RunsOf(i)') => r \in Newest(RunsOf(i))
<1>0. /\ RunsOf(i) \in SUBSET (1..shape.runs) /\ RunsOf(i)' \in SUBSET (1..shape.runs)
      /\ shape.runs \in Nat /\ RunUploaded(i, r)
  BY SameShape, ForecastAssumption DEF Typed, RunsOf, Runs, IndexUploaded
<1>1. CASE UNCHANGED s3
  BY <1>1, SameShape DEF RunsOf
<1>2. ASSUME NEW j \in Ids, Retire(j)
      PROVE  /\ r \in RunsOf(i)' => r \in RunsOf(i)
             /\ r \in Newest(RunsOf(i)') => r \in Newest(RunsOf(i))
  <2> DEFINE low == Lowest(RunsOf(j))
  <2>1. s3' = {o \in s3 : <<o[1], o[2]>> # <<j, low>>} /\ RunsOf(j) # {}
    BY <1>2 DEF Retire
  <2>2. RunsOf(j) \in SUBSET (1..shape.runs)
    BY DEF RunsOf, Runs
  <2>3. low \in RunsOf(j) /\ \A y \in RunsOf(j) : low <= y
    BY <1>0, <2>1, <2>2, LowestIn
  <2> HIDE DEF low
  <2>4. CASE i # j
    <3>1. \A q, u : <<i, q, u, Raster>> \in s3' <=> <<i, q, u, Raster>> \in s3
      BY <2>1, <2>4
    <3>2. RunsOf(i)' = RunsOf(i)
      BY <3>1, SameShape DEF RunsOf
    <3>3. QED
      BY <3>2
  <2>5. CASE i = j
    <3>1. \A q, u : <<i, q, u, Raster>> \in s3' <=> <<i, q, u, Raster>> \in s3 /\ q # low
      BY <2>1, <2>5
    <3>2. RunsOf(i)' = RunsOf(i) \ {low}
      BY <3>1, SameShape DEF RunsOf
    <3>3. ASSUME r \in Newest(RunsOf(i)')
          PROVE  r \in Newest(RunsOf(i))
      <4> DEFINE S == RunsOf(i)
                 T == RunsOf(i)'
      <4>1. r \in S /\ r \in T /\ r # low
        BY <3>2, <3>3, NewestSubset
      <4>2. \A q \in S : q >= r => q \in T
        BY <1>0, <2>3, <2>5, <3>2, <4>1
      <4>3. S \in SUBSET (1..shape.runs) /\ T \in SUBSET (1..shape.runs) /\ r \in Newest(T)
        BY <1>0, <3>3
      <4> HIDE DEF S, T
      <4>4. r \in Newest(S)
        BY <1>0, <4>1, <4>2, <4>3, NewestWas
      <4>5. QED
        BY <4>4 DEF S
    <3>4. QED
      BY <3>2, <3>3
  <2>6. QED
    BY <2>4, <2>5
<1>3. ASSUME NEW j \in Ids, NEW q \in Runs, NEW u \in Units, NEW a \in Assets, Publish(j, q, u, a)
      PROVE  /\ r \in RunsOf(i)' => r \in RunsOf(i)
             /\ r \in Newest(RunsOf(i)') => r \in Newest(RunsOf(i))
  <2>1. s3' = s3 \cup {<<j, q, u, a>>} /\ <<j, q>> \notin retired
    BY <1>3 DEF Publish
  <2>2. RunsOf(i) \subseteq RunsOf(i)'
    BY <2>1, SameShape DEF RunsOf
  <2>3. \A x \in RunsOf(i)' : x \in RunsOf(i) \/ (i = j /\ x = q)
    BY <2>1, SameShape DEF RunsOf
  <2>4. r \in RunsOf(i)' => r \in RunsOf(i)
    BY <1>0, <2>1, <2>3 DEF RunUploaded
  <2>5. ASSUME r \in Newest(RunsOf(i)')
        PROVE  r \in Newest(RunsOf(i))
    <3> DEFINE S == RunsOf(i)
               T == RunsOf(i)'
    <3>1. r \in S /\ \A x \in S : x \in T
      BY <2>2, <2>4, <2>5, NewestSubset
    <3>2. S \in SUBSET (1..shape.runs) /\ T \in SUBSET (1..shape.runs) /\ r \in Newest(T)
      BY <1>0, <2>5
    <3> HIDE DEF S, T
    <3>3. r \in Newest(S)
      BY <1>0, <3>1, <3>2, NewestWas
    <3>4. QED
      BY <3>3 DEF S
  <2>6. QED
    BY <2>4, <2>5
<1>4. QED
  BY <1>1, <1>2, <1>3, LoopFrame DEF Next, Environment, Cancel, Tick, vars

\* Where the walk is, after a step.
WalkGoes ==
    \/ /\ \/ Wake \/ Report \/ Cancel \/ Prune \/ WalkFails
          \/ ListRuns /\ Newest(RunsOf(walk.id)) = {}
       /\ pc' \in {"asleep", "runs", "report"} /\ walk'.active = {}
    \/ UNCHANGED <<pc, walk, outcome>>
    \/ /\ ListRuns /\ pc' = "units" /\ walk'.id = walk.id
       /\ walk'.active = Newest(RunsOf(walk.id)) /\ UNCHANGED s3
    \/ /\ pc \notin {"asleep", "runs", "report"} /\ pc' \notin {"asleep", "runs", "report"}
       /\ walk'.id = walk.id /\ walk'.active = walk.active /\ UNCHANGED outcome

LEMMA WalkStays ==
    ASSUME Typed, [Next]_vars
    PROVE  WalkGoes
<1> USE DEF WalkGoes
<1>1. CASE Wake \/ Report \/ Cancel
  BY <1>1, NoWalkBare DEF Wake, Report, Cancel
<1>2. CASE Prune
  BY <1>2, NextIdMoves DEF Prune
<1>3. CASE WalkFails
  BY <1>3, NextIdMoves, NoWalkBare DEF WalkFails
<1>4. CASE ListRuns
  <2>1. CASE Newest(RunsOf(walk.id)) = {}
    BY <1>4, <2>1, NextIdMoves DEF ListRuns
  <2>2. CASE Newest(RunsOf(walk.id)) # {}
    <3> DEFINE active == Newest(RunsOf(walk.id))
    <3>1. pc' = "units" /\ walk' = [walk EXCEPT !.active = active, !.todo = active] /\ UNCHANGED s3
      BY <1>4, <2>2 DEF ListRuns
    <3> HIDE DEF active
    <3>2. walk'.id = walk.id /\ walk'.active = active
      BY <3>1 DEF Typed, Walks
    <3>3. QED
      BY <1>4, <3>1, <3>2 DEF active
  <2>3. QED
    BY <2>1, <2>2
<1>5. CASE UnitsDone \/ Seal
  <2>1. CASE RunDone(walk)
    BY <1>5, <2>1, RunDoneMoves DEF UnitsDone, Seal
  <2>2. CASE UnitsDone /\ product = "ecmwf_tp"
    BY <2>2 DEF UnitsDone
  <2>3. QED
    BY <1>5, <2>1, <2>2 DEF UnitsDone, Seal
<1>6. CASE ListUnits
  <2> DEFINE r == Highest(walk.todo)
             us == UnitsOf(walk.id, r)
  <2>1. walk' = [walk EXCEPT !.run = r, !.todo = walk.todo \ {r}, !.listed = us, !.units = us]
    BY <1>6 DEF ListUnits
  <2>2. pc = "units" /\ pc' \in {"steps", "known"} /\ UNCHANGED outcome
    BY <1>6 DEF ListUnits
  <2> HIDE DEF r, us
  <2>3. QED
    BY <2>1, <2>2 DEF Typed, Walks
<1>7. CASE ReadKnown
  <2> DEFINE known == UnitIndex(walk.id, walk.run)
             new == walk.listed \ known
  <2>1. /\ \/ walk' = [walk EXCEPT !.known = known, !.units = new]
           \/ walk' = [walk EXCEPT !.known = known, !.units = {}, !.pending = new]
           \/ walk' = [walk EXCEPT !.known = known]
        /\ pc = "known" /\ pc' \in {"steps", "seal", "fetch"} /\ UNCHANGED outcome
    BY <1>7, ForecastAssumption DEF ReadKnown, Stops, Typed, product, Products
  <2> HIDE DEF known, new
  <2>2. QED
    BY <2>1 DEF Typed, Walks
<1>8. CASE NextUnit
  <2> DEFINE u == Lowest(walk.units)
  <2>1. walk' = [walk EXCEPT !.unit = u, !.units = walk.units \ {u}, !.pending = {}, !.stored = {},
                            !.layers = {}]
    BY <1>8 DEF NextUnit
  <2>2. pc' \in {"fetch", "marker", "index"} /\ pc = "steps" /\ UNCHANGED outcome
    BY <1>8, ForecastAssumption DEF NextUnit, Typed, Stops, product, Products
  <2> HIDE DEF u
  <2>3. QED
    BY <2>1, <2>2 DEF Typed, Walks
<1>9. CASE ListLayers
  <2> DEFINE layers == LayersOf(walk.id, walk.run, walk.unit)
  <2>1. /\ walk' \in {[walk EXCEPT !.latch = RecheckTTL], [walk EXCEPT !.layers = layers]}
        /\ pc = "layers" /\ pc' \in {"latch", "compare"} /\ UNCHANGED outcome
    BY <1>9 DEF ListLayers
  <2> HIDE DEF layers
  <2>2. QED
    BY <2>1 DEF Typed, Walks
<1>10. CASE \/ TilesLand \/ TilesMissing \/ AllFetched \/ IndexUnit \/ CheckMarker \/ CompareLayers
            \/ Latch \/ RegisterLayers \/ LayersDone \/ OverlaysFail
            \/ \E t \in Units : GeojsonMissing(t)
            \/ \E l \in Layers : LayerMissing(l)
  <2>0. walk \in Walks /\ product \in Products /\ pc \in Stops
    BY ForecastAssumption DEF Typed, product
  <2>1. walk'.id = walk.id /\ walk'.active = walk.active
    BY <1>10, <2>0 DEF Walks, TilesLand, TilesMissing, AllFetched, IndexUnit, CheckMarker,
       CompareLayers, Latch, RegisterLayers, LayersDone, OverlaysFail, GeojsonMissing, LayerMissing, Products, Stops
  <2>2. /\ pc \notin {"asleep", "runs", "report"} /\ pc' \notin {"asleep", "runs", "report"}
        /\ UNCHANGED outcome
    BY <1>10, <2>0 DEF TilesLand, TilesMissing, AfterFetch, AllFetched, IndexUnit, CheckMarker,
       CompareLayers, Latch, RegisterLayers, LayersDone, OverlaysFail, GeojsonMissing, LayerMissing, Products, Stops
  <2>3. QED
    BY <2>1, <2>2
<1>11. CASE (\E t \in Units : GeojsonLands(t)) \/ (\E l \in Layers : LayerMirrored(l))
  <2>1. PICK x : walk' = [walk EXCEPT !.pending = walk.pending \ {x}, !.stored = walk.stored \cup {x}]
    BY <1>11 DEF GeojsonLands, LayerMirrored
  <2>2. pc \in {"fetch", "mirror"} /\ UNCHANGED <<pc, outcome>>
    BY <1>11 DEF GeojsonLands, LayerMirrored
  <2>3. QED
    BY <2>1, <2>2 DEF Typed, Walks
<1>12. CASE UNCHANGED <<pc, walk, outcome>>
  BY <1>12
<1>13. (\E j \in Ids : Retire(j)) \/ Tick
         \/ (\E j \in Ids, r \in Runs, u \in Units, a \in Assets : Publish(j, r, u, a))
         => UNCHANGED <<pc, walk, outcome>>
  BY DEF Retire, Publish, Tick
<1> HIDE DEF WalkGoes
<1>14. UNCHANGED vars => UNCHANGED <<pc, walk, outcome>>
  BY DEF vars
<1>15. Environment => WalkGoes
  BY <1>1, <1>12, <1>13 DEF Environment
<1>16. ASSUME Loop PROVE WalkGoes
  <2>1. CASE \/ Wake \/ Report \/ Prune \/ WalkFails \/ ListRuns \/ UnitsDone \/ Seal \/ ListUnits
             \/ ReadKnown \/ NextUnit \/ ListLayers
    BY <2>1, <1>1, <1>2, <1>3, <1>4, <1>5, <1>6, <1>7, <1>8, <1>9
  <2>2. CASE (\E t \in Units : GeojsonLands(t)) \/ (\E l \in Layers : LayerMirrored(l))
    BY <2>2, <1>11
  <2>3. CASE ~(\E t \in Units : GeojsonLands(t)) /\ ~(\E l \in Layers : LayerMirrored(l))
    BY <1>16, <2>1, <2>3, <1>10 DEF Loop
  <2>4. QED
    BY <2>2, <2>3
<1>17. QED
  BY <1>12, <1>14, <1>15, <1>16 DEF Next

LEMMA WalkCoversStep ==
    ASSUME Typed, IndexUploaded, WalkUploaded, WalkCovers, [Next]_vars, UNCHANGED shape
    PROVE  WalkCovers'
<1> SUFFICES ASSUME pc' \notin {"asleep", "runs", "report"}, NEW i \in Ids, i = walk'.id,
                    NEW r \in RunIndex(i)', r \in Newest(RunsOf(i)')
             PROVE  r \in walk'.active
  BY SameShape DEF WalkCovers
<1>1. CASE UNCHANGED <<pc, walk>>
           \/ /\ pc \notin {"asleep", "runs", "report"}
              /\ walk'.id = walk.id /\ walk'.active = walk.active
  <2>1. pc \notin {"asleep", "runs", "report"} /\ walk'.active = walk.active /\ i = walk.id
    BY <1>1
  <2>2. r \in RunIndex(i) \/ r \in walk.active
    BY RunIndexMoves
  <2>3. r \in RunIndex(i) => r \in Newest(RunsOf(i))
    BY RunsOfMoves
  <2>4. QED
    BY <2>1, <2>2, <2>3 DEF WalkCovers
<1>2. CASE ListRuns /\ walk'.id = walk.id /\ walk'.active = Newest(RunsOf(walk.id)) /\ UNCHANGED s3
  <2>1. RunsOf(i)' = RunsOf(i) /\ i = walk.id
    BY <1>2, SameShape DEF RunsOf
  <2>2. QED
    BY <1>2, <2>1
<1>3. QED
  BY <1>1, <1>2, WalkStays DEF WalkGoes

LEMMA WalkBoundedStep ==
    ASSUME Typed, WalkBounded, [Next]_vars
    PROVE  WalkBounded'
<1>1. CASE walk'.active = {}
  BY <1>1, FS_EmptySet, ForecastAssumption DEF WalkBounded
<1>2. CASE walk'.active = walk.active
  BY <1>2 DEF WalkBounded
<1>3. CASE walk'.active = Newest(RunsOf(walk.id))
  <2>1. RunsOf(walk.id) \in SUBSET (1..shape.runs) /\ shape.runs \in Nat
    BY ForecastAssumption DEF Typed, RunsOf, Runs
  <2>2. QED
    BY <1>3, <2>1, NewestBounded DEF WalkBounded
<1>4. QED
  BY <1>1, <1>2, <1>3, WalkStays DEF WalkGoes

\* Which ids are done, after a step of a cycle without error.
LEMMA IdsDoneMoves ==
    ASSUME Typed, [Next]_vars, UNCHANGED shape, outcome' = "ok", NEW i \in Ids, i \in IdsDone'
    PROVE  \/ /\ outcome = "ok" /\ i \in IdsDone
              /\ ~(i = walk.id /\ (IndexUnit \/ Seal \/ Prune))
           \/ i = walk.id /\ Prune
           \/ i = walk.id /\ ListRuns /\ Newest(RunsOf(i)) = {}
<1>0. Ids = 1..shape.ids /\ shape.ids \in Nat /\ walk.id \in Ids
  BY ForecastAssumption DEF Typed, Ids, Walks
<1>1. CASE UNCHANGED <<pc, walk, outcome>>
  <2>1. i \in IdsDone /\ outcome = "ok"
    BY <1>1, SameShape DEF IdsDone
  <2>2. IndexUnit \/ Seal \/ Prune => pc \in {"index", "seal", "prune"}
    BY DEF IndexUnit, Seal, Prune
  <2>3. pc \in {"index", "seal", "prune"} => i # walk.id
    BY <1>0, <2>1 DEF IdsDone
  <2>4. QED
    BY <2>1, <2>2, <2>3
<1>2. CASE Wake
  <2>1. pc' = "runs" /\ walk'.id = 1
    BY <1>2, NoWalkBare DEF Wake
  <2>2. QED
    BY <1>0, <2>1, SameShape DEF IdsDone
<1>3. CASE Report
  BY <1>3 DEF Report, IdsDone
<1>4. CASE Cancel \/ WalkFails
  BY <1>4 DEF Cancel, WalkFails
<1>5. CASE Prune \/ (ListRuns /\ Newest(RunsOf(walk.id)) = {})
  <2>1. NextId /\ UNCHANGED outcome /\ pc \in {"prune", "runs"}
    BY <1>5 DEF Prune, ListRuns
  <2>2. i # walk.id => i \in IdsDone
    BY <1>0, <2>1, NextIdMoves, SameShape DEF IdsDone
  <2>3. QED
    BY <1>5, <2>1, <2>2
<1>6. CASE /\ pc \notin {"asleep", "report"} /\ pc' \notin {"asleep", "report"}
           /\ walk'.id = walk.id /\ UNCHANGED outcome
  <2>1. i \in IdsDone /\ outcome = "ok" /\ i # walk.id
    BY <1>0, <1>6, SameShape DEF IdsDone
  <2>2. QED
    BY <2>1
<1>7. CASE ListRuns /\ pc' = "units" /\ walk'.id = walk.id
  BY <1>6, <1>7 DEF ListRuns
<1>8. QED
  BY <1>1, <1>2, <1>3, <1>4, <1>5, <1>6, <1>7, WalkStays DEF WalkGoes

LEMMA DoneBoundedStep ==
    ASSUME Typed, IndexUploaded, WalkUploaded, WalkBounded, DoneBounded, [Next]_vars, UNCHANGED shape
    PROVE  DoneBounded'
<1> SUFFICES ASSUME outcome' = "ok", NEW i \in Ids, i \in IdsDone',
                    RunIndex(i)' \cap RunsOf(i)' # {}
             PROVE  Cardinality(RunIndex(i)') <= Keep
  BY SameShape DEF DoneBounded, IdsDone
<1>1. CASE Prune /\ i = walk.id
  <2>1. RunIndex(i)' \subseteq walk.active
    BY <1>1, PruneCuts DEF RunsCut
  <2>2. IsFiniteSet(walk.active) /\ Cardinality(walk.active) <= Keep
    BY DEF WalkBounded
  <2> DEFINE S == RunIndex(i)'
             T == walk.active
  <2>3. S \in SUBSET T
    BY <2>1
  <2> HIDE DEF S, T
  <2>4. IsFiniteSet(S) /\ IsFiniteSet(T) /\ Cardinality(S) <= Cardinality(T)
    BY <2>2, <2>3, FS_Subset DEF T
  <2>5. Cardinality(S) \in Nat /\ Cardinality(T) \in Nat
    BY <2>4, FS_CardinalityType
  <2>6. Cardinality(T) <= Keep
    BY <2>2 DEF T
  <2>7. Cardinality(S) <= Keep
    BY <2>4, <2>5, <2>6, ForecastAssumption
  <2>8. QED
    BY <2>7 DEF S
<1>2. CASE ListRuns /\ i = walk.id /\ Newest(RunsOf(i)) = {}
  <2>1. RunsOf(i)' = RunsOf(i)
    BY <1>2, SameShape DEF ListRuns, RunsOf
  <2>2. RunsOf(i) \in SUBSET (1..shape.runs) /\ shape.runs \in Nat
    BY ForecastAssumption DEF Typed, RunsOf, Runs
  <2>3. RunsOf(i) = {}
    BY <1>2, <2>2, NewestNotEmpty
  <2>4. QED
    BY <2>1, <2>3
<1>3. CASE outcome = "ok" /\ i \in IdsDone /\ ~(i = walk.id /\ (IndexUnit \/ Seal \/ Prune))
  <2>1. RunIndex(i)' = RunIndex(i) \/ RunIndex(i)' = {}
    BY <1>3, RunIndexMoves
  <2>2. RunIndex(i)' = RunIndex(i)
    BY <2>1
  <2>3. RunIndex(i) \cap RunsOf(i) # {}
    BY <2>2, RunsOfMoves
  <2>4. QED
    BY <1>3, <2>2, <2>3 DEF DoneBounded
<1>4. QED
  BY <1>1, <1>2, <1>3, IdsDoneMoves

-----------------------------------------------------------------------------
(* The invariant holds *)

LEMMA InitInvariant == Init => IInv
<1> SUFFICES ASSUME Init PROVE IInv
  OBVIOUS
<1>1. Typed
  <2>1. shape.ids \in Nat /\ shape.ids > 0 /\ shape.runs \in Nat /\ shape.units \in Nat
    BY ForecastAssumption DEF Init
  <2>2. NoWalk \in Walks
    <3>1. 1 \in Ids /\ 0 \in 0..shape.runs /\ 0 \in 0..shape.units /\ 0 \in 0..(TTL + RecheckTTL)
      BY <2>1, ForecastAssumption DEF Ids
    <3>2. QED
      BY <3>1 DEF NoWalk, Walks
  <2>3. Entries(db)
    BY DEF Init, NoKeys, Entries
  <2>4. pc \in Stops
    BY DEF Init, Stops
  <2>5. QED
    BY <2>2, <2>3, <2>4 DEF Init, Typed
<1>2. /\ \A k : ~Has(db, k)
      /\ \A k : Members(db, k) = {}
  BY DEF Init, NoKeys, Has, Members
<1>3. IndexUploaded
  BY <1>1, <1>2, ByKey DEF IndexUploaded
<1>4. WalkUploaded
  <2>1. Bare(walk) /\ walk.active = {} /\ walk.todo = {} /\ pc = "asleep"
    BY <1>1, NoWalkBare DEF Init
  <2>2. WalkOf(walk, pc)
    BY <2>1, BareWalkOf
  <2>3. QED
    BY <2>2 DEF WalkUploaded
<1>5. WalkCovers
  BY DEF Init, WalkCovers
<1>6. WalkBounded
  <2>1. walk.active = {}
    BY <1>1, NoWalkBare DEF Init
  <2>2. QED
    BY <2>1, FS_EmptySet, ForecastAssumption DEF WalkBounded
<1>7. DoneBounded
  BY DEF Init, DoneBounded, IdsDone
<1>8. QED
  BY <1>1, <1>3, <1>4, <1>5, <1>6, <1>7 DEF IInv

LEMMA InvariantStep == IInv /\ [Next]_vars => IInv'
<1> SUFFICES ASSUME IInv, [Next]_vars PROVE IInv'
  OBVIOUS
<1>1. /\ Typed /\ IndexUploaded /\ WalkUploaded /\ WalkCovers /\ WalkBounded /\ DoneBounded
  BY DEF IInv
<1>2. Typed' /\ UNCHANGED shape
  BY <1>1, TypedStep
<1>3. UploadedKept
  BY <1>1, <1>2, UploadedStays
<1>4. IndexUploaded' /\ WalkUploaded'
  BY <1>1, <1>2, <1>3, IndexUploadedStep, WalkUploadedStep
<1>5. WalkCovers' /\ WalkBounded' /\ DoneBounded'
  BY <1>1, <1>2, WalkCoversStep, WalkBoundedStep, DoneBoundedStep
<1>6. QED
  BY <1>2, <1>4, <1>5 DEF IInv

LEMMA InvariantHolds == Spec => []IInv
BY InitInvariant, InvariantStep, PTL DEF Spec

-----------------------------------------------------------------------------
(* What it implies *)

\* What a listing advertises can be fetched until its publisher removes the run,
\* whatever the loops index before they mirror it: an index only names what was
\* uploaded, and what was uploaded leaves S3 with its run.
THEOREM AdvertisedServableHolds == Spec => []AdvertisedServable
<1>1. IInv => AdvertisedServable
  BY DEF IInv, IndexUploaded, UnitUploaded, Uploaded, AdvertisedServable, Servable
<1>2. QED
  BY <1>1, InvariantHolds, PTL

\* A cycle without error leaves at most the runs to be kept in the index of each
\* product that still has one of them in S3: the prune at its end cuts the index
\* to the runs the cycle began with, and nothing is indexed after it.
THEOREM IndexBoundedHolds == Spec => []IndexBounded
<1>1. IInv => IndexBounded
  BY DEF IInv, DoneBounded, IdsDone, IndexBounded
<1>2. QED
  BY <1>1, InvariantHolds, PTL

\* A run among the newest leaves the index only by age: the prune keeps the runs
\* listed when the cycle began, and whatever was indexed and is still among the
\* newest was listed then.
THEOREM NewestRunsKeptHolds == Spec => NewestRunsKept
<1> DEFINE Kept == \A i \in Ids : \A r \in RunIndex(i) \cap Newest(RunsOf(i)) :
                      r \in RunIndex(i)' \/ db' = Aged(db)
<1>1. IInv /\ [Next]_vars => Kept
  <2> SUFFICES ASSUME IInv, [Next]_vars, NEW i \in Ids, NEW r \in RunIndex(i), r \in Newest(RunsOf(i))
               PROVE  r \in RunIndex(i)' \/ db' = Aged(db)
    OBVIOUS
  <2>1. CASE Tick
    BY <2>1 DEF Tick
  <2>2. CASE Prune /\ i = walk.id /\ RunIndex(i)' = RunIndex(i) \cap walk.active
    BY <2>2 DEF IInv, WalkCovers, Prune
  <2>3. QED
    BY <2>1, <2>2, RunIndexMoves DEF IInv
<1>2. IInv /\ [Next]_vars => [Kept]_vars
  BY <1>1
<1>3. Spec => [][Kept]_vars
  BY <1>2, InvariantHolds, PTL DEF Spec
<1>4. QED
  BY <1>3 DEF NewestRunsKept
=============================================================================
