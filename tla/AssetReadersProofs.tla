------------------------- MODULE AssetReadersProofs -------------------------
(***************************************************************************)
(* Proofs about AssetReaders for every set of endpoints and viewers and    *)
(* every bound.                                                            *)
(***************************************************************************)
EXTENDS AssetReaders, TLAPS

Tags == {None, Tag, MissTag}

Asked == [at : Nat, tag : Tags, answer : Answers, excused : BOOLEAN]
Held == [body : {None, "asset", "gap"}, tag : Tags, fresh : Nat]

Typed ==
    /\ s3 \in BOOLEAN
    /\ req \in [Viewers -> Asked]
    /\ kept \in [Viewers -> Held]

\* Nothing was answered yet to a request under way, and it is excused if the
\* object is not there now.
UnderWay ==
    \A v \in Viewers : InFlight(v) => req[v].answer = "none" /\ (~s3 => req[v].excused)

\* Who holds the asset holds its tag, and so asks for nothing.
HolderAtRest ==
    \A v \in Viewers : kept[v].body = "asset" => kept[v].tag = Tag /\ ~InFlight(v)

Inv == Typed /\ UnderWay /\ HolderAtRest /\ ServableWhileInS3

\* What a step may do to one viewer: the others keep their request and copy.
OnlyOf(v, r, c) == req' = [req EXCEPT ![v] = r] /\ kept' = [kept EXCEPT ![v] = c]

\* An asset, once held, stays held.
HeldForGood == \A v \in Viewers : kept[v].body = "asset" => kept'[v].body = "asset"

\* A request ends, or begins, or goes on, by itself.
LEMMA ViewerSteps ==
    ASSUME Inv, NEW v \in Viewers, NEW r \in Asked, NEW c \in Held,
           OnlyOf(v, r, c), UNCHANGED s3,
           r.at > 0 => r.answer = "none" /\ (~s3 => r.excused) /\ c.body # "asset",
           c.body = "asset" => c.tag = Tag,
           kept[v].body = "asset" => c.body = "asset",
           r.answer \in {"404", "gap"} => r.excused
    PROVE  Inv' /\ HeldForGood
<1>1. Typed'
  BY DEF Inv, Typed, OnlyOf
<1>2. \A w \in Viewers : /\ req'[w] = IF w = v THEN r ELSE req[w]
                         /\ kept'[w] = IF w = v THEN c ELSE kept[w]
  BY DEF Inv, Typed, OnlyOf
<1>3. UnderWay'
  BY <1>2 DEF Inv, UnderWay, InFlight
<1>4. HolderAtRest'
  BY <1>2 DEF Inv, Typed, Asked, HolderAtRest, InFlight
<1>5. ServableWhileInS3'
  BY <1>2 DEF Inv, ServableWhileInS3
<1>6. HeldForGood
  BY <1>2 DEF HeldForGood
<1>7. QED
  BY <1>1, <1>3, <1>4, <1>5, <1>6 DEF Inv

LEMMA IdleAsked == Idle \in Asked
BY DEF Idle, Asked, Tags, Answers

LEMMA CopyHeld ==
    ASSUME NEW v \in Viewers, Typed
    PROVE  /\ req[v] \in Asked /\ kept[v] \in Held
           /\ req = [req EXCEPT ![v] = req[v]] /\ kept = [kept EXCEPT ![v] = kept[v]]
BY DEF Typed

\* An answer that leaves the copy as it is.
LEMMA AnswerOnly ==
    ASSUME Inv, NEW v \in Viewers, NEW a \in Answers, NEW excuse \in BOOLEAN,
           Answer(v, a, excuse), UNCHANGED <<kept, s3>>, a \in {"404", "gap"} => excuse
    PROVE  Inv' /\ HeldForGood
<1> DEFINE r == [Idle EXCEPT !.answer = a, !.excused = excuse]
<1>1. r \in Asked /\ r.at = 0 /\ r.answer = a /\ r.excused = excuse
  BY IdleAsked DEF Idle, Asked
<1>2. OnlyOf(v, r, kept[v]) /\ kept[v] \in Held
  BY CopyHeld DEF Inv, OnlyOf, Answer
<1> HIDE DEF r
<1>3. kept[v].body = "asset" => kept[v].tag = Tag
  BY DEF Inv, HolderAtRest
<1>4. QED
  BY <1>1, <1>2, <1>3, ViewerSteps

\* An answer with a copy, to a viewer that does not lose the asset by it.
LEMMA AnswerAndKeep ==
    ASSUME Inv, NEW v \in Viewers, NEW a \in Answers, NEW excuse \in BOOLEAN, NEW c \in Held,
           Answer(v, a, excuse), kept' = [kept EXCEPT ![v] = c], UNCHANGED s3,
           a \in {"404", "gap"} => excuse,
           c.body = "asset" => c.tag = Tag,
           kept[v].body = "asset" => c.body = "asset"
    PROVE  Inv' /\ HeldForGood
<1> DEFINE r == [Idle EXCEPT !.answer = a, !.excused = excuse]
<1>1. r \in Asked /\ r.at = 0 /\ r.answer = a /\ r.excused = excuse
  BY IdleAsked DEF Idle, Asked
<1>2. OnlyOf(v, r, c)
  BY DEF OnlyOf, Answer
<1> HIDE DEF r
<1>3. QED
  BY <1>1, <1>2, ViewerSteps

LEMMA Ages == TileAge \in Nat /\ MissAge \in Nat
BY AssetAssumption

LEMMA FoundKeeps ==
    ASSUME Inv, NEW v \in Viewers, Found(v), UNCHANGED s3
    PROVE  Inv' /\ HeldForGood
<1>0. "asset" \in Answers
  BY DEF Answers
<1>1. CASE route.tags = "none"
  BY <1>0, <1>1, AnswerOnly DEF Found
<1>2. CASE route.tags # "none"
  <2> DEFINE c == [body |-> "asset", tag |-> Tag, fresh |-> TileAge]
  <2>1. c \in Held /\ c.body = "asset" /\ c.tag = Tag
    BY Ages DEF Held, Tags
  <2>2. kept' = [kept EXCEPT ![v] = c] /\ Answer(v, "asset", FALSE)
    BY <1>2 DEF Found, Keep
  <2> HIDE DEF c
  <2>3. QED
    BY <1>0, <2>1, <2>2, AnswerAndKeep
<1>3. QED
  BY <1>1, <1>2

\* "No data" to a viewer that does not hold the asset.
LEMMA MissingKeeps ==
    ASSUME Inv, NEW v \in Viewers, NEW tag, NEW excuse \in BOOLEAN, Missing(v, tag, excuse),
           excuse, kept[v].body # "asset", UNCHANGED s3
    PROVE  Inv' /\ HeldForGood
<1>0. {"404", "304", "gap"} \subseteq Answers
  BY DEF Answers
<1>1. CASE route.tags # "pair"
  BY <1>0, <1>1, AnswerOnly DEF Missing
<1>2. CASE route.tags = "pair" /\ tag = MissTag
  <2> DEFINE c == [kept[v] EXCEPT !.fresh = MissAge]
  <2>1. c \in Held /\ c.body = kept[v].body
    BY Ages, CopyHeld DEF Inv, Held
  <2>2. kept' = [kept EXCEPT ![v] = c] /\ Answer(v, "304", excuse)
    BY <1>2 DEF Missing
  <2> HIDE DEF c
  <2>3. QED
    BY <1>0, <2>1, <2>2, AnswerAndKeep
<1>3. CASE route.tags = "pair" /\ tag # MissTag
  <2> DEFINE c == [body |-> "gap", tag |-> MissTag, fresh |-> MissAge]
  <2>1. c \in Held /\ c.body = "gap"
    BY Ages DEF Held, Tags
  <2>2. kept' = [kept EXCEPT ![v] = c] /\ Answer(v, "gap", excuse)
    BY <1>3 DEF Missing, Keep
  <2> HIDE DEF c
  <2>3. QED
    BY <1>0, <2>1, <2>2, AnswerAndKeep
<1>4. QED
  BY <1>1, <1>2, <1>3

\* A matching tag: the copy only gets a new age.
LEMMA NotModifiedKeeps ==
    ASSUME Inv, NEW v \in Viewers, NotModified(v), UNCHANGED s3
    PROVE  Inv' /\ HeldForGood
<1> DEFINE c == [kept[v] EXCEPT !.fresh = IF kept[v].body = "gap" THEN MissAge ELSE TileAge]
<1>1. c \in Held /\ c.body = kept[v].body /\ c.tag = kept[v].tag
  BY Ages, CopyHeld DEF Inv, Held
<1>2. kept' = [kept EXCEPT ![v] = c] /\ Answer(v, "304", FALSE)
  BY DEF NotModified
<1>3. kept[v].body = "asset" => kept[v].tag = Tag
  BY DEF Inv, HolderAtRest
<1>4. "304" \in Answers
  BY DEF Answers
<1> HIDE DEF c
<1>5. QED
  BY <1>1, <1>2, <1>3, <1>4, AnswerAndKeep

LEMMA RefusedKeeps ==
    ASSUME Inv, NEW v \in Viewers, NEW a \in {"400", "404", "500"}, Refused(v, a), UNCHANGED s3
    PROVE  Inv' /\ HeldForGood
<1>1. a \in Answers
  BY DEF Answers
<1>2. QED
  BY <1>1, AnswerOnly DEF Refused

\* The next place to look.
LEMMA GoesOn ==
    ASSUME Inv, NEW v \in Viewers, InFlight(v), req' = [req EXCEPT ![v].at = @ + 1],
           UNCHANGED <<kept, s3>>
    PROVE  Inv' /\ HeldForGood
<1> DEFINE r == [req[v] EXCEPT !.at = @ + 1]
<1>1. req[v] \in Asked /\ req[v].answer = "none" /\ (~s3 => req[v].excused) /\ kept[v].body # "asset"
  BY DEF Inv, Typed, UnderWay, HolderAtRest
<1>2. r \in Asked /\ r.answer = "none" /\ r.excused = req[v].excused
  BY <1>1 DEF Asked
<1>3. OnlyOf(v, r, kept[v]) /\ kept[v] \in Held
  BY CopyHeld DEF Inv, OnlyOf
<1> HIDE DEF r
<1>4. QED
  BY <1>1, <1>2, <1>3, ViewerSteps

LEMMA InitInv == Init => Inv
<1> SUFFICES ASSUME Init
             PROVE  Inv
  OBVIOUS
<1>1. Idle.at = 0 /\ Idle.answer = "none" /\ NoCopy.body = None /\ NoCopy \in Held
  BY DEF Idle, NoCopy, Held, Tags
<1>2. Typed
  BY <1>1, IdleAsked DEF Init, Typed
<1>3. \A v \in Viewers : req[v] = Idle /\ kept[v] = NoCopy
  BY DEF Init
<1>4. UnderWay /\ HolderAtRest /\ ServableWhileInS3
  BY <1>1, <1>3 DEF UnderWay, HolderAtRest, ServableWhileInS3, InFlight, None
<1>5. QED
  BY <1>2, <1>4 DEF Inv

LEMMA LooksKeep ==
    ASSUME Inv, NEW v \in Viewers, Looks(v)
    PROVE  Inv' /\ HeldForGood
<1>0. InFlight(v) /\ UNCHANGED s3
  BY DEF Looks, LookInCache, CacheFails, download_tile, DownloadFails, object_exists, HeadFails,
         read_point_from_cog_sync, CogFails, Looking
<1>1. kept[v].body # "asset" /\ req[v].excused \in BOOLEAN /\ (~s3 => req[v].excused)
  BY <1>0 DEF Inv, Typed, Asked, UnderWay, HolderAtRest
<1>2. ASSUME NotFound(v), ~s3
      PROVE  Inv' /\ HeldForGood
  BY <1>0, <1>1, <1>2, MissingKeeps DEF NotFound
<1>3. ASSUME FailedToFind(v)
      PROVE  Inv' /\ HeldForGood
  BY <1>0, <1>1, <1>3, MissingKeeps DEF FailedToFind
<1>4. CASE LookInCache(v)
  BY <1>0, <1>4, FoundKeeps, GoesOn DEF LookInCache
<1>5. CASE CacheFails(v)
  BY <1>0, <1>5, RefusedKeeps DEF CacheFails
<1>6. CASE download_tile(v)
  BY <1>0, <1>2, <1>6, FoundKeeps DEF download_tile, Inv, Typed
<1>7. CASE DownloadFails(v)
  BY <1>3, <1>7 DEF DownloadFails
<1>8. CASE object_exists(v)
  BY <1>0, <1>2, <1>8, GoesOn DEF object_exists, Inv, Typed
<1>9. CASE HeadFails(v)
  BY <1>0, <1>9, RefusedKeeps DEF HeadFails
<1>10. CASE read_point_from_cog_sync(v)
  BY <1>0, <1>2, <1>10, FoundKeeps DEF read_point_from_cog_sync, Inv, Typed
<1>11. CASE CogFails(v)
  BY <1>3, <1>11 DEF CogFails
<1>12. QED
  BY <1>4, <1>5, <1>6, <1>7, <1>8, <1>9, <1>10, <1>11 DEF Looks

LEMMA AskKeeps ==
    ASSUME Inv, NEW v \in Viewers, NEW zoomOk \in BOOLEAN, Ask(v, zoomOk)
    PROVE  Inv' /\ HeldForGood
<1>0. UNCHANGED s3
  BY DEF Ask
<1> DEFINE r == [at |-> 1, tag |-> kept[v].tag, answer |-> "none", excused |-> ~s3]
<1>1. CASE Refused(v, "404") \/ Refused(v, "400")
  BY <1>0, <1>1, RefusedKeeps
<1>2. CASE NotModified(v)
  BY <1>0, <1>2, NotModifiedKeeps
<1>3. CASE kept[v].tag # Tag /\ Missing(v, kept[v].tag, TRUE)
  BY <1>0, <1>3, MissingKeeps DEF Inv, HolderAtRest
<1>4. CASE kept[v].tag # Tag /\ req' = [req EXCEPT ![v] = r] /\ UNCHANGED kept
  <2>1. r \in Asked /\ r.answer = "none" /\ r.excused = ~s3
    BY CopyHeld DEF Inv, Typed, Asked, Held, Answers
  <2>2. OnlyOf(v, r, kept[v]) /\ kept[v] \in Held /\ kept[v].body # "asset"
    BY <1>4, CopyHeld DEF Inv, OnlyOf, HolderAtRest
  <2> HIDE DEF r
  <2>3. QED
    BY <1>0, <2>1, <2>2, ViewerSteps
<1>5. QED
  BY <1>1, <1>2, <1>3, <1>4 DEF Ask

LEMMA NextKeeps == Inv /\ [Next]_vars => Inv' /\ HeldForGood
<1> SUFFICES ASSUME Inv, [Next]_vars
             PROVE  Inv' /\ HeldForGood
  OBVIOUS
<1>1. ASSUME NEW v \in Viewers, NEW z \in BOOLEAN, Ask(v, z)
      PROVE  Inv' /\ HeldForGood
  BY <1>1, AskKeeps
<1>2. ASSUME NEW v \in Viewers, Looks(v)
      PROVE  Inv' /\ HeldForGood
  BY <1>2, LooksKeep
<1>3. CASE UNCHANGED <<s3, req, kept>>
  BY <1>3 DEF Inv, Typed, UnderWay, HolderAtRest, ServableWhileInS3, InFlight, HeldForGood
<1>4. CASE Tick
  <2>1. \A v \in Viewers : /\ kept'[v] \in Held
                           /\ kept'[v].body = kept[v].body /\ kept'[v].tag = kept[v].tag
    BY <1>4 DEF Tick, Inv, Typed, Held
  <2>2. kept' \in [Viewers -> Held]
    BY <1>4, <2>1 DEF Tick
  <2>3. QED
    BY <1>4, <2>1, <2>2
       DEF Tick, Inv, Typed, UnderWay, HolderAtRest, ServableWhileInS3, InFlight, HeldForGood
<1>5. CASE Publish
  BY <1>5 DEF Publish, Inv, Typed, UnderWay, HolderAtRest, ServableWhileInS3, InFlight, HeldForGood
<1>6. CASE Retire
  <2>1. \A v \in Viewers : /\ req'[v] \in Asked /\ req'[v].at = req[v].at
                           /\ req'[v].answer = req[v].answer
                           /\ InFlight(v) => req'[v].excused
                           /\ req[v].excused => req'[v].excused
    BY <1>6 DEF Retire, Inv, Typed, Asked
  <2>2. req' \in [Viewers -> Asked]
    BY <1>6, <2>1 DEF Retire
  <2>3. QED
    BY <1>6, <2>1, <2>2
       DEF Retire, Inv, Typed, UnderWay, HolderAtRest, ServableWhileInS3, InFlight, HeldForGood
<1>7. QED
  BY <1>1, <1>2, <1>3, <1>4, <1>5, <1>6 DEF Next, vars, Store, StoreLost

\* "No data" is only said when the object was really absent at some moment of
\* the request, or S3 failed in it, whatever Redis lost (the fall-back from
\* Redis to S3 of every get_tile and get_geojson).
THEOREM ServableWhileInS3Holds == Spec => []ServableWhileInS3
<1>1. Inv => ServableWhileInS3
  BY DEF Inv
<1>2. QED
  BY <1>1, InitInv, NextKeeps, PTL DEF Spec

\* A viewer that was given the asset never gets a gap in its place (the ETag
\* comparison that opens every route, etag_pair).
THEOREM AssetNeverLostHolds == Spec => AssetNeverLost
<1>1. Inv /\ [Next]_vars => [HeldForGood]_vars
  BY NextKeeps
<1>2. Spec => [][HeldForGood]_vars
  BY <1>1, InitInv, NextKeeps, PTL DEF Spec
<1>3. QED
  BY <1>2 DEF AssetNeverLost, HeldForGood
=============================================================================
