------------------------ MODULE ListingReadersProofs ------------------------
(***************************************************************************)
(* Proofs about ListingReaders for every set of endpoints, viewers, runs   *)
(* and units, and every life of the index, the copies and the snapshot.    *)
(***************************************************************************)
EXTENDS ListingReaders, SequenceTheorems, FiniteSetTheorems, TLAPS

-----------------------------------------------------------------------------
(* The invariant *)

\* What a listing may hold: runs that exist, and units and overlays that were
\* uploaded.
Backed(l, S, pub) ==
    /\ S \subseteq Nat
    /\ l[1] = "runs" => S \subseteq Runs
    /\ l[1] = "units" => \A u \in S : <<l[2], u, 0>> \in pub
    /\ l[1] = "layers" => \A u \in S : <<l[2], u, 1>> \in pub

Replies == [status : Nat, runs : SUBSET Nat,
            units : [Runs -> SUBSET Units], layers : SUBSET (Runs \X Units)]

Honest(a, pub) ==
    /\ \A r \in Runs : \A u \in a.units[r] : <<r, u, 0>> \in pub
    /\ \A x \in a.layers : <<x[1], x[2], 1>> \in pub

\* Only WRF and GFS have overlays to list.
Listable(product) == {l \in Listings : l[1] = "layers" => product \in {"wrf", "gfs"}}

Requests(product) ==
    [at : Nat, todo : Seq(Listable(product)), indexed : SUBSET Nat,
     found : SUBSET Nat, got : Replies]

Typed ==
    /\ ep \in Endpoints
    /\ req \in [Viewers -> Requests(ep.product)]
    /\ shown \in [Viewers -> Replies]
    /\ memo \in [val : SUBSET Nat, fresh : Nat]

Uploaded ==
    s3 \subseteq published /\ published \subseteq Runs \X Units \X {0, 1}

Entries(d) == \A k \in DOMAIN d : d[k] \in [val : SUBSET Nat, ttl : Int]

\* Index and copies hold nothing else,
Backs(d, pub) ==
    /\ Entries(d)
    /\ \A l \in Listings : /\ Backed(l, Members(d, IndexKey(l)), pub)
                           /\ Backed(l, Members(d, CopyKey(l)), pub)

StoredBacked == Backs(db, published)

\* nor does what a request has read so far,
ReadBacked(q, pub) ==
    /\ Honest(q.got, pub)
    /\ q.at > 0 => /\ q.todo # <<>>
                   /\ Backed(Head(q.todo), q.found, pub)
                   /\ Backed(Head(q.todo), q.indexed, pub)

RequestsBacked == \A v \in Viewers : ReadBacked(req[v], published)

\* nor what it answered.
ShownHonest == \A v \in Viewers : Honest(shown[v], published)

IInv == Typed /\ Uploaded /\ StoredBacked /\ RequestsBacked /\ ShownHonest

-----------------------------------------------------------------------------
(* Operators *)

LEMMA SetToSeqOf ==
    ASSUME NEW S, IsFiniteSet(S), NEW T, S \subseteq T
    PROVE  SetToSeq(S) \in Seq(T) /\ (S # {} => SetToSeq(S) # <<>>)
<1> DEFINE n == Cardinality(S)
<1>1. n \in Nat
  BY FS_CardinalityType
<1>2. \E f \in [1..n -> S] : IsInjective(f)
  <2>1. PICK f : f \in Bijection(1..n, S)
    BY FS_CardinalityType DEF ExistsBijection
  <2>2. QED
    BY <2>1 DEF Bijection, Injection, Surjection, IsInjective
<1>3. SetToSeq(S) \in [1..n -> S]
  BY <1>2 DEF SetToSeq
<1>4. S # {} => n # 0
  BY FS_EmptySet
<1> HIDE DEF n
<1>5. QED
  BY <1>1, <1>3, <1>4

Atoms ==
    {"idx", "cache:listing", "radars", "variables", "elevations", "tilesets", "products",
     "runs", "snapshot", "units", "layers"} \cup Nat

LEMMA ListingsAreTuples ==
    ASSUME NEW l \in Listings
    PROVE  /\ l \in Seq(Atoms) /\ l # <<>> /\ Head(l) = l[1]
           /\ l[1] \in {"units", "layers"} => l[2] \in Runs
<1>1. Runs \subseteq Atoms /\ Units \subseteq Atoms /\ "units" \in Atoms /\ "layers" \in Atoms
  BY ListingAssumption DEF Atoms
<1>2. \A x \in Atoms : /\ <<x>> \in Seq(Atoms) /\ <<x>> # <<>>
                       /\ Head(<<x>>) = x /\ <<x>>[1] = x
  OBVIOUS
<1>3. \A x, y \in Atoms : /\ <<x, y>> \in Seq(Atoms) /\ <<x, y>> # <<>>
                          /\ Head(<<x, y>>) = x /\ <<x, y>>[1] = x /\ <<x, y>>[2] = y
  OBVIOUS
<1>4. \A x, y, z \in Atoms : /\ <<x, y, z>> \in Seq(Atoms) /\ <<x, y, z>> # <<>>
                             /\ Head(<<x, y, z>>) = x /\ <<x, y, z>>[1] = x
                             /\ <<x, y, z>>[2] = y
  OBVIOUS
<1>5. CASE l \in {<<x>> : x \in {"radars", "variables", "elevations", "tilesets",
                                "products", "runs", "snapshot"}}
  <2>1. PICK x \in {"radars", "variables", "elevations", "tilesets",
                    "products", "runs", "snapshot"} : l = <<x>>
    BY <1>5
  <2>2. x \in Atoms /\ x \notin {"units", "layers"}
    BY DEF Atoms
  <2>3. QED
    BY <1>2, <2>1, <2>2
<1>6. CASE l \in {<<"units", r>> : r \in Runs} \cup {<<"layers", r>> : r \in Runs}
  <2>1. PICK x \in {"units", "layers"}, r \in Runs : l = <<x, r>>
    BY <1>6
  <2>2. QED
    BY <1>1, <1>3, <2>1
<1>7. CASE l \in {<<"layers", r, u>> : r \in Runs, u \in Units}
  <2>1. PICK r \in Runs, u \in Units : l = <<"layers", r, u>>
    BY <1>7
  <2>2. QED
    BY <1>1, <1>4, <2>1
<1>8. QED
  BY <1>5, <1>6, <1>7 DEF Listings

\* A key tells its listing.
LEMMA KeysApart ==
    ASSUME NEW l \in Listings, NEW m \in Listings
    PROVE  /\ IndexKey(l) = IndexKey(m) => l = m
           /\ CopyKey(l) = CopyKey(m) => l = m
           /\ IndexKey(l) # CopyKey(m)
<1>1. l \in Seq(Atoms) /\ m \in Seq(Atoms)
  BY ListingsAreTuples
<1>2. <<"idx">> \in Seq(Atoms) /\ <<"cache:listing">> \in Seq(Atoms)
  BY DEF Atoms
<1>3. ASSUME NEW x \in Atoms, NEW y \in Atoms, <<x>> \o l = <<y>> \o m
      PROVE  x = y /\ l = m
  <2>1. <<x>> \in Seq(Atoms) /\ <<y>> \in Seq(Atoms) /\ Len(<<x>>) = 1 /\ Len(<<y>>) = 1
    OBVIOUS
  <2>2. /\ Len(<<x>> \o l) = 1 + Len(l) /\ Len(<<y>> \o m) = 1 + Len(m)
        /\ Len(l) \in Nat /\ Len(m) \in Nat
    BY <1>1, <2>1, ConcatProperties, LenProperties
  <2>3. Len(l) = Len(m)
    BY <1>3, <2>2
  <2>4. (<<x>> \o l)[1] = x /\ (<<y>> \o m)[1] = y
    BY <1>1, <2>1, <2>2, ConcatProperties
  <2>5. \A i \in 1..Len(l) : l[i] = m[i]
    <3>1. TAKE i \in 1..Len(l)
    <3>2. (<<x>> \o l)[i + 1] = l[i]
      BY <1>1, <2>1, <2>2
    <3>3. (<<y>> \o m)[i + 1] = m[i]
      BY <1>1, <2>1, <2>2, <2>3
    <3>4. QED
      BY <1>3, <3>2, <3>3
  <2>6. l = m
    BY <1>1, <2>3, <2>5, SeqEqual
  <2>7. QED
    BY <1>3, <2>4, <2>6
<1>4. "idx" \in Atoms /\ "cache:listing" \in Atoms /\ "idx" # "cache:listing"
  BY DEF Atoms
<1>5. QED
  BY <1>3, <1>4 DEF IndexKey, CopyKey

LEMMA BackedUnion ==
    ASSUME NEW l, NEW pub, NEW S, NEW T, Backed(l, S, pub), Backed(l, T, pub)
    PROVE  Backed(l, S \cup T, pub)
BY DEF Backed

LEMMA BackedSubset ==
    ASSUME NEW l, NEW pub, NEW S, NEW T \in SUBSET S, Backed(l, S, pub)
    PROVE  Backed(l, T, pub)
BY DEF Backed

LEMMA BackedEmpty == \A l, pub : Backed(l, {}, pub)
BY DEF Backed

\* More uploads disturb nothing.
LEMMA BackedGrows ==
    ASSUME NEW l, NEW S, NEW pub, NEW more, pub \subseteq more, Backed(l, S, pub)
    PROVE  Backed(l, S, more)
BY DEF Backed

LEMMA HonestGrows ==
    ASSUME NEW a, NEW pub, NEW more, pub \subseteq more, Honest(a, pub)
    PROVE  Honest(a, more)
BY DEF Honest

\* A database with less in it is no worse.
LEMMA BacksLess ==
    ASSUME NEW d, NEW e, NEW pub, Backs(d, pub), Entries(e),
           \A k : Members(e, k) \subseteq Members(d, k)
    PROVE  Backs(e, pub)
<1>1. ASSUME NEW l \in Listings
      PROVE  /\ Backed(l, Members(e, IndexKey(l)), pub)
             /\ Backed(l, Members(e, CopyKey(l)), pub)
  <2>1. /\ Backed(l, Members(d, IndexKey(l)), pub)
        /\ Backed(l, Members(d, CopyKey(l)), pub)
    BY DEF Backs
  <2>2. QED
    BY <2>1, BackedSubset
<1>2. QED
  BY <1>1 DEF Backs

LEMMA KeptBacks ==
    ASSUME NEW d, NEW pub, NEW k, NEW keep, Backs(d, pub)
    PROVE  Backs(KeepMembers(d, k, keep), pub)
<1> DEFINE e == KeepMembers(d, k, keep)
<1>0. Entries(d)
  BY DEF Backs
<1>1. CASE Members(d, k) \cap keep = {}
  <2>1. e = [x \in DOMAIN d \ {k} |-> d[x]]
    BY <1>1 DEF KeepMembers, Del
  <2> HIDE DEF e
  <2>2. Entries(e)
    BY <1>0, <2>1 DEF Entries
  <2>3. \A x : Members(e, x) \subseteq Members(d, x)
    BY <2>1 DEF Members, Has
  <2>4. QED
    BY <2>2, <2>3, BacksLess DEF e
<1>2. CASE Members(d, k) \cap keep # {}
  <2>1. k \in DOMAIN d
    BY <1>2 DEF Members, Has
  <2>2. d[k] \in [val : SUBSET Nat, ttl : Int]
    BY <1>0, <2>1 DEF Entries
  <2> DEFINE m == [d[k] EXCEPT !.val = @ \cap keep]
  <2>3. m \in [val : SUBSET Nat, ttl : Int] /\ m.val = d[k].val \cap keep
    BY <2>2
  <2>4. e = [x \in DOMAIN d |-> IF x = k THEN m ELSE d[x]]
    BY <1>2 DEF KeepMembers
  <2> HIDE DEF e, m
  <2>5. Entries(e)
    BY <1>0, <2>3, <2>4 DEF Entries
  <2>6. \A x : Members(e, x) \subseteq Members(d, x)
    BY <2>3, <2>4 DEF Members, Has
  <2>7. QED
    BY <2>5, <2>6, BacksLess DEF e
<1>3. QED
  BY <1>1, <1>2

LEMMA AgedBacks ==
    ASSUME NEW d, NEW pub, Backs(d, pub)
    PROVE  Backs(Aged(d), pub)
<1> DEFINE e == Aged(d)
           older(k) == [d[k] EXCEPT !.ttl = @ - 1]
<1>0. Entries(d)
  BY DEF Backs
<1>1. \A k \in DOMAIN d : older(k) \in [val : SUBSET Nat, ttl : Int] /\ older(k).val = d[k].val
  BY <1>0 DEF Entries
<1>2. e = [k \in {x \in DOMAIN d : d[x].ttl > 1} |-> older(k)]
  BY DEF Aged
<1> HIDE DEF e, older
<1>3. Entries(e)
  BY <1>1, <1>2 DEF Entries
<1>4. \A x : Members(e, x) \subseteq Members(d, x)
  BY <1>1, <1>2 DEF Members, Has
<1>5. QED
  BY <1>3, <1>4, BacksLess DEF e

LEMMA CopiedBacks ==
    ASSUME NEW d, NEW pub, NEW l \in Listings, NEW S, NEW ttl \in Int,
           Backs(d, pub), Backed(l, S, pub)
    PROVE  Backs(SetEx(d, CopyKey(l), S, ttl), pub)
<1> DEFINE k == CopyKey(l)
           e == SetEx(d, k, S, ttl)
<1>1. e = [x \in DOMAIN d \cup {k} |-> IF x = k THEN [val |-> S, ttl |-> ttl] ELSE d[x]]
  BY DEF SetEx
<1>2. S \in SUBSET Nat
  BY DEF Backed
<1> HIDE DEF e, k
<1>3. Entries(e)
  BY <1>1, <1>2 DEF Backs, Entries
<1>4. Members(e, k) = S /\ \A x : x # k => Members(e, x) = Members(d, x)
  BY <1>1 DEF Members, Has
<1>5. ASSUME NEW m \in Listings
      PROVE  /\ Backed(m, Members(e, IndexKey(m)), pub)
             /\ Backed(m, Members(e, CopyKey(m)), pub)
  <2>1. /\ Backed(m, Members(d, IndexKey(m)), pub)
        /\ Backed(m, Members(d, CopyKey(m)), pub)
    BY DEF Backs
  <2>2. IndexKey(m) # k /\ (CopyKey(m) = k => m = l)
    BY KeysApart DEF k
  <2>3. QED
    BY <1>4, <2>1, <2>2
<1>6. QED
  BY <1>3, <1>5 DEF Backs, e, k

-----------------------------------------------------------------------------
(* The steps of a request *)

LEMMA ReplyWith ==
    ASSUME NEW a \in Replies
    PROVE  /\ \A x \in Nat : LET b == [a EXCEPT !.status = x]
                             IN  b \in Replies /\ b.units = a.units /\ b.layers = a.layers
           /\ \A x \in SUBSET Nat : LET b == [a EXCEPT !.runs = x]
                                    IN  b \in Replies /\ b.units = a.units /\ b.layers = a.layers
<1>1. \A x \in Nat : LET b == [a EXCEPT !.status = x]
                     IN  b \in Replies /\ b.units = a.units /\ b.layers = a.layers
  BY DEF Replies
<1>2. \A x \in SUBSET Nat : LET b == [a EXCEPT !.runs = x]
                            IN  b \in Replies /\ b.units = a.units /\ b.layers = a.layers
  BY DEF Replies
<1>3. QED
  BY <1>1, <1>2

\* An answer without units or overlays.
LEMMA NothingHonest ==
    /\ Nothing \in Replies
    /\ \A pub : Honest(Nothing, pub)
    /\ \A n \in Nat : LET a == [Nothing EXCEPT !.status = n]
                      IN  a \in Replies /\ \A pub : Honest(a, pub)
    /\ \A n \in Nat : \A S \in SUBSET Nat :
         LET a == [Nothing EXCEPT !.status = n, !.runs = S]
         IN  a \in Replies /\ \A pub : Honest(a, pub)
<1>0. NoUnits \in [Runs -> SUBSET Units] /\ \A r \in Runs : NoUnits[r] = {}
  BY DEF NoUnits
<1>1. Nothing \in Replies /\ Nothing.units = NoUnits /\ Nothing.layers = {}
  BY <1>0 DEF Nothing, Replies
<1>2. ASSUME NEW a \in Replies, a.units = NoUnits, a.layers = {}
      PROVE  \A pub : Honest(a, pub)
  BY <1>0, <1>2 DEF Honest
<1>3. ASSUME NEW n \in Nat
      PROVE  LET a == [Nothing EXCEPT !.status = n]
             IN  a \in Replies /\ \A pub : Honest(a, pub)
  <2> DEFINE a == [Nothing EXCEPT !.status = n]
  <2>1. a \in Replies /\ a.units = NoUnits /\ a.layers = {}
    BY <1>1, ReplyWith
  <2> HIDE DEF a
  <2>2. a \in Replies /\ \A pub : Honest(a, pub)
    BY <1>2, <2>1
  <2>3. QED
    BY <2>2 DEF a
<1>4. ASSUME NEW n \in Nat, NEW S \in SUBSET Nat
      PROVE  LET a == [Nothing EXCEPT !.status = n, !.runs = S]
             IN  a \in Replies /\ \A pub : Honest(a, pub)
  <2> DEFINE b == [Nothing EXCEPT !.status = n]
             a == [b EXCEPT !.runs = S]
  <2>1. b \in Replies /\ b.units = NoUnits /\ b.layers = {}
    BY <1>1, ReplyWith
  <2> HIDE DEF b
  <2>2. a \in Replies /\ a.units = NoUnits /\ a.layers = {}
    BY <2>1, ReplyWith
  <2> HIDE DEF a
  <2>3. a \in Replies /\ \A pub : Honest(a, pub)
    BY <1>2, <2>2
  <2>4. QED
    BY <2>3 DEF a, b
<1>5. \A pub : Honest(Nothing, pub)
  BY <1>1, <1>2
<1>6. QED
  BY <1>1, <1>3, <1>4, <1>5, Zenon

LEMMA StatusHonest ==
    ASSUME NEW n \in Nat
    PROVE  LET a == [Nothing EXCEPT !.status = n] IN a \in Replies /\ Honest(a, published)
BY NothingHonest

LEMMA StatusRunsHonest ==
    ASSUME NEW n \in Nat, NEW S \in SUBSET Nat
    PROVE  LET a == [Nothing EXCEPT !.status = n, !.runs = S]
           IN  a \in Replies /\ Honest(a, published)
BY NothingHonest

LEMMA IdleFine ==
    /\ \A p : Idle \in Requests(p)
    /\ \A pub : ReadBacked(Idle, pub)
    /\ Idle.at = 0 /\ Idle.indexed = {} /\ Idle.found = {}
<1>1. ASSUME NEW p PROVE Idle \in Requests(p)
  <2>1. <<>> \in Seq(Listable(p))
    OBVIOUS
  <2>2. QED
    BY <2>1, NothingHonest DEF Idle, Requests
<1>2. Idle.at = 0 /\ Idle.indexed = {} /\ Idle.found = {} /\ Idle.got = Nothing
  BY DEF Idle
<1>3. ASSUME NEW pub PROVE ReadBacked(Idle, pub)
  <2>1. Honest(Idle.got, pub)
    BY <1>2, NothingHonest
  <2>2. QED
    BY <1>2, <2>1 DEF ReadBacked
<1>4. QED
  BY <1>1, <1>2, <1>3

\* What a step of a request has to leave behind.
Fine ==
    /\ req' \in [Viewers -> Requests(ep.product)]
    /\ shown' \in [Viewers -> Replies]
    /\ \A v \in Viewers : ReadBacked(req'[v], published)
    /\ \A v \in Viewers : Honest(shown'[v], published)

LEMMA AnswerFine ==
    ASSUME IInv, NEW v \in Viewers, NEW a \in Replies, Honest(a, published),
           json_listing_response(v, a)
    PROVE  Fine
BY IdleFine DEF IInv, Typed, RequestsBacked, ShownHonest, json_listing_response, Fine

LEMMA ReadingFine ==
    ASSUME IInv, NEW v \in Viewers, NEW todo \in Seq(Listable(ep.product)), todo # <<>>,
           NEW got \in Replies, Honest(got, published), Reading(v, todo, got)
    PROVE  Fine
<1> DEFINE q1 == [Idle EXCEPT !.at = 1]
           q2 == [q1 EXCEPT !.todo = todo]
           q == [q2 EXCEPT !.got = got]
<1>1. /\ q1 \in Requests(ep.product) /\ q1.at = 1
      /\ q1.indexed = {} /\ q1.found = {}
  BY IdleFine DEF Requests
<1> HIDE DEF q1
<1>2. /\ q2 \in Requests(ep.product) /\ q2.at = 1 /\ q2.todo = todo
      /\ q2.indexed = {} /\ q2.found = {}
  BY <1>1 DEF Requests
<1> HIDE DEF q2
<1>3. /\ q \in Requests(ep.product) /\ q.at = 1 /\ q.todo = todo
      /\ q.indexed = {} /\ q.found = {} /\ q.got = got
  BY <1>2 DEF Requests
<1>4. req' = [req EXCEPT ![v] = q] /\ shown' = shown
  BY DEF Reading, q1, q2
<1> HIDE DEF q
<1>5. ReadBacked(q, published)
  BY <1>3, BackedEmpty DEF ReadBacked
<1>6. QED
  BY <1>3, <1>4, <1>5 DEF IInv, Typed, RequestsBacked, ShownHonest, Fine

LEMMA NextAwaitFine ==
    ASSUME IInv, NEW v \in Viewers, req[v].at > 0, NEW I, NEW F,
           Backed(Listing(v), I, published), Backed(Listing(v), F, published),
           NextAwait(v, I, F)
    PROVE  Fine
<1> DEFINE q == req[v]
           q1 == [q EXCEPT !.at = q.at + 1]
           q2 == [q1 EXCEPT !.indexed = I]
           n == [q2 EXCEPT !.found = F]
<1>1. q \in Requests(ep.product) /\ ReadBacked(q, published) /\ q.at > 0 /\ q.at \in Nat
  BY DEF IInv, Typed, RequestsBacked, Requests
<1>2. I \in SUBSET Nat /\ F \in SUBSET Nat
  BY DEF Backed
<1>3. req' = [req EXCEPT ![v] = n] /\ shown' = shown
  BY DEF NextAwait, IInv, Typed
<1>4. Backed(Head(q.todo), I, published) /\ Backed(Head(q.todo), F, published)
  BY DEF Listing
<1> HIDE DEF q, n
<1>5. /\ q1 \in Requests(ep.product) /\ q1.todo = q.todo /\ q1.got = q.got
  BY <1>1 DEF Requests
<1> HIDE DEF q1
<1>6. /\ q2 \in Requests(ep.product) /\ q2.todo = q.todo /\ q2.got = q.got /\ q2.indexed = I
  BY <1>2, <1>5 DEF Requests
<1> HIDE DEF q2
<1>7. /\ n \in Requests(ep.product) /\ n.todo = q.todo /\ n.got = q.got
      /\ n.indexed = I /\ n.found = F
  BY <1>2, <1>6 DEF Requests, n
<1>8. ReadBacked(n, published)
  BY <1>1, <1>4, <1>7 DEF ReadBacked
<1>9. QED
  BY <1>3, <1>7, <1>8 DEF IInv, Typed, RequestsBacked, ShownHonest, Fine

\* The listing under way.
LEMMA ListingUnderWay ==
    ASSUME IInv, NEW v \in Viewers, req[v].at > 0
    PROVE  /\ Listing(v) \in Listable(ep.product) /\ Listing(v) \in Listings
           /\ Head(Listing(v)) = Listing(v)[1]
           /\ Listing(v)[1] \in {"units", "layers"} => Listing(v)[2] \in Runs
           /\ Tail(req[v].todo) \in Seq(Listable(ep.product))
           /\ req[v].got \in Replies /\ Honest(req[v].got, published)
           /\ Backed(Listing(v), req[v].found, published)
           /\ Backed(Listing(v), req[v].indexed, published)
<1> DEFINE q == req[v]
<1>1. q \in Requests(ep.product) /\ ReadBacked(q, published)
  BY DEF IInv, Typed, RequestsBacked
<1>2. q.todo \in Seq(Listable(ep.product)) /\ q.todo # <<>>
  BY <1>1 DEF Requests, ReadBacked
<1>3. Head(q.todo) \in Listable(ep.product) /\ Tail(q.todo) \in Seq(Listable(ep.product))
  BY <1>2, HeadTailProperties
<1>4. Listing(v) \in Listings /\ Listing(v) \in Listable(ep.product)
  BY <1>3 DEF Listing, Listable
<1>5. q.got \in Replies
  BY <1>1 DEF Requests
<1>6. QED
  BY <1>1, <1>3, <1>4, <1>5, ListingsAreTuples DEF ReadBacked, Listing

LEMMA AdvertisedRuns ==
    ASSUME NEW S \in SUBSET Runs
    PROVE  /\ advertised(S) \in SUBSET Runs /\ IsFiniteSet(advertised(S))
           /\ advertised(S) \in SUBSET Nat
<1>1. advertised(S) \in SUBSET Runs
  BY DEF advertised, Newest
<1>2. QED
  BY <1>1, ListingAssumption, FS_Subset

\* One listing under way, of a run that exists.
LEMMA OneListing ==
    ASSUME NEW r \in Runs, NEW p
    PROVE  /\ <<<<"units", r>>>> \in Seq(Listable(p)) /\ <<<<"units", r>>>> # <<>>
           /\ p \in {"wrf", "gfs"} => /\ <<<<"layers", r>>>> \in Seq(Listable(p))
                                      /\ <<<<"layers", r>>>> # <<>>
<1>1. <<"units", r>> \in Listings /\ <<"layers", r>> \in Listings
  BY DEF Listings
<1>2. <<"units", r>>[1] = "units" /\ "units" # "layers"
  OBVIOUS
<1>3. <<"units", r>> \in Listable(p) /\ (p \in {"wrf", "gfs"} => <<"layers", r>> \in Listable(p))
  BY <1>1, <1>2 DEF Listable
<1>4. \A x, T : x \in T => <<x>> \in Seq(T) /\ <<x>> # <<>>
  OBVIOUS
<1>5. QED
  BY <1>3, <1>4

LEMMA ListRunsFine ==
    ASSUME IInv, NEW v \in Viewers, NEW S \in SUBSET Runs, list_runs(v, S)
    PROVE  Fine
<1> DEFINE active == advertised(S)
           all == {<<"units", r>> : r \in active}
           todo == SetToSeq(all)
           got == [Nothing EXCEPT !.status = 200, !.runs = active]
<1>1. active \in SUBSET Runs /\ IsFiniteSet(active) /\ active \in SUBSET Nat
  BY AdvertisedRuns
<1>2. got \in Replies /\ Honest(got, published)
  BY <1>1, NothingHonest
<1>3. IF todo = <<>> THEN json_listing_response(v, got) ELSE Reading(v, todo, got)
  BY DEF list_runs
<1> HIDE DEF active, got
<1>4. IsFiniteSet(all)
  <2> DEFINE f == [r \in active |-> <<"units", r>>]
  <2>1. f \in Surjection(active, all)
    BY DEF Surjection
  <2>2. QED
    BY <1>1, <2>1, FS_Surjection DEF ExistsSurjection
<1>5. all \subseteq Listable(ep.product)
  <2>1. \A r \in Runs : <<"units", r>> \in Listings /\ <<"units", r>>[1] = "units"
    BY DEF Listings
  <2>2. QED
    BY <1>1, <2>1 DEF Listable
<1> HIDE DEF all
<1>6. todo \in Seq(Listable(ep.product))
  BY <1>4, <1>5, SetToSeqOf
<1> HIDE DEF todo
<1>7. QED
  BY <1>2, <1>3, <1>6, AnswerFine, ReadingFine

LEMMA ListUnitsFine ==
    ASSUME IInv, NEW v \in Viewers, NEW S \in SUBSET Runs, list_units(v, S)
    PROVE  Fine
<1>1. CASE ep.target \in advertised(S)
  <2>1. ep.target \in Runs
    BY <1>1, AdvertisedRuns
  <2> DEFINE got == [Nothing EXCEPT !.status = 200]
             todo == <<<<"units", ep.target>>>>
  <2>2. got \in Replies /\ Honest(got, published)
    BY NothingHonest
  <2>3. todo \in Seq(Listable(ep.product)) /\ todo # <<>>
    BY <2>1, OneListing
  <2>4. Reading(v, todo, got)
    BY <1>1 DEF list_units
  <2> HIDE DEF got, todo
  <2>5. QED
    BY <2>2, <2>3, <2>4, ReadingFine
<1>2. CASE ep.target \notin advertised(S)
  <2> DEFINE got == [Nothing EXCEPT !.status = 404]
  <2>1. got \in Replies /\ Honest(got, published)
    BY StatusHonest
  <2>2. json_listing_response(v, got)
    BY <1>2 DEF list_units
  <2> HIDE DEF got
  <2>3. QED
    BY <2>1, <2>2, AnswerFine
<1>3. QED
  BY <1>1, <1>2

LEMMA ListLayersFine ==
    ASSUME IInv, NEW v \in Viewers, NEW r \in Runs, NEW S \in SUBSET Units,
           NEW got \in Replies, Honest(got, published), list_layers(v, r, S, got)
    PROVE  Fine
<1>1. CASE ep.product = "gfs" /\ S = {}
  <2> DEFINE a == [Nothing EXCEPT !.status = 404]
  <2>1. a \in Replies /\ Honest(a, published)
    BY StatusHonest
  <2>2. json_listing_response(v, a)
    BY <1>1 DEF list_layers
  <2> HIDE DEF a
  <2>3. QED
    BY <2>1, <2>2, AnswerFine
<1>2. CASE ep.product = "gfs" /\ S # {}
  <2> DEFINE todo == <<<<"layers", r>>>>
  <2>1. todo \in Seq(Listable(ep.product)) /\ todo # <<>>
    BY <1>2, OneListing
  <2>2. Reading(v, todo, got)
    BY <1>2 DEF list_layers
  <2> HIDE DEF todo
  <2>3. QED
    BY <2>1, <2>2, ReadingFine
<1>3. CASE ep.product = "wrf" /\ S # {}
  <2> DEFINE all == {<<"layers", r, u>> : u \in S}
             todo == SetToSeq(all)
  <2>1. IsFiniteSet(all) /\ all # {}
    <3>1. IsFiniteSet(S)
      BY ListingAssumption, FS_Subset
    <3> DEFINE f == [u \in S |-> <<"layers", r, u>>]
    <3>2. f \in Surjection(S, all)
      BY DEF Surjection
    <3>3. QED
      BY <1>3, <3>1, <3>2, FS_Surjection DEF ExistsSurjection
  <2>2. all \subseteq Listable(ep.product)
    <3>1. \A u \in Units : <<"layers", r, u>> \in Listings
      BY DEF Listings
    <3>2. QED
      BY <1>3, <3>1 DEF Listable
  <2>3. Reading(v, todo, got)
    BY <1>3 DEF list_layers
  <2> HIDE DEF all
  <2>4. todo \in Seq(Listable(ep.product)) /\ todo # <<>>
    BY <2>1, <2>2, SetToSeqOf
  <2> HIDE DEF todo
  <2>5. QED
    BY <2>3, <2>4, ReadingFine
<1>4. CASE ~(ep.product = "gfs") /\ ~(ep.product = "wrf" /\ S # {})
  <2>1. json_listing_response(v, got)
    BY <1>4 DEF list_layers
  <2>2. QED
    BY <2>1, AnswerFine
<1>5. QED
  BY <1>1, <1>2, <1>3, <1>4

LEMMA ProceedFine ==
    ASSUME IInv, NEW v \in Viewers, req[v].at > 0,
           NEW got \in Replies, Honest(got, published), Proceed(v, got)
    PROVE  Fine
<1>1. Tail(req[v].todo) \in Seq(Listable(ep.product))
  BY ListingUnderWay
<1>2. QED
  BY <1>1, AnswerFine, ReadingFine DEF Proceed

LEMMA UnitsAdded ==
    ASSUME NEW a \in Replies, NEW pub, Honest(a, pub), NEW r \in Runs, NEW S \in SUBSET Units,
           \A u \in S : <<r, u, 0>> \in pub
    PROVE  LET b == [a EXCEPT !.units[r] = S] IN b \in Replies /\ Honest(b, pub)
<1> DEFINE us == [a.units EXCEPT ![r] = S]
           b == [a EXCEPT !.units = us]
<1>1. us \in [Runs -> SUBSET Units] /\ \A q \in Runs : us[q] = IF q = r THEN S ELSE a.units[q]
  BY DEF Replies
<1> HIDE DEF us
<1>2. b \in Replies /\ b.units = us /\ b.layers = a.layers
  BY <1>1 DEF Replies
<1> HIDE DEF b
<1>3. Honest(b, pub)
  BY <1>1, <1>2 DEF Honest
<1>4. QED
  BY <1>2, <1>3 DEF b, us

LEMMA LayersAdded ==
    ASSUME NEW a \in Replies, NEW pub, Honest(a, pub), NEW r \in Runs, NEW S \in SUBSET Units,
           \A u \in S : <<r, u, 1>> \in pub
    PROVE  LET b == [a EXCEPT !.layers = @ \cup ({r} \X S)] IN b \in Replies /\ Honest(b, pub)
<1> DEFINE ls == a.layers \cup ({r} \X S)
           b == [a EXCEPT !.layers = ls]
<1>1. ls \in SUBSET (Runs \X Units)
  BY DEF Replies
<1>2. \A x \in ls : <<x[1], x[2], 1>> \in pub
  BY DEF Honest
<1> HIDE DEF ls
<1>3. b \in Replies /\ b.units = a.units /\ b.layers = ls
  BY <1>1 DEF Replies
<1> HIDE DEF b
<1>4. Honest(b, pub)
  BY <1>2, <1>3 DEF Honest
<1>5. QED
  BY <1>3, <1>4 DEF b, ls

Memos == [val : SUBSET Nat, fresh : Nat]

LEMMA AvailableFine ==
    ASSUME IInv, NEW v \in Viewers, req[v].at > 0, NEW S, available(v, S)
    PROVE  Fine /\ memo' \in Memos
<1> DEFINE level == Head(Listing(v))
<1>1. CASE S # {} /\ level \in DOMAIN Deeper
  <2> DEFINE next == Deeper[level]
             todo == <<<<next>>>>
  <2>1. next \in {"variables", "elevations", "tilesets", "runs"}
    BY <1>1 DEF Deeper
  <2>2. Reading(v, todo, Nothing) /\ memo' = memo
    BY <1>1 DEF available
  <2> HIDE DEF next
  <2>3. <<next>> \in Listings /\ <<next>>[1] # "layers"
    BY <2>1 DEF Listings
  <2>4. <<next>> \in Listable(ep.product)
    BY <2>3 DEF Listable
  <2>5. \A x, T : x \in T => <<x>> \in Seq(T) /\ <<x>> # <<>>
    OBVIOUS
  <2>6. todo \in Seq(Listable(ep.product)) /\ todo # <<>>
    BY <2>4, <2>5
  <2>7. Nothing \in Replies /\ Honest(Nothing, published)
    BY NothingHonest
  <2> HIDE DEF todo
  <2>8. QED
    BY <2>2, <2>6, <2>7, ReadingFine DEF IInv, Typed, Memos
<1>2. CASE ~(S # {} /\ level \in DOMAIN Deeper)
  <2> DEFINE one == IF S = {} THEN {} ELSE {1}
             a == [Nothing EXCEPT !.status = 200, !.runs = one]
  <2>1. json_listing_response(v, a) /\ memo' = [val |-> one, fresh |-> MemoTTL]
    BY <1>2 DEF available
  <2>2. one \in SUBSET Nat /\ MemoTTL \in Nat
    BY ListingAssumption
  <2> HIDE DEF one
  <2>3. a \in Replies /\ Honest(a, published)
    BY <2>2, StatusRunsHonest
  <2> HIDE DEF a
  <2>4. QED
    BY <2>1, <2>2, <2>3, AnswerFine DEF Memos
<1>3. QED
  BY <1>1, <1>2

LEMMA RaisedFine ==
    ASSUME IInv, NEW v \in Viewers, Raised(v)
    PROVE  Fine /\ memo' \in Memos
<1> DEFINE a == [Nothing EXCEPT !.status = 500]
<1>1. a \in Replies /\ Honest(a, published)
  BY StatusHonest
<1>2. json_listing_response(v, a) /\ memo' = memo
  BY DEF Raised
<1> HIDE DEF a
<1>3. QED
  BY <1>1, <1>2, AnswerFine DEF IInv, Typed, Memos

LEMMA ListedFine ==
    ASSUME IInv, NEW v \in Viewers, req[v].at > 0, NEW S,
           Backed(Listing(v), S, published), Listed(v, S)
    PROVE  Fine /\ memo' \in Memos
<1> DEFINE l == Listing(v)
           got == req[v].got
<1>0. /\ Head(l) = l[1] /\ (l[1] \in {"units", "layers"} => l[2] \in Runs)
      /\ got \in Replies /\ Honest(got, published)
      /\ Backed(l, S, published)
  BY ListingUnderWay
<1>1. /\ S \in SUBSET Nat /\ (l[1] = "runs" => S \in SUBSET Runs)
      /\ l[1] = "units" => \A u \in S : <<l[2], u, 0>> \in published
      /\ l[1] = "layers" => \A u \in S : <<l[2], u, 1>> \in published
  BY <1>0 DEF Backed
<1>2. l[1] \in {"units", "layers"} => S \in SUBSET Units
  BY <1>1 DEF IInv, Uploaded
<1>3. CASE ep.call = "availability"
  BY <1>3, AvailableFine DEF Listed
<1>4. CASE ep.call # "availability"
  <2>0. memo' \in Memos
    BY <1>4 DEF Listed, IInv, Typed, Memos
  <2>1. CASE l[1] = "runs" /\ ep.call = "runs"
    <3>1. list_runs(v, S)
      BY <1>0, <1>4, <2>1 DEF Listed
    <3>2. QED
      BY <1>1, <2>0, <2>1, <3>1, ListRunsFine
  <2>2. CASE l[1] = "runs" /\ ep.call = "units"
    <3>1. list_units(v, S)
      BY <1>0, <1>4, <2>2 DEF Listed
    <3>2. QED
      BY <1>1, <2>0, <2>2, <3>1, ListUnitsFine
  <2>3. CASE l[1] = "units"
    <3> DEFINE more == [got EXCEPT !.units[l[2]] = S]
    <3>1. IF ep.call = "units" THEN list_layers(v, l[2], S, more) ELSE Proceed(v, more)
      BY <1>0, <1>4, <2>3 DEF Listed
    <3>2. more \in Replies /\ Honest(more, published)
      BY <1>0, <1>1, <1>2, <2>3, UnitsAdded
    <3> HIDE DEF more
    <3>3. QED
      BY <1>0, <1>2, <2>0, <2>3, <3>1, <3>2, ListLayersFine, ProceedFine
  <2>4. CASE l[1] = "layers"
    <3> DEFINE more == [got EXCEPT !.layers = @ \cup ({l[2]} \X S)]
    <3>1. Proceed(v, more)
      BY <1>0, <1>4, <2>4 DEF Listed
    <3>2. more \in Replies /\ Honest(more, published)
      BY <1>0, <1>1, <1>2, <2>4, LayersAdded
    <3> HIDE DEF more
    <3>3. QED
      BY <2>0, <3>1, <3>2, ProceedFine
  <2>5. CASE /\ ~(l[1] = "runs" /\ ep.call = "runs") /\ ~(l[1] = "runs" /\ ep.call = "units")
             /\ l[1] \notin {"units", "layers"}
    <3> DEFINE a == [Nothing EXCEPT !.status = 200, !.runs = S]
    <3>1. json_listing_response(v, a)
      BY <1>0, <1>4, <2>5 DEF Listed
    <3>2. a \in Replies /\ Honest(a, published)
      BY <1>1, StatusRunsHonest
    <3> HIDE DEF a
    <3>3. QED
      BY <2>0, <3>1, <3>2, AnswerFine
  <2>6. QED
    BY <2>1, <2>2, <2>3, <2>4, <2>5
<1>5. QED
  BY <1>3, <1>4

\* What S3 lists was uploaded.
LEMMA ContentsBacked ==
    ASSUME IInv, NEW v \in Viewers, req[v].at > 0, Listing(v) # <<"snapshot">>
    PROVE  /\ Backed(Listing(v), Contents(Listing(v)), published)
           /\ Backed(Listing(v), Newest(Contents(Listing(v))), published)
<1> DEFINE l == Listing(v)
           C == Contents(l)
<1>0. /\ l \in Listings /\ Head(l) = l[1] /\ l \in Listable(ep.product)
  BY ListingUnderWay
<1>1. s3 \subseteq published /\ published \subseteq Runs \X Units \X {0, 1}
  BY DEF IInv, Uploaded
<1>2. Runs \subseteq Nat /\ Units \subseteq Nat
  BY ListingAssumption
<1>3. Backed(l, C, published)
  <2>1. CASE l[1] \in {"runs", "tilesets"}
    <3>1. C = RunsIn(s3)
      BY <1>0, <2>1 DEF Contents
    <3>2. RunsIn(s3) \subseteq Runs
      BY <1>1 DEF RunsIn
    <3>3. QED
      BY <1>2, <2>1, <3>1, <3>2 DEF Backed
  <2>2. CASE l[1] \in {"radars", "variables", "elevations", "products"}
    <3>1. C \subseteq {1}
      BY <1>0, <2>2 DEF Contents
    <3>2. QED
      BY <2>2, <3>1 DEF Backed
  <2>3. CASE l[1] = "units"
    <3>1. C = {u \in Units : <<l[2], u, 0>> \in s3}
      BY <1>0, <2>3 DEF Contents
    <3>2. QED
      BY <1>1, <1>2, <2>3, <3>1 DEF Backed
  <2>4. CASE l[1] = "layers"
    <3>1. ep.product \in {"wrf", "gfs"}
      BY <1>0, <2>4 DEF Listable
    <3>2. \A u \in C : <<l[2], u, 1>> \in s3
      BY <1>0, <2>4, <3>1 DEF Contents
    <3>3. \A u \in C : u \in Units
      BY <1>1, <3>2
    <3>4. QED
      BY <1>1, <1>2, <2>4, <3>2, <3>3 DEF Backed
  <2>5. l[1] \in {"radars", "variables", "elevations", "tilesets", "products", "runs",
                  "units", "layers"}
    BY <1>0 DEF Listings
  <2>6. QED
    BY <2>1, <2>2, <2>3, <2>4, <2>5
<1>4. Newest(C) \in SUBSET C
  BY DEF Newest
<1> HIDE DEF C
<1>5. Backed(l, Newest(C), published)
  BY <1>3, <1>4, BackedSubset
<1>6. QED
  BY <1>3, <1>5 DEF C

-----------------------------------------------------------------------------
(* Every step keeps the invariant *)

LEMMA InitIInv == Init => IInv
<1> SUFFICES ASSUME Init PROVE IInv
  OBVIOUS
<1>1. Typed
  BY IdleFine, NothingHonest DEF Init, Typed
<1>2. Uploaded
  BY DEF Init, Uploaded
<1>3. StoredBacked
  <2>1. DOMAIN db = {}
    BY DEF Init, NoKeys
  <2>2. \A k : Members(db, k) = {}
    BY <2>1 DEF Members, Has
  <2>3. QED
    BY <2>1, <2>2, BackedEmpty DEF StoredBacked, Backs, Entries
<1>4. RequestsBacked
  BY IdleFine DEF Init, RequestsBacked
<1>5. ShownHonest
  BY NothingHonest DEF Init, ShownHonest
<1>6. QED
  BY <1>1, <1>2, <1>3, <1>4, <1>5 DEF IInv

LEMMA FineKeeps ==
    ASSUME IInv, Fine, memo' \in Memos, UNCHANGED <<ep, s3, published>>, Backs(db', published)
    PROVE  IInv'
<1>1. Typed'
  BY DEF IInv, Typed, Fine, Memos
<1>2. Uploaded'
  BY DEF IInv, Uploaded
<1>3. StoredBacked'
  BY DEF StoredBacked
<1>4. RequestsBacked' /\ ShownHonest'
  BY DEF RequestsBacked, ShownHonest, Fine
<1>5. QED
  BY <1>1, <1>2, <1>3, <1>4 DEF IInv

LEMMA FirstListable ==
    ASSUME ep \in Endpoints
    PROVE  <<FirstListing>> \in Seq(Listable(ep.product)) /\ <<FirstListing>> # <<>>
<1> DEFINE heads == {"radars", "variables", "elevations", "tilesets", "products", "runs"}
<1>1. ep.product \in Products /\ ep.call \in Served[ep.product]
  BY ListingAssumption
<1>2. \E h \in heads : FirstListing = <<h>>
  BY <1>1 DEF FirstListing, Served, Products
<1>3. \A h \in heads : <<h>> \in Listings /\ <<h>>[1] # "layers"
  BY DEF Listings
<1> HIDE DEF heads
<1>4. FirstListing \in Listable(ep.product)
  BY <1>2, <1>3 DEF Listable
<1>5. \A x, T : x \in T => <<x>> \in Seq(T) /\ <<x>> # <<>>
  OBVIOUS
<1>6. QED
  BY <1>4, <1>5

LEMMA RequestSteps ==
    ASSUME IInv, NEW v \in Viewers, Ask(v) \/ Looks(v)
    PROVE  IInv'
<1>0. /\ Typed /\ Backs(db, published) /\ memo \in Memos /\ memo.val \in SUBSET Nat
      /\ ep \in Endpoints
  BY DEF IInv, StoredBacked, Typed, Memos
<1> DEFINE l == Listing(v)
<1> DEFINE told == [Nothing EXCEPT !.status = 200, !.runs = memo.val]
           snap == <<<<"snapshot">>>>
           first == <<FirstListing>>
<1>a. told \in Replies /\ Honest(told, published)
  BY <1>0, StatusRunsHonest
<1>b. snap \in Seq(Listable(ep.product)) /\ snap # <<>>
  <2>1. <<"snapshot">> \in Listings /\ <<"snapshot">>[1] # "layers"
    BY DEF Listings
  <2>2. <<"snapshot">> \in Listable(ep.product)
    BY <2>1 DEF Listable
  <2>3. QED
    BY <2>2
<1>c. first \in Seq(Listable(ep.product)) /\ first # <<>>
  BY <1>0, FirstListable
<1>d. Nothing \in Replies /\ Honest(Nothing, published)
  BY NothingHonest
<1>1. CASE Ask(v)
  <2>1. UNCHANGED <<ep, s3, published, db, memo>>
    BY <1>1 DEF Ask
  <2>2. \/ json_listing_response(v, told)
        \/ Reading(v, snap, Nothing)
        \/ Reading(v, first, Nothing)
    BY <1>1 DEF Ask
  <2> HIDE DEF told, snap, first
  <2>3. Fine
    BY <1>a, <1>b, <1>c, <1>d, <2>2, AnswerFine, ReadingFine
  <2>4. QED
    BY <1>0, <2>1, <2>3, FineKeeps
<1>2. CASE SnapshotLocked(v)
  <2>1. UNCHANGED <<ep, s3, published, db, memo>>
    BY <1>2 DEF SnapshotLocked
  <2>2. json_listing_response(v, told) \/ Reading(v, first, Nothing)
    BY <1>2 DEF SnapshotLocked
  <2> HIDE DEF told, snap, first
  <2>3. Fine
    BY <1>a, <1>c, <1>d, <2>2, AnswerFine, ReadingFine
  <2>4. QED
    BY <1>0, <2>1, <2>3, FineKeeps
<1>3. CASE ReadIndex(v)
  <2> DEFINE I == Members(db, IndexKey(l))
  <2>1. req[v].at > 0 /\ UNCHANGED <<ep, s3, published, db>>
    BY <1>3 DEF ReadIndex, Awaiting
  <2>2. Backed(l, I, published) /\ Backed(l, {}, published)
    BY <1>0, <2>1, ListingUnderWay, BackedEmpty DEF Backs
  <2>3. Listed(v, I) \/ NextAwait(v, I, {})
    BY <1>3 DEF ReadIndex
  <2> HIDE DEF I
  <2>4. Fine /\ memo' \in Memos
    <3>1. CASE Listed(v, I)
      BY <2>1, <2>2, <3>1, ListedFine
    <3>2. CASE NextAwait(v, I, {})
      BY <1>0, <2>1, <2>2, <3>2, NextAwaitFine DEF NextAwait
    <3>3. QED
      BY <2>3, <3>1, <3>2
  <2>5. QED
    BY <1>0, <2>1, <2>4, FineKeeps
<1>4. CASE ReadCopy(v)
  <2> DEFINE I == req[v].indexed
             C == Members(db, CopyKey(l))
  <2>1. req[v].at > 0 /\ UNCHANGED <<ep, s3, published, db>>
    BY <1>4 DEF ReadCopy, Awaiting
  <2>2. Backed(l, I, published) /\ Backed(l, C, published) /\ Backed(l, {}, published)
    BY <1>0, <2>1, ListingUnderWay, BackedEmpty DEF Backs
  <2>3. Backed(l, C \cup I, published)
    BY <2>2, BackedUnion
  <2>4. Listed(v, C \cup I) \/ NextAwait(v, I, {})
    BY <1>4 DEF ReadCopy
  <2> HIDE DEF I, C
  <2>5. Fine /\ memo' \in Memos
    <3>1. CASE Listed(v, C \cup I)
      BY <2>1, <2>3, <3>1, ListedFine
    <3>2. CASE NextAwait(v, I, {})
      BY <1>0, <2>1, <2>2, <3>2, NextAwaitFine DEF NextAwait
    <3>3. QED
      BY <2>4, <3>1, <3>2
  <2>6. QED
    BY <1>0, <2>1, <2>5, FineKeeps
<1>5. CASE TakeLock(v)
  <2> DEFINE q == req[v]
             n == [q EXCEPT !.at = q.at + 1]
  <2>1. /\ q.at > 0 /\ req' = [req EXCEPT ![v] = n] /\ shown' = shown
        /\ UNCHANGED <<ep, s3, published, db, memo>>
    BY <1>5 DEF TakeLock, Awaiting
  <2>2. q \in Requests(ep.product) /\ ReadBacked(q, published)
    BY <1>0 DEF Typed, IInv, RequestsBacked
  <2> HIDE DEF q
  <2>3. /\ n \in Requests(ep.product) /\ n.todo = q.todo /\ n.got = q.got
        /\ n.indexed = q.indexed /\ n.found = q.found
    BY <2>2 DEF Requests
  <2> HIDE DEF n
  <2>4. ReadBacked(n, published)
    BY <2>1, <2>2, <2>3 DEF ReadBacked
  <2>5. Fine
    BY <2>1, <2>3, <2>4 DEF IInv, Typed, RequestsBacked, ShownHonest, Fine
  <2>6. QED
    BY <1>0, <2>1, <2>5, FineKeeps
<1>6. CASE ListS3(v)
  <2> DEFINE I == req[v].indexed
             all == Contents(l)
             C == IF Awaiting(v, {"cap"}) THEN Newest(all) ELSE all
  <2>1. req[v].at > 0 /\ l # <<"snapshot">> /\ UNCHANGED <<ep, s3, published, db>>
    BY <1>6 DEF ListS3, Awaiting
  <2>2. Backed(l, I, published) /\ Backed(l, all, published) /\ Backed(l, Newest(all), published)
    BY <2>1, ListingUnderWay, ContentsBacked
  <2>3. Backed(l, C, published)
    BY <2>2
  <2>4. NextAwait(v, I, C)
    BY <1>6 DEF ListS3
  <2> HIDE DEF I, C
  <2>5. Fine /\ memo' \in Memos
    BY <1>0, <2>1, <2>2, <2>3, <2>4, NextAwaitFine DEF NextAwait
  <2>6. QED
    BY <1>0, <2>1, <2>5, FineKeeps
<1>7. CASE ListS3Fails(v)
  <2> DEFINE I == req[v].indexed
  <2>1. req[v].at > 0 /\ UNCHANGED <<ep, s3, published, db>>
    BY <1>7 DEF ListS3Fails, Awaiting
  <2>2. Backed(l, I, published) /\ Backed(l, {}, published)
    BY <2>1, ListingUnderWay, BackedEmpty
  <2>3. Raised(v) \/ NextAwait(v, I, {})
    BY <1>7 DEF ListS3Fails
  <2> HIDE DEF I
  <2>4. Fine /\ memo' \in Memos
    <3>1. CASE Raised(v)
      BY <3>1, RaisedFine
    <3>2. CASE NextAwait(v, I, {})
      BY <1>0, <2>1, <2>2, <3>2, NextAwaitFine DEF NextAwait
    <3>3. QED
      BY <2>3, <3>1, <3>2
  <2>5. QED
    BY <1>0, <2>1, <2>4, FineKeeps
<1>8. CASE cache_listing(v)
  <2> DEFINE I == req[v].indexed
             F == req[v].found
  <2>1. req[v].at > 0 /\ UNCHANGED <<ep, s3, published>>
    BY <1>8 DEF cache_listing, Awaiting
  <2>2. Backed(l, I, published) /\ Backed(l, F, published) /\ l \in Listings
    BY <2>1, ListingUnderWay
  <2>3. Backed(l, F \cup I, published)
    BY <2>2, BackedUnion
  <2>4. Listed(v, F \cup I) /\ db' = SetEx(db, CopyKey(l), F, ListingTTL)
    BY <1>8 DEF cache_listing
  <2> HIDE DEF I, F
  <2>5. Fine /\ memo' \in Memos
    BY <2>1, <2>3, <2>4, ListedFine
  <2>6. Backs(db', published)
    BY <1>0, <2>2, <2>4, CopiedBacks, ListingAssumption
  <2>7. QED
    BY <2>1, <2>5, <2>6, FineKeeps
<1>9. CASE RedisFails(v)
  <2>1. Raised(v) /\ UNCHANGED <<ep, s3, published, db>>
    BY <1>9 DEF RedisFails
  <2>2. QED
    BY <1>0, <2>1, RaisedFine, FineKeeps
<1>10. QED
  BY <1>1, <1>2, <1>3, <1>4, <1>5, <1>6, <1>7, <1>8, <1>9 DEF Looks

\* Neither requests nor answers change, and no upload is forgotten.
LEMMA QuietKeeps ==
    ASSUME IInv, UNCHANGED <<ep, req, shown>>, published \subseteq published', Uploaded',
           memo' \in Memos, Backs(db', published')
    PROVE  IInv'
<1>1. Typed'
  BY DEF IInv, Typed, Memos
<1>2. RequestsBacked'
  <2>1. ASSUME NEW v \in Viewers
        PROVE  ReadBacked(req[v], published')
    <3>1. ReadBacked(req[v], published)
      BY DEF IInv, RequestsBacked
    <3>2. QED
      BY <3>1, BackedGrows, HonestGrows DEF ReadBacked
  <2>2. QED
    BY <2>1 DEF RequestsBacked
<1>3. ShownHonest'
  <2>1. ASSUME NEW v \in Viewers
        PROVE  Honest(shown[v], published')
    BY HonestGrows DEF IInv, ShownHonest
  <2>2. QED
    BY <2>1 DEF ShownHonest
<1>4. StoredBacked'
  BY DEF StoredBacked
<1>5. QED
  BY <1>1, <1>2, <1>3, <1>4 DEF IInv

\* A synchroniser indexes a unit that is in S3.
LEMMA IndexedBacks ==
    ASSUME IInv, NEW r \in Runs, NEW u \in Units, SyncIndexes(r, u)
    PROVE  Backs(db', published)
<1> DEFINE above == IF HasUnits THEN {<<"runs">>, <<"products">>}
                    ELSE {<<"tilesets">>, <<"elevations">>, <<"variables">>, <<"radars">>}
           member(k) == IF k \in {<<"runs">>, <<"tilesets">>} THEN r ELSE 1
           keys == {IndexKey(k) : k \in above}
                     \cup (IF HasUnits THEN {IndexKey(<<"units", r>>)} ELSE {})
                     \cup (IF <<r, u, 1>> \in s3
                           THEN {IndexKey(IF ep.product = "gfs" THEN <<"layers", r>>
                                          ELSE <<"layers", r, u>>)}
                           ELSE {})
           added(k) == IF \E a \in above : k = IndexKey(a)
                       THEN {member(CHOOSE a \in above : k = IndexKey(a))} ELSE {u}
           new(k) == [val |-> Members(db, k) \cup added(k), ttl |-> IndexTTL]
<1>1. db' = [k \in DOMAIN db \cup keys |-> IF k \in keys THEN new(k) ELSE db[k]]
  BY DEF SyncIndexes
<1>2. <<r, u, 0>> \in published /\ (<<r, u, 1>> \in s3 => <<r, u, 1>> \in published)
  BY DEF SyncIndexes, IInv, Uploaded
<1>3. Backs(db, published) /\ Entries(db)
  BY DEF IInv, StoredBacked, Backs
<1>4. r \in Nat /\ u \in Nat /\ IndexTTL \in Int
  BY ListingAssumption
<1>5. above \subseteq Listings /\ \A a \in above : a[1] \notin {"units", "layers"}
  BY DEF Listings
<1>6. ASSUME NEW a \in above PROVE Backed(a, {member(a)}, published)
  <2>1. member(a) \in Nat
    BY <1>4
  <2>2. a[1] = "runs" => member(a) = r
    OBVIOUS
  <2>3. QED
    BY <1>5, <2>1, <2>2 DEF Backed
<1>7. ASSUME NEW l \in Listings, IndexKey(l) \in keys
      PROVE  Backed(l, added(IndexKey(l)), published)
  <2>1. CASE l \in above
    <3> DEFINE c == CHOOSE a \in above : IndexKey(l) = IndexKey(a)
    <3>1. c \in above /\ IndexKey(l) = IndexKey(c)
      BY <2>1
    <3>2. added(IndexKey(l)) = {member(c)}
      BY <2>1
    <3> HIDE DEF c, above, keys, added, member
    <3>3. c \in Listings
      BY <1>5, <3>1
    <3>4. c = l
      BY <3>1, <3>3, KeysApart
    <3>5. QED
      BY <1>6, <2>1, <3>2, <3>4
  <2>2. CASE l \notin above
    <3> DEFINE lays == IF ep.product = "gfs" THEN <<"layers", r>> ELSE <<"layers", r, u>>
    <3>1. \A a \in above : IndexKey(l) # IndexKey(a)
      BY <1>5, <2>2, KeysApart
    <3>2. added(IndexKey(l)) = {u}
      BY <3>1
    <3>3. <<"units", r>> \in Listings /\ lays \in Listings
      BY DEF Listings
    <3>4. \/ IndexKey(l) = IndexKey(<<"units", r>>)
          \/ <<r, u, 1>> \in s3 /\ IndexKey(l) = IndexKey(lays)
      BY <1>7, <3>1
    <3> DEFINE un == <<"units", r>>
    <3>5. un[1] = "units" /\ un[2] = r /\ lays[1] = "layers" /\ lays[2] = r
      OBVIOUS
    <3>6. l = un \/ (<<r, u, 1>> \in s3 /\ l = lays)
      BY <3>3, <3>4, KeysApart
    <3> HIDE DEF un, lays
    <3>7. Backed(l, {u}, published)
      <4>1. CASE l = un
        BY <1>2, <1>4, <3>5, <4>1 DEF Backed
      <4>2. CASE l = lays /\ <<r, u, 1>> \in s3
        BY <1>2, <1>4, <3>5, <4>2 DEF Backed
      <4>3. QED
        BY <3>6, <4>1, <4>2
    <3>8. QED
      BY <3>2, <3>7
  <2>3. QED
    BY <2>1, <2>2
<1>8. ASSUME NEW l \in Listings PROVE CopyKey(l) \notin keys
  <2>1. <<"units", r>> \in Listings /\ <<"layers", r>> \in Listings /\ <<"layers", r, u>> \in Listings
    BY DEF Listings
  <2>2. QED
    BY <1>5, <2>1, KeysApart
<1>9. \A k \in keys : added(k) \in SUBSET Nat
  <2>1. ASSUME NEW k \in keys, NEW a \in above, k = IndexKey(a) PROVE added(k) \in SUBSET Nat
    BY <1>5, <1>7, <2>1 DEF Backed
  <2>2. \A k \in keys : ~(\E a \in above : k = IndexKey(a)) => added(k) = {u}
    OBVIOUS
  <2>3. QED
    BY <1>4, <2>1, <2>2
<1> HIDE DEF keys, added, above, member
<1>10. \A k : Members(db, k) \in SUBSET Nat
  BY <1>3 DEF Members, Has, Entries
<1>11. \A k \in keys : new(k) \in [val : SUBSET Nat, ttl : Int] /\ new(k).val = Members(db, k) \cup added(k)
  BY <1>4, <1>9, <1>10
<1> HIDE DEF new
<1>12. Entries(db')
  BY <1>1, <1>3, <1>11 DEF Entries
<1>13. \A k : Members(db', k) = IF k \in keys THEN Members(db, k) \cup added(k) ELSE Members(db, k)
  BY <1>1, <1>11 DEF Members, Has
<1>14. ASSUME NEW l \in Listings
       PROVE  /\ Backed(l, Members(db', IndexKey(l)), published)
              /\ Backed(l, Members(db', CopyKey(l)), published)
  <2>1. /\ Backed(l, Members(db, IndexKey(l)), published)
        /\ Backed(l, Members(db, CopyKey(l)), published)
    BY <1>3 DEF Backs
  <2>2. Members(db', CopyKey(l)) = Members(db, CopyKey(l))
    BY <1>8, <1>13
  <2>3. CASE IndexKey(l) \in keys
    <3>1. Backed(l, Members(db, IndexKey(l)) \cup added(IndexKey(l)), published)
      BY <1>7, <2>1, <2>3, BackedUnion
    <3>2. QED
      BY <1>13, <2>1, <2>2, <2>3, <3>1
  <2>4. CASE IndexKey(l) \notin keys
    BY <1>13, <2>1, <2>2, <2>4
  <2>5. QED
    BY <2>3, <2>4
<1>15. QED
  BY <1>12, <1>14 DEF Backs

LEMMA NextIInv == IInv /\ [Next]_vars => IInv'
<1> SUFFICES ASSUME IInv, [Next]_vars PROVE IInv'
  OBVIOUS
<1>0. Backs(db, published) /\ memo \in Memos /\ Uploaded
  BY DEF IInv, StoredBacked, Typed, Memos
<1>1. CASE \E v \in Viewers : Ask(v) \/ Looks(v)
  BY <1>1, RequestSteps
<1>2. CASE \E r \in Runs, u \in Units : SyncIndexes(r, u)
  <2>1. PICK r \in Runs, u \in Units : SyncIndexes(r, u)
    BY <1>2
  <2>2. Backs(db', published)
    BY <2>1, IndexedBacks
  <2>3. UNCHANGED <<ep, req, shown, s3, published, memo>>
    BY <2>1 DEF SyncIndexes
  <2>4. Uploaded'
    BY <1>0, <2>3 DEF Uploaded
  <2>5. QED
    BY <1>0, <2>2, <2>3, <2>4, QuietKeeps
<1>3. CASE SyncPrunes
  <2>1. UNCHANGED <<ep, req, shown, s3, published, memo>>
    BY <1>3 DEF SyncPrunes
  <2>2. Backs(db', published)
    BY <1>0, <1>3, KeptBacks DEF SyncPrunes
  <2>3. Uploaded'
    BY <1>0, <2>1 DEF Uploaded
  <2>4. QED
    BY <1>0, <2>1, <2>2, <2>3, QuietKeeps
<1>4. CASE Tick
  <2>1. UNCHANGED <<ep, req, shown, s3, published>>
    BY <1>4 DEF Tick
  <2>2. Backs(db', published)
    BY <1>0, <1>4, AgedBacks DEF Tick
  <2>3. memo' \in Memos
    BY <1>0, <1>4 DEF Tick, Memos
  <2>4. Uploaded'
    BY <1>0, <2>1 DEF Uploaded
  <2>5. QED
    BY <2>1, <2>2, <2>3, <2>4, QuietKeeps
<1>5. CASE \E r \in Runs, u \in Units, a \in {0, 1} : Publish(r, u, a)
  <2>1. PICK r \in Runs, u \in Units, a \in {0, 1} : Publish(r, u, a)
    BY <1>5
  <2>2. UNCHANGED <<ep, req, shown, db, memo>> /\ published \subseteq published'
    BY <2>1 DEF Publish
  <2>3. Uploaded'
    BY <1>0, <2>1 DEF Publish, Uploaded
  <2>4. Backs(db, published')
    BY <1>0, <2>2, BackedGrows DEF Backs
  <2>5. QED
    BY <1>0, <2>2, <2>3, <2>4, QuietKeeps
<1>6. CASE \E r \in Runs : Retire(r)
  <2>1. PICK r \in Runs : Retire(r)
    BY <1>6
  <2>2. UNCHANGED <<ep, req, shown, db, memo, published>>
    BY <2>1 DEF Retire
  <2>3. Uploaded'
    BY <1>0, <2>1, <2>2 DEF Retire, Uploaded
  <2>4. QED
    BY <1>0, <2>2, <2>3, QuietKeeps
<1>7. CASE UNCHANGED vars
  <2>1. UNCHANGED <<ep, req, shown, db, memo, s3, published>>
    BY <1>7 DEF vars
  <2>2. Uploaded'
    BY <1>0, <2>1 DEF Uploaded
  <2>3. QED
    BY <1>0, <2>1, <2>2, QuietKeeps
<1>8. QED
  BY <1>1, <1>2, <1>3, <1>4, <1>5, <1>6, <1>7 DEF Next

\* No listing, by whichever way it was answered, index, copy or S3, names a unit
\* or an overlay that was never uploaded (list_steps, _cycle_layer_map,
\* cache_listing and the index the synchronisers write).
THEOREM ListedWasPublishedHolds == Spec => []ListedWasPublished
<1>1. IInv => ListedWasPublished
  BY DEF IInv, ShownHonest, Honest, ListedWasPublished
<1>2. QED
  BY <1>1, InitIInv, NextIInv, PTL DEF Spec

-----------------------------------------------------------------------------
(* One sweep at a time *)

\* Who sweeps holds the lock.
SweeperHolds == \A v \in Viewers : Sweeping(v) => lock = v

LEMMA SweepSteps ==
    ASSUME IInv, SweeperHolds, [Next]_vars
    PROVE  /\ SweeperHolds'
           /\ \A v \in Viewers : ~Sweeping(v) /\ Sweeping(v)' =>
                memo.fresh = 0 /\ \A w \in Viewers : ~Sweeping(w)
<1> DEFINE Begins(v) == memo.fresh = 0 /\ \A w \in Viewers : ~Sweeping(w)
           Goal == /\ SweeperHolds'
                   /\ \A v \in Viewers : ~Sweeping(v) /\ Sweeping(v)' => Begins(v)
<1>0. /\ ep \in Endpoints /\ req \in [Viewers -> Requests(ep.product)] /\ memo.fresh \in Nat
      /\ \A v \in Viewers : v # 0
  BY ListingAssumption DEF IInv, Typed
<1>1. CASE UNCHANGED <<ep, req, lock>>
  BY <1>1 DEF SweeperHolds, Sweeping, Listing
<1>2. CASE ep.call # "availability" /\ ep' = ep
  BY <1>2 DEF SweeperHolds, Sweeping
\* A step of one request leaves the others where they are.
<1>3. ASSUME NEW v \in Viewers, NEW q, ep' = ep, req' = [req EXCEPT ![v] = q]
      PROVE  /\ req'[v] = q
             /\ \A w \in Viewers : w # v => (Sweeping(w)' <=> Sweeping(w))
             /\ Sweeping(v)' => q.at # 0 /\ Head(q.todo) # <<"snapshot">>
  BY <1>0, <1>3 DEF Sweeping, Listing
<1>4. ASSUME NEW v \in Viewers, ep.call = "availability", ep' = ep, Sweeping(v),
             NEW q, req' = [req EXCEPT ![v] = q], lock' = lock \/ q.at = 0
      PROVE  Goal
  <2>1. \A w \in Viewers : w # v => ~Sweeping(w)
    BY <1>4 DEF SweeperHolds
  <2>2. \A w \in Viewers : w # v => ~Sweeping(w)'
    BY <1>3, <1>4, <2>1
  <2>3. Sweeping(v)' => lock' = v
    BY <1>3, <1>4 DEF SweeperHolds
  <2>4. QED
    BY <1>4, <2>2, <2>3 DEF SweeperHolds
<1>5. ASSUME NEW v \in Viewers, ep.call = "availability", ep' = ep, lock' = lock,
             NEW q, req' = [req EXCEPT ![v] = q], q.at = 0 \/ Head(q.todo) = <<"snapshot">>
      PROVE  Goal
  <2>1. ~Sweeping(v)' /\ \A w \in Viewers : w # v => (Sweeping(w)' <=> Sweeping(w))
    BY <1>3, <1>5
  <2>2. QED
    BY <1>5, <2>1 DEF SweeperHolds
<1>6. ASSUME NEW v \in Viewers, ep.call = "availability", NEW S, Sweeping(v), ep' = ep,
             Listed(v, S)
      PROVE  Goal
  <2>1. available(v, S)
    BY <1>6 DEF Listed
  <2>2. CASE /\ \E todo : Reading(v, todo, Nothing)
             /\ lock' = lock
    BY <1>4, <1>6, <2>2 DEF Reading
  <2>3. CASE \E a : json_listing_response(v, a)
    BY <1>4, <1>6, <2>3, IdleFine DEF json_listing_response
  <2>4. QED
    BY <2>1, <2>2, <2>3, Zenon DEF available
<1>7. ASSUME NEW v \in Viewers, ep.call = "availability", Sweeping(v), ep' = ep, Raised(v)
      PROVE  Goal
  BY <1>4, <1>7, IdleFine DEF Raised, json_listing_response
<1>8. ASSUME NEW v \in Viewers, ep.call = "availability", Sweeping(v), ep' = ep,
             NEW I, NEW F, NextAwait(v, I, F)
      PROVE  Goal
  BY <1>4, <1>8 DEF NextAwait
<1>9. ASSUME NEW v \in Viewers, ep.call = "availability", Ask(v)
      PROVE  Goal
  <2>1. ep' = ep /\ lock' = lock
    BY <1>9 DEF Ask
  <2>2. CASE \E a : json_listing_response(v, a)
    BY <1>5, <1>9, <2>1, <2>2, IdleFine DEF json_listing_response
  <2>3. CASE Reading(v, <<<<"snapshot">>>>, Nothing)
    <3> DEFINE q1 == [Idle EXCEPT !.at = 1]
               q2 == [q1 EXCEPT !.todo = <<<<"snapshot">>>>]
               q == [q2 EXCEPT !.got = Nothing]
    <3>1. Head(q.todo) = <<"snapshot">>
      BY DEF Idle
    <3>2. req' = [req EXCEPT ![v] = q]
      BY <2>3 DEF Reading
    <3> HIDE DEF q
    <3>3. QED
      BY <1>5, <1>9, <2>1, <3>1, <3>2
  <2>4. QED
    BY <1>0, <1>9, <2>2, <2>3 DEF Ask
<1>10. ASSUME NEW v \in Viewers, ep.call = "availability", SnapshotLocked(v)
       PROVE  Goal
  <2>1. ep' = ep /\ lock = 0
    BY <1>10 DEF SnapshotLocked
  <2>2. CASE memo.fresh > 0
    <3>1. lock' = lock /\ \E a : json_listing_response(v, a)
      BY <1>10, <2>2 DEF SnapshotLocked
    <3>2. QED
      BY <1>5, <1>10, <2>1, <3>1, IdleFine DEF json_listing_response
  <2>3. CASE ~(memo.fresh > 0)
    <3>1. memo.fresh = 0
      BY <1>0, <2>3
    <3>2. lock' = v /\ Reading(v, <<FirstListing>>, Nothing)
      BY <1>10, <2>3 DEF SnapshotLocked
    <3>3. \A w \in Viewers : ~Sweeping(w)
      BY <1>0, <2>1 DEF SweeperHolds
    <3>4. \A w \in Viewers : w # v => ~Sweeping(w)'
      BY <1>3, <2>1, <3>2, <3>3 DEF Reading
    <3>5. QED
      BY <3>1, <3>2, <3>3, <3>4 DEF SweeperHolds
  <2>4. QED
    BY <2>2, <2>3
<1>11. ASSUME NEW v \in Viewers, ep.call = "availability", Looks(v), ~SnapshotLocked(v)
       PROVE  Goal
  <2>1. ep' = ep /\ \E what : Awaiting(v, what)
    BY <1>11 DEF Looks, ReadIndex, ReadCopy, TakeLock, ListS3, ListS3Fails, cache_listing, RedisFails
  <2>2. Sweeping(v)
    BY <1>11, <2>1 DEF Sweeping, Awaiting
  <2>3. lock # 0
    BY <1>0, <2>2 DEF SweeperHolds
  <2>4. \/ \E S : Listed(v, S)
        \/ \E I, F : NextAwait(v, I, F)
        \/ Raised(v)
    <3>1. CASE ReadIndex(v)
      BY <3>1 DEF ReadIndex
    <3>2. CASE ReadCopy(v)
      BY <3>2 DEF ReadCopy
    <3>3. CASE TakeLock(v)
      BY <2>3, <3>3 DEF TakeLock
    <3>4. CASE ListS3(v)
      BY <3>4 DEF ListS3
    <3>5. CASE ListS3Fails(v)
      BY <3>5 DEF ListS3Fails
    <3>6. CASE cache_listing(v)
      BY <3>6 DEF cache_listing
    <3>7. CASE RedisFails(v)
      BY <3>7 DEF RedisFails
    <3>8. QED
      BY <1>11, <3>1, <3>2, <3>3, <3>4, <3>5, <3>6, <3>7 DEF Looks
  <2>5. QED
    BY <1>6, <1>7, <1>8, <1>11, <2>1, <2>2, <2>4
<1>12. CASE \E v \in Viewers : Ask(v) \/ Looks(v)
  <2>1. PICK v \in Viewers : Ask(v) \/ Looks(v)
    BY <1>12
  <2>2. ep' = ep
    BY <2>1 DEF Ask, Looks, SnapshotLocked, ReadIndex, ReadCopy, TakeLock, ListS3, ListS3Fails,
                cache_listing, RedisFails
  <2>3. QED
    BY <1>2, <1>9, <1>10, <1>11, <2>1, <2>2
<1>13. CASE \/ \E r \in Runs, u \in Units : SyncIndexes(r, u)
            \/ SyncPrunes \/ Tick
            \/ \E r \in Runs, u \in Units, a \in {0, 1} : Publish(r, u, a)
            \/ \E r \in Runs : Retire(r)
            \/ UNCHANGED vars
  BY <1>1, <1>13 DEF SyncIndexes, SyncPrunes, Tick, Publish, Retire, vars
<1>14. QED
  BY <1>12, <1>13 DEF Next

\* However many clients ask for the snapshot at once, one of them sweeps the
\* products, and none begins while the snapshot is fresh (snapshot(), the second
\* look behind its lock).
THEOREM OneSweepPerTTLHolds == Spec => OneSweepPerTTL
<1>1. Init => SweeperHolds
  BY IdleFine DEF Init, SweeperHolds, Sweeping
<1>2. IInv /\ SweeperHolds /\ [Next]_vars => SweeperHolds'
  BY SweepSteps
<1>3. IInv /\ SweeperHolds /\ [Next]_vars =>
        [\A v \in Viewers : ~Sweeping(v) /\ Sweeping(v)' =>
            memo.fresh = 0 /\ \A w \in Viewers : ~Sweeping(w)]_vars
  BY SweepSteps
<1>4. Spec => [][\A v \in Viewers : ~Sweeping(v) /\ Sweeping(v)' =>
                    memo.fresh = 0 /\ \A w \in Viewers : ~Sweeping(w)]_vars
  BY <1>1, <1>2, <1>3, InitIInv, NextIInv, PTL DEF Spec
<1>5. QED
  BY <1>4 DEF OneSweepPerTTL
=============================================================================
