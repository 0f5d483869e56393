--------------------------- MODULE BasemapScraper ---------------------------
(***************************************************************************)
(* The resumable sweep of services/basemap_scraper_service.py: providers   *)
(* scraped in parallel groups, each walking its zooms tile by tile, with   *)
(* the state of clients/basemap_state_store.py (cursor, failed queue,      *)
(* completion stamp, provider health) surviving restarts and one S3        *)
(* circuit (CircuitRules) shared by all of them.                           *)
(*                                                                         *)
(* A tile is a pair <<zoom, index>>; index is its place in iter_tiles.     *)
(* Every SQLite write is a step of its own, so a restart can fall between  *)
(* any two of them.  Time is abstract: cooldowns, the scrape interval and  *)
(* the sleep between cycles end at some moment, so _storage_retry_due,     *)
(* which only shortens that sleep, is left out.                            *)
(***************************************************************************)
EXTENDS CircuitRules, Integers

CONSTANTS
    Providers,        \* the enabled providers
    Rank,             \* their place in the configuration
    Host,             \* netloc of their source URL
    Mode,             \* "sequential", "per_origin" or "full"
    MinZoom,          \* the zooms scraped
    MaxZoom,
    Total,            \* tiles of the bounding box at each zoom
    Absent,           \* tiles for which the upstream answers 404/403
    FanoutWindow,     \* tasks created at once
    CheckpointEvery,  \* watermark advance that forces a cursor flush
    ErrorWindow,      \* provider breaker: window, samples, rate
    ErrorMinSamples,
    ErrorNum,
    ErrorDen,
    S3Faults,         \* bound: S3 writes that fail
    ProviderFaults,   \* bound: fetches that find the provider down
    Restarts,         \* bound: crashes and stops
    NoCursor          \* no row in basemap_scrape_cursor

Zooms == MinZoom..MaxZoom

Tiles == UNION {{<<z, i>> : i \in 0..(Total[z] - 1)} : z \in Zooms}

Cursors == [zoom : MinZoom..(MaxZoom + 1), index : Nat]

ASSUME ScraperAssumption ==
    /\ Rank \in [Providers -> Nat]
    /\ \A p, q \in Providers : Rank[p] = Rank[q] => p = q
    /\ MinZoom \in Nat /\ MaxZoom \in Nat /\ MinZoom <= MaxZoom
    /\ Total \in [Zooms -> Nat]
    /\ Absent \subseteq Tiles
    /\ FanoutWindow \in Nat \ {0}
    /\ CheckpointEvery \in Nat \ {0}
    /\ ErrorWindow \in Nat \ {0}
    /\ S3Faults \in Nat /\ ProviderFaults \in Nat /\ Restarts \in Nat
    /\ NoCursor \notin Cursors

VARIABLES
    \* SQLite, one row set per provider
    cursor,           \* basemap_scrape_cursor
    failed,           \* basemap_scrape_failed
    last,             \* basemap_scrape_last_completed: within the interval or not
    health,           \* basemap_provider_health; trips = 0 is "no row"
    \* process memory, shared
    circuit,          \* _s3_circuit
    downThisCycle,    \* _storage_down_this_cycle
    \* process memory, one sweep per provider
    pc,               \* where the coroutine is suspended
    zoom,             \* zoom of the loop in _scrape_provider
    queue,            \* failed tiles still to retry at this zoom
    chunkStart,       \* resume_index, then chunk_start
    task,             \* tile tasks not yet consumed: index -> status
    handled,          \* index folded in, watermark not yet advanced
    watermark,        \* _SweepProgress.watermark
    doneAbove,        \* _SweepProgress.done_above
    flushed,          \* _SweepProgress.last_flushed, or what set_cursor is given
    window,           \* _ProviderSweepState.recent
    verdict,          \* "running", "tripped" or "abandoned"
    errs,             \* storage_errors > 0
    downloaded,       \* downloaded > 0
    \* history of the logical sweep (from a start without cursor on)
    outcome,          \* last outcome folded in for each tile
    from,             \* position this pass resumed from
    \* faults left
    s3Left,
    providerLeft,
    restartsLeft

persistent == <<cursor, failed, last, health>>
shared     == <<circuit, downThisCycle>>
position   == <<zoom, queue, chunkStart>>
progress   == <<watermark, doneAbove, flushed>>
sweepState == <<window, verdict, errs, downloaded>>
history    == <<outcome, from>>
budget     == <<s3Left, providerLeft, restartsLeft>>
vars == <<persistent, shared, pc, position, task, handled, progress,
          sweepState, history, budget>>

Outcomes == {"ok", "missing", "unavailable", "storage", "skipped"}

PCs == {"off", "gate", "zoom", "retry", "retrying", "chunk", "waiting",
        "spawned", "sweep", "advance", "checkpoint", "close", "zoomEnd", "finish",
        "clearFailed", "stamp", "closeCircuit"}

NoTasks == [i \in {} |-> "new"]

Statuses == {"new", "fetching"} \union Outcomes

Origin == [zoom |-> MinZoom, index |-> 0]

Untried == [t \in Tiles |-> "untried"]

Below(t, z, i) == t[1] < z \/ (t[1] = z /\ t[2] < i)

\* Indices of a chunk: range(chunk_start, min(chunk_start + window, total)).
Chunk(z, start) ==
    {i \in start..(Total[z] - 1) : i < start + FanoutWindow}

FailedAt(p, z) == {i \in 0..(Total[z] - 1) : <<z, i>> \in failed[p]}

Init ==
    /\ cursor = [p \in Providers |-> NoCursor]
    /\ failed = [p \in Providers |-> {}]
    /\ last = [p \in Providers |-> "due"]
    /\ health = [p \in Providers |-> [trips |-> 0, cooling |-> FALSE]]
    /\ circuit = NewCircuit
    /\ downThisCycle = FALSE
    /\ pc = [p \in Providers |-> "off"]
    /\ zoom = [p \in Providers |-> MinZoom]
    /\ queue = [p \in Providers |-> {}]
    /\ chunkStart = [p \in Providers |-> 0]
    /\ task = [p \in Providers |-> NoTasks]
    /\ handled = [p \in Providers |-> 0]
    /\ watermark = [p \in Providers |-> 0]
    /\ doneAbove = [p \in Providers |-> {}]
    /\ flushed = [p \in Providers |-> 0]
    /\ window = [p \in Providers |-> << >>]
    /\ verdict = [p \in Providers |-> "running"]
    /\ errs = [p \in Providers |-> FALSE]
    /\ downloaded = [p \in Providers |-> FALSE]
    /\ outcome = [p \in Providers |-> Untried]
    /\ from = [p \in Providers |-> Origin]
    /\ s3Left = S3Faults
    /\ providerLeft = ProviderFaults
    /\ restartsLeft = Restarts

-----------------------------------------------------------------------------
(***************************************************************************)
(* Cycle and groups                                                        *)
(***************************************************************************)

\* _build_scrape_groups: providers of one group run one after the other.
SameGroup(p, q) ==
    CASE Mode = "full"       -> p = q
      [] Mode = "per_origin" -> Host[p] = Host[q]
      [] OTHER               -> TRUE

IsHead(p) == \A q \in Providers : SameGroup(p, q) => Rank[p] <= Rank[q]

Follows(q, p) ==
    /\ SameGroup(p, q)
    /\ Rank[p] < Rank[q]
    /\ \A r \in Providers : SameGroup(p, r) /\ Rank[p] < Rank[r] => Rank[q] <= Rank[r]

\* Mutation: an abandoned cycle is not forgotten by the next one.
Wake_keeps_down ==
    /\ \A p \in Providers : pc[p] = "off"
    /\ pc' = [p \in Providers |-> IF IsHead(p) THEN "gate" ELSE "off"]
    /\ UNCHANGED <<persistent, shared, position, task, handled, progress,
                   sweepState, history, budget>>

\* The sleep between cycles ends and _run_sync starts every group.
Wake ==
    /\ \A p \in Providers : pc[p] = "off"
    /\ pc' = [p \in Providers |-> IF IsHead(p) THEN "gate" ELSE "off"]
    /\ downThisCycle' = FALSE
    /\ UNCHANGED <<persistent, circuit, position, task, handled, progress,
                   sweepState, history, budget>>

\* The locals of the sweeps in S go out of scope; without a cursor their
\* logical sweep is over as well.
Drop(S) ==
    /\ zoom' = [p \in Providers |-> IF p \in S THEN MinZoom ELSE zoom[p]]
    /\ queue' = [p \in Providers |-> IF p \in S THEN {} ELSE queue[p]]
    /\ chunkStart' = [p \in Providers |-> IF p \in S THEN 0 ELSE chunkStart[p]]
    /\ task' = [p \in Providers |-> IF p \in S THEN NoTasks ELSE task[p]]
    /\ handled' = [p \in Providers |-> IF p \in S THEN 0 ELSE handled[p]]
    /\ watermark' = [p \in Providers |-> IF p \in S THEN 0 ELSE watermark[p]]
    /\ doneAbove' = [p \in Providers |-> IF p \in S THEN {} ELSE doneAbove[p]]
    /\ flushed' = [p \in Providers |-> IF p \in S THEN 0 ELSE flushed[p]]
    /\ window' = [p \in Providers |-> IF p \in S THEN << >> ELSE window[p]]
    /\ verdict' = [p \in Providers |-> IF p \in S THEN "running" ELSE verdict[p]]
    /\ errs' = [p \in Providers |-> IF p \in S THEN FALSE ELSE errs[p]]
    /\ downloaded' = [p \in Providers |-> IF p \in S THEN FALSE ELSE downloaded[p]]
    /\ from' = [p \in Providers |-> IF p \in S THEN Origin ELSE from[p]]
    /\ outcome' = [p \in Providers |-> IF p \in S /\ cursor'[p] = NoCursor
                                      THEN Untried ELSE outcome[p]]

\* _scrape_provider(p) returns and _scrape_group moves on.
EndTurn(p) ==
    /\ pc' = [q \in Providers |-> IF q = p THEN "off"
                                  ELSE IF Follows(q, p) THEN "gate" ELSE pc[q]]
    /\ Drop({p})

GoTo(p, label) == pc' = [pc EXCEPT ![p] = label]

\* The early returns of _scrape_provider.
NotDue(p) ==
    \/ downThisCycle
    \/ health[p].cooling
    \/ cursor[p] = NoCursor /\ last[p] = "recent"

Skip(p) ==
    /\ pc[p] = "gate"
    /\ NotDue(p)
    /\ UNCHANGED <<persistent, shared, budget>>
    /\ EndTurn(p)

Begin(p) ==
    /\ pc[p] = "gate"
    /\ ~NotDue(p)
    /\ LET start == IF cursor[p] = NoCursor THEN Origin ELSE cursor[p]
       IN  /\ zoom' = [zoom EXCEPT ![p] = start.zoom]
           /\ chunkStart' = [chunkStart EXCEPT ![p] = start.index]
           /\ from' = [from EXCEPT ![p] = start]
    /\ GoTo(p, "zoom")
    /\ UNCHANGED <<persistent, shared, queue, task, handled, progress,
                   sweepState, outcome, budget>>

-----------------------------------------------------------------------------
(***************************************************************************)
(* One tile: _download_and_store                                           *)
(***************************************************************************)

\* The gate at the top of _download_and_store.
Gated == IF AllowsWrite(circuit) THEN "fetching" ELSE "skipped"

\* The fetch and, when it brought bytes, the S3 write end with outcome o.
TileDone(p, i, o) ==
    /\ i \in DOMAIN task[p]
    /\ task[p][i] = "fetching"
    /\ \/ /\ o = "ok"
          /\ <<zoom[p], i>> \notin Absent
          /\ circuit' = AfterSuccess(circuit)
          /\ UNCHANGED <<s3Left, providerLeft>>
       \/ /\ o = "missing"
          /\ <<zoom[p], i>> \in Absent
          /\ UNCHANGED <<circuit, s3Left, providerLeft>>
       \/ /\ o = "unavailable"
          /\ providerLeft > 0
          /\ providerLeft' = providerLeft - 1
          /\ UNCHANGED <<circuit, s3Left>>
       \/ /\ o = "storage"
          /\ <<zoom[p], i>> \notin Absent
          /\ s3Left > 0
          /\ s3Left' = s3Left - 1
          /\ circuit' = AfterFailure(circuit)
          /\ UNCHANGED providerLeft
    /\ task' = [task EXCEPT ![p][i] = o]
    /\ UNCHANGED <<persistent, downThisCycle, pc, position, handled,
                   progress, sweepState, history, restartsLeft>>

Consumable(p, i) == i \in DOMAIN task[p] /\ task[p][i] \in Outcomes

Without(f, i) == [j \in DOMAIN f \ {i} |-> f[j]]

\* A storage failure taken down: counted, and the sweep given up when the
\* circuit has run out of probes.
StorageFailure(p) ==
    /\ errs' = [errs EXCEPT ![p] = TRUE]
    /\ verdict' = IF Exhausted(circuit)
                  THEN [verdict EXCEPT ![p] = "abandoned"] ELSE verdict
    /\ UNCHANGED window

\* A definitive fetch: the provider's error window decides.
FetchAttempt(p, o) ==
    LET w == Push(window[p], o = "unavailable", ErrorWindow)
    IN  /\ window' = [window EXCEPT ![p] = w]
        /\ verdict' = IF TooManyFailures(w, ErrorMinSamples, ErrorNum, ErrorDen)
                      THEN [verdict EXCEPT ![p] = "tripped"] ELSE verdict
        /\ UNCHANGED errs

\* Mutation: storage failures are ignored like 404s.
update_sweep_state_ignores_storage(p, o) ==
    \/ /\ o \in {"missing", "storage", "skipped"}
       /\ UNCHANGED <<window, verdict, errs>>
    \/ o \in {"ok", "unavailable"} /\ FetchAttempt(p, o)

\* Mutation: a tile that was only skipped is not counted.
update_sweep_state_ignores_skips(p, o) ==
    \/ /\ o \in {"missing", "skipped"}
       /\ UNCHANGED <<window, verdict, errs>>
    \/ o = "storage" /\ StorageFailure(p)
    \/ o \in {"ok", "unavailable"} /\ FetchAttempt(p, o)

\* _update_sweep_state: 404s say nothing, storage failures are counted apart,
\* the rest feeds the provider's error window.
update_sweep_state(p, o) ==
    \/ o = "missing" /\ UNCHANGED <<window, verdict, errs>>
    \/ o \in {"storage", "skipped"} /\ StorageFailure(p)
    \/ o \in {"ok", "unavailable"} /\ FetchAttempt(p, o)

\* What both loops do with an outcome.
FoldIn(p, i, o) ==
    /\ update_sweep_state(p, o)
    /\ downloaded' = [downloaded EXCEPT ![p] = @ \/ o = "ok"]
    /\ outcome' = [outcome EXCEPT ![p][<<zoom[p], i>>] = o]
    /\ task' = [task EXCEPT ![p] = Without(@, i)]

-----------------------------------------------------------------------------
(***************************************************************************)
(* One zoom: _scrape_zoom, _retry_failed_tiles, _run_indexed_sweep         *)
(***************************************************************************)

\* The zoom loop enters the next zoom (list_failed) or ends.
NextZoom(p) ==
    /\ pc[p] = "zoom"
    /\ \/ /\ zoom[p] <= MaxZoom
          /\ queue' = [queue EXCEPT ![p] = FailedAt(p, zoom[p])]
          /\ GoTo(p, "retry")
       \/ /\ zoom[p] > MaxZoom
          /\ GoTo(p, "finish")
          /\ UNCHANGED queue
    /\ UNCHANGED <<persistent, shared, zoom, chunkStart, task, handled,
                   progress, sweepState, history, budget>>

\* _retry_failed_tiles starts its next tile, without waiting for the circuit.
RetryTile(p, i) ==
    /\ pc[p] = "retry"
    /\ i \in queue[p]
    /\ task' = [task EXCEPT ![p] = [j \in {i} |-> Gated]]
    /\ GoTo(p, "retrying")
    /\ UNCHANGED <<persistent, shared, position, handled, progress,
                   sweepState, history, budget>>

RetryDone(p, i) ==
    /\ pc[p] = "retrying"
    /\ Consumable(p, i)
    /\ FoldIn(p, i, task[p][i])
    /\ failed' = IF task[p][i] = "ok"
                 THEN [failed EXCEPT ![p] = @ \ {<<zoom[p], i>>}] ELSE failed
    /\ queue' = [queue EXCEPT ![p] = @ \ {i}]
    /\ GoTo(p, IF verdict'[p] = "running" THEN "retry" ELSE "finish")
    /\ UNCHANGED <<cursor, last, health, shared, zoom, chunkStart, handled,
                   progress, from, budget>>

\* _run_indexed_sweep starts, or finds the cursor already past the zoom.
StartSweep(p) ==
    /\ pc[p] = "retry"
    /\ queue[p] = {}
    /\ \/ /\ chunkStart[p] >= Total[zoom[p]]
          /\ cursor' = [cursor EXCEPT ![p] = [zoom |-> zoom[p] + 1, index |-> 0]]
          /\ GoTo(p, "zoomEnd")
          /\ UNCHANGED progress
       \/ /\ chunkStart[p] < Total[zoom[p]]
          /\ watermark' = [watermark EXCEPT ![p] = chunkStart[p]]
          /\ flushed' = [flushed EXCEPT ![p] = chunkStart[p]]
          /\ doneAbove' = [doneAbove EXCEPT ![p] = {}]
          /\ GoTo(p, "chunk")
          /\ UNCHANGED cursor
    /\ UNCHANGED <<failed, last, health, shared, position, task, handled,
                   sweepState, history, budget>>

\* Mutation: chunks are dispatched without waiting.
StorageReady_always == TRUE

\* cooldown_remaining() = 0: nothing to wait for at a chunk boundary.
StorageReady == AllowsWrite(circuit)

\* _await_storage_cooldown falls asleep.
AwaitCooldown(p) ==
    /\ pc[p] = "chunk"
    /\ chunkStart[p] < Total[zoom[p]]
    /\ ~StorageReady
    /\ GoTo(p, "waiting")
    /\ UNCHANGED <<persistent, shared, position, task, handled, progress,
                   sweepState, history, budget>>

\* The chunk loop: once the cooldown is over the chunk's tasks are created;
\* or no chunk is left.
Dispatch(p) ==
    /\ pc[p] \in {"chunk", "waiting"}
    /\ \/ /\ chunkStart[p] < Total[zoom[p]]
          /\ StorageReady
          /\ task' = [task EXCEPT ![p] = [i \in Chunk(zoom[p], chunkStart[p]) |-> "new"]]
          /\ GoTo(p, "spawned")
       \/ /\ chunkStart[p] >= Total[zoom[p]]
          /\ GoTo(p, "close")
          /\ UNCHANGED task
    /\ UNCHANGED <<persistent, shared, position, handled, progress,
                   sweepState, history, budget>>

\* The new tasks take their first step together; another group's write may
\* have opened the circuit since they were created.
StartTasks(p) ==
    /\ pc[p] = "spawned"
    /\ task' = [task EXCEPT ![p] = [i \in DOMAIN @ |-> Gated]]
    /\ GoTo(p, "sweep")
    /\ UNCHANGED <<persistent, shared, position, handled, progress,
                   sweepState, history, budget>>

\* Outcomes of the main sweep that add_failed records.
Queued(o) == o \notin {"ok", "skipped"}

\* First half of _handle_completion: the verdicts and add_failed.
HandleCompletion(p, i) ==
    /\ pc[p] = "sweep"
    /\ Consumable(p, i)
    /\ FoldIn(p, i, task[p][i])
    /\ failed' = IF Queued(task[p][i])
                 THEN [failed EXCEPT ![p] = @ \union {<<zoom[p], i>>}] ELSE failed
    /\ handled' = [handled EXCEPT ![p] = i]
    /\ GoTo(p, "advance")
    /\ UNCHANGED <<cursor, last, health, shared, position, progress, from, budget>>

\* Mutation: the watermark steps over one index and does not drain done_above.
AdvancedTo_one_step(p, n) ==
    /\ n = IF handled[p] = watermark[p] THEN watermark[p] + 1 ELSE watermark[p]
    /\ doneAbove' = IF handled[p] > watermark[p]
                    THEN [doneAbove EXCEPT ![p] = @ \union {handled[p]}] ELSE doneAbove

\* _advance_watermark computes n: past every consecutively completed index.
AdvancedTo(p, n) ==
    LET done == doneAbove[p] \union {handled[p]}
    IN  /\ n \notin done
        /\ \A j \in watermark[p]..(n - 1) : j \in done
        /\ doneAbove' = [doneAbove EXCEPT ![p] = {j \in done : j > n}]

\* Mutation: the end of the chunk is checkpointed instead of the watermark.
Checkpoint_chunk_end(p, n) == [zoom |-> zoom[p], index |-> chunkStart[p] + FanoutWindow]

\* Mutation: the number of completed tiles is checkpointed.
Checkpoint_completed_count(p, n) ==
    [zoom |-> zoom[p],
     index |-> watermark[p] + Cardinality(doneAbove[p] \union {handled[p]})]

\* The cursor that a flush writes.
Checkpoint(p, n) == [zoom |-> zoom[p], index |-> n]

\* After a completion: out of the sweep, cancelling the tasks still running; or
\* to the next chunk; or to the next completion.
GoOn(p) ==
    \/ /\ verdict[p] # "running"
       /\ task' = [task EXCEPT ![p] = NoTasks]
       /\ GoTo(p, "close")
       /\ UNCHANGED chunkStart
    \/ /\ verdict[p] = "running"
       /\ DOMAIN task[p] = {}
       /\ chunkStart' = [chunkStart EXCEPT ![p] = @ + FanoutWindow]
       /\ GoTo(p, "chunk")
       /\ UNCHANGED task
    \/ /\ verdict[p] = "running"
       /\ DOMAIN task[p] # {}
       /\ GoTo(p, "sweep")
       /\ UNCHANGED <<task, chunkStart>>

\* Second half of _handle_completion.  When enough tiles (or enough time, at
\* any moment) have passed, the cursor is checkpointed: set_cursor does so in
\* a thread, and progress.watermark is assigned only when it has returned.
AdvanceWatermark(p) ==
    /\ pc[p] = "advance"
    /\ \E n \in watermark[p]..Total[zoom[p]] :
          /\ AdvancedTo(p, n)
          /\ \/ /\ n > flushed[p]
                /\ cursor' = [cursor EXCEPT ![p] = Checkpoint(p, n)]
                /\ flushed' = [flushed EXCEPT ![p] = n]
                /\ GoTo(p, "checkpoint")
                /\ UNCHANGED <<watermark, chunkStart, task>>
             \/ /\ n - flushed[p] < CheckpointEvery
                /\ watermark' = [watermark EXCEPT ![p] = n]
                /\ GoOn(p)
                /\ UNCHANGED <<cursor, flushed>>
    /\ UNCHANGED <<failed, last, health, shared, zoom, queue, handled,
                   sweepState, history, budget>>

\* set_cursor has returned.
Checkpointed(p) ==
    /\ pc[p] = "checkpoint"
    /\ watermark' = [watermark EXCEPT ![p] = flushed[p]]
    /\ GoOn(p)
    /\ UNCHANGED <<persistent, shared, zoom, queue, handled, doneAbove, flushed,
                   sweepState, history, budget>>

\* Mutation: an interrupted zoom is started over.
CursorAfterSweep_restarts_zoom(p) ==
    [zoom |-> IF watermark[p] >= Total[zoom[p]] THEN zoom[p] + 1 ELSE zoom[p],
     index |-> 0]

\* The cursor written by the finally block of _run_indexed_sweep.
CursorAfterSweep(p) ==
    IF watermark[p] >= Total[zoom[p]]
    THEN [zoom |-> zoom[p] + 1, index |-> 0]
    ELSE [zoom |-> zoom[p], index |-> watermark[p]]

CloseSweep(p) ==
    /\ pc[p] = "close"
    /\ cursor' = [cursor EXCEPT ![p] = CursorAfterSweep(p)]
    /\ GoTo(p, "zoomEnd")
    /\ UNCHANGED <<failed, last, health, shared, position, task, handled,
                   progress, sweepState, history, budget>>

\* The end of _scrape_zoom (its clear_failed only runs on an empty queue)
\* and of one turn of the zoom loop.
ZoomEnd(p) ==
    /\ pc[p] = "zoomEnd"
    /\ \/ /\ verdict[p] = "running"
          /\ zoom' = [zoom EXCEPT ![p] = @ + 1]
          /\ chunkStart' = [chunkStart EXCEPT ![p] = 0]
          /\ GoTo(p, "zoom")
       \/ /\ verdict[p] # "running"
          /\ GoTo(p, "finish")
          /\ UNCHANGED <<zoom, chunkStart>>
    /\ UNCHANGED <<persistent, shared, queue, task, handled, progress,
                   sweepState, history, budget>>

-----------------------------------------------------------------------------
(***************************************************************************)
(* The bookkeeping that ends _scrape_provider                              *)
(***************************************************************************)

\* Tripped: the circuit of the provider opens, cursor and queue are kept.
OpenCircuit(p) ==
    /\ pc[p] = "finish"
    /\ verdict[p] = "tripped"
    /\ health' = [health EXCEPT ![p] =
                    [trips |-> IF downloaded[p] THEN 1 ELSE @.trips + 1,
                     cooling |-> TRUE]]
    /\ UNCHANGED <<cursor, failed, last, shared, budget>>
    /\ EndTurn(p)

\* _finish_abandoned_sweep
FinishAbandoned(p) ==
    /\ pc[p] = "finish"
    /\ verdict[p] = "abandoned"
    /\ downThisCycle' = TRUE
    /\ UNCHANGED <<persistent, circuit, budget>>
    /\ EndTurn(p)

\* Ran to the end with storage errors: not stamped.
FinishIncomplete(p) ==
    /\ pc[p] = "finish"
    /\ verdict[p] = "running"
    /\ errs[p]
    /\ cursor' = [cursor EXCEPT ![p] = NoCursor]
    /\ UNCHANGED <<failed, last, health, shared, budget>>
    /\ EndTurn(p)

\* Complete: four writes, one after the other.
ClearCursor(p) ==
    /\ pc[p] = "finish"
    /\ verdict[p] = "running"
    /\ ~errs[p]
    /\ cursor' = [cursor EXCEPT ![p] = NoCursor]
    /\ GoTo(p, "clearFailed")
    /\ UNCHANGED <<failed, last, health, shared, position, task, handled,
                   progress, sweepState, history, budget>>

ClearFailed(p) ==
    /\ pc[p] = "clearFailed"
    /\ failed' = [failed EXCEPT ![p] = {}]
    /\ GoTo(p, "stamp")
    /\ UNCHANGED <<cursor, last, health, shared, position, task, handled,
                   progress, sweepState, history, budget>>

Stamp(p) ==
    /\ pc[p] = "stamp"
    /\ last' = [last EXCEPT ![p] = "recent"]
    /\ GoTo(p, "closeCircuit")
    /\ UNCHANGED <<cursor, failed, health, shared, position, task, handled,
                   progress, sweepState, history, budget>>

CloseCircuit(p) ==
    /\ pc[p] = "closeCircuit"
    /\ health' = [health EXCEPT ![p] = [trips |-> 0, cooling |-> FALSE]]
    /\ UNCHANGED <<cursor, failed, last, shared, budget>>
    /\ EndTurn(p)

-----------------------------------------------------------------------------
(***************************************************************************)
(* Time and restarts                                                       *)
(***************************************************************************)

CircuitCooldown ==
    /\ circuit.mode = "cooling"
    /\ circuit' = AfterCooldown(circuit)
    /\ UNCHANGED <<persistent, downThisCycle, pc, position, task,
                   handled, progress, sweepState, history, budget>>

ProviderCooldown(p) ==
    /\ health[p].cooling
    /\ health' = [health EXCEPT ![p].cooling = FALSE]
    /\ UNCHANGED <<cursor, failed, last, shared, pc, position, task, handled,
                   progress, sweepState, history, budget>>

IntervalElapses(p) ==
    /\ last[p] = "recent"
    /\ last' = [last EXCEPT ![p] = "due"]
    /\ UNCHANGED <<cursor, failed, health, shared, pc, position, task, handled,
                   progress, sweepState, history, budget>>

\* Process memory is lost; the next cycle starts from SQLite.
Restarted ==
    /\ restartsLeft > 0
    /\ restartsLeft' = restartsLeft - 1
    /\ circuit' = NewCircuit
    /\ downThisCycle' = FALSE
    /\ pc' = [p \in Providers |-> "off"]
    /\ Drop(Providers)
    /\ UNCHANGED <<failed, last, health, s3Left, providerLeft>>

Crash ==
    /\ UNCHANGED cursor
    /\ Restarted

\* Where the try block of _run_indexed_sweep is under way.
InSweep == {"chunk", "waiting", "spawned", "sweep", "advance", "checkpoint"}

\* stop() cancels the loop: a sweep under way still runs its finally block.  A
\* checkpoint whose thread is under way is not undone; the finally block
\* overwrites it, or it lands last.
Stop ==
    /\ \E p \in Providers : pc[p] \in InSweep
    /\ \E late \in SUBSET {p \in Providers : pc[p] = "checkpoint"} :
          cursor' = [p \in Providers |->
                       IF pc[p] \in InSweep /\ p \notin late
                       THEN CursorAfterSweep(p) ELSE cursor[p]]
    /\ Restarted

-----------------------------------------------------------------------------
Step(p) ==
    \/ Skip(p) \/ Begin(p) \/ NextZoom(p) \/ StartSweep(p) \/ AwaitCooldown(p) \/ Dispatch(p)
    \/ StartTasks(p) \/ AdvanceWatermark(p) \/ Checkpointed(p)
    \/ CloseSweep(p) \/ ZoomEnd(p)
    \/ OpenCircuit(p) \/ FinishAbandoned(p) \/ FinishIncomplete(p)
    \/ ClearCursor(p) \/ ClearFailed(p) \/ Stamp(p) \/ CloseCircuit(p)
    \/ \E i \in queue[p] : RetryTile(p, i)
    \/ \E i \in DOMAIN task[p] :
          \/ RetryDone(p, i)
          \/ HandleCompletion(p, i)
          \/ \E o \in Outcomes : TileDone(p, i, o)

Next ==
    \/ Wake
    \/ \E p \in Providers : Step(p) \/ ProviderCooldown(p) \/ IntervalElapses(p)
    \/ CircuitCooldown
    \/ Crash
    \/ Stop

Spec == Init /\ [][Next]_vars

\* The event loop runs every ready coroutine, sleeps end and time passes;
\* nothing is assumed of crashes.
Fairness ==
    /\ WF_vars(Wake)
    /\ WF_vars(CircuitCooldown)
    /\ \A p \in Providers :
          /\ WF_vars(Step(p))
          /\ WF_vars(ProviderCooldown(p))

FairSpec == Spec /\ Fairness

-----------------------------------------------------------------------------
(***************************************************************************)
(* Properties                                                              *)
(***************************************************************************)

StoreType ==
    /\ cursor \in [Providers -> Cursors \union {NoCursor}]
    /\ \A p \in Providers :
          cursor[p] # NoCursor /\ cursor[p].zoom \in Zooms =>
             cursor[p].index <= Total[cursor[p].zoom]
    /\ failed \in [Providers -> SUBSET Tiles]
    /\ last \in [Providers -> {"due", "recent"}]
    /\ health \in [Providers -> [trips : Nat, cooling : BOOLEAN]]

SharedType ==
    /\ circuit \in Circuits
    /\ downThisCycle \in BOOLEAN

PositionType ==
    /\ zoom \in [Providers -> MinZoom..(MaxZoom + 1)]
    /\ queue \in [Providers -> SUBSET Nat]
    /\ chunkStart \in [Providers -> Nat]

TaskType ==
    /\ DOMAIN task = Providers
    /\ \A p \in Providers : \A i \in DOMAIN task[p] :
          i \in Nat /\ task[p][i] \in Statuses

ProgressType ==
    /\ watermark \in [Providers -> Nat]
    /\ doneAbove \in [Providers -> SUBSET Nat]
    /\ flushed \in [Providers -> Nat]

SweepStateType ==
    /\ window \in [Providers -> Seq(BOOLEAN)]
    /\ verdict \in [Providers -> {"running", "tripped", "abandoned"}]
    /\ errs \in [Providers -> BOOLEAN]
    /\ downloaded \in [Providers -> BOOLEAN]

HistoryType ==
    /\ outcome \in [Providers -> [Tiles -> Outcomes \union {"untried"}]]
    /\ from \in [Providers -> Cursors]

\* Every variable has its type; a persisted cursor lies inside its zoom or
\* at its end, or one zoom past the last.
TypeOK ==
    /\ StoreType
    /\ SharedType
    /\ pc \in [Providers -> PCs]
    /\ PositionType
    /\ TaskType
    /\ handled \in [Providers -> Nat]
    /\ ProgressType
    /\ SweepStateType
    /\ HistoryType
    /\ s3Left \in Nat /\ providerLeft \in Nat /\ restartsLeft \in Nat

\* Whatever was cancelled, tripped, abandoned or restarted, a tile the
\* persisted cursor has passed is not forgotten: it was stored, or it is in
\* the failed queue, or the storage circuit skipped it.
CursorCoverage ==
    \A p \in Providers : cursor[p] # NoCursor =>
       \A t \in Tiles : Below(t, cursor[p].zoom, cursor[p].index) =>
          outcome[p][t] \in {"ok", "skipped"} \/ t \in failed[p]

\* "Each chunk drains fully before the next starts, so the watermark advances
\* contiguously": between chunks nothing is left above the watermark.
ChunkDrained ==
    \A p \in Providers : pc[p] = "chunk" =>
       /\ doneAbove[p] = {}
       /\ watermark[p] = chunkStart[p] \/ watermark[p] = Total[zoom[p]]

\* A pass that stamps last_completed left no tile at or after the position it
\* resumed from with a storage failure, and none untried anywhere.
StampHonest ==
    \A p \in Providers : pc[p] = "stamp" =>
       \A t \in Tiles :
          /\ outcome[p][t] # "untried"
          /\ ~Below(t, from[p].zoom, from[p].index) =>
                outcome[p][t] \notin {"storage", "skipped"}

\* With one group, the pause at the chunk boundary is enough: no tile of the
\* main sweep is skipped by the storage circuit, so every tile the cursor has
\* passed was stored or waits in the failed queue.
NeverSkipsAlone ==
    Mode = "sequential" =>
       \A p \in Providers : cursor[p] # NoCursor =>
          \A t \in Tiles : Below(t, cursor[p].zoom, cursor[p].index) =>
             outcome[p][t] = "ok" \/ t \in failed[p]

\* "A sweep that touches at least one STORAGE_ERROR is treated as incomplete:
\* last_completed is not stamped" (README).
StorageErrorNotStamped ==
    \A p \in Providers : pc[p] = "stamp" =>
       \A t \in Tiles : outcome[p][t] # "storage"

\* Within a logical sweep the persisted cursor moves back in one case only: a
\* stop() that finds a checkpoint written and the watermark not yet assigned.
\* It then goes back into the chunk under way, never before it.
ProgressKept ==
    [][\A p \in Providers : cursor[p] # NoCursor /\ cursor'[p] # NoCursor =>
          \/ cursor[p].zoom < cursor'[p].zoom
          \/ /\ cursor[p].zoom = cursor'[p].zoom
             /\ \/ cursor[p].index <= cursor'[p].index
                \/ /\ pc[p] = "checkpoint" /\ pc'[p] = "off"
                   /\ chunkStart[p] <= cursor'[p].index
                   /\ cursor[p].index <= chunkStart[p] + FanoutWindow]_vars

\* Faults being finite, a provider never stays due for good: it is scraped to
\* the end and stamped again and again.
EventuallyStamped ==
    \A p \in Providers : []<>(last[p] = "recent")
=============================================================================
