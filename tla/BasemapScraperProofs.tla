------------------------ MODULE BasemapScraperProofs ------------------------
(***************************************************************************)
(* Proofs about BasemapScraper for every set of providers, grouping,       *)
(* pyramid of tiles, window and schedule.                                  *)
(***************************************************************************)
EXTENDS BasemapScraper, SequenceTheorems, TLAPS

\* Places where the zoom loop is inside a zoom.
ZoomPCs == {"retry", "retrying", "chunk", "waiting", "spawned", "sweep",
            "advance", "checkpoint", "close", "zoomEnd"}

\* Inside a zoom, the tiles at hand are tiles of that zoom.
Located(p) ==
    /\ pc[p] \in ZoomPCs => zoom[p] \in Zooms
    /\ pc[p] \in {"retry", "retrying"} =>
          \A i \in queue[p] : <<zoom[p], i>> \in Tiles
    /\ pc[p] \in {"retrying", "spawned", "sweep", "advance", "checkpoint"} =>
          \A i \in DOMAIN task[p] : <<zoom[p], i>> \in Tiles

InZoom == \A p \in Providers : Located(p)

TypeInv == TypeOK /\ InZoom

\* Push keeps a window of outcomes a window of outcomes.
LEMMA PushType ==
    ASSUME NEW w \in Seq(BOOLEAN), NEW b \in BOOLEAN, NEW size
    PROVE  Push(w, b, size) \in Seq(BOOLEAN)
<1> DEFINE a == Append(w, b)
<1>1. a \in Seq(BOOLEAN) /\ a # << >>
  BY AppendProperties
<1>2. Tail(a) \in Seq(BOOLEAN)
  BY <1>1, HeadTailProperties
<1>3. QED
  BY <1>1, <1>2 DEF Push

\* The rules of the storage circuit keep its type.
LEMMA CircuitTypes ==
    ASSUME NEW c \in Circuits
    PROVE  /\ NewCircuit \in Circuits
           /\ AfterSuccess(c) \in Circuits
           /\ AfterFailure(c) \in Circuits
           /\ AfterCooldown(c) \in Circuits
<1>1. NewCircuit \in Circuits /\ Opened \in Circuits
  BY DEF NewCircuit, Opened, Circuits
<1>2. Observe(c.recent, FALSE) \in Seq(BOOLEAN) /\ Observe(c.recent, TRUE) \in Seq(BOOLEAN)
  BY PushType DEF Circuits, Observe
<1>3. AfterSuccess(c) \in Circuits
  BY <1>1, <1>2 DEF AfterSuccess, Circuits
<1>4. AfterFailure(c) \in Circuits
  <2> DEFINE w == Observe(c.recent, TRUE)
  <2>1. Rearmed(c) \in Circuits
    <3>1. c.trips \in Nat /\ c.recent \in Seq(BOOLEAN)
      BY DEF Circuits
    <3>2. c.trips + 1 \in Nat
      BY <3>1
    <3>3. QED
      BY <3>1, <3>2 DEF Rearmed, Circuits
  <2>2. [c EXCEPT !.recent = w] \in Circuits
    BY <1>2 DEF Circuits
  <2> HIDE DEF w
  <2>3. QED
    BY <1>1, <2>1, <2>2 DEF AfterFailure, w
<1>5. AfterCooldown(c) \in Circuits
  BY DEF AfterCooldown, Circuits
<1>6. QED
  BY <1>1, <1>3, <1>4, <1>5

LEMMA InitType == Init => TypeInv
<1> SUFFICES ASSUME Init PROVE TypeInv
  OBVIOUS
<1>1. NewCircuit \in Circuits
  BY DEF NewCircuit, Circuits
<1>2. MinZoom \in MinZoom..(MaxZoom + 1)
  BY ScraperAssumption
<1>3. StoreType /\ SharedType /\ pc \in [Providers -> PCs] /\ InZoom
  BY <1>1 DEF Init, StoreType, SharedType, PCs, InZoom, Located, ZoomPCs
<1>4. PositionType /\ TaskType /\ ProgressType /\ handled \in [Providers -> Nat]
  BY <1>2 DEF Init, PositionType, TaskType, ProgressType, NoTasks
<1>5. SweepStateType
  BY DEF Init, SweepStateType
<1>6. HistoryType
  BY <1>2 DEF Init, HistoryType, Untried, Origin, Cursors
<1>7. QED
  BY <1>3, <1>4, <1>5, <1>6, ScraperAssumption DEF Init, TypeInv, TypeOK

\* Sweeps whose locals go out of scope leave well-typed locals behind.
LEMMA DropType ==
    ASSUME TypeOK, NEW S, Drop(S)
    PROVE  /\ PositionType' /\ TaskType' /\ handled' \in [Providers -> Nat]
           /\ ProgressType' /\ SweepStateType' /\ HistoryType'
<1>1. MinZoom \in MinZoom..(MaxZoom + 1)
  BY ScraperAssumption
<1>2. PositionType'
  BY <1>1 DEF Drop, TypeOK, PositionType
<1>3. TaskType'
  <2>1. DOMAIN task' = Providers
    BY DEF Drop
  <2>2. ASSUME NEW p \in Providers, NEW i \in DOMAIN task'[p]
        PROVE  i \in Nat /\ task'[p][i] \in Statuses
    BY <2>2 DEF Drop, TypeOK, TaskType, NoTasks
  <2>3. QED
    BY <2>1, <2>2 DEF TaskType
<1>4. handled' \in [Providers -> Nat] /\ ProgressType'
  BY DEF Drop, TypeOK, ProgressType
<1>5. SweepStateType'
  <2>1. window' \in [Providers -> Seq(BOOLEAN)]
    <3>1. << >> \in Seq(BOOLEAN)
      BY EmptySeq
    <3>2. QED
      BY <3>1 DEF Drop, TypeOK, SweepStateType
  <2>2. verdict' \in [Providers -> {"running", "tripped", "abandoned"}]
    BY DEF Drop, TypeOK, SweepStateType
  <2>3. errs' \in [Providers -> BOOLEAN]
    BY Zenon DEF Drop, TypeOK, SweepStateType
  <2>4. downloaded' \in [Providers -> BOOLEAN]
    BY Zenon DEF Drop, TypeOK, SweepStateType
  <2>5. QED
    BY <2>1, <2>2, <2>3, <2>4 DEF SweepStateType
<1>6. HistoryType'
  <2>1. Origin \in Cursors /\ Untried \in [Tiles -> Outcomes \union {"untried"}]
    BY <1>1 DEF Origin, Cursors, Untried
  <2>2. from' \in [Providers -> Cursors]
    BY <2>1 DEF Drop, TypeOK, HistoryType
  <2>3. outcome' \in [Providers -> [Tiles -> Outcomes \union {"untried"}]]
    BY <2>1 DEF Drop, TypeOK, HistoryType
  <2>4. QED
    BY <2>2, <2>3 DEF HistoryType
<1>7. QED
  BY <1>2, <1>3, <1>4, <1>5, <1>6

\* The end of a turn keeps the control and zoom typed.
LEMMA EndTurnType ==
    ASSUME TypeInv, NEW p \in Providers, EndTurn(p)
    PROVE  /\ pc' \in [Providers -> PCs] /\ InZoom'
           /\ PositionType' /\ TaskType' /\ handled' \in [Providers -> Nat]
           /\ ProgressType' /\ SweepStateType' /\ HistoryType'
<1>1. pc' \in [Providers -> PCs]
  BY DEF EndTurn, TypeInv, TypeOK, PCs
<1>2. ASSUME NEW q \in Providers
      PROVE  Located(q)'
  <2>1. CASE q = p \/ Follows(q, p)
    BY <2>1 DEF EndTurn, Located, ZoomPCs
  <2>2. CASE q # p /\ ~Follows(q, p)
    BY <2>2 DEF EndTurn, Drop, TypeInv, InZoom, Located
  <2>3. QED BY <2>1, <2>2
<1>3. QED
  BY <1>1, <1>2, DropType DEF EndTurn, TypeInv, InZoom

\* Folding an outcome in keeps the sweep state, the history and the tasks
\* typed.
LEMMA FoldInType ==
    ASSUME TypeInv, NEW p \in Providers, NEW i,
           Consumable(p, i), FoldIn(p, i, task[p][i]), UNCHANGED from
    PROVE  SweepStateType' /\ HistoryType' /\ TaskType'
<1> DEFINE o == task[p][i]
<1>1. o \in Outcomes
  BY DEF Consumable
<1> HIDE DEF o
<1>2. update_sweep_state(p, o) /\ downloaded' = [downloaded EXCEPT ![p] = @ \/ o = "ok"]
  BY DEF FoldIn, o
<1>3. Push(window[p], o = "unavailable", ErrorWindow) \in Seq(BOOLEAN)
  BY PushType DEF TypeInv, TypeOK, SweepStateType
<1>4. window' \in [Providers -> Seq(BOOLEAN)]
  BY <1>2, <1>3 DEF update_sweep_state, FetchAttempt, StorageFailure,
                    TypeInv, TypeOK, SweepStateType
<1>5. verdict' \in [Providers -> {"running", "tripped", "abandoned"}]
  BY <1>2 DEF update_sweep_state, FetchAttempt, StorageFailure,
              TypeInv, TypeOK, SweepStateType
<1>6. errs' \in [Providers -> BOOLEAN]
  BY <1>2 DEF update_sweep_state, FetchAttempt, StorageFailure,
              TypeInv, TypeOK, SweepStateType
<1>7. downloaded' \in [Providers -> BOOLEAN]
  BY <1>2 DEF TypeInv, TypeOK, SweepStateType
<1>8. HistoryType'
  BY <1>1 DEF FoldIn, TypeInv, TypeOK, HistoryType, o
<1>9. TaskType'
  BY DEF FoldIn, Without, TypeInv, TypeOK, TaskType
<1>10. QED
  BY <1>4, <1>5, <1>6, <1>7, <1>8, <1>9 DEF SweepStateType

\* A step of p leaves the sweep of every other provider alone; at most it
\* hands the turn over.
SameSweep(q) ==
    /\ pc'[q] = pc[q] \/ pc'[q] = "gate"
    /\ zoom'[q] = zoom[q] /\ queue'[q] = queue[q] /\ chunkStart'[q] = chunkStart[q]
    /\ task'[q] = task[q] /\ handled'[q] = handled[q]
    /\ watermark'[q] = watermark[q] /\ doneAbove'[q] = doneAbove[q]
    /\ flushed'[q] = flushed[q] /\ verdict'[q] = verdict[q] /\ errs'[q] = errs[q]
    /\ outcome'[q] = outcome[q] /\ from'[q] = from[q]
    /\ cursor'[q] = cursor[q] /\ failed'[q] = failed[q]

LEMMA OthersUntouched ==
    ASSUME TypeInv, NEW p \in Providers, NEW q \in Providers, q # p, Step(p)
    PROVE  SameSweep(q)
<1> USE DEF TypeInv, TypeOK, StoreType, PositionType, TaskType, ProgressType,
            SweepStateType, HistoryType, SameSweep, GoTo
<1>1. CASE Skip(p)
  BY <1>1 DEF Skip, EndTurn, Drop, persistent
<1>2. CASE Begin(p)
  BY <1>2 DEF Begin, persistent, progress, sweepState
<1>3. CASE NextZoom(p)
  BY <1>3 DEF NextZoom, persistent, progress, sweepState, history
<1>4. CASE StartSweep(p)
  BY <1>4 DEF StartSweep, position, progress, sweepState, history
<1>5. CASE AwaitCooldown(p)
  BY <1>5 DEF AwaitCooldown, persistent, position, progress, sweepState, history
<1>6. CASE Dispatch(p)
  BY <1>6 DEF Dispatch, persistent, position, progress, sweepState, history
<1>7. CASE StartTasks(p)
  BY <1>7 DEF StartTasks, persistent, position, progress, sweepState, history
<1>8. CASE AdvanceWatermark(p) \/ Checkpointed(p)
  BY <1>8 DEF AdvanceWatermark, AdvancedTo, Checkpointed, GoOn, persistent,
              sweepState, history
<1>9. CASE CloseSweep(p)
  BY <1>9 DEF CloseSweep, position, progress, sweepState, history
<1>10. CASE ZoomEnd(p)
  BY <1>10 DEF ZoomEnd, persistent, progress, sweepState, history
<1>11. CASE OpenCircuit(p)
  BY <1>11 DEF OpenCircuit, EndTurn, Drop
<1>12. CASE FinishAbandoned(p)
  BY <1>12 DEF FinishAbandoned, EndTurn, Drop, persistent
<1>13. CASE FinishIncomplete(p)
  BY <1>13 DEF FinishIncomplete, EndTurn, Drop
<1>14. CASE ClearCursor(p)
  BY <1>14 DEF ClearCursor, position, progress, sweepState, history
<1>15. CASE ClearFailed(p)
  BY <1>15 DEF ClearFailed, position, progress, sweepState, history
<1>16. CASE Stamp(p)
  BY <1>16 DEF Stamp, position, progress, sweepState, history
<1>17. CASE CloseCircuit(p)
  BY <1>17 DEF CloseCircuit, EndTurn, Drop
<1>18. CASE \E i \in queue[p] : RetryTile(p, i)
  BY <1>18 DEF RetryTile, persistent, position, progress, sweepState, history
<1>19. CASE \E i \in DOMAIN task[p] : RetryDone(p, i)
  BY <1>19 DEF RetryDone, FoldIn, update_sweep_state, FetchAttempt,
               StorageFailure, progress
<1>20. CASE \E i \in DOMAIN task[p] : HandleCompletion(p, i)
  BY <1>20 DEF HandleCompletion, FoldIn, update_sweep_state, FetchAttempt,
               StorageFailure, position, progress
<1>21. CASE \E i \in DOMAIN task[p] : \E o \in Outcomes : TileDone(p, i, o)
  BY <1>21 DEF TileDone, persistent, position, progress, sweepState, history
<1>22. QED
  BY <1>1, <1>2, <1>3, <1>4, <1>5, <1>6, <1>7, <1>8, <1>9, <1>10, <1>11, <1>12,
     <1>13, <1>14, <1>15, <1>16, <1>17, <1>18, <1>19, <1>20, <1>21 DEF Step

\* Tiles, as a predicate on a zoom and an index.
LEMMA TileDef ==
    ASSUME NEW z \in Zooms, NEW i
    PROVE  <<z, i>> \in Tiles <=> i \in 0..(Total[z] - 1)
BY DEF Tiles

\* Tiles are at the zooms and have natural indices.
LEMMA TileParts ==
    ASSUME NEW t \in Tiles
    PROVE  /\ t[1] \in Zooms /\ t[2] \in Nat /\ t[2] < Total[t[1]]
           /\ t = <<t[1], t[2]>>
BY ScraperAssumption DEF Tiles, Zooms

LEMMA OthersLocated ==
    ASSUME TypeInv, NEW p \in Providers, NEW q \in Providers, q # p, Step(p)
    PROVE  Located(q)'
BY OthersUntouched DEF TypeInv, InZoom, Located, SameSweep, ZoomPCs

\* What a step does not change keeps its type.
LEMMA Frames ==
    ASSUME TypeOK
    PROVE  /\ UNCHANGED persistent => StoreType'
           /\ UNCHANGED shared => SharedType'
           /\ UNCHANGED position => PositionType'
           /\ UNCHANGED task => TaskType'
           /\ UNCHANGED progress => ProgressType'
           /\ UNCHANGED sweepState => SweepStateType'
           /\ UNCHANGED history => HistoryType'
           /\ UNCHANGED budget => /\ s3Left' \in Nat /\ providerLeft' \in Nat
                                  /\ restartsLeft' \in Nat
           /\ UNCHANGED handled => handled' \in [Providers -> Nat]
BY DEF TypeOK, StoreType, SharedType, PositionType, TaskType, ProgressType,
       SweepStateType, HistoryType, persistent, shared, position, progress,
       sweepState, history, budget

LEMMA GoToType ==
    ASSUME TypeOK, NEW p \in Providers, NEW l \in PCs, GoTo(p, l)
    PROVE  pc' \in [Providers -> PCs] /\ pc'[p] = l
BY DEF TypeOK, GoTo

\* Writing a cursor inside its zoom keeps the table typed.
LEMMA SetCursorType ==
    ASSUME TypeOK, NEW p \in Providers, NEW c \in Cursors,
           c.zoom \in Zooms => c.index <= Total[c.zoom],
           cursor' = [cursor EXCEPT ![p] = c]
    PROVE  /\ cursor' \in [Providers -> Cursors \union {NoCursor}]
           /\ \A q \in Providers :
                 cursor'[q] # NoCursor /\ cursor'[q].zoom \in Zooms =>
                    cursor'[q].index <= Total[cursor'[q].zoom]
<1>1. cursor' \in [Providers -> Cursors \union {NoCursor}]
  BY DEF TypeOK, StoreType
<1>2. ASSUME NEW q \in Providers
      PROVE  cursor'[q] = IF q = p THEN c ELSE cursor[q]
  BY DEF TypeOK, StoreType
<1>3. QED
  BY <1>1, <1>2 DEF TypeOK, StoreType

LEMMA SetTaskType ==
    ASSUME TypeOK, NEW p \in Providers, NEW f,
           \A i \in DOMAIN f : i \in Nat /\ f[i] \in Statuses,
           task' = [task EXCEPT ![p] = f]
    PROVE  TaskType' /\ task'[p] = f
<1>1. DOMAIN task' = Providers
  BY DEF TypeOK, TaskType
<1>2. \A q \in Providers : task'[q] = IF q = p THEN f ELSE task[q]
  BY DEF TypeOK, TaskType
<1>3. QED
  BY <1>1, <1>2 DEF TypeOK, TaskType

LEMMA CursorAfterSweepType ==
    ASSUME TypeOK, NEW p \in Providers, zoom[p] \in Zooms
    PROVE  /\ CursorAfterSweep(p) \in Cursors
           /\ CursorAfterSweep(p).zoom \in Zooms =>
                 CursorAfterSweep(p).index <= Total[CursorAfterSweep(p).zoom]
BY ScraperAssumption DEF CursorAfterSweep, Cursors, Zooms, TypeOK, ProgressType

\* Where a completion leads to keeps the control, the position and the tasks
\* typed.
LEMMA GoOnType ==
    ASSUME TypeInv, NEW p \in Providers, GoOn(p), UNCHANGED <<zoom, queue>>,
           pc[p] \in {"advance", "checkpoint"}
    PROVE  /\ pc' \in [Providers -> PCs] /\ pc'[p] \in {"close", "chunk", "sweep"}
           /\ TaskType' /\ PositionType' /\ Located(p)'
<1>a. TypeOK /\ Located(p) /\ zoom[p] \in Zooms
  BY DEF TypeInv, InZoom, Located, ZoomPCs
<1>1. pc' \in [Providers -> PCs] /\ pc'[p] \in {"close", "chunk", "sweep"}
  BY <1>a, GoToType DEF GoOn, PCs
<1>2. TaskType' /\ (pc'[p] = "sweep" => task' = task)
  <2>1. \A i \in DOMAIN NoTasks : i \in Nat /\ NoTasks[i] \in Statuses
    BY DEF NoTasks
  <2>2. \/ UNCHANGED task
        \/ task' = [task EXCEPT ![p] = NoTasks] /\ GoTo(p, "close")
    BY DEF GoOn
  <2>3. QED
    BY <1>a, <2>1, <2>2, SetTaskType, Frames, GoToType DEF PCs
<1>3. PositionType'
  BY <1>a, ScraperAssumption DEF GoOn, TypeOK, PositionType
<1>4. Located(p)'
  BY <1>a, <1>1, <1>2 DEF Located
<1>5. QED
  BY <1>1, <1>2, <1>3, <1>4

LEMMA StepType ==
    ASSUME TypeInv, NEW p \in Providers, Step(p)
    PROVE  TypeInv'
<1> SUFFICES TypeOK' /\ Located(p)'
  BY OthersLocated DEF TypeInv, InZoom
<1>a. TypeOK /\ Located(p) /\ Zooms \subseteq MinZoom..(MaxZoom + 1)
  BY ScraperAssumption DEF TypeInv, InZoom, Zooms
<1>b. \A l \in PCs : GoTo(p, l) => pc' \in [Providers -> PCs] /\ pc'[p] = l
  BY <1>a, GoToType
<1>1. CASE Skip(p)
  BY <1>1, <1>a, Frames, EndTurnType DEF Skip, TypeOK, InZoom
<1>2. CASE Begin(p)
  <2>1. PositionType' /\ HistoryType'
    BY <1>2, <1>a, ScraperAssumption
       DEF Begin, Origin, Cursors, TypeOK, StoreType, PositionType, HistoryType
  <2>2. GoTo(p, "zoom")
    BY <1>2 DEF Begin
  <2>3. pc' \in [Providers -> PCs] /\ Located(p)'
    BY <1>b, <2>2 DEF PCs, Located, ZoomPCs
  <2>4. QED
    BY <1>2, <1>a, <2>1, <2>3, Frames DEF Begin, TypeOK
<1>3. CASE NextZoom(p)
  <2>1. pc' \in [Providers -> PCs] /\ pc'[p] \in {"retry", "finish"}
    BY <1>3, <1>b DEF NextZoom, PCs
  <2>2. PositionType'
    <3>1. zoom[p] <= MaxZoom => FailedAt(p, zoom[p]) \subseteq Nat
      <4>1. zoom[p] <= MaxZoom => Total[zoom[p]] \in Nat
        BY <1>a, ScraperAssumption DEF TypeOK, PositionType, Zooms
      <4>2. QED
        BY <4>1 DEF FailedAt
    <3>2. QED
      BY <1>3, <1>a, <3>1 DEF NextZoom, TypeOK, PositionType
  <2>3. Located(p)'
    <3>1. CASE zoom[p] <= MaxZoom
      <4>1. zoom[p] \in Zooms /\ zoom'[p] = zoom[p]
        BY <1>3, <1>a, <3>1, ScraperAssumption
           DEF NextZoom, TypeOK, PositionType, Zooms
      <4>2. \A i \in FailedAt(p, zoom[p]) : <<zoom[p], i>> \in Tiles
        BY <1>a DEF FailedAt, TypeOK, StoreType
      <4>3. queue'[p] = FailedAt(p, zoom[p])
        BY <1>3, <1>a, <3>1, <4>1, ScraperAssumption
           DEF NextZoom, TypeOK, PositionType, Zooms
      <4>4. QED
        BY <2>1, <4>1, <4>2, <4>3 DEF Located
    <3>2. CASE ~(zoom[p] <= MaxZoom)
      <4>1. pc'[p] = "finish"
        BY <1>3, <1>b, <3>2 DEF NextZoom, PCs
      <4>2. QED
        BY <4>1 DEF Located, ZoomPCs
    <3>3. QED BY <3>1, <3>2
  <2>4. QED
    BY <1>3, <1>a, <2>1, <2>2, <2>3, Frames DEF NextZoom, TypeOK
<1>4. CASE StartSweep(p)
  <2>1. pc[p] = "retry" /\ zoom[p] \in Zooms /\ zoom' = zoom
    BY <1>4, <1>a DEF StartSweep, Located, ZoomPCs, position
  <2>2. pc' \in [Providers -> PCs] /\ pc'[p] \in {"zoomEnd", "chunk"}
    BY <1>4, <1>b DEF StartSweep, PCs
  <2>3. Located(p)'
    BY <2>1, <2>2 DEF Located, ZoomPCs
  <2>4. StoreType'
    <3> DEFINE c == [zoom |-> zoom[p] + 1, index |-> 0]
    <3>1. c \in Cursors /\ (c.zoom \in Zooms => c.index <= Total[c.zoom])
      BY <2>1, ScraperAssumption DEF Zooms, Cursors
    <3>2. \/ UNCHANGED cursor
          \/ cursor' = [cursor EXCEPT ![p] = [zoom |-> zoom[p] + 1, index |-> 0]]
      BY <1>4 DEF StartSweep
    <3>3. QED
      BY <1>4, <1>a, <3>1, <3>2, SetCursorType, Frames
         DEF StartSweep, TypeOK, StoreType
  <2>5. ProgressType'
    BY <1>4, <1>a DEF StartSweep, TypeOK, PositionType, ProgressType, progress
  <2>6. QED
    BY <1>4, <1>a, <2>2, <2>3, <2>4, <2>5, Frames DEF StartSweep, TypeOK
<1>5. CASE AwaitCooldown(p)
  <2>1. zoom[p] \in Zooms /\ zoom' = zoom
    BY <1>5, <1>a DEF AwaitCooldown, Located, ZoomPCs, position
  <2>2. pc' \in [Providers -> PCs] /\ pc'[p] = "waiting"
    BY <1>5, <1>b DEF AwaitCooldown, PCs
  <2>3. QED
    BY <1>5, <1>a, <2>1, <2>2, Frames DEF AwaitCooldown, TypeOK, Located
<1>6. CASE Dispatch(p)
  <2>1. zoom[p] \in Zooms /\ zoom' = zoom
    BY <1>6, <1>a DEF Dispatch, Located, ZoomPCs, position
  <2>2. pc' \in [Providers -> PCs] /\ pc'[p] \in {"spawned", "close"}
    BY <1>6, <1>b DEF Dispatch, PCs
  <2>3. chunkStart[p] \in Nat /\ Total[zoom[p]] \in Nat
    BY <1>a, <2>1, ScraperAssumption DEF TypeOK, PositionType
  <2>4. \A i \in Chunk(zoom[p], chunkStart[p]) : i \in Nat /\ <<zoom[p], i>> \in Tiles
    BY <2>1, <2>3, TileDef DEF Chunk
  <2>5. TaskType'
    <3>1. \/ UNCHANGED task
          \/ task' = [task EXCEPT ![p] = [i \in Chunk(zoom[p], chunkStart[p]) |-> "new"]]
      BY <1>6 DEF Dispatch
    <3> DEFINE f == [i \in Chunk(zoom[p], chunkStart[p]) |-> "new"]
    <3>2. \A i \in DOMAIN f : i \in Nat /\ f[i] \in Statuses
      BY <2>4 DEF Statuses
    <3> HIDE DEF f
    <3>3. UNCHANGED task \/ task' = [task EXCEPT ![p] = f]
      BY <3>1 DEF f
    <3>4. QED
      BY <1>a, <3>2, <3>3, SetTaskType, Frames
  <2>6. Located(p)'
    BY <1>6, <1>a, <1>b, <2>1, <2>2, <2>3, <2>4
       DEF Dispatch, TypeOK, TaskType, Located, PCs
  <2>7. QED
    BY <1>6, <1>a, <2>2, <2>5, <2>6, Frames DEF Dispatch, TypeOK
<1>7. CASE StartTasks(p)
  <2>1. zoom[p] \in Zooms /\ zoom' = zoom
    BY <1>7, <1>a DEF StartTasks, Located, ZoomPCs, position
  <2>2. pc' \in [Providers -> PCs] /\ pc'[p] = "sweep"
    BY <1>7, <1>b DEF StartTasks, PCs
  <2>3. TaskType' /\ DOMAIN task'[p] = DOMAIN task[p]
    BY <1>7, <1>a DEF StartTasks, Gated, TypeOK, TaskType, Statuses, Outcomes
  <2>4. QED
    BY <1>7, <1>a, <2>1, <2>2, <2>3, Frames DEF StartTasks, TypeOK, Located
<1>8. CASE AdvanceWatermark(p)
  <2>1. pc[p] = "advance" /\ zoom[p] \in Zooms /\ UNCHANGED <<zoom, queue>>
    BY <1>8, <1>a DEF AdvanceWatermark, Located, ZoomPCs
  <2>2. Total[zoom[p]] \in Nat /\ watermark[p] \in Nat /\ flushed[p] \in Nat
    BY <1>a, <2>1, ScraperAssumption DEF TypeOK, ProgressType
  <2>3. PICK n \in watermark[p]..Total[zoom[p]] :
          /\ AdvancedTo(p, n)
          /\ \/ /\ cursor' = [cursor EXCEPT ![p] = Checkpoint(p, n)]
                /\ flushed' = [flushed EXCEPT ![p] = n]
                /\ GoTo(p, "checkpoint")
                /\ UNCHANGED <<watermark, chunkStart, task>>
             \/ /\ watermark' = [watermark EXCEPT ![p] = n]
                /\ GoOn(p)
                /\ UNCHANGED <<cursor, flushed>>
    BY <1>8 DEF AdvanceWatermark
  <2>4. n \in Nat /\ n <= Total[zoom[p]]
    BY <2>2
  <2>5. ProgressType'
    <3>1. doneAbove' \in [Providers -> SUBSET Nat]
      BY <1>a, <2>3, <2>4 DEF AdvancedTo, TypeOK, ProgressType
    <3>2. watermark' \in [Providers -> Nat] /\ flushed' \in [Providers -> Nat]
      BY <1>a, <2>3, <2>4 DEF TypeOK, ProgressType
    <3>3. QED
      BY <3>1, <3>2 DEF ProgressType
  <2>6. StoreType'
    <3> DEFINE c == Checkpoint(p, n)
    <3>1. c \in Cursors /\ (c.zoom \in Zooms => c.index <= Total[c.zoom])
      BY <1>a, <2>1, <2>4 DEF Checkpoint, Cursors
    <3>2. UNCHANGED <<failed, last, health>>
      BY <1>8 DEF AdvanceWatermark
    <3>3. CASE UNCHANGED cursor
      BY <1>a, <3>2, <3>3, Frames DEF persistent
    <3>4. CASE cursor' = [cursor EXCEPT ![p] = c]
      BY <1>a, <3>1, <3>2, <3>4, SetCursorType DEF TypeOK, StoreType
    <3>5. QED
      BY <2>3, <3>3, <3>4
  <2>7. pc' \in [Providers -> PCs] /\ TaskType' /\ PositionType' /\ Located(p)'
    <3>1. CASE GoOn(p)
      BY <2>1, <3>1, GoOnType
    <3>2. CASE GoTo(p, "checkpoint") /\ UNCHANGED <<chunkStart, task>>
      <4>1. pc' \in [Providers -> PCs] /\ pc'[p] = "checkpoint"
        BY <1>b, <3>2 DEF PCs
      <4>2. QED
        BY <1>a, <2>1, <3>2, <4>1, Frames DEF position, Located
    <3>3. QED
      BY <2>3, <3>1, <3>2
  <2>8. QED
    BY <1>8, <1>a, <2>5, <2>6, <2>7, Frames DEF AdvanceWatermark, TypeOK
<1>23. CASE Checkpointed(p)
  <2>1. /\ pc[p] = "checkpoint" /\ GoOn(p) /\ UNCHANGED <<zoom, queue>>
        /\ UNCHANGED <<persistent, shared, handled, sweepState, history, budget>>
    BY <1>23 DEF Checkpointed
  <2>2. ProgressType'
    BY <1>23, <1>a DEF Checkpointed, TypeOK, ProgressType
  <2>3. QED
    BY <1>a, <2>1, <2>2, GoOnType, Frames DEF TypeOK
<1>9. CASE CloseSweep(p)
  <2>1. zoom[p] \in Zooms /\ zoom' = zoom
    BY <1>9, <1>a DEF CloseSweep, Located, ZoomPCs, position
  <2>2. pc' \in [Providers -> PCs] /\ pc'[p] = "zoomEnd"
    BY <1>9, <1>b DEF CloseSweep, PCs
  <2> DEFINE c == CursorAfterSweep(p)
  <2>3. c \in Cursors /\ (c.zoom \in Zooms => c.index <= Total[c.zoom])
    BY <1>a, <2>1, CursorAfterSweepType
  <2>4. StoreType'
    BY <1>9, <1>a, <2>3, SetCursorType DEF CloseSweep, TypeOK, StoreType
  <2>5. QED
    BY <1>9, <1>a, <2>1, <2>2, <2>4, Frames DEF CloseSweep, TypeOK, Located
<1>10. CASE ZoomEnd(p)
  <2>1. zoom[p] \in Zooms
    BY <1>10, <1>a DEF ZoomEnd, Located, ZoomPCs
  <2>2. pc' \in [Providers -> PCs] /\ pc'[p] \in {"zoom", "finish"}
    BY <1>10, <1>b DEF ZoomEnd, PCs
  <2>3. PositionType'
    <3>1. zoom[p] + 1 \in MinZoom..(MaxZoom + 1)
      BY <2>1, ScraperAssumption DEF Zooms
    <3>2. \/ UNCHANGED <<zoom, chunkStart>>
          \/ /\ zoom' = [zoom EXCEPT ![p] = zoom[p] + 1]
             /\ chunkStart' = [chunkStart EXCEPT ![p] = 0]
      BY <1>10 DEF ZoomEnd
    <3>3. UNCHANGED queue
      BY <1>10 DEF ZoomEnd
    <3>4. QED
      BY <1>a, <3>1, <3>2, <3>3 DEF TypeOK, PositionType
  <2>4. QED
    BY <1>10, <1>a, <2>2, <2>3, Frames DEF ZoomEnd, TypeOK, Located, ZoomPCs
<1>11. CASE OpenCircuit(p)
  <2>1. StoreType'
    BY <1>11, <1>a DEF OpenCircuit, TypeOK, StoreType
  <2>2. QED
    BY <1>11, <1>a, <2>1, Frames, EndTurnType DEF OpenCircuit, TypeOK, InZoom
<1>12. CASE FinishAbandoned(p)
  <2>1. SharedType'
    BY <1>12, <1>a DEF FinishAbandoned, TypeOK, SharedType
  <2>2. QED
    BY <1>12, <1>a, <2>1, Frames, EndTurnType DEF FinishAbandoned, TypeOK, InZoom
<1>13. CASE FinishIncomplete(p)
  <2>1. StoreType'
    BY <1>13, <1>a DEF FinishIncomplete, TypeOK, StoreType
  <2>2. QED
    BY <1>13, <1>a, <2>1, Frames, EndTurnType DEF FinishIncomplete, TypeOK, InZoom
<1>14. CASE ClearCursor(p)
  <2>1. StoreType'
    BY <1>14, <1>a DEF ClearCursor, TypeOK, StoreType
  <2>2. pc' \in [Providers -> PCs] /\ pc'[p] = "clearFailed"
    BY <1>14, <1>b DEF ClearCursor, PCs
  <2>3. QED
    BY <1>14, <1>a, <2>1, <2>2, Frames DEF ClearCursor, TypeOK, Located, ZoomPCs
<1>15. CASE ClearFailed(p)
  <2>1. StoreType'
    BY <1>15, <1>a DEF ClearFailed, TypeOK, StoreType
  <2>2. pc' \in [Providers -> PCs] /\ pc'[p] = "stamp"
    BY <1>15, <1>b DEF ClearFailed, PCs
  <2>3. QED
    BY <1>15, <1>a, <2>1, <2>2, Frames DEF ClearFailed, TypeOK, Located, ZoomPCs
<1>16. CASE Stamp(p)
  <2>1. StoreType'
    BY <1>16, <1>a DEF Stamp, TypeOK, StoreType
  <2>2. pc' \in [Providers -> PCs] /\ pc'[p] = "closeCircuit"
    BY <1>16, <1>b DEF Stamp, PCs
  <2>3. QED
    BY <1>16, <1>a, <2>1, <2>2, Frames DEF Stamp, TypeOK, Located, ZoomPCs
<1>17. CASE CloseCircuit(p)
  <2>1. StoreType'
    BY <1>17, <1>a DEF CloseCircuit, TypeOK, StoreType
  <2>2. QED
    BY <1>17, <1>a, <2>1, Frames, EndTurnType DEF CloseCircuit, TypeOK, InZoom
<1>18. CASE \E i \in queue[p] : RetryTile(p, i)
  <2>1. PICK i \in queue[p] : RetryTile(p, i)
    BY <1>18
  <2> DEFINE f == [j \in {i} |-> Gated]
  <2>2. i \in Nat /\ zoom[p] \in Zooms /\ <<zoom[p], i>> \in Tiles
    BY <1>a, <2>1 DEF RetryTile, TypeOK, PositionType, Located, ZoomPCs
  <2>3. \A j \in DOMAIN f : j \in Nat /\ f[j] \in Statuses
    BY <2>2 DEF Gated, Statuses, Outcomes
  <2> HIDE DEF f
  <2>4. TaskType' /\ task'[p] = f
    BY <1>a, <2>1, <2>3, SetTaskType DEF RetryTile, f
  <2>5. pc' \in [Providers -> PCs] /\ pc'[p] = "retrying"
    BY <1>b, <2>1 DEF RetryTile, PCs
  <2>6. Located(p)'
    <3>1. zoom' = zoom /\ queue' = queue /\ pc[p] = "retry"
      BY <2>1 DEF RetryTile, position
    <3>2. \A j \in DOMAIN task'[p] : <<zoom[p], j>> \in Tiles
      BY <2>2, <2>4 DEF f
    <3>3. QED
      BY <1>a, <2>2, <2>5, <3>1, <3>2 DEF Located
  <2>7. QED
    BY <1>a, <2>1, <2>4, <2>5, <2>6, Frames DEF RetryTile, TypeOK
<1>19. CASE \E i \in DOMAIN task[p] : RetryDone(p, i)
  <2>1. PICK i \in DOMAIN task[p] : RetryDone(p, i)
    BY <1>19
  <2>2. SweepStateType' /\ HistoryType' /\ TaskType'
    BY <2>1, FoldInType DEF RetryDone
  <2>3. pc' \in [Providers -> PCs] /\ pc'[p] \in {"retry", "finish"}
    BY <1>b, <2>1 DEF RetryDone, PCs
  <2>4. StoreType'
    BY <1>a, <2>1 DEF RetryDone, TypeOK, StoreType
  <2>5. PositionType'
    BY <1>a, <2>1 DEF RetryDone, TypeOK, PositionType
  <2>6. Located(p)'
    BY <1>a, <2>1, <2>3 DEF RetryDone, TypeOK, PositionType, Located, ZoomPCs
  <2>7. QED
    BY <1>a, <2>1, <2>2, <2>3, <2>4, <2>5, <2>6, Frames DEF RetryDone, TypeOK
<1>20. CASE \E i \in DOMAIN task[p] : HandleCompletion(p, i)
  <2>1. PICK i \in DOMAIN task[p] : HandleCompletion(p, i)
    BY <1>20
  <2>2. SweepStateType' /\ HistoryType' /\ TaskType'
    BY <2>1, FoldInType DEF HandleCompletion
  <2>3. pc' \in [Providers -> PCs] /\ pc'[p] = "advance"
    BY <1>b, <2>1 DEF HandleCompletion, PCs
  <2>4. pc[p] = "sweep" /\ zoom[p] \in Zooms /\ <<zoom[p], i>> \in Tiles /\ i \in Nat
    BY <1>a, <2>1 DEF HandleCompletion, Located, ZoomPCs, TypeOK, TaskType
  <2>5. StoreType'
    BY <1>a, <2>1, <2>4 DEF HandleCompletion, TypeOK, StoreType
  <2>6. handled' \in [Providers -> Nat]
    BY <1>a, <2>1, <2>4 DEF HandleCompletion, TypeOK
  <2>7. Located(p)'
    <3>1. zoom' = zoom /\ DOMAIN task'[p] \subseteq DOMAIN task[p]
      BY <1>a, <2>1 DEF HandleCompletion, FoldIn, Without, position, TypeOK, TaskType
    <3>2. QED
      BY <1>a, <2>3, <2>4, <3>1 DEF Located
  <2>8. QED
    BY <1>a, <2>1, <2>2, <2>3, <2>5, <2>6, <2>7, Frames DEF HandleCompletion, TypeOK
<1>21. CASE \E i \in DOMAIN task[p] : \E o \in Outcomes : TileDone(p, i, o)
  <2>1. PICK i \in DOMAIN task[p] : \E o \in Outcomes : TileDone(p, i, o)
    BY <1>21
  <2>2. PICK o \in Outcomes : TileDone(p, i, o)
    BY <2>1
  <2>3. SharedType'
    BY <1>a, <2>2, CircuitTypes DEF TileDone, TypeOK, SharedType
  <2>4. s3Left' \in Nat /\ providerLeft' \in Nat /\ restartsLeft' \in Nat
    BY <1>a, <2>2 DEF TileDone, TypeOK
  <2>5. TaskType' /\ DOMAIN task'[p] = DOMAIN task[p]
    BY <1>a, <2>2 DEF TileDone, TypeOK, TaskType, Statuses
  <2>6. Located(p)'
    BY <1>a, <2>2, <2>5 DEF TileDone, position, Located
  <2>7. QED
    BY <1>a, <2>2, <2>3, <2>4, <2>5, <2>6, Frames DEF TileDone, TypeOK
<1>22. QED
  BY <1>1, <1>2, <1>3, <1>4, <1>5, <1>6, <1>7, <1>8, <1>9, <1>10, <1>11, <1>12,
     <1>13, <1>14, <1>15, <1>16, <1>17, <1>18, <1>19, <1>20, <1>21, <1>23 DEF Step

LEMMA NextType == TypeInv /\ [Next]_vars => TypeInv'
<1> SUFFICES ASSUME TypeInv, [Next]_vars PROVE TypeInv'
  OBVIOUS
<1>a. TypeOK /\ InZoom
  BY DEF TypeInv
<1>1. CASE Wake
  <2>1. pc' \in [Providers -> PCs]
    BY <1>1 DEF Wake, PCs
  <2>2. InZoom'
    BY <1>1 DEF Wake, InZoom, Located, ZoomPCs
  <2>3. SharedType'
    BY <1>1, <1>a DEF Wake, TypeOK, SharedType
  <2>4. QED
    BY <1>1, <1>a, <2>1, <2>2, <2>3, Frames DEF Wake, TypeInv, TypeOK
<1>2. ASSUME NEW p \in Providers, ProviderCooldown(p)
      PROVE  TypeInv'
  <2>1. StoreType'
    BY <1>2, <1>a DEF ProviderCooldown, TypeOK, StoreType
  <2>2. InZoom'
    BY <1>2, <1>a DEF ProviderCooldown, position, InZoom, Located
  <2>3. QED
    BY <1>2, <1>a, <2>1, <2>2, Frames DEF ProviderCooldown, TypeInv, TypeOK
<1>3. ASSUME NEW p \in Providers, IntervalElapses(p)
      PROVE  TypeInv'
  <2>1. StoreType'
    BY <1>3, <1>a DEF IntervalElapses, TypeOK, StoreType
  <2>2. InZoom'
    BY <1>3, <1>a DEF IntervalElapses, position, InZoom, Located
  <2>3. QED
    BY <1>3, <1>a, <2>1, <2>2, Frames DEF IntervalElapses, TypeInv, TypeOK
<1>4. CASE CircuitCooldown
  <2>1. SharedType'
    BY <1>4, <1>a, CircuitTypes DEF CircuitCooldown, TypeOK, SharedType
  <2>2. InZoom'
    BY <1>4, <1>a DEF CircuitCooldown, position, InZoom, Located
  <2>3. QED
    BY <1>4, <1>a, <2>1, <2>2, Frames DEF CircuitCooldown, TypeInv, TypeOK
<1>5. ASSUME Restarted
      PROVE  /\ SharedType' /\ pc' \in [Providers -> PCs] /\ InZoom'
             /\ PositionType' /\ TaskType' /\ handled' \in [Providers -> Nat]
             /\ ProgressType' /\ SweepStateType' /\ HistoryType'
             /\ s3Left' \in Nat /\ providerLeft' \in Nat /\ restartsLeft' \in Nat
             /\ UNCHANGED <<failed, last, health>>
  <2>1. SharedType'
    BY <1>5, <1>a, CircuitTypes DEF Restarted, TypeOK, SharedType
  <2>2. pc' \in [Providers -> PCs] /\ InZoom'
    BY <1>5 DEF Restarted, PCs, InZoom, Located, ZoomPCs
  <2>3. QED
    BY <1>5, <1>a, <2>1, <2>2, DropType DEF Restarted, TypeOK
<1>6. CASE Crash
  <2>1. StoreType'
    BY <1>6, <1>5, <1>a DEF Crash, TypeOK, StoreType
  <2>2. QED
    BY <1>6, <1>5, <2>1 DEF Crash, TypeInv, TypeOK
<1>7. CASE Stop
  <2>1. ASSUME NEW p \in Providers
        PROVE  /\ cursor'[p] \in Cursors \union {NoCursor}
               /\ cursor'[p] # NoCursor /\ cursor'[p].zoom \in Zooms =>
                     cursor'[p].index <= Total[cursor'[p].zoom]
    <3>1. CASE pc[p] \in InSweep
      <4>1. zoom[p] \in Zooms
        BY <1>a, <3>1 DEF InZoom, Located, InSweep, ZoomPCs
      <4>2. cursor'[p] \in {CursorAfterSweep(p), cursor[p]}
        BY <1>7 DEF Stop
      <4>3. QED
        BY <1>a, <4>1, <4>2, CursorAfterSweepType DEF TypeOK, StoreType
    <3>2. CASE pc[p] \notin InSweep
      BY <1>7, <1>a, <3>2 DEF Stop, TypeOK, StoreType
    <3>3. QED BY <3>1, <3>2
  <2>2. cursor' \in [Providers -> Cursors \union {NoCursor}]
    BY <1>7, <2>1 DEF Stop
  <2>3. StoreType'
    BY <1>7, <1>5, <1>a, <2>1, <2>2 DEF Stop, TypeOK, StoreType
  <2>4. QED
    BY <1>7, <1>5, <2>3 DEF Stop, TypeInv, TypeOK
<1>8. CASE UNCHANGED vars
  BY <1>8, <1>a, Frames DEF vars, TypeInv, TypeOK, InZoom, Located, position
<1>9. QED
  BY <1>1, <1>2, <1>3, <1>4, <1>6, <1>7, <1>8, StepType DEF Next

\* The tables, the shared memory and the sweeps of the scraper keep their
\* types, and a cursor never points past the end of its zoom, whatever is
\* cancelled or restarted (set_cursor, _advance_watermark and the finally
\* block of _run_indexed_sweep).
THEOREM TypeCorrect == Spec => []TypeOK
<1>1. TypeInv => TypeOK
  BY DEF TypeInv
<1>2. QED
  BY <1>1, InitType, NextType, PTL DEF Spec

-----------------------------------------------------------------------------
(***************************************************************************)
(* One provider at a time                                                  *)
(***************************************************************************)

\* Who has no turn has no tasks.
NoStrayTasks == \A p \in Providers : pc[p] = "off" => DOMAIN task[p] = {}

OneTurn == \A p, q \in Providers : pc[p] # "off" /\ pc[q] # "off" => p = q

\* The tasks of a chunk find the circuit as it was when they were created.
Admitted(p) ==
    /\ pc[p] = "spawned" =>
          AllowsWrite(circuit) /\ \A i \in DOMAIN task[p] : task[p][i] = "new"
    /\ pc[p] \in {"sweep", "advance", "checkpoint"} =>
          \A i \in DOMAIN task[p] : task[p][i] # "skipped"

Alone ==
    /\ NoStrayTasks
    /\ Mode = "sequential" => OneTurn /\ \A p \in Providers : Admitted(p)

LEMMA InitAlone == Init => Alone
BY DEF Init, Alone, NoStrayTasks, OneTurn, Admitted, NoTasks

\* A step is of a provider whose turn it is; it keeps the turn, or ends it.
LEMMA Turns ==
    ASSUME TypeInv, Alone, NEW p \in Providers, Step(p)
    PROVE  /\ pc[p] # "off"
           /\ EndTurn(p) \/ pc' = pc \/ \E l \in PCs \ {"off"} : GoTo(p, l)
<1>1. CASE Skip(p) \/ OpenCircuit(p) \/ FinishAbandoned(p) \/ FinishIncomplete(p) \/ CloseCircuit(p)
  BY <1>1 DEF Skip, OpenCircuit, FinishAbandoned, FinishIncomplete, CloseCircuit
<1>2. CASE Begin(p) \/ NextZoom(p) \/ StartSweep(p) \/ AwaitCooldown(p)
  BY <1>2 DEF Begin, NextZoom, StartSweep, AwaitCooldown, PCs
<1>3. CASE Dispatch(p) \/ StartTasks(p)
  BY <1>3 DEF Dispatch, StartTasks, PCs
<1>4. CASE AdvanceWatermark(p) \/ Checkpointed(p) \/ CloseSweep(p) \/ ZoomEnd(p)
  BY <1>4 DEF AdvanceWatermark, Checkpointed, GoOn, CloseSweep, ZoomEnd, PCs
<1>5. CASE ClearCursor(p) \/ ClearFailed(p) \/ Stamp(p)
  BY <1>5 DEF ClearCursor, ClearFailed, Stamp, PCs
<1>6. CASE \E i \in queue[p] : RetryTile(p, i)
  BY <1>6 DEF RetryTile, PCs
<1>7. CASE \E i \in DOMAIN task[p] : RetryDone(p, i) \/ HandleCompletion(p, i)
  BY <1>7 DEF RetryDone, HandleCompletion, PCs
<1>8. CASE \E i \in DOMAIN task[p] : \E o \in Outcomes : TileDone(p, i, o)
  BY <1>8 DEF TileDone, Alone, NoStrayTasks
<1>9. QED
  BY <1>1, <1>2, <1>3, <1>4, <1>5, <1>6, <1>7, <1>8 DEF Step

\* At most one provider follows another, and one heads the only group.
LEMMA OneFollower ==
    ASSUME Mode = "sequential", NEW p \in Providers, NEW q \in Providers, NEW r \in Providers
    PROVE  /\ Follows(q, p) /\ Follows(r, p) => q = r
           /\ IsHead(q) /\ IsHead(r) => q = r
<1>1. \A a, b \in Providers : SameGroup(a, b)
  BY DEF SameGroup
<1>2. Rank[q] \in Nat /\ Rank[r] \in Nat /\ (Rank[q] = Rank[r] => q = r)
  BY ScraperAssumption
<1>3. QED
  BY <1>1, <1>2 DEF Follows, IsHead

LEMMA StepTurn ==
    ASSUME TypeInv, Alone, Mode = "sequential", NEW p \in Providers, Step(p)
    PROVE  OneTurn'
<1>1. \A q \in Providers : pc[q] # "off" => q = p
  BY Turns DEF Alone, OneTurn
<1>2. CASE pc' = pc
  BY <1>1, <1>2 DEF OneTurn
<1>3. CASE \E l \in PCs \ {"off"} : GoTo(p, l)
  BY <1>1, <1>3 DEF OneTurn, GoTo, TypeInv, TypeOK
<1>4. CASE EndTurn(p)
  <2>1. \A q \in Providers : pc'[q] # "off" => Follows(q, p)
    BY <1>1, <1>4 DEF EndTurn
  <2>2. QED
    BY <2>1, OneFollower DEF OneTurn
<1>5. QED
  BY <1>2, <1>3, <1>4, Turns

\* The provider that steps keeps its part: the pause before a chunk holds until
\* its tasks have started (_await_storage_cooldown, _download_and_store).
LEMMA StepAdmitted ==
    ASSUME TypeInv, Alone, NEW p \in Providers, Step(p)
    PROVE  /\ pc'[p] = "off" => DOMAIN task'[p] = {}
           /\ Mode = "sequential" => Admitted(p)'
<1>a. TypeOK /\ TaskType /\ pc \in [Providers -> PCs]
  BY DEF TypeInv, TypeOK
<1>b. \A l \in PCs : GoTo(p, l) => pc'[p] = l
  BY <1>a, GoToType
<1>c. ASSUME pc'[p] \notin {"off", "spawned", "sweep", "advance", "checkpoint"}
      PROVE  /\ pc'[p] = "off" => DOMAIN task'[p] = {}
             /\ Mode = "sequential" => Admitted(p)'
  BY <1>c DEF Admitted
<1>1. CASE EndTurn(p)
  BY <1>1 DEF EndTurn, Drop, NoTasks, Admitted
<1>2. CASE Skip(p) \/ OpenCircuit(p) \/ FinishAbandoned(p) \/ FinishIncomplete(p) \/ CloseCircuit(p)
  BY <1>1, <1>2 DEF Skip, OpenCircuit, FinishAbandoned, FinishIncomplete, CloseCircuit
<1>3. CASE Begin(p) \/ NextZoom(p) \/ StartSweep(p) \/ AwaitCooldown(p) \/ CloseSweep(p) \/ ZoomEnd(p)
  <2>1. pc'[p] \in {"zoom", "retry", "finish", "zoomEnd", "chunk", "waiting"}
    BY <1>b, <1>3 DEF Begin, NextZoom, StartSweep, AwaitCooldown, CloseSweep, ZoomEnd, PCs
  <2>2. QED
    BY <1>c, <2>1
<1>4. CASE Dispatch(p)
  <2>1. CASE pc'[p] = "close"
    BY <1>c, <2>1
  <2>2. CASE pc'[p] # "close"
    <3>1. /\ GoTo(p, "spawned") /\ AllowsWrite(circuit) /\ circuit' = circuit
          /\ task' = [task EXCEPT ![p] = [i \in Chunk(zoom[p], chunkStart[p]) |-> "new"]]
      BY <1>b, <1>4, <2>2 DEF Dispatch, StorageReady, shared, PCs
    <3>2. task'[p] = [i \in Chunk(zoom[p], chunkStart[p]) |-> "new"]
      BY <1>a, <3>1 DEF TaskType
    <3>3. pc'[p] = "spawned"
      BY <1>b, <3>1 DEF PCs
    <3>4. QED
      BY <3>1, <3>2, <3>3 DEF Admitted, AllowsWrite
  <2>3. QED
    BY <2>1, <2>2
<1>5. CASE StartTasks(p)
  <2>1. pc[p] = "spawned" /\ pc'[p] = "sweep"
    BY <1>b, <1>5 DEF StartTasks, PCs
  <2>2. task'[p] = [i \in DOMAIN task[p] |-> Gated]
    BY <1>a, <1>5 DEF StartTasks, TaskType
  <2>3. Mode = "sequential" => Gated = "fetching"
    BY <2>1 DEF Alone, Admitted, Gated
  <2>4. QED
    BY <2>1, <2>2, <2>3 DEF Admitted
<1>6. CASE AdvanceWatermark(p) \/ Checkpointed(p)
  <2>1. /\ pc[p] \in {"advance", "checkpoint"}
        /\ pc'[p] \in {"close", "chunk", "sweep", "checkpoint"}
    BY <1>b, <1>6 DEF AdvanceWatermark, Checkpointed, GoOn, PCs
  <2>2. pc'[p] \in {"sweep", "checkpoint"} => UNCHANGED task
    BY <1>b, <1>6 DEF AdvanceWatermark, Checkpointed, GoOn, PCs
  <2>3. QED
    BY <2>1, <2>2 DEF Alone, Admitted
<1>7. CASE ClearCursor(p) \/ ClearFailed(p) \/ Stamp(p)
  <2>1. pc'[p] \in {"clearFailed", "stamp", "closeCircuit"}
    BY <1>b, <1>7 DEF ClearCursor, ClearFailed, Stamp, PCs
  <2>2. QED
    BY <1>c, <2>1
<1>8. CASE \E i \in queue[p] : RetryTile(p, i)
  <2>1. pc'[p] = "retrying"
    BY <1>b, <1>8 DEF RetryTile, PCs
  <2>2. QED
    BY <1>c, <2>1
<1>9. CASE \E i \in DOMAIN task[p] : RetryDone(p, i)
  <2>1. pc'[p] \in {"retry", "finish"}
    BY <1>b, <1>9 DEF RetryDone, PCs
  <2>2. QED
    BY <1>c, <2>1
<1>10. CASE \E i \in DOMAIN task[p] : HandleCompletion(p, i)
  <2>1. PICK i \in DOMAIN task[p] : HandleCompletion(p, i)
    BY <1>10
  <2>2. pc[p] = "sweep" /\ pc'[p] = "advance"
    BY <1>b, <2>1 DEF HandleCompletion, PCs
  <2>3. task'[p] = [j \in DOMAIN task[p] \ {i} |-> task[p][j]]
    BY <1>a, <2>1 DEF HandleCompletion, FoldIn, Without, TaskType
  <2>4. QED
    BY <2>2, <2>3 DEF Alone, Admitted
<1>11. CASE \E i \in DOMAIN task[p] : \E o \in Outcomes : TileDone(p, i, o)
  <2>1. PICK i \in DOMAIN task[p], o \in Outcomes : TileDone(p, i, o)
    BY <1>11
  <2>2. /\ pc' = pc /\ task[p][i] = "fetching" /\ o # "skipped"
        /\ task' = [task EXCEPT ![p][i] = o]
    BY <2>1 DEF TileDone
  <2>3. task'[p] = [task[p] EXCEPT ![i] = o]
    BY <1>a, <2>2 DEF TaskType
  <2>4. pc[p] # "off" /\ (Mode = "sequential" => pc[p] # "spawned")
    BY <2>2 DEF Alone, NoStrayTasks, Admitted
  <2>5. Mode = "sequential" /\ pc[p] \in {"sweep", "advance", "checkpoint"} =>
           \A j \in DOMAIN task[p] : task[p][j] # "skipped"
    BY DEF Alone, Admitted
  <2>6. DOMAIN task'[p] = DOMAIN task[p] /\ \A j \in DOMAIN task[p] : task'[p][j] \in {task[p][j], o}
    BY <2>3
  <2>7. QED
    BY <2>2, <2>4, <2>5, <2>6 DEF Admitted
<1>12. QED
  BY <1>2, <1>3, <1>4, <1>5, <1>6, <1>7, <1>8, <1>9, <1>10, <1>11 DEF Step

LEMMA StepAlone ==
    ASSUME TypeInv, Alone, NEW p \in Providers, Step(p)
    PROVE  Alone'
<1>1. ASSUME NEW q \in Providers
      PROVE  /\ pc'[q] = "off" => DOMAIN task'[q] = {}
             /\ Mode = "sequential" => Admitted(q)'
  <2>1. CASE q = p
    BY <2>1, StepAdmitted
  <2>2. CASE q # p
    <3>1. SameSweep(q)
      BY <2>2, OthersUntouched
    <3>2. pc'[q] = "off" => DOMAIN task'[q] = {}
      BY <3>1 DEF SameSweep, Alone, NoStrayTasks
    <3>3. ASSUME Mode = "sequential"
          PROVE  pc'[q] \in {"off", "gate"}
      BY <2>2, <3>1, <3>3, Turns DEF SameSweep, Alone, OneTurn
    <3>4. QED
      BY <3>2, <3>3 DEF Admitted
  <2>3. QED
    BY <2>1, <2>2
<1>2. Mode = "sequential" => OneTurn'
  BY StepTurn
<1>3. QED
  BY <1>1, <1>2 DEF Alone, NoStrayTasks

LEMMA NextAlone == TypeInv /\ Alone /\ [Next]_vars => Alone'
<1> SUFFICES ASSUME TypeInv, Alone, [Next]_vars PROVE Alone'
  OBVIOUS
<1>1. CASE Wake
  <2>1. \A p \in Providers : pc'[p] = IF IsHead(p) THEN "gate" ELSE "off"
    BY <1>1 DEF Wake
  <2>2. UNCHANGED task /\ \A p \in Providers : pc[p] = "off"
    BY <1>1 DEF Wake
  <2>3. NoStrayTasks' /\ \A p \in Providers : Admitted(p)'
    BY <2>1, <2>2 DEF Alone, NoStrayTasks, Admitted
  <2>4. Mode = "sequential" => OneTurn'
    BY <2>1, OneFollower DEF OneTurn
  <2>5. QED
    BY <2>3, <2>4 DEF Alone
<1>2. ASSUME UNCHANGED <<pc, task>>, AllowsWrite(circuit) => AllowsWrite(circuit)'
      PROVE  Alone'
  BY <1>2 DEF Alone, NoStrayTasks, OneTurn, Admitted
<1>3. ASSUME NEW p \in Providers, ProviderCooldown(p) \/ IntervalElapses(p)
      PROVE  Alone'
  BY <1>2, <1>3 DEF ProviderCooldown, IntervalElapses, shared, AllowsWrite
<1>4. CASE CircuitCooldown
  <2>1. AllowsWrite(circuit) => AllowsWrite(circuit)'
    BY <1>4 DEF CircuitCooldown, AllowsWrite
  <2>2. QED
    BY <1>2, <1>4, <2>1 DEF CircuitCooldown
<1>5. CASE UNCHANGED vars
  BY <1>2, <1>5 DEF vars, shared, AllowsWrite
<1>6. CASE Crash \/ Stop
  <2>1. \A p \in Providers : pc'[p] = "off" /\ task'[p] = NoTasks
    BY <1>6 DEF Crash, Stop, Restarted, Drop
  <2>2. QED
    BY <2>1 DEF Alone, NoStrayTasks, OneTurn, Admitted, NoTasks
<1>7. QED
  BY <1>1, <1>3, <1>4, <1>5, <1>6, StepAlone DEF Next

-----------------------------------------------------------------------------
(***************************************************************************)
(* What the cursor has passed is accounted for                             *)
(***************************************************************************)

\* With a single group no tile of the main sweep is skipped.
Passable == IF Mode = "sequential" THEN {"ok"} ELSE {"ok", "skipped"}

Covered(p, t) ==
    /\ outcome[p][t] # "untried"
    /\ outcome[p][t] \in Passable \/ t \in failed[p]

\* A storage failure of this pass is on the sweep's books.
Cleared(p, t) ==
    \/ errs[p]
    \/ Below(t, from[p].zoom, from[p].index)
    \/ outcome[p][t] \notin {"storage", "skipped"}

Done(p, t) == Covered(p, t) /\ Cleared(p, t)

CoveredBelow(p, z, i) == \A t \in Tiles : Below(t, z, i) => Covered(p, t)

DoneBelow(p, z, i) == \A t \in Tiles : Below(t, z, i) => Done(p, t)

\* While a chunk drains, each of its indices is below the watermark, parked
\* above it, still a task, or in hand.
Draining(p) ==
    /\ chunkStart[p] < Total[zoom[p]]
    /\ chunkStart[p] <= watermark[p]
    /\ watermark[p] <= chunkStart[p] + FanoutWindow
    /\ DOMAIN task[p] \subseteq Chunk(zoom[p], chunkStart[p])
    /\ \A j \in doneAbove[p] :
          j \in Chunk(zoom[p], chunkStart[p]) /\ Done(p, <<zoom[p], j>>)
    /\ \A i \in Chunk(zoom[p], chunkStart[p]) :
          \/ i < watermark[p]
          \/ i \in doneAbove[p]
          \/ i \in DOMAIN task[p]
          \/ pc[p] = "advance" /\ i = handled[p]

\* A completion is folded in and every tile of the zoom below n is done: the
\* rest of the chunk is parked above n or still a task.
ChunkLeft(p, n, above) ==
    /\ chunkStart[p] < Total[zoom[p]]
    /\ chunkStart[p] <= n
    /\ n <= chunkStart[p] + FanoutWindow
    /\ n <= Total[zoom[p]]
    /\ DOMAIN task[p] \subseteq Chunk(zoom[p], chunkStart[p])
    /\ \A j \in above :
          j \in Chunk(zoom[p], chunkStart[p]) /\ j > n /\ Done(p, <<zoom[p], j>>)
    /\ \A i \in Chunk(zoom[p], chunkStart[p]) :
          i < n \/ i \in above \/ i \in DOMAIN task[p]
    /\ DoneBelow(p, zoom[p], n)

\* What is accounted for at each place of the sweep.
Swept(p) ==
    /\ pc[p] \in {"zoom", "retry", "retrying"} =>
          DoneBelow(p, zoom[p], chunkStart[p])
    /\ pc[p] \in {"retry", "retrying"} =>
          \A i \in queue[p] : <<zoom[p], i>> \in failed[p]
    /\ pc[p] = "retrying" => DOMAIN task[p] \subseteq queue[p]
    /\ pc[p] \in InSweep \union {"close"} =>
          /\ watermark[p] <= Total[zoom[p]]
          /\ DoneBelow(p, zoom[p], watermark[p])
    /\ pc[p] \in {"chunk", "waiting"} =>
          /\ doneAbove[p] = {}
          /\ \/ watermark[p] = chunkStart[p]
             \/ watermark[p] = Total[zoom[p]] /\ chunkStart[p] >= Total[zoom[p]]
    /\ pc[p] \in {"spawned", "sweep", "advance"} => Draining(p)
    /\ pc[p] = "advance" =>
          /\ handled[p] \in Chunk(zoom[p], chunkStart[p])
          /\ Done(p, <<zoom[p], handled[p]>>)
    /\ pc[p] = "checkpoint" =>
          /\ chunkStart[p] <= watermark[p] /\ watermark[p] <= flushed[p]
          /\ ChunkLeft(p, flushed[p], doneAbove[p])
    /\ pc[p] = "close" /\ verdict[p] = "running" => watermark[p] = Total[zoom[p]]
    /\ pc[p] = "zoomEnd" /\ verdict[p] = "running" =>
          DoneBelow(p, zoom[p] + 1, 0)

CursorOK(p) ==
    /\ cursor[p] # NoCursor => CoveredBelow(p, cursor[p].zoom, cursor[p].index)
    /\ pc[p] = "clearFailed" => cursor[p] = NoCursor

Accounted == \A p \in Providers : Swept(p) /\ CursorOK(p)

LEMMA OthersAccounted ==
    ASSUME TypeInv, Accounted, NEW p \in Providers, NEW q \in Providers, q # p,
           Step(p)
    PROVE  Swept(q)' /\ CursorOK(q)'
<1>1. SameSweep(q) /\ Swept(q) /\ CursorOK(q)
  BY OthersUntouched DEF Accounted
<1>2. CursorOK(q)'
  BY <1>1 DEF SameSweep, CursorOK, CoveredBelow, Covered
<1>3. CASE pc'[q] = "gate"
  BY <1>2, <1>3 DEF Swept, InSweep
<1>4. CASE pc'[q] = pc[q]
  BY <1>1, <1>2, <1>4 DEF SameSweep, Swept, Draining, ChunkLeft, DoneBelow, Done,
     Covered, Cleared
<1>5. QED
  BY <1>1, <1>3, <1>4 DEF SameSweep

\* A step of p that moves neither its sweep's tiles nor its tables keeps the
\* part of the invariant about its cursor.
LEMMA CursorKept ==
    ASSUME NEW p \in Providers, CursorOK(p), UNCHANGED <<cursor, failed>>,
           outcome'[p] = outcome[p], pc'[p] # "clearFailed"
    PROVE  CursorOK(p)'
BY DEF CursorOK, CoveredBelow, Covered

\* So does the end of its turn, which forgets the history only without a
\* cursor.
LEMMA EndTurnAccounted ==
    ASSUME TypeInv, Accounted, NEW p \in Providers, EndTurn(p), UNCHANGED failed,
           UNCHANGED cursor \/ cursor' = [cursor EXCEPT ![p] = NoCursor]
    PROVE  Swept(p)' /\ CursorOK(p)'
<1>1. pc'[p] = "off"
  BY DEF EndTurn
<1>2. cursor'[p] # NoCursor => cursor'[p] = cursor[p] /\ outcome'[p] = outcome[p]
  BY DEF EndTurn, Drop, TypeInv, TypeOK, StoreType
<1>3. QED
  BY <1>1, <1>2 DEF Accounted, Swept, CursorOK, CoveredBelow, Covered, InSweep

\* After an outcome is folded in, the tile is accounted for when the outcome
\* was stored, skipped or queued, a storage failure is on the books, and no
\* other tile changes.
LEMMA FoldInCovers ==
    ASSUME TypeInv, NEW p \in Providers, NEW i, <<zoom[p], i>> \in Tiles,
           Consumable(p, i), FoldIn(p, i, task[p][i]), UNCHANGED from,
           \/ task[p][i] \in Passable
           \/ <<zoom[p], i>> \in failed'[p],
           \A t \in Tiles : t # <<zoom[p], i>> /\ t \in failed[p] => t \in failed'[p]
    PROVE  /\ \A t \in Tiles : Covered(p, t) \/ t = <<zoom[p], i>> => Covered(p, t)'
           /\ \A t \in Tiles : Done(p, t) \/ t = <<zoom[p], i>> => Done(p, t)'
           /\ DOMAIN task'[p] = DOMAIN task[p] \ {i}
<1>1. outcome'[p] = [outcome[p] EXCEPT ![<<zoom[p], i>>] = task[p][i]]
  BY DEF FoldIn, TypeInv, TypeOK, HistoryType
<1>2. outcome'[p][<<zoom[p], i>>] = task[p][i]
  BY <1>1 DEF TypeInv, TypeOK, HistoryType
<1>3. \A t \in Tiles : t # <<zoom[p], i>> => outcome'[p][t] = outcome[p][t]
  BY <1>1 DEF TypeInv, TypeOK, HistoryType
<1>4. DOMAIN task'[p] = DOMAIN task[p] \ {i}
  BY DEF FoldIn, Without, TypeInv, TypeOK, TaskType
<1>5. task[p][i] # "untried"
  BY DEF Consumable, Outcomes
<1>6. \A t \in Tiles : Covered(p, t) \/ t = <<zoom[p], i>> => Covered(p, t)'
  BY <1>2, <1>3, <1>5 DEF Covered
<1>7. /\ errs[p] => errs'[p]
      /\ task[p][i] \in {"storage", "skipped"} => errs'[p]
  BY DEF FoldIn, update_sweep_state, FetchAttempt, StorageFailure,
         TypeInv, TypeOK, SweepStateType
<1>8. \A t \in Tiles : Cleared(p, t) \/ t = <<zoom[p], i>> => Cleared(p, t)'
  BY <1>2, <1>3, <1>7 DEF Cleared
<1>9. QED
  BY <1>4, <1>6, <1>8 DEF Done

\* What lies below the next zoom lies below any position at or past the end
\* of this one.
LEMMA WholeZoom ==
    ASSUME NEW z \in Zooms, NEW i \in Nat, i >= Total[z]
    PROVE  \A t \in Tiles : Below(t, z + 1, 0) => Below(t, z, i)
<1> SUFFICES ASSUME NEW t \in Tiles, Below(t, z + 1, 0)
             PROVE  Below(t, z, i)
  OBVIOUS
<1>1. t[1] \in Zooms /\ t[2] \in Nat /\ t[2] < Total[t[1]]
  BY TileParts
<1>2. z \in Nat /\ t[1] \in Nat /\ Total[z] \in Nat
  BY <1>1, ScraperAssumption DEF Zooms
<1>3. t[1] < z \/ t[1] = z
  BY <1>1, <1>2 DEF Below
<1>4. QED
  BY <1>1, <1>2, <1>3 DEF Below

\* The cursor that the finally block writes covers no more than the watermark.
LEMMA SweepEndCovered ==
    ASSUME NEW p \in Providers, zoom[p] \in Zooms, watermark[p] \in Nat,
           CoveredBelow(p, zoom[p], watermark[p])
    PROVE  CoveredBelow(p, CursorAfterSweep(p).zoom, CursorAfterSweep(p).index)
<1>1. CASE watermark[p] >= Total[zoom[p]]
  <2>1. CoveredBelow(p, zoom[p] + 1, 0)
    BY <1>1, WholeZoom DEF CoveredBelow
  <2>2. QED
    BY <1>1, <2>1 DEF CursorAfterSweep
<1>2. CASE ~(watermark[p] >= Total[zoom[p]])
  BY <1>2 DEF CursorAfterSweep
<1>3. QED BY <1>1, <1>2

LEMMA ChunkTiles ==
    ASSUME NEW z \in Zooms, NEW start \in Nat, NEW i \in Chunk(z, start)
    PROVE  <<z, i>> \in Tiles
<1>1. i \in 0..(Total[z] - 1)
  BY ScraperAssumption DEF Chunk
<1>2. QED
  BY <1>1, TileDef

\* After a completion the sweep goes on from where the watermark now stands.
LEMMA GoOnSwept ==
    ASSUME TypeInv, NEW p \in Providers, GoOn(p), NEW n \in Nat, NEW above,
           ChunkLeft(p, n, above), zoom[p] \in Zooms,
           watermark'[p] = n, doneAbove'[p] = above,
           UNCHANGED <<failed, outcome, errs, from, zoom, verdict>>
    PROVE  Swept(p)'
<1> DEFINE z == zoom[p]
           C == Chunk(zoom[p], chunkStart[p])
<1>a. TypeOK
  BY DEF TypeInv
<1>b. \A l \in PCs : GoTo(p, l) => pc'[p] = l
  BY <1>a, GoToType
<1>c. Total[z] \in Nat /\ chunkStart[p] \in Nat /\ FanoutWindow \in Nat \ {0}
  BY <1>a, ScraperAssumption DEF TypeOK, PositionType
<1>1. DoneBelow(p, zoom[p], watermark[p])' /\ watermark'[p] <= Total[zoom'[p]]
  BY DEF ChunkLeft, DoneBelow, Done, Covered, Cleared
<1>2. CASE verdict[p] # "running"
  <2>1. pc'[p] = "close"
    BY <1>2, <1>b DEF GoOn, PCs
  <2>2. QED
    BY <1>1, <1>2, <2>1 DEF Swept, InSweep
<1>3. CASE verdict[p] = "running" /\ DOMAIN task[p] = {}
  <2>1. pc'[p] = "chunk" /\ chunkStart'[p] = chunkStart[p] + FanoutWindow
    BY <1>3, <1>a, <1>b DEF GoOn, TypeOK, PositionType, PCs
  <2>2. \A j \in above : j \in C /\ j > n
    BY DEF ChunkLeft
  <2>3. n \notin C
    <3> SUFFICES ASSUME n \in C PROVE FALSE
      OBVIOUS
    <3>1. n \in above
      BY <1>3 DEF ChunkLeft
    <3>2. QED
      BY <2>2, <3>1
  <2>4. n = chunkStart[p] + FanoutWindow
        \/ (n = Total[z] /\ chunkStart[p] + FanoutWindow >= Total[z])
    BY <1>c, <2>3 DEF Chunk, ChunkLeft
  <2>5. above = {}
    <3> SUFFICES ASSUME NEW j \in above PROVE FALSE
      OBVIOUS
    <3>1. j \in Nat /\ j < Total[z] /\ j < chunkStart[p] + FanoutWindow
      BY <1>c, <2>2 DEF Chunk
    <3>2. QED
      BY <1>c, <2>2, <2>4, <3>1
  <2>6. QED
    BY <1>1, <1>c, <2>1, <2>4, <2>5 DEF Swept, InSweep
<1>4. CASE verdict[p] = "running" /\ DOMAIN task[p] # {}
  <2>1. pc'[p] = "sweep" /\ UNCHANGED <<task, chunkStart>>
    BY <1>4, <1>b DEF GoOn, PCs
  <2>2. Draining(p)'
    BY <2>1 DEF ChunkLeft, Draining, Done, Covered, Cleared
  <2>3. QED
    BY <1>1, <2>1, <2>2 DEF Swept, InSweep
<1>5. QED
  BY <1>2, <1>3, <1>4

LEMMA InitAccounted == Init => Accounted
BY DEF Init, Accounted, Swept, CursorOK, InSweep

LEMMA StepAccounted ==
    ASSUME TypeInv, Alone, Accounted, NEW p \in Providers, Step(p)
    PROVE  Accounted'
<1> SUFFICES Swept(p)' /\ CursorOK(p)'
  BY OthersAccounted DEF Accounted
<1>a. TypeOK /\ Located(p) /\ Swept(p) /\ CursorOK(p)
  BY DEF TypeInv, InZoom, Accounted
<1>b. \A l \in PCs : GoTo(p, l) => pc'[p] = l
  BY <1>a, GoToType
<1>1. CASE Skip(p)
  BY <1>1, EndTurnAccounted DEF Skip, persistent
<1>2. CASE Begin(p)
  <2>1. pc'[p] = "zoom" /\ UNCHANGED <<cursor, failed, outcome>>
    BY <1>2, <1>b DEF Begin, persistent, PCs
  <2>2. DoneBelow(p, zoom[p], chunkStart[p])'
    <3>1. CASE cursor[p] = NoCursor
      <4>1. zoom'[p] = MinZoom /\ chunkStart'[p] = 0
        BY <1>2, <1>a, <3>1 DEF Begin, Origin, TypeOK, PositionType
      <4>2. \A t \in Tiles : ~Below(t, MinZoom, 0)
        BY TileParts, ScraperAssumption DEF Below, Zooms
      <4>3. QED
        BY <4>1, <4>2 DEF DoneBelow
    <3>2. CASE cursor[p] # NoCursor
      <4>1. /\ zoom'[p] = cursor[p].zoom /\ chunkStart'[p] = cursor[p].index
            /\ from'[p] = cursor[p]
        BY <1>2, <1>a, <3>2 DEF Begin, TypeOK, PositionType, HistoryType
      <4>2. QED
        BY <1>a, <2>1, <3>2, <4>1 DEF CursorOK, CoveredBelow, DoneBelow, Done, Covered, Cleared
    <3>3. QED BY <3>1, <3>2
  <2>3. CursorOK(p)'
    BY <1>a, <2>1, CursorKept
  <2>4. QED
    BY <2>1, <2>2, <2>3 DEF Swept, InSweep
<1>3. CASE NextZoom(p)
  <2>1. /\ pc[p] = "zoom" /\ UNCHANGED <<cursor, failed, outcome, errs, from, zoom, chunkStart>>
        /\ \/ pc'[p] = "finish"
           \/ pc'[p] = "retry" /\ queue' = [queue EXCEPT ![p] = FailedAt(p, zoom[p])]
    BY <1>3, <1>b DEF NextZoom, persistent, sweepState, history, PCs
  <2>2. CursorOK(p)'
    BY <1>a, <2>1, CursorKept
  <2>3. CASE pc'[p] = "finish"
    BY <2>2, <2>3 DEF Swept, InSweep
  <2>4. CASE pc'[p] = "retry"
    <3>1. queue'[p] = FailedAt(p, zoom[p])
      BY <1>a, <2>1, <2>4 DEF TypeOK, PositionType
    <3>2. DoneBelow(p, zoom[p], chunkStart[p])'
      BY <1>a, <2>1 DEF Swept, DoneBelow, Done, Covered, Cleared
    <3>3. QED
      BY <2>1, <2>2, <2>4, <3>1, <3>2 DEF Swept, FailedAt, InSweep
  <2>5. QED BY <2>1, <2>3, <2>4
<1>4. CASE StartSweep(p)
  <2>1. pc[p] = "retry" /\ UNCHANGED <<failed, outcome, errs, from, zoom, chunkStart>>
    BY <1>4 DEF StartSweep, position, sweepState, history
  <2>2. zoom[p] \in Zooms /\ Total[zoom[p]] \in Nat /\ chunkStart[p] \in Nat
    BY <1>a, <2>1, ScraperAssumption DEF Located, ZoomPCs, TypeOK, PositionType
  <2>3. DoneBelow(p, zoom[p], chunkStart[p])
    BY <1>a, <2>1 DEF Swept
  <2>4. CASE chunkStart[p] >= Total[zoom[p]]
    <3>1. pc'[p] = "zoomEnd" /\ cursor'[p] = [zoom |-> zoom[p] + 1, index |-> 0]
      BY <1>4, <1>a, <1>b, <2>2, <2>4 DEF StartSweep, TypeOK, StoreType, PCs
    <3>2. \A t \in Tiles : Below(t, zoom[p] + 1, 0) => Below(t, zoom[p], chunkStart[p])
      BY <2>2, <2>4, WholeZoom
    <3>3. DoneBelow(p, zoom[p] + 1, 0)'
      BY <2>1, <2>3, <3>2 DEF DoneBelow, Done, Covered, Cleared
    <3>4. QED
      BY <2>1, <3>1, <3>3 DEF Swept, CursorOK, CoveredBelow, DoneBelow, Done, InSweep
  <2>5. CASE chunkStart[p] < Total[zoom[p]]
    <3>1. /\ pc'[p] = "chunk" /\ UNCHANGED cursor
          /\ watermark'[p] = chunkStart[p] /\ doneAbove'[p] = {}
      BY <1>4, <1>a, <1>b, <2>2, <2>5 DEF StartSweep, TypeOK, ProgressType, PCs
    <3>2. CursorOK(p)'
      BY <1>a, <2>1, <3>1, CursorKept
    <3>3. QED
      BY <2>1, <2>2, <2>3, <2>5, <3>1, <3>2
         DEF Swept, DoneBelow, Done, Covered, Cleared, InSweep
  <2>6. QED BY <2>2, <2>4, <2>5
<1>5. CASE AwaitCooldown(p)
  <2>1. /\ pc[p] = "chunk" /\ pc'[p] = "waiting"
        /\ UNCHANGED <<cursor, failed, outcome, errs, from, zoom, chunkStart, watermark,
                       doneAbove>>
    BY <1>5, <1>b DEF AwaitCooldown, persistent, position, progress, sweepState,
       history, PCs
  <2>2. QED
    BY <1>a, <2>1, CursorKept DEF Swept, DoneBelow, Done, Covered, Cleared, InSweep
<1>6. CASE Dispatch(p)
  <2>1. /\ pc[p] \in {"chunk", "waiting"}
        /\ UNCHANGED <<cursor, failed, outcome, errs, from, zoom, chunkStart, watermark,
                       doneAbove>>
    BY <1>6 DEF Dispatch, persistent, position, progress, sweepState, history
  <2>2. /\ zoom[p] \in Zooms /\ Total[zoom[p]] \in Nat /\ chunkStart[p] \in Nat
        /\ watermark[p] \in Nat
    BY <1>a, <2>1, ScraperAssumption
       DEF Located, ZoomPCs, TypeOK, PositionType, ProgressType
  <2>3. /\ doneAbove[p] = {} /\ watermark[p] <= Total[zoom[p]]
        /\ \/ watermark[p] = chunkStart[p]
           \/ watermark[p] = Total[zoom[p]] /\ chunkStart[p] >= Total[zoom[p]]
        /\ DoneBelow(p, zoom[p], watermark[p])
    BY <1>a, <2>1 DEF Swept, InSweep
  <2>4. CASE chunkStart[p] < Total[zoom[p]]
    <3>1. pc'[p] = "spawned" /\ DOMAIN task'[p] = Chunk(zoom[p], chunkStart[p])
      BY <1>6, <1>a, <1>b, <2>2, <2>4 DEF Dispatch, TypeOK, TaskType, PCs
    <3>2. CursorOK(p)'
      BY <1>a, <2>1, <3>1, CursorKept
    <3>3. Draining(p)'
      BY <2>1, <2>2, <2>3, <2>4, <3>1, ScraperAssumption DEF Draining
    <3>4. QED
      BY <2>1, <2>3, <3>1, <3>2, <3>3 DEF Swept, DoneBelow, Done, Covered, Cleared, InSweep
  <2>5. CASE chunkStart[p] >= Total[zoom[p]]
    <3>1. pc'[p] = "close"
      BY <1>6, <1>b, <2>2, <2>5 DEF Dispatch, PCs
    <3>2. CursorOK(p)'
      BY <1>a, <2>1, <3>1, CursorKept
    <3>3. QED
      BY <2>1, <2>2, <2>3, <2>5, <3>1, <3>2 DEF Swept, DoneBelow, Done, Covered, Cleared, InSweep
  <2>6. QED BY <2>2, <2>4, <2>5
<1>7. CASE StartTasks(p)
  <2>1. /\ pc[p] = "spawned" /\ pc'[p] = "sweep"
        /\ UNCHANGED <<cursor, failed, outcome, errs, from, zoom, chunkStart,
                       watermark, doneAbove, handled>>
    BY <1>7, <1>b DEF StartTasks, persistent, position, progress, sweepState,
       history, PCs
  <2>2. DOMAIN task'[p] = DOMAIN task[p]
    BY <1>7, <1>a DEF StartTasks, TypeOK, TaskType
  <2>3. CursorOK(p)'
    BY <1>a, <2>1, CursorKept
  <2>4. Draining(p)'
    BY <1>a, <2>1, <2>2 DEF Swept, Draining, Done, Covered, Cleared
  <2>5. QED
    BY <1>a, <2>1, <2>3, <2>4 DEF Swept, DoneBelow, Done, Covered, Cleared, InSweep
<1>8. CASE AdvanceWatermark(p)
  <2> DEFINE z == zoom[p]
             C == Chunk(zoom[p], chunkStart[p])
             done == doneAbove[p] \union {handled[p]}
  <2>1. /\ pc[p] = "advance" /\ UNCHANGED <<failed, outcome, errs, from, zoom, verdict>>
        /\ z \in Zooms /\ Total[z] \in Nat /\ chunkStart[p] \in Nat
        /\ watermark[p] \in Nat /\ FanoutWindow \in Nat \ {0}
    BY <1>8, <1>a, ScraperAssumption DEF AdvanceWatermark, sweepState, history,
       Located, ZoomPCs, TypeOK, PositionType, ProgressType
  <2>2. PICK n \in watermark[p]..Total[z] :
          /\ AdvancedTo(p, n)
          /\ \/ /\ cursor' = [cursor EXCEPT ![p] = Checkpoint(p, n)]
                /\ flushed' = [flushed EXCEPT ![p] = n]
                /\ GoTo(p, "checkpoint")
                /\ UNCHANGED <<watermark, chunkStart, task>>
             \/ /\ watermark' = [watermark EXCEPT ![p] = n]
                /\ GoOn(p)
                /\ UNCHANGED <<cursor, flushed>>
    BY <1>8 DEF AdvanceWatermark
  <2> DEFINE above == {j \in done : j > n}
  <2>3. /\ n \in Nat /\ watermark[p] <= n /\ n <= Total[z]
        /\ n \notin done /\ \A j \in watermark[p]..(n - 1) : j \in done
        /\ doneAbove'[p] = above
    BY <1>a, <2>1, <2>2 DEF AdvancedTo, TypeOK, ProgressType
  <2>4. /\ DoneBelow(p, z, watermark[p]) /\ Draining(p)
        /\ handled[p] \in C /\ Done(p, <<z, handled[p]>>)
    BY <1>a, <2>1 DEF Swept, InSweep
  <2>5. \A j \in done : j \in C /\ Done(p, <<z, j>>)
    BY <2>4 DEF Draining
  <2>6. \A j \in C : j \in Nat /\ chunkStart[p] <= j /\ j < Total[z]
                     /\ j < chunkStart[p] + FanoutWindow
    BY <2>1 DEF Chunk
  <2>7. n <= chunkStart[p] + FanoutWindow
    <3>1. CASE n = watermark[p]
      BY <2>4, <3>1 DEF Draining
    <3>2. CASE n # watermark[p]
      <4>1. n - 1 \in watermark[p]..(n - 1)
        BY <2>1, <2>3, <3>2
      <4>2. n - 1 \in C
        BY <2>3, <2>5, <4>1
      <4>3. QED
        BY <2>1, <2>3, <2>6, <4>2
    <3>3. QED BY <3>1, <3>2
  <2>8. DoneBelow(p, z, n)
    <3> SUFFICES ASSUME NEW t \in Tiles, Below(t, z, n)
                 PROVE  Done(p, t)
      BY DEF DoneBelow
    <3>1. t[2] \in Nat /\ t = <<t[1], t[2]>>
      BY TileParts
    <3>2. CASE Below(t, z, watermark[p])
      BY <2>4, <3>2 DEF DoneBelow
    <3>3. CASE ~Below(t, z, watermark[p])
      <4>1. t[1] = z /\ t[2] < n /\ ~(t[2] < watermark[p])
        BY <3>3 DEF Below
      <4>2. t[2] \in watermark[p]..(n - 1)
        BY <2>1, <2>3, <3>1, <4>1
      <4>3. Done(p, <<z, t[2]>>)
        BY <2>3, <2>5, <4>2
      <4>4. QED
        BY <3>1, <4>1, <4>3
    <3>4. QED BY <3>2, <3>3
  <2>9. ChunkLeft(p, n, above)
    <3>1. \A i \in C : i < n \/ i \in above \/ i \in DOMAIN task[p]
      <4> SUFFICES ASSUME NEW i \in C, i \notin DOMAIN task[p], ~(i < n)
                   PROVE  i \in above
        OBVIOUS
      <4>1. i \in done
        BY <2>1, <2>3, <2>4, <2>6 DEF Draining
      <4>2. i > n
        BY <2>3, <2>6, <4>1
      <4>3. QED
        BY <4>1, <4>2
    <3>2. chunkStart[p] < Total[z] /\ chunkStart[p] <= n /\ DOMAIN task[p] \subseteq C
      BY <2>1, <2>3, <2>4 DEF Draining
    <3>3. \A j \in above : j \in C /\ j > n /\ Done(p, <<z, j>>)
      BY <2>5
    <3> HIDE DEF above
    <3>4. QED
      BY <2>3, <2>7, <2>8, <3>1, <3>2, <3>3 DEF ChunkLeft
  <2>10. chunkStart[p] <= watermark[p]
    BY <2>4 DEF Draining
  <2> HIDE DEF above, done
  <2>11. CASE GoOn(p) /\ watermark' = [watermark EXCEPT ![p] = n] /\ UNCHANGED cursor
    <3>1. watermark'[p] = n
      BY <1>a, <2>11 DEF TypeOK, ProgressType
    <3>2. pc'[p] \in {"close", "chunk", "sweep"}
      BY <1>b, <2>11 DEF GoOn, PCs
    <3>3. CursorOK(p)'
      BY <1>a, <2>1, <2>11, <3>2, CursorKept
    <3>4. QED
      BY <2>1, <2>3, <2>9, <2>11, <3>1, <3>3, GoOnSwept
  <2>12. CASE /\ cursor' = [cursor EXCEPT ![p] = Checkpoint(p, n)]
              /\ flushed' = [flushed EXCEPT ![p] = n]
              /\ GoTo(p, "checkpoint")
              /\ UNCHANGED <<watermark, chunkStart, task>>
    <3>1. pc'[p] = "checkpoint" /\ flushed'[p] = n
      BY <1>a, <1>b, <2>12 DEF PCs, TypeOK, ProgressType
    <3>2. cursor'[p] = [zoom |-> z, index |-> n]
      BY <1>a, <2>12 DEF TypeOK, StoreType, Checkpoint
    <3>3. CursorOK(p)'
      BY <2>1, <2>8, <3>1, <3>2 DEF CursorOK, CoveredBelow, DoneBelow, Done, Covered
    <3>4. ChunkLeft(p, flushed[p], doneAbove[p])'
      BY <2>1, <2>3, <2>9, <2>12, <3>1
         DEF ChunkLeft, DoneBelow, Done, Covered, Cleared
    <3>5. DoneBelow(p, zoom[p], watermark[p])' /\ watermark'[p] <= Total[zoom'[p]]
      BY <2>1, <2>3, <2>4, <2>12 DEF DoneBelow, Done, Covered, Cleared
    <3>6. QED
      BY <2>3, <2>10, <2>12, <3>1, <3>3, <3>4, <3>5 DEF Swept, InSweep
  <2>13. QED
    BY <2>2, <2>11, <2>12
<1>23. CASE Checkpointed(p)
  <2>1. /\ pc[p] = "checkpoint" /\ GoOn(p)
        /\ UNCHANGED <<cursor, failed, outcome, errs, from, zoom, verdict, doneAbove>>
        /\ watermark' = [watermark EXCEPT ![p] = flushed[p]]
    BY <1>23 DEF Checkpointed, persistent, sweepState, history
  <2>2. watermark'[p] = flushed[p] /\ flushed[p] \in Nat /\ zoom[p] \in Zooms
    BY <1>a, <2>1 DEF TypeOK, ProgressType, Located, ZoomPCs
  <2>3. ChunkLeft(p, flushed[p], doneAbove[p])
    BY <1>a, <2>1 DEF Swept
  <2>4. Swept(p)'
    BY <2>1, <2>2, <2>3, GoOnSwept
  <2>5. pc'[p] \in {"close", "chunk", "sweep"}
    BY <1>b, <2>1 DEF GoOn, PCs
  <2>6. QED
    BY <1>a, <2>1, <2>4, <2>5, CursorKept
<1>9. CASE CloseSweep(p)
  <2>1. /\ pc[p] = "close" /\ pc'[p] = "zoomEnd"
        /\ UNCHANGED <<failed, outcome, errs, from, zoom, watermark, verdict>>
        /\ cursor'[p] = CursorAfterSweep(p)
    BY <1>9, <1>a, <1>b DEF CloseSweep, position, progress, sweepState, history,
       PCs, TypeOK, StoreType
  <2>2. zoom[p] \in Zooms /\ Total[zoom[p]] \in Nat /\ watermark[p] \in Nat
    BY <1>a, <2>1, ScraperAssumption DEF Located, ZoomPCs, TypeOK, ProgressType
  <2>3. DoneBelow(p, zoom[p], watermark[p])
    BY <1>a, <2>1 DEF Swept
  <2>4. watermark[p] >= Total[zoom[p]] => DoneBelow(p, zoom[p] + 1, 0)
    BY <2>2, <2>3, WholeZoom DEF DoneBelow
  <2>5. CoveredBelow(p, CursorAfterSweep(p).zoom, CursorAfterSweep(p).index)
    BY <2>2, <2>3, SweepEndCovered DEF CoveredBelow, DoneBelow, Done
  <2>6. CursorOK(p)'
    BY <2>1, <2>5 DEF CursorOK, CoveredBelow, Covered
  <2>7. verdict'[p] = "running" => DoneBelow(p, zoom[p] + 1, 0)'
    BY <1>a, <2>1, <2>2, <2>4 DEF Swept, DoneBelow, Done, Covered, Cleared
  <2>8. QED
    BY <2>1, <2>6, <2>7 DEF Swept, InSweep
<1>10. CASE ZoomEnd(p)
  <2>1. pc[p] = "zoomEnd" /\ UNCHANGED <<cursor, failed, outcome, errs, from>>
    BY <1>10 DEF ZoomEnd, persistent, sweepState, history
  <2>2. CASE verdict[p] # "running"
    <3>1. pc'[p] = "finish"
      BY <1>10, <1>b, <2>2 DEF ZoomEnd, PCs
    <3>2. QED
      BY <1>a, <2>1, <3>1, CursorKept DEF Swept, InSweep
  <2>3. CASE verdict[p] = "running"
    <3>1. pc'[p] = "zoom" /\ zoom'[p] = zoom[p] + 1 /\ chunkStart'[p] = 0
      BY <1>10, <1>a, <1>b, <2>3 DEF ZoomEnd, PCs, TypeOK, PositionType
    <3>2. DoneBelow(p, zoom[p], chunkStart[p])'
      BY <1>a, <2>1, <2>3, <3>1 DEF Swept, DoneBelow, Done, Covered, Cleared
    <3>3. QED
      BY <1>a, <2>1, <3>1, <3>2, CursorKept DEF Swept, InSweep
  <2>4. QED BY <2>2, <2>3
<1>11. CASE OpenCircuit(p)
  BY <1>11, EndTurnAccounted DEF OpenCircuit
<1>12. CASE FinishAbandoned(p)
  BY <1>12, EndTurnAccounted DEF FinishAbandoned, persistent
<1>13. CASE FinishIncomplete(p)
  BY <1>13, EndTurnAccounted DEF FinishIncomplete
<1>14. CASE ClearCursor(p)
  <2>1. pc'[p] = "clearFailed" /\ cursor'[p] = NoCursor
    BY <1>14, <1>a, <1>b DEF ClearCursor, PCs, TypeOK, StoreType
  <2>2. QED
    BY <2>1 DEF Swept, CursorOK, InSweep
<1>15. CASE ClearFailed(p)
  <2>1. pc[p] = "clearFailed" /\ pc'[p] = "stamp" /\ UNCHANGED cursor
    BY <1>15, <1>b DEF ClearFailed, PCs
  <2>2. QED
    BY <1>a, <2>1 DEF Swept, CursorOK, InSweep
<1>16. CASE Stamp(p)
  <2>1. pc'[p] = "closeCircuit" /\ UNCHANGED <<cursor, failed, outcome>>
    BY <1>16, <1>b DEF Stamp, history, PCs
  <2>2. QED
    BY <1>a, <2>1, CursorKept DEF Swept, InSweep
<1>17. CASE CloseCircuit(p)
  BY <1>17, EndTurnAccounted DEF CloseCircuit
<1>18. CASE \E i \in queue[p] : RetryTile(p, i)
  <2>1. PICK i \in queue[p] : RetryTile(p, i)
    BY <1>18
  <2>2. /\ pc[p] = "retry" /\ pc'[p] = "retrying"
        /\ UNCHANGED <<cursor, failed, outcome, errs, from, zoom, queue, chunkStart>>
    BY <1>b, <2>1 DEF RetryTile, persistent, position, sweepState, history, PCs
  <2>3. DOMAIN task'[p] = {i}
    BY <1>a, <2>1 DEF RetryTile, TypeOK, TaskType
  <2>4. QED
    BY <1>a, <2>2, <2>3, CursorKept DEF Swept, DoneBelow, Done, Covered, Cleared, InSweep
<1>19. CASE \E i \in DOMAIN task[p] : RetryDone(p, i)
  <2>1. PICK i \in DOMAIN task[p] : RetryDone(p, i)
    BY <1>19
  <2>2. /\ pc[p] = "retrying" /\ pc'[p] \in {"retry", "finish"}
        /\ UNCHANGED <<cursor, zoom, chunkStart>>
        /\ queue'[p] = queue[p] \ {i}
    BY <1>a, <1>b, <2>1 DEF RetryDone, PCs, TypeOK, PositionType
  <2>3. <<zoom[p], i>> \in Tiles /\ <<zoom[p], i>> \in failed[p]
    BY <1>a, <2>1, <2>2 DEF Located, Swept
  <2>4. /\ task[p][i] = "ok" \/ <<zoom[p], i>> \in failed'[p]
        /\ \A t \in Tiles : t # <<zoom[p], i>> /\ t \in failed[p] => t \in failed'[p]
    BY <1>a, <2>1, <2>3 DEF RetryDone, TypeOK, StoreType
  <2>5. \A t \in Tiles : (Covered(p, t) => Covered(p, t)') /\ (Done(p, t) => Done(p, t)')
    BY <2>1, <2>3, <2>4, FoldInCovers DEF RetryDone, Passable
  <2>6. CursorOK(p)'
    BY <1>a, <2>2, <2>5 DEF CursorOK, CoveredBelow
  <2>7. DoneBelow(p, zoom[p], chunkStart[p])'
    BY <1>a, <2>2, <2>5 DEF Swept, DoneBelow
  <2>8. \A j \in queue'[p] : <<zoom'[p], j>> \in failed'[p]
    BY <1>a, <2>2, <2>4 DEF Swept, TypeOK, StoreType
  <2>9. QED
    BY <2>2, <2>6, <2>7, <2>8 DEF Swept, InSweep
<1>20. CASE \E i \in DOMAIN task[p] : HandleCompletion(p, i)
  <2>1. PICK i \in DOMAIN task[p] : HandleCompletion(p, i)
    BY <1>20
  <2>2. /\ pc[p] = "sweep" /\ pc'[p] = "advance"
        /\ UNCHANGED <<cursor, zoom, chunkStart, watermark, doneAbove>>
        /\ handled'[p] = i
    BY <1>a, <1>b, <2>1 DEF HandleCompletion, position, progress, PCs, TypeOK
  <2>3. <<zoom[p], i>> \in Tiles
    BY <1>a, <2>1, <2>2 DEF Located
  <2>4. /\ task[p][i] \in Passable \/ <<zoom[p], i>> \in failed'[p]
        /\ \A t \in Tiles : t # <<zoom[p], i>> /\ t \in failed[p] => t \in failed'[p]
    <3>1. Mode = "sequential" => task[p][i] # "skipped"
      BY <2>1, <2>2 DEF Alone, Admitted
    <3>2. QED
      BY <1>a, <2>1, <3>1 DEF HandleCompletion, Queued, Passable, TypeOK, StoreType
  <2>5. /\ \A t \in Tiles : Covered(p, t) => Covered(p, t)'
        /\ \A t \in Tiles : Done(p, t) \/ t = <<zoom[p], i>> => Done(p, t)'
        /\ DOMAIN task'[p] = DOMAIN task[p] \ {i}
    BY <2>1, <2>3, <2>4, FoldInCovers DEF HandleCompletion
  <2>6. CursorOK(p)'
    BY <1>a, <2>2, <2>5 DEF CursorOK, CoveredBelow
  <2>7. DoneBelow(p, zoom[p], watermark[p])' /\ Done(p, <<zoom[p], i>>)'
    BY <1>a, <2>2, <2>3, <2>5 DEF Swept, DoneBelow, InSweep
  <2>8. i \in Chunk(zoom[p], chunkStart[p])
    BY <1>a, <2>1, <2>2 DEF Swept, Draining
  <2>9. Draining(p)'
    <3>1. Draining(p)
      BY <1>a, <2>2 DEF Swept
    <3>2. \A j \in doneAbove[p] : Done(p, <<zoom[p], j>>)'
      <4> SUFFICES ASSUME NEW j \in doneAbove[p]
                   PROVE  Done(p, <<zoom[p], j>>)'
        OBVIOUS
      <4>1. <<zoom[p], j>> \in Tiles
        BY <1>a, <2>2, <3>1, ChunkTiles DEF Draining, Located, ZoomPCs, TypeOK, PositionType
      <4>2. QED
        BY <2>2, <2>5, <3>1, <4>1 DEF Draining
    <3>3. QED
      BY <2>2, <2>5, <3>1, <3>2 DEF Draining, Done, Covered, Cleared
  <2>10. QED
    BY <1>a, <2>2, <2>6, <2>7, <2>8, <2>9 DEF Swept, InSweep, Done, Covered, Cleared
<1>21. CASE \E i \in DOMAIN task[p] : \E o \in Outcomes : TileDone(p, i, o)
  <2>1. PICK i \in DOMAIN task[p], o \in Outcomes : TileDone(p, i, o)
    BY <1>21
  <2>2. /\ UNCHANGED <<cursor, failed, outcome, errs, from, pc, zoom, queue, chunkStart,
                       watermark, doneAbove, flushed, handled, verdict>>
        /\ DOMAIN task'[p] = DOMAIN task[p]
    BY <1>a, <2>1 DEF TileDone, persistent, position, progress, sweepState,
       history, TypeOK, TaskType
  <2>3. QED
    BY <1>a, <2>2 DEF Swept, CursorOK, Draining, ChunkLeft, CoveredBelow, DoneBelow, Done,
       Covered, Cleared
<1>22. QED
  BY <1>1, <1>2, <1>3, <1>4, <1>5, <1>6, <1>7, <1>8, <1>9, <1>10, <1>11, <1>12,
     <1>13, <1>14, <1>15, <1>16, <1>17, <1>18, <1>19, <1>20, <1>21, <1>23 DEF Step

\* Time and restarts leave the accounting alone: a crash drops the sweeps, and
\* stop() writes for each of them a cursor that the watermark has covered, or
\* leaves the checkpoint that landed last.
LEMMA NextAccounted == TypeInv /\ Alone /\ Accounted /\ [Next]_vars => Accounted'
<1> SUFFICES ASSUME TypeInv, Alone, Accounted, [Next]_vars PROVE Accounted'
  OBVIOUS
<1>a. TypeOK /\ InZoom
  BY DEF TypeInv
<1>1. CASE Wake
  <2>1. \A p \in Providers : pc'[p] \in {"gate", "off"}
    BY <1>1 DEF Wake
  <2>2. QED
    BY <1>1, <2>1 DEF Wake, persistent, history, Accounted, Swept, CursorOK,
       CoveredBelow, Covered, InSweep
<1>2. ASSUME UNCHANGED <<cursor, failed, pc, position, task, handled, progress,
                         sweepState, history>>
      PROVE  Accounted'
  BY <1>2 DEF position, progress, sweepState, history, Accounted, Swept,
     CursorOK, Draining, ChunkLeft, CoveredBelow, DoneBelow, Done, Covered, Cleared
<1>3. ASSUME NEW p \in Providers, ProviderCooldown(p) \/ IntervalElapses(p)
      PROVE  Accounted'
  BY <1>2, <1>3 DEF ProviderCooldown, IntervalElapses
<1>4. CASE CircuitCooldown
  BY <1>2, <1>4 DEF CircuitCooldown, persistent
<1>5. CASE UNCHANGED vars
  BY <1>2, <1>5 DEF vars, persistent
<1>6. ASSUME Restarted, NEW p \in Providers,
             \/ cursor'[p] = cursor[p]
             \/ CoveredBelow(p, cursor'[p].zoom, cursor'[p].index)
      PROVE  Swept(p)' /\ CursorOK(p)'
  <2>1. pc'[p] = "off" /\ UNCHANGED failed
    BY <1>6 DEF Restarted
  <2>2. cursor'[p] # NoCursor => outcome'[p] = outcome[p]
    BY <1>6 DEF Restarted, Drop
  <2>3. CursorOK(p)
    BY DEF Accounted
  <2>4. cursor'[p] # NoCursor => CoveredBelow(p, cursor'[p].zoom, cursor'[p].index)
    BY <1>6, <2>3 DEF CursorOK
  <2>5. QED
    BY <2>1, <2>2, <2>4 DEF Swept, CursorOK, CoveredBelow, Covered, InSweep
<1>7. CASE Crash
  BY <1>6, <1>7 DEF Crash, Accounted
<1>8. CASE Stop
  <2>1. ASSUME NEW p \in Providers
        PROVE  \/ cursor'[p] = cursor[p]
               \/ CoveredBelow(p, cursor'[p].zoom, cursor'[p].index)
    <3>1. CASE pc[p] \notin InSweep
      BY <1>8, <3>1 DEF Stop
    <3>2. CASE pc[p] \in InSweep
      <4>1. zoom[p] \in Zooms /\ watermark[p] \in Nat
        BY <1>a, <3>2 DEF InZoom, Located, InSweep, ZoomPCs, TypeOK, ProgressType
      <4>2. CoveredBelow(p, zoom[p], watermark[p])
        BY <3>2 DEF Accounted, Swept, CoveredBelow, DoneBelow, Done
      <4>3. cursor'[p] \in {CursorAfterSweep(p), cursor[p]}
        BY <1>8 DEF Stop
      <4>4. QED
        BY <4>1, <4>2, <4>3, SweepEndCovered
    <3>3. QED BY <3>1, <3>2
  <2>2. QED
    BY <1>6, <1>8, <2>1 DEF Stop, Accounted
<1>9. QED
  BY <1>1, <1>3, <1>4, <1>5, <1>7, <1>8, StepAccounted DEF Next

LEMMA AccountedHolds == Spec => [](TypeInv /\ Alone /\ Accounted)
<1>1. Init => TypeInv /\ Alone /\ Accounted
  BY InitType, InitAlone, InitAccounted
<1>2. TypeInv /\ Alone /\ Accounted /\ [Next]_vars => (TypeInv /\ Alone /\ Accounted)'
  BY NextType, NextAlone, NextAccounted
<1>3. QED
  BY <1>1, <1>2, PTL DEF Spec

\* For any number of providers, grouping, zooms, window and checkpoint period,
\* and any restarts: a tile that the persisted cursor has passed was stored,
\* is in the failed queue, or was skipped by the storage circuit
\* (_handle_completion, _advance_watermark, the finally block of
\* _run_indexed_sweep, _retry_failed_tiles).
THEOREM CursorCoverageHolds == Spec => []CursorCoverage
<1>1. TypeInv /\ Accounted => CursorCoverage
  BY DEF Accounted, CursorOK, CursorCoverage, CoveredBelow, Covered, Passable
<1>2. QED
  BY <1>1, AccountedHolds, PTL

\* Between two chunks of _run_indexed_sweep nothing is parked above the
\* watermark, which stands at the start of the next chunk or at the end of
\* the zoom.
THEOREM ChunkDrainedHolds == Spec => []ChunkDrained
<1>1. TypeInv /\ Accounted => ChunkDrained
  BY DEF Accounted, Swept, ChunkDrained
<1>2. QED
  BY <1>1, AccountedHolds, PTL

\* With one group (the default mode), every tile the persisted cursor has
\* passed was stored or waits in the failed queue: no other group can open the
\* storage circuit between _await_storage_cooldown and the first step of the
\* chunk's tasks, so the main sweep skips none.
THEOREM NeverSkipsAloneHolds == Spec => []NeverSkipsAlone
<1>1. TypeInv /\ Alone /\ Accounted => NeverSkipsAlone
  BY DEF Accounted, CursorOK, NeverSkipsAlone, CoveredBelow, Covered, Passable
<1>2. QED
  BY <1>1, AccountedHolds, PTL

-----------------------------------------------------------------------------
(***************************************************************************)
(* What the completion stamp means                                         *)
(***************************************************************************)

\* The zoom loop ran to its end only over tiles that are done, and the writes
\* that close a sweep are reached only without storage failures.
Closing(p) ==
    /\ pc[p] = "finish" /\ verdict[p] = "running" => \A t \in Tiles : Done(p, t)
    /\ pc[p] \in {"clearFailed", "stamp"} =>
          /\ ~errs[p]
          /\ \A t \in Tiles : outcome[p][t] # "untried" /\ Cleared(p, t)

AllClosing == \A p \in Providers : Closing(p)

LEMMA InitClosing == Init => AllClosing
BY DEF Init, AllClosing, Closing

LEMMA OthersClosing ==
    ASSUME TypeInv, AllClosing, NEW p \in Providers, NEW q \in Providers, q # p,
           Step(p)
    PROVE  Closing(q)'
<1>1. SameSweep(q) /\ Closing(q)
  BY OthersUntouched DEF AllClosing
<1>2. CASE pc'[q] = "gate"
  BY <1>2 DEF Closing
<1>3. CASE pc'[q] = pc[q]
  BY <1>1, <1>3 DEF SameSweep, Closing, Done, Covered, Cleared
<1>4. QED
  BY <1>1, <1>2, <1>3 DEF SameSweep

LEMMA StepClosing ==
    ASSUME TypeInv, Accounted, AllClosing, NEW p \in Providers, Step(p)
    PROVE  AllClosing'
<1> SUFFICES Closing(p)'
  BY OthersClosing DEF AllClosing
<1>a. TypeOK /\ Swept(p) /\ Closing(p)
  BY DEF TypeInv, Accounted, AllClosing
<1>b. \A l \in PCs : GoTo(p, l) => pc'[p] = l
  BY <1>a, GoToType
<1>1. CASE pc'[p] \notin {"finish", "clearFailed", "stamp"}
  BY <1>1 DEF Closing
<1>2. CASE NextZoom(p)
  <2>1. /\ pc[p] = "zoom" /\ UNCHANGED <<failed, outcome, errs, from>>
        /\ pc'[p] = "retry" \/ (pc'[p] = "finish" /\ zoom[p] > MaxZoom)
    BY <1>2, <1>b DEF NextZoom, persistent, sweepState, history, PCs
  <2>2. ASSUME zoom[p] > MaxZoom, NEW t \in Tiles
        PROVE  Done(p, t)
    <3>1. Below(t, zoom[p], chunkStart[p])
      BY <1>a, <2>2, TileParts, ScraperAssumption
         DEF Below, Zooms, TypeOK, PositionType
    <3>2. QED
      BY <1>a, <2>1, <3>1 DEF Swept, DoneBelow
  <2>3. QED
    BY <2>1, <2>2 DEF Closing, Done, Covered, Cleared
<1>3. CASE ZoomEnd(p)
  BY <1>3, <1>b DEF ZoomEnd, sweepState, Closing, PCs
<1>4. CASE \E i \in DOMAIN task[p] : RetryDone(p, i)
  <2>1. pc'[p] = IF verdict'[p] = "running" THEN "retry" ELSE "finish"
    BY <1>4, <1>b DEF RetryDone, PCs
  <2>2. QED
    BY <2>1 DEF Closing
<1>5. CASE ClearCursor(p)
  <2>1. /\ pc[p] = "finish" /\ verdict[p] = "running" /\ ~errs[p]
        /\ pc'[p] = "clearFailed" /\ UNCHANGED <<outcome, errs, from>>
    BY <1>5, <1>b DEF ClearCursor, sweepState, history, PCs
  <2>2. QED
    BY <1>a, <2>1 DEF Closing, Done, Covered, Cleared
<1>6. CASE ClearFailed(p)
  <2>1. /\ pc[p] = "clearFailed" /\ pc'[p] = "stamp"
        /\ UNCHANGED <<outcome, errs, from>>
    BY <1>6, <1>b DEF ClearFailed, sweepState, history, PCs
  <2>2. QED
    BY <1>a, <2>1 DEF Closing, Cleared
<1>7. CASE Stamp(p)
  BY <1>1, <1>7, <1>b DEF Stamp, PCs
<1>8. CASE \E i \in DOMAIN task[p] : \E o \in Outcomes : TileDone(p, i, o)
  <2>1. UNCHANGED <<failed, pc, verdict, outcome, errs, from>>
    BY <1>8 DEF TileDone, persistent, sweepState, history
  <2>2. QED
    BY <1>a, <2>1 DEF Closing, Done, Covered, Cleared
<1>9. CASE EndTurn(p)
  BY <1>1, <1>9 DEF EndTurn
<1>10. CASE \/ Skip(p) \/ OpenCircuit(p) \/ FinishAbandoned(p)
            \/ FinishIncomplete(p) \/ CloseCircuit(p)
  BY <1>9, <1>10 DEF Skip, OpenCircuit, FinishAbandoned, FinishIncomplete, CloseCircuit
<1>11. CASE Begin(p) \/ StartSweep(p) \/ AwaitCooldown(p) \/ Dispatch(p) \/ StartTasks(p)
  BY <1>1, <1>11, <1>b DEF Begin, StartSweep, AwaitCooldown, Dispatch, StartTasks, PCs
<1>12. CASE AdvanceWatermark(p) \/ Checkpointed(p) \/ CloseSweep(p)
  BY <1>1, <1>12, <1>b DEF AdvanceWatermark, Checkpointed, GoOn, CloseSweep, PCs
<1>13. CASE \E i \in queue[p] : RetryTile(p, i)
  BY <1>1, <1>13, <1>b DEF RetryTile, PCs
<1>14. CASE \E i \in DOMAIN task[p] : HandleCompletion(p, i)
  BY <1>1, <1>14, <1>b DEF HandleCompletion, PCs
<1>15. QED
  BY <1>2, <1>3, <1>4, <1>5, <1>6, <1>7, <1>8, <1>10, <1>11, <1>12, <1>13,
     <1>14 DEF Step

LEMMA NextClosing ==
    TypeInv /\ Accounted /\ AllClosing /\ [Next]_vars => AllClosing'
<1> SUFFICES ASSUME TypeInv, Accounted, AllClosing, [Next]_vars PROVE AllClosing'
  OBVIOUS
<1>1. CASE Wake \/ Crash \/ Stop
  <2>1. \A p \in Providers : pc'[p] \in {"off", "gate"}
    BY <1>1 DEF Wake, Crash, Stop, Restarted
  <2>2. QED
    BY <2>1 DEF AllClosing, Closing
<1>2. ASSUME UNCHANGED <<failed, pc, sweepState, history>>
      PROVE  AllClosing'
  BY <1>2 DEF sweepState, history, AllClosing, Closing, Done, Covered, Cleared
<1>3. ASSUME NEW p \in Providers, ProviderCooldown(p) \/ IntervalElapses(p)
      PROVE  AllClosing'
  BY <1>2, <1>3 DEF ProviderCooldown, IntervalElapses
<1>4. CASE CircuitCooldown
  BY <1>2, <1>4 DEF CircuitCooldown, persistent
<1>5. CASE UNCHANGED vars
  BY <1>2, <1>5 DEF vars, persistent
<1>6. QED
  BY <1>1, <1>3, <1>4, <1>5, StepClosing DEF Next

\* Whatever restarts, trips and outages came before: when _scrape_provider
\* stamps last_completed, every tile of the pyramid was tried in this logical
\* sweep and no tile from the position this pass resumed at has a storage
\* failure as its last outcome.
THEOREM StampHonestHolds == Spec => []StampHonest
<1>1. Init => AllClosing
  BY InitClosing
<1>2. (TypeInv /\ Alone /\ Accounted) /\ AllClosing /\ [Next]_vars => AllClosing'
  BY NextClosing
<1>3. AllClosing => StampHonest
  BY DEF AllClosing, Closing, StampHonest, Cleared
<1>4. QED
  BY <1>1, <1>2, <1>3, AccountedHolds, PTL DEF Spec

-----------------------------------------------------------------------------
(***************************************************************************)
(* What a cursor may lose                                                  *)
(***************************************************************************)

AtMost(c, z, i) == c.zoom < z \/ (c.zoom = z /\ c.index <= i)

\* The persisted cursor is never ahead of the sweep under way, but for a
\* checkpoint that has landed before the watermark is assigned.
Behind(p) ==
    /\ pc[p] \in {"zoom", "retry", "retrying"} =>
          AtMost(cursor[p], zoom[p], chunkStart[p])
    /\ pc[p] \in (InSweep \ {"checkpoint"}) \union {"close"} =>
          AtMost(cursor[p], zoom[p], watermark[p])
    /\ pc[p] = "checkpoint" => AtMost(cursor[p], zoom[p], flushed[p])
    /\ pc[p] = "zoomEnd" => AtMost(cursor[p], zoom[p] + 1, 0)

AllBehind == \A p \in Providers : cursor[p] # NoCursor => Behind(p)

\* What one step does to a cursor that is there before and after it.
Forward(p) ==
    cursor[p] # NoCursor /\ cursor'[p] # NoCursor =>
       AtMost(cursor[p], cursor'[p].zoom, cursor'[p].index)

\* What a stop() may do to one: it falls back into the chunk under way.
GivenBack(p) ==
    /\ cursor[p].zoom = cursor'[p].zoom
    /\ pc[p] = "checkpoint" /\ pc'[p] = "off"
    /\ chunkStart[p] <= cursor'[p].index
    /\ cursor[p].index <= chunkStart[p] + FanoutWindow

LEMMA InitBehind == Init => AllBehind
BY DEF Init, AllBehind

LEMMA PositionTypes ==
    ASSUME TypeInv, NEW p \in Providers
    PROVE  /\ zoom[p] \in Nat /\ chunkStart[p] \in Nat /\ watermark[p] \in Nat
           /\ cursor[p] # NoCursor => cursor[p].zoom \in Nat /\ cursor[p].index \in Nat
BY ScraperAssumption DEF TypeInv, TypeOK, PositionType, ProgressType, StoreType, Cursors

\* The finally block of _run_indexed_sweep writes no cursor that is behind one
\* the watermark has reached.
LEMMA SweepEndForward ==
    ASSUME TypeInv, NEW p \in Providers, cursor[p] # NoCursor,
           AtMost(cursor[p], zoom[p], watermark[p])
    PROVE  AtMost(cursor[p], CursorAfterSweep(p).zoom, CursorAfterSweep(p).index)
BY PositionTypes DEF AtMost, CursorAfterSweep

LEMMA OthersBehind ==
    ASSUME TypeInv, AllBehind, NEW p \in Providers, NEW q \in Providers, q # p,
           Step(p)
    PROVE  Forward(q) /\ (cursor'[q] # NoCursor => Behind(q)')
<1>1. SameSweep(q)
  BY OthersUntouched
<1>2. Forward(q)
  BY <1>1, PositionTypes DEF SameSweep, Forward, AtMost
<1>3. CASE pc'[q] = "gate"
  BY <1>2, <1>3 DEF Behind, InSweep
<1>4. CASE pc'[q] = pc[q]
  BY <1>1, <1>2, <1>4 DEF SameSweep, AllBehind, Behind, AtMost
<1>5. QED
  BY <1>1, <1>3, <1>4 DEF SameSweep

\* Every step of p leaves its cursor alone, or moves it up to the position of
\* the sweep; and the position never falls behind the cursor.
LEMMA StepBehind ==
    ASSUME TypeInv, AllBehind, NEW p \in Providers, Step(p)
    PROVE  Forward(p) /\ (cursor'[p] # NoCursor => Behind(p)')
<1>a. TypeOK /\ (cursor[p] # NoCursor => Behind(p))
  BY DEF TypeInv, AllBehind
<1>b. \A l \in PCs : GoTo(p, l) => pc'[p] = l
  BY <1>a, GoToType
<1>c. /\ zoom[p] \in Nat /\ chunkStart[p] \in Nat /\ watermark[p] \in Nat
      /\ cursor[p] # NoCursor => cursor[p].zoom \in Nat /\ cursor[p].index \in Nat
  BY PositionTypes
<1>d. UNCHANGED cursor => Forward(p)
  BY <1>c DEF Forward, AtMost
<1>1. CASE EndTurn(p) /\ (UNCHANGED cursor \/ cursor' = [cursor EXCEPT ![p] = NoCursor])
  <2>1. pc'[p] = "off"
    BY <1>1 DEF EndTurn
  <2>2. Forward(p)
    BY <1>1, <1>a, <1>d DEF Forward, TypeOK, StoreType
  <2>3. QED
    BY <2>1, <2>2 DEF Behind, InSweep
<1>2. CASE \/ Skip(p) \/ OpenCircuit(p) \/ FinishAbandoned(p)
           \/ FinishIncomplete(p) \/ CloseCircuit(p)
  BY <1>1, <1>2 DEF Skip, OpenCircuit, FinishAbandoned, FinishIncomplete,
     CloseCircuit, persistent
<1>3. CASE Begin(p)
  <2>1. pc'[p] = "zoom" /\ UNCHANGED cursor
    BY <1>3, <1>b DEF Begin, persistent, PCs
  <2>2. cursor[p] # NoCursor =>
           zoom'[p] = cursor[p].zoom /\ chunkStart'[p] = cursor[p].index
    BY <1>3, <1>a DEF Begin, TypeOK, PositionType
  <2>3. QED
    BY <1>c, <1>d, <2>1, <2>2 DEF Behind, AtMost, InSweep
<1>4. CASE NextZoom(p) \/ \E i \in queue[p] : RetryTile(p, i)
  <2>1. /\ UNCHANGED <<cursor, zoom, chunkStart>> /\ pc[p] \in {"zoom", "retry"}
        /\ pc'[p] \in {"retry", "retrying", "finish"}
    BY <1>4, <1>b DEF NextZoom, RetryTile, persistent, position, PCs
  <2>2. QED
    BY <1>a, <1>d, <2>1 DEF Behind, AtMost, InSweep
<1>5. CASE \E i \in DOMAIN task[p] : RetryDone(p, i)
  <2>1. /\ UNCHANGED <<cursor, zoom, chunkStart>> /\ pc[p] = "retrying"
        /\ pc'[p] \in {"retry", "finish"}
    BY <1>5, <1>b DEF RetryDone, PCs
  <2>2. QED
    BY <1>a, <1>d, <2>1 DEF Behind, AtMost, InSweep
<1>6. CASE StartSweep(p)
  <2>1. pc[p] = "retry" /\ UNCHANGED zoom
    BY <1>6 DEF StartSweep, position
  <2>2. CASE pc'[p] = "zoomEnd" /\ cursor'[p] = [zoom |-> zoom[p] + 1, index |-> 0]
    BY <1>a, <1>c, <2>1, <2>2 DEF Forward, Behind, AtMost, InSweep
  <2>3. CASE pc'[p] = "chunk" /\ UNCHANGED cursor /\ watermark'[p] = chunkStart[p]
    BY <1>a, <1>d, <2>1, <2>3 DEF Behind, AtMost, InSweep
  <2>4. QED
    BY <1>6, <1>a, <1>b, <2>2, <2>3 DEF StartSweep, TypeOK, StoreType, ProgressType, PCs
<1>7. CASE \/ AwaitCooldown(p) \/ Dispatch(p) \/ StartTasks(p)
           \/ \E i \in DOMAIN task[p] : HandleCompletion(p, i)
  <2>1. /\ UNCHANGED <<cursor, zoom, watermark>> /\ pc[p] \in InSweep \ {"checkpoint"}
        /\ pc'[p] \in {"waiting", "spawned", "close", "sweep", "advance"}
    BY <1>7, <1>b DEF AwaitCooldown, Dispatch, StartTasks, HandleCompletion,
       persistent, position, progress, InSweep, PCs
  <2>2. QED
    BY <1>a, <1>d, <2>1 DEF Behind, AtMost, InSweep
<1>8. CASE AdvanceWatermark(p)
  <2>1. pc[p] = "advance" /\ UNCHANGED zoom
    BY <1>8 DEF AdvanceWatermark
  <2>2. zoom[p] \in Zooms /\ Total[zoom[p]] \in Nat
    BY <2>1, ScraperAssumption DEF TypeInv, InZoom, Located, ZoomPCs
  <2>3. PICK n \in watermark[p]..Total[zoom[p]] :
          \/ /\ cursor' = [cursor EXCEPT ![p] = Checkpoint(p, n)]
             /\ flushed' = [flushed EXCEPT ![p] = n]
             /\ GoTo(p, "checkpoint")
          \/ /\ watermark' = [watermark EXCEPT ![p] = n]
             /\ GoOn(p)
             /\ UNCHANGED cursor
    BY <1>8 DEF AdvanceWatermark
  <2>4. n \in Nat /\ watermark[p] <= n
    BY <1>c, <2>2
  <2>5. CASE /\ cursor' = [cursor EXCEPT ![p] = Checkpoint(p, n)]
             /\ flushed' = [flushed EXCEPT ![p] = n]
             /\ GoTo(p, "checkpoint")
    <3>1. /\ pc'[p] = "checkpoint" /\ flushed'[p] = n
          /\ cursor'[p] = [zoom |-> zoom[p], index |-> n]
      BY <1>a, <1>b, <2>5 DEF Checkpoint, TypeOK, StoreType, ProgressType, PCs
    <3>2. QED
      BY <1>a, <1>c, <2>1, <2>4, <3>1 DEF Forward, Behind, AtMost, InSweep
  <2>6. CASE watermark' = [watermark EXCEPT ![p] = n] /\ GoOn(p) /\ UNCHANGED cursor
    <3>1. watermark'[p] = n /\ pc'[p] \in {"close", "chunk", "sweep"}
      BY <1>a, <1>b, <2>6 DEF GoOn, TypeOK, ProgressType, PCs
    <3>2. QED
      BY <1>a, <1>c, <1>d, <2>1, <2>4, <2>6, <3>1 DEF Behind, AtMost, InSweep
  <2>7. QED
    BY <2>3, <2>5, <2>6
<1>15. CASE Checkpointed(p)
  <2>1. /\ pc[p] = "checkpoint" /\ UNCHANGED <<cursor, zoom>>
        /\ watermark'[p] = flushed[p] /\ pc'[p] \in {"close", "chunk", "sweep"}
    BY <1>15, <1>a, <1>b
       DEF Checkpointed, GoOn, persistent, TypeOK, ProgressType, PCs
  <2>2. QED
    BY <1>a, <1>d, <2>1 DEF Behind, AtMost, InSweep
<1>9. CASE CloseSweep(p)
  <2>1. /\ pc[p] = "close" /\ pc'[p] = "zoomEnd" /\ UNCHANGED zoom
        /\ cursor'[p] = CursorAfterSweep(p)
    BY <1>9, <1>a, <1>b DEF CloseSweep, position, PCs, TypeOK, StoreType
  <2>2. Forward(p)
    BY <1>a, <2>1, SweepEndForward DEF Forward, Behind
  <2>3. AtMost(CursorAfterSweep(p), zoom[p] + 1, 0)
    BY <1>c DEF AtMost, CursorAfterSweep
  <2>4. QED
    BY <2>1, <2>2, <2>3 DEF Behind, AtMost, InSweep
<1>10. CASE ZoomEnd(p)
  <2>1. /\ pc[p] = "zoomEnd" /\ UNCHANGED cursor
        /\ \/ pc'[p] = "finish"
           \/ pc'[p] = "zoom" /\ zoom'[p] = zoom[p] + 1 /\ chunkStart'[p] = 0
    BY <1>10, <1>a, <1>b DEF ZoomEnd, persistent, PCs, TypeOK, PositionType
  <2>2. QED
    BY <1>a, <1>d, <2>1 DEF Behind, AtMost, InSweep
<1>11. CASE ClearCursor(p)
  BY <1>11, <1>a DEF ClearCursor, TypeOK, StoreType, Forward
<1>12. CASE ClearFailed(p) \/ Stamp(p)
  <2>1. UNCHANGED cursor /\ pc'[p] \in {"stamp", "closeCircuit"}
    BY <1>12, <1>b DEF ClearFailed, Stamp, PCs
  <2>2. QED
    BY <1>d, <2>1 DEF Behind, InSweep
<1>13. CASE \E i \in DOMAIN task[p] : \E o \in Outcomes : TileDone(p, i, o)
  <2>1. UNCHANGED <<cursor, pc, zoom, chunkStart, watermark, flushed>>
    BY <1>13 DEF TileDone, persistent, position, progress
  <2>2. QED
    BY <1>a, <1>d, <2>1 DEF Behind, AtMost
<1>14. QED
  BY <1>2, <1>3, <1>4, <1>5, <1>6, <1>7, <1>8, <1>9, <1>10, <1>11, <1>12, <1>13,
     <1>15 DEF Step

LEMMA NextBehind ==
    TypeInv /\ Accounted /\ AllBehind /\ [Next]_vars =>
       AllBehind' /\ \A p \in Providers : Forward(p) \/ GivenBack(p)
<1> SUFFICES ASSUME TypeInv, Accounted, AllBehind, [Next]_vars,
                    NEW q \in Providers
             PROVE  /\ Forward(q) \/ GivenBack(q)
                    /\ cursor'[q] # NoCursor => Behind(q)'
  BY DEF AllBehind
<1>a. UNCHANGED cursor => Forward(q)
  BY PositionTypes DEF Forward, AtMost
<1>b. pc'[q] \in {"off", "gate"} => Behind(q)'
  BY DEF Behind, InSweep
<1>1. CASE Wake
  BY <1>1, <1>a, <1>b DEF Wake, persistent
<1>2. ASSUME UNCHANGED <<cursor, pc, position, progress>>
      PROVE  Forward(q) /\ (cursor'[q] # NoCursor => Behind(q)')
  BY <1>2, <1>a DEF position, progress, AllBehind, Behind, AtMost
<1>3. CASE \E p \in Providers : ProviderCooldown(p) \/ IntervalElapses(p)
  BY <1>2, <1>3 DEF ProviderCooldown, IntervalElapses
<1>4. CASE CircuitCooldown
  BY <1>2, <1>4 DEF CircuitCooldown, persistent
<1>5. CASE UNCHANGED vars
  BY <1>2, <1>5 DEF vars, persistent
<1>6. CASE Crash
  BY <1>6, <1>a, <1>b DEF Crash, Restarted
<1>7. CASE Stop
  <2>1. pc'[q] = "off"
    BY <1>7 DEF Stop, Restarted
  <2>2. CASE cursor'[q] = cursor[q]
    BY <1>b, <2>1, <2>2, PositionTypes DEF Forward, AtMost
  <2>3. CASE cursor'[q] # cursor[q]
    <3>1. pc[q] \in InSweep /\ cursor'[q] = CursorAfterSweep(q)
      BY <1>7, <2>3 DEF Stop
    <3>2. CASE pc[q] # "checkpoint"
      <4>1. Forward(q)
        BY <3>1, <3>2, SweepEndForward DEF Forward, AllBehind, Behind
      <4>2. QED
        BY <1>b, <2>1, <4>1
    <3>3. CASE pc[q] = "checkpoint"
      <4>1. /\ chunkStart[q] <= watermark[q]
            /\ flushed[q] <= chunkStart[q] + FanoutWindow
        BY <3>3 DEF Accounted, Swept, ChunkLeft
      <4>2. cursor[q] # NoCursor => AtMost(cursor[q], zoom[q], flushed[q])
        BY <3>3 DEF AllBehind, Behind
      <4>3. /\ flushed[q] \in Nat /\ FanoutWindow \in Nat
            /\ zoom[q] \in Nat /\ chunkStart[q] \in Nat /\ watermark[q] \in Nat
            /\ cursor[q] # NoCursor => cursor[q].zoom \in Nat /\ cursor[q].index \in Nat
        BY PositionTypes, ScraperAssumption DEF TypeInv, TypeOK, ProgressType
      <4>4. CASE cursor[q] # NoCursor
        <5>1. \/ AtMost(cursor[q], CursorAfterSweep(q).zoom, CursorAfterSweep(q).index)
              \/ /\ cursor[q].zoom = CursorAfterSweep(q).zoom
                 /\ CursorAfterSweep(q).index = watermark[q]
                 /\ cursor[q].index <= flushed[q]
          BY <4>2, <4>3, <4>4 DEF AtMost, CursorAfterSweep
        <5>2. Forward(q) \/ GivenBack(q)
          BY <2>1, <3>1, <3>3, <4>1, <4>3, <4>4, <5>1 DEF Forward, GivenBack
        <5>3. QED
          BY <1>b, <2>1, <5>2
      <4>5. CASE cursor[q] = NoCursor
        BY <1>b, <2>1, <4>5 DEF Forward
      <4>6. QED BY <4>4, <4>5
    <3>4. QED BY <3>2, <3>3
  <2>4. QED BY <2>2, <2>3
<1>8. CASE \E p \in Providers : Step(p)
  BY <1>8, StepBehind, OthersBehind
<1>9. QED
  BY <1>1, <1>3, <1>4, <1>5, <1>6, <1>7, <1>8 DEF Next

\* A row of basemap_scrape_cursor that is rewritten moves forward, except that
\* a stop() between a checkpoint (set_cursor in _advance_watermark) and the
\* assignment of progress.watermark gives back tiles of the chunk under way,
\* at most a window of them and none of an earlier chunk or pass.
THEOREM ProgressKeptHolds == Spec => ProgressKept
<1>1. Init => AllBehind
  BY InitBehind
<1>2. (TypeInv /\ Alone /\ Accounted) /\ AllBehind /\ [Next]_vars => AllBehind'
  BY NextBehind
<1>3. TypeInv /\ Alone /\ Accounted /\ AllBehind /\ [Next]_vars =>
         [\A p \in Providers : cursor[p] # NoCursor /\ cursor'[p] # NoCursor =>
            \/ cursor[p].zoom < cursor'[p].zoom
            \/ /\ cursor[p].zoom = cursor'[p].zoom
               /\ \/ cursor[p].index <= cursor'[p].index
                  \/ /\ pc[p] = "checkpoint" /\ pc'[p] = "off"
                     /\ chunkStart[p] <= cursor'[p].index
                     /\ cursor[p].index <= chunkStart[p] + FanoutWindow]_vars
  BY NextBehind DEF Forward, GivenBack, AtMost
<1>4. QED
  BY <1>1, <1>2, <1>3, AccountedHolds, PTL DEF Spec, ProgressKept
=============================================================================
