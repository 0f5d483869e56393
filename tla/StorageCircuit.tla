--------------------------- MODULE StorageCircuit ---------------------------
(***************************************************************************)
(* StorageCircuit of services/storage_circuit.py with its clock and its    *)
(* exponential backoff, driven by concurrent writers: a writer asks        *)
(* allows_write(), is away for a while, and then reports success, reports  *)
(* failure, or never reports (its tile was a 404 or the upstream was down).*)
(* Times are in whole seconds of the injected clock.                       *)
(***************************************************************************)
EXTENDS CircuitRules, Integers

CONSTANTS
    BaseCooldown,     \* first cooldown
    MaxCooldown,      \* cap of the doubling
    MaxInflight,      \* bound: writers between admission and report
    Horizon           \* bound: no outcome is reported whose cooldown could
                      \*   end after this time

ASSUME CooldownAssumption ==
    /\ BaseCooldown \in Nat \ {0}
    /\ MaxCooldown \in Nat
    /\ MaxCooldown >= BaseCooldown
    /\ MaxInflight \in Nat
    /\ Horizon \in Nat

VARIABLES
    now,                \* the clock
    recent,             \* _recent
    openUntil,          \* _open_until, 0 when closed
    cooldown,           \* _cooldown
    consecutiveTrips,   \* _consecutive_trips
    openedAt,           \* _opened_at
    inflight            \* writers admitted and not yet reported

circuitVars == <<recent, openUntil, cooldown, consecutiveTrips, openedAt>>

vars == <<now, recent, openUntil, cooldown, consecutiveTrips, openedAt, inflight>>

TypeOK ==
    /\ now \in Nat
    /\ recent \in Seq(BOOLEAN)
    /\ openUntil \in Nat
    /\ cooldown \in Nat \ {0}
    /\ consecutiveTrips \in Nat
    /\ openedAt \in Nat
    /\ inflight \in Nat

Init ==
    /\ now = 0
    /\ recent = << >>
    /\ openUntil = 0
    /\ cooldown = BaseCooldown
    /\ consecutiveTrips = 0
    /\ openedAt = 0
    /\ inflight = 0

is_open == openUntil > 0

\* Mutation: gives up one failed probe early.
exhausted_early == consecutiveTrips + 1 >= MaxTrips

exhausted == consecutiveTrips >= MaxTrips

in_probe_window == is_open /\ now >= openUntil

\* Mutation: no half-open probe.
allows_write_never_probes == ~is_open

allows_write == ~is_open \/ in_probe_window

Doubled(c) == IF 2 * c < MaxCooldown THEN 2 * c ELSE MaxCooldown

\* Mutation: the cooldown is zeroed instead of reset to the base.
Closing_zero_cooldown ==
    /\ recent' = << >>
    /\ openUntil' = 0
    /\ cooldown' = 0
    /\ consecutiveTrips' = 0
    /\ openedAt' = 0

\* Mutation: recovery forgets to reset the trip count.
Closing_keeps_trips ==
    /\ recent' = << >>
    /\ openUntil' = 0
    /\ cooldown' = BaseCooldown
    /\ openedAt' = 0
    /\ UNCHANGED consecutiveTrips

Closing ==
    /\ recent' = << >>
    /\ openUntil' = 0
    /\ cooldown' = BaseCooldown
    /\ consecutiveTrips' = 0
    /\ openedAt' = 0

Opening ==
    /\ recent' = << >>
    /\ cooldown' = BaseCooldown
    /\ openUntil' = now + BaseCooldown
    /\ openedAt' = now
    /\ consecutiveTrips' = 0

Rearming ==
    /\ consecutiveTrips' = consecutiveTrips + 1
    /\ cooldown' = Doubled(cooldown)
    /\ openUntil' = now + Doubled(cooldown)
    /\ UNCHANGED <<recent, openedAt>>

Observing(failed) ==
    /\ recent' = Observe(recent, failed)
    /\ UNCHANGED <<openUntil, cooldown, consecutiveTrips, openedAt>>

\* A writer passes the gate (allows_write() returned True).
Admit ==
    /\ allows_write
    /\ inflight < MaxInflight
    /\ inflight' = inflight + 1
    /\ UNCHANGED <<now, circuitVars>>

\* Mutation: a late success closes a circuit that is still cooling.
record_success_straggler_closes ==
    /\ inflight > 0
    /\ inflight' = inflight - 1
    /\ IF is_open THEN Closing ELSE Observing(FALSE)
    /\ UNCHANGED now

record_success ==
    /\ inflight > 0
    /\ inflight' = inflight - 1
    /\ IF is_open
       THEN IF in_probe_window THEN Closing ELSE UNCHANGED circuitVars
       ELSE Observing(FALSE)
    /\ UNCHANGED now

\* Mutation: every failure reported while open advances the backoff.
record_failure_straggler_rearms ==
    /\ inflight > 0
    /\ now + MaxCooldown <= Horizon
    /\ inflight' = inflight - 1
    /\ IF is_open
       THEN Rearming
       ELSE IF ShouldOpen(Observe(recent, TRUE)) THEN Opening ELSE Observing(TRUE)
    /\ UNCHANGED now

record_failure ==
    /\ inflight > 0
    /\ now + MaxCooldown <= Horizon
    /\ inflight' = inflight - 1
    /\ IF is_open
       THEN IF in_probe_window THEN Rearming ELSE UNCHANGED circuitVars
       ELSE IF ShouldOpen(Observe(recent, TRUE)) THEN Opening ELSE Observing(TRUE)
    /\ UNCHANGED now

\* A writer leaves without reporting an outcome.
Forget ==
    /\ inflight > 0
    /\ inflight' = inflight - 1
    /\ UNCHANGED <<now, circuitVars>>

Tick ==
    /\ now < Horizon
    /\ now' = now + 1
    /\ UNCHANGED <<circuitVars, inflight>>

Next == Admit \/ record_success \/ record_failure \/ Forget \/ Tick

Spec == Init /\ [][Next]_vars

\* Time passes; nothing obliges a writer to come or to report.
FairSpec == Spec /\ WF_vars(Tick)

-----------------------------------------------------------------------------
(***************************************************************************)
(* Properties                                                              *)
(***************************************************************************)

\* Closed, the breaker carries nothing over from an earlier outage; open,
\* its cooldown lies on the doubling schedule between the base and the cap.
\* (_open, _rearm and _close each reset a different subset of the fields.)
BackoffState ==
    /\ ~is_open => /\ cooldown = BaseCooldown
                   /\ consecutiveTrips = 0
                   /\ openedAt = 0
    /\ is_open  => /\ recent = << >>
                   /\ BaseCooldown <= cooldown
                   /\ cooldown <= MaxCooldown

\* However many writers share a probe window, or report late from before the
\* circuit opened, the schedule advances once per window that was really
\* waited for: the pauses up to the current deadline add up to at least the
\* doubling sequence base, 2*base, ..., cooldown.  ("the backoff schedule
\* still advances once per window rather than once per write")
BackoffPaid ==
    is_open => openUntil - openedAt >= 2 * cooldown - BaseCooldown

\* The n-th cooldown of the schedule, and the sum of the first n.
Schedule[n \in Nat] == IF n = 0 THEN BaseCooldown ELSE Doubled(Schedule[n - 1])

PauseSum[n \in Nat] == IF n = 0 THEN 0 ELSE PauseSum[n - 1] + Schedule[n - 1]

\* exhausted() tells the sweep to give up only after the whole schedule was
\* waited out ("After MAX_CONSECUTIVE_TRIPS failed probes (~61s of pausing)
\* the caller is told to stop waiting").
ExhaustedAfterFullSchedule ==
    exhausted => now - openedAt >= PauseSum[MaxTrips]

\* A tripped circuit cannot wedge shut: writers that were admitted and never
\* report do not keep the next probe from being admitted.
ProbeEventuallyAdmitted == is_open ~> allows_write

\* The breaker with its clock implements the abstract gate.
AbstractGate ==
    [mode |-> IF ~is_open THEN "closed"
              ELSE IF in_probe_window THEN "probe" ELSE "cooling",
     trips |-> consecutiveTrips,
     recent |-> recent]

Gate == INSTANCE CircuitGate WITH gate <- AbstractGate

ImplementsGate == Gate!GateSpec
=============================================================================
