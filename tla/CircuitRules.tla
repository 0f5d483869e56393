---------------------------- MODULE CircuitRules ----------------------------
(***************************************************************************)
(* The storage circuit breaker of services/storage_circuit.py, without its *)
(* clock: what a caller of the breaker can tell apart.  A circuit is a     *)
(* record with                                                             *)
(*   mode    "closed", "cooling" (open, cooldown running) or "probe"       *)
(*           (open, cooldown expired: writes are admitted again);          *)
(*   trips   the probes that failed since the circuit opened;              *)
(*   recent  the rolling window of outcomes seen while closed              *)
(*           (TRUE = failure).                                             *)
(* The operators say how a reported outcome, or the passing of time,       *)
(* changes the record.  StorageCircuit refines them with a clock;          *)
(* BasemapScraper drives one circuit shared by all its providers.          *)
(***************************************************************************)
EXTENDS OutcomeWindow

CONSTANTS
    Window,           \* outcomes remembered while closed
    MinSamples,       \* outcomes needed before the window is judged
    ThresholdNum,     \* failure rate that opens the circuit, as the
    ThresholdDen,     \*   fraction ThresholdNum / ThresholdDen
    MaxTrips          \* failed probes after which waiting is given up

ASSUME CircuitAssumption ==
    /\ Window \in Nat \ {0}
    /\ MinSamples \in Nat \ {0}
    /\ ThresholdNum \in Nat
    /\ ThresholdDen \in Nat \ {0}
    /\ MaxTrips \in Nat \ {0}

Circuits == [mode : {"closed", "cooling", "probe"},
             trips : Nat,
             recent : Seq(BOOLEAN)]

NewCircuit == [mode |-> "closed", trips |-> 0, recent |-> << >>]

IsOpen(c) == c.mode # "closed"

AllowsWrite(c) == c.mode \in {"closed", "probe"}

Exhausted(c) == c.trips >= MaxTrips

\* Fold one outcome into the rolling window.
Observe(recent, failed) == Push(recent, failed, Window)

ShouldOpen(recent) ==
    TooManyFailures(recent, MinSamples, ThresholdNum, ThresholdDen)

Opened == [mode |-> "cooling", trips |-> 0, recent |-> << >>]

Rearmed(c) == [mode |-> "cooling", trips |-> c.trips + 1, recent |-> c.recent]

\* A successful write: closes a probing circuit, is ignored while cooling
\* (a straggler) and is one more good outcome while closed.
AfterSuccess(c) ==
    CASE c.mode = "probe"   -> NewCircuit
      [] c.mode = "cooling" -> c
      [] OTHER              -> [c EXCEPT !.recent = Observe(c.recent, FALSE)]

\* A failed write: re-arms a probing circuit, is ignored while cooling, and
\* opens a closed one whose window now holds too many failures.
AfterFailure(c) ==
    LET w == Observe(c.recent, TRUE)
    IN  CASE c.mode = "probe"   -> Rearmed(c)
          [] c.mode = "cooling" -> c
          [] OTHER              -> IF ShouldOpen(w) THEN Opened
                                                    ELSE [c EXCEPT !.recent = w]

\* The cooldown of an open circuit expires.
AfterCooldown(c) == IF c.mode = "cooling" THEN [c EXCEPT !.mode = "probe"] ELSE c
=============================================================================
