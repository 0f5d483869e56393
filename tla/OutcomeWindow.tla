---------------------------- MODULE OutcomeWindow ----------------------------
(***************************************************************************)
(* The rolling window of outcomes that both breakers of the scraper judge: *)
(* the storage circuit (_observe, _should_open) and the provider breaker   *)
(* (_update_sweep_state).  A window is a sequence of booleans, TRUE for a  *)
(* failure, oldest first.                                                  *)
(***************************************************************************)
EXTENDS Naturals, Sequences, FiniteSets

\* Append one outcome; a window over its size forgets the oldest.
Push(window, failed, size) ==
    LET w == Append(window, failed)
    IN  IF Len(w) > size THEN Tail(w) ELSE w

Failures(window) == Cardinality({i \in DOMAIN window : window[i]})

\* Enough samples, and a failure rate above num / den.
TooManyFailures(window, minSamples, num, den) ==
    /\ Len(window) >= minSamples
    /\ Failures(window) * den > num * Len(window)
=============================================================================
