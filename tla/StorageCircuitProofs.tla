------------------------ MODULE StorageCircuitProofs ------------------------
(***************************************************************************)
(* Proofs about StorageCircuit for every window, threshold and schedule.   *)
(***************************************************************************)
EXTENDS StorageCircuit, SequenceTheorems, WellFoundedInduction, NaturalsInduction, TLAPS

\* The rolling window stays a sequence of outcomes (_observe appends and
\* pops at most one).
LEMMA ObserveType ==
    ASSUME NEW w \in Seq(BOOLEAN), NEW b \in BOOLEAN
    PROVE  Observe(w, b) \in Seq(BOOLEAN)
<1> DEFINE a == Append(w, b)
<1>1. a \in Seq(BOOLEAN) /\ a # << >>
  BY AppendProperties
<1>2. Tail(a) \in Seq(BOOLEAN)
  BY <1>1, HeadTailProperties
<1>3. QED
  BY <1>1, <1>2 DEF Observe, Push

\* One doubling stays between the old cooldown's base and the cap.
LEMMA DoubledBounds ==
    ASSUME NEW c \in Nat, BaseCooldown <= c, c <= MaxCooldown
    PROVE  /\ Doubled(c) \in Nat
           /\ BaseCooldown <= Doubled(c)
           /\ Doubled(c) <= MaxCooldown
           /\ Doubled(c) <= 2 * c
BY CooldownAssumption DEF Doubled

Inductive == TypeOK /\ BackoffState /\ BackoffPaid

LEMMA InitInductive == Init => Inductive
BY CooldownAssumption
   DEF Init, Inductive, TypeOK, BackoffState, BackoffPaid, is_open

LEMMA NextInductive == Inductive /\ [Next]_vars => Inductive'
<1> SUFFICES ASSUME Inductive, [Next]_vars
             PROVE  Inductive'
  OBVIOUS
<1> USE CooldownAssumption DEF Inductive
<1>1. CASE Admit
  BY <1>1 DEF Admit, TypeOK, BackoffState, BackoffPaid, is_open, circuitVars
<1>2. CASE record_success
  <2>1. CASE is_open /\ in_probe_window
    BY <1>2, <2>1
       DEF record_success, Closing, TypeOK, BackoffState, BackoffPaid, is_open
  <2>2. CASE is_open /\ ~in_probe_window
    BY <1>2, <2>2
       DEF record_success, circuitVars, TypeOK, BackoffState, BackoffPaid, is_open
  <2>3. CASE ~is_open
    <3>1. Observing(FALSE) /\ inflight' = inflight - 1 /\ now' = now /\ inflight > 0
      BY <1>2, <2>3 DEF record_success
    <3>2. recent' \in Seq(BOOLEAN)
      BY <3>1, ObserveType DEF Observing, TypeOK
    <3>3. TypeOK'
      <4>1. /\ now \in Nat /\ openUntil \in Nat /\ cooldown \in Nat \ {0}
            /\ consecutiveTrips \in Nat /\ openedAt \in Nat
            /\ inflight - 1 \in Nat
        BY <3>1 DEF TypeOK
      <4>2. /\ now' = now /\ openUntil' = openUntil /\ cooldown' = cooldown
            /\ consecutiveTrips' = consecutiveTrips /\ openedAt' = openedAt
            /\ inflight' = inflight - 1
        BY <3>1 DEF Observing
      <4>3. QED BY <3>2, <4>1, <4>2, Zenon DEF TypeOK
    <3>4. ~is_open' /\ BackoffState' /\ BackoffPaid'
      BY <2>3, <3>1 DEF Observing, BackoffState, BackoffPaid, is_open
    <3>5. QED BY <3>3, <3>4
  <2>4. QED BY <2>1, <2>2, <2>3
<1>3. CASE record_failure
  <2>1. CASE is_open /\ in_probe_window
    <3>1. /\ Doubled(cooldown) \in Nat
          /\ BaseCooldown <= Doubled(cooldown)
          /\ Doubled(cooldown) <= MaxCooldown
          /\ Doubled(cooldown) <= 2 * cooldown
      BY <2>1, DoubledBounds DEF TypeOK, BackoffState
    <3>2. now >= openUntil
      BY <2>1 DEF in_probe_window
    <3>3. Rearming /\ inflight' = inflight - 1 /\ now' = now /\ inflight > 0
      BY <1>3, <2>1 DEF record_failure
    <3>4. TypeOK'
      BY <3>1, <3>3 DEF Rearming, TypeOK
    <3>5. BackoffState'
      BY <2>1, <3>1, <3>3 DEF Rearming, TypeOK, BackoffState, is_open
    <3>6. BackoffPaid'
      BY <2>1, <3>1, <3>2, <3>3 DEF Rearming, TypeOK, BackoffPaid, is_open
    <3>7. QED BY <3>4, <3>5, <3>6
  <2>2. CASE is_open /\ ~in_probe_window
    BY <1>3, <2>2
       DEF record_failure, circuitVars, TypeOK, BackoffState, BackoffPaid, is_open
  <2>3. CASE ~is_open /\ ShouldOpen(Observe(recent, TRUE))
    <3>1. Opening /\ inflight' = inflight - 1 /\ now' = now /\ inflight > 0
      BY <1>3, <2>3 DEF record_failure
    <3>2. QED
      BY <3>1 DEF Opening, TypeOK, BackoffState, BackoffPaid, is_open
  <2>4. CASE ~is_open /\ ~ShouldOpen(Observe(recent, TRUE))
    <3>1. Observing(TRUE) /\ inflight' = inflight - 1 /\ now' = now /\ inflight > 0
      BY <1>3, <2>4 DEF record_failure
    <3>2. recent' \in Seq(BOOLEAN)
      BY <3>1, ObserveType DEF Observing, TypeOK
    <3>3. TypeOK'
      <4>1. /\ now \in Nat /\ openUntil \in Nat /\ cooldown \in Nat \ {0}
            /\ consecutiveTrips \in Nat /\ openedAt \in Nat
            /\ inflight - 1 \in Nat
        BY <3>1 DEF TypeOK
      <4>2. /\ now' = now /\ openUntil' = openUntil /\ cooldown' = cooldown
            /\ consecutiveTrips' = consecutiveTrips /\ openedAt' = openedAt
            /\ inflight' = inflight - 1
        BY <3>1 DEF Observing
      <4>3. QED BY <3>2, <4>1, <4>2, Zenon DEF TypeOK
    <3>4. ~is_open' /\ BackoffState' /\ BackoffPaid'
      BY <2>4, <3>1 DEF Observing, BackoffState, BackoffPaid, is_open
    <3>5. QED BY <3>3, <3>4
  <2>5. QED BY <2>1, <2>2, <2>3, <2>4
<1>4. CASE Forget
  BY <1>4 DEF Forget, TypeOK, BackoffState, BackoffPaid, is_open, circuitVars
<1>5. CASE Tick
  BY <1>5 DEF Tick, TypeOK, BackoffState, BackoffPaid, is_open, circuitVars
<1>6. CASE UNCHANGED vars
  BY <1>6 DEF vars, TypeOK, BackoffState, BackoffPaid, is_open
<1>7. QED
  BY <1>1, <1>2, <1>3, <1>4, <1>5, <1>6 DEF Next

\* The fields of the breaker keep their types (__init__, _open, _rearm and
\* _close).
THEOREM TypeCorrect == Spec => []TypeOK
<1>1. Inductive => TypeOK
  BY DEF Inductive
<1>2. QED
  BY <1>1, InitInductive, NextInductive, PTL DEF Spec

\* Closed, nothing is left of the last outage; open, the cooldown is within
\* the schedule (_open, _rearm, _close).
THEOREM BackoffStateHolds == Spec => []BackoffState
<1>1. Inductive => BackoffState
  BY DEF Inductive
<1>2. QED
  BY <1>1, InitInductive, NextInductive, PTL DEF Spec

\* Concurrent and late reports never advance the schedule faster than the
\* pauses it announces (record_failure ignores stragglers).
THEOREM BackoffPaidHolds == Spec => []BackoffPaid
<1>1. Inductive => BackoffPaid
  BY DEF Inductive
<1>2. QED
  BY <1>1, InitInductive, NextInductive, PTL DEF Spec

-----------------------------------------------------------------------------
(* The schedule as recursive functions *)

\* A set of numbers has a least element: the form in which induction is used.
LEMMA LeastExists ==
    ASSUME NEW S \in SUBSET Nat, S # {}
    PROVE  \E m \in S : \A y \in S : m <= y
<1>1. IsWellFoundedOn(OpToRel(<, Nat), Nat)
  BY NatLessThanWellFounded
<1>2. PICK m \in S : \A y \in S : <<y, m>> \notin OpToRel(<, Nat)
  BY <1>1, WFMin
<1>3. \A y \in S : ~(y < m)
  BY <1>2 DEF OpToRel
<1>4. QED
  BY <1>3

\* f follows the recursion up to n.
Follows(f, n, first, step) ==
    f[0] = first /\ \A i \in 1..n : f[i] = step[i][f[i - 1]]

LEMMA PrefixExists ==
    ASSUME NEW first \in Nat, NEW step \in [Nat -> [Nat -> Nat]]
    PROVE  \A n \in Nat : \E f \in [Nat -> Nat] : Follows(f, n, first, step)
<1> DEFINE Ok(n) == \E f \in [Nat -> Nat] : Follows(f, n, first, step)
           Bad == {n \in Nat : ~Ok(n)}
<1> SUFFICES ASSUME Bad # {} PROVE FALSE
  OBVIOUS
<1>1. PICK n \in Bad : \A y \in Bad : n <= y
  BY LeastExists
<1>2. Ok(0)
  <2> DEFINE f == [i \in Nat |-> first]
  <2>1. f \in [Nat -> Nat] /\ f[0] = first
    OBVIOUS
  <2>2. Follows(f, 0, first, step)
    BY <2>1 DEF Follows
  <2>3. QED
    BY <2>1, <2>2
<1> HIDE DEF Ok
<1>3. n # 0 /\ n - 1 \in Nat /\ n \in Nat /\ ~(n <= n - 1)
  <2>1. n \in Nat /\ ~Ok(n)
    OBVIOUS
  <2>2. n # 0
    BY <1>2, <2>1
  <2>3. QED
    BY <2>1, <2>2
<1>4. Ok(n - 1)
  BY <1>1, <1>3
<1>5. PICK f \in [Nat -> Nat] : Follows(f, n - 1, first, step)
  BY <1>4 DEF Ok
<1> DEFINE g == [f EXCEPT ![n] = step[n][f[n - 1]]]
<1>6. g \in [Nat -> Nat] /\ g[n] = step[n][f[n - 1]] /\ \A i \in Nat : i # n => g[i] = f[i]
  <2>1. step[n][f[n - 1]] \in Nat
    BY <1>3
  <2>2. QED
    BY <1>3, <2>1
<1> HIDE DEF g
<1>7. g[0] = first
  BY <1>3, <1>5, <1>6 DEF Follows
<1>8. ASSUME NEW i \in 1..n
      PROVE  g[i] = step[i][g[i - 1]]
  <2>1. CASE i = n
    <3>1. n - 1 \in Nat /\ n - 1 # n
      BY <1>3
    <3>2. g[n - 1] = f[n - 1]
      BY <1>6, <3>1
    <3>3. QED
      BY <1>6, <2>1, <3>2
  <2>2. CASE i # n
    <3>1. i \in 1..(n - 1) /\ i - 1 \in Nat /\ i - 1 # n /\ i \in Nat
      BY <1>3, <2>2
    <3>2. f[i] = step[i][f[i - 1]]
      BY <1>5, <3>1 DEF Follows
    <3>3. g[i] = f[i] /\ g[i - 1] = f[i - 1]
      BY <1>6, <2>2, <3>1
    <3>4. QED
      BY <3>2, <3>3
  <2>3. QED
    BY <2>1, <2>2
<1>9. Ok(n)
  BY <1>6, <1>7, <1>8 DEF Follows, Ok
<1>10. QED
  BY <1>9

\* There is a function that follows it for ever.
LEMMA RecursionExists ==
    ASSUME NEW first \in Nat, NEW step \in [Nat -> [Nat -> Nat]]
    PROVE  \E f \in [Nat -> Nat] : \A n \in Nat :
              f[n] = IF n = 0 THEN first ELSE step[n][f[n - 1]]
<1>0. ASSUME NEW k \in Nat, NEW u \in [Nat -> Nat], NEW v \in [Nat -> Nat],
             Follows(u, k, first, step), Follows(v, k, first, step)
      PROVE  \A i \in 0..k : u[i] = v[i]
  <2> DEFINE Bad == {i \in 0..k : u[i] # v[i]}
  <2> SUFFICES ASSUME Bad # {} PROVE FALSE
    OBVIOUS
  <2>1. Bad \in SUBSET Nat
    OBVIOUS
  <2>2. PICK i \in Bad : \A y \in Bad : i <= y
    BY <2>1, LeastExists
  <2>3. i # 0
    BY <1>0 DEF Follows
  <2>4. i \in 1..k /\ i - 1 \in 0..k /\ ~(i <= i - 1)
    BY <2>3
  <2>5. u[i - 1] = v[i - 1]
    BY <2>2, <2>4
  <2>6. QED
    BY <1>0, <2>4, <2>5 DEF Follows
<1> DEFINE prefix == [n \in Nat |-> CHOOSE f \in [Nat -> Nat] : Follows(f, n, first, step)]
           h == [n \in Nat |-> prefix[n][n]]
<1>1. \A n \in Nat : prefix[n] \in [Nat -> Nat] /\ Follows(prefix[n], n, first, step)
  BY PrefixExists
<1> HIDE DEF prefix
<1>2. h \in [Nat -> Nat]
  BY <1>1
<1>3. h[0] = first
  BY <1>1 DEF Follows
<1>4. ASSUME NEW n \in Nat, n # 0
      PROVE  h[n] = step[n][h[n - 1]]
  <2>1. n - 1 \in Nat /\ n \in 1..n /\ n - 1 \in 0..(n - 1)
    BY <1>4
  <2>2. Follows(prefix[n], n - 1, first, step)
    <3>1. 1..(n - 1) \subseteq 1..n
      OBVIOUS
    <3>2. Follows(prefix[n], n, first, step)
      BY <1>1
    <3>3. QED
      BY <3>1, <3>2 DEF Follows
  <2>3. prefix[n][n - 1] = prefix[n - 1][n - 1]
    <3>1. Follows(prefix[n - 1], n - 1, first, step)
      BY <1>1, <2>1
    <3> DEFINE m == n - 1
               a == prefix[n]
               b == prefix[n - 1]
    <3>2. /\ m \in Nat /\ Follows(a, m, first, step) /\ Follows(b, m, first, step)
          /\ a \in [Nat -> Nat] /\ b \in [Nat -> Nat]
      BY <1>1, <2>1, <2>2, <3>1
    <3> HIDE DEF m, a, b
    <3>3. \A i \in 0..m : a[i] = b[i]
      BY <1>0, <3>2
    <3>4. m \in 0..m
      BY <3>2
    <3>5. a[m] = b[m]
      BY <3>3, <3>4
    <3>6. QED
      BY <3>5 DEF m, a, b
  <2>4. prefix[n][n] = step[n][prefix[n][n - 1]]
    BY <1>1, <2>1 DEF Follows
  <2>5. QED
    BY <2>1, <2>3, <2>4
<1>5. QED
  BY <1>2, <1>3, <1>4

\* Schedule is what its recursion says, and gives times.
LEMMA ScheduleValues ==
    /\ Schedule[0] = BaseCooldown
    /\ \A n \in Nat : Schedule[n + 1] = Doubled(Schedule[n])
    /\ \A n \in Nat : Schedule[n] \in Nat
<1> DEFINE step == [i \in Nat |-> [c \in Nat |-> Doubled(c)]]
<1>1. BaseCooldown \in Nat /\ step \in [Nat -> [Nat -> Nat]]
  BY CooldownAssumption DEF Doubled
<1>2. \A i, c \in Nat : step[i][c] = Doubled(c)
  OBVIOUS
<1> HIDE DEF step
<1>3. PICK f \in [Nat -> Nat] : \A n \in Nat : f[n] = IF n = 0 THEN BaseCooldown ELSE step[n][f[n - 1]]
  BY <1>1, RecursionExists
<1>4. f = [n \in Nat |-> IF n = 0 THEN BaseCooldown ELSE Doubled(f[n - 1])]
  <2>1. \A n \in Nat : n # 0 => n - 1 \in Nat
    OBVIOUS
  <2>2. \A n \in Nat : f[n] = IF n = 0 THEN BaseCooldown ELSE Doubled(f[n - 1])
    BY <1>2, <1>3, <2>1
  <2>3. QED
    BY <2>2
<1>5. Schedule = [n \in Nat |-> IF n = 0 THEN BaseCooldown ELSE Doubled(Schedule[n - 1])]
  BY <1>4 DEF Schedule
<1>6. \A n \in Nat : Schedule[n] = IF n = 0 THEN BaseCooldown ELSE Doubled(Schedule[n - 1])
  BY <1>5
<1>7. \A n \in Nat : Schedule[n + 1] = Doubled(Schedule[n])
  <2>1. \A n \in Nat : n + 1 \in Nat /\ n + 1 # 0 /\ (n + 1) - 1 = n
    OBVIOUS
  <2>2. QED
    BY <1>6, <2>1
<1>8. \A n \in Nat : Schedule[n] \in Nat
  <2> DEFINE Bad == {n \in Nat : Schedule[n] \notin Nat}
  <2> SUFFICES ASSUME Bad # {} PROVE FALSE
    OBVIOUS
  <2>1. PICK n \in Bad : \A y \in Bad : n <= y
    BY LeastExists
  <2>2. n # 0
    BY <1>1, <1>6
  <2>3. n - 1 \in Nat /\ ~(n <= n - 1)
    BY <2>2
  <2>4. Schedule[n - 1] \in Nat
    BY <2>1, <2>3
  <2>5. Schedule[n] \in Nat
    BY <1>6, <2>2, <2>4, CooldownAssumption DEF Doubled
  <2>6. QED
    BY <2>5
<1>9. QED
  BY <1>6, <1>7, <1>8

\* PauseSum is what its recursion says, and gives times.
LEMMA PauseSumValues ==
    /\ PauseSum[0] = 0
    /\ \A n \in Nat : PauseSum[n + 1] = PauseSum[n] + Schedule[n]
    /\ \A n \in Nat : PauseSum[n] \in Nat
<1> DEFINE step == [i \in Nat |-> [c \in Nat |-> IF i = 0 THEN c ELSE c + Schedule[i - 1]]]
<1>0. \A n \in Nat : n # 0 => n - 1 \in Nat
  OBVIOUS
<1>1. 0 \in Nat /\ step \in [Nat -> [Nat -> Nat]]
  BY <1>0, ScheduleValues
<1>2. \A i, c \in Nat : i # 0 => step[i][c] = c + Schedule[i - 1]
  OBVIOUS
<1> HIDE DEF step
<1>3. PICK f \in [Nat -> Nat] : \A n \in Nat : f[n] = IF n = 0 THEN 0 ELSE step[n][f[n - 1]]
  BY <1>1, RecursionExists
<1>4. f = [n \in Nat |-> IF n = 0 THEN 0 ELSE f[n - 1] + Schedule[n - 1]]
  <2>1. \A n \in Nat : f[n] = IF n = 0 THEN 0 ELSE f[n - 1] + Schedule[n - 1]
    BY <1>0, <1>2, <1>3
  <2>2. QED
    BY <2>1
<1>5. PauseSum = [n \in Nat |-> IF n = 0 THEN 0 ELSE PauseSum[n - 1] + Schedule[n - 1]]
  BY <1>4 DEF PauseSum
<1>6. \A n \in Nat : PauseSum[n] = IF n = 0 THEN 0 ELSE PauseSum[n - 1] + Schedule[n - 1]
  BY <1>5
<1>7. \A n \in Nat : PauseSum[n + 1] = PauseSum[n] + Schedule[n]
  <2>1. \A n \in Nat : n + 1 \in Nat /\ n + 1 # 0 /\ (n + 1) - 1 = n
    OBVIOUS
  <2>2. QED
    BY <1>6, <2>1
<1>8. \A n \in Nat : PauseSum[n] \in Nat
  <2> DEFINE Bad == {n \in Nat : PauseSum[n] \notin Nat}
  <2> SUFFICES ASSUME Bad # {} PROVE FALSE
    OBVIOUS
  <2>1. PICK n \in Bad : \A y \in Bad : n <= y
    BY LeastExists
  <2>2. n # 0
    BY <1>6
  <2>3. n - 1 \in Nat /\ ~(n <= n - 1)
    BY <2>2
  <2>4. PauseSum[n - 1] \in Nat /\ Schedule[n - 1] \in Nat
    BY <2>1, <2>3, ScheduleValues
  <2>5. PauseSum[n] \in Nat
    BY <1>6, <2>2, <2>4
  <2>6. QED
    BY <2>5
<1>9. QED
  BY <1>6, <1>7, <1>8

\* Longer prefixes of the schedule take longer.
LEMMA PauseSumGrows ==
    ASSUME NEW m \in Nat, NEW n \in Nat, m <= n
    PROVE  PauseSum[m] <= PauseSum[n]
<1> DEFINE Bad == {i \in Nat : m <= i /\ ~(PauseSum[m] <= PauseSum[i])}
<1> SUFFICES ASSUME Bad # {} PROVE FALSE
  OBVIOUS
<1>1. PICK i \in Bad : \A y \in Bad : i <= y
  BY LeastExists
<1>2. i \in Nat /\ m <= i /\ ~(PauseSum[m] <= PauseSum[i])
  OBVIOUS
<1>3. PauseSum[m] \in Nat /\ PauseSum[i] \in Nat
  BY <1>2, PauseSumValues
<1>4. i # m
  BY <1>2, <1>3
<1>5. i - 1 \in Nat /\ m <= i - 1 /\ ~(i <= i - 1) /\ (i - 1) + 1 = i
  BY <1>2, <1>4
<1>6. PauseSum[m] <= PauseSum[i - 1]
  BY <1>1, <1>5
<1>7. PauseSum[i] = PauseSum[i - 1] + Schedule[i - 1]
  BY <1>5, PauseSumValues
<1>8. PauseSum[i - 1] \in Nat /\ Schedule[i - 1] \in Nat
  BY <1>5, PauseSumValues, ScheduleValues
<1>9. QED
  BY <1>2, <1>3, <1>6, <1>7, <1>8

-----------------------------------------------------------------------------
(* Giving up only after the whole schedule *)

\* An open circuit is at the cooldown its trips have earned, has waited out
\* all the cooldowns before it, and its deadline lies behind this one too.
Waited ==
    is_open => /\ cooldown = Schedule[consecutiveTrips]
               /\ now - openedAt >= PauseSum[consecutiveTrips]
               /\ openUntil - openedAt >= PauseSum[consecutiveTrips + 1]

LEMMA NextWaited == Inductive /\ Waited /\ [Next]_vars => Waited'
<1> SUFFICES ASSUME Inductive, Waited, [Next]_vars
             PROVE  Waited'
  OBVIOUS
<1>0. TypeOK /\ BackoffState
  BY DEF Inductive
<1> DEFINE t == consecutiveTrips
<1>1. /\ t \in Nat /\ t + 1 \in Nat /\ (t + 1) + 1 \in Nat
      /\ Schedule[t + 1] = Doubled(Schedule[t])
      /\ PauseSum[(t + 1) + 1] = PauseSum[t + 1] + Schedule[t + 1]
      /\ PauseSum[t] \in Nat /\ PauseSum[t + 1] \in Nat
      /\ Schedule[t + 1] \in Nat
  <2>1. t \in Nat /\ t + 1 \in Nat /\ (t + 1) + 1 \in Nat
    BY <1>0 DEF TypeOK
  <2>2. QED
    BY <2>1, ScheduleValues, PauseSumValues
<1>2. CASE UNCHANGED circuitVars /\ now' \in Nat /\ now' >= now
  <2>1. is_open' = is_open
    BY <1>2 DEF circuitVars, is_open
  <2>2. CASE is_open
    <3>1. now' - openedAt >= PauseSum[t]
      BY <1>0, <1>1, <1>2, <2>2 DEF TypeOK, Waited
    <3>2. QED
      BY <1>2, <2>2, <3>1 DEF circuitVars, Waited
  <2>3. QED
    BY <2>1, <2>2 DEF Waited
<1>3. CASE openUntil' = 0
  BY <1>3 DEF Waited, is_open
<1>4. CASE Opening /\ now' = now
  <2>1. Schedule[0] = BaseCooldown /\ PauseSum[0] = 0 /\ PauseSum[0 + 1] = PauseSum[0] + Schedule[0]
    BY ScheduleValues, PauseSumValues
  <2>2. QED
    BY <1>0, <1>4, <2>1, CooldownAssumption DEF Opening, Waited, TypeOK
<1>5. CASE Rearming /\ in_probe_window /\ now' = now
  <2>1. /\ cooldown = Schedule[t] /\ openUntil - openedAt >= PauseSum[t + 1] /\ now >= openUntil
    BY <1>5 DEF Waited, in_probe_window
  <2>2. /\ consecutiveTrips' = t + 1 /\ cooldown' = Schedule[t + 1]
        /\ openUntil' = now + Schedule[t + 1] /\ openedAt' = openedAt
    BY <1>1, <1>5, <2>1 DEF Rearming
  <2>3. now - openedAt >= PauseSum[t + 1]
    BY <1>0, <1>1, <2>1 DEF TypeOK
  <2>4. openUntil' - openedAt >= PauseSum[(t + 1) + 1]
    BY <1>0, <1>1, <2>2, <2>3 DEF TypeOK
  <2>5. QED
    BY <1>5, <2>2, <2>3, <2>4 DEF Waited
<1>6. CASE ~is_open /\ openUntil' = openUntil
  BY <1>6 DEF Waited, is_open
<1>7. CASE Admit \/ Forget
  BY <1>0, <1>2, <1>7 DEF Admit, Forget, TypeOK
<1>8. CASE record_success
  <2>1. now' = now /\ now \in Nat
    BY <1>0, <1>8 DEF record_success, TypeOK
  <2>2. CASE is_open /\ in_probe_window
    BY <1>3, <1>8, <2>2 DEF record_success, Closing
  <2>3. CASE is_open /\ ~in_probe_window
    BY <1>2, <1>8, <2>1, <2>3 DEF record_success
  <2>4. CASE ~is_open
    BY <1>6, <1>8, <2>4 DEF record_success, Observing
  <2>5. QED
    BY <2>2, <2>3, <2>4
<1>9. CASE record_failure
  <2>1. now' = now /\ now \in Nat
    BY <1>0, <1>9 DEF record_failure, TypeOK
  <2>2. CASE is_open /\ in_probe_window
    BY <1>5, <1>9, <2>1, <2>2 DEF record_failure
  <2>3. CASE is_open /\ ~in_probe_window
    BY <1>2, <1>9, <2>1, <2>3 DEF record_failure
  <2>4. CASE ~is_open
    BY <1>4, <1>6, <1>9, <2>1, <2>4 DEF record_failure, Observing
  <2>5. QED
    BY <2>2, <2>3, <2>4
<1>10. CASE Tick
  BY <1>0, <1>2, <1>10 DEF Tick, TypeOK
<1>11. CASE UNCHANGED vars
  BY <1>0, <1>2, <1>11 DEF vars, circuitVars, TypeOK
<1>12. QED
  BY <1>7, <1>8, <1>9, <1>10, <1>11 DEF Next

\* exhausted() is only ever true once the whole schedule has been waited out,
\* whatever the number of writers that fail together in one probe window
\* (record_failure, _rearm, exhausted).
THEOREM ExhaustedAfterFullScheduleHolds == Spec => []ExhaustedAfterFullSchedule
<1>1. Init => Waited
  BY DEF Init, Waited, is_open
<1>2. Inductive /\ Waited => ExhaustedAfterFullSchedule
  <2> SUFFICES ASSUME Inductive, Waited, exhausted
               PROVE  now - openedAt >= PauseSum[MaxTrips]
    BY DEF ExhaustedAfterFullSchedule
  <2>1. TypeOK /\ BackoffState
    BY DEF Inductive
  <2>2. MaxTrips \in Nat /\ MaxTrips > 0 /\ consecutiveTrips \in Nat /\ MaxTrips <= consecutiveTrips
    BY <2>1, CircuitAssumption DEF TypeOK, exhausted
  <2>3. is_open
    BY <2>1, <2>2 DEF BackoffState
  <2>4. now - openedAt >= PauseSum[consecutiveTrips]
    BY <2>3 DEF Waited
  <2>5. PauseSum[MaxTrips] <= PauseSum[consecutiveTrips]
    BY <2>2, PauseSumGrows
  <2>6. PauseSum[MaxTrips] \in Nat /\ PauseSum[consecutiveTrips] \in Nat
    BY <2>2, PauseSumValues
  <2>7. QED
    BY <2>1, <2>4, <2>5, <2>6 DEF TypeOK
<1>3. QED
  BY <1>1, <1>2, InitInductive, NextInductive, NextWaited, PTL DEF Spec

-----------------------------------------------------------------------------
(* The breaker with its clock implements the gate *)

\* The gate is instantiated with the same rules.
LEMMA GateRules ==
    /\ Gate!NewCircuit = NewCircuit
    /\ \A c : Gate!AfterSuccess(c) = AfterSuccess(c)
    /\ \A c : Gate!AfterFailure(c) = AfterFailure(c)
    /\ \A c : Gate!AfterCooldown(c) = AfterCooldown(c)
<1>1. Gate!NewCircuit = NewCircuit /\ Gate!Opened = Opened
  BY DEF Gate!NewCircuit, NewCircuit, Gate!Opened, Opened
<1>2. \A r, b : Gate!Observe(r, b) = Observe(r, b)
  BY DEF Gate!Observe, Observe, Gate!Push, Push
<1>3. \A r : Gate!ShouldOpen(r) = ShouldOpen(r)
  <2>1. \A S : Gate!Cardinality(S) = Cardinality(S)
    BY Zenon DEF Gate!Cardinality, Cardinality
  <2>2. \A r : Gate!Failures(r) = Failures(r)
    BY <2>1 DEF Gate!Failures, Failures
  <2>3. QED
    BY <2>2 DEF Gate!ShouldOpen, ShouldOpen, Gate!TooManyFailures, TooManyFailures
<1>4. \A c : Gate!Rearmed(c) = Rearmed(c)
  BY DEF Gate!Rearmed, Rearmed
<1>5. \A c : Gate!AfterSuccess(c) = AfterSuccess(c)
  BY <1>1, <1>2 DEF Gate!AfterSuccess, AfterSuccess
<1>6. \A c : Gate!AfterFailure(c) = AfterFailure(c)
  BY <1>1, <1>2, <1>3, <1>4 DEF Gate!AfterFailure, AfterFailure
<1>7. \A c : Gate!AfterCooldown(c) = AfterCooldown(c)
  BY DEF Gate!AfterCooldown, AfterCooldown
<1>8. QED
  BY <1>1, <1>5, <1>6, <1>7

\* Every step of the breaker is a step of the gate, or changes nothing that a
\* caller of the gate can see.
LEMMA GateStep == Inductive /\ [Next]_vars => [Gate!GateNext]_AbstractGate
<1> SUFFICES ASSUME Inductive, [Next]_vars
             PROVE  Gate!GateNext \/ AbstractGate' = AbstractGate
  OBVIOUS
<1>0. TypeOK /\ BackoffState
  BY DEF Inductive
<1>1. CASE UNCHANGED <<now, circuitVars>>
  BY <1>1 DEF circuitVars, AbstractGate, is_open, in_probe_window
<1>2. CASE record_success
  <2>1. CASE is_open /\ in_probe_window
    <3>1. AbstractGate.mode = "probe"
      BY <2>1 DEF AbstractGate
    <3>2. AbstractGate' = NewCircuit
      BY <1>2, <2>1 DEF record_success, Closing, AbstractGate, is_open, NewCircuit
    <3>3. QED
      BY <3>1, <3>2, GateRules DEF Gate!GateNext, Gate!GateSuccess, AfterSuccess
  <2>2. CASE is_open /\ ~in_probe_window
    BY <1>1, <1>2, <2>2 DEF record_success
  <2>3. CASE ~is_open
    <3>1. AbstractGate = [mode |-> "closed", trips |-> consecutiveTrips, recent |-> recent]
      BY <2>3 DEF AbstractGate
    <3>2. AbstractGate' = [mode |-> "closed", trips |-> consecutiveTrips, recent |-> Observe(recent, FALSE)]
      BY <1>2, <2>3 DEF record_success, Observing, AbstractGate, is_open
    <3>3. AbstractGate' = AfterSuccess(AbstractGate)
      BY <3>1, <3>2 DEF AfterSuccess
    <3>4. QED
      BY <3>3, GateRules DEF Gate!GateNext, Gate!GateSuccess
  <2>4. QED
    BY <2>1, <2>2, <2>3
<1>3. CASE record_failure
  <2>1. CASE is_open /\ in_probe_window
    <3>1. AbstractGate = [mode |-> "probe", trips |-> consecutiveTrips, recent |-> recent]
      BY <2>1 DEF AbstractGate
    <3>2. Doubled(cooldown) \in Nat /\ Doubled(cooldown) > 0
      BY <1>0, <2>1, DoubledBounds, CooldownAssumption DEF TypeOK, BackoffState
    <3>3. /\ openUntil' = now + Doubled(cooldown) /\ now' = now
          /\ consecutiveTrips' = consecutiveTrips + 1 /\ recent' = recent
      BY <1>3, <2>1 DEF record_failure, Rearming
    <3>4. openUntil' > 0 /\ ~(now' >= openUntil')
      BY <1>0, <3>2, <3>3 DEF TypeOK
    <3>5. AbstractGate' = [mode |-> "cooling", trips |-> consecutiveTrips + 1, recent |-> recent]
      BY <3>3, <3>4 DEF AbstractGate, is_open, in_probe_window
    <3>6. AbstractGate' = AfterFailure(AbstractGate)
      BY <3>1, <3>5 DEF AfterFailure, Rearmed
    <3>7. QED
      BY <3>6, GateRules DEF Gate!GateNext, Gate!GateFailure
  <2>2. CASE is_open /\ ~in_probe_window
    BY <1>1, <1>3, <2>2 DEF record_failure
  <2>3. CASE ~is_open /\ ShouldOpen(Observe(recent, TRUE))
    <3>1. AbstractGate = [mode |-> "closed", trips |-> consecutiveTrips, recent |-> recent]
      BY <2>3 DEF AbstractGate
    <3>2. /\ openUntil' = now + BaseCooldown /\ now' = now
          /\ consecutiveTrips' = 0 /\ recent' = << >>
      BY <1>3, <2>3 DEF record_failure, Opening
    <3>3. openUntil' > 0 /\ ~(now' >= openUntil')
      BY <1>0, <3>2, CooldownAssumption DEF TypeOK
    <3>4. AbstractGate' = Opened
      BY <3>2, <3>3 DEF AbstractGate, is_open, in_probe_window, Opened
    <3>5. AbstractGate' = AfterFailure(AbstractGate)
      BY <2>3, <3>1, <3>4 DEF AfterFailure
    <3>6. QED
      BY <3>5, GateRules DEF Gate!GateNext, Gate!GateFailure
  <2>4. CASE ~is_open /\ ~ShouldOpen(Observe(recent, TRUE))
    <3>1. AbstractGate = [mode |-> "closed", trips |-> consecutiveTrips, recent |-> recent]
      BY <2>4 DEF AbstractGate
    <3>2. AbstractGate' = [mode |-> "closed", trips |-> consecutiveTrips, recent |-> Observe(recent, TRUE)]
      BY <1>3, <2>4 DEF record_failure, Observing, AbstractGate, is_open
    <3>3. AbstractGate' = AfterFailure(AbstractGate)
      BY <2>4, <3>1, <3>2 DEF AfterFailure
    <3>4. QED
      BY <3>3, GateRules DEF Gate!GateNext, Gate!GateFailure
  <2>5. QED
    BY <2>1, <2>2, <2>3, <2>4
<1>4. CASE Tick
  <2>1. /\ openUntil' = openUntil /\ consecutiveTrips' = consecutiveTrips
        /\ recent' = recent /\ now' = now + 1
    BY <1>4 DEF Tick, circuitVars
  <2>2. CASE is_open /\ ~in_probe_window /\ now' >= openUntil'
    <3>1. AbstractGate = [mode |-> "cooling", trips |-> consecutiveTrips, recent |-> recent]
      BY <2>2 DEF AbstractGate
    <3>2. AbstractGate' = [mode |-> "probe", trips |-> consecutiveTrips, recent |-> recent]
      BY <2>1, <2>2 DEF AbstractGate, is_open, in_probe_window
    <3>3. AbstractGate' = AfterCooldown(AbstractGate)
      BY <3>1, <3>2 DEF AfterCooldown
    <3>4. QED
      BY <3>3, GateRules DEF Gate!GateNext, Gate!GateCooldown
  <2>3. CASE ~is_open \/ in_probe_window \/ ~(now' >= openUntil')
    <3>1. is_open' = is_open
      BY <2>1 DEF is_open
    <3>2. is_open => in_probe_window' = in_probe_window
      BY <1>0, <2>1, <2>3 DEF in_probe_window, is_open, TypeOK
    <3>3. QED
      BY <2>1, <3>1, <3>2 DEF AbstractGate
  <2>4. QED
    BY <2>2, <2>3
<1>5. CASE Admit \/ Forget \/ UNCHANGED vars
  BY <1>1, <1>5 DEF Admit, Forget, vars, circuitVars
<1>6. QED
  BY <1>2, <1>3, <1>4, <1>5 DEF Next

\* StorageCircuit does what the gate promises its callers: stragglers are
\* ignored, a probe decides, and only the clock ends a cooldown (all of
\* storage_circuit.py).
THEOREM ImplementsGateHolds == Spec => ImplementsGate
<1>1. Init => Gate!GateInit
  BY GateRules DEF Init, Gate!GateInit, AbstractGate, is_open, NewCircuit
<1>2. QED
  BY <1>1, InitInductive, NextInductive, GateStep, PTL DEF Spec, ImplementsGate, Gate!GateSpec
=============================================================================
