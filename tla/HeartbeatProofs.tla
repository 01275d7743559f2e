-------------------------- MODULE HeartbeatProofs --------------------------
(***************************************************************************)
(* For all intervals, timeouts, periods, delays and losses: a live worker  *)
(* is never pruned if the timeout covers the longest silence the network   *)
(* can impose, and a dead one is off the list within the delay of its last *)
(* announcements, a timeout and one period of the prune loop.              *)
(***************************************************************************)
EXTENDS Heartbeat, FunctionTheorems, FiniteSetTheorems, TLAPS

USE TimesAssumption DEF Up, Listed, Due

\* Every variable keeps its type.
THEOREM TypeCorrect == Spec => []TypeOK
<1>1. Init => TypeOK
  BY DEF Init, TypeOK
<1>2. TypeOK /\ [Next]_vars => TypeOK'
  <2> SUFFICES ASSUME TypeOK, [Next]_vars
               PROVE  TypeOK'
    OBVIOUS
  <2> USE DEF TypeOK
  <2>1. CASE Send \/ SendFails \/ Crash
    <3>1. CASE Send
      BY <3>1 DEF Send
    <3>2. CASE SendFails
      BY <3>2 DEF SendFails
    <3>3. CASE Crash
      BY <3>3 DEF Crash
    <3> QED
      BY <2>1, <3>1, <3>2, <3>3
  <2>2. CASE \E d \in flight : Deliver(d)
    BY <2>2 DEF Deliver
  <2>3. CASE PruneLoop
    BY <2>3 DEF PruneLoop, IsStale
  <2>4. CASE Tick
    BY <2>4 DEF Tick
  <2>5. CASE UNCHANGED vars
    BY <2>5 DEF vars
  <2> QED
    BY <2>1, <2>2, <2>3, <2>4, <2>5 DEF Next
<1> QED
  BY <1>1, <1>2, PTL DEF Spec

\* The allowance for losses is used up one interval at a time.
LEMMA AllowanceStep ==
    ASSUME NEW l \in 0..MaxLost
    PROVE  /\ (MaxLost - l) * Interval \in Int
           /\ (MaxLost - 0) * Interval + Interval = (MaxLost + 1) * Interval
           /\ (MaxLost - l) * Interval <= MaxLost * Interval
           /\ l < MaxLost =>
                (MaxLost - (l + 1)) * Interval + Interval = (MaxLost - l) * Interval
           /\ 0 <= (MaxLost - l) * Interval
<1>1. \A a, b, c \in Int : (a - b) * c = a * c - b * c /\ (a + b) * c = a * c + b * c
  OBVIOUS
<1>2. \A a, b \in Nat : 0 <= a * b
  OBVIOUS
<1>3. MaxLost - l \in Nat
  OBVIOUS
<1>4. 0 <= (MaxLost - l) * Interval /\ 0 <= l * Interval
  BY <1>2, <1>3
<1> QED
  BY <1>1, <1>4

\* Before the timeout a live worker is heard of, whatever is lost and late.
LEMMA RefreshInvariant ==
    Spec => [](TimeoutSuffices /\ Up => Listed /\ RefreshDue)
<1> DEFINE Inv == Up => Listed /\ RefreshDue
<1>1. TimeoutSuffices /\ Init => Inv
  BY AllowanceStep DEF Init, AliveStaysListed, RefreshDue, TimeoutSuffices
<1>2. TimeoutSuffices /\ TypeOK /\ Inv /\ [Next]_vars => Inv'
  <2>a. [Next]_vars /\ Up' => Up
    BY DEF Next, Send, SendFails, Deliver, PruneLoop, Crash, Tick, vars
  <2> SUFFICES ASSUME TimeoutSuffices, TypeOK, Inv, [Next]_vars, Up', Up
               PROVE  Listed' /\ RefreshDue'
    BY <2>a DEF AliveStaysListed
  <2> USE DEF TypeOK
  <2>1. Listed /\ RefreshDue
    BY DEF AliveStaysListed
  <2> DEFINE allowance == (MaxLost - lost) * Interval
  <2>2. /\ allowance \in Nat
        /\ lost < MaxLost =>
             (MaxLost - (lost + 1)) * Interval = allowance - Interval
        /\ (MaxLost + 1) * Interval = MaxLost * Interval + Interval
        /\ allowance <= MaxLost * Interval
    BY AllowanceStep
  <2>3. CASE Send
    <3>1. age + MaxDelay <= Timeout \/ \E d \in flight : age + d <= Timeout
      BY <2>1, <2>2, <2>3 DEF Send, RefreshDue
    <3> QED
      BY <2>1, <2>3, <3>1 DEF Send, RefreshDue
  <2>4. CASE SendFails
    BY <2>1, <2>2, <2>4 DEF SendFails, RefreshDue
  <2>5. CASE \E d \in flight : Deliver(d)
    <3>1. 0 + sendIn + allowance + MaxDelay <= Timeout
      BY <2>2 DEF TimeoutSuffices
    <3> QED
      BY <2>1, <2>5, <3>1 DEF Deliver, RefreshDue
  <2>6. CASE PruneLoop
    <3>1. age <= Timeout
      BY <2>1, <2>2 DEF RefreshDue
    <3>2. ~IsStale
      BY <3>1 DEF IsStale
    <3> QED
      BY <2>1, <2>6, <3>2 DEF PruneLoop, RefreshDue
  <2>7. CASE Tick
    <3>1. ASSUME NEW d \in flight, age + d <= Timeout
          PROVE  d - 1 \in flight' /\ age' + (d - 1) <= Timeout
      BY <2>1, <2>7, <3>1 DEF Tick
    <3>2. ASSUME age + sendIn + allowance + MaxDelay <= Timeout
          PROVE  age' + sendIn' + allowance + MaxDelay <= Timeout
      BY <2>1, <2>2, <2>7, <3>2 DEF Tick, TimeoutSuffices
    <3> QED
      BY <2>1, <2>7, <3>1, <3>2 DEF Tick, RefreshDue, TimeoutSuffices
  <2>8. CASE UNCHANGED vars
    BY <2>1, <2>8 DEF vars, RefreshDue
  <2> QED
    BY <2>3, <2>4, <2>5, <2>6, <2>7, <2>8 DEF Next, Crash
<1>3. CASE TimeoutSuffices
  <2>1. Init => Inv
    BY <1>1, <1>3
  <2>2. TypeOK /\ Inv /\ [Next]_vars => Inv'
    BY <1>2, <1>3
  <2>3. Inv => (TimeoutSuffices /\ Up => Listed /\ RefreshDue)
    OBVIOUS
  <2> HIDE DEF Inv
  <2> QED
    BY <2>1, <2>2, <2>3, TypeCorrect, PTL DEF Spec
<1>4. CASE ~TimeoutSuffices
  <2>1. TimeoutSuffices /\ Up => Listed /\ RefreshDue
    BY <1>4
  <2> QED
    BY <2>1, PTL
<1> QED
  BY <1>3, <1>4

\* The prune loop comes round in time.
LEMMA PruneInvariant == Spec => []PruneDue
<1>1. Init => PruneDue
  BY DEF Init, PruneDue
<1>2. TypeOK /\ PruneDue /\ [Next]_vars => PruneDue'
  <2> SUFFICES ASSUME TypeOK, PruneDue, [Next]_vars
               PROVE  PruneDue'
    OBVIOUS
  <2> USE DEF TypeOK, PruneDue
  <2>1. CASE Send \/ SendFails \/ Crash \/ UNCHANGED vars
    BY <2>1 DEF Send, SendFails, Crash, vars
  <2>2. CASE \E d \in flight : Deliver(d)
    BY <2>2 DEF Deliver
  <2>3. CASE PruneLoop
    BY <2>3 DEF PruneLoop, IsStale
  <2>4. CASE Tick
    BY <2>4 DEF Tick
  <2> QED
    BY <2>1, <2>2, <2>3, <2>4 DEF Next
<1> QED
  BY <1>1, <1>2, TypeCorrect, PTL DEF Spec

\* What a worker sent before its death is over within the network's delay, and
\* its entry has aged since, but for that delay.
LEMMA LastWordsInvariant == Spec => []LastWords
<1>1. Init => LastWords
  BY DEF Init, LastWords
<1>2. TypeOK /\ LastWords /\ [Next]_vars => LastWords'
  <2> SUFFICES ASSUME TypeOK, LastWords, [Next]_vars
               PROVE  LastWords'
    OBVIOUS
  <2> USE DEF TypeOK, LastWords
  <2>1. CASE Send \/ SendFails \/ UNCHANGED vars
    BY <2>1 DEF Send, SendFails, vars
  <2>2. CASE Crash
    BY <2>2 DEF Crash
  <2>3. CASE \E d \in flight : Deliver(d)
    BY <2>3 DEF Deliver
  <2>4. CASE PruneLoop
    BY <2>4 DEF PruneLoop
  <2>5. CASE Tick
    BY <2>5 DEF Tick
  <2> QED
    BY <2>1, <2>2, <2>3, <2>4, <2>5 DEF Next
<1> QED
  BY <1>1, <1>2, TypeCorrect, PTL DEF Spec

\* The invariant of the heartbeats, for all intervals, timeouts, periods,
\* delays and losses.
THEOREM HeartbeatInvariant == Spec => []HeartbeatInv
BY TypeCorrect, RefreshInvariant, PruneInvariant, LastWordsInvariant, PTL
   DEF HeartbeatInv

\* A live worker stays on the list, if the timeout covers MaxLost lost
\* announcements and a late one (discovery.py, is_stale and prune_stale;
\* sidecar main.py, _heartbeat_loop).
THEOREM AliveIsListed == TimeoutSuffices => (Spec => []AliveStaysListed)
<1>1. ASSUME TimeoutSuffices
      PROVE  Spec => []AliveStaysListed
  <2>1. HeartbeatInv => AliveStaysListed
    BY <1>1 DEF HeartbeatInv, AliveStaysListed
  <2> QED
    BY <2>1, HeartbeatInvariant, PTL
<1> QED
  BY <1>1

\* A worker is listed for at most a timeout and one period after it was last
\* heard of (discovery.py, stale_prune_loop).
THEOREM SilenceIsBounded == Spec => [](Listed => age <= Timeout + PrunePeriod)
<1>1. HeartbeatInv => (Listed => age <= Timeout + PrunePeriod)
  BY DEF HeartbeatInv, TypeOK, PruneDue
<1> QED
  BY <1>1, HeartbeatInvariant, PTL

\* A dead worker is listed for at most the network's delay, a timeout and one
\* period after its death: a bound in time, where DeadIsUnlisted says only that
\* there is an end (discovery.py, touch, is_stale and stale_prune_loop).
THEOREM DeadIsSoonUnlisted == Spec => []DeadSoonUnlisted
<1>1. HeartbeatInv => DeadSoonUnlisted
  BY DEF HeartbeatInv, TypeOK, PruneDue, LastWords, DeadSoonUnlisted
<1> QED
  BY <1>1, HeartbeatInvariant, PTL

\* Time leaves the announcements under way as many as they are.
LEMMA ShiftKeepsCardinality ==
    ASSUME TypeOK, 0 \notin flight
    PROVE  LET later == {d \in 0..MaxDelay : d + 1 \in flight} IN
              Cardinality(later) = Cardinality(flight)
<1> DEFINE later == {d \in 0..MaxDelay : d + 1 \in flight}
           shift == [d \in flight |-> d - 1]
<1>1. flight \subseteq 1..MaxDelay
  BY DEF TypeOK
<1>2. IsFiniteSet(flight)
  <2>1. IsFiniteSet(1..MaxDelay)
    BY FS_Interval
  <2> QED
    BY <1>1, <2>1, FS_Subset
<1>3. shift \in [flight -> later]
  BY <1>1
<1>4. \A c, d \in flight : shift[c] = shift[d] => c = d
  BY <1>1
<1>5. \A e \in later : \E d \in flight : shift[d] = e
  <2> SUFFICES ASSUME NEW e \in later
               PROVE  \E d \in flight : shift[d] = e
    OBVIOUS
  <2>1. e + 1 \in flight /\ shift[e + 1] = e
    OBVIOUS
  <2> QED
    BY <2>1
<1>6. ExistsBijection(flight, later)
  <2>1. shift \in Bijection(flight, later)
    <3> HIDE DEF shift, later
    <3> QED
      BY <1>3, <1>4, <1>5, Fun_IsBij
  <2> HIDE DEF shift, later
  <2> QED
    BY <2>1, Fun_ExistsBij
<1> QED
  BY <1>2, <1>6, FS_Bijection

\* Every step brings a dead worker closer to the end of its entry, whatever is
\* still under way (discovery.py, stale_prune_loop and touch).
THEOREM DeadAlwaysRunsOut == Spec => DeadRunsOut
<1>1. TypeOK /\ [Next]_vars
        => [~Up /\ Listed => ~Listed' \/ Closer]_vars
  <2> SUFFICES ASSUME TypeOK, Next, ~Up, Listed, Listed'
               PROVE  Closer
    OBVIOUS
  <2> USE DEF TypeOK, Closer
  <2>1. CASE \E d \in flight : Deliver(d)
    <3>1. PICK d \in flight : Deliver(d)
      BY <2>1
    <3>2. IsFiniteSet(flight)
      <4>1. IsFiniteSet(0..MaxDelay)
        BY FS_Interval
      <4> QED
        BY <4>1, FS_Subset
    <3>3. Cardinality(flight') = Cardinality(flight) - 1
      BY <3>1, <3>2, FS_RemoveElement DEF Deliver
    <3>4. Cardinality(flight) \in Nat
      BY <3>2, FS_CardinalityType
    <3> QED
      BY <3>3, <3>4
  <2>2. CASE PruneLoop
    BY <2>2 DEF PruneLoop
  <2>3. CASE Tick
    BY <2>3, ShiftKeepsCardinality DEF Tick
  <2>4. ~Send /\ ~SendFails /\ ~Crash
    BY DEF Send, SendFails, Crash
  <2> QED
    BY <2>1, <2>2, <2>3, <2>4 DEF Next
<1> QED
  BY <1>1, TypeCorrect, PTL DEF Spec, DeadRunsOut
=============================================================================
