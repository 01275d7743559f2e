----------------------------- MODULE Heartbeat -----------------------------
(***************************************************************************)
(* One worker's heartbeats and the orchestrator's opinion of it, in time:  *)
(* the sidecar re-announces its record every HEARTBEAT_INTERVAL            *)
(* (worker/sidecar/main.py, _heartbeat_loop), the orchestrator refreshes   *)
(* last_seen when one arrives, calls the worker stale when it has heard    *)
(* nothing for more than WORKER_STALE_TIMEOUT, and prunes stale workers    *)
(* every 30 seconds (orchestrator/app/discovery.py).                       *)
(*                                                                         *)
(* Time advances in unit steps, and not past a moment at which something   *)
(* is due.  The network delivers an announcement within MaxDelay or loses  *)
(* it, but never more than MaxLost in a row.                               *)
(***************************************************************************)
EXTENDS Integers, FiniteSets

CONSTANTS
    Interval,     \* HEARTBEAT_INTERVAL (60)
    Timeout,      \* WORKER_STALE_TIMEOUT (90)
    PrunePeriod,  \* the sleep of stale_prune_loop (30)
    MaxDelay,     \* bound on the delivery of an announcement
    MaxLost       \* bound on announcements lost in a row

ASSUME TimesAssumption ==
    /\ Interval \in Nat \ {0}
    /\ Timeout \in Nat
    /\ PrunePeriod \in Nat \ {0}
    /\ MaxDelay \in Nat
    /\ MaxLost \in Nat

VARIABLES
    worker,   \* "up", or "crashed" for good
    sendIn,   \* time until its next heartbeat
    lost,     \* announcements lost since the last one that got through
    flight,   \* latest arrival of each announcement under way, from now
    entry,    \* its entry in the registry: "listed" or "pruned"
    age,      \* time since last_seen, while listed
    pruneIn,  \* time until the prune loop wakes up
    dead      \* history: how long its entry has outlived the worker

vars == <<worker, sendIn, lost, flight, entry, age, pruneIn, dead>>

TypeOK ==
    /\ worker \in {"up", "crashed"}
    /\ sendIn \in 0..Interval
    /\ lost \in 0..MaxLost
    /\ flight \subseteq 0..MaxDelay
    /\ entry \in {"listed", "pruned"}
    /\ age \in Nat
    /\ pruneIn \in 0..PrunePeriod
    /\ dead \in Nat

\* The worker has just been registered, anywhere in the prune loop's period.
Init ==
    /\ worker = "up"
    /\ sendIn = Interval
    /\ lost = 0
    /\ flight = {}
    /\ entry = "listed"
    /\ age = 0
    /\ pruneIn \in 0..PrunePeriod
    /\ dead = 0

Up == worker = "up"

Due == Up /\ sendIn = 0

Listed == entry = "listed"

IsStale == age > Timeout

\* The heartbeat loop wakes up and announces; the announcement gets away.
Send ==
    /\ Due
    /\ sendIn' = Interval
    /\ lost' = 0
    /\ flight' = flight \cup {MaxDelay}
    /\ UNCHANGED <<worker, entry, age, pruneIn, dead>>

\* async_update_service raises, which is logged and forgotten, or the
\* announcement is lost.
SendFails ==
    /\ Due
    /\ lost < MaxLost
    /\ sendIn' = Interval
    /\ lost' = lost + 1
    /\ UNCHANGED <<worker, flight, entry, age, pruneIn, dead>>

\* update_service and touch(): an entry that is gone stays gone.
Deliver(d) ==
    /\ d \in flight
    /\ flight' = flight \ {d}
    /\ age' = 0
    /\ UNCHANGED <<worker, sendIn, lost, entry, pruneIn, dead>>

\* Mutant of PruneLoop: a worker that is merely about to be stale goes too.
PruneTooEarly ==
    /\ pruneIn = 0
    /\ pruneIn' = PrunePeriod
    /\ \/ Listed /\ age >= Timeout /\ entry' = "pruned" /\ age' = 0
       \/ ~(Listed /\ age >= Timeout) /\ UNCHANGED <<entry, age>>
    /\ UNCHANGED <<worker, sendIn, lost, flight, dead>>

\* Mutant of PruneLoop: the limit is off by one.
PruneLate ==
    /\ pruneIn = 0
    /\ pruneIn' = PrunePeriod
    /\ \/ Listed /\ age > Timeout + 1 /\ entry' = "pruned" /\ age' = 0
       \/ ~(Listed /\ age > Timeout + 1) /\ UNCHANGED <<entry, age>>
    /\ UNCHANGED <<worker, sendIn, lost, flight, dead>>

\* Mutant of PruneLoop: with nobody stale it goes round without its sleep, and
\* the event loop never gets to anything else.
PruneSpins ==
    /\ pruneIn = 0
    /\ \/ Listed /\ IsStale /\ pruneIn' = PrunePeriod /\ entry' = "pruned" /\ age' = 0
       \/ ~(Listed /\ IsStale) /\ UNCHANGED <<pruneIn, entry, age>>
    /\ UNCHANGED <<worker, sendIn, lost, flight, dead>>

\* One round of stale_prune_loop.
PruneLoop ==
    /\ pruneIn = 0
    /\ pruneIn' = PrunePeriod
    /\ \/ Listed /\ IsStale /\ entry' = "pruned" /\ age' = 0
       \/ ~(Listed /\ IsStale) /\ UNCHANGED <<entry, age>>
    /\ UNCHANGED <<worker, sendIn, lost, flight, dead>>

\* The sidecar dies without a goodbye that anyone hears.
Crash ==
    /\ Up
    /\ worker' = "crashed"
    /\ UNCHANGED <<sendIn, lost, flight, entry, age, pruneIn, dead>>

\* Time passes, if nothing is due now.
Tick ==
    /\ ~Due
    /\ pruneIn > 0
    /\ 0 \notin flight
    /\ sendIn' = IF Up THEN sendIn - 1 ELSE sendIn
    /\ pruneIn' = pruneIn - 1
    /\ flight' = {d \in 0..MaxDelay : d + 1 \in flight}
    /\ age' = IF Listed THEN age + 1 ELSE 0
    /\ dead' = IF Listed /\ ~Up THEN dead + 1 ELSE 0
    /\ UNCHANGED <<worker, lost, entry>>

Next ==
    \/ Send \/ SendFails
    \/ \E d \in flight : Deliver(d)
    \/ PruneLoop
    \/ Crash
    \/ Tick

Spec == Init /\ [][Next]_vars

\* Time does not stop, the loops wake up, and the network delivers in time.
FairSpec == Spec /\ WF_vars(Next)

-----------------------------------------------------------------------------
\* A worker that is up is never taken off the list, if the timeout covers the
\* longest silence the network can impose.
AliveStaysListed == Up => Listed

\* The timeout covers MaxLost lost announcements and a late one.
TimeoutSuffices == (MaxLost + 1) * Interval + MaxDelay <= Timeout

\* A worker that died is off the list in bounded time, whatever of its
\* announcements comes late, in whatever order, and wherever the prune loop is
\* in its period: with the defaults, two minutes and the network's delay.
DeadSoonUnlisted == ~Up /\ Listed => dead <= MaxDelay + Timeout + PrunePeriod

\* Why the living stay: some announcement under way, or one that must still be
\* sent, arrives before the timeout.
RefreshDue ==
    \/ \E d \in flight : age + d <= Timeout
    \/ age + sendIn + (MaxLost - lost) * Interval + MaxDelay <= Timeout

\* Why the silent go: the next round of the prune loop comes before the bound
\* is passed.
PruneDue == Listed => age + pruneIn <= Timeout + PrunePeriod

\* Why the dead go: what they had sent arrives within MaxDelay of their death,
\* and nothing has refreshed the entry since.
LastWords ==
    /\ Up => dead = 0
    /\ ~Up /\ Listed =>
          /\ \A d \in flight : dead + d <= MaxDelay
          /\ dead <= age + MaxDelay

\* The invariant of the heartbeats, which is inductive.
HeartbeatInv ==
    /\ TypeOK /\ PruneDue /\ LastWords
    /\ TimeoutSuffices /\ Up => Listed /\ RefreshDue

\* A worker that died is eventually off the list.
DeadIsUnlisted == ~Up ~> ~Listed

\* A dead worker's last announcements are used up one by one, between two of
\* them its entry only ages, and the prune loop wakes up once at an age.
Closer ==
    \/ Cardinality(flight') < Cardinality(flight)
    \/ Cardinality(flight') = Cardinality(flight) /\ age' > age
    \/ UNCHANGED <<flight, age>> /\ pruneIn' > pruneIn

\* Why: every step of a worker that died and is listed brings its end closer.
\* There are finitely many announcements, and age and pruneIn are bounded, so
\* that DeadIsUnlisted follows.
DeadRunsOut == [][~Up /\ Listed => ~Listed' \/ Closer]_vars
=============================================================================
