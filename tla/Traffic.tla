------------------------------- MODULE Traffic -------------------------------
(***************************************************************************)
(* Traffic accounting (services/traffic.ts): the 30-second collect() that  *)
(* asks each engine for its cumulative counters, turns them into deltas    *)
(* with a cursor per device and engine, and adds the deltas to five-minute *)
(* samples, which compact() rolls up into hours and days.                  *)
(*                                                                         *)
(* The await on an engine is the only point where other turns run: a       *)
(* counter is read by the engine at one moment and recorded at a later     *)
(* one.  Upload and download are accounted separately and in the same way, *)
(* so a flow, a device on an engine, has one counter here.                 *)
(***************************************************************************)
EXTENDS Naturals, Sequences, Functions

CONSTANTS
    Devices,       \* rows of the devices table
    Collectors,    \* the engines, in the order collect() asks them
    Polls,         \* collect() calls that may be under way at the same time
    FineLength, HourLength, DayLength,  \* lengths of the buckets, in ticks
    FineKept,      \* age at which a five-minute sample is due for the rollup
    HourKept,      \* ... and an hourly one
    CutAfter,      \* commits of compact() after which the process may die
    MaxTime,       \* bound: ticks of the clock
    MaxBytes,      \* bound: bytes a flow of an engine carries
    MaxRestarts,   \* bound: restarts of an engine
    MaxFaults      \* bound: failed polls and deaths of the control plane

ASSUME TrafficAssumption ==
    /\ Collectors \in Seq(STRING)
    /\ Len(Collectors) > 0
    /\ FineLength \in Nat \ {0}
    /\ HourLength \in Nat \ {0}
    /\ DayLength \in Nat \ {0}
    /\ DayLength % HourLength = 0
    /\ FineKept \in Nat
    /\ HourKept \in Nat
    /\ CutAfter \subseteq 1..3
    /\ MaxTime \in Nat
    /\ \A k \in DOMAIN Collectors : MaxBytes[Collectors[k]] \in Nat
    /\ MaxRestarts \in Nat
    /\ MaxFaults \in Nat

VARIABLES
    clock,     \* the time
    carried,   \* history: bytes a flow has carried, ever
    counter,   \* the engine's counter of a flow, lost when the engine restarts
    restarts,  \* restarts so far
    cursor,    \* traffic_cursors; 0 stands for a missing row too
    samples,   \* traffic_samples: bytes of a flow in a bucket; 0 for no row
    counted,   \* history: the deltas of a flow, added up
    poll,      \* the collect() calls
    faults     \* faults spent so far

engines == <<carried, counter, restarts>>
tables == <<cursor, samples, counted>>
vars == <<clock, carried, counter, restarts, cursor, samples, counted, poll, faults>>

Engines == {Collectors[k] : k \in DOMAIN Collectors}
Flow == Engines \X Devices
Time == 0..MaxTime
Bucket == {"5m", "1h", "1d"}

\* One call: when it started, the engine it is asking, and the answer if it has
\* come: the counters as they were when the engine looked at them.
Poll == [stage : {"idle", "asking", "answered"}, reference : Time,
         at : DOMAIN Collectors, answer : [Flow -> Nat]]

Nothing == [f \in Flow |-> 0]
NoPoll == [stage |-> "idle", reference |-> 0, at |-> 1, answer |-> Nothing]
Engine(p) == Collectors[poll[p].at]

TypeOK ==
    /\ clock \in Time
    /\ carried \in [Flow -> Nat]
    /\ counter \in [Flow -> Nat]
    /\ restarts \in 0..MaxRestarts
    /\ cursor \in [Flow -> Nat]
    /\ samples \in [Bucket -> [Time -> [Flow -> Nat]]]
    /\ counted \in [Flow -> Nat]
    /\ poll \in [Polls -> Poll]
    /\ faults \in 0..MaxFaults

Init ==
    /\ clock = 0
    /\ carried = Nothing
    /\ counter = Nothing
    /\ restarts = 0
    /\ cursor = Nothing
    /\ samples = [b \in Bucket |-> [t \in Time |-> Nothing]]
    /\ counted = Nothing
    /\ poll = [p \in Polls |-> NoPoll]
    /\ faults = 0

Fault ==
    /\ faults < MaxFaults
    /\ faults' = faults + 1

-----------------------------------------------------------------------------
(* The engines and the clock *)

Tick ==
    /\ clock < MaxTime
    /\ clock' = clock + 1
    /\ UNCHANGED <<engines, tables, poll, faults>>

Carry(f) ==
    /\ carried[f] < MaxBytes[f[1]]
    /\ carried' = [carried EXCEPT ![f] = @ + 1]
    /\ counter' = [counter EXCEPT ![f] = @ + 1]
    /\ UNCHANGED <<clock, restarts, tables, poll, faults>>

EngineRestarts(e) ==
    /\ restarts < MaxRestarts
    /\ restarts' = restarts + 1
    /\ counter' = [f \in Flow |-> IF f[1] = e THEN 0 ELSE counter[f]]
    /\ UNCHANGED <<clock, carried, tables, poll, faults>>

-----------------------------------------------------------------------------
(* compact(): samples that are old enough move to the next larger bucket *)

\* A definition named Bug_... is a deliberate fault: the definition after it with
\* a plausible bug, used by nothing.

\* floorDate(): the start of the bucket a moment is in.
Floor(t, length) == t - (t % length)

Due(t, kept, reference) == t + kept < reference

\* A rollup that files everything under the current bucket.
Bug_RollUpToReference(table, source, target, kept, length, reference) ==
    [table EXCEPT ![target] = [t \in Time |-> [f \in Flow |->
        table[target][t][f]
        + IF t # Floor(reference, length) THEN 0
          ELSE SumFunctionOnSet([u \in Time |-> table[source][u][f]],
                                {u \in Time : Due(u, kept, reference)})]]]

\* rollup(): add the due samples of one size to the bucket they belong to.
RollUp(table, source, target, kept, length, reference) ==
    [table EXCEPT ![target] = [t \in Time |-> [f \in Flow |->
        table[target][t][f]
        + SumFunctionOnSet([u \in Time |-> table[source][u][f]],
                           {u \in Time : /\ Due(u, kept, reference)
                                         /\ Floor(u, length) = t})]]]

Prune(table, source, kept, reference) ==
    [table EXCEPT ![source] = [t \in Time |->
        IF Due(t, kept, reference) THEN Nothing ELSE table[source][t]]]

\* Hourly samples deleted before they are rolled up.
Bug_PruneFirst(table, reference) ==
    LET hours == RollUp(table, "5m", "1h", FineKept, HourLength, reference)
        recent == Prune(hours, "1h", HourKept, reference)
        days == RollUp(recent, "1h", "1d", HourKept, DayLength, reference)
    IN  <<hours, recent, days, Prune(days, "5m", FineKept, reference)>>

\* The samples after each of the four statements compact() commits.
CompactCommits(table, reference) ==
    LET hours == RollUp(table, "5m", "1h", FineKept, HourLength, reference)
        days == RollUp(hours, "1h", "1d", HourKept, DayLength, reference)
        recent == Prune(days, "5m", FineKept, reference)
    IN  <<hours, days, recent, Prune(recent, "1h", HourKept, reference)>>

Compacted(table, reference) == CompactCommits(table, reference)[4]

-----------------------------------------------------------------------------
(* collect() *)

\* The cursor that is never consulted.
Bug_DeltaWithoutCursor(point, last) == point

\* A counter below its cursor has been reset: all of it is new.
Delta(point, last) == IF point >= last THEN point - last ELSE point

\* recordCumulative() for each of these flows, a transaction per flow: the
\* cursor and the five-minute sample of the time the poll started.
Recorded(p, flows) ==
    LET new == [f \in Flow |-> IF f \in flows THEN Delta(poll[p].answer[f], cursor[f]) ELSE 0]
        at == Floor(poll[p].reference, FineLength)
    IN  [cursor |-> [f \in Flow |-> IF f \in flows THEN poll[p].answer[f] ELSE cursor[f]],
         counted |-> [f \in Flow |-> counted[f] + new[f]],
         samples |-> [samples EXCEPT !["5m"][at] = [f \in Flow |-> @[f] + new[f]]]]

\* A poll that comes back to an engine when it has asked them all.
LastEngine(p) == poll[p].at = Len(Collectors)

\* The rest of the turn once an engine has been dealt with: ask the next one, or
\* compact and return.
Proceed(p, table) ==
    \/ /\ ~LastEngine(p)
       /\ poll' = [poll EXCEPT ![p] =
              [poll[p] EXCEPT !.stage = "asking", !.at = @ + 1, !.answer = Nothing]]
       /\ samples' = table
    \/ /\ LastEngine(p)
       /\ poll' = [poll EXCEPT ![p] = NoPoll]
       /\ samples' = Compacted(table, poll[p].reference)

\* The timer fires, whether or not an earlier call has returned.
Begin(p) ==
    /\ poll[p].stage = "idle"
    /\ poll' = [poll EXCEPT ![p] = [NoPoll EXCEPT !.stage = "asking", !.reference = clock]]
    /\ UNCHANGED <<clock, engines, tables, faults>>

\* The engine reads its counters; the answer is on its way.
Answer(p) ==
    /\ poll[p].stage = "asking"
    /\ poll' = [poll EXCEPT ![p].stage = "answered",
                            ![p].answer = [f \in Flow |->
                                IF f[1] = Engine(p) THEN counter[f] ELSE 0]]
    /\ UNCHANGED <<clock, engines, tables, faults>>

Asked(p) == {f \in Flow : f[1] = Engine(p)}

\* The flows in the answer: an engine may leave out those that have carried
\* nothing since it started.
Reports(p) == {flows \in SUBSET Asked(p) :
                  \A f \in Asked(p) : poll[p].answer[f] > 0 => f \in flows}

\* The answer reaches collect().
Deliver(p) ==
    /\ poll[p].stage = "answered"
    /\ \E flows \in Reports(p) :
          LET new == Recorded(p, flows) IN
          /\ cursor' = new.cursor
          /\ counted' = new.counted
          /\ Proceed(p, new.samples)
    /\ UNCHANGED <<clock, engines, faults>>

\* A poll that failed and forgets to go on.
Bug_FailForGood(p) ==
    /\ Fault
    /\ poll[p].stage = "asking"
    /\ poll' = [poll EXCEPT ![p].stage = "failed"]
    /\ UNCHANGED <<clock, engines, tables>>

\* collector.collect() throws: the loop goes on with the next engine.
Fail(p) ==
    /\ Fault
    /\ poll[p].stage = "asking"
    /\ Proceed(p, samples)
    /\ UNCHANGED <<clock, engines, cursor, counted>>

\* recordCumulative() without its transaction: the cursor is on disk, the sample
\* is not.
Bug_CrashBetweenWrites ==
    /\ Fault
    /\ poll' = [p \in Polls |-> NoPoll]
    /\ \E p \in Polls :
          /\ poll[p].stage = "answered"
          /\ cursor' = Recorded(p, Asked(p)).cursor
    /\ UNCHANGED <<clock, engines, samples, counted>>

\* The control plane dies in a turn that records an answer: the transactions
\* of some flows are on disk, or of all and some commits of compact() as well.
\* The tables survive, the calls do not.
Crash ==
    /\ Fault
    /\ poll' = [p \in Polls |-> NoPoll]
    /\ \/ UNCHANGED tables
       \/ \E p \in Polls :
             /\ poll[p].stage = "answered"
             /\ \E flows \in SUBSET Asked(p) :
                   LET new == Recorded(p, flows) IN
                   /\ cursor' = new.cursor
                   /\ counted' = new.counted
                   /\ \/ samples' = new.samples
                      \/ /\ flows \in Reports(p) /\ LastEngine(p)
                         /\ \E n \in CutAfter :
                               samples' = CompactCommits(new.samples, poll[p].reference)[n]
    /\ UNCHANGED <<clock, engines>>

-----------------------------------------------------------------------------

Next ==
    \/ Tick
    \/ \E f \in Flow : Carry(f)
    \/ \E e \in Engines : EngineRestarts(e)
    \/ \E p \in Polls : Begin(p) \/ Answer(p) \/ Deliver(p) \/ Fail(p)
    \/ Crash

\* The timer keeps firing and the engines keep answering.
Fairness ==
    \A p \in Polls : WF_vars(Begin(p)) /\ WF_vars(Answer(p)) /\ WF_vars(Deliver(p))

Spec == Init /\ [][Next]_vars
FairSpec == Spec /\ Fairness

-----------------------------------------------------------------------------
(* Properties *)

\* No byte is counted twice: the deltas of a flow never add up to more than it
\* has carried, through resets of the counter, failed polls and crashes.
CountedOnce == \A f \in Flow : counted[f] <= carried[f]

\* No byte is lost either while the engine keeps its counters: what is counted
\* is what the cursor has seen.
CountedExactly == restarts = 0 => \A f \in Flow : counted[f] = cursor[f]

\* What overview() adds up for the samples of a period.
Held(table, b, f, period) == SumFunctionOnSet([t \in Time |-> table[b][t][f]], period)
TotalOf(table, f, period) ==
    Held(table, "5m", f, period) + Held(table, "1h", f, period) + Held(table, "1d", f, period)
Total(f, period) == TotalOf(samples, f, period)

\* The samples hold each delta once, however often they have been rolled up:
\* the total of all time is the sum of the deltas.
TotalsKept == \A f \in Flow : Total(f, Time) = counted[f]

\* A day is the samples whose bucket starts in it.
Midnights == {t \in Time : Floor(t, DayLength) = t}
DayOf(t) == {u \in Time : Floor(u, DayLength) = t}

\* The rollup moves no traffic to another day: what a day has on its account it
\* keeps.
DaysKeepTheirTraffic ==
    [][\A t \in Midnights, f \in Flow : Total(f, DayOf(t))' >= Total(f, DayOf(t))]_vars

\* What an engine has counted is recorded in the end, unless the engine
\* restarts first: a failed poll or a crash only delays it.
TrafficIsRecorded ==
    \A f \in Flow : \A n \in 1..MaxBytes[f[1]] :
        (counter[f] = n /\ restarts = 0) ~> (cursor[f] >= n \/ restarts > 0)

=============================================================================
