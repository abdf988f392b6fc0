---------------------------- MODULE TrafficProofs ----------------------------
(***************************************************************************)
(* Proofs about Traffic: with one collect() at a time no byte is counted   *)
(* twice, for any number of devices, engines, bytes, resets and failures.  *)
(* What the samples hold is what was counted, in all and day by day.       *)
(***************************************************************************)
EXTENDS Traffic, Sums, TLAPS

\* One collect() at a time.
OnePoll == \A p, q \in Polls : p = q

\* The types of the counters and the polls.
CountTypes ==
    /\ carried \in [Flow -> Nat]
    /\ counter \in [Flow -> Nat]
    /\ cursor \in [Flow -> Nat]
    /\ counted \in [Flow -> Nat]
    /\ poll \in [Polls -> Poll]

\* What would be counted now is no more than was carried ...
PresentCounts ==
    \A f \in Flow : counted[f] + Delta(counter[f], cursor[f]) <= carried[f]

\* ... and so is what an answer under way adds, with what is counted after it.
AnswerCounts ==
    \A p \in Polls, f \in Flow :
        poll[p].stage = "answered" /\ f[1] = Engine(p) =>
            counted[f] + Delta(poll[p].answer[f], cursor[f])
                       + Delta(counter[f], poll[p].answer[f]) <= carried[f]

IInv == CountTypes /\ PresentCounts /\ AnswerCounts

-----------------------------------------------------------------------------

\* A delta is a number.
LEMMA DeltaNat ==
    ASSUME NEW a \in Nat, NEW b \in Nat
    PROVE  Delta(a, b) \in Nat
BY DEF Delta

\* None is left of a reset, or of an answer just taken.
LEMMA DeltaSteps ==
    ASSUME NEW a \in Nat, NEW b \in Nat
    PROVE  /\ Delta(0, b) = 0
           /\ Delta(a, a) = 0
BY DEF Delta

\* The poll that has not started, and one that goes on, are polls.
LEMMA PollTypes ==
    /\ Nothing \in [Flow -> Nat]
    /\ NoPoll \in Poll
    /\ \A p \in Polls : CountTypes => poll[p] \in Poll
<1>1. Nothing \in [Flow -> Nat]
  BY DEF Nothing
<1>2. 0 \in Time /\ 1 \in DOMAIN Collectors
  BY TrafficAssumption DEF Time
<1>. QED BY <1>1, <1>2 DEF NoPoll, Poll, CountTypes

\* The rest of a turn leaves the poll asking or idle.
LEMMA ProceedPolls ==
    ASSUME CountTypes, NEW p \in Polls, NEW table, Proceed(p, table)
    PROVE  /\ poll' \in [Polls -> Poll]
           /\ poll'[p].stage # "answered"
           /\ \A q \in Polls \ {p} : poll'[q] = poll[q]
<1>1. poll[p] \in Poll /\ NoPoll \in Poll /\ Nothing \in [Flow -> Nat]
  BY PollTypes
<1>2. CASE LastEngine(p)
  <2>1. poll' = [poll EXCEPT ![p] = NoPoll]
    BY <1>2 DEF Proceed
  <2>. QED BY <1>1, <2>1 DEF CountTypes, NoPoll
<1>3. CASE ~LastEngine(p)
  <2> DEFINE new == [poll[p] EXCEPT !.stage = "asking", !.at = @ + 1, !.answer = Nothing]
  <2>1. poll' = [poll EXCEPT ![p] = new]
    BY <1>3 DEF Proceed
  <2>2. poll[p].at + 1 \in DOMAIN Collectors
    BY <1>1, <1>3, TrafficAssumption DEF LastEngine, Poll
  <2>3. new \in Poll /\ new.stage = "asking"
    BY <1>1, <2>2 DEF Poll
  <2>. HIDE DEF new
  <2>. QED BY <2>1, <2>3 DEF CountTypes
<1>. QED BY <1>2, <1>3

\* Recording flows of an answer counts what the invariant says it may.
LEMMA RecordedCounts ==
    ASSUME IInv, NEW p \in Polls, poll[p].stage = "answered",
           NEW flows \in SUBSET Asked(p),
           cursor' = Recorded(p, flows).cursor,
           counted' = Recorded(p, flows).counted,
           UNCHANGED <<carried, counter>>
    PROVE  /\ cursor' \in [Flow -> Nat]
           /\ counted' \in [Flow -> Nat]
           /\ PresentCounts'
<1>1. poll[p].answer \in [Flow -> Nat]
  BY PollTypes DEF IInv, Poll
<1>2. flows \subseteq Flow /\ \A f \in flows : f[1] = Engine(p)
  BY DEF Asked
<1>3. /\ cursor' = [f \in Flow |-> IF f \in flows THEN poll[p].answer[f] ELSE cursor[f]]
      /\ counted' = [f \in Flow |-> counted[f] +
             IF f \in flows THEN Delta(poll[p].answer[f], cursor[f]) ELSE 0]
  BY DEF Recorded
<1>4. ASSUME NEW f \in Flow
      PROVE  /\ cursor'[f] \in Nat
             /\ counted'[f] \in Nat
             /\ counted'[f] + Delta(counter'[f], cursor'[f]) <= carried'[f]
  <2>1. /\ cursor[f] \in Nat /\ counted[f] \in Nat /\ counter[f] \in Nat
        /\ poll[p].answer[f] \in Nat
    BY <1>1 DEF IInv, CountTypes
  <2>2. CASE f \in flows
    <3>1. cursor'[f] = poll[p].answer[f]
      BY <1>3, <2>2
    <3>2. counted'[f] = counted[f] + Delta(poll[p].answer[f], cursor[f])
      BY <1>3, <2>2
    <3>3. counted[f] + Delta(poll[p].answer[f], cursor[f])
                     + Delta(counter[f], poll[p].answer[f]) <= carried[f]
      BY <1>2, <2>2 DEF IInv, AnswerCounts
    <3>4. counter'[f] = counter[f] /\ carried'[f] = carried[f]
      OBVIOUS
    <3>. QED BY <2>1, <3>1, <3>2, <3>3, <3>4 DEF Delta
  <2>3. CASE f \notin flows
    <3>1. cursor'[f] = cursor[f] /\ counted'[f] = counted[f]
      BY <1>3, <2>1, <2>3
    <3>. QED BY <2>1, <3>1 DEF IInv, PresentCounts
  <2>. QED BY <2>2, <2>3
<1>5. cursor' \in [Flow -> Nat] /\ counted' \in [Flow -> Nat]
  BY <1>3, <1>4
<1>. QED BY <1>4, <1>5 DEF PresentCounts

\* Traffic and resets keep both counts.
LEMMA EngineStep ==
    ASSUME IInv,
           \/ \E f \in Flow : Carry(f)
           \/ \E e \in Engines : EngineRestarts(e)
    PROVE  IInv'
<1>1. UNCHANGED <<cursor, counted, poll>>
  BY DEF Carry, EngineRestarts, tables
<1>2. /\ carried' \in [Flow -> Nat] /\ counter' \in [Flow -> Nat]
      /\ \A f \in Flow : \/ carried'[f] = carried[f] /\ counter'[f] = counter[f]
                         \/ carried'[f] = carried[f] + 1 /\ counter'[f] = counter[f] + 1
                         \/ carried'[f] = carried[f] /\ counter'[f] = 0
  BY DEF Carry, EngineRestarts, IInv, CountTypes
<1>3. ASSUME NEW f \in Flow, NEW n \in Nat, NEW c \in Nat,
             n + Delta(counter[f], c) <= carried[f]
      PROVE  n + Delta(counter'[f], c) <= carried'[f]
  <2>1. counter[f] \in Nat /\ carried[f] \in Nat
    BY DEF IInv, CountTypes
  <2>2. Delta(counter[f], c) \in Nat /\ Delta(0, c) = 0
    BY <2>1, DeltaNat, DeltaSteps
  <2>3. CASE carried'[f] = carried[f] + 1 /\ counter'[f] = counter[f] + 1
    <3>1. Delta(counter'[f], c) = Delta(counter[f] + 1, c)
      BY <2>3 DEF Delta
    <3>2. /\ Delta(counter[f] + 1, c) \in Nat
          /\ Delta(counter[f] + 1, c) <= Delta(counter[f], c) + 1
      BY <2>1 DEF Delta
    <3>. QED BY <1>3, <2>1, <2>2, <2>3, <3>1, <3>2
  <2>. QED BY <1>2, <1>3, <2>1, <2>2, <2>3
<1>4. PresentCounts'
  <2> SUFFICES ASSUME NEW f \in Flow
               PROVE  counted'[f] + Delta(counter'[f], cursor'[f]) <= carried'[f]
    BY DEF PresentCounts
  <2>1. counted[f] \in Nat /\ cursor[f] \in Nat
    BY DEF IInv, CountTypes
  <2>2. counted[f] + Delta(counter[f], cursor[f]) <= carried[f]
    BY DEF IInv, PresentCounts
  <2>. QED BY <1>1, <1>3, <2>1, <2>2
<1>5. AnswerCounts'
  <2> SUFFICES ASSUME NEW p \in Polls, NEW f \in Flow,
                      poll[p].stage = "answered", f[1] = Engine(p)
               PROVE  counted[f] + Delta(poll[p].answer[f], cursor[f])
                        + Delta(counter'[f], poll[p].answer[f]) <= carried'[f]
    BY <1>1 DEF AnswerCounts, Engine
  <2> DEFINE s == poll[p].answer[f]
             n == counted[f] + Delta(s, cursor[f])
  <2>1. counted[f] \in Nat /\ cursor[f] \in Nat /\ s \in Nat
    BY PollTypes DEF IInv, CountTypes, Poll
  <2>2. n \in Nat
    <3>1. Delta(s, cursor[f]) \in Nat
      BY <2>1, DeltaNat
    <3>. QED BY <2>1, <3>1
  <2>3. n + Delta(counter[f], s) <= carried[f]
    BY DEF IInv, AnswerCounts
  <2>. QED BY <1>3, <2>1, <2>2, <2>3
<1>. QED BY <1>1, <1>2, <1>4, <1>5 DEF IInv, CountTypes

\* The timer and the answer of an engine count nothing.
LEMMA AskStep ==
    ASSUME IInv, NEW p \in Polls, clock \in Time, Begin(p) \/ Answer(p)
    PROVE  IInv'
<1>1. UNCHANGED <<carried, counter, cursor, counted>>
  BY DEF Begin, Answer, engines, tables
<1>2. poll[p] \in Poll /\ NoPoll \in Poll
  BY PollTypes DEF IInv
<1>3. CASE Begin(p)
  <2> DEFINE new == [NoPoll EXCEPT !.stage = "asking", !.reference = clock]
  <2>1. new \in Poll /\ new.stage = "asking" /\ poll' = [poll EXCEPT ![p] = new]
    BY <1>2, <1>3 DEF Begin, Poll
  <2>. HIDE DEF new
  <2>2. poll' \in [Polls -> Poll] /\ poll'[p] = new /\ \A q \in Polls \ {p} : poll'[q] = poll[q]
    BY <2>1 DEF IInv, CountTypes
  <2>3. AnswerCounts'
    BY <1>1, <2>1, <2>2 DEF IInv, AnswerCounts, Engine
  <2>. QED BY <1>1, <2>2, <2>3 DEF IInv, CountTypes, PresentCounts
<1>4. CASE Answer(p)
  <2> DEFINE s == [f \in Flow |-> IF f[1] = Engine(p) THEN counter[f] ELSE 0]
             new == [poll[p] EXCEPT !.stage = "answered", !.answer = s]
  <2>1. s \in [Flow -> Nat]
    BY DEF IInv, CountTypes
  <2>2. poll' = [poll EXCEPT ![p] = new]
    BY <1>4 DEF Answer, IInv, CountTypes
  <2>3. new \in Poll /\ new.answer = s /\ new.at = poll[p].at
    BY <1>2, <2>1 DEF Poll
  <2>. HIDE DEF new
  <2>4. poll' \in [Polls -> Poll] /\ poll'[p] = new /\ \A q \in Polls \ {p} : poll'[q] = poll[q]
    BY <2>2, <2>3 DEF IInv, CountTypes
  <2>5. ASSUME NEW f \in Flow, f[1] = Engine(p)
        PROVE  counted[f] + Delta(s[f], cursor[f]) + Delta(counter[f], s[f]) <= carried[f]
    <3>1. counter[f] \in Nat /\ cursor[f] \in Nat /\ counted[f] \in Nat /\ s[f] = counter[f]
      BY <2>5 DEF IInv, CountTypes
    <3>2. Delta(counter[f], s[f]) = 0 /\ Delta(s[f], cursor[f]) \in Nat
      BY <3>1, DeltaSteps, DeltaNat
    <3>. QED BY <3>1, <3>2 DEF IInv, PresentCounts
  <2>6. AnswerCounts'
    <3> SUFFICES ASSUME NEW q \in Polls, NEW f \in Flow,
                        poll'[q].stage = "answered", f[1] = Engine(q)'
                 PROVE  counted'[f] + Delta(poll'[q].answer[f], cursor'[f])
                          + Delta(counter'[f], poll'[q].answer[f]) <= carried'[f]
      BY DEF AnswerCounts
    <3>1. CASE q = p
      <4>1. Engine(q)' = Engine(p) /\ poll'[q].answer = s
        BY <2>3, <2>4, <3>1 DEF Engine
      <4>. QED BY <1>1, <2>5, <4>1
    <3>2. CASE q # p
      BY <1>1, <2>4, <3>2 DEF IInv, AnswerCounts, Engine
    <3>. QED BY <3>1, <3>2
  <2>. QED BY <1>1, <2>4, <2>6 DEF IInv, CountTypes, PresentCounts
<1>. QED BY <1>3, <1>4

\* The turns that end the asking of an engine.  Only here is there need of one
\* poll alone: an answer another one has under way would be counted again.
LEMMA TurnStep ==
    ASSUME OnePoll, IInv, NEW p \in Polls, Deliver(p) \/ Fail(p)
    PROVE  IInv'
<1>1. UNCHANGED <<carried, counter>>
  BY DEF Deliver, Fail, engines
<1>2. PICK table : Proceed(p, table)
  BY DEF Deliver, Fail
<1>3. poll' \in [Polls -> Poll] /\ poll'[p].stage # "answered"
  BY <1>2, ProceedPolls DEF IInv
<1>4. AnswerCounts'
  BY <1>3 DEF OnePoll, AnswerCounts
<1>5. CASE Deliver(p)
  <2>1. poll[p].stage = "answered"
    BY <1>5 DEF Deliver
  <2>2. PICK flows \in SUBSET Asked(p) :
           /\ cursor' = Recorded(p, flows).cursor
           /\ counted' = Recorded(p, flows).counted
    BY <1>5 DEF Deliver, Reports
  <2>3. cursor' \in [Flow -> Nat] /\ counted' \in [Flow -> Nat] /\ PresentCounts'
    BY <1>1, <2>1, <2>2, RecordedCounts
  <2>. QED BY <1>1, <1>3, <1>4, <2>3 DEF IInv, CountTypes
<1>6. CASE Fail(p)
  <2>1. UNCHANGED <<cursor, counted>>
    BY <1>6 DEF Fail
  <2>. QED BY <1>1, <1>3, <1>4, <2>1 DEF IInv, CountTypes, PresentCounts
<1>. QED BY <1>5, <1>6

\* A death of the control plane forgets the answers.
LEMMA CrashStep ==
    ASSUME IInv, Crash
    PROVE  IInv'
<1>1. UNCHANGED <<carried, counter>> /\ poll' = [p \in Polls |-> NoPoll]
  BY DEF Crash, engines
<1>2. poll' \in [Polls -> Poll] /\ AnswerCounts'
  BY <1>1, PollTypes DEF AnswerCounts, NoPoll
<1>3. CASE UNCHANGED tables
  BY <1>1, <1>2, <1>3 DEF tables, IInv, CountTypes, PresentCounts
<1>4. CASE ~UNCHANGED tables
  <2>1. PICK p \in Polls :
           /\ poll[p].stage = "answered"
           /\ \E flows \in SUBSET Asked(p) :
                 /\ cursor' = Recorded(p, flows).cursor
                 /\ counted' = Recorded(p, flows).counted
    BY <1>4 DEF Crash
  <2>2. cursor' \in [Flow -> Nat] /\ counted' \in [Flow -> Nat] /\ PresentCounts'
    BY <1>1, <2>1, RecordedCounts
  <2>. QED BY <1>1, <1>2, <2>2 DEF IInv, CountTypes
<1>. QED BY <1>3, <1>4

\* The clock stays within its bound.
LEMMA ClockStep == clock \in Time /\ [Next]_vars => (clock \in Time)'
<1> SUFFICES ASSUME clock \in Time, [Next]_vars PROVE clock' \in Time
  OBVIOUS
<1>1. CASE Tick
  BY <1>1, TrafficAssumption DEF Tick, Time
<1>2. CASE clock' = clock
  BY <1>2
<1>. QED BY <1>1, <1>2 DEF Next, vars, Carry, EngineRestarts, Begin, Answer, Deliver, Fail, Crash

\* The invariant holds at first ...
LEMMA InitIInv == Init => IInv /\ clock \in Time
<1> SUFFICES ASSUME Init PROVE IInv /\ clock \in Time
  OBVIOUS
<1>1. \A f \in Flow : Delta(0, 0) = 0
  BY DeltaSteps
<1>. QED BY <1>1, PollTypes, TrafficAssumption
         DEF Init, IInv, CountTypes, PresentCounts, AnswerCounts, Nothing, NoPoll, Time

\* ... and after every step.
LEMMA StepIInv ==
    ASSUME OnePoll, IInv, clock \in Time, [Next]_vars
    PROVE  IInv'
<1>1. CASE UNCHANGED vars
  BY <1>1 DEF vars, IInv, CountTypes, PresentCounts, AnswerCounts, Engine
<1>2. CASE Tick
  BY <1>2 DEF Tick, engines, tables, IInv, CountTypes, PresentCounts, AnswerCounts, Engine
<1>. QED BY <1>1, <1>2, EngineStep, AskStep, TurnStep, CrashStep DEF Next

\* While collect() is never under way twice, no traffic is counted twice, through
\* resets of an engine's counters, failed polls and deaths of the process between
\* any two transactions of recordCumulative(): its cursor and sample.
THEOREM EachByteOnce ==
    ASSUME OnePoll
    PROVE  Spec => []CountedOnce
<1>1. IInv => CountedOnce
  <2> SUFFICES ASSUME IInv, NEW f \in Flow PROVE counted[f] <= carried[f]
    BY DEF CountedOnce
  <2>1. /\ counted[f] \in Nat /\ counter[f] \in Nat /\ cursor[f] \in Nat
        /\ carried[f] \in Nat
    BY DEF IInv, CountTypes
  <2>2. Delta(counter[f], cursor[f]) \in Nat
    BY <2>1, DeltaNat
  <2>. QED BY <2>1, <2>2 DEF IInv, PresentCounts
<1>2. (IInv /\ clock \in Time) /\ [Next]_vars => (IInv /\ clock \in Time)'
  BY StepIInv, ClockStep
<1>. QED BY <1>1, <1>2, InitIInv, PTL DEF Spec

-----------------------------------------------------------------------------
(* No byte is lost either *)

\* Without a reset what is counted is the cursor, and the cursor follows ...
CursorCounts ==
    restarts = 0 => \A f \in Flow : counted[f] = cursor[f] /\ cursor[f] <= counter[f]

\* ... with the answers under way in between.
AnswerBetween ==
    restarts = 0 =>
        \A p \in Polls, f \in Flow :
            poll[p].stage = "answered" /\ f[1] = Engine(p) =>
                cursor[f] <= poll[p].answer[f] /\ poll[p].answer[f] <= counter[f]

EInv == IInv /\ restarts \in Nat /\ CursorCounts /\ AnswerBetween

\* Recording flows of an answer moves the cursor and the count to it.
LEMMA RecordedExactly ==
    ASSUME EInv, NEW p \in Polls, poll[p].stage = "answered",
           NEW flows \in SUBSET Asked(p),
           cursor' = Recorded(p, flows).cursor,
           counted' = Recorded(p, flows).counted,
           UNCHANGED <<counter, restarts>>
    PROVE  CursorCounts'
<1> SUFFICES ASSUME restarts = 0, NEW f \in Flow
             PROVE  counted'[f] = cursor'[f] /\ cursor'[f] <= counter[f]
  BY DEF CursorCounts
<1>1. /\ cursor' = [g \in Flow |-> IF g \in flows THEN poll[p].answer[g] ELSE cursor[g]]
      /\ counted' = [g \in Flow |-> counted[g] +
             IF g \in flows THEN Delta(poll[p].answer[g], cursor[g]) ELSE 0]
  BY DEF Recorded
<1>2. /\ cursor[f] \in Nat /\ counted[f] \in Nat /\ counter[f] \in Nat
      /\ poll[p].answer[f] \in Nat
  BY PollTypes DEF EInv, IInv, CountTypes, Poll
<1>3. counted[f] = cursor[f] /\ cursor[f] <= counter[f]
  BY DEF EInv, CursorCounts
<1>4. CASE f \in flows
  <2>1. cursor[f] <= poll[p].answer[f] /\ poll[p].answer[f] <= counter[f]
    BY <1>4 DEF Asked, EInv, AnswerBetween
  <2>2. /\ cursor'[f] = poll[p].answer[f]
        /\ counted'[f] = counted[f] + Delta(poll[p].answer[f], cursor[f])
    BY <1>1, <1>4
  <2>. QED BY <1>2, <1>3, <2>1, <2>2 DEF Delta
<1>5. CASE f \notin flows
  BY <1>1, <1>2, <1>3, <1>5
<1>. QED BY <1>4, <1>5

\* The turns that record an answer, give it up or lose it.
LEMMA ExactTurn ==
    ASSUME OnePoll, EInv, Crash \/ \E p \in Polls : Deliver(p) \/ Fail(p)
    PROVE  CursorCounts' /\ AnswerBetween'
<1>1. UNCHANGED <<counter, restarts>>
  BY DEF Crash, Deliver, Fail, engines
<1>2. AnswerBetween'
  <2>1. CASE Crash
    BY <2>1 DEF Crash, AnswerBetween, NoPoll
  <2>2. ASSUME NEW p \in Polls, Deliver(p) \/ Fail(p)
        PROVE  poll'[p].stage # "answered"
    BY <2>2, ProceedPolls DEF Deliver, Fail, EInv, IInv
  <2>. QED BY <2>1, <2>2 DEF OnePoll, AnswerBetween
<1>3. CursorCounts'
  <2>1. CASE UNCHANGED <<cursor, counted>>
    BY <1>1, <2>1 DEF EInv, CursorCounts
  <2>2. CASE ~UNCHANGED <<cursor, counted>>
    <3>1. PICK p \in Polls :
             /\ poll[p].stage = "answered"
             /\ \E flows \in SUBSET Asked(p) :
                   /\ cursor' = Recorded(p, flows).cursor
                   /\ counted' = Recorded(p, flows).counted
      BY <2>2 DEF Crash, Deliver, Reports, Fail, tables
    <3>. QED BY <1>1, <3>1, RecordedExactly
  <2>. QED BY <2>1, <2>2
<1>. QED BY <1>2, <1>3

\* What the engines, the clock and the timer do.
LEMMA ExactQuiet ==
    ASSUME EInv,
           \/ Tick
           \/ UNCHANGED vars
           \/ \E f \in Flow : Carry(f)
           \/ \E e \in Engines : EngineRestarts(e)
           \/ \E p \in Polls : Begin(p) \/ Answer(p)
    PROVE  restarts' \in Nat /\ CursorCounts' /\ AnswerBetween'
<1>1. UNCHANGED <<cursor, counted>>
  BY DEF Tick, vars, Carry, EngineRestarts, Begin, Answer, tables
<1>2. restarts' \in Nat /\ (restarts' = 0 => restarts = 0)
  <2>1. restarts \in Nat
    BY DEF EInv
  <2>2. CASE \E e \in Engines : EngineRestarts(e)
    <3>1. restarts' = restarts + 1
      BY <2>2 DEF EngineRestarts
    <3>. QED BY <2>1, <3>1
  <2>3. CASE restarts' = restarts
    BY <2>1, <2>3
  <2>. QED BY <2>2, <2>3 DEF Tick, vars, Carry, Begin, Answer, engines
<1>3. \A f \in Flow : cursor[f] \in Nat /\ counter[f] \in Nat
  BY DEF EInv, IInv, CountTypes
<1>4. restarts' = 0 => \A f \in Flow : counter'[f] \in Nat /\ counter'[f] >= counter[f]
  <2>1. CASE \E f \in Flow : Carry(f)
    BY <1>3, <2>1 DEF Carry, EInv, IInv, CountTypes
  <2>2. CASE \E e \in Engines : EngineRestarts(e)
    BY <2>2 DEF EngineRestarts, EInv
  <2>3. CASE counter' = counter
    BY <1>3, <2>3
  <2>. QED BY <2>1, <2>2, <2>3 DEF Tick, vars, Begin, Answer, engines
<1>5. CursorCounts'
  BY <1>1, <1>2, <1>3, <1>4 DEF EInv, CursorCounts
<1>6. AnswerBetween'
  <2> SUFFICES ASSUME restarts = 0, restarts' = 0, NEW p \in Polls, NEW f \in Flow,
                      poll'[p].stage = "answered", f[1] = Engine(p)'
               PROVE  /\ cursor[f] <= poll'[p].answer[f]
                      /\ poll'[p].answer[f] <= counter'[f]
    BY <1>1, <1>2 DEF AnswerBetween
  <2>1. CASE poll'[p] = poll[p]
    <3>1. cursor[f] <= poll[p].answer[f] /\ poll[p].answer[f] <= counter[f]
      BY <2>1 DEF EInv, AnswerBetween, Engine
    <3>2. poll[p].answer[f] \in Nat
      BY PollTypes DEF EInv, IInv, Poll
    <3>. QED BY <1>3, <1>4, <2>1, <3>1, <3>2
  <2>2. CASE Answer(p)
    <3>1. /\ poll'[p].answer[f] = IF f[1] = Engine(p) THEN counter[f] ELSE 0
          /\ Engine(p)' = Engine(p)
          /\ counter' = counter
      BY <2>2, PollTypes DEF Answer, engines, Engine, EInv, IInv, CountTypes, Poll
    <3>2. cursor[f] <= counter[f]
      BY DEF EInv, CursorCounts
    <3>. QED BY <1>3, <3>1, <3>2
  <2>3. ASSUME NEW q \in Polls, Begin(q)
        PROVE  poll'[p] = poll[p]
    BY <2>3 DEF Begin, EInv, IInv, CountTypes, NoPoll
  <2>4. ASSUME NEW q \in Polls, q # p, Answer(q)
        PROVE  poll'[p] = poll[p]
    BY <2>4 DEF Answer, EInv, IInv, CountTypes
  <2>5. CASE poll' = poll
    BY <2>1, <2>5
  <2>6. CASE \E q \in Polls : Begin(q) \/ Answer(q)
    BY <2>1, <2>2, <2>3, <2>4, <2>6
  <2>. QED BY <2>5, <2>6 DEF Tick, vars, Carry, EngineRestarts
<1>. QED BY <1>2, <1>5, <1>6

\* While collect() is never under way twice and no engine restarts, the deltas
\* counted are all the cursor has seen: a failed poll or a death of the process
\* between two transactions of recordCumulative() loses nothing.
THEOREM NoByteLost ==
    ASSUME OnePoll
    PROVE  Spec => []CountedExactly
<1>1. EInv => CountedExactly
  BY DEF EInv, CursorCounts, CountedExactly
<1>2. Init => EInv /\ clock \in Time
  <2> SUFFICES ASSUME Init PROVE restarts \in Nat /\ CursorCounts /\ AnswerBetween
    BY InitIInv DEF EInv
  <2>. QED BY DEF Init, CursorCounts, AnswerBetween, Nothing, NoPoll
<1>3. (EInv /\ clock \in Time) /\ [Next]_vars => (EInv /\ clock \in Time)'
  <2> SUFFICES ASSUME EInv, clock \in Time, [Next]_vars PROVE EInv'
    BY ClockStep
  <2>1. IInv'
    BY StepIInv DEF EInv
  <2>2. CASE Crash \/ \E p \in Polls : Deliver(p) \/ Fail(p)
    <3>1. restarts' = restarts
      BY <2>2 DEF Crash, Deliver, Fail, engines
    <3>. QED BY <2>1, <2>2, <3>1, ExactTurn DEF EInv
  <2>3. CASE ~(Crash \/ \E p \in Polls : Deliver(p) \/ Fail(p))
    BY <2>1, <2>3, ExactQuiet DEF EInv, Next
  <2>. QED BY <2>2, <2>3
<1>. QED BY <1>1, <1>2, <1>3, PTL DEF Spec

-----------------------------------------------------------------------------
(* The samples: what a bucket holds *)

\* The start of a bucket is a moment before, ...
LEMMA FloorBelow ==
    ASSUME NEW n \in Nat, NEW d \in Nat \ {0}
    PROVE  Floor(n, d) \in Nat /\ Floor(n, d) <= n
<1>1. n % d \in Nat /\ n % d <= n
  BY Divided
<1>. QED BY <1>1 DEF Floor

\* ... the last that the length divides.
LEMMA FloorAt ==
    ASSUME NEW n \in Nat, NEW d \in Nat \ {0}, NEW q \in Nat, NEW r \in Nat,
           r < d, n = d * q + r
    PROVE  Floor(n, d) = d * q
<1>1. n % d = r
  BY EuclidUnique
<1>2. d * q \in Nat
  OBVIOUS
<1>. QED BY <1>1, <1>2 DEF Floor

\* The hour a moment is in lies in its day.
LEMMA FloorTwice ==
    ASSUME NEW n \in Nat, NEW c \in Nat \ {0}, NEW d \in Nat \ {0}, d % c = 0
    PROVE  Floor(Floor(n, c), d) = Floor(n, d)
<1>1. PICK m \in Nat : d = c * m
  <2>1. PICK q \in Nat, r \in Nat : r = d % c /\ d = c * q + r
    BY Divided
  <2>2. c * q \in Nat
    OBVIOUS
  <2>3. d = c * q
    BY <2>1, <2>2
  <2>. QED BY <2>3
<1>2. PICK q \in Nat, r \in Nat : n = d * q + r /\ r < d
  <2>1. \E q \in Nat, r \in Nat : r < d /\ r <= n /\ r = n % d /\ n = d * q + r
    BY ONLY n \in Nat, d \in Nat \ {0}, Divided
  <2>. QED BY <2>1
<1>3. PICK k \in Nat, s \in Nat : r = c * k + s /\ s < c
  <2>1. \E k \in Nat, s \in Nat : s < c /\ s <= r /\ s = r % c /\ r = c * k + s
    BY ONLY r \in Nat, c \in Nat \ {0}, Divided
  <2>. QED BY <2>1
<1>4. Floor(n, c) = d * q + c * k
  <2>1. n = c * (m * q + k) + s
    <3>1. d * q = c * (m * q)
      BY <1>1
    <3>2. c * (m * q + k) = c * (m * q) + c * k
      BY <1>1, <1>2, <1>3
    <3>. QED BY <1>2, <1>3, <3>1, <3>2
  <2>2. m * q + k \in Nat
    BY <1>1, <1>2, <1>3
  <2> DEFINE z == m * q + k
  <2>3. z \in Nat /\ s \in Nat /\ s < c /\ n = c * z + s
    BY <1>3, <2>1, <2>2
  <2> HIDE DEF z
  <2>4. Floor(n, c) = c * z
    BY <2>3, FloorAt
  <2>5. c * (m * q + k) = d * q + c * k
    <3>1. d * q = c * (m * q)
      BY <1>1
    <3>. QED BY <1>1, <1>2, <1>3, <3>1
  <2>. QED BY <2>4, <2>5 DEF z
<1>5. c * k \in Nat /\ c * k < d
  BY <1>2, <1>3
<1>6. Floor(n, c) \in Nat
  BY FloorBelow
<1> HIDE DEF Floor
<1>7. Floor(Floor(n, c), d) = d * q
  <2> DEFINE a == Floor(n, c)
             b == c * k
  <2>1. a \in Nat /\ b \in Nat /\ b < d /\ a = d * q + b
    BY <1>4, <1>5, <1>6
  <2> HIDE DEF a, b
  <2>2. Floor(a, d) = d * q
    BY <2>1, FloorAt
  <2>. QED BY <2>2 DEF a
<1>8. Floor(n, d) = d * q
  BY <1>2, FloorAt
<1>. QED BY <1>7, <1>8

\* The samples of all sizes, and one row of them.
Table == [Bucket -> [Time -> [Flow -> Nat]]]
Row(table, b, f) == [t \in Time |-> table[b][t][f]]

LEMMA FloorInTime ==
    ASSUME NEW t \in Time, NEW length \in Nat \ {0}
    PROVE  Floor(t, length) \in Time
<1>1. t \in Nat /\ t <= MaxTime
  BY TrafficAssumption DEF Time
<1>2. Floor(t, length) \in Nat /\ Floor(t, length) <= t
  BY <1>1, FloorBelow
<1>. QED BY <1>1, <1>2, TrafficAssumption DEF Time

LEMMA Periods ==
    /\ IsFiniteSet(Time)
    /\ \A P \in SUBSET Time : IsFiniteSet(P)
    /\ Time \subseteq Nat
<1>1. IsFiniteSet(Time)
  BY FS_Interval, TrafficAssumption DEF Time
<1>2. \A P \in SUBSET Time : IsFiniteSet(P)
  BY <1>1, FS_Subset
<1>3. Time \subseteq Nat
  BY TrafficAssumption DEF Time
<1>. QED BY <1>1, <1>2, <1>3

\* A row holds numbers, and so does any period of it.
LEMMA RowsHold ==
    ASSUME NEW table \in Table, NEW b \in Bucket, NEW f \in Flow, NEW P \in SUBSET Time
    PROVE  /\ \A t \in Time : Row(table, b, f)[t] = table[b][t][f] /\ table[b][t][f] \in Nat
           /\ SumFunctionOnSet(Row(table, b, f), P) \in Nat
           /\ Held(table, b, f, P) = SumFunctionOnSet(Row(table, b, f), P)
<1>1. \A t \in Time : Row(table, b, f)[t] = table[b][t][f] /\ table[b][t][f] \in Nat
  BY DEF Table, Row
<1>2. SumFunctionOnSet(Row(table, b, f), P) \in Nat
  BY <1>1, Periods, SumNat
<1>. QED BY <1>1, <1>2 DEF Held, Row

\* What rollup() adds to a bucket.
Rolled(table, source, kept, length, reference, t, f) ==
    SumFunctionOnSet(Row(table, source, f),
                     {u \in Time : Due(u, kept, reference) /\ Floor(u, length) = t})

LEMMA RollUpAdds ==
    ASSUME NEW table \in Table, NEW source \in Bucket, NEW target \in Bucket,
           NEW kept, NEW length, NEW reference
    PROVE  LET new == RollUp(table, source, target, kept, length, reference) IN
           /\ new \in Table
           /\ \A b \in Bucket \ {target} : new[b] = table[b]
           /\ \A t \in Time, f \in Flow :
                 /\ Rolled(table, source, kept, length, reference, t, f) \in Nat
                 /\ new[target][t][f] =
                       table[target][t][f] + Rolled(table, source, kept, length, reference, t, f)
<1> DEFINE new == RollUp(table, source, target, kept, length, reference)
           add(t, f) == Rolled(table, source, kept, length, reference, t, f)
           sum == [t \in Time |-> [f \in Flow |-> table[target][t][f] + add(t, f)]]
<1>1. \A t \in Time, f \in Flow : add(t, f) \in Nat /\ table[target][t][f] \in Nat
  BY RowsHold DEF Rolled
<1>2. new = [table EXCEPT ![target] = sum]
  BY DEF RollUp, Rolled, Row
<1> HIDE DEF add, new
<1>3. sum \in [Time -> [Flow -> Nat]]
  BY <1>1
<1>4. /\ \A b \in Bucket \ {target} : new[b] = table[b]
      /\ new[target] = sum
      /\ new \in Table
  BY <1>2, <1>3 DEF Table
<1>. QED BY <1>1, <1>4 DEF add, new

LEMMA PruneLeaves ==
    ASSUME NEW table \in Table, NEW source \in Bucket, NEW kept, NEW reference
    PROVE  LET new == Prune(table, source, kept, reference) IN
           /\ new \in Table
           /\ \A b \in Bucket \ {source} : new[b] = table[b]
           /\ \A t \in Time, f \in Flow :
                 new[source][t][f] = IF Due(t, kept, reference) THEN 0 ELSE table[source][t][f]
<1> DEFINE new == Prune(table, source, kept, reference)
           left == [t \in Time |-> IF Due(t, kept, reference) THEN Nothing ELSE table[source][t]]
<1>1. new = [table EXCEPT ![source] = left]
  BY DEF Prune
<1>2. \A t \in Time : table[source][t] \in [Flow -> Nat] /\ Nothing \in [Flow -> Nat]
  BY DEF Table, Nothing
<1>3. left \in [Time -> [Flow -> Nat]]
  BY <1>2
<1>4. \A t \in Time, f \in Flow :
         left[t][f] = IF Due(t, kept, reference) THEN 0 ELSE table[source][t][f]
  BY DEF Nothing
<1> HIDE DEF new, left
<1>5. /\ \A b \in Bucket \ {source} : new[b] = table[b]
      /\ new[source] = left
      /\ new \in Table
  BY <1>1, <1>3 DEF Table
<1>. QED BY <1>4, <1>5 DEF new

-----------------------------------------------------------------------------
(* The samples: what a period holds *)

\* Samples that are not written to hold what they held.
LEMMA HeldAlike ==
    ASSUME NEW table, NEW new, NEW b, new[b] = table[b], NEW f, NEW P
    PROVE  Held(new, b, f, P) = Held(table, b, f, P)
BY DEF Held

\* What is due of a period, and what a rollup leaves where it is.
DueIn(P, kept, reference) == {u \in P : Due(u, kept, reference)}

\* A period that what is due does not enter or leave.
Closed(P, kept, length, reference) ==
    \A u \in DueIn(Time, kept, reference) : u \in P <=> Floor(u, length) \in P

\* A rollup adds to a period what is due in it.
LEMMA HeldRolled ==
    ASSUME NEW table \in Table, NEW source \in Bucket, NEW target \in Bucket,
           NEW kept, NEW length \in Nat \ {0}, NEW reference,
           NEW f \in Flow, NEW P \in SUBSET Time, Closed(P, kept, length, reference)
    PROVE  Held(RollUp(table, source, target, kept, length, reference), target, f, P)
              = Held(table, target, f, P)
                + SumFunctionOnSet(Row(table, source, f), DueIn(P, kept, reference))
<1> DEFINE new == RollUp(table, source, target, kept, length, reference)
           R == DueIn(P, kept, reference)
           g == Row(table, source, f)
           k == [u \in Time |-> Floor(u, length)]
           h == [t \in P |-> SumFunctionOnSet(g, {u \in R : k[u] = t})]
<1>1. /\ new \in Table
      /\ \A t \in Time :
            /\ Rolled(table, source, kept, length, reference, t, f) \in Nat
            /\ new[target][t][f] =
                  table[target][t][f] + Rolled(table, source, kept, length, reference, t, f)
  BY RollUpAdds
<1>2. /\ IsFiniteSet(P) /\ IsFiniteSet(R) /\ R \in SUBSET Time
      /\ \A u \in R : g[u] \in Nat
      /\ \A u \in R : k[u] \in P
  BY Periods, RowsHold DEF DueIn, Closed
<1>3. ASSUME NEW t \in P
      PROVE  h[t] = Rolled(table, source, kept, length, reference, t, f)
  <2>1. {u \in R : k[u] = t} = {u \in Time : Due(u, kept, reference) /\ Floor(u, length) = t}
    BY DEF DueIn, Closed
  <2>. QED BY <2>1 DEF Rolled
<1>4. SumFunctionOnSet(h, P) = SumFunctionOnSet(g, R)
  <2> HIDE DEF g, R, k
  <2>. QED BY <1>2, SumRegrouped
<1>5. \A t \in P : /\ Row(table, target, f)[t] \in Nat
                   /\ h[t] \in Nat
                   /\ Row(new, target, f)[t] = Row(table, target, f)[t] + h[t]
  <2> SUFFICES ASSUME NEW t \in P
               PROVE  /\ Row(table, target, f)[t] \in Nat
                      /\ h[t] \in Nat
                      /\ Row(new, target, f)[t] = Row(table, target, f)[t] + h[t]
    OBVIOUS
  <2> HIDE DEF new, h
  <2>1. t \in Time
    OBVIOUS
  <2>2. Row(table, target, f)[t] = table[target][t][f] /\ table[target][t][f] \in Nat
    BY <2>1, RowsHold
  <2>3. Row(new, target, f)[t] = new[target][t][f]
    BY <2>1 DEF Row
  <2>4. h[t] = Rolled(table, source, kept, length, reference, t, f)
    BY <1>3
  <2>. QED BY <1>1, <2>1, <2>2, <2>3, <2>4
<1>6. SumFunctionOnSet(Row(new, target, f), P)
         = SumFunctionOnSet(Row(table, target, f), P) + SumFunctionOnSet(h, P)
  <2> HIDE DEF new, h
  <2>. QED BY <1>2, <1>5, SumPlus
<1>7. /\ Held(new, target, f, P) = SumFunctionOnSet(Row(new, target, f), P)
      /\ Held(table, target, f, P) = SumFunctionOnSet(Row(table, target, f), P)
  BY DEF Held, Row
<1>. QED BY <1>4, <1>6, <1>7

\* A deletion takes from a period what is due in it.
LEMMA HeldPruned ==
    ASSUME NEW table \in Table, NEW source \in Bucket, NEW kept, NEW reference,
           NEW f \in Flow, NEW P \in SUBSET Time
    PROVE  Held(table, source, f, P)
              = SumFunctionOnSet(Row(table, source, f), DueIn(P, kept, reference))
                + Held(Prune(table, source, kept, reference), source, f, P)
<1> DEFINE new == Prune(table, source, kept, reference)
           R == DueIn(P, kept, reference)
           g == Row(table, source, f)
           h == Row(new, source, f)
<1>1. \A t \in Time : h[t] = IF Due(t, kept, reference) THEN 0 ELSE g[t]
  BY PruneLeaves, RowsHold
<1>2. /\ IsFiniteSet(P) /\ R \in SUBSET P /\ IsFiniteSet(R) /\ IsFiniteSet(P \ R)
      /\ \A t \in P : g[t] \in Nat /\ h[t] \in Nat
      /\ \A t \in R : h[t] = 0
      /\ \A t \in P \ R : h[t] = g[t]
  <2>1. R \in SUBSET P /\ R \in SUBSET Time /\ P \ R \in SUBSET Time
    BY DEF DueIn
  <2>2. \A t \in P : g[t] \in Nat
    BY RowsHold
  <2> HIDE DEF g, h
  <2>. QED BY <1>1, <2>1, <2>2, Periods DEF DueIn
<1>3. /\ Held(table, source, f, P) = SumFunctionOnSet(g, P)
      /\ Held(new, source, f, P) = SumFunctionOnSet(h, P)
  BY DEF Held, Row
<1> HIDE DEF g, h, R, new
<1>4. SumFunctionOnSet(g, P) = SumFunctionOnSet(g, R) + SumFunctionOnSet(g, P \ R)
  BY <1>2, SumSplit
<1>5. SumFunctionOnSet(h, P) = SumFunctionOnSet(h, R) + SumFunctionOnSet(h, P \ R)
  BY <1>2, SumSplit
<1>6. SumFunctionOnSet(h, R) = 0
  BY <1>2, SumZero
<1>7. SumFunctionOnSet(h, P \ R) = SumFunctionOnSet(g, P \ R)
  BY <1>2, SumAlike
<1>8. SumFunctionOnSet(g, P \ R) \in Nat
  BY <1>2, SumNat
<1>. QED BY <1>3, <1>4, <1>5, <1>6, <1>7, <1>8 DEF g, R, new

-----------------------------------------------------------------------------
(* The samples: what compact() does to a period *)

\* A period that no rollup moves a sample into or out of.
Whole(P) == \A u \in Time : /\ u \in P <=> Floor(u, HourLength) \in P
                            /\ u \in P <=> Floor(u, DayLength) \in P

\* What the four commits leave are samples.
LEMMA CompactTables ==
    ASSUME NEW table \in Table, NEW reference
    PROVE  /\ \A n \in 1..4 : CompactCommits(table, reference)[n] \in Table
           /\ Compacted(table, reference) \in Table
<1> DEFINE hours == RollUp(table, "5m", "1h", FineKept, HourLength, reference)
           days == RollUp(hours, "1h", "1d", HourKept, DayLength, reference)
           recent == Prune(days, "5m", FineKept, reference)
           last == Prune(recent, "1h", HourKept, reference)
<1>1. "5m" \in Bucket /\ "1h" \in Bucket /\ "1d" \in Bucket
  BY DEF Bucket
<1>2. hours \in Table
  BY <1>1, RollUpAdds
<1>3. days \in Table
  <2> HIDE DEF hours
  <2>. QED BY <1>1, <1>2, RollUpAdds
<1>4. recent \in Table
  <2> HIDE DEF hours, days
  <2>. QED BY <1>1, <1>3, PruneLeaves
<1>5. last \in Table
  <2> HIDE DEF hours, days, recent
  <2>. QED BY <1>1, <1>4, PruneLeaves
<1>6. CompactCommits(table, reference) = <<hours, days, recent, last>>
  BY DEF CompactCommits
<1> HIDE DEF hours, days, recent, last
<1>. QED BY <1>2, <1>3, <1>4, <1>5, <1>6 DEF Compacted

\* After each commit of compact() a period holds at least what it held, in the end exactly.
LEMMA CompactKeeps ==
    ASSUME NEW table \in Table, NEW reference, NEW f \in Flow, NEW P \in SUBSET Time, Whole(P)
    PROVE  /\ \A n \in 1..4 :
                 TotalOf(CompactCommits(table, reference)[n], f, P) >= TotalOf(table, f, P)
           /\ TotalOf(Compacted(table, reference), f, P) = TotalOf(table, f, P)
<1> DEFINE hours == RollUp(table, "5m", "1h", FineKept, HourLength, reference)
           days == RollUp(hours, "1h", "1d", HourKept, DayLength, reference)
           recent == Prune(days, "5m", FineKept, reference)
           last == Prune(recent, "1h", HourKept, reference)
           fine == SumFunctionOnSet(Row(table, "5m", f), DueIn(P, FineKept, reference))
           hourly == SumFunctionOnSet(Row(hours, "1h", f), DueIn(P, HourKept, reference))
<1>1. /\ CompactCommits(table, reference) = <<hours, days, recent, last>>
      /\ Compacted(table, reference) = last
  BY DEF CompactCommits, Compacted
<1>2. "5m" \in Bucket /\ "1h" \in Bucket /\ "1d" \in Bucket
  BY DEF Bucket
<1>3. /\ HourLength \in Nat \ {0} /\ DayLength \in Nat \ {0}
      /\ Closed(P, FineKept, HourLength, reference)
      /\ Closed(P, HourKept, DayLength, reference)
  BY TrafficAssumption DEF Whole, Closed, DueIn
<1>4. hours \in Table /\ hours["5m"] = table["5m"] /\ hours["1d"] = table["1d"]
  BY <1>2, RollUpAdds
<1>5. days \in Table /\ days["5m"] = hours["5m"] /\ days["1h"] = hours["1h"]
  <2> HIDE DEF hours
  <2>. QED BY <1>2, <1>4, RollUpAdds
<1>6. recent \in Table /\ recent["1h"] = days["1h"] /\ recent["1d"] = days["1d"]
  <2> HIDE DEF hours, days
  <2>. QED BY <1>2, <1>5, PruneLeaves
<1>7. last \in Table /\ last["5m"] = recent["5m"] /\ last["1d"] = recent["1d"]
  <2> HIDE DEF hours, days, recent
  <2>. QED BY <1>2, <1>6, PruneLeaves
<1>8. /\ Held(hours, "1h", f, P) = Held(table, "1h", f, P) + fine
      /\ Held(hours, "5m", f, P) = Held(table, "5m", f, P)
      /\ Held(hours, "1d", f, P) = Held(table, "1d", f, P)
  BY <1>2, <1>3, <1>4, HeldRolled, HeldAlike
<1>9. /\ Held(days, "1d", f, P) = Held(hours, "1d", f, P) + hourly
      /\ Held(days, "5m", f, P) = Held(hours, "5m", f, P)
      /\ Held(days, "1h", f, P) = Held(hours, "1h", f, P)
  <2> HIDE DEF hours
  <2>. QED BY <1>2, <1>3, <1>4, <1>5, HeldRolled, HeldAlike
<1>10. /\ Held(days, "5m", f, P) = fine + Held(recent, "5m", f, P)
       /\ Held(recent, "1h", f, P) = Held(days, "1h", f, P)
       /\ Held(recent, "1d", f, P) = Held(days, "1d", f, P)
  <2>1. Row(days, "5m", f) = Row(table, "5m", f)
    BY <1>4, <1>5 DEF Row
  <2> HIDE DEF hours, days
  <2>. QED BY <1>2, <1>5, <1>6, <2>1, HeldPruned, HeldAlike
<1>11. /\ Held(recent, "1h", f, P) = hourly + Held(last, "1h", f, P)
       /\ Held(last, "5m", f, P) = Held(recent, "5m", f, P)
       /\ Held(last, "1d", f, P) = Held(recent, "1d", f, P)
  <2>1. Row(recent, "1h", f) = Row(hours, "1h", f)
    BY <1>5, <1>6 DEF Row
  <2> HIDE DEF hours, days, recent
  <2>. QED BY <1>2, <1>6, <1>7, <2>1, HeldPruned, HeldAlike
<1>12. /\ fine \in Nat /\ hourly \in Nat
       /\ \A b \in Bucket : /\ Held(table, b, f, P) \in Nat
                            /\ Held(hours, b, f, P) \in Nat
                            /\ Held(days, b, f, P) \in Nat
                            /\ Held(recent, b, f, P) \in Nat
                            /\ Held(last, b, f, P) \in Nat
  <2>1. \A k : DueIn(P, k, reference) \in SUBSET Time
    BY DEF DueIn
  <2> HIDE DEF hours, days, recent, last
  <2>. QED BY <1>2, <1>4, <1>5, <1>6, <1>7, <2>1, RowsHold
<1> HIDE DEF hours, days, recent, last, fine, hourly
<1>13. /\ TotalOf(hours, f, P) = TotalOf(table, f, P) + fine
       /\ TotalOf(days, f, P) = TotalOf(table, f, P) + fine + hourly
       /\ TotalOf(recent, f, P) = TotalOf(table, f, P) + hourly
       /\ TotalOf(last, f, P) = TotalOf(table, f, P)
       /\ TotalOf(table, f, P) \in Nat
  BY <1>2, <1>8, <1>9, <1>10, <1>11, <1>12 DEF TotalOf
<1>14. /\ TotalOf(hours, f, P) >= TotalOf(table, f, P)
       /\ TotalOf(days, f, P) >= TotalOf(table, f, P)
       /\ TotalOf(recent, f, P) >= TotalOf(table, f, P)
       /\ TotalOf(last, f, P) >= TotalOf(table, f, P)
  BY <1>12, <1>13
<1>15. ASSUME NEW n \in 1..4
       PROVE  TotalOf(CompactCommits(table, reference)[n], f, P) >= TotalOf(table, f, P)
  <2>1. CompactCommits(table, reference)[n] \in {hours, days, recent, last}
    BY <1>1
  <2>. QED BY <1>14, <2>1
<1>. QED BY <1>1, <1>13, <1>15

-----------------------------------------------------------------------------
(* The samples: what a recorded answer adds *)

\* Recording some flows of a poll's answer adds to the samples what it adds to the
\* count, in the bucket the poll started in.
LEMMA RecordedAdds ==
    ASSUME TypeOK, NEW p \in Polls, NEW flows \in SUBSET Asked(p)
    PROVE  LET new == Recorded(p, flows)
               at == Floor(poll[p].reference, FineLength) IN
           /\ new.cursor \in [Flow -> Nat]
           /\ new.counted \in [Flow -> Nat]
           /\ new.samples \in Table
           /\ \A f \in Flow, P \in SUBSET Time :
                 /\ new.counted[f] >= counted[f]
                 /\ TotalOf(new.samples, f, P) =
                       TotalOf(samples, f, P)
                       + IF at \in P THEN new.counted[f] - counted[f] ELSE 0
<1> DEFINE new == Recorded(p, flows)
           at == Floor(poll[p].reference, FineLength)
           add == [f \in Flow |-> IF f \in flows THEN Delta(poll[p].answer[f], cursor[f]) ELSE 0]
           sum == [f \in Flow |-> samples["5m"][at][f] + add[f]]
<1>1. /\ poll[p].answer \in [Flow -> Nat] /\ poll[p].reference \in Time
      /\ cursor \in [Flow -> Nat] /\ counted \in [Flow -> Nat] /\ samples \in Table
  BY DEF TypeOK, Poll, Table
<1>2. at \in Time
  BY <1>1, FloorInTime, TrafficAssumption
<1>3. "5m" \in Bucket /\ "1h" \in Bucket /\ "1d" \in Bucket
  BY DEF Bucket
<1>4. \A f \in Flow : add[f] \in Nat
  BY <1>1, DeltaNat
<1>5. /\ new.cursor = [f \in Flow |-> IF f \in flows THEN poll[p].answer[f] ELSE cursor[f]]
      /\ new.counted = [f \in Flow |-> counted[f] + add[f]]
      /\ new.samples = [samples EXCEPT !["5m"][at] = sum]
  BY <1>1, <1>2, <1>3 DEF Recorded, Table
<1> HIDE DEF new, at, add
<1>6. new.cursor \in [Flow -> Nat] /\ new.counted \in [Flow -> Nat]
  BY <1>1, <1>4, <1>5
<1>7. sum \in [Flow -> Nat]
  BY <1>1, <1>2, <1>3, <1>4 DEF Table
<1>8. /\ new.samples \in Table
      /\ \A b \in Bucket \ {"5m"} : new.samples[b] = samples[b]
      /\ \A t \in Time \ {at} : new.samples["5m"][t] = samples["5m"][t]
      /\ new.samples["5m"][at] = sum
  <2> HIDE DEF sum
  <2>. QED BY <1>1, <1>2, <1>3, <1>5, <1>7 DEF Table
<1>9. ASSUME NEW f \in Flow, NEW P \in SUBSET Time
      PROVE  /\ new.counted[f] >= counted[f]
             /\ TotalOf(new.samples, f, P) =
                   TotalOf(samples, f, P)
                   + IF at \in P THEN new.counted[f] - counted[f] ELSE 0
  <2>1. new.counted[f] = counted[f] + add[f] /\ counted[f] \in Nat /\ add[f] \in Nat
    BY <1>1, <1>4, <1>5
  <2> DEFINE old == Row(samples, "5m", f)
             now == Row(new.samples, "5m", f)
             one == [t \in Time |-> IF t = at THEN add[f] ELSE 0]
  <2>2. \A t \in P : /\ old[t] \in Nat
                     /\ one[t] \in Nat
                     /\ now[t] = old[t] + one[t]
                     /\ t # at => one[t] = 0
    <3> SUFFICES ASSUME NEW t \in Time
                 PROVE  /\ old[t] \in Nat
                        /\ one[t] \in Nat
                        /\ now[t] = old[t] + one[t]
                        /\ t # at => one[t] = 0
      OBVIOUS
    <3>1. old[t] = samples["5m"][t][f] /\ samples["5m"][t][f] \in Nat
      BY <1>1, <1>3, RowsHold
    <3>2. now[t] = new.samples["5m"][t][f]
      BY DEF Row
    <3>3. one[t] = IF t = at THEN add[f] ELSE 0
      OBVIOUS
    <3> HIDE DEF old, now, one
    <3>. QED BY <1>8, <2>1, <3>1, <3>2, <3>3
  <2>3. IsFiniteSet(P)
    BY Periods
  <2>4. at \in P => one[at] = add[f]
    OBVIOUS
  <2>5. /\ Held(new.samples, "5m", f, P) = SumFunctionOnSet(now, P)
        /\ Held(samples, "5m", f, P) = SumFunctionOnSet(old, P)
    BY DEF Held, Row
  <2> HIDE DEF old, now, one
  <2>6. SumFunctionOnSet(now, P) = SumFunctionOnSet(old, P) + SumFunctionOnSet(one, P)
    BY <2>2, <2>3, SumPlus
  <2>7. SumFunctionOnSet(one, P) = IF at \in P THEN add[f] ELSE 0
    <3>1. CASE at \in P
      <4>1. one[at] \in Nat /\ \A t \in P \ {at} : one[t] = 0
        BY <2>2, <3>1
      <4>2. SumFunctionOnSet(one, P) = one[at]
        BY <2>3, <3>1, <4>1, SumOne
      <4>. QED BY <2>4, <3>1, <4>2
    <3>2. CASE at \notin P
      <4>1. \A t \in P : one[t] = 0
        BY <2>2, <3>2
      <4>. QED BY <2>3, <3>2, <4>1, SumZero
    <3>. QED BY <3>1, <3>2
  <2>8. /\ Held(new.samples, "1h", f, P) = Held(samples, "1h", f, P)
        /\ Held(new.samples, "1d", f, P) = Held(samples, "1d", f, P)
    BY <1>3, <1>8, HeldAlike
  <2>9. \A b \in Bucket : Held(samples, b, f, P) \in Nat
    BY <1>1, RowsHold
  <2>10. CASE at \in P
    <3>1. Held(new.samples, "5m", f, P) = Held(samples, "5m", f, P) + add[f]
      BY <2>5, <2>6, <2>7, <2>10
    <3>2. TotalOf(new.samples, f, P) = TotalOf(samples, f, P) + add[f]
      BY <1>3, <2>1, <2>8, <2>9, <3>1 DEF TotalOf
    <3>. QED BY <2>1, <2>10, <3>2
  <2>11. CASE at \notin P
    <3>1. Held(new.samples, "5m", f, P) = Held(samples, "5m", f, P)
      BY <1>3, <2>5, <2>6, <2>7, <2>9, <2>11
    <3>2. TotalOf(new.samples, f, P) = TotalOf(samples, f, P) /\ TotalOf(samples, f, P) \in Nat
      BY <1>3, <2>8, <2>9, <3>1 DEF TotalOf
    <3>. QED BY <2>1, <2>11, <3>2
  <2>. QED BY <2>10, <2>11
<1>. QED BY <1>6, <1>8, <1>9 DEF new, at

-----------------------------------------------------------------------------
(* Types, for any number of polls *)

LEMMA TypesGive == TypeOK => CountTypes /\ samples \in Table
BY DEF TypeOK, CountTypes, Table

\* A table of samples stays one in the rest of a turn.
LEMMA ProceedSamples ==
    ASSUME NEW p \in Polls, NEW table \in Table, Proceed(p, table)
    PROVE  /\ samples' \in Table
           /\ samples' = table \/ samples' = Compacted(table, poll[p].reference)
<1>1. samples' = table \/ samples' = Compacted(table, poll[p].reference)
  BY DEF Proceed
<1>. QED BY <1>1, CompactTables

\* What a step makes of the samples: those of an answer are added in one bucket, with
\* what they count, and compact() may follow, or be cut off after one of its commits.
Recording(base, at) ==
    /\ at \in Time
    /\ base \in Table
    /\ counted' \in [Flow -> Nat]
    /\ \A f \in Flow, P \in SUBSET Time :
          /\ counted'[f] >= counted[f]
          /\ TotalOf(base, f, P) =
                TotalOf(samples, f, P) + IF at \in P THEN counted'[f] - counted[f] ELSE 0

LEMMA NothingRecorded ==
    ASSUME TypeOK, counted' = counted
    PROVE  Recording(samples, 0)
<1>1. samples \in Table /\ counted \in [Flow -> Nat] /\ 0 \in Time
  BY TrafficAssumption DEF TypeOK, Table, Time
<1>2. ASSUME NEW f \in Flow, NEW P \in SUBSET Time
      PROVE  TotalOf(samples, f, P) \in Nat
  BY <1>1, RowsHold DEF TotalOf, Bucket
<1>. QED BY <1>1, <1>2 DEF Recording

LEMMA AnswerRecorded ==
    ASSUME TypeOK, NEW p \in Polls, NEW flows \in SUBSET Asked(p),
           counted' = Recorded(p, flows).counted
    PROVE  /\ Recorded(p, flows).cursor \in [Flow -> Nat]
           /\ Recorded(p, flows).samples \in Table
           /\ \E at : Recording(Recorded(p, flows).samples, at)
<1> DEFINE at == Floor(poll[p].reference, FineLength)
           new == Recorded(p, flows)
<1>1. at \in Time
  BY FloorInTime, TrafficAssumption DEF TypeOK, Poll
<1>2. /\ new.cursor \in [Flow -> Nat]
      /\ new.counted \in [Flow -> Nat]
      /\ new.samples \in Table
      /\ \A f \in Flow, P \in SUBSET Time :
            /\ new.counted[f] >= counted[f]
            /\ TotalOf(new.samples, f, P) =
                  TotalOf(samples, f, P) + IF at \in P THEN new.counted[f] - counted[f] ELSE 0
  BY RecordedAdds
<1> HIDE DEF at, new
<1>3. counted' = new.counted
  BY DEF new
<1>4. Recording(new.samples, at)
  BY <1>1, <1>2, <1>3 DEF Recording
<1>. QED BY <1>2, <1>4 DEF new

\* How a turn, or its end in the middle, leaves the samples.
Left(base) ==
    \/ samples' = base
    \/ \E reference : samples' = Compacted(base, reference)
    \/ \E reference : \E n \in CutAfter : samples' = CompactCommits(base, reference)[n]

LEMMA StepRecords ==
    ASSUME TypeOK, [Next]_vars
    PROVE  \E base, at : Recording(base, at) /\ Left(base)
<1>1. CASE UNCHANGED <<samples, counted>>
  BY <1>1, NothingRecorded DEF Left
<1>2. ASSUME NEW p \in Polls, Deliver(p)
      PROVE  \E base, at : Recording(base, at) /\ Left(base)
  <2>1. PICK flows \in SUBSET Asked(p) :
           /\ counted' = Recorded(p, flows).counted
           /\ Proceed(p, Recorded(p, flows).samples)
    BY <1>2 DEF Deliver, Reports
  <2>2. /\ Recorded(p, flows).samples \in Table
        /\ \E at : Recording(Recorded(p, flows).samples, at)
    BY <2>1, AnswerRecorded
  <2>3. Left(Recorded(p, flows).samples)
    BY <2>1, <2>2, ProceedSamples DEF Left
  <2>. QED BY <2>2, <2>3
<1>3. ASSUME NEW p \in Polls, Fail(p)
      PROVE  \E base, at : Recording(base, at) /\ Left(base)
  <2>1. Recording(samples, 0) /\ samples \in Table
    BY <1>3, NothingRecorded, TypesGive DEF Fail
  <2>2. Left(samples)
    BY <1>3, <2>1, ProceedSamples DEF Left, Fail
  <2>. QED BY <2>1, <2>2
<1>4. ASSUME Crash, ~UNCHANGED <<samples, counted>>
      PROVE  \E base, at : Recording(base, at) /\ Left(base)
  <2>0. PICK p \in Polls : \E flows \in SUBSET Asked(p) :
           /\ counted' = Recorded(p, flows).counted
           /\ \/ samples' = Recorded(p, flows).samples
              \/ \E n \in CutAfter : samples' =
                    CompactCommits(Recorded(p, flows).samples, poll[p].reference)[n]
    BY <1>4 DEF Crash, tables
  <2>1. PICK flows \in SUBSET Asked(p) :
           /\ counted' = Recorded(p, flows).counted
           /\ \/ samples' = Recorded(p, flows).samples
              \/ \E n \in CutAfter : samples' =
                    CompactCommits(Recorded(p, flows).samples, poll[p].reference)[n]
    BY <2>0
  <2>2. \E at : Recording(Recorded(p, flows).samples, at)
    BY <2>1, AnswerRecorded
  <2>3. Left(Recorded(p, flows).samples)
    BY <2>1 DEF Left
  <2>. QED BY <2>2, <2>3
<1>. QED BY <1>1, <1>2, <1>3, <1>4
         DEF Next, vars, Tick, Carry, EngineRestarts, Begin, Answer, tables

LEMMA CutsAreCommits == \A n \in CutAfter : n \in 1..4
<1>1. CutAfter \subseteq 1..3
  BY TrafficAssumption
<1>. QED BY <1>1

LEMMA SamplesTyped ==
    ASSUME TypeOK, [Next]_vars
    PROVE  samples' \in Table /\ counted' \in [Flow -> Nat]
<1>1. PICK base, at : Recording(base, at) /\ Left(base)
  BY StepRecords
<1>2. base \in Table /\ counted' \in [Flow -> Nat]
  BY <1>1 DEF Recording
<1>3. \A reference : /\ \A n \in 1..4 : CompactCommits(base, reference)[n] \in Table
                     /\ Compacted(base, reference) \in Table
  BY <1>2, CompactTables
<1>. QED BY <1>1, <1>2, <1>3, CutsAreCommits DEF Left

LEMMA CursorTyped ==
    ASSUME TypeOK, [Next]_vars
    PROVE  cursor' \in [Flow -> Nat]
<1>1. CASE cursor' = cursor
  BY <1>1 DEF TypeOK
<1>2. CASE cursor' # cursor
  <2>1. PICK p \in Polls : \E flows \in SUBSET Asked(p) :
           /\ cursor' = Recorded(p, flows).cursor
           /\ counted' = Recorded(p, flows).counted
    BY <1>2 DEF Next, vars, tables, Tick, Carry, EngineRestarts, Begin, Answer,
                Deliver, Reports, Fail, Crash
  <2>. QED BY <2>1, AnswerRecorded
<1>. QED BY <1>1, <1>2

LEMMA PollTyped ==
    ASSUME TypeOK, [Next]_vars
    PROVE  poll' \in [Polls -> Poll]
<1>1. CountTypes /\ NoPoll \in Poll /\ clock \in Time /\ \A p \in Polls : poll[p] \in Poll
  BY TypesGive, PollTypes DEF TypeOK
<1>2. CASE poll' = poll
  BY <1>2 DEF TypeOK
<1>3. ASSUME NEW p \in Polls, Begin(p)
      PROVE  poll' \in [Polls -> Poll]
  <2> DEFINE new == [NoPoll EXCEPT !.stage = "asking", !.reference = clock]
  <2>1. new \in Poll
    BY <1>1 DEF Poll
  <2> HIDE DEF new
  <2>. QED BY <1>1, <1>3, <2>1 DEF Begin, CountTypes, new
<1>4. ASSUME NEW p \in Polls, Answer(p)
      PROVE  poll' \in [Polls -> Poll]
  <2> DEFINE s == [f \in Flow |-> IF f[1] = Engine(p) THEN counter[f] ELSE 0]
             new == [poll[p] EXCEPT !.stage = "answered", !.answer = s]
  <2>1. s \in [Flow -> Nat]
    BY DEF TypeOK
  <2>2. new \in Poll
    <3> HIDE DEF s
    <3>. QED BY <1>1, <2>1 DEF Poll
  <2>3. poll' = [poll EXCEPT ![p] = new]
    BY <1>4 DEF Answer, TypeOK
  <2> HIDE DEF new
  <2>. QED BY <1>1, <2>2, <2>3 DEF CountTypes
<1>5. ASSUME NEW p \in Polls, Deliver(p) \/ Fail(p)
      PROVE  poll' \in [Polls -> Poll]
  BY <1>1, <1>5, ProceedPolls DEF Deliver, Fail
<1>6. CASE Crash
  BY <1>1, <1>6 DEF Crash
<1>. QED BY <1>2, <1>3, <1>4, <1>5, <1>6 DEF Next, vars, Tick, Carry, EngineRestarts

\* The engines, the clock and the bounds.
LEMMA EnginesTyped ==
    ASSUME TypeOK, [Next]_vars
    PROVE  /\ clock' \in Time
           /\ carried' \in [Flow -> Nat]
           /\ counter' \in [Flow -> Nat]
           /\ restarts' \in 0..MaxRestarts
           /\ faults' \in 0..MaxFaults
<1>1. clock' \in Time
  BY ClockStep DEF TypeOK
<1>2. carried' \in [Flow -> Nat]
  <2>1. CASE carried' = carried
    BY <2>1 DEF TypeOK
  <2>2. ASSUME NEW f \in Flow, Carry(f)
        PROVE  carried' \in [Flow -> Nat]
    BY <2>2 DEF Carry, TypeOK
  <2>. QED BY <2>1, <2>2 DEF Next, vars, engines, Tick, EngineRestarts, Begin, Answer,
                             Deliver, Fail, Crash
<1>3. counter' \in [Flow -> Nat]
  <2>1. CASE counter' = counter
    BY <2>1 DEF TypeOK
  <2>2. ASSUME NEW f \in Flow, Carry(f)
        PROVE  counter' \in [Flow -> Nat]
    BY <2>2 DEF Carry, TypeOK
  <2>3. ASSUME NEW e \in Engines, EngineRestarts(e)
        PROVE  counter' \in [Flow -> Nat]
    BY <2>3 DEF EngineRestarts, TypeOK
  <2>. QED BY <2>1, <2>2, <2>3 DEF Next, vars, engines, Tick, Begin, Answer,
                                   Deliver, Fail, Crash
<1>4. restarts' \in 0..MaxRestarts
  <2>1. CASE restarts' = restarts
    BY <2>1 DEF TypeOK
  <2>2. ASSUME NEW e \in Engines, EngineRestarts(e)
        PROVE  restarts' \in 0..MaxRestarts
    BY <2>2, TrafficAssumption DEF EngineRestarts, TypeOK
  <2>. QED BY <2>1, <2>2 DEF Next, vars, engines, Tick, Carry, Begin, Answer,
                             Deliver, Fail, Crash
<1>5. faults' \in 0..MaxFaults
  <2>1. CASE faults' = faults
    BY <2>1 DEF TypeOK
  <2>2. CASE Fault
    BY <2>2, TrafficAssumption DEF Fault, TypeOK
  <2>. QED BY <2>1, <2>2 DEF Next, vars, Tick, Carry, EngineRestarts, Begin, Answer,
                             Deliver, Fail, Crash
<1>. QED BY <1>1, <1>2, <1>3, <1>4, <1>5

LEMMA TypeStep == TypeOK /\ [Next]_vars => TypeOK'
<1> SUFFICES ASSUME TypeOK, [Next]_vars PROVE TypeOK'
  OBVIOUS
<1>. QED BY SamplesTyped, CursorTyped, PollTyped, EnginesTyped DEF TypeOK, Table

LEMMA InitTypes == Init => TypeOK
<1> SUFFICES ASSUME Init PROVE TypeOK
  OBVIOUS
<1>1. Nothing \in [Flow -> Nat] /\ NoPoll \in Poll /\ 0 \in Time
  BY PollTypes, TrafficAssumption DEF Time
<1>. QED BY <1>1, TrafficAssumption DEF Init, TypeOK

\* For any number of polls under way at a time, the counters, cursors, samples and polls
\* keep their types: what is added up is always a number, and the bucket an answer is
\* filed in exists.
THEOREM TrafficTypeCorrect == Spec => []TypeOK
BY InitTypes, TypeStep, PTL DEF Spec

-----------------------------------------------------------------------------
(* The account of a flow *)

LEMMA AllTimeWhole == Whole(Time)
BY FloorInTime, TrafficAssumption DEF Whole

\* Without a compaction that is cut off, the total of all time grows by what is counted.
LEMMA TotalStep ==
    CutAfter = {} /\ TypeOK /\ TotalsKept /\ [Next]_vars => TotalsKept'
<1> SUFFICES ASSUME CutAfter = {}, TypeOK, TotalsKept, [Next]_vars, NEW f \in Flow
             PROVE  TotalOf(samples', f, Time) = counted'[f]
  BY DEF TotalsKept, Total
<1>1. PICK base, at : Recording(base, at) /\ Left(base)
  BY StepRecords
<1>2. /\ base \in Table
      /\ TotalOf(base, f, Time) = TotalOf(samples, f, Time) + counted'[f] - counted[f]
      /\ counted[f] \in Nat /\ counted'[f] \in Nat
  <2>1. counted[f] \in Nat
    BY DEF TypeOK
  <2>2. samples \in Table
    BY TypesGive
  <2>3. TotalOf(samples, f, Time) = counted[f]
    BY DEF TotalsKept, Total
  <2>. QED BY <1>1, <2>1, <2>3 DEF Recording
<1>3. TotalOf(base, f, Time) = counted'[f]
  BY <1>2 DEF TotalsKept, Total
<1>4. \A reference : TotalOf(Compacted(base, reference), f, Time) = TotalOf(base, f, Time)
  BY <1>2, AllTimeWhole, CompactKeeps
<1>. QED BY <1>1, <1>3, <1>4 DEF Left

LEMMA InitTotals == Init => TotalsKept
<1> SUFFICES ASSUME Init, NEW f \in Flow PROVE Total(f, Time) = counted[f]
  BY DEF TotalsKept
<1>1. \A b \in Bucket, t \in Time : samples[b][t][f] = 0
  BY DEF Init, Nothing
<1>2. \A b \in Bucket : Held(samples, b, f, Time) = 0
  <2> SUFFICES ASSUME NEW b \in Bucket PROVE Held(samples, b, f, Time) = 0
    OBVIOUS
  <2>1. \A t \in Time : Row(samples, b, f)[t] = 0
    BY <1>1 DEF Row
  <2>2. Held(samples, b, f, Time) = SumFunctionOnSet(Row(samples, b, f), Time)
    BY DEF Held, Row
  <2>. QED BY <2>1, <2>2, Periods, SumZero
<1>3. counted[f] = 0
  BY DEF Init, Nothing
<1>. QED BY <1>2, <1>3 DEF Total, TotalOf, Bucket

\* Unless a compaction is cut off between its commits, the samples of all time and sizes
\* add up to the deltas, however many polls overlap: each delta is in one bucket, and
\* rollup() and the deletions move it without changing it.
THEOREM NothingLostInSamples ==
    ASSUME CutAfter = {}
    PROVE  Spec => []TotalsKept
<1>1. TypeOK /\ TotalsKept /\ [Next]_vars => (TypeOK /\ TotalsKept)'
  BY TypeStep, TotalStep
<1>. QED BY <1>1, InitTypes, InitTotals, PTL DEF Spec

\* A day is whole: the hour of a moment, and its day, begin in its day.
LEMMA DaysWhole ==
    ASSUME NEW t \in Time
    PROVE  DayOf(t) \in SUBSET Time /\ Whole(DayOf(t))
<1>1. ASSUME NEW u \in Time
      PROVE  /\ Floor(u, HourLength) \in Time /\ Floor(u, DayLength) \in Time
             /\ Floor(Floor(u, HourLength), DayLength) = Floor(u, DayLength)
             /\ Floor(Floor(u, DayLength), DayLength) = Floor(u, DayLength)
  <2>1. /\ u \in Nat /\ HourLength \in Nat \ {0} /\ DayLength \in Nat \ {0}
        /\ DayLength % HourLength = 0
    BY Periods, TrafficAssumption
  <2>2. DayLength % DayLength = 0
    <3>1. 1 \in Nat /\ 0 \in Nat /\ 0 < DayLength /\ DayLength * 1 + 0 = DayLength
      BY <2>1
    <3>2. (DayLength * 1 + 0) % DayLength = 0
      BY <2>1, <3>1, EuclidUnique
    <3>. QED BY <3>1, <3>2
  <2>3. Floor(Floor(u, HourLength), DayLength) = Floor(u, DayLength)
    BY <2>1, FloorTwice
  <2>4. Floor(Floor(u, DayLength), DayLength) = Floor(u, DayLength)
    BY <2>1, <2>2, FloorTwice
  <2>. QED BY <2>1, <2>3, <2>4, FloorInTime
<1>. QED BY <1>1 DEF DayOf, Whole

\* Whatever polls overlap and wherever a compaction is cut off, no step takes traffic from
\* a day: an hour's sample is filed in the day of the five-minute samples it was made of.
THEOREM DaysKept == Spec => DaysKeepTheirTraffic
<1> DEFINE Keeps == \A t \in Midnights, f \in Flow : Total(f, DayOf(t))' >= Total(f, DayOf(t))
<1>1. TypeOK /\ [Next]_vars => Keeps
  <2> SUFFICES ASSUME TypeOK, [Next]_vars, NEW t \in Midnights, NEW f \in Flow
               PROVE  TotalOf(samples', f, DayOf(t)) >= TotalOf(samples, f, DayOf(t))
    BY DEF Total, DayOf
  <2> DEFINE P == DayOf(t)
  <2>1. P \in SUBSET Time /\ Whole(P)
    BY DaysWhole DEF Midnights
  <2> HIDE DEF P
  <2>2. PICK base, at : Recording(base, at) /\ Left(base)
    BY StepRecords
  <2>3. base \in Table /\ samples \in Table /\ samples' \in Table
    BY <2>2, TypesGive, SamplesTyped DEF Recording
  <2>4. /\ TotalOf(base, f, P) \in Nat
        /\ TotalOf(samples, f, P) \in Nat
        /\ TotalOf(samples', f, P) \in Nat
    BY <2>1, <2>3, RowsHold DEF TotalOf, Bucket
  <2>5. TotalOf(base, f, P) >= TotalOf(samples, f, P)
    <3>1. counted[f] \in Nat /\ counted'[f] \in Nat /\ counted'[f] >= counted[f]
      BY <2>2 DEF TypeOK, Recording
    <3>2. TotalOf(base, f, P) =
             TotalOf(samples, f, P) + IF at \in P THEN counted'[f] - counted[f] ELSE 0
      BY <2>1, <2>2 DEF Recording
    <3>. QED BY <2>4, <3>1, <3>2
  <2>6. TotalOf(samples', f, P) >= TotalOf(base, f, P)
    <3>1. ASSUME NEW reference
          PROVE  /\ TotalOf(Compacted(base, reference), f, P) = TotalOf(base, f, P)
                 /\ \A n \in 1..4 :
                       TotalOf(CompactCommits(base, reference)[n], f, P) >= TotalOf(base, f, P)
      BY <2>1, <2>3, CompactKeeps
    <3>2. \A n \in CutAfter : n \in 1..4
      BY CutsAreCommits
    <3>3. CASE samples' = base
      BY <2>4, <3>3
    <3>4. CASE \E reference : samples' = Compacted(base, reference)
      BY <2>4, <3>1, <3>4
    <3>5. CASE \E reference : \E n \in CutAfter : samples' = CompactCommits(base, reference)[n]
      BY <3>1, <3>2, <3>5
    <3>. QED BY <2>2, <3>3, <3>4, <3>5 DEF Left
  <2>. QED BY <2>4, <2>5, <2>6 DEF P
<1>2. TypeOK /\ [Next]_vars => [Keeps]_vars
  BY <1>1
<1>. QED BY <1>2, InitTypes, TypeStep, PTL DEF Spec, DaysKeepTheirTraffic

=============================================================================
