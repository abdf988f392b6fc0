------------------------------ MODULE Presence ------------------------------
(***************************************************************************)
(* Presence of devices (services/traffic.ts): what the polls of the two    *)
(* engines say of each device, what is concluded of it, and what the       *)
(* journal tells: seen for the first time, absent for a day, returned.     *)
(*                                                                         *)
(* A poll asks Hysteria, then Xray, and awaits each.  What it writes bears *)
(* the time it began at.  The timer does not wait for the poll before.     *)
(* The bytes that the same polls count are in Traffic.                     *)
(***************************************************************************)
EXTENDS MonitorStates, FiniteSetsExt

CONSTANTS
    Devices,
    Polls,          \* polls that can be under way at a time
    Window,         \* how long traffic through Xray keeps a device online
    Day,            \* how long a device must be away for the journal to say so
    MaxTime,        \* bound: the clock
    MaxBreaks       \* bound: devices that are revoked and ends of the process

ASSUME PresenceAssumption ==
    /\ IsFiniteSet(Devices)
    /\ Devices \cap {"hysteria", "xray"} = {}
    /\ Window \in Nat
    /\ Day \in Nat
    /\ Window < Day
    /\ MaxTime \in Nat \ {0}
    /\ MaxBreaks \in Nat

VARIABLES
    now,            \* the clock
    polls,          \* for each poll the engine it awaits and when it began
    active,         \* active devices of people who are not archived
    presence,       \* the rows of device_presence
    facts,          \* first_seen_at, last_seen_at and absence_notified_at of each device
    telemetry,      \* the rows of monitor_states for the two engines
    news,           \* history: the last two events of each device and engine
    activity,       \* history: the time of the last answer that showed a device active
    unfinished,     \* history: devices of which a poll has taken one answer and not the other
    breaks          \* spent so far

presenceVars == <<now, polls, active, presence, facts, telemetry, news, activity,
                  unfinished, breaks>>

Engines == {"hysteria", "xray"}
Never == 0
Time == 0..MaxTime

Poll == [awaits : Engines \cup {"none"}, reference : Time]
NoPresence == [status |-> "none", misses |-> 0, lastActive |-> Never]
Presence == [status : {"online", "offline", "unknown"}, misses : 0..2, lastActive : Time]
            \cup {NoPresence}
Facts == [seen : BOOLEAN, lastSeen : Time, notified : BOOLEAN]

PresenceTypeOK ==
    /\ now \in Time
    /\ polls \in [Polls -> Poll]
    /\ active \subseteq Devices
    /\ presence \in [Devices -> [Engines -> Presence]]
    /\ facts \in [Devices -> Facts]
    /\ telemetry \in [Engines -> Row]
    /\ news \in [Devices \cup Engines ->
                 Seq({"first", "returned", "absent", "unavailable", "restored"})]
    /\ activity \in [Devices -> Time]
    /\ unfinished \subseteq Devices
    /\ breaks \in 0..MaxBreaks

PresenceInit ==
    /\ now = 1
    /\ polls = [p \in Polls |-> [awaits |-> "none", reference |-> Never]]
    /\ active = Devices
    /\ presence = [d \in Devices |-> [e \in Engines |-> NoPresence]]
    /\ facts = [d \in Devices |-> [seen |-> FALSE, lastSeen |-> Never, notified |-> FALSE]]
    /\ telemetry = [e \in Engines |-> NoRow]
    /\ news = [s \in Devices \cup Engines |-> <<>>]
    /\ activity = [d \in Devices |-> Never]
    /\ unfinished = {}
    /\ breaks = 0

-----------------------------------------------------------------------------
(* What an answer says of a device *)

\* updateHysteriaPresence(): connected, or one more answer without a connection.
OfConnections(row, connected, reference) ==
    IF connected THEN [status |-> "online", misses |-> 0, lastActive |-> reference]
    ELSE LET misses == Counted(row.misses)
         IN  [status |-> IF misses = 2 THEN "offline" ELSE Held(row, "unknown"),
              misses |-> misses, lastActive |-> row.lastActive]

\* updateXrayPresence(): traffic now, or not long ago.
OfTraffic(row, moved, reference) ==
    LET lastActive == IF moved THEN reference ELSE row.lastActive
    IN  [status |-> IF lastActive # Never /\ reference <= lastActive + Window
                    THEN "online" ELSE "offline",
         misses |-> 0, lastActive |-> lastActive]

\* No answer counts as no connection.
Bug_UnansweredMisses(row) == OfConnections(row, FALSE, Never)

\* markUnknown()
Unanswered(row) == [row EXCEPT !.status = "unknown"]

Online(rows) == {e \in Engines : rows[e].status = "online"}

\* One engine is enough to be online, and both have to know better to be offline.
Aggregate(rows) ==
    IF Online(rows) # {} THEN "online"
    ELSE IF \A e \in Engines : rows[e].status \in {"none", "offline"} THEN "offline"
    ELSE "unknown"

Latest(rows) == Max({rows[e].lastActive : e \in Online(rows)})

\* The facts of a device after a poll, and the event if there is one.
Concluded(f, status, lastSeen, absent) ==
    CASE status = "online" ->
            [facts |-> [seen |-> TRUE, lastSeen |-> lastSeen, notified |-> FALSE],
             event |-> IF ~f.seen THEN "first" ELSE IF f.notified THEN "returned" ELSE "none"]
      [] status = "offline" /\ f.lastSeen # Never /\ absent ->
            [facts |-> [f EXCEPT !.notified = TRUE], event |-> "absent"]
      [] OTHER -> [facts |-> f, event |-> "none"]

\* The time of the poll is written.
Bug_ConclusionOfPoll(f, rows, reference) ==
    Concluded(f, Aggregate(rows), reference, ~f.notified /\ reference >= f.lastSeen + Day)

\* It is told again at each poll.
Bug_ConclusionAgain(f, rows, reference) ==
    Concluded(f, Aggregate(rows), Latest(rows), reference >= f.lastSeen + Day)

\* updateDeviceFacts()
Conclusion(f, rows, reference) ==
    Concluded(f, Aggregate(rows), Latest(rows), ~f.notified /\ reference >= f.lastSeen + Day)

-----------------------------------------------------------------------------
(* Polls *)

\* collect()
Begin(p) ==
    /\ polls[p].awaits = "none"
    /\ polls' = [polls EXCEPT ![p] = [awaits |-> "hysteria", reference |-> now]]
    /\ UNCHANGED <<now, active, presence, facts, telemetry, news, activity, unfinished,
                   breaks>>

\* The turn after an await: the rows of the active devices and of the engine, and after
\* the last engine the conclusions.
Turn(p, e, answers, row) ==
    LET reference == polls[p].reference
        rows == [d \in Devices |->
            IF d \in active THEN [presence[d] EXCEPT ![e] = row[d]] ELSE presence[d]]
        engine == Answered(telemetry[e], answers)
        concluded == [d \in Devices |->
            IF d \in active /\ e = "xray" THEN Conclusion(facts[d], rows[d], reference)
            ELSE [facts |-> facts[d], event |-> "none"]]
        Event(s) == IF s = e THEN engine.event
                    ELSE IF s \in Devices THEN concluded[s].event ELSE "none"
    IN  /\ polls[p].awaits = e
        /\ polls' = [polls EXCEPT ![p].awaits = IF e = "hysteria" THEN "xray" ELSE "none"]
        /\ presence' = rows
        /\ telemetry' = [telemetry EXCEPT ![e] = engine.row]
        /\ facts' = [d \in Devices |-> concluded[d].facts]
        /\ news' = [s \in Devices \cup Engines |->
               IF Event(s) = "none" THEN news[s] ELSE LastTwo(Append(news[s], Event(s)))]
        /\ UNCHANGED <<now, active, unfinished, breaks>>

\* What an answer shows.
Shown(p, devices) ==
    activity' = [d \in Devices |-> IF d \in devices /\ activity[d] < polls[p].reference
                                   THEN polls[p].reference ELSE activity[d]]

HysteriaAnswers(p) ==
    \E connected \in SUBSET active :
        /\ Turn(p, "hysteria", TRUE, [d \in Devices |->
               OfConnections(presence[d]["hysteria"], d \in connected, polls[p].reference)])
        /\ Shown(p, connected)

XrayAnswers(p) ==
    \E moved \in SUBSET active :
        /\ Turn(p, "xray", TRUE, [d \in Devices |->
               OfTraffic(presence[d]["xray"], d \in moved, polls[p].reference)])
        /\ Shown(p, moved)

Fails(p) ==
    /\ \E e \in Engines : Turn(p, e, FALSE, [d \in Devices |-> Unanswered(presence[d][e])])
    /\ UNCHANGED activity

-----------------------------------------------------------------------------

Tick ==
    /\ now < MaxTime
    /\ now' = now + 1
    /\ UNCHANGED <<polls, active, presence, facts, telemetry, news, activity, unfinished,
                   breaks>>

\* A poll under way takes only one answer of these devices.
Split(devices) ==
    unfinished' = IF \E p \in Polls : polls[p].awaits = "xray"
                  THEN unfinished \cup devices ELSE unfinished

\* The device is revoked or its owner archived: the rows stay.
Pause(d) ==
    /\ d \in active
    /\ breaks < MaxBreaks
    /\ active' = active \ {d}
    /\ breaks' = breaks + 1
    /\ Split({d})
    /\ UNCHANGED <<now, polls, presence, facts, telemetry, news, activity>>

\* It is invited again and activated.
Resume(d) ==
    /\ d \notin active
    /\ active' = active \cup {d}
    /\ Split({d})
    /\ UNCHANGED <<now, polls, presence, facts, telemetry, news, activity, breaks>>

\* The process ends and starts again.
Crash ==
    /\ breaks < MaxBreaks
    /\ breaks' = breaks + 1
    /\ polls' = [p \in Polls |-> [polls[p] EXCEPT !.awaits = "none"]]
    /\ Split(active)
    /\ UNCHANGED <<now, active, presence, facts, telemetry, news, activity>>

PresenceNext ==
    \/ Tick
    \/ \E p \in Polls : Begin(p) \/ HysteriaAnswers(p) \/ XrayAnswers(p) \/ Fails(p)
    \/ \E d \in Devices : Pause(d) \/ Resume(d)
    \/ Crash

PresenceSpec == PresenceInit /\ [][PresenceNext]_presenceVars

-----------------------------------------------------------------------------
(* Properties *)

\* In the journal of a device, its first appearance comes once and first, and absence and
\* return take turns; of an engine, failure and recovery do (updateDeviceFacts,
\* telemetryFailure, telemetrySuccess).
NewsAlternate ==
    LET Follows == {<<"first", "absent">>, <<"absent", "returned">>, <<"returned", "absent">>,
                    <<"unavailable", "restored">>, <<"restored", "unavailable">>}
    IN  \A s \in Devices \cup Engines :
            /\ Len(news[s]) = 2 => <<news[s][1], news[s][2]>> \in Follows
            /\ Len(news[s]) = 1 => news[s][1] \in {"first", "unavailable"}

\* A device said to be absent for a day has shown nothing to any answer for a day less the
\* window, and both engines have just answered: a failed poll says nothing of a device.
\* A poll that the process did not finish may be forgotten (updateDeviceFacts).
AbsenceIsReal ==
    [][\A d \in Devices \ unfinished :
          ~facts[d].notified /\ facts'[d].notified =>
              /\ \A p \in Polls : polls[p].awaits = "xray" /\ polls'[p].awaits = "none" =>
                     polls[p].reference + Window >= activity'[d] + Day
              /\ \A e \in Engines : telemetry'[e].failures = 0]_presenceVars

\* last_seen_at is when an answer showed the device active, never the time of a poll that
\* did not; between polls it is behind what has been shown by no more than the window.
LastSeenIsActivity ==
    \A d \in Devices :
        /\ facts[d].lastSeen <= activity[d]
        /\ (\A p \in Polls : polls[p].awaits = "none") /\ d \notin unfinished =>
               activity[d] <= facts[d].lastSeen + Window

=============================================================================
