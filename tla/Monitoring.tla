----------------------------- MODULE Monitoring -----------------------------
(***************************************************************************)
(* Incidents (services/monitoring.ts): a poll looks at the services, the   *)
(* disk and the certificate, and monitor_states remembers what has been    *)
(* seen and told, so that the journal gets one event for an incident and   *)
(* one for its end.                                                        *)
(*                                                                         *)
(* A poll is one turn after the awaited probe: it goes through the keys    *)
(* and for each writes the event, if there is one, and then the row.  The  *)
(* process may be killed between any two of these writes.                  *)
(***************************************************************************)
EXTENDS MonitorStates, Integers, FiniteSets, SequencesExt

CONSTANTS
    Services,       \* the services asked for
    Percents,       \* bound: how full the disk may be
    Days,           \* bound: the days left of the certificate, less than none once it has expired
    Unread,         \* instead of them when the certificate cannot be read
    MaxKills        \* bound: times the process is killed during a poll

ASSUME MonitoringAssumption ==
    /\ Services \cap {"disk", "tls"} = {}
    /\ IsFiniteSet(Services)
    /\ Percents \subseteq 0..100
    /\ Days \subseteq Int
    /\ Unread \notin Int \cup BOOLEAN
    /\ MaxKills \in Nat

VARIABLES
    monitor,        \* the rows of monitor_states
    told,           \* history: the last two events of each key in the journal
    seen,           \* history: the last two observations of each key
    torn,           \* history: keys whose event was written and the row was not
    kills           \* spent so far

monitoringVars == <<monitor, told, seen, torn, kills>>

Keys == Services \cup {"disk", "tls"}

\* What a poll finds: the services that are active, the disk and the certificate.
Findings == [up : SUBSET Services, disk : Percents, tls : Days \cup {Unread}]

Of(found, k) ==
    CASE k = "disk" -> found.disk
      [] k = "tls" -> found.tls
      [] OTHER -> k \in found.up

Level(percent) ==
    IF percent >= 95 THEN "critical" ELSE IF percent >= 85 THEN "warning"
    ELSE IF percent < 80 THEN "healthy" ELSE "hold"

\* More than 95 %, 85 % and 80 % are meant.
Bug_DiskLevel(percent) == Level(percent - 1)

DiskLevel(percent) == Level(percent)

TlsLevel(days) ==
    IF days < 7 THEN "critical" ELSE IF days < 30 THEN "warning" ELSE "healthy"

\* observeThreshold(): the count is of one level.  held is the level the count is for
\* after an observation in the hysteresis band.
Measured(row, level, held) ==
    CASE level = "hold" ->
            Result([status |-> Held(row, "healthy"), failures |-> row.failures, target |-> held],
                   "none")
      [] level = "healthy" ->
            Result([status |-> "healthy", failures |-> 0, target |-> "none"],
                   IF row.status \in Alarms THEN "restored" ELSE "none")
      [] OTHER ->
            LET failures == IF row.target = level THEN Counted(row.failures) ELSE 1
            IN  Result([status |-> IF failures = 2 THEN level ELSE Held(row, "baseline"),
                        failures |-> failures, target |-> level],
                       IF failures = 2 /\ row.status # level THEN level ELSE "none")

\* The end of an incident is told at each poll that finds nothing wrong.
Bug_ThresholdRestored(row, level) ==
    IF level = "healthy" THEN [Measured(row, level, "none") EXCEPT !.event = "restored"]
    ELSE Measured(row, level, "none")

\* The row keeps the level it counts.
Bug_ThresholdHeld(row, level) == Measured(row, level, row.target)

\* data is written as it was measured, without the level.
Threshold(row, level) == Measured(row, level, "none")

Observed(k, found) ==
    LET row == monitor[k]
    IN  CASE k = "disk" -> Threshold(row, DiskLevel(found))
          [] k = "tls" -> IF found = Unread THEN Result(row, "none")
                          ELSE Threshold(row, TlsLevel(found))
          [] OTHER -> Answered(row, found)

-----------------------------------------------------------------------------

MonitoringInit ==
    /\ monitor = [k \in Keys |-> NoRow]
    /\ told = [k \in Keys |-> <<>>]
    /\ seen = [k \in Keys |-> <<>>]
    /\ torn = {}
    /\ kills = 0

\* Of what a poll has found, the events of some keys and the rows of some are written.
Write(found, events, rows) ==
    LET result == [k \in Keys |-> Observed(k, Of(found, k))]
    IN  /\ monitor' = [k \in Keys |-> IF k \in rows THEN result[k].row ELSE monitor[k]]
        /\ told' = [k \in Keys |->
               IF k \in events /\ result[k].event # "none"
               THEN LastTwo(Append(told[k], result[k].event)) ELSE told[k]]
        /\ LET half == {k \in events \ rows : result[k].event # "none"}
           IN  /\ seen' = [k \in Keys |->
                      IF k \in rows \cup half /\ Of(found, k) # Unread
                      THEN LastTwo(Append(seen[k], Of(found, k))) ELSE seen[k]]
               /\ torn' = torn \cup half

\* collect(), after its await.
Collect ==
    /\ \E found \in Findings : Write(found, Keys, Keys)
    /\ UNCHANGED kills

\* The order of a poll: the services, the disk, the certificate.
InOrder(keys) ==
    /\ "disk" \in keys => Services \subseteq keys
    /\ "tls" \in keys => "disk" \in keys

\* The process is killed in the middle: rows of some keys have been written, and perhaps
\* the event of the next.
KilledWhile ==
    /\ kills < MaxKills
    /\ \E rows, events \in {keys \in SUBSET Keys : InOrder(keys)} :
          /\ rows \subseteq events
          /\ Cardinality(events \ rows) <= 1
          /\ \E found \in Findings : Write(found, events, rows)
    /\ kills' = kills + 1

MonitoringNext == Collect \/ KilledWhile

MonitoringSpec == MonitoringInit /\ [][MonitoringNext]_monitoringVars

-----------------------------------------------------------------------------
(* Properties *)

MonitoringTypeOK ==
    /\ monitor \in [Keys -> Row]
    /\ told \in [Keys -> Seq(Alarms \cup {"restored"})]
    /\ \A k \in Services : seen[k] \in Seq(BOOLEAN)
    /\ seen["disk"] \in Seq(Percents)
    /\ seen["tls"] \in Seq(Days)
    /\ torn \subseteq Keys
    /\ kills \in 0..MaxKills

\* What is wrong with an observation, as ARCHITECTURE.md has it: 85 % and 95 % of the disk
\* or less than 30 and 7 days of the certificate.
Wrong(k, found) ==
    CASE k = "disk" /\ found >= 95 -> "critical"
      [] k = "disk" /\ found \in 85..94 -> "warning"
      [] k = "tls" /\ found < 7 -> "critical"
      [] k = "tls" /\ found \in 7..29 -> "warning"
      [] k \in Services /\ ~found -> "unavailable"
      [] OTHER -> "nothing"

Twice(k, found, alarm) == Len(found) = 2 /\ \A i \in 1..2 : Wrong(k, found[i]) = alarm

\* Nobody is told twice of one incident, nor of the end of one he was not told of, except
\* after a kill between an event and its row (observeService, observeThreshold).
IncidentsAlternate ==
    \A k \in Keys \ torn :
        /\ Len(told[k]) = 2 => told[k][1] # told[k][2]
        /\ \A i \in DOMAIN told[k] :
               told[k][i] = "restored" /\ (i = 2 \/ Len(told[k]) = 1) =>
                   i = 2 /\ told[k][1] \in Alarms

\* An incident is told when the same thing was wrong at two polls in a row, across restarts
\* and with no poll in the hysteresis band between them, and not before.
IncidentsConfirmed ==
    [][\A k \in Keys \ torn :
          told'[k] # told[k] /\ Last(told'[k]) \in Alarms =>
              Twice(k, seen'[k], Last(told'[k]))]_monitoringVars

\* What is wrong twice in a row has been told, and is not left open by a poll that finds it
\* well: the disk is well below 80 % and not between 80 % and 85 %.
IncidentsTold ==
    \A k \in Keys \ torn : seen[k] # <<>> =>
        /\ \A alarm \in Alarms : Twice(k, seen[k], alarm) => told[k] # <<>> /\ Last(told[k]) = alarm
        /\ /\ Wrong(k, Last(seen[k])) = "nothing"
           /\ k = "disk" => Last(seen[k]) < 80
           => told[k] = <<>> \/ Last(told[k]) = "restored"
=============================================================================
