--------------------------- MODULE MonitorStates ---------------------------
(***************************************************************************)
(* The rows of monitor_states, which services/monitoring.ts keeps for the  *)
(* services, the disk and the certificate, and services/traffic.ts for the *)
(* answers of the engines.                                                 *)
(***************************************************************************)
EXTENDS Naturals, Sequences

Alarms == {"unavailable", "warning", "critical"}

\* Of the count only one and more matter.
NoRow == [status |-> "none", failures |-> 0, target |-> "none"]
Row == [status : {"baseline", "available", "healthy"} \cup Alarms,
        failures : 0..2, target : {"none", "warning", "critical"}] \cup {NoRow}

Counted(n) == IF n < 2 THEN n + 1 ELSE n

\* The status until the count suffices.
Held(row, initial) == IF row.status = "none" THEN initial ELSE row.status

\* A row after an observation and the event it makes, if any.
Result(row, event) == [row |-> row, event |-> event]

\* observeService(), and telemetryFailure() and telemetrySuccess() of traffic.ts.
Answered(row, answers) ==
    IF answers
    THEN Result([status |-> "available", failures |-> 0, target |-> "none"],
                IF row.status = "unavailable" THEN "restored" ELSE "none")
    ELSE LET failures == Counted(row.failures)
         IN  Result([status |-> IF failures = 2 THEN "unavailable" ELSE Held(row, "baseline"),
                     failures |-> failures, target |-> "none"],
                    IF failures = 2 /\ row.status # "unavailable" THEN "unavailable" ELSE "none")

\* Of the journal, the models keep the last two events of each subject.
LastTwo(s) == IF Len(s) > 2 THEN Tail(s) ELSE s

=============================================================================
