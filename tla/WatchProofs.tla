---------------------------- MODULE WatchProofs ----------------------------
(***************************************************************************)
(* What holds of Monitoring and of Presence for all values of their        *)
(* constants; with one poll at a time, also that what is said of a device, *)
(* when it was last seen and that it is absent, is what it has shown.      *)
(***************************************************************************)
EXTENDS Presence, Monitoring, SequenceTheorems, TLAPS

\* The last two events of a longer history.
LEMMA LastTwoOfAppend ==
    ASSUME NEW S, NEW s \in Seq(S), Len(s) <= 2, NEW e \in S
    PROVE  /\ LastTwo(Append(s, e)) \in Seq(S)
           /\ Len(LastTwo(Append(s, e))) = IF s = <<>> THEN 1 ELSE 2
           /\ LastTwo(Append(s, e))[Len(LastTwo(Append(s, e)))] = e
           /\ s # <<>> => LastTwo(Append(s, e))[1] = s[Len(s)]
<1> DEFINE t == Append(s, e)
<1>1. /\ t \in Seq(S)
      /\ t # <<>>
      /\ Len(t) = Len(s) + 1
      /\ \A i \in 1..Len(s) : t[i] = s[i]
      /\ t[Len(s) + 1] = e
  BY AppendProperties
<1>2. s = <<>> <=> Len(s) = 0
  BY EmptySeq
<1>0. Len(s) \in Nat
  BY LenProperties
<1> HIDE DEF t
<1>3. CASE Len(s) = 2
  <2>1. /\ Tail(t) \in Seq(S)
        /\ Len(Tail(t)) = 2
        /\ \A i \in 1..2 : Tail(t)[i] = t[i + 1]
    BY <1>1, <1>3, HeadTailProperties, Len(t) - 1 = 2
  <2>2. LastTwo(t) = Tail(t)
    BY <1>1, <1>3 DEF LastTwo
  <2>3. Tail(t)[1] = t[2] /\ Tail(t)[2] = t[3]
    BY <2>1
  <2>4. Tail(t)[1] = s[2] /\ Tail(t)[2] = e
    BY <2>3, <1>1, <1>3
  <2> QED
    BY <2>1, <2>2, <2>4, <1>2, <1>0, <1>3 DEF t
<1>4. CASE Len(s) < 2
  <2>1. LastTwo(t) = t
    BY <1>1, <1>2, <1>0, <1>4 DEF LastTwo
  <2>2. t[Len(t)] = e
    BY <1>1
  <2>3. CASE s = <<>>
    BY <2>1, <2>2, <2>3, <1>1, <1>2, <1>0 DEF t
  <2>4. CASE Len(s) = 1
    <3>1. s # <<>> /\ Len(t) = 2 /\ t[1] = s[1]
      BY <1>1, <1>2, <1>0, <2>4
    <3> QED
      BY <2>1, <2>2, <2>4, <3>1, <1>1 DEF t
  <2> QED
    <3>1. \A n \in Nat : n < 2 => n = 0 \/ n = 1
      OBVIOUS
    <3> QED
      BY ONLY <3>1, <1>2, <1>0, <1>4, <2>3, <2>4
<1>5. QED
  <2>1. Len(s) < 2 \/ Len(s) = 2
    BY <1>2, <1>0
  <2> QED
    BY ONLY <2>1, <1>3, <1>4, Zenon

-----------------------------------------------------------------------------
(* Monitoring *)

News == Alarms \cup {"restored"}

\* What an observation of a key can be.
Seen(k) == CASE k = "disk" -> Percents [] k = "tls" -> Days [] OTHER -> BOOLEAN

\* The row is in an alarm exactly while the last event of the key is that alarm.
Told(status, t) ==
    /\ t \in Seq(News) /\ Len(t) <= 2
    /\ status \in Alarms => t # <<>> /\ t[Len(t)] = status
    /\ status \notin Alarms => t = <<>> \/ t[Len(t)] = "restored"
    /\ Len(t) = 1 => t[1] # "restored"
    /\ Len(t) = 2 => t[1] # t[2]

\* The row counts what was wrong at the last observation, and one that has counted to two is
\* in the alarm.
Counts(k, row, s) ==
    /\ s \in Seq(Seen(k)) /\ Len(s) <= 2
    /\ k \in Services => row.target = "none" /\ row.status \notin {"warning", "critical"}
    /\ s = <<>> => row.failures = 0 /\ row.target = "none"
    /\ s # <<>> =>
        LET wrong == Wrong(k, s[Len(s)])
        IN  /\ wrong # "nothing" => row.failures >= 1 /\ (k \notin Services => row.target = wrong)
            /\ wrong = "nothing" => row.target = "none"
            /\ wrong = "nothing" /\ (k = "disk" => s[Len(s)] < 80) =>
                   row.failures = 0 /\ row.status \notin Alarms
            /\ \A alarm \in Alarms : Twice(k, s, alarm) => row.failures = 2
            /\ wrong # "nothing" /\ row.failures = 2 => row.status = wrong

KeyInv(k) == Told(monitor[k].status, told[k]) /\ Counts(k, monitor[k], seen[k])

MonitoringInv ==
    /\ monitor \in [Keys -> Row]
    /\ told \in [Keys -> Seq(News)]
    /\ DOMAIN seen = Keys
    /\ \A k \in Keys : Len(told[k]) <= 2 /\ seen[k] \in Seq(Seen(k)) /\ Len(seen[k]) <= 2
    /\ torn \subseteq Keys
    /\ kills \in 0..MaxKills
    /\ \A k \in Keys \ torn : KeyInv(k)

\* The level of an observation is what is wrong with it.
LEMMA LevelIsWrong ==
    ASSUME NEW k \in {"disk", "tls"}, NEW found \in Seen(k)
    PROVE  LET level == IF k = "disk" THEN DiskLevel(found) ELSE TlsLevel(found)
               wrong == Wrong(k, found)
           IN  /\ level \in {"critical", "warning", "healthy", "hold"}
               /\ level \in {"critical", "warning"} => wrong = level
               /\ level \in {"healthy", "hold"} => wrong = "nothing"
               /\ level = "hold" => k = "disk" /\ found >= 80
<1>1. CASE k = "disk"
  <2>1. found \in 0..100
    BY <1>1, MonitoringAssumption DEF Seen
  <2>2. "disk" \notin Services
    BY MonitoringAssumption
  <2> QED
    BY <1>1, <2>1, <2>2 DEF DiskLevel, Level, Wrong
<1>2. CASE k = "tls"
  <2>1. found \in Int
    BY <1>2, MonitoringAssumption DEF Seen
  <2>2. "tls" \notin Services
    BY MonitoringAssumption
  <2> QED
    BY <1>2, <2>1, <2>2 DEF TlsLevel, Wrong
<1>3. QED
  BY <1>1, <1>2

\* An event, if there is one, keeps the two sides of Told together.
LEMMA ToldStep ==
    ASSUME NEW status, NEW t, Told(status, t),
           NEW new, NEW event,
           \/ event \in Alarms /\ event # status /\ new = event
           \/ event = "restored" /\ status \in Alarms /\ new \notin Alarms
    PROVE  Told(new, LastTwo(Append(t, event)))
<1>1. event \in News
  BY DEF News
<1>2. t \in Seq(News) /\ Len(t) <= 2
  BY DEF Told
<1> DEFINE u == LastTwo(Append(t, event))
<1>3. /\ u \in Seq(News)
      /\ Len(u) = IF t = <<>> THEN 1 ELSE 2
      /\ u[Len(u)] = event
      /\ t # <<>> => u[1] = t[Len(t)]
  BY <1>1, <1>2, LastTwoOfAppend
<1>4. "restored" \notin Alarms
  BY DEF Alarms
<1> HIDE DEF u
<1>5. u # <<>>
  BY <1>3, EmptySeq
<1>6. ASSUME t = <<>> PROVE Told(new, u)
  <2>1. event \in Alarms /\ new = event
    BY <1>6 DEF Told
  <2> QED
    BY <1>3, <1>4, <1>5, <1>6, <2>1 DEF Told
<1>7. ASSUME t # <<>> PROVE Told(new, u)
  <2>1. t[Len(t)] # event
    BY <1>4, <1>7 DEF Told
  <2>2. Len(u) = 2 /\ u[2] = event /\ u[1] # event
    BY <1>3, <1>7, <2>1
  <2>3. new \in Alarms => event = new
    BY <1>4
  <2>4. new \notin Alarms => event = "restored"
    BY <1>4
  <2> QED
    BY <1>3, <1>5, <2>2, <2>3, <2>4 DEF Told
<1>8. QED
  BY <1>6, <1>7 DEF u

\* An observation is remembered: the last one is it, and two of a kind are it and the one
\* before it.
LEMMA SeenStep ==
    ASSUME NEW k, NEW s \in Seq(Seen(k)), Len(s) <= 2, NEW found \in Seen(k)
    PROVE  LET u == LastTwo(Append(s, found))
           IN  /\ u \in Seq(Seen(k)) /\ Len(u) <= 2 /\ u # <<>> /\ u[Len(u)] = found
               /\ \A alarm : Twice(k, u, alarm) <=>
                      s # <<>> /\ Wrong(k, s[Len(s)]) = alarm /\ Wrong(k, found) = alarm
<1> DEFINE u == LastTwo(Append(s, found))
<1>1. /\ u \in Seq(Seen(k))
      /\ Len(u) = IF s = <<>> THEN 1 ELSE 2
      /\ u[Len(u)] = found
      /\ s # <<>> => u[1] = s[Len(s)]
  BY LastTwoOfAppend
<1> HIDE DEF u
<1>2. Len(u) <= 2 /\ u # <<>>
  BY <1>1, EmptySeq
<1>3. ASSUME NEW alarm
      PROVE  Twice(k, u, alarm) <=>
                 s # <<>> /\ Wrong(k, s[Len(s)]) = alarm /\ Wrong(k, found) = alarm
  <2>1. CASE s = <<>>
    BY <1>1, <2>1 DEF Twice
  <2>2. CASE s # <<>>
    <3>1. Len(u) = 2 /\ u[1] = s[Len(s)] /\ u[2] = found
      BY <1>1, <2>2
    <3>2. \A i \in 1..2 : i = 1 \/ i = 2
      OBVIOUS
    <3> HIDE DEF Twice
    <3> QED
      BY <2>2, <3>1, <3>2 DEF Twice
  <2> QED
    BY <2>1, <2>2
<1>4. QED
  BY <1>1, <1>2, <1>3 DEF u

\* What is to be shown of one observation.
Good(k, t, s, found, r) ==
    /\ r.row \in Row
    /\ r.event \in News \cup {"none"}
    /\ Counts(k, r.row, LastTwo(Append(s, found)))
    /\ Told(r.row.status, IF r.event = "none" THEN t ELSE LastTwo(Append(t, r.event)))
    /\ r.event \in Alarms => Twice(k, LastTwo(Append(s, found)), r.event)

LEMMA RowFields ==
    ASSUME NEW row \in Row
    PROVE  /\ row.failures \in 0..2
           /\ row.target \in {"none", "warning", "critical"}
           /\ row.status \in {"none", "baseline", "available", "healthy"} \cup Alarms
BY DEF Row, NoRow

LEMMA NewRow ==
    ASSUME NEW status \in {"baseline", "available", "healthy"} \cup Alarms,
           NEW failures \in 0..2, NEW target \in {"none", "warning", "critical"}
    PROVE  [status |-> status, failures |-> failures, target |-> target] \in Row
BY DEF Row

\* observeService()
LEMMA ServiceStep ==
    ASSUME NEW k \in Services, NEW row \in Row, NEW t, NEW s,
           Told(row.status, t), Counts(k, row, s), NEW found \in Seen(k)
    PROVE  Good(k, t, s, found, Answered(row, found))
<1> DEFINE u == LastTwo(Append(s, found))
<1>1. k \notin {"disk", "tls"}
  BY MonitoringAssumption
<1>2. Seen(k) = BOOLEAN
  BY <1>1 DEF Seen
<1>3. \A f \in BOOLEAN : Wrong(k, f) = IF f THEN "nothing" ELSE "unavailable"
  BY <1>1 DEF Wrong
<1>4. s \in Seq(BOOLEAN) /\ Len(s) <= 2
  BY <1>2 DEF Counts
<1>5. /\ u \in Seq(Seen(k)) /\ Len(u) <= 2 /\ u # <<>> /\ u[Len(u)] = found
      /\ \A alarm : Twice(k, u, alarm) <=>
             s # <<>> /\ Wrong(k, s[Len(s)]) = alarm /\ Wrong(k, found) = alarm
  BY <1>2, <1>4, SeenStep
<1> HIDE DEF u
<1>6. s # <<>> => s[Len(s)] \in BOOLEAN
  BY <1>4, EmptySeq, ElementOfSeq
<1>7. row.failures >= 1 <=> s # <<>> /\ Wrong(k, s[Len(s)]) = "unavailable"
  BY <1>1, <1>3, <1>6, RowFields DEF Counts
<1>8. CASE found
  <2> DEFINE new == [status |-> "available", failures |-> 0, target |-> "none"]
  <2>1. Answered(row, found) =
          [row |-> new, event |-> IF row.status = "unavailable" THEN "restored" ELSE "none"]
    BY <1>8 DEF Answered, Result
  <2>2. Counts(k, new, u)
    <3>1. Wrong(k, u[Len(u)]) = "nothing"
      BY <1>2, <1>3, <1>5, <1>8
    <3>2. \A alarm \in Alarms : ~Twice(k, u, alarm)
      BY <1>5, <3>1 DEF Alarms
    <3> QED
      BY <1>5, <3>1, <3>2 DEF Counts, Alarms
  <2>3. new \in Row
    BY NewRow, 0 \in 0..2
  <2>4. CASE row.status = "unavailable"
    <3>1. Told("available", LastTwo(Append(t, "restored")))
      BY <2>4, ToldStep DEF Alarms
    <3> QED
      BY <2>1, <2>2, <2>3, <2>4, <3>1 DEF Good, News, Alarms, u
  <2>5. CASE row.status # "unavailable"
    <3>1. row.status \notin Alarms
      BY <2>5 DEF Counts, Alarms
    <3>2. Told("available", t)
      BY <3>1 DEF Told, Alarms
    <3> QED
      BY <2>1, <2>2, <2>3, <2>5, <3>2 DEF Good, News, Alarms, u
  <2> QED
    BY <2>4, <2>5
<1>9. CASE ~found
  <2> DEFINE failures == Counted(row.failures)
             new == [status |-> IF failures = 2 THEN "unavailable" ELSE Held(row, "baseline"),
                     failures |-> failures, target |-> "none"]
             event == IF failures = 2 /\ row.status # "unavailable" THEN "unavailable"
                      ELSE "none"
  <2>1. Answered(row, found) = [row |-> new, event |-> event]
    BY <1>9 DEF Answered, Result
  <2>2. failures \in 1..2 /\ (failures = 2 <=> row.failures >= 1)
    BY RowFields DEF Counted
  <2>3. Held(row, "baseline") \in {"baseline", "available", "healthy", "unavailable"}
    BY RowFields DEF Held, Counts, Alarms
  <2>4. new.status \in {"baseline", "available", "healthy"} \cup Alarms
    BY <2>3 DEF Alarms
  <2>5. new \in Row
    BY <2>2, <2>4, NewRow, failures \in 0..2
  <2>6. Wrong(k, found) = "unavailable"
    BY <1>2, <1>3, <1>9
  <2>7. \A alarm \in Alarms : Twice(k, u, alarm) => failures = 2
    BY <1>5, <1>7, <2>2, <2>6
  <2>8. failures = 2 => Twice(k, u, "unavailable")
    BY <1>5, <1>7, <2>2, <2>6
  <2>9. Counts(k, new, u)
    <3>1. new.failures >= 1 /\ new.target = "none" /\ (new.failures = 2 => new.status = "unavailable")
      BY <2>2
    <3>2. new.status \notin {"warning", "critical"}
      BY <2>3
    <3>3. \A alarm \in Alarms : Twice(k, u, alarm) => new.failures = 2
      BY <2>7
    <3> HIDE DEF new
    <3> QED
      BY <1>5, <2>6, <3>1, <3>2, <3>3 DEF Counts
  <2>10. CASE failures = 2 /\ row.status # "unavailable"
    <3>1. Told("unavailable", LastTwo(Append(t, "unavailable")))
      BY <2>10, ToldStep DEF Alarms
    <3> QED
      BY <2>1, <2>5, <2>8, <2>9, <2>10, <3>1 DEF Good, News, Alarms, u
  <2>11. CASE ~(failures = 2 /\ row.status # "unavailable")
    <3>1. \/ new.status = row.status
          \/ row.status = "none" /\ new.status = "baseline"
      BY <2>11 DEF Held
    <3>2. Told(new.status, t)
      BY <3>1 DEF Told, Alarms
    <3>3. event = "none"
      BY <2>11
    <3> HIDE DEF new, event
    <3> QED
      BY <2>1, <2>5, <2>9, <3>2, <3>3 DEF Good, News, Alarms, u
  <2> QED
    BY <2>10, <2>11
<1>10. QED
  BY <1>2, <1>8, <1>9

\* observeThreshold()
LEMMA ThresholdStep ==
    ASSUME NEW k \in {"disk", "tls"}, NEW row \in Row, NEW t, NEW s,
           Told(row.status, t), Counts(k, row, s), NEW found \in Seen(k)
    PROVE  Good(k, t, s, found,
                Threshold(row, IF k = "disk" THEN DiskLevel(found) ELSE TlsLevel(found)))
<1> DEFINE u == LastTwo(Append(s, found))
           level == IF k = "disk" THEN DiskLevel(found) ELSE TlsLevel(found)
<1>1. k \notin Services
  BY MonitoringAssumption
<1>2. s \in Seq(Seen(k)) /\ Len(s) <= 2
  BY DEF Counts
<1>3. /\ u \in Seq(Seen(k)) /\ Len(u) <= 2 /\ u # <<>> /\ u[Len(u)] = found
      /\ \A alarm : Twice(k, u, alarm) <=>
             s # <<>> /\ Wrong(k, s[Len(s)]) = alarm /\ Wrong(k, found) = alarm
  BY <1>2, SeenStep
<1>4. /\ level \in {"critical", "warning", "healthy", "hold"}
      /\ level \in {"critical", "warning"} => Wrong(k, found) = level
      /\ level \in {"healthy", "hold"} => Wrong(k, found) = "nothing"
      /\ level = "hold" => k = "disk" /\ found >= 80
  BY LevelIsWrong
<1> HIDE DEF u, level
<1>5. row.target # "none" => s # <<>> /\ Wrong(k, s[Len(s)]) = row.target
  BY <1>1 DEF Counts
<1>6. s # <<>> /\ Wrong(k, s[Len(s)]) # "nothing" =>
          row.failures >= 1 /\ row.target = Wrong(k, s[Len(s)])
  BY <1>1 DEF Counts
<1>7. /\ row.failures \in 0..2
      /\ row.target \in {"none", "warning", "critical"}
      /\ row.status \in {"none", "baseline", "available", "healthy"} \cup Alarms
  BY RowFields
<1>8. CASE level = "hold"
  <2> DEFINE new == [status |-> Held(row, "healthy"), failures |-> row.failures,
                     target |-> "none"]
  <2>1. Threshold(row, level) = [row |-> new, event |-> "none"]
    BY <1>8 DEF Threshold, Measured, Result
  <2>2. Held(row, "healthy") \in {"baseline", "available", "healthy"} \cup Alarms
    BY <1>7 DEF Held
  <2>3. new \in Row
    BY <1>7, <2>2, NewRow
  <2>4. Wrong(k, u[Len(u)]) = "nothing" /\ ~(u[Len(u)] < 80) /\ k = "disk"
    <3>1. found \in 0..100
      BY <1>4, <1>8, MonitoringAssumption DEF Seen
    <3> QED
      BY <1>3, <1>4, <1>8, <3>1
  <2>5. \A alarm \in Alarms : ~Twice(k, u, alarm)
    BY <1>3, <2>4 DEF Alarms
  <2>6. Counts(k, new, u)
    BY <1>1, <1>3, <2>4, <2>5 DEF Counts
  <2>7. \/ Held(row, "healthy") = row.status
        \/ row.status = "none" /\ Held(row, "healthy") = "healthy"
    BY DEF Held
  <2>8. Told(Held(row, "healthy"), t)
    BY <2>7 DEF Told, Alarms
  <2> QED
    BY <2>1, <2>3, <2>6, <2>8 DEF Good, News, Alarms, u, level
<1>9. CASE level = "healthy"
  <2> DEFINE new == [status |-> "healthy", failures |-> 0, target |-> "none"]
  <2>1. Threshold(row, level) =
          [row |-> new, event |-> IF row.status \in Alarms THEN "restored" ELSE "none"]
    BY <1>9 DEF Threshold, Measured, Result
  <2>2. new \in Row
    BY NewRow, 0 \in 0..2
  <2>3. Wrong(k, u[Len(u)]) = "nothing"
    BY <1>3, <1>4, <1>9
  <2>4. \A alarm \in Alarms : ~Twice(k, u, alarm)
    BY <1>3, <2>3 DEF Alarms
  <2>5. Counts(k, new, u)
    BY <1>1, <1>3, <2>3, <2>4 DEF Counts, Alarms
  <2>6. CASE row.status \in Alarms
    <3>1. Told("healthy", LastTwo(Append(t, "restored")))
      BY <2>6, ToldStep DEF Alarms
    <3> QED
      BY <2>1, <2>2, <2>5, <2>6, <3>1 DEF Good, News, Alarms, u, level
  <2>7. CASE row.status \notin Alarms
    <3>1. Told("healthy", t)
      BY <2>7 DEF Told, Alarms
    <3> QED
      BY <2>1, <2>2, <2>5, <2>7, <3>1 DEF Good, News, Alarms, u, level
  <2> QED
    BY <2>6, <2>7
<1>10. CASE level \in {"critical", "warning"}
  <2> DEFINE failures == IF row.target = level THEN Counted(row.failures) ELSE 1
             status == IF failures = 2 THEN level ELSE Held(row, "baseline")
             new == [status |-> status, failures |-> failures, target |-> level]
             event == IF failures = 2 /\ row.status # level THEN level ELSE "none"
  <2>1. Threshold(row, level) = [row |-> new, event |-> event]
    BY <1>10 DEF Threshold, Measured, Result
  <2>2. failures \in 1..2
    BY <1>7 DEF Counted
  <2>3. failures = 2 <=> row.target = level
    <3>1. row.target = level => row.failures >= 1
      BY <1>5, <1>6, <1>10
    <3> QED
      BY <1>7, <3>1 DEF Counted
  <2>4. Held(row, "baseline") \in {"baseline", "available", "healthy"} \cup Alarms
    BY <1>7 DEF Held
  <2>5. level \in Alarms
    BY <1>10 DEF Alarms
  <2> HIDE DEF failures
  <2>6. status \in {"baseline", "available", "healthy"} \cup Alarms
    BY <2>4, <2>5
  <2>7. new \in Row
    <3>1. failures \in 0..2
      BY <2>2
    <3> QED
      BY <1>10, <2>6, <3>1, NewRow
  <2>8. Wrong(k, found) = level
    BY <1>4, <1>10
  <2>9. \A alarm \in Alarms : Twice(k, u, alarm) => failures = 2
    BY <1>3, <1>6, <2>3, <2>5, <2>8, "nothing" \notin Alarms DEF Alarms
  <2>10. failures = 2 => Twice(k, u, level)
    BY <1>3, <1>5, <1>10, <2>3, <2>8
  <2>11. Counts(k, new, u)
    <3>1. /\ new.failures >= 1 /\ new.target = level
          /\ new.failures = 2 => new.status = level
      BY <2>2
    <3>2. \A alarm \in Alarms : Twice(k, u, alarm) => new.failures = 2
      BY <2>9
    <3>3. Wrong(k, u[Len(u)]) = level /\ level # "nothing"
      BY <1>3, <1>10, <2>8
    <3> HIDE DEF new
    <3> QED
      BY <1>1, <1>3, <3>1, <3>2, <3>3 DEF Counts
  <2>12. CASE failures = 2 /\ row.status # level
    <3>1. Told(level, LastTwo(Append(t, level)))
      BY <2>5, <2>12, ToldStep
    <3>2. new.status = level /\ event = level /\ level # "none"
      BY <1>10, <2>12
    <3> HIDE DEF new, event
    <3> QED
      BY <2>1, <2>5, <2>7, <2>10, <2>11, <2>12, <3>1, <3>2 DEF Good, News, u, level
  <2>13. CASE ~(failures = 2 /\ row.status # level)
    <3>1. \/ status = row.status
          \/ row.status = "none" /\ status = "baseline"
      BY <2>13 DEF Held
    <3>2. Told(status, t)
      BY <3>1 DEF Told, Alarms
    <3>3. event = "none" /\ new.status = status
      BY <2>13
    <3> HIDE DEF new, event, status
    <3> QED
      BY <2>1, <2>7, <2>11, <3>2, <3>3 DEF Good, News, Alarms, u, level
  <2> QED
    BY <2>12, <2>13
<1>11. QED
  BY <1>4, <1>8, <1>9, <1>10 DEF level

\* Whatever a row says, what follows from it is a row and an event.
LEMMA ResultsTyped ==
    ASSUME NEW row \in Row
    PROVE  /\ \A f \in BOOLEAN : /\ Answered(row, f).row \in Row
                                 /\ Answered(row, f).event \in News \cup {"none"}
           /\ \A level \in {"critical", "warning", "healthy", "hold"} :
                 /\ Threshold(row, level).row \in Row
                 /\ Threshold(row, level).event \in News \cup {"none"}
<1>1. /\ row.failures \in 0..2
      /\ row.status \in {"none", "baseline", "available", "healthy"} \cup Alarms
  BY RowFields
<1>2. /\ Held(row, "baseline") \in {"baseline", "available", "healthy"} \cup Alarms
      /\ Held(row, "healthy") \in {"baseline", "available", "healthy"} \cup Alarms
  BY <1>1 DEF Held
<1>3. Counted(row.failures) \in 0..2
  BY <1>1 DEF Counted
<1>4. ASSUME NEW f \in BOOLEAN
      PROVE  Answered(row, f).row \in Row /\ Answered(row, f).event \in News \cup {"none"}
  <2>1. CASE f
    <3>1. Answered(row, f).row = [status |-> "available", failures |-> 0, target |-> "none"]
      BY <2>1 DEF Answered, Result
    <3>2. Answered(row, f).event \in News \cup {"none"}
      BY <2>1 DEF Answered, Result, News
    <3> QED
      BY <3>1, <3>2, NewRow, 0 \in 0..2
  <2>2. CASE ~f
    <3> DEFINE status == IF Counted(row.failures) = 2 THEN "unavailable"
                         ELSE Held(row, "baseline")
    <3>1. Answered(row, f).row =
            [status |-> status, failures |-> Counted(row.failures), target |-> "none"]
      BY <2>2 DEF Answered, Result
    <3>2. Answered(row, f).event \in News \cup {"none"}
      BY <2>2 DEF Answered, Result, News, Alarms
    <3>3. status \in {"baseline", "available", "healthy"} \cup Alarms
      BY <1>2 DEF Alarms
    <3> HIDE DEF status
    <3> QED
      BY <3>1, <3>2, <3>3, <1>3, NewRow
  <2> QED
    BY <2>1, <2>2
<1>5. ASSUME NEW level \in {"critical", "warning", "healthy", "hold"}
      PROVE  /\ Threshold(row, level).row \in Row
             /\ Threshold(row, level).event \in News \cup {"none"}
  <2>1. CASE level = "hold"
    <3>1. Threshold(row, level) =
            [row |-> [status |-> Held(row, "healthy"), failures |-> row.failures,
                      target |-> "none"],
             event |-> "none"]
      BY <2>1 DEF Threshold, Measured, Result
    <3> DEFINE new == [status |-> Held(row, "healthy"), failures |-> row.failures,
                       target |-> "none"]
    <3>2. new \in Row
      BY <1>1, <1>2, NewRow
    <3> HIDE DEF new
    <3> QED
      BY <3>1, <3>2 DEF new
  <2>2. CASE level = "healthy"
    <3>1. Threshold(row, level) =
            [row |-> [status |-> "healthy", failures |-> 0, target |-> "none"],
             event |-> IF row.status \in Alarms THEN "restored" ELSE "none"]
      BY <2>2 DEF Threshold, Measured, Result
    <3> DEFINE new == [status |-> "healthy", failures |-> 0, target |-> "none"]
    <3>2. new \in Row
      BY NewRow, 0 \in 0..2
    <3> HIDE DEF new
    <3> QED
      BY <3>1, <3>2 DEF News, new
  <2>3. CASE level \in {"critical", "warning"}
    <3> DEFINE failures == IF row.target = level THEN Counted(row.failures) ELSE 1
               status == IF failures = 2 THEN level ELSE Held(row, "baseline")
               event == IF failures = 2 /\ row.status # level THEN level ELSE "none"
    <3>1. Threshold(row, level) =
            [row |-> [status |-> status, failures |-> failures, target |-> level],
             event |-> event]
      BY <2>3 DEF Threshold, Measured, Result
    <3>2. failures \in 0..2
      BY <1>3
    <3>3. status \in {"baseline", "available", "healthy"} \cup Alarms
      BY <1>2, <2>3 DEF Alarms
    <3>4. event \in News \cup {"none"}
      BY <2>3 DEF News, Alarms
    <3> HIDE DEF failures, status, event
    <3> DEFINE new == [status |-> status, failures |-> failures, target |-> level]
    <3>5. new \in Row
      BY <2>3, <3>2, <3>3, NewRow
    <3> HIDE DEF new
    <3> QED
      BY <3>1, <3>4, <3>5 DEF new
  <2> QED
    BY <2>1, <2>2, <2>3
<1>6. QED
  BY <1>4, <1>5

\* An observation of a poll, of whatever key.
LEMMA Observation ==
    ASSUME MonitoringInv, NEW found \in Findings, NEW k \in Keys
    PROVE  LET f == Of(found, k)
               r == Observed(k, f)
           IN  /\ r.row \in Row /\ r.event \in News \cup {"none"}
               /\ f = Unread => k \notin Services /\ r.row = monitor[k] /\ r.event = "none"
               /\ f # Unread => f \in Seen(k)
               /\ f # Unread /\ k \notin torn => Good(k, told[k], seen[k], f, r)
<1>1. monitor[k] \in Row
  BY DEF MonitoringInv
<1>2. /\ found.up \subseteq Services /\ found.disk \in Percents
      /\ found.tls \in Days \cup {Unread}
  BY DEF Findings
<1>3. k \notin torn => Told(monitor[k].status, told[k]) /\ Counts(k, monitor[k], seen[k])
  BY DEF MonitoringInv, KeyInv
<1>4. CASE k = "disk"
  <2>1. Of(found, k) = found.disk /\ Seen(k) = Percents
    BY <1>4 DEF Of, Seen
  <2>2. Observed(k, found.disk) = Threshold(monitor[k], DiskLevel(found.disk))
    BY <1>4 DEF Observed
  <2>3. found.disk # Unread /\ found.disk \in Nat
    <3>1. found.disk \in 0..100
      BY <1>2, MonitoringAssumption
    <3> QED
      BY <3>1, MonitoringAssumption
  <2>4. DiskLevel(found.disk) \in {"critical", "warning", "healthy", "hold"}
    BY <2>3 DEF DiskLevel, Level
  <2>5. k \notin torn => Good(k, told[k], seen[k], found.disk,
                              Threshold(monitor[k], DiskLevel(found.disk)))
    BY <1>1, <1>2, <1>3, <1>4, <2>1, ThresholdStep
  <2> QED
    BY <1>1, <1>2, <2>1, <2>2, <2>3, <2>4, <2>5, ResultsTyped
<1>5. CASE k = "tls"
  <2>1. Of(found, k) = found.tls /\ Seen(k) = Days
    BY <1>5 DEF Of, Seen
  <2>2. CASE found.tls = Unread
    <3>1. Observed(k, found.tls) = [row |-> monitor[k], event |-> "none"]
      BY <1>5, <2>2 DEF Observed, Result
    <3>2. k \notin Services
      BY <1>5, MonitoringAssumption
    <3> QED
      BY <1>1, <2>1, <2>2, <3>1, <3>2
  <2>3. CASE found.tls # Unread
    <3>1. Observed(k, found.tls) = Threshold(monitor[k], TlsLevel(found.tls))
      BY <1>5, <2>3 DEF Observed
    <3>2. TlsLevel(found.tls) \in {"critical", "warning", "healthy", "hold"}
      BY DEF TlsLevel
    <3>3. found.tls \in Days
      BY <1>2, <2>3
    <3>4. k \notin torn => Good(k, told[k], seen[k], found.tls,
                                Threshold(monitor[k], TlsLevel(found.tls)))
      BY <1>1, <1>3, <1>5, <2>1, <3>3, ThresholdStep
    <3> QED
      BY <1>1, <2>1, <2>3, <3>1, <3>2, <3>3, <3>4, ResultsTyped
  <2> QED
    BY <2>2, <2>3
<1>6. CASE k \in Services
  <2>1. k \notin {"disk", "tls"}
    BY <1>6, MonitoringAssumption
  <2>2. Of(found, k) = (k \in found.up) /\ Seen(k) = BOOLEAN
    BY <2>1 DEF Of, Seen
  <2> DEFINE f == k \in found.up
  <2>3. f \in BOOLEAN /\ f # Unread
    <3>1. f = TRUE \/ f = FALSE
      OBVIOUS
    <3> HIDE DEF f
    <3> QED
      BY <3>1, MonitoringAssumption
  <2> HIDE DEF f
  <2>4. Observed(k, f) = Answered(monitor[k], f)
    BY <2>1 DEF Observed
  <2>5. k \notin torn => Good(k, told[k], seen[k], f, Answered(monitor[k], f))
    BY <1>1, <1>3, <1>6, <2>2, <2>3, ServiceStep
  <2> QED
    BY <1>1, <2>2, <2>3, <2>4, <2>5, ResultsTyped DEF f
<1>7. QED
  BY <1>4, <1>5, <1>6 DEF Keys

\* One key in a write of a poll: neither the event nor the row, both, or the event alone.
LEMMA WriteStep ==
    ASSUME MonitoringInv, NEW found \in Findings,
           NEW events \in SUBSET Keys, NEW rows \in SUBSET events,
           Write(found, events, rows), NEW k \in Keys
    PROVE  /\ monitor'[k] \in Row
           /\ told'[k] \in Seq(News) /\ Len(told'[k]) <= 2
           /\ seen'[k] \in Seq(Seen(k)) /\ Len(seen'[k]) <= 2
           /\ k \notin torn' => Told(monitor'[k].status, told'[k]) /\ Counts(k, monitor'[k], seen'[k])
           /\ k \notin torn /\ told'[k] # told[k] /\ Last(told'[k]) \in Alarms =>
                  Twice(k, seen'[k], Last(told'[k]))
<1> DEFINE f == Of(found, k)
           r == Observed(k, f)
           half == {j \in events \ rows : Observed(j, Of(found, j)).event # "none"}
<1>1. /\ monitor[k] \in Row
      /\ told[k] \in Seq(News) /\ Len(told[k]) <= 2
      /\ seen[k] \in Seq(Seen(k)) /\ Len(seen[k]) <= 2
      /\ k \notin torn => Told(monitor[k].status, told[k]) /\ Counts(k, monitor[k], seen[k])
  BY DEF MonitoringInv, KeyInv
<1>2. /\ r.row \in Row /\ r.event \in News \cup {"none"}
      /\ f = Unread => k \notin Services /\ r.row = monitor[k] /\ r.event = "none"
      /\ f # Unread => f \in Seen(k)
      /\ f # Unread /\ k \notin torn => Good(k, told[k], seen[k], f, r)
  BY Observation
<1>3. /\ monitor'[k] = IF k \in rows THEN r.row ELSE monitor[k]
      /\ told'[k] = IF k \in events /\ r.event # "none"
                    THEN LastTwo(Append(told[k], r.event)) ELSE told[k]
      /\ seen'[k] = IF k \in rows \cup half /\ f # Unread
                    THEN LastTwo(Append(seen[k], f)) ELSE seen[k]
      /\ torn' = torn \cup half
  <2>1. \A j \in Keys : [i \in Keys |-> Observed(i, Of(found, i))][j] = Observed(j, Of(found, j))
    OBVIOUS
  <2>2. {j \in events \ rows : [i \in Keys |-> Observed(i, Of(found, i))][j].event # "none"} = half
    BY <2>1
  <2> QED
    BY <2>1, <2>2 DEF Write
<1>4. k \in half <=> k \in events \ rows /\ r.event # "none"
  OBVIOUS
<1> HIDE DEF half, r, f
<1>5. r.event \in News =>
          /\ LastTwo(Append(told[k], r.event)) \in Seq(News)
          /\ Len(LastTwo(Append(told[k], r.event))) <= 2
          /\ Last(LastTwo(Append(told[k], r.event))) = r.event
  <2>1. ASSUME NEW t \in Seq(News), Len(t) <= 2, NEW e \in News
        PROVE  /\ LastTwo(Append(t, e)) \in Seq(News)
               /\ Len(LastTwo(Append(t, e))) <= 2
               /\ Last(LastTwo(Append(t, e))) = e
    <3> DEFINE u == LastTwo(Append(t, e))
    <3>1. /\ u \in Seq(News)
          /\ Len(u) = IF t = <<>> THEN 1 ELSE 2
          /\ u[Len(u)] = e
          /\ t # <<>> => u[1] = t[Len(t)]
      BY <2>1, LastTwoOfAppend
    <3> HIDE DEF u
    <3>2. Len(u) <= 2 /\ Last(u) = e
      BY <3>1 DEF Last
    <3> QED
      BY <3>1, <3>2 DEF u
  <2> QED
    BY <1>1, <2>1
<1>6. f # Unread =>
          /\ LastTwo(Append(seen[k], f)) \in Seq(Seen(k))
          /\ Len(LastTwo(Append(seen[k], f))) <= 2
  BY <1>1, <1>2, SeenStep
<1>7. CASE k \in rows /\ f # Unread
  <2>1. CASE k \notin torn
    <3>1. /\ Counts(k, r.row, LastTwo(Append(seen[k], f)))
          /\ Told(r.row.status, IF r.event = "none" THEN told[k]
                                ELSE LastTwo(Append(told[k], r.event)))
          /\ r.event \in Alarms => Twice(k, LastTwo(Append(seen[k], f)), r.event)
      BY <1>2, <1>7, <2>1 DEF Good
    <3>2. /\ monitor'[k] = r.row
          /\ seen'[k] = LastTwo(Append(seen[k], f))
          /\ told'[k] = IF r.event = "none" THEN told[k]
                        ELSE LastTwo(Append(told[k], r.event))
      BY <1>3, <1>7
    <3>3. CASE r.event = "none"
      BY <1>1, <1>2, <1>6, <1>7, <3>1, <3>2, <3>3
    <3>4. CASE r.event \in News
      <4>1. r.event # "none"
        BY <3>4 DEF News, Alarms
      <4> QED
        BY <1>2, <1>5, <1>6, <1>7, <3>1, <3>2, <3>4, <4>1
    <3> QED
      BY <1>2, <3>3, <3>4
  <2>2. CASE k \in torn
    BY <1>1, <1>2, <1>3, <1>5, <1>6, <1>7, <2>2
  <2> QED
    BY <2>1, <2>2
<1>8. CASE k \in half
  <2>1. /\ k \notin rows /\ k \in events /\ r.event \in News /\ f # Unread /\ k \in torn'
        /\ r.event # "none"
    BY <1>2, <1>3, <1>4, <1>8
  <2>2. /\ monitor'[k] = monitor[k] /\ told'[k] = LastTwo(Append(told[k], r.event))
        /\ seen'[k] = LastTwo(Append(seen[k], f))
    BY <1>3, <1>8, <2>1
  <2>3. k \notin torn /\ r.event \in Alarms => Twice(k, LastTwo(Append(seen[k], f)), r.event)
    BY <1>2, <2>1 DEF Good
  <2> QED
    BY <1>1, <1>5, <1>6, <2>1, <2>2, <2>3
<1>9. CASE ~(k \in rows /\ f # Unread) /\ k \notin half
  <2>1. monitor'[k] = monitor[k] /\ told'[k] = told[k] /\ seen'[k] = seen[k]
    BY <1>2, <1>3, <1>4, <1>9
  <2> QED
    BY <1>1, <1>3, <2>1
<1>10. QED
  BY <1>7, <1>8, <1>9

LEMMA InitiallyMonitored ==
    ASSUME MonitoringInit
    PROVE  MonitoringInv
<1>1. NoRow \in Row /\ NoRow.status = "none" /\ NoRow.failures = 0 /\ NoRow.target = "none"
  BY DEF Row, NoRow
<1>2. \A S : <<>> \in Seq(S) /\ Len(<<>>) = 0
  BY EmptySeq
<1>3. ASSUME NEW k \in Keys PROVE KeyInv(k)
  <2>1. monitor[k] = NoRow /\ told[k] = <<>> /\ seen[k] = <<>>
    BY DEF MonitoringInit
  <2>2. Told("none", <<>>)
    BY <1>2 DEF Told, Alarms
  <2>3. Counts(k, NoRow, <<>>)
    BY <1>1, <1>2 DEF Counts
  <2> QED
    BY <1>1, <2>1, <2>2, <2>3 DEF KeyInv
<1>4. kills \in 0..MaxKills
  BY MonitoringAssumption DEF MonitoringInit
<1>5. QED
  BY <1>1, <1>2, <1>3, <1>4 DEF MonitoringInit, MonitoringInv

\* Every write of a poll keeps the invariant and tells only what has been confirmed.
LEMMA WriteKeeps ==
    ASSUME MonitoringInv, NEW found \in Findings,
           NEW events \in SUBSET Keys, NEW rows \in SUBSET events,
           Write(found, events, rows), kills' \in 0..MaxKills
    PROVE  /\ MonitoringInv'
           /\ \A k \in Keys \ torn : told'[k] # told[k] /\ Last(told'[k]) \in Alarms =>
                  Twice(k, seen'[k], Last(told'[k]))
<1>1. /\ DOMAIN monitor' = Keys /\ DOMAIN told' = Keys /\ DOMAIN seen' = Keys
      /\ monitor' = [k \in Keys |-> monitor'[k]]
      /\ told' = [k \in Keys |-> told'[k]]
  BY DEF Write
<1>2. torn' \subseteq Keys
  BY DEF Write, MonitoringInv
<1>3. QED
  BY <1>1, <1>2, WriteStep DEF MonitoringInv, KeyInv

LEMMA MonitoringStep ==
    ASSUME MonitoringInv, MonitoringNext
    PROVE  /\ MonitoringInv'
           /\ \A k \in Keys \ torn : told'[k] # told[k] /\ Last(told'[k]) \in Alarms =>
                  Twice(k, seen'[k], Last(told'[k]))
<1>1. kills \in 0..MaxKills /\ MaxKills \in Nat
  BY MonitoringAssumption DEF MonitoringInv
<1>2. CASE Collect
  <2>1. PICK found \in Findings : Write(found, Keys, Keys)
    BY <1>2 DEF Collect
  <2>2. kills' \in 0..MaxKills
    BY <1>1, <1>2 DEF Collect
  <2> QED
    BY <2>1, <2>2, WriteKeeps
<1>3. CASE KilledWhile
  <2>1. PICK rows \in SUBSET Keys, events \in SUBSET Keys, found \in Findings :
            rows \subseteq events /\ Write(found, events, rows)
    BY <1>3 DEF KilledWhile
  <2>2. kills' \in 0..MaxKills
    BY <1>1, <1>3 DEF KilledWhile
  <2> QED
    BY <2>1, <2>2, WriteKeeps
<1>4. QED
  BY <1>2, <1>3 DEF MonitoringNext

LEMMA MonitoringStutter ==
    ASSUME MonitoringInv, UNCHANGED monitoringVars
    PROVE  MonitoringInv'
BY DEF MonitoringInv, monitoringVars, KeyInv

\* What the rows say is what was told and what was seen, in every behaviour.
THEOREM MonitoringInvariant ==
    MonitoringSpec => []MonitoringInv
<1>1. MonitoringInit => MonitoringInv
  BY InitiallyMonitored
<1>2. MonitoringInv /\ [MonitoringNext]_monitoringVars => MonitoringInv'
  BY MonitoringStep, MonitoringStutter
<1>3. QED
  BY <1>1, <1>2, PTL DEF MonitoringSpec

\* A row of monitor_states is a row at any time, whatever was observed and whenever the
\* process was killed.
THEOREM MonitoringTypeCorrect ==
    MonitoringSpec => []MonitoringTypeOK
<1>1. MonitoringInv => MonitoringTypeOK
  <2> SUFFICES ASSUME MonitoringInv PROVE MonitoringTypeOK
    OBVIOUS
  <2>1. \A k \in Services : Seen(k) = BOOLEAN
    BY MonitoringAssumption DEF Seen
  <2>2. Seen("disk") = Percents /\ Seen("tls") = Days
    BY DEF Seen
  <2>3. Services \subseteq Keys /\ "disk" \in Keys /\ "tls" \in Keys
    BY DEF Keys
  <2> QED
    BY <2>1, <2>2, <2>3 DEF MonitoringInv, MonitoringTypeOK, News
<1>2. QED
  BY <1>1, MonitoringInvariant, PTL

\* An incident is told once and its end once, for any number of services and any measure.
THEOREM IncidentsInTurn ==
    MonitoringSpec => []IncidentsAlternate
<1>1. ASSUME MonitoringInv, NEW k \in Keys \ torn
      PROVE  /\ Len(told[k]) = 2 => told[k][1] # told[k][2]
             /\ \A i \in DOMAIN told[k] :
                    told[k][i] = "restored" /\ (i = 2 \/ Len(told[k]) = 1) =>
                        i = 2 /\ told[k][1] \in Alarms
  <2>1. Told(monitor[k].status, told[k])
    BY <1>1 DEF MonitoringInv, KeyInv
  <2>2. told[k] \in Seq(News) /\ Len(told[k]) <= 2
    BY <2>1 DEF Told
  <2>3. \A i \in DOMAIN told[k] : i \in 1..Len(told[k]) /\ told[k][i] \in News
    BY <2>2, ElementOfSeq, LenProperties
  <2>4. ASSUME NEW i \in DOMAIN told[k], told[k][i] = "restored", i = 2 \/ Len(told[k]) = 1
        PROVE  i = 2 /\ told[k][1] \in Alarms
    <3>1. Len(told[k]) \in Nat /\ i \in 1..Len(told[k])
      BY <2>2, <2>3, LenProperties
    <3>2. Len(told[k]) # 1
      <4>1. Len(told[k]) = 1 => told[k][1] # "restored"
        BY <2>1 DEF Told
      <4>2. Len(told[k]) = 1 => i = 1
        BY <3>1
      <4> QED
        BY <2>4, <4>1, <4>2
    <3>4. Len(told[k]) = 2 /\ i = 2
      <4>1. i = 2
        BY <2>4, <3>2
      <4>2. \A n \in Nat : 2 \in 1..n /\ n <= 2 => n = 2
        OBVIOUS
      <4> QED
        BY <2>2, <3>1, <4>1, <4>2
    <3>3. 1 \in DOMAIN told[k]
      BY <2>2, <3>4, LenProperties
    <3> QED
      BY <2>1, <2>3, <2>4, <3>4, <3>3 DEF Told, News
  <2> QED
    BY <2>1, <2>4 DEF Told
<1>2. MonitoringInv => IncidentsAlternate
  BY <1>1 DEF IncidentsAlternate
<1>3. QED
  BY <1>2, MonitoringInvariant, PTL

\* No incident is told before two observations in a row have found the same thing wrong.
THEOREM NothingUnconfirmed ==
    MonitoringSpec => IncidentsConfirmed
<1>1. MonitoringInv /\ [MonitoringNext]_monitoringVars =>
          [\A k \in Keys \ torn :
              told'[k] # told[k] /\ Last(told'[k]) \in Alarms =>
                  Twice(k, seen'[k], Last(told'[k]))]_monitoringVars
  BY MonitoringStep
<1>2. QED
  BY <1>1, MonitoringInvariant, PTL DEF MonitoringSpec, IncidentsConfirmed

\* What has been found wrong twice in a row is the last thing told of the key, and what has
\* been found well is not left open.
THEOREM NothingUntold ==
    MonitoringSpec => []IncidentsTold
<1>1. ASSUME MonitoringInv, NEW k \in Keys \ torn, seen[k] # <<>>
      PROVE  /\ \A alarm \in Alarms : Twice(k, seen[k], alarm) =>
                    told[k] # <<>> /\ Last(told[k]) = alarm
             /\ /\ Wrong(k, Last(seen[k])) = "nothing"
                /\ k = "disk" => Last(seen[k]) < 80
                => told[k] = <<>> \/ Last(told[k]) = "restored"
  <2>1. Told(monitor[k].status, told[k]) /\ Counts(k, monitor[k], seen[k])
    BY <1>1 DEF MonitoringInv, KeyInv
  <2>2. ASSUME NEW alarm \in Alarms, Twice(k, seen[k], alarm)
        PROVE  told[k] # <<>> /\ Last(told[k]) = alarm
    <3>1. Len(seen[k]) = 2 /\ Wrong(k, seen[k][Len(seen[k])]) = alarm
      BY <2>2 DEF Twice
    <3>2. monitor[k].failures = 2 /\ alarm # "nothing"
      BY <1>1, <2>1, <2>2 DEF Counts, Alarms
    <3>3. monitor[k].status = alarm
      BY <1>1, <2>1, <3>1, <3>2 DEF Counts
    <3> QED
      BY <2>1, <3>3 DEF Told, Last
  <2>3. ASSUME Wrong(k, Last(seen[k])) = "nothing", k = "disk" => Last(seen[k]) < 80
        PROVE  told[k] = <<>> \/ Last(told[k]) = "restored"
    <3>1. monitor[k].status \notin Alarms
      BY <1>1, <2>1, <2>3 DEF Counts, Last
    <3> QED
      BY <2>1, <3>1 DEF Told, Last
  <2> QED
    BY <2>2, <2>3
<1>2. MonitoringInv => IncidentsTold
  BY <1>1 DEF IncidentsTold
<1>3. QED
  BY <1>2, MonitoringInvariant, PTL

-----------------------------------------------------------------------------
(* Presence *)

PresenceNews == {"first", "returned", "absent", "unavailable", "restored"}

Follows == {<<"first", "absent">>, <<"absent", "returned">>, <<"returned", "absent">>,
            <<"unavailable", "restored">>, <<"restored", "unavailable">>}

\* What the journal tells of a subject, two events at most.
Ordered(n) ==
    /\ n \in Seq(PresenceNews) /\ Len(n) <= 2
    /\ Len(n) = 2 => <<n[1], n[2]>> \in Follows
    /\ Len(n) = 1 => n[1] \in {"first", "unavailable"}

\* The facts of a device say which event was the last one.
OfDevice(f, n) ==
    /\ ~f.seen => n = <<>> /\ f.lastSeen = Never /\ ~f.notified
    /\ f.seen /\ ~f.notified => n # <<>> /\ n[Len(n)] \in {"first", "returned"}
    /\ f.notified => n # <<>> /\ n[Len(n)] = "absent"

\* So does the row of an engine.
OfEngine(row, n) ==
    /\ row.status = "unavailable" => n # <<>> /\ n[Len(n)] = "unavailable"
    /\ row.status # "unavailable" => n = <<>> \/ n[Len(n)] = "restored"

PresenceInv ==
    /\ PresenceTypeOK
    /\ \A s \in Devices \cup Engines : Ordered(news[s])
    /\ \A d \in Devices : OfDevice(facts[d], news[d])
    /\ \A e \in Engines : OfEngine(telemetry[e], news[e])

\* The events of a turn in which the rows become rows.
TurnEvent(p, e, answers, rows, s) ==
    IF s = e THEN Answered(telemetry[e], answers).event
    ELSE IF s \in Devices
    THEN (IF s \in active /\ e = "xray" THEN Conclusion(facts[s], rows[s], polls[p].reference)
          ELSE [facts |-> facts[s], event |-> "none"]).event
    ELSE "none"

\* A turn without what its rows were made of.
Turned(p, e, answers, rows) ==
    /\ polls' = [polls EXCEPT ![p].awaits = IF e = "hysteria" THEN "xray" ELSE "none"]
    /\ presence' = rows
    /\ telemetry' = [telemetry EXCEPT ![e] = Answered(telemetry[e], answers).row]
    /\ facts' = [d \in Devices |->
           (IF d \in active /\ e = "xray" THEN Conclusion(facts[d], rows[d], polls[p].reference)
            ELSE [facts |-> facts[d], event |-> "none"]).facts]
    /\ news' = [s \in Devices \cup Engines |->
           IF TurnEvent(p, e, answers, rows, s) = "none" THEN news[s]
           ELSE LastTwo(Append(news[s], TurnEvent(p, e, answers, rows, s)))]
    /\ UNCHANGED <<now, active, unfinished, breaks>>

Table == [Devices -> [Engines -> Presence]]

LEMMA NewPresence ==
    ASSUME NEW status \in {"online", "offline", "unknown"}, NEW misses \in 0..2,
           NEW lastActive \in Time
    PROVE  [status |-> status, misses |-> misses, lastActive |-> lastActive] \in Presence
BY DEF Presence

LEMMA PresenceRows ==
    ASSUME NEW row \in Presence, NEW reference \in Time, NEW answer \in BOOLEAN
    PROVE  /\ OfConnections(row, answer, reference) \in Presence
           /\ OfTraffic(row, answer, reference) \in Presence
           /\ Unanswered(row) \in Presence
<1>1. /\ row.status \in {"none", "online", "offline", "unknown"}
      /\ row.misses \in 0..2 /\ row.lastActive \in Time
      /\ row = [status |-> row.status, misses |-> row.misses, lastActive |-> row.lastActive]
  BY PresenceAssumption DEF Presence, NoPresence, Time, Never
<1>2. OfConnections(row, answer, reference) \in Presence
  <2>1. CASE answer
    <3>1. OfConnections(row, answer, reference) =
            [status |-> "online", misses |-> 0, lastActive |-> reference]
      BY <2>1 DEF OfConnections
    <3> QED
      BY <3>1, NewPresence, 0 \in 0..2
  <2>2. CASE ~answer
    <3> DEFINE misses == Counted(row.misses)
               status == IF misses = 2 THEN "offline" ELSE Held(row, "unknown")
    <3>1. OfConnections(row, answer, reference) =
            [status |-> status, misses |-> misses, lastActive |-> row.lastActive]
      BY <2>2 DEF OfConnections
    <3>2. misses \in 0..2 /\ status \in {"online", "offline", "unknown"}
      BY <1>1 DEF Counted, Held
    <3> HIDE DEF misses, status
    <3> QED
      BY <1>1, <3>1, <3>2, NewPresence
  <2> QED
    BY <2>1, <2>2
<1>3. OfTraffic(row, answer, reference) \in Presence
  <2> DEFINE lastActive == IF answer THEN reference ELSE row.lastActive
             status == IF lastActive # Never /\ reference <= lastActive + Window
                       THEN "online" ELSE "offline"
  <2>1. OfTraffic(row, answer, reference) =
          [status |-> status, misses |-> 0, lastActive |-> lastActive]
    BY DEF OfTraffic
  <2>2. lastActive \in Time /\ status \in {"online", "offline", "unknown"}
    BY <1>1
  <2> HIDE DEF lastActive, status
  <2> QED
    BY <2>1, <2>2, NewPresence, 0 \in 0..2
<1>4. Unanswered(row) \in Presence
  <2>1. Unanswered(row) =
          [status |-> "unknown", misses |-> row.misses, lastActive |-> row.lastActive]
    BY <1>1 DEF Unanswered
  <2> QED
    BY <1>1, <2>1, NewPresence
<1>5. QED
  BY <1>2, <1>3, <1>4

\* The latest time of the rows that are online is in one of them, and none is later.
LEMMA LatestIsTime ==
    ASSUME NEW rows \in [Engines -> Presence], Online(rows) # {}
    PROVE  /\ Latest(rows) \in Time
           /\ \E e \in Online(rows) : Latest(rows) = rows[e].lastActive
           /\ \A e \in Online(rows) : rows[e].lastActive <= Latest(rows)
<1> DEFINE S == {rows[e].lastActive : e \in Online(rows)}
<1>1. \A e \in Engines : rows[e].lastActive \in Time
  BY PresenceAssumption DEF Presence, NoPresence, Time, Never
<1>2. S \subseteq Time /\ S # {}
  BY <1>1 DEF Online
<1>3. \E m \in S : \A n \in S : m >= n
  <2>1. PICK d \in Online(rows) : TRUE
    OBVIOUS
  <2>2. \A e \in Online(rows) : rows[e].lastActive \in Int
    BY <1>1, PresenceAssumption DEF Time, Online
  <2>3. CASE \A e \in Online(rows) : rows[d].lastActive >= rows[e].lastActive
    BY <2>1, <2>3
  <2>4. CASE ~\A e \in Online(rows) : rows[d].lastActive >= rows[e].lastActive
    <3>1. PICK e \in Online(rows) : rows[e].lastActive > rows[d].lastActive
      BY <2>1, <2>2, <2>4
    <3>2. Online(rows) = {d, e}
      BY <2>1, <2>2, <3>1 DEF Online, Engines
    <3> QED
      BY <2>2, <3>1, <3>2
  <2> QED
    BY <2>3, <2>4
<1> HIDE DEF S
<1>4. Max(S) \in S /\ \A n \in S : Max(S) >= n
  BY <1>3 DEF Max
<1>5. Latest(rows) = Max(S)
  BY DEF Latest, S
<1>6. \A n \in S : n <= Latest(rows)
  BY <1>2, <1>4, <1>5, PresenceAssumption DEF Time
<1>7. QED
  BY <1>2, <1>4, <1>5, <1>6 DEF S

\* What is concluded of a device is a time and an event.
LEMMA Conclusions ==
    ASSUME NEW f \in Facts, NEW rows \in [Engines -> Presence], NEW reference \in Time
    PROVE  LET c == Conclusion(f, rows, reference)
           IN  /\ c.facts \in Facts
               /\ c.event \in {"none", "first", "returned", "absent"}
               /\ \/ c.event = "none" /\ c.facts = f
                  \/ c.event = "none" /\ f.seen /\ ~f.notified /\ c.facts.seen /\ ~c.facts.notified
                  \/ c.event = "first" /\ ~f.seen /\ c.facts.seen /\ ~c.facts.notified
                  \/ c.event = "returned" /\ f.seen /\ f.notified /\ c.facts.seen /\ ~c.facts.notified
                  \/ /\ c.event = "absent" /\ ~f.notified /\ f.lastSeen # Never
                     /\ c.facts.seen = f.seen /\ c.facts.notified
<1> DEFINE status == Aggregate(rows)
           lastSeen == Latest(rows)
           absent == ~f.notified /\ reference >= f.lastSeen + Day
<1>1. Conclusion(f, rows, reference) = Concluded(f, status, lastSeen, absent)
  BY DEF Conclusion
<1>2. status = "online" => lastSeen \in Time
  BY LatestIsTime DEF Aggregate
<1>3. absent => ~f.notified
  OBVIOUS
<1> HIDE DEF status, lastSeen, absent
<1>0. f.seen \in BOOLEAN /\ f.notified \in BOOLEAN /\ f.lastSeen \in Time
  BY DEF Facts
<1>4. CASE status = "online"
  <2> DEFINE new == [seen |-> TRUE, lastSeen |-> lastSeen, notified |-> FALSE]
             event == IF ~f.seen THEN "first" ELSE IF f.notified THEN "returned" ELSE "none"
  <2>1. Conclusion(f, rows, reference) = [facts |-> new, event |-> event]
    BY <1>1, <1>4 DEF Concluded
  <2>2. new \in Facts /\ new.seen /\ ~new.notified
    BY <1>2, <1>4 DEF Facts
  <2>3. \/ event = "none" /\ f.seen /\ ~f.notified
        \/ event = "first" /\ ~f.seen
        \/ event = "returned" /\ f.seen /\ f.notified
    BY <1>0
  <2> HIDE DEF new, event
  <2> QED
    BY <2>1, <2>2, <2>3
<1>5. CASE status = "offline" /\ f.lastSeen # Never /\ absent
  <2> DEFINE new == [f EXCEPT !.notified = TRUE]
  <2>1. Conclusion(f, rows, reference) = [facts |-> new, event |-> "absent"]
    BY <1>1, <1>5 DEF Concluded
  <2>2. new \in Facts /\ new.seen = f.seen /\ new.notified
    BY DEF Facts
  <2> HIDE DEF new
  <2> QED
    BY <1>3, <1>5, <2>1, <2>2
<1>6. CASE status # "online" /\ ~(status = "offline" /\ f.lastSeen # Never /\ absent)
  <2>1. Concluded(f, status, lastSeen, absent) = [facts |-> f, event |-> "none"]
    BY <1>6 DEF Concluded
  <2> QED
    BY <1>1, <2>1
<1>7. QED
  BY <1>4, <1>5, <1>6

LEMMA HysteriaTurns ==
    ASSUME PresenceInv, NEW p \in Polls, HysteriaAnswers(p)
    PROVE  \E rows \in Table : Turned(p, "hysteria", TRUE, rows)
<1>1. PICK connected \in SUBSET active :
        Turn(p, "hysteria", TRUE, [d \in Devices |->
               OfConnections(presence[d]["hysteria"], d \in connected, polls[p].reference)])
  BY DEF HysteriaAnswers
<1> DEFINE rows == [d \in Devices |->
            IF d \in active
            THEN [presence[d] EXCEPT !["hysteria"] =
                    OfConnections(presence[d]["hysteria"], d \in connected, polls[p].reference)]
            ELSE presence[d]]
<1>2. Turned(p, "hysteria", TRUE, rows)
  BY <1>1 DEF Turn, Turned, TurnEvent
<1>3. rows \in Table
  <2>1. polls[p].reference \in Time
    BY DEF PresenceInv, PresenceTypeOK, Poll
  <2>2. \A d \in Devices : presence[d] \in [Engines -> Presence] /\ presence[d]["hysteria"] \in Presence
    BY DEF PresenceInv, PresenceTypeOK, Engines
  <2>3. \A d \in Devices :
          OfConnections(presence[d]["hysteria"], d \in connected, polls[p].reference) \in Presence
    <3> TAKE d \in Devices
    <3> DEFINE answer == d \in connected
    <3>1. answer \in BOOLEAN
      OBVIOUS
    <3> HIDE DEF answer
    <3>2. OfConnections(presence[d]["hysteria"], answer, polls[p].reference) \in Presence
      BY <2>1, <2>2, <3>1, PresenceRows
    <3> QED
      BY <3>2 DEF answer
  <2> QED
    BY <2>2, <2>3 DEF Table
<1>4. QED
  BY <1>2, <1>3

LEMMA XrayTurns ==
    ASSUME PresenceInv, NEW p \in Polls, XrayAnswers(p)
    PROVE  \E rows \in Table : Turned(p, "xray", TRUE, rows)
<1>1. PICK moved \in SUBSET active :
        Turn(p, "xray", TRUE, [d \in Devices |->
               OfTraffic(presence[d]["xray"], d \in moved, polls[p].reference)])
  BY DEF XrayAnswers
<1> DEFINE rows == [d \in Devices |->
            IF d \in active
            THEN [presence[d] EXCEPT !["xray"] =
                    OfTraffic(presence[d]["xray"], d \in moved, polls[p].reference)]
            ELSE presence[d]]
<1>2. Turned(p, "xray", TRUE, rows)
  BY <1>1 DEF Turn, Turned, TurnEvent
<1>3. rows \in Table
  <2>1. polls[p].reference \in Time
    BY DEF PresenceInv, PresenceTypeOK, Poll
  <2>2. \A d \in Devices : presence[d] \in [Engines -> Presence] /\ presence[d]["xray"] \in Presence
    BY DEF PresenceInv, PresenceTypeOK, Engines
  <2>3. \A d \in Devices :
          OfTraffic(presence[d]["xray"], d \in moved, polls[p].reference) \in Presence
    <3> TAKE d \in Devices
    <3> DEFINE answer == d \in moved
    <3>1. answer \in BOOLEAN
      OBVIOUS
    <3> HIDE DEF answer
    <3>2. OfTraffic(presence[d]["xray"], answer, polls[p].reference) \in Presence
      BY <2>1, <2>2, <3>1, PresenceRows
    <3> QED
      BY <3>2 DEF answer
  <2> QED
    BY <2>2, <2>3 DEF Table
<1>4. QED
  BY <1>2, <1>3

LEMMA FailureTurns ==
    ASSUME PresenceInv, NEW p \in Polls, Fails(p)
    PROVE  \E e \in Engines, rows \in Table : Turned(p, e, FALSE, rows)
<1>1. PICK e \in Engines : Turn(p, e, FALSE, [d \in Devices |-> Unanswered(presence[d][e])])
  BY DEF Fails
<1> DEFINE rows == [d \in Devices |->
            IF d \in active THEN [presence[d] EXCEPT ![e] = Unanswered(presence[d][e])]
            ELSE presence[d]]
<1>2. Turned(p, e, FALSE, rows)
  BY <1>1 DEF Turn, Turned, TurnEvent
<1>3. rows \in Table
  <2>1. 0 \in Time
    BY PresenceAssumption DEF Time
  <2>2. \A d \in Devices : presence[d] \in [Engines -> Presence] /\ presence[d][e] \in Presence
    BY DEF PresenceInv, PresenceTypeOK
  <2>3. \A d \in Devices : Unanswered(presence[d][e]) \in Presence
    BY <2>1, <2>2, PresenceRows
  <2> QED
    BY <2>2, <2>3 DEF Table
<1>4. QED
  BY <1>2, <1>3

\* A device's next event follows the last one.
LEMMA NewsOfDevice ==
    ASSUME NEW f \in Facts, NEW rows \in [Engines -> Presence], NEW reference \in Time,
           NEW n, Ordered(n), OfDevice(f, n)
    PROVE  LET c == Conclusion(f, rows, reference)
               m == IF c.event = "none" THEN n ELSE LastTwo(Append(n, c.event))
           IN  c.facts \in Facts /\ Ordered(m) /\ OfDevice(c.facts, m)
<1> DEFINE c == Conclusion(f, rows, reference)
           u == LastTwo(Append(n, c.event))
<1>1. /\ c.facts \in Facts
      /\ c.event \in {"none", "first", "returned", "absent"}
      /\ \/ c.event = "none" /\ c.facts = f
         \/ c.event = "none" /\ f.seen /\ ~f.notified /\ c.facts.seen /\ ~c.facts.notified
         \/ c.event = "first" /\ ~f.seen /\ c.facts.seen /\ ~c.facts.notified
         \/ c.event = "returned" /\ f.seen /\ f.notified /\ c.facts.seen /\ ~c.facts.notified
         \/ /\ c.event = "absent" /\ ~f.notified /\ f.lastSeen # Never
            /\ c.facts.seen = f.seen /\ c.facts.notified
  BY Conclusions
<1>2. n \in Seq(PresenceNews) /\ Len(n) <= 2
  BY DEF Ordered
<1>3. c.event # "none" =>
          /\ u \in Seq(PresenceNews)
          /\ Len(u) = IF n = <<>> THEN 1 ELSE 2
          /\ u[Len(u)] = c.event
          /\ n # <<>> => u[1] = n[Len(n)]
  <2> SUFFICES ASSUME c.event \in PresenceNews
               PROVE  /\ u \in Seq(PresenceNews)
                      /\ Len(u) = IF n = <<>> THEN 1 ELSE 2
                      /\ u[Len(u)] = c.event
                      /\ n # <<>> => u[1] = n[Len(n)]
    BY <1>1 DEF PresenceNews
  <2> QED
    BY <1>2, LastTwoOfAppend
<1> HIDE DEF c, u
<1>4. c.event # "none" => u # <<>>
  <2> SUFFICES ASSUME c.event # "none" PROVE u # <<>>
    OBVIOUS
  <2>1. Len(u) = 1 \/ Len(u) = 2
    BY <1>3
  <2> QED
    BY <2>1, EmptySeq
<1>5. CASE c.event = "none" /\ c.facts = f
  <2>1. c.facts \in Facts /\ OfDevice(c.facts, n)
    BY <1>5
  <2> QED
    BY <1>5, <2>1 DEF c
<1>6. CASE c.event = "none" /\ f.seen /\ ~f.notified /\ c.facts.seen /\ ~c.facts.notified
  <2>1. OfDevice(c.facts, n)
    BY <1>6 DEF OfDevice
  <2> QED
    BY <1>1, <1>6, <2>1 DEF c
<1>7. CASE c.event = "first" /\ ~f.seen /\ c.facts.seen /\ ~c.facts.notified
  <2>1. n = <<>>
    BY <1>7 DEF OfDevice
  <2>2. u[1] = "first" /\ Len(u) = 1 /\ u \in Seq(PresenceNews)
    BY <1>3, <1>7, <2>1
  <2>3. Ordered(u)
    BY <2>2 DEF Ordered
  <2>4. OfDevice(c.facts, u)
    BY <1>4, <1>7, <2>2 DEF OfDevice
  <2> QED
    BY <1>1, <1>7, <2>3, <2>4 DEF c, u
<1>8. CASE c.event = "returned" /\ f.seen /\ f.notified /\ c.facts.seen /\ ~c.facts.notified
  <2>1. n # <<>> /\ n[Len(n)] = "absent"
    BY <1>8 DEF OfDevice
  <2>2. u[1] = "absent" /\ u[2] = "returned" /\ Len(u) = 2
    BY <1>3, <1>8, <2>1
  <2>3. Ordered(u) /\ OfDevice(c.facts, u)
    BY <1>3, <1>4, <1>8, <2>2 DEF Ordered, OfDevice, Follows
  <2> QED
    BY <1>1, <1>8, <2>3 DEF c, u
<1>9. CASE /\ c.event = "absent" /\ ~f.notified /\ f.lastSeen # Never
           /\ c.facts.seen = f.seen /\ c.facts.notified
  <2>1. f.seen
    BY <1>9 DEF OfDevice
  <2>2. n # <<>> /\ n[Len(n)] \in {"first", "returned"}
    BY <1>9, <2>1 DEF OfDevice
  <2>3. u[1] \in {"first", "returned"} /\ u[2] = "absent" /\ Len(u) = 2
    BY <1>3, <1>9, <2>2
  <2>4. Ordered(u) /\ OfDevice(c.facts, u)
    BY <1>3, <1>4, <1>9, <2>1, <2>3 DEF Ordered, OfDevice, Follows
  <2> QED
    BY <1>1, <1>9, <2>4 DEF c, u
<1>10. QED
  BY <1>1, <1>5, <1>6, <1>7, <1>8, <1>9

\* So does an engine's.
LEMMA NewsOfEngine ==
    ASSUME NEW row \in Row, NEW answers \in BOOLEAN, NEW n, Ordered(n), OfEngine(row, n)
    PROVE  LET a == Answered(row, answers)
               m == IF a.event = "none" THEN n ELSE LastTwo(Append(n, a.event))
           IN  a.row \in Row /\ Ordered(m) /\ OfEngine(a.row, m)
<1> DEFINE a == Answered(row, answers)
           u == LastTwo(Append(n, a.event))
<1>1. a.row \in Row
  BY ResultsTyped
<1>2. \/ a.event = "none" /\ (a.row.status = "unavailable" <=> row.status = "unavailable")
      \/ a.event = "restored" /\ row.status = "unavailable" /\ a.row.status = "available"
      \/ a.event = "unavailable" /\ row.status # "unavailable" /\ a.row.status = "unavailable"
  <2>1. CASE answers
    BY <2>1 DEF Answered, Result
  <2>2. CASE ~answers
    BY <2>2 DEF Answered, Result, Held
  <2> QED
    BY <2>1, <2>2
<1>3. n \in Seq(PresenceNews) /\ Len(n) <= 2
  BY DEF Ordered
<1>4. a.event # "none" =>
          /\ u \in Seq(PresenceNews)
          /\ Len(u) = IF n = <<>> THEN 1 ELSE 2
          /\ u[Len(u)] = a.event
          /\ n # <<>> => u[1] = n[Len(n)]
  <2> SUFFICES ASSUME a.event \in PresenceNews
               PROVE  /\ u \in Seq(PresenceNews)
                      /\ Len(u) = IF n = <<>> THEN 1 ELSE 2
                      /\ u[Len(u)] = a.event
                      /\ n # <<>> => u[1] = n[Len(n)]
    BY <1>2 DEF PresenceNews
  <2> QED
    BY <1>3, LastTwoOfAppend
<1> HIDE DEF a, u
<1>5. a.event # "none" => u # <<>>
  BY <1>4, EmptySeq
<1>6. CASE a.event = "none" /\ (a.row.status = "unavailable" <=> row.status = "unavailable")
  <2>1. OfEngine(a.row, n)
    BY <1>6 DEF OfEngine
  <2> QED
    BY <1>1, <1>6, <2>1 DEF a
<1>7. CASE a.event = "restored" /\ row.status = "unavailable" /\ a.row.status = "available"
  <2>1. n # <<>> /\ n[Len(n)] = "unavailable"
    BY <1>7 DEF OfEngine
  <2>2. u[1] = "unavailable" /\ u[2] = "restored" /\ Len(u) = 2
    BY <1>4, <1>7, <2>1
  <2>3. Ordered(u) /\ OfEngine(a.row, u)
    BY <1>4, <1>5, <1>7, <2>2 DEF Ordered, OfEngine, Follows
  <2> QED
    BY <1>1, <1>7, <2>3 DEF a, u
<1>8. CASE a.event = "unavailable" /\ row.status # "unavailable" /\ a.row.status = "unavailable"
  <2>1. n = <<>> \/ n[Len(n)] = "restored"
    BY <1>8 DEF OfEngine
  <2>2. CASE n = <<>>
    <3>1. u[1] = "unavailable" /\ Len(u) = 1 /\ u \in Seq(PresenceNews)
      BY <1>4, <1>8, <2>2
    <3>2. Ordered(u)
      BY <3>1 DEF Ordered
    <3>3. OfEngine(a.row, u)
      BY <1>5, <1>8, <3>1 DEF OfEngine
    <3> QED
      BY <1>1, <1>8, <3>2, <3>3 DEF a, u
  <2>3. CASE n # <<>>
    <3>1. u[1] = "restored" /\ u[2] = "unavailable" /\ Len(u) = 2
      BY <1>4, <1>8, <2>1, <2>3
    <3>2. Ordered(u) /\ OfEngine(a.row, u)
      BY <1>4, <1>5, <1>8, <3>1 DEF Ordered, OfEngine, Follows
    <3> QED
      BY <1>1, <1>8, <3>2 DEF a, u
  <2> QED
    BY <2>2, <2>3
<1>9. QED
  BY <1>2, <1>6, <1>7, <1>8

LEMMA TurnKeeps ==
    ASSUME PresenceInv, NEW p \in Polls, NEW e \in Engines, NEW answers \in BOOLEAN,
           NEW rows \in Table, Turned(p, e, answers, rows), activity' \in [Devices -> Time]
    PROVE  PresenceInv'
<1>1. Devices \cap Engines = {}
  BY PresenceAssumption DEF Engines
<1>2. polls[p] \in Poll /\ polls[p].reference \in Time
  BY DEF PresenceInv, PresenceTypeOK, Poll
<1>3. ASSUME NEW d \in Devices
      PROVE  facts'[d] \in Facts /\ Ordered(news'[d]) /\ OfDevice(facts'[d], news'[d])
  <2>1. facts[d] \in Facts /\ Ordered(news[d]) /\ OfDevice(facts[d], news[d])
    BY DEF PresenceInv, PresenceTypeOK
  <2>2. rows[d] \in [Engines -> Presence]
    BY DEF Table
  <2>3. CASE d \in active /\ e = "xray"
    <3> DEFINE c == Conclusion(facts[d], rows[d], polls[p].reference)
    <3>1. TurnEvent(p, e, answers, rows, d) = c.event
      BY <1>1, <2>3 DEF TurnEvent
    <3>2. facts'[d] = c.facts
      BY <2>3 DEF Turned
    <3>3. news'[d] = IF c.event = "none" THEN news[d] ELSE LastTwo(Append(news[d], c.event))
      BY <3>1 DEF Turned
    <3> QED
      BY <1>2, <2>1, <2>2, <3>2, <3>3, NewsOfDevice
  <2>4. CASE ~(d \in active /\ e = "xray")
    <3>1. TurnEvent(p, e, answers, rows, d) = "none"
      BY <1>1, <2>4 DEF TurnEvent
    <3>2. facts'[d] = facts[d] /\ news'[d] = news[d]
      BY <2>4, <3>1 DEF Turned
    <3> QED
      BY <2>1, <3>2
  <2> QED
    BY <2>3, <2>4
<1>4. ASSUME NEW n \in Engines
      PROVE  telemetry'[n] \in Row /\ Ordered(news'[n]) /\ OfEngine(telemetry'[n], news'[n])
  <2>1. telemetry[n] \in Row /\ Ordered(news[n]) /\ OfEngine(telemetry[n], news[n])
    BY DEF PresenceInv, PresenceTypeOK
  <2>2. CASE n = e
    <3> DEFINE a == Answered(telemetry[n], answers)
    <3>1. TurnEvent(p, e, answers, rows, n) = a.event
      BY <2>2 DEF TurnEvent
    <3>2. telemetry'[n] = a.row
      BY <2>2 DEF Turned, PresenceInv, PresenceTypeOK
    <3>3. news'[n] = IF a.event = "none" THEN news[n] ELSE LastTwo(Append(news[n], a.event))
      BY <3>1 DEF Turned
    <3> QED
      BY <2>1, <3>2, <3>3, NewsOfEngine
  <2>3. CASE n # e
    <3>1. TurnEvent(p, e, answers, rows, n) = "none"
      BY <1>1, <2>3 DEF TurnEvent
    <3>2. telemetry'[n] = telemetry[n] /\ news'[n] = news[n]
      BY <2>3, <3>1 DEF Turned, PresenceInv, PresenceTypeOK
    <3> QED
      BY <2>1, <3>2
  <2> QED
    BY <2>2, <2>3
<1>5. facts' \in [Devices -> Facts]
  <2>1. DOMAIN facts' = Devices /\ facts' = [d \in DOMAIN facts' |-> facts'[d]]
    BY DEF Turned
  <2> QED
    BY <1>3, <2>1
<1>6. telemetry' \in [Engines -> Row]
  <2>1. DOMAIN telemetry' = Engines /\ telemetry' = [n \in DOMAIN telemetry' |-> telemetry'[n]]
    BY DEF Turned, PresenceInv, PresenceTypeOK
  <2> QED
    BY <1>4, <2>1
<1>7. news' \in [Devices \cup Engines -> Seq(PresenceNews)]
  <2>1. DOMAIN news' = Devices \cup Engines /\ news' = [s \in DOMAIN news' |-> news'[s]]
    BY DEF Turned
  <2>2. \A s \in Devices \cup Engines : news'[s] \in Seq(PresenceNews)
    BY <1>3, <1>4 DEF Ordered
  <2> QED
    BY <2>1, <2>2
<1>8. polls' \in [Polls -> Poll]
  <2>1. [polls[p] EXCEPT !.awaits = IF e = "hysteria" THEN "xray" ELSE "none"] \in Poll
    BY <1>2 DEF Poll, Engines
  <2> QED
    BY <2>1 DEF Turned, PresenceInv, PresenceTypeOK
<1>9. PresenceTypeOK'
  <2>1. /\ now' \in Time /\ active' \subseteq Devices /\ unfinished' \subseteq Devices
        /\ breaks' \in 0..MaxBreaks /\ presence' \in [Devices -> [Engines -> Presence]]
    BY DEF Turned, PresenceInv, PresenceTypeOK, Table
  <2> QED
    BY <1>5, <1>6, <1>7, <1>8, <2>1 DEF PresenceTypeOK, PresenceNews
<1>10. QED
  BY <1>3, <1>4, <1>9 DEF PresenceInv

\* The other steps tell nothing.
LEMMA Quiet ==
    ASSUME PresenceInv, PresenceTypeOK', UNCHANGED <<facts, telemetry, news>>
    PROVE  PresenceInv'
BY DEF PresenceInv

LEMMA PresenceStep ==
    ASSUME PresenceInv, [PresenceNext]_presenceVars
    PROVE  PresenceInv'
<1> USE DEF PresenceTypeOK
<1>1. PresenceTypeOK
  BY DEF PresenceInv
<1>2. CASE Tick
  BY <1>1, <1>2, PresenceAssumption, Quiet DEF Tick, Time
<1>3. ASSUME NEW p \in Polls, Begin(p) PROVE PresenceInv'
  <2>1. [awaits |-> "hysteria", reference |-> now] \in Poll
    BY <1>1 DEF Poll, Engines
  <2> QED
    BY <1>1, <1>3, <2>1, Quiet DEF Begin
<1>4. ASSUME NEW p \in Polls, NEW devices \in SUBSET Devices, Shown(p, devices)
      PROVE  activity' \in [Devices -> Time]
  <2>1. polls[p].reference \in Time
    BY <1>1 DEF Poll
  <2> QED
    BY <1>1, <1>4, <2>1 DEF Shown
<1>5. ASSUME NEW p \in Polls, HysteriaAnswers(p) PROVE PresenceInv'
  <2>1. PICK rows \in Table : Turned(p, "hysteria", TRUE, rows)
    BY <1>5, HysteriaTurns
  <2>2. activity' \in [Devices -> Time]
    BY <1>1, <1>4, <1>5 DEF HysteriaAnswers
  <2> QED
    BY <2>1, <2>2, TurnKeeps DEF Engines
<1>6. ASSUME NEW p \in Polls, XrayAnswers(p) PROVE PresenceInv'
  <2>1. PICK rows \in Table : Turned(p, "xray", TRUE, rows)
    BY <1>6, XrayTurns
  <2>2. activity' \in [Devices -> Time]
    BY <1>1, <1>4, <1>6 DEF XrayAnswers
  <2> QED
    BY <2>1, <2>2, TurnKeeps DEF Engines
<1>7. ASSUME NEW p \in Polls, Fails(p) PROVE PresenceInv'
  <2>1. PICK e \in Engines, rows \in Table : Turned(p, e, FALSE, rows)
    BY <1>7, FailureTurns
  <2>2. activity' \in [Devices -> Time]
    BY <1>1, <1>7 DEF Fails
  <2> QED
    BY <2>1, <2>2, TurnKeeps
<1>8. ASSUME NEW d \in Devices, Pause(d) PROVE PresenceInv'
  BY <1>1, <1>8, PresenceAssumption, Quiet DEF Pause, Split
<1>9. ASSUME NEW d \in Devices, Resume(d) PROVE PresenceInv'
  BY <1>1, <1>9, Quiet DEF Resume, Split
<1>10. CASE Crash
  <2>1. \A p \in Polls : [polls[p] EXCEPT !.awaits = "none"] \in Poll
    BY <1>1 DEF Poll
  <2> QED
    BY <1>1, <1>10, <2>1, PresenceAssumption, Quiet DEF Crash, Split
<1>11. CASE UNCHANGED presenceVars
  BY <1>1, <1>11, Quiet DEF presenceVars
<1>12. QED
  BY <1>2, <1>3, <1>5, <1>6, <1>7, <1>8, <1>9, <1>10, <1>11 DEF PresenceNext

LEMMA InitiallyPresent ==
    ASSUME PresenceInit
    PROVE  PresenceInv
<1>1. \A S : <<>> \in Seq(S) /\ Len(<<>>) = 0
  BY EmptySeq
<1>2. NoRow \in Row /\ NoRow.status = "none"
  BY DEF Row, NoRow
<1>3. NoPresence \in Presence
  BY DEF Presence
<1>4. 0 \in Time /\ 1 \in Time
  BY PresenceAssumption DEF Time
<1>5. Ordered(<<>>) /\ OfEngine(NoRow, <<>>)
  BY <1>1, <1>2 DEF Ordered, OfEngine
<1>6. OfDevice([seen |-> FALSE, lastSeen |-> Never, notified |-> FALSE], <<>>)
  BY DEF OfDevice
<1>7. PresenceTypeOK
  BY <1>1, <1>2, <1>3, <1>4, PresenceAssumption
  DEF PresenceInit, PresenceTypeOK, Poll, Facts, Never
<1>8. QED
  BY <1>5, <1>6, <1>7 DEF PresenceInit, PresenceInv

\* The clock, the rows of both engines, the facts and the events are what they should be,
\* for any number of devices and of polls under way.
THEOREM PresenceTypeCorrect ==
    PresenceSpec => []PresenceTypeOK
<1>1. PresenceInv => PresenceTypeOK
  BY DEF PresenceInv
<1>2. QED
  BY <1>1, InitiallyPresent, PresenceStep, PTL DEF PresenceSpec

\* What the journal tells of a device and of an engine is in turn, for any number of
\* devices, of polls under way and of ends of the process.
THEOREM NewsInTurn ==
    PresenceSpec => []NewsAlternate
<1>1. PresenceInv => NewsAlternate
  BY DEF PresenceInv, NewsAlternate, Ordered, Follows
<1>2. QED
  BY <1>1, InitiallyPresent, PresenceStep, PTL DEF PresenceSpec

-----------------------------------------------------------------------------
(* One poll at a time *)

\* The timer finds the poll before it finished.
OnePoll == \A p, q \in Polls : p = q

Hysteria(d) == presence[d]["hysteria"]
Xray(d) == presence[d]["xray"]

\* The activity of a device is in one of its rows, and none is ahead of it.
Witnessed(d) ==
    /\ Hysteria(d).lastActive <= activity[d]
    /\ Xray(d).lastActive <= activity[d]
    /\ activity[d] \in {Hysteria(d).lastActive, Xray(d).lastActive}
    /\ facts[d].lastSeen <= activity[d]

\* A connected device moved no bytes through Xray later.
Between(d) ==
    /\ Hysteria(d).status = "online" /\ Hysteria(d).misses = 0 =>
           Xray(d).lastActive <= Hysteria(d).lastActive
    /\ activity[d] <= facts[d].lastSeen + Window

\* Hysteria has answered or failed, and what it showed is in no fact yet.
Halfway(p, d) ==
    /\ Hysteria(d).status = "online" => Xray(d).lastActive <= Hysteria(d).lastActive
    /\ Hysteria(d).status = "online" /\ Hysteria(d).misses = 0 =>
           Hysteria(d).lastActive = polls[p].reference
    /\ \/ activity[d] <= facts[d].lastSeen + Window
       \/ Hysteria(d).status = "online" /\ Hysteria(d).lastActive = activity[d]
    /\ Hysteria(d).status # "none"
    /\ Hysteria(d).status # "unknown" => telemetry["hysteria"].failures = 0

SeenInv ==
    /\ PresenceInv
    /\ now >= 1
    /\ \A d \in Devices : Witnessed(d) /\ activity[d] <= now
    /\ \A p \in Polls : polls[p].awaits # "none" =>
           /\ 1 <= polls[p].reference /\ polls[p].reference <= now
           /\ \A d \in Devices : activity[d] <= polls[p].reference
    /\ \A p \in Polls : polls[p].awaits = "xray" =>
           \A d \in active \ unfinished : Halfway(p, d)
    /\ \A d \in Devices \ unfinished :
           d \notin active \/ (\A p \in Polls : polls[p].awaits # "xray") => Between(d)

\* A turn, row by row.
RowsTurned(p, e, answers, row) ==
    /\ polls[p].awaits = e
    /\ polls'[p].awaits = (IF e = "hysteria" THEN "xray" ELSE "none")
    /\ polls'[p].reference = polls[p].reference
    /\ \A d \in Devices, n \in Engines :
           presence'[d][n] = IF d \in active /\ n = e THEN row[d] ELSE presence[d][n]
    /\ \A d \in Devices :
           facts'[d] = IF d \in active /\ e = "xray"
                       THEN Conclusion(facts[d], presence'[d], polls[p].reference).facts
                       ELSE facts[d]
    /\ telemetry'[e].failures = 0 <=> answers
    /\ \A n \in Engines \ {e} : telemetry'[n] = telemetry[n]
    /\ UNCHANGED <<now, active, unfinished>>

LEMMA TurnOfRows ==
    ASSUME PresenceInv, NEW p \in Polls, NEW e \in Engines, NEW answers \in BOOLEAN, NEW row,
           Turn(p, e, answers, row)
    PROVE  RowsTurned(p, e, answers, row)
<1>1. /\ polls \in [Polls -> Poll] /\ polls[p] \in Poll
      /\ presence \in [Devices -> [Engines -> Presence]]
      /\ telemetry \in [Engines -> Row]
  BY DEF PresenceInv, PresenceTypeOK
<1>2. /\ polls'[p].awaits = (IF e = "hysteria" THEN "xray" ELSE "none")
      /\ polls'[p].reference = polls[p].reference
  BY <1>1 DEF Turn, Poll
<1>3. \A d \in Devices, n \in Engines :
        presence'[d][n] = IF d \in active /\ n = e THEN row[d] ELSE presence[d][n]
  BY <1>1 DEF Turn
<1>4. ASSUME NEW d \in Devices
      PROVE  facts'[d] = IF d \in active /\ e = "xray"
                         THEN Conclusion(facts[d], presence'[d], polls[p].reference).facts
                         ELSE facts[d]
  BY DEF Turn
<1>5. telemetry'[e] = Answered(telemetry[e], answers).row
  BY <1>1 DEF Turn
<1>6. telemetry'[e].failures = 0 <=> answers
  <2>1. telemetry[e].failures \in 0..2
    BY <1>1 DEF Row, NoRow
  <2> QED
    BY <1>5, <2>1 DEF Answered, Result, Counted
<1>7. \A n \in Engines \ {e} : telemetry'[n] = telemetry[n]
  BY <1>1 DEF Turn
<1>8. QED
  BY <1>2, <1>3, <1>4, <1>6, <1>7 DEF Turn, RowsTurned

\* The facts that follow from the rows of a device.
LEMMA FactsOfRows ==
    ASSUME NEW f \in Facts, NEW rows \in [Engines -> Presence], NEW reference \in Time
    PROVE  LET c == Conclusion(f, rows, reference).facts
           IN  /\ Online(rows) # {} =>
                      /\ ~c.notified
                      /\ \E e \in Online(rows) : c.lastSeen = rows[e].lastActive
                      /\ \A e \in Online(rows) : rows[e].lastActive <= c.lastSeen
               /\ Online(rows) = {} =>
                      /\ c.lastSeen = f.lastSeen
                      /\ c.notified /\ ~f.notified =>
                             /\ \A e \in Engines : rows[e].status \in {"none", "offline"}
                             /\ reference >= f.lastSeen + Day
<1> DEFINE lastSeen == Latest(rows)
           absent == ~f.notified /\ reference >= f.lastSeen + Day
<1>1. CASE Online(rows) # {}
  <2>1. Aggregate(rows) = "online"
    BY <1>1 DEF Aggregate
  <2>2. /\ ~Conclusion(f, rows, reference).facts.notified
        /\ Conclusion(f, rows, reference).facts.lastSeen = lastSeen
    BY <2>1 DEF Conclusion, Concluded
  <2> HIDE DEF lastSeen
  <2>3. /\ \E e \in Online(rows) : lastSeen = rows[e].lastActive
        /\ \A e \in Online(rows) : rows[e].lastActive <= lastSeen
    BY <1>1, LatestIsTime DEF lastSeen
  <2> QED
    BY <1>1, <2>2, <2>3
<1>2. CASE Online(rows) = {}
  <2>1. Aggregate(rows) # "online"
    BY <1>2 DEF Aggregate
  <2>2. CASE Aggregate(rows) = "offline" /\ f.lastSeen # Never /\ absent
    <3>1. \A e \in Engines : rows[e].status \in {"none", "offline"}
      BY <1>2, <2>2 DEF Aggregate
    <3>2. Conclusion(f, rows, reference).facts = [f EXCEPT !.notified = TRUE]
      BY <2>1, <2>2 DEF Conclusion, Concluded
    <3>3. [f EXCEPT !.notified = TRUE].lastSeen = f.lastSeen
      BY DEF Facts
    <3> QED
      BY <1>2, <2>2, <3>1, <3>2, <3>3
  <2>3. CASE ~(Aggregate(rows) = "offline" /\ f.lastSeen # Never /\ absent)
    <3>1. Conclusion(f, rows, reference).facts = f
      BY <2>1, <2>3 DEF Conclusion, Concluded
    <3> QED
      BY <1>2, <3>1
  <2> QED
    BY <2>2, <2>3
<1>3. QED
  BY <1>1, <1>2

\* The invariant, when there is one poll.
LEMMA SeenOfOne ==
    ASSUME OnePoll, NEW p \in Polls, PresenceInv', now' >= 1,
           \A d \in Devices : Witnessed(d)' /\ activity'[d] <= now',
           polls'[p].awaits # "none" =>
               /\ 1 <= polls'[p].reference /\ polls'[p].reference <= now'
               /\ \A d \in Devices : activity'[d] <= polls'[p].reference,
           polls'[p].awaits = "xray" => \A d \in active' \ unfinished' : Halfway(p, d)',
           \A d \in Devices \ unfinished' :
               d \notin active' \/ polls'[p].awaits # "xray" => Between(d)'
    PROVE  SeenInv'
<1>1. \A q \in Polls : q = p
  BY DEF OnePoll
<1>2. /\ \A q \in Polls : polls'[q].awaits # "none" =>
             /\ 1 <= polls'[q].reference /\ polls'[q].reference <= now'
             /\ \A d \in Devices : activity'[d] <= polls'[q].reference
      /\ \A q \in Polls : polls'[q].awaits = "xray" =>
             \A d \in active' \ unfinished' : Halfway(q, d)'
  BY <1>1
<1>3. \A d \in Devices \ unfinished' :
          d \notin active' \/ (\A q \in Polls : polls'[q].awaits # "xray") => Between(d)'
  OBVIOUS
<1>4. QED
  BY <1>2, <1>3 DEF SeenInv

\* The types of what is compared.
Timed ==
    /\ now \in Nat
    /\ \A p \in Polls : polls[p].reference \in Nat
    /\ \A d \in Devices :
           /\ Hysteria(d).lastActive \in Nat /\ Xray(d).lastActive \in Nat
           /\ activity[d] \in Nat /\ facts[d].lastSeen \in Nat
           /\ Hysteria(d) \in Presence /\ Xray(d) \in Presence
           /\ facts[d] \in Facts /\ presence[d] \in [Engines -> Presence]

LEMMA Times ==
    PresenceInv => Timed
<1> SUFFICES ASSUME PresenceInv PROVE Timed
  OBVIOUS
<1>1. Time \subseteq Nat
  BY PresenceAssumption DEF Time
<1>2. now \in Nat /\ \A p \in Polls : polls[p].reference \in Nat
  BY <1>1 DEF PresenceInv, PresenceTypeOK, Poll
<1>3. ASSUME NEW row \in Presence PROVE row.lastActive \in Nat
  <2>1. CASE row = NoPresence
    BY <2>1 DEF NoPresence, Never
  <2>2. CASE row # NoPresence
    <3>1. row \in [status : {"online", "offline", "unknown"}, misses : 0..2, lastActive : Time]
      BY <1>3, <2>2 DEF Presence
    <3> HIDE DEF Time
    <3> QED
      BY <1>1, <3>1
  <2> QED
    BY <2>1, <2>2
<1>4. ASSUME NEW d \in Devices
      PROVE  /\ Hysteria(d) \in Presence /\ Xray(d) \in Presence
             /\ facts[d] \in Facts /\ activity[d] \in Time
             /\ presence[d] \in [Engines -> Presence]
  BY DEF PresenceInv, PresenceTypeOK, Hysteria, Xray, Engines
<1>5. \A d \in Devices : facts[d].lastSeen \in Nat
  BY <1>1, <1>4 DEF Facts
<1>6. QED
  BY <1>1, <1>2, <1>3, <1>4, <1>5 DEF Timed

LEMMA TimesNext ==
    PresenceInv' => Timed'
BY Times, PTL

\* Hysteria connected these devices, or did not answer.
LEMMA HysteriaSeen ==
    ASSUME OnePoll, SeenInv, PresenceInv', NEW p \in Polls, HysteriaAnswers(p)
    PROVE  SeenInv'
<1>1. PICK connected \in SUBSET active :
        /\ Turn(p, "hysteria", TRUE, [d \in Devices |->
               OfConnections(presence[d]["hysteria"], d \in connected, polls[p].reference)])
        /\ Shown(p, connected)
  BY DEF HysteriaAnswers
<1> DEFINE row == [d \in Devices |->
               OfConnections(presence[d]["hysteria"], d \in connected, polls[p].reference)]
           reference == polls[p].reference
<1>2. PresenceInv
  BY DEF SeenInv
<1>3. "hysteria" \in Engines /\ "xray" \in Engines
  BY DEF Engines
<1>0. RowsTurned(p, "hysteria", TRUE, row)
  BY <1>1, <1>2, <1>3, TurnOfRows
<1> HIDE DEF row
<1>4. /\ polls[p].awaits = "hysteria"
      /\ polls'[p].awaits = "xray"
      /\ polls'[p].reference = reference
      /\ \A d \in Devices, n \in Engines :
             presence'[d][n] = IF d \in active /\ n = "hysteria" THEN row[d] ELSE presence[d][n]
      /\ \A d \in Devices : facts'[d] = facts[d]
      /\ telemetry'["hysteria"].failures = 0
      /\ UNCHANGED <<now, active, unfinished>>
  BY <1>0 DEF RowsTurned
<1>5. \A d \in Devices :
          /\ Xray(d)' = Xray(d)
          /\ Hysteria(d)' = IF d \in active
                            THEN OfConnections(Hysteria(d), d \in connected, reference)
                            ELSE Hysteria(d)
  BY <1>3, <1>4, PresenceAssumption DEF Hysteria, Xray, row
<1>6. /\ 1 <= reference /\ reference <= now
      /\ \A d \in Devices : activity[d] <= reference
  BY <1>4 DEF SeenInv
<1>7. ASSUME NEW d \in Devices
      PROVE  activity'[d] = IF d \in connected THEN reference ELSE activity[d]
  <2>1. activity[d] \in Nat /\ reference \in Nat /\ activity[d] <= reference
    BY <1>2, <1>6, <1>7, Times DEF Timed
  <2> QED
    BY <1>1, <1>7, <2>1 DEF Shown
<1>8. \A d \in Devices \ unfinished : Between(d)
  <2>1. \A q \in Polls : polls[q].awaits # "xray"
    BY <1>4 DEF OnePoll
  <2> QED
    BY <2>1 DEF SeenInv
<1>9. ASSUME NEW d \in Devices
      PROVE  /\ Witnessed(d)' /\ activity'[d] <= reference
             /\ d \in active' \ unfinished' => Halfway(p, d)'
             /\ d \notin active' /\ d \notin unfinished' => Between(d)'
  <2> DEFINE h == Hysteria(d)
  <2>1. /\ Hysteria(d).lastActive \in Nat /\ Xray(d).lastActive \in Nat
        /\ activity[d] \in Nat /\ facts[d].lastSeen \in Nat /\ reference \in Nat
        /\ h \in Presence
    BY <1>2, <1>9, Times DEF Timed
  <2>2. Witnessed(d) /\ activity[d] <= reference
    BY <1>6, <1>9 DEF SeenInv
  <2>3. d \notin unfinished => Between(d)
    BY <1>8, <1>9
  <2>4. CASE d \notin active
    <3>1. UNCHANGED <<Hysteria(d), Xray(d), facts[d], activity[d]>>
      BY <1>4, <1>5, <1>7, <1>9, <2>4
    <3> QED
      BY <1>4, <2>2, <2>3, <2>4, <3>1 DEF Witnessed, Between
  <2>5. CASE d \in connected
    <3>1. Hysteria(d)' = [status |-> "online", misses |-> 0, lastActive |-> reference]
      BY <1>5, <1>9, <2>5 DEF OfConnections
    <3>2. activity'[d] = reference /\ facts'[d] = facts[d] /\ Xray(d)' = Xray(d)
      BY <1>4, <1>5, <1>7, <1>9, <2>5
    <3> QED
      BY <1>4, <2>1, <2>2, <2>5, <3>1, <3>2 DEF Witnessed, Halfway
  <2>6. CASE d \in active \ connected
    <3>1. Hysteria(d)' = [status |-> IF Counted(h.misses) = 2 THEN "offline" ELSE Held(h, "unknown"),
                          misses |-> Counted(h.misses), lastActive |-> h.lastActive]
      BY <1>5, <1>9, <2>6 DEF OfConnections
    <3>2. UNCHANGED <<Xray(d), facts[d], activity[d]>>
      BY <1>4, <1>5, <1>7, <1>9, <2>6
    <3>3. h.misses \in 0..2 /\ h.status \in {"none", "online", "offline", "unknown"}
      BY <2>1 DEF Presence, NoPresence
    <3>4. /\ Hysteria(d)'.lastActive = h.lastActive
          /\ Hysteria(d)'.misses # 0
          /\ Hysteria(d)'.status # "none"
          /\ Hysteria(d)'.status = "online" => h.status = "online" /\ h.misses = 0
      BY <3>1, <3>3 DEF Counted, Held
    <3> QED
      BY <1>4, <2>1, <2>2, <2>3, <2>6, <3>2, <3>4 DEF Witnessed, Halfway, Between
  <2> QED
    BY <2>4, <2>5, <2>6
<1>10. now' >= 1
  BY <1>4 DEF SeenInv
<1>11. \A d \in Devices : activity'[d] <= now'
  BY <1>2, <1>4, <1>6, <1>9, Times, TimesNext DEF Timed
<1>12. \A d \in Devices : Witnessed(d)' /\ activity'[d] <= now'
  BY <1>9, <1>11
<1>13. /\ 1 <= polls'[p].reference /\ polls'[p].reference <= now'
       /\ \A d \in Devices : activity'[d] <= polls'[p].reference
  BY <1>4, <1>6, <1>9
<1>14. /\ \A d \in active' \ unfinished' : Halfway(p, d)'
       /\ \A d \in Devices \ unfinished' :
              d \notin active' \/ polls'[p].awaits # "xray" => Between(d)'
  <2>1. active' \subseteq Devices
    BY <1>2, <1>4 DEF PresenceInv, PresenceTypeOK
  <2> QED
    BY <1>4, <1>9, <2>1
<1>15. QED
  BY <1>10, <1>12, <1>13, <1>14, SeenOfOne

\* Xray showed this device active in the poll, or did not.
XraySaid(d, reference) ==
    \/ /\ Xray(d)'.lastActive = reference /\ activity'[d] = reference
       /\ Xray(d)'.status = "online"
    \/ /\ Xray(d)'.lastActive = Xray(d).lastActive /\ activity'[d] = activity[d]
       /\ Xray(d)'.status = "online" => reference <= Xray(d).lastActive + Window

\* Absence is told when both engines know better and the device has shown nothing for long.
Away(d, reference) ==
    ~facts[d].notified /\ facts'[d].notified =>
        /\ reference + Window >= activity'[d] + Day
        /\ telemetry["hysteria"].failures = 0
        /\ Xray(d)'.status # "unknown"

\* The last turn of a poll brings the facts of a device up to what the poll showed.
LEMMA LastTurn ==
    ASSUME OnePoll, SeenInv, PresenceInv', NEW p \in Polls, NEW answers \in BOOLEAN, NEW row,
           RowsTurned(p, "xray", answers, row), NEW d \in Devices,
           d \in active => XraySaid(d, polls[p].reference),
           d \notin active => activity'[d] = activity[d]
    PROVE  /\ Witnessed(d)' /\ activity'[d] <= polls[p].reference
           /\ d \notin unfinished => Between(d)' /\ Away(d, polls[p].reference)
<1> DEFINE reference == polls[p].reference
           f == facts[d]
           rows == presence'[d]
           g == facts'[d]
           h == Hysteria(d)
           x == Xray(d)'
<1>1. PresenceInv /\ Timed /\ Timed'
  BY Times, TimesNext DEF SeenInv
<1>2. /\ h.lastActive \in Nat /\ x.lastActive \in Nat /\ Xray(d).lastActive \in Nat
      /\ activity[d] \in Nat /\ activity'[d] \in Nat /\ f.lastSeen \in Nat /\ g.lastSeen \in Nat
      /\ reference \in Nat /\ Window \in Nat /\ Day \in Nat
      /\ f \in Facts /\ rows \in [Engines -> Presence] /\ h \in Presence
  BY <1>1, PresenceAssumption DEF Timed
<1>3. polls[p].awaits = "xray" /\ UNCHANGED <<active, unfinished>>
  BY DEF RowsTurned
<1>4. Witnessed(d) /\ activity[d] <= reference
  BY <1>3 DEF SeenInv
<1>5. d \notin active /\ d \notin unfinished => Between(d)
  BY DEF SeenInv
<1>6. d \in active /\ d \notin unfinished => Halfway(p, d)
  BY <1>3 DEF SeenInv
<1>7. Hysteria(d)' = h
  BY DEF RowsTurned, Hysteria, Engines
<1>8. CASE d \notin active
  <2>1. UNCHANGED <<Hysteria(d), Xray(d), facts[d], activity[d]>>
    BY <1>7, <1>8 DEF RowsTurned, Xray, Engines
  <2> QED
    BY <1>4, <1>5, <1>8, <2>1 DEF Witnessed, Between, Away
<1>9. CASE d \in active
  <2>1. g = Conclusion(f, rows, reference).facts
    BY <1>9 DEF RowsTurned
  <2>2. rows["hysteria"] = h /\ rows["xray"] = x
    BY <1>7 DEF Hysteria, Xray
  <2>3. reference \in Time
    BY <1>1 DEF PresenceInv, PresenceTypeOK, Poll
  <2>4. Online(rows) = {e \in {"hysteria", "xray"} : rows[e].status = "online"}
    BY DEF Online, Engines
  <2>5. XraySaid(d, reference)
    BY <1>9
  <2> HIDE DEF h, x, f, g, rows, reference
  <2>6. CASE Online(rows) # {}
    <3>1. /\ ~g.notified
          /\ \E e \in Online(rows) : g.lastSeen = rows[e].lastActive
          /\ \A e \in Online(rows) : rows[e].lastActive <= g.lastSeen
      BY <1>2, <2>1, <2>3, <2>6, FactsOfRows
    <3>2. h.status = "online" \/ x.status = "online"
      BY <2>2, <2>4, <2>6
    <3>3. /\ g.lastSeen \in {h.lastActive, x.lastActive}
          /\ h.status = "online" => h.lastActive <= g.lastSeen
          /\ x.status = "online" => x.lastActive <= g.lastSeen
      BY <2>2, <2>4, <3>1
    <3>4. /\ h.lastActive <= activity'[d] /\ x.lastActive <= activity'[d]
          /\ activity'[d] \in {h.lastActive, x.lastActive}
          /\ activity'[d] <= reference
      BY <1>2, <1>4, <2>5 DEF Witnessed, XraySaid, x, h
    <3>5. Witnessed(d)'
      BY <1>2, <1>7, <3>3, <3>4 DEF Witnessed, x, g
    <3>6. ASSUME d \notin unfinished PROVE Between(d)'
      <4>1. Halfway(p, d)
        BY <1>6, <1>9, <3>6
      <4>2. h.status = "online" /\ h.misses = 0 => x.lastActive <= h.lastActive
        BY <1>2, <1>4, <2>5, <4>1 DEF Halfway, XraySaid, Witnessed, x, h, reference
      <4>3. activity'[d] <= g.lastSeen + Window
        <5>1. CASE x.status = "online"
          BY <1>2, <1>4, <2>5, <3>3, <3>4, <5>1 DEF XraySaid, x
        <5>2. CASE x.status # "online"
          <6>1. h.status = "online" /\ activity'[d] = activity[d]
            BY <2>5, <3>2, <5>2 DEF XraySaid, x
          <6>2. activity[d] = h.lastActive
            BY <1>2, <1>4, <4>1, <6>1 DEF Halfway, Witnessed, h
          <6> QED
            BY <1>2, <3>3, <6>1, <6>2
        <5> QED
          BY <5>1, <5>2
      <4> QED
        BY <1>7, <4>2, <4>3 DEF Between, h, x, g
    <3>7. Away(d, reference)
      BY <3>1 DEF Away, g
    <3> QED
      BY <3>4, <3>5, <3>6, <3>7 DEF reference
  <2>7. CASE Online(rows) = {}
    <3>1. /\ g.lastSeen = f.lastSeen
          /\ g.notified /\ ~f.notified =>
                 /\ \A e \in Engines : rows[e].status \in {"none", "offline"}
                 /\ reference >= f.lastSeen + Day
      BY <1>2, <2>1, <2>3, <2>7, FactsOfRows
    <3>2. h.status # "online" /\ x.status # "online"
      BY <2>2, <2>4, <2>7
    <3>3. x.lastActive = Xray(d).lastActive /\ activity'[d] = activity[d]
      BY <2>5, <3>2 DEF XraySaid, x
    <3>4. Witnessed(d)' /\ activity'[d] <= reference
      BY <1>4, <1>7, <3>1, <3>3 DEF Witnessed, h, x, f, g
    <3>5. ASSUME d \notin unfinished
          PROVE  Between(d)' /\ Away(d, reference)
      <4>1. Halfway(p, d)
        BY <1>6, <1>9, <3>5
      <4>2. activity'[d] <= g.lastSeen + Window
        BY <3>1, <3>2, <3>3, <4>1 DEF Halfway, h, f
      <4>3. Between(d)'
        BY <1>7, <3>2, <4>2 DEF Between, h, x, g
      <4>4. ASSUME g.notified /\ ~f.notified
            PROVE  /\ reference + Window >= activity'[d] + Day
                   /\ telemetry["hysteria"].failures = 0
                   /\ x.status # "unknown"
        <5>1. reference >= f.lastSeen + Day
          BY <3>1, <4>4
        <5>2. h.status \in {"none", "offline"} /\ x.status \in {"none", "offline"}
          BY <2>2, <3>1, <4>4 DEF Engines
        <5>3. telemetry["hysteria"].failures = 0
          BY <4>1, <5>2 DEF Halfway, h
        <5> QED
          BY <1>2, <3>1, <4>2, <5>1, <5>2, <5>3
      <4> QED
        BY <4>3, <4>4 DEF Away, f, g, x
    <3> QED
      BY <3>4, <3>5 DEF reference
  <2> QED
    BY <2>6, <2>7
<1>10. QED
  BY <1>8, <1>9

\* After the last turn no poll is under way.
LEMMA PollEnds ==
    ASSUME OnePoll, SeenInv, PresenceInv', NEW p \in Polls, NEW answers \in BOOLEAN, NEW row,
           RowsTurned(p, "xray", answers, row),
           \A d \in active : XraySaid(d, polls[p].reference),
           \A d \in Devices \ active : activity'[d] = activity[d]
    PROVE  SeenInv' /\ \A d \in Devices \ unfinished : Away(d, polls[p].reference)
<1>1. /\ polls[p].awaits = "xray" /\ polls'[p].awaits = "none"
      /\ UNCHANGED <<now, active, unfinished>>
  BY DEF RowsTurned
<1>2. \A d \in Devices :
          /\ Witnessed(d)' /\ activity'[d] <= polls[p].reference
          /\ d \notin unfinished => Between(d)' /\ Away(d, polls[p].reference)
  BY LastTurn
<1>3. polls[p].reference <= now /\ now >= 1
  BY <1>1 DEF SeenInv
<1>4. \A d \in Devices : activity'[d] <= now'
  BY <1>1, <1>2, <1>3, Times, TimesNext DEF Timed, SeenInv
<1>5. SeenInv'
  BY <1>1, <1>2, <1>3, <1>4, SeenOfOne
<1>6. QED
  BY <1>2, <1>5

LEMMA XraySeen ==
    ASSUME OnePoll, SeenInv, PresenceInv', NEW p \in Polls, XrayAnswers(p)
    PROVE  /\ SeenInv' /\ polls[p].awaits = "xray" /\ telemetry'["xray"].failures = 0
           /\ telemetry'["hysteria"] = telemetry["hysteria"]
           /\ \A d \in Devices \ unfinished : Away(d, polls[p].reference)
<1> DEFINE reference == polls[p].reference
<1>1. PICK moved \in SUBSET active :
        /\ Turn(p, "xray", TRUE, [d \in Devices |->
               OfTraffic(presence[d]["xray"], d \in moved, reference)])
        /\ Shown(p, moved)
  BY DEF XrayAnswers
<1> DEFINE row == [d \in Devices |-> OfTraffic(presence[d]["xray"], d \in moved, reference)]
<1>2. PresenceInv /\ Timed
  BY Times DEF SeenInv
<1>3. RowsTurned(p, "xray", TRUE, row)
  BY <1>1, <1>2, TurnOfRows DEF Engines
<1>4. polls[p].awaits = "xray"
  BY <1>3 DEF RowsTurned
<1>5. 1 <= reference /\ \A d \in Devices : activity[d] <= reference
  BY <1>4 DEF SeenInv
<1>6. active \subseteq Devices
  BY <1>2 DEF PresenceInv, PresenceTypeOK
<1>7. ASSUME NEW d \in Devices
      PROVE  activity'[d] = IF d \in moved THEN reference ELSE activity[d]
  <2>1. activity[d] \in Nat /\ reference \in Nat /\ activity[d] <= reference
    BY <1>2, <1>5, <1>7 DEF Timed
  <2> QED
    BY <1>1, <1>7, <2>1 DEF Shown
<1>8. ASSUME NEW d \in active PROVE XraySaid(d, reference)
  <2>1. Xray(d)' = OfTraffic(Xray(d), d \in moved, reference)
    BY <1>3, <1>6 DEF RowsTurned, Xray, Engines
  <2>2. Xray(d).lastActive \in Nat /\ reference \in Nat /\ Window \in Nat
    BY <1>2, <1>6, PresenceAssumption DEF Timed
  <2>3. CASE d \in moved
    <3>1. Xray(d)' = [status |-> "online", misses |-> 0, lastActive |-> reference]
      BY <1>5, <2>1, <2>2, <2>3 DEF OfTraffic, Never
    <3> QED
      BY <1>6, <1>7, <2>3, <3>1 DEF XraySaid
  <2>4. CASE d \notin moved
    <3>1. /\ Xray(d)'.lastActive = Xray(d).lastActive
          /\ Xray(d)'.status = "online" => reference <= Xray(d).lastActive + Window
      BY <2>1, <2>4 DEF OfTraffic
    <3> QED
      BY <1>6, <1>7, <2>4, <3>1 DEF XraySaid
  <2> QED
    BY <2>3, <2>4
<1>9. \A d \in Devices \ active : activity'[d] = activity[d]
  BY <1>7
<1>10. telemetry'["xray"].failures = 0 /\ telemetry'["hysteria"] = telemetry["hysteria"]
  BY <1>3 DEF RowsTurned, Engines
<1> HIDE DEF row
<1>11. QED
  BY <1>3, <1>4, <1>8, <1>9, <1>10, PollEnds

\* An engine that does not answer shows nothing and tells nothing of a device.
LEMMA FailureSeen ==
    ASSUME OnePoll, SeenInv, PresenceInv', NEW p \in Polls, Fails(p)
    PROVE  /\ SeenInv'
           /\ \A d \in Devices \ unfinished : ~facts[d].notified => ~facts'[d].notified
<1>1. PICK e \in Engines : Turn(p, e, FALSE, [d \in Devices |-> Unanswered(presence[d][e])])
  BY DEF Fails
<1> DEFINE row == [d \in Devices |-> Unanswered(presence[d][e])]
<1>2. PresenceInv /\ Timed /\ activity' = activity
  BY Times DEF SeenInv, Fails
<1>3. RowsTurned(p, e, FALSE, row)
  BY <1>1, <1>2, TurnOfRows
<1>4. active \subseteq Devices
  BY <1>2 DEF PresenceInv, PresenceTypeOK
<1>5. \A d \in active : /\ presence'[d][e].status = "unknown"
                        /\ presence'[d][e].lastActive = presence[d][e].lastActive
  <2> TAKE d \in active
  <2>1. presence[d][e] \in Presence
    BY <1>2, <1>4 DEF PresenceInv, PresenceTypeOK
  <2>2. presence'[d][e] = [presence[d][e] EXCEPT !.status = "unknown"]
    BY <1>3, <1>4 DEF RowsTurned, Unanswered
  <2> QED
    BY <2>1, <2>2 DEF Presence, NoPresence
<1> HIDE DEF row
<1>6. CASE e = "xray"
  <2>1. \A d \in active : Xray(d)'.status = "unknown" /\ XraySaid(d, polls[p].reference)
    BY <1>2, <1>4, <1>5, <1>6 DEF Xray, XraySaid
  <2>2. SeenInv' /\ \A d \in Devices \ unfinished : Away(d, polls[p].reference)
    BY <1>2, <1>3, <1>6, <2>1, PollEnds
  <2>3. \A d \in Devices \ active : facts'[d] = facts[d]
    BY <1>3 DEF RowsTurned
  <2> QED
    BY <1>4, <2>1, <2>2, <2>3 DEF Away
<1>7. CASE e = "hysteria"
  <2>1. /\ polls[p].awaits = "hysteria" /\ polls'[p].awaits = "xray"
        /\ polls'[p].reference = polls[p].reference
        /\ \A d \in Devices : facts'[d] = facts[d] /\ Xray(d)' = Xray(d)
        /\ \A d \in Devices \ active : Hysteria(d)' = Hysteria(d)
        /\ UNCHANGED <<now, active, unfinished>>
    BY <1>3, <1>7 DEF RowsTurned, Xray, Hysteria, Engines
  <2>2. \A d \in active : /\ Hysteria(d)'.status = "unknown"
                          /\ Hysteria(d)'.lastActive = Hysteria(d).lastActive
    BY <1>5, <1>7 DEF Hysteria
  <2>3. \A d \in Devices : Witnessed(d) /\ activity[d] <= polls[p].reference /\ activity[d] <= now
    BY <2>1 DEF SeenInv
  <2>4. \A q \in Polls : polls[q].awaits # "xray"
    BY <2>1 DEF OnePoll
  <2>5. \A d \in Devices \ unfinished : Between(d)
    BY <2>4 DEF SeenInv
  <2>6. \A d \in Devices : Witnessed(d)'
    BY <1>2, <2>1, <2>2, <2>3 DEF Witnessed
  <2>7. \A d \in active \ unfinished : Halfway(p, d)'
    BY <1>2, <1>4, <2>1, <2>2, <2>5 DEF Halfway, Between
  <2>8. \A d \in Devices \ (unfinished \cup active) : Between(d)'
    BY <1>2, <2>1, <2>5 DEF Between
  <2>9. 1 <= polls'[p].reference /\ polls'[p].reference <= now' /\ now' >= 1
    BY <2>1 DEF SeenInv
  <2>10. /\ \A d \in Devices : Witnessed(d)' /\ activity'[d] <= now'
         /\ \A d \in Devices : activity'[d] <= polls'[p].reference
         /\ \A d \in active' \ unfinished' : Halfway(p, d)'
         /\ \A d \in Devices \ unfinished' :
                d \notin active' \/ polls'[p].awaits # "xray" => Between(d)'
    BY <1>2, <2>1, <2>3, <2>6, <2>7, <2>8
  <2>11. SeenInv'
    BY <2>9, <2>10, SeenOfOne
  <2> QED
    BY <2>1, <2>11
<1>8. QED
  BY <1>6, <1>7 DEF Engines

\* The other steps write no row and no fact.
LEMMA NothingShown ==
    ASSUME OnePoll, SeenInv, PresenceInv', now' >= now,
           UNCHANGED <<presence, facts, telemetry, activity>>,
           \A p \in Polls : polls'[p].awaits # "none" =>
               /\ 1 <= polls'[p].reference /\ polls'[p].reference <= now'
               /\ \A d \in Devices : activity[d] <= polls'[p].reference,
           \A p \in Polls : polls'[p].awaits = "xray" =>
               /\ polls[p].awaits = "xray" /\ polls'[p].reference = polls[p].reference
               /\ active' \ unfinished' \subseteq active \ unfinished,
           \A d \in Devices \ unfinished' :
               /\ d \notin unfinished
               /\ d \notin active' \/ (\A p \in Polls : polls'[p].awaits # "xray") =>
                      d \notin active \/ (\A p \in Polls : polls[p].awaits # "xray")
    PROVE  SeenInv'
<1>1. PresenceInv /\ Timed /\ Timed'
  BY Times, TimesNext DEF SeenInv
<1>2. \A d \in Devices : Witnessed(d) <=> Witnessed(d)'
  BY DEF Witnessed, Hysteria, Xray
<1>3. \A d \in Devices : Between(d) <=> Between(d)'
  BY DEF Between, Hysteria, Xray
<1>4. ASSUME NEW p \in Polls, NEW d \in Devices, polls'[p].reference = polls[p].reference,
             Halfway(p, d)
      PROVE  Halfway(p, d)'
  BY <1>4 DEF Halfway, Hysteria, Xray
<1>5. now' >= 1 /\ \A d \in Devices : Witnessed(d)' /\ activity'[d] <= now'
  BY <1>1, <1>2 DEF SeenInv, Timed
<1>6. \A p \in Polls : polls'[p].awaits = "xray" =>
          \A d \in active' \ unfinished' : Halfway(p, d)'
  <2> TAKE p \in Polls
  <2> HAVE polls'[p].awaits = "xray"
  <2> TAKE d \in active' \ unfinished'
  <2>1. d \in active \ unfinished /\ d \in Devices
    BY <1>1 DEF PresenceInv, PresenceTypeOK
  <2>2. Halfway(p, d)
    BY <2>1 DEF SeenInv
  <2> QED
    BY <1>4, <2>1, <2>2
<1>7. \A d \in Devices \ unfinished' :
          d \notin active' \/ (\A p \in Polls : polls'[p].awaits # "xray") => Between(d)'
  BY <1>3 DEF SeenInv
<1>8. \A p \in Polls : polls'[p].awaits # "none" =>
          /\ 1 <= polls'[p].reference /\ polls'[p].reference <= now'
          /\ \A d \in Devices : activity'[d] <= polls'[p].reference
  OBVIOUS
<1>9. QED
  BY <1>5, <1>6, <1>7, <1>8 DEF SeenInv

LEMMA PollStep ==
    OnePoll /\ SeenInv /\ [PresenceNext]_presenceVars => SeenInv'
<1> SUFFICES ASSUME OnePoll, SeenInv, [PresenceNext]_presenceVars PROVE SeenInv'
  OBVIOUS
<1>1. PresenceInv /\ PresenceInv' /\ Timed /\ Timed'
  BY PresenceStep, Times, TimesNext DEF SeenInv
<1>2. now \in Nat /\ \A p \in Polls : polls[p].reference \in Nat
  BY <1>1 DEF Timed
<1>3. \A p \in Polls : polls[p].awaits # "none" =>
          /\ 1 <= polls[p].reference /\ polls[p].reference <= now
          /\ \A d \in Devices : activity[d] <= polls[p].reference
  BY DEF SeenInv
<1>4. CASE Tick
  BY <1>1, <1>2, <1>3, <1>4, NothingShown DEF Tick
<1>5. ASSUME NEW p \in Polls, Begin(p) PROVE SeenInv'
  <2>1. /\ polls'[p] = [awaits |-> "hysteria", reference |-> now]
        /\ polls[p].awaits = "none" /\ \A q \in Polls : q = p
        /\ UNCHANGED <<now, active, presence, facts, telemetry, activity, unfinished>>
    BY <1>1, <1>5 DEF Begin, OnePoll, PresenceInv, PresenceTypeOK
  <2>2. now >= 1 /\ \A d \in Devices : activity[d] <= now
    BY DEF SeenInv
  <2>3. \A q \in Polls : polls'[q].awaits = "hysteria" /\ polls'[q].reference = now
    BY <2>1
  <2>4. \A q \in Polls : polls[q].awaits # "xray"
    BY <2>1
  <2> QED
    BY <1>1, <1>2, <2>1, <2>2, <2>3, <2>4, NothingShown
<1>6. ASSUME NEW p \in Polls, HysteriaAnswers(p) PROVE SeenInv'
  BY <1>1, <1>6, HysteriaSeen
<1>7. ASSUME NEW p \in Polls, XrayAnswers(p) PROVE SeenInv'
  BY <1>1, <1>7, XraySeen
<1>8. ASSUME NEW p \in Polls, Fails(p) PROVE SeenInv'
  BY <1>1, <1>8, FailureSeen
<1>9. ASSUME NEW d \in Devices, Pause(d) \/ Resume(d) PROVE SeenInv'
  <2>1. /\ UNCHANGED <<now, polls, presence, facts, telemetry, activity>>
        /\ active' \in {active \ {d}, active \cup {d}}
        /\ unfinished' = IF \E p \in Polls : polls[p].awaits = "xray"
                         THEN unfinished \cup {d} ELSE unfinished
    BY <1>9 DEF Pause, Resume, Split
  <2>2. CASE \E p \in Polls : polls[p].awaits = "xray"
    <3>1. unfinished' = unfinished \cup {d}
      BY <2>1, <2>2
    <3>2. active' \ unfinished' \subseteq active \ unfinished
      BY <2>1, <3>1
    <3> QED
      BY <1>1, <1>2, <1>3, <2>1, <2>2, <3>1, <3>2, NothingShown
  <2>3. CASE ~\E p \in Polls : polls[p].awaits = "xray"
    BY <1>1, <1>2, <1>3, <2>1, <2>3, NothingShown
  <2> QED
    BY <2>2, <2>3
<1>10. CASE Crash
  <2>1. /\ UNCHANGED <<now, active, presence, facts, telemetry, activity>>
        /\ \A p \in Polls : polls'[p].awaits = "none"
        /\ unfinished' = IF \E p \in Polls : polls[p].awaits = "xray"
                         THEN unfinished \cup active ELSE unfinished
    BY <1>1, <1>10 DEF Crash, Split, PresenceInv, PresenceTypeOK, Poll
  <2> QED
    BY <1>1, <1>2, <2>1, NothingShown
<1>11. CASE UNCHANGED presenceVars
  BY <1>1, <1>2, <1>3, <1>11, NothingShown DEF presenceVars
<1>12. QED
  BY <1>4, <1>5, <1>6, <1>7, <1>8, <1>9, <1>10, <1>11 DEF PresenceNext

LEMMA InitiallyPolled ==
    ASSUME PresenceInit
    PROVE  SeenInv
<1>1. PresenceInv
  BY InitiallyPresent
<1>2. \A d \in Devices : /\ Hysteria(d) = NoPresence /\ Xray(d) = NoPresence
                         /\ activity[d] = 0 /\ facts[d].lastSeen = 0
  BY DEF PresenceInit, Hysteria, Xray, Engines, Never
<1>3. NoPresence.lastActive = 0 /\ NoPresence.status = "none"
  BY DEF NoPresence, Never
<1>4. \A p \in Polls : polls[p].awaits = "none"
  BY DEF PresenceInit
<1>5. now = 1 /\ Window \in Nat
  BY PresenceAssumption DEF PresenceInit
<1>6. \A d \in Devices : Witnessed(d) /\ Between(d) /\ activity[d] <= now
  BY <1>2, <1>3, <1>5 DEF Witnessed, Between
<1>7. QED
  BY <1>1, <1>4, <1>5, <1>6 DEF SeenInv

\* While one poll is under way at a time, last_seen_at is when an answer showed the device
\* active, and between polls it is behind what has been shown by no more than the window.
THEOREM LastSeenFollows ==
    ASSUME OnePoll
    PROVE  PresenceSpec => []LastSeenIsActivity
<1>1. SeenInv => LastSeenIsActivity
  <2> HAVE SeenInv
  <2>1. \A d \in Devices : facts[d].lastSeen <= activity[d]
    BY DEF SeenInv, Witnessed
  <2>2. \A d \in Devices \ unfinished :
            (\A p \in Polls : polls[p].awaits = "none") =>
                activity[d] <= facts[d].lastSeen + Window
    BY DEF SeenInv, Between
  <2> QED
    BY <2>1, <2>2 DEF LastSeenIsActivity
<1>2. QED
  BY <1>1, InitiallyPolled, PollStep, PTL DEF PresenceSpec

\* While one poll is under way at a time, a device is said to be absent only after a day
\* less the window in which it has shown nothing, by a poll that both engines answered.
THEOREM AbsenceTold ==
    ASSUME OnePoll
    PROVE  PresenceSpec => AbsenceIsReal
<1> DEFINE AbsenceHolds == \A d \in Devices \ unfinished :
          ~facts[d].notified /\ facts'[d].notified =>
              /\ \A p \in Polls : polls[p].awaits = "xray" /\ polls'[p].awaits = "none" =>
                     polls[p].reference + Window >= activity'[d] + Day
              /\ \A e \in Engines : telemetry'[e].failures = 0
<1>1. SeenInv /\ [PresenceNext]_presenceVars => [AbsenceHolds]_presenceVars
  <2> HAVE SeenInv /\ [PresenceNext]_presenceVars
  <2>1. PresenceInv /\ PresenceInv'
    BY PresenceStep DEF SeenInv
  <2>2. ASSUME facts' = facts PROVE AbsenceHolds
    BY <2>2
  <2>3. ASSUME NEW p \in Polls, XrayAnswers(p) PROVE AbsenceHolds
    <3>1. /\ polls[p].awaits = "xray" /\ telemetry'["xray"].failures = 0
          /\ telemetry'["hysteria"] = telemetry["hysteria"]
          /\ \A d \in Devices \ unfinished : Away(d, polls[p].reference)
      BY <2>1, <2>3, XraySeen
    <3>2. \A q \in Polls : q = p
      BY DEF OnePoll
    <3> QED
      BY <3>1, <3>2 DEF Away, Engines
  <2>4. ASSUME NEW p \in Polls, HysteriaAnswers(p) PROVE AbsenceHolds
    <3>1. \A d \in Devices : facts'[d] = facts[d]
      BY <2>4 DEF HysteriaAnswers, Turn
    <3> QED
      BY <3>1
  <2>5. ASSUME NEW p \in Polls, Fails(p) PROVE AbsenceHolds
    BY <2>1, <2>5, FailureSeen
  <2>6. CASE Tick
    BY <2>2, <2>6 DEF Tick
  <2>7. ASSUME NEW p \in Polls, Begin(p) PROVE AbsenceHolds
    BY <2>2, <2>7 DEF Begin
  <2>8. ASSUME NEW d \in Devices, Pause(d) \/ Resume(d) PROVE AbsenceHolds
    BY <2>2, <2>8 DEF Pause, Resume
  <2>9. CASE Crash
    BY <2>2, <2>9 DEF Crash
  <2>10. CASE UNCHANGED presenceVars
    BY <2>2, <2>10 DEF presenceVars
  <2> HIDE DEF AbsenceHolds
  <2> QED
    BY <2>3, <2>4, <2>5, <2>6, <2>7, <2>8, <2>9, <2>10 DEF PresenceNext
<1>2. QED
  BY <1>1, InitiallyPolled, PollStep, PTL DEF PresenceSpec, AbsenceIsReal

=============================================================================
