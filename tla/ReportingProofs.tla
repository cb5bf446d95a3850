---------------------------- MODULE ReportingProofs ----------------------------
(***************************************************************************)
(* Proofs about the VS Code adapter: one window's reporter, and all the    *)
(* windows' reports in the service's one store.                            *)
(***************************************************************************)
EXTENDS EditorContext, ContextReporter, FiniteSetTheorems, TLAPS

-----------------------------------------------------------------------------
(***************************************************************************)
(* One window's reporter, for any debounce, heartbeat and number of        *)
(* changes.                                                                *)
(***************************************************************************)
ReporterIInv == ReporterTypeOK /\ ReporterInv

\* Whatever the window schedules, its timer has the debounce to go.
LEMMA ScheduleType ==
  ASSUME ReporterTypeOK, Schedule \/ UNCHANGED <<timer, pending>>
  PROVE  timer' \in 0..DebounceMs \cup {Off} /\ pending' \in BOOLEAN
<1>1. DebounceMs \in 0..DebounceMs
  BY ReporterAssumption
<1>2. timer \in 0..DebounceMs \cup {Off} /\ pending \in BOOLEAN
  BY DEF ReporterTypeOK
<1>3. QED BY <1>1, <1>2 DEF Schedule

\* What a flush does to reports that are not there.
LEMMA FlushIs ==
  ASSUME ReporterTypeOK, OneInv, CanFlush, Flush
  PROVE  /\ ~running /\ reports = {} /\ ~disposed
         /\ pending' = FALSE
         /\ \/ /\ enabled
               /\ reports' = {[update |-> editor, phase |-> "capturing"]}
               /\ running' = TRUE /\ told' = told
            \/ /\ ~enabled /\ told /\ reports' = {}
               /\ running' = FALSE /\ told' = TRUE
            \/ /\ ~enabled /\ ~told
               /\ reports' = {[update |-> Invalidation, phase |-> "connecting"]}
               /\ running' = TRUE /\ told' = TRUE
         /\ \A r \in reports' :
              /\ r.update = Current
              /\ r.phase = IF enabled THEN "capturing" ELSE "connecting"
<1> DEFINE captured == [update |-> editor, phase |-> "capturing"]
           invalid == [update |-> Invalidation, phase |-> "connecting"]
<1>0. /\ captured.update = editor /\ captured.phase = "capturing"
      /\ invalid.update = Invalidation /\ invalid.phase = "connecting"
  OBVIOUS
<1>1. ~running /\ reports = {} /\ ~disposed
  BY DEF CanFlush, OneInv
<1>2. /\ pending' = FALSE /\ reports' = Begun
      /\ running' = (Begun # {}) /\ told' = (told \/ ~enabled)
  BY <1>1 DEF Flush
<1>3. CASE enabled
  <2>1. Begun = {captured} /\ Current = editor /\ told' = told
    BY <1>2, <1>3 DEF Begun, Current, ReporterTypeOK
  <2> HIDE DEF captured, invalid
  <2>2. /\ running' = TRUE /\ reports' = {captured}
        /\ \A r \in reports' : r.update = Current /\ r.phase = "capturing"
    BY <1>0, <1>2, <2>1
  <2>3. QED BY <1>1, <1>2, <1>3, <2>1, <2>2 DEF captured
<1>4. CASE ~enabled /\ told
  BY <1>1, <1>2, <1>4 DEF Begun
<1>5. CASE ~enabled /\ ~told
  <2>1. Begun = {invalid} /\ Current = Invalidation /\ told' = TRUE
    BY <1>2, <1>5 DEF Begun, Current
  <2> HIDE DEF captured, invalid
  <2>2. /\ running' = TRUE /\ reports' = {invalid}
        /\ \A r \in reports' : r.update = Current /\ r.phase = "connecting"
    BY <1>0, <1>2, <2>1
  <2>3. QED BY <1>1, <1>2, <1>5, <2>1, <2>2 DEF invalid
<1>6. QED BY <1>3, <1>4, <1>5

\* The report that goes on is the only one.
LEMMA StepIs ==
  ASSUME ReporterTypeOK, OneInv, NEW r \in reports,
         NEW phase \in {"capturing", "connecting", "waiting", "answered"},
         reports' = Step(r, phase)
  PROVE  \E s \in ReportUnderWay :
           reports' = {s} /\ s.update = r.update /\ s.phase = phase
<1> DEFINE s == [r EXCEPT !.phase = phase]
<1>1. reports = {r} /\ r \in ReportUnderWay
  BY DEF OneInv, ReporterTypeOK
<1>2. s \in ReportUnderWay /\ s.update = r.update /\ s.phase = phase
  BY <1>1 DEF ReportUnderWay
<1>3. reports' = {s}
  BY <1>1 DEF Step
<1>4. QED BY <1>2, <1>3

\* The service or the connection moves the report that waits.
LEMMA AnswerIs ==
  ASSUME ReporterTypeOK, OneInv, NEW phase \in {"connecting", "answered"},
         reports' = {IF r.phase = "waiting" THEN [r EXCEPT !.phase = phase]
                                            ELSE r : r \in reports}
  PROVE  \/ reports' = reports /\ \A r \in reports : r.phase # "waiting"
         \/ \E r \in reports, s \in ReportUnderWay :
              /\ reports' = {s} /\ r.phase = "waiting"
              /\ s.update = r.update /\ s.phase = phase
<1>1. CASE reports = {}
  BY <1>1
<1>2. CASE \E r \in reports : TRUE
  <2>1. PICK r \in reports : reports = {r}
    BY <1>2 DEF OneInv
  <2>2. CASE r.phase # "waiting"
    BY <2>1, <2>2
  <2>3. CASE r.phase = "waiting"
    <3>1. reports' = Step(r, phase)
      BY <2>1, <2>3 DEF Step
    <3>2. PICK s \in ReportUnderWay :
            reports' = {s} /\ s.update = r.update /\ s.phase = phase
      BY <3>1, StepIs
    <3>3. QED BY <2>3, <3>2
  <2>4. QED BY <2>2, <2>3
<1>3. QED BY <1>1, <1>2

\* A capture may find at its end that the editor has changed.
LEMMA ChangeIs ==
  ASSUME ReporterTypeOK, OneInv, Change
  PROVE  \/ reports' = reports
         \/ \E s \in ReportUnderWay :
              /\ reports' = {s} /\ s.update = Unavailable
              /\ s.phase = "capturing"
              /\ \A r \in reports : r.phase = "capturing"
<1>1. PICK left \in BOOLEAN :
        reports' = IF left
                   THEN {IF r.phase = "capturing"
                         THEN [r EXCEPT !.update = Unavailable]
                         ELSE r : r \in reports}
                   ELSE reports
  BY DEF Change
<1>2. CASE ~left \/ reports = {}
  BY <1>1, <1>2
<1>3. CASE left /\ reports # {}
  <2>1. PICK r \in reports : reports = {r}
    BY <1>3 DEF OneInv
  <2>2. CASE r.phase # "capturing"
    BY <1>1, <1>3, <2>1, <2>2
  <2>3. CASE r.phase = "capturing"
    <3> DEFINE s == [r EXCEPT !.update = Unavailable]
    <3>1. r \in ReportUnderWay
      BY DEF ReporterTypeOK
    <3>2. /\ s \in ReportUnderWay /\ s.update = Unavailable
          /\ s.phase = "capturing"
      BY <2>3, <3>1 DEF ReportUnderWay, Update
    <3>3. reports' = {s}
      BY <1>1, <1>3, <2>1, <2>3
    <3>4. QED BY <2>1, <2>3, <3>2, <3>3
  <2>4. QED BY <2>2, <2>3
<1>4. QED BY <1>2, <1>3


LEMMA ReporterTypeStep ==
  ASSUME ReporterTypeOK, OneInv, [ReporterNext]_reporterVars
  PROVE  ReporterTypeOK'
<1> USE DEF scheduler, reporter, service, reporterVars
<1>1. /\ DebounceMs \in 0..DebounceMs /\ HeartbeatMs \in 0..HeartbeatMs
      /\ MaxChanges \in Nat
  BY ReporterAssumption
<1>2. ASSUME CanFlush, Flush
      PROVE  /\ pending' \in BOOLEAN /\ running' \in BOOLEAN /\ told' \in BOOLEAN
             /\ reports' \subseteq ReportUnderWay
  <2>1. /\ [update |-> editor, phase |-> "capturing"] \in ReportUnderWay
        /\ [update |-> Invalidation, phase |-> "connecting"] \in ReportUnderWay
        /\ told \in BOOLEAN
    BY DEF ReporterTypeOK, ReportUnderWay, Update
  <2>2. QED BY <1>2, <2>1, FlushIs
<1>3. CASE TimerFires
  BY <1>2, <1>3 DEF TimerFires, ReporterTypeOK
<1>4. CASE ReportNow
  <2>1. /\ pending' \in BOOLEAN /\ running' \in BOOLEAN /\ told' \in BOOLEAN
        /\ reports' \subseteq ReportUnderWay
    BY <1>2, <1>4 DEF ReportNow, ReporterTypeOK
  <2>2. QED BY <1>1, <1>4, <2>1 DEF ReportNow, ReporterTypeOK
<1>5. ASSUME NEW r \in reports, Capture(r) PROVE ReporterTypeOK'
  <2>1. reports' \subseteq ReportUnderWay
    BY <1>5, StepIs DEF Capture
  <2>2. QED BY <1>5, <2>1 DEF Capture, ReporterTypeOK
<1>6. ASSUME NEW r \in reports, Connect(r) PROVE ReporterTypeOK'
  <2>1. reports' \subseteq ReportUnderWay
    BY <1>6, StepIs DEF Connect
  <2>2. r.update \in Update
    BY DEF ReporterTypeOK, ReportUnderWay
  <2>3. QED BY <1>6, <2>1, <2>2 DEF Connect, ReporterTypeOK
<1>7. ASSUME NEW r \in reports, NEW result \in {"ok", "failed"},
             EndReport(r, result)
      PROVE  ReporterTypeOK'
  <2>1. last' \in [update: Update \cup {Nothing}, result: {"none", "ok", "failed"}]
    BY <1>7 DEF EndReport, ReporterTypeOK, ReportUnderWay
  <2>2. timer' \in 0..DebounceMs \cup {Off} /\ pending' \in BOOLEAN
    BY <1>7, ScheduleType DEF EndReport
  <2>3. QED BY <1>7, <2>1, <2>2 DEF EndReport, ReporterTypeOK
<1>8. CASE Serve \/ BreakConnection
  <2>1. reports' \subseteq ReportUnderWay
    BY <1>8, AnswerIs DEF Serve, BreakConnection, ReporterTypeOK
  <2>2. wire' = Nothing /\ stored' \in {stored, wire}
    BY <1>8 DEF Serve, BreakConnection
  <2>3. QED BY <1>8, <2>1, <2>2 DEF Serve, BreakConnection, ReporterTypeOK
<1>9. CASE Change
  <2>1. reports' \subseteq ReportUnderWay
    BY <1>9, ChangeIs DEF ReporterTypeOK
  <2>2. timer' \in 0..DebounceMs \cup {Off} /\ pending' \in BOOLEAN
    BY <1>9, ScheduleType DEF Change
  <2>3. editor' \in 0..MaxChanges
    BY <1>1, <1>9 DEF Change, ReporterTypeOK
  <2>4. QED BY <1>9, <2>1, <2>2, <2>3 DEF Change, ReporterTypeOK
<1>10. CASE Beat \/ Toggle
  <2>1. timer' \in 0..DebounceMs \cup {Off} /\ pending' \in BOOLEAN
    BY <1>10, ScheduleType DEF Beat, Toggle
  <2>2. /\ beat' \in 0..HeartbeatMs \cup {Off} /\ told' \in BOOLEAN
        /\ enabled' \in BOOLEAN
    BY <1>1, <1>10 DEF Beat, Toggle, ReporterTypeOK
  <2>3. QED BY <1>10, <2>1, <2>2 DEF Beat, Toggle, ReporterTypeOK
<1>11. CASE Dispose
  BY <1>11 DEF Dispose, ReporterTypeOK
<1>12. CASE TimePasses
  <2>1. /\ Left(timer) \in 0..DebounceMs \cup {Off}
        /\ Left(beat) \in 0..HeartbeatMs \cup {Off}
    <3>1. ASSUME NEW n \in Nat, NEW t \in 0..n \cup {Off}, t # 0
          PROVE  Left(t) \in 0..n \cup {Off}
      BY <3>1 DEF Left
    <3>2. /\ DebounceMs \in Nat /\ HeartbeatMs \in Nat
          /\ timer # 0 /\ beat # 0
      BY <1>12, ReporterAssumption DEF TimePasses
    <3>3. QED BY <3>1, <3>2 DEF ReporterTypeOK
  <2>2. QED BY <1>12, <2>1 DEF TimePasses, ReporterTypeOK
<1>13. CASE UNCHANGED reporterVars
  BY <1>13 DEF ReporterTypeOK
<1>14. QED BY <1>3, <1>4, <1>5, <1>6, <1>7, <1>8, <1>9, <1>10, <1>11, <1>12,
              <1>13 DEF ReporterNext

LEMMA OneStep ==
  ASSUME ReporterTypeOK, OneInv, [ReporterNext]_reporterVars
  PROVE  OneInv'
<1> USE DEF scheduler, reporter, service, reporterVars
<1>1. ASSUME CanFlush, Flush PROVE OneInv'
  BY <1>1, FlushIs DEF OneInv
<1>2. CASE TimerFires
  BY <1>1, <1>2 DEF TimerFires, OneInv
<1>3. CASE ReportNow
  BY <1>1, <1>3 DEF ReportNow, OneInv
<1>4. ASSUME NEW r \in reports, Capture(r) \/ Connect(r) PROVE OneInv'
  <2>1. PICK s \in ReportUnderWay : reports' = {s}
    BY <1>4, StepIs DEF Capture, Connect
  <2>2. running' = running
    BY <1>4 DEF Capture, Connect
  <2>3. QED BY <2>1, <2>2 DEF OneInv
<1>5. ASSUME NEW r \in reports, NEW result \in {"ok", "failed"},
             EndReport(r, result)
      PROVE  OneInv'
  BY <1>5 DEF EndReport, OneInv
<1>6. CASE Serve \/ BreakConnection
  <2>1. running' = running
    BY <1>6 DEF Serve, BreakConnection
  <2>2. \/ reports' = reports
        \/ \E r \in reports, s \in ReportUnderWay : reports' = {s}
    BY <1>6, AnswerIs DEF Serve, BreakConnection
  <2>3. QED BY <2>1, <2>2 DEF OneInv
<1>7. CASE Change
  <2>1. \/ reports' = reports
        \/ \E r \in reports, s \in ReportUnderWay : reports' = {s}
    <3>1. reports = {} => reports' = {}
      BY <1>7 DEF Change
    <3>2. QED BY <1>7, <3>1, ChangeIs
  <2>2. QED BY <1>7, <2>1 DEF Change, OneInv
<1>8. CASE Beat \/ Toggle \/ Dispose \/ TimePasses
  BY <1>8 DEF Beat, Toggle, Dispose, TimePasses, OneInv
<1>9. CASE UNCHANGED reporterVars
  BY <1>9 DEF OneInv
<1>10. QED BY <1>2, <1>3, <1>4, <1>5, <1>6, <1>7, <1>8, <1>9 DEF ReporterNext

LEMMA WaitStep ==
  ASSUME ReporterTypeOK, OneInv, WaitInv, [ReporterNext]_reporterVars
  PROVE  WaitInv'
<1> USE DEF scheduler, reporter, service, reporterVars
<1>1. ASSUME CanFlush, Flush, UNCHANGED service PROVE WaitInv'
  <2>1. \A r \in reports' : r.phase \in {"capturing", "connecting"}
    BY <1>1, FlushIs
  <2>2. QED BY <2>1 DEF WaitInv
<1>2. CASE TimerFires
  BY <1>1, <1>2 DEF TimerFires, WaitInv
<1>3. CASE ReportNow
  BY <1>1, <1>3 DEF ReportNow, WaitInv
<1>4. ASSUME NEW r \in reports, Capture(r) PROVE WaitInv'
  <2>1. \A s \in reports' : s.phase = "connecting"
    BY <1>4, StepIs DEF Capture
  <2>2. QED BY <2>1 DEF WaitInv
<1>5. ASSUME NEW r \in reports, Connect(r) PROVE WaitInv'
  <2>1. \A s \in reports' : s.phase = "waiting" /\ s.update = r.update
    BY <1>5, StepIs DEF Connect
  <2>2. QED BY <1>5, <2>1 DEF Connect, WaitInv
<1>6. ASSUME NEW r \in reports, NEW result \in {"ok", "failed"},
             EndReport(r, result)
      PROVE  WaitInv'
  BY <1>6 DEF EndReport, WaitInv
<1>7. CASE Serve
  <2>1. \/ reports' = reports /\ \A r \in reports : r.phase # "waiting"
        \/ \E r \in reports, s \in ReportUnderWay :
              /\ reports' = {s} /\ r.phase = "waiting"
              /\ s.update = r.update /\ s.phase = "answered"
    BY <1>7, AnswerIs DEF Serve
  <2>2. wire # Nothing /\ wire' = Nothing /\ stored' = wire
    BY <1>7 DEF Serve
  <2>3. QED BY <2>1, <2>2 DEF WaitInv
<1>8. CASE BreakConnection
  <2>1. \/ reports' = reports /\ \A r \in reports : r.phase # "waiting"
        \/ \E s \in ReportUnderWay : reports' = {s} /\ s.phase = "connecting"
    BY <1>8, AnswerIs DEF BreakConnection
  <2>2. wire # Nothing /\ wire' = Nothing /\ stored' = stored
    BY <1>8 DEF BreakConnection
  <2>3. QED BY <2>1, <2>2 DEF WaitInv
<1>9. CASE Change
  <2>1. \/ reports' = reports
        \/ \E s \in ReportUnderWay : reports' = {s} /\ s.phase = "capturing"
    BY <1>9, ChangeIs
  <2>2. QED BY <1>9, <2>1 DEF Change, WaitInv
<1>10. CASE Beat \/ Toggle \/ Dispose \/ TimePasses
  BY <1>10 DEF Beat, Toggle, Dispose, TimePasses, WaitInv
<1>11. CASE UNCHANGED reporterVars
  BY <1>11 DEF WaitInv
<1>12. QED BY <1>2, <1>3, <1>4, <1>5, <1>6, <1>7, <1>8, <1>9, <1>10, <1>11
           DEF ReporterNext

LEMMA ToldStep ==
  ASSUME ReporterTypeOK, OneInv, ToldInv, [ReporterNext]_reporterVars
  PROVE  ToldInv'
<1> USE DEF scheduler, reporter, service, reporterVars
<1>1. ASSUME CanFlush, Flush, UNCHANGED <<last, disposed, enabled>>
      PROVE  ToldInv'
  <2>1. CASE enabled
    BY <1>1, <2>1, FlushIs DEF ToldInv
  <2>2. CASE ~enabled
    <3>1. \A r \in reports' : r.update = Invalidation /\ r.phase = "connecting"
      BY <1>1, <2>2, FlushIs DEF Current
    <3>2. ~running /\ (running' \/ told)
      BY <1>1, <2>2, FlushIs
    <3>3. QED BY <1>1, <2>2, <3>1, <3>2 DEF ToldInv
  <2>3. QED BY <2>1, <2>2
<1>2. CASE TimerFires
  BY <1>1, <1>2 DEF TimerFires, ToldInv
<1>3. CASE ReportNow
  BY <1>1, <1>3 DEF ReportNow, ToldInv
<1>4. ASSUME NEW r \in reports, Capture(r) PROVE ToldInv'
  BY <1>4 DEF Capture, ToldInv
<1>5. ASSUME NEW r \in reports, Connect(r) PROVE ToldInv'
  <2>1. \A s \in reports' : s.phase = "waiting" /\ s.update = r.update
    BY <1>5, StepIs DEF Connect
  <2>2. QED BY <1>5, <2>1 DEF Connect, ToldInv
<1>6. ASSUME NEW r \in reports, NEW result \in {"ok", "failed"},
             EndReport(r, result)
      PROVE  ToldInv'
  BY <1>6 DEF EndReport, ToldInv
<1>7. CASE Serve \/ BreakConnection
  <2>1. \A s \in reports' : \E r \in reports :
           s.update = r.update /\ (s.phase = "capturing" => r.phase = "capturing")
    BY <1>7, AnswerIs DEF Serve, BreakConnection
  <2>2. QED BY <1>7, <2>1 DEF Serve, BreakConnection, ToldInv
<1>8. CASE Change
  <2>1. told => reports' = reports
    <3>1. CASE reports = {}
      BY <1>8, <3>1 DEF Change
    <3>2. CASE reports # {}
      BY <1>8, <3>2, ChangeIs DEF ToldInv
    <3>3. QED BY <3>1, <3>2
  <2>2. QED BY <1>8, <2>1 DEF Change, ToldInv
<1>9. CASE Beat \/ Toggle \/ Dispose \/ TimePasses
  BY <1>9 DEF Beat, Toggle, Dispose, TimePasses, ToldInv
<1>10. CASE UNCHANGED reporterVars
  BY <1>10 DEF ToldInv
<1>11. QED BY <1>2, <1>3, <1>4, <1>5, <1>6, <1>7, <1>8, <1>9, <1>10
           DEF ReporterNext

LEMMA CurrentStep ==
  ASSUME ReporterTypeOK, OneInv, WaitInv, ToldInv, CurrentInv,
         [ReporterNext]_reporterVars
  PROVE  CurrentInv'
<1> USE DEF scheduler, reporter, service, reporterVars
<1>1. ASSUME CanFlush, Flush, UNCHANGED <<last, disposed, enabled, editor, service>>
      PROVE  CurrentInv'
  <2>1. Current' = Current
    BY <1>1 DEF Current
  <2>2. /\ ~running /\ reports = {} /\ ~disposed /\ pending' = FALSE
        /\ \A r \in reports' : r.update = Current
        /\ ~running' => ~enabled /\ told
    BY <1>1, FlushIs
  <2>3. ~running' => last.update = Current
    BY <2>2 DEF ToldInv, Current
  <2>4. QED BY <1>1, <2>1, <2>2, <2>3 DEF CurrentInv
<1>2. CASE TimerFires
  <2>1. CASE CanFlush /\ pending
    BY <1>1, <1>2, <2>1 DEF TimerFires
  <2>2. CASE ~(CanFlush /\ pending)
    BY <1>2, <2>2 DEF TimerFires, CurrentInv, Current
  <2>3. QED BY <2>1, <2>2
<1>3. CASE ReportNow
  <2>1. CASE CanFlush
    BY <1>1, <1>3, <2>1 DEF ReportNow
  <2>2. CASE ~CanFlush
    BY <1>3, <2>2 DEF ReportNow, CurrentInv, CanFlush
  <2>3. QED BY <2>1, <2>2
<1>4. ASSUME NEW r \in reports, Capture(r) \/ Connect(r) PROVE CurrentInv'
  <2>1. running' /\ \A s \in reports' : s.update = r.update
    BY <1>4, StepIs DEF Capture, Connect, OneInv
  <2>2. UNCHANGED <<pending, disposed, enabled, editor>>
    BY <1>4 DEF Capture, Connect
  <2>3. QED BY <2>1, <2>2 DEF CurrentInv, Current
<1>5. ASSUME NEW r \in reports, NEW result \in {"ok", "failed"},
             EndReport(r, result)
      PROVE  CurrentInv'
  <2>1. /\ reports' = reports \ {r}
        /\ ~disposed => last' = [update |-> r.update, result |-> result]
        /\ ~disposed /\ ~pending' => ~pending
        /\ UNCHANGED <<disposed, enabled, editor, wire, stored>>
    BY <1>5 DEF EndReport, Schedule
  <2>2. result = "ok" => wire = Nothing /\ stored = r.update
    BY <1>5 DEF EndReport, WaitInv
  <2>3. reports' = {}
    BY <2>1 DEF OneInv
  <2>4. QED BY <2>1, <2>2, <2>3 DEF CurrentInv, Current
<1>6. CASE Serve \/ BreakConnection
  <2>1. \A s \in reports' : \E r \in reports : s.update = r.update
    BY <1>6, AnswerIs DEF Serve, BreakConnection
  <2>2. /\ wire # Nothing
        /\ UNCHANGED <<pending, running, disposed, last, enabled, editor>>
    BY <1>6 DEF Serve, BreakConnection
  <2>3. QED BY <2>1, <2>2 DEF CurrentInv, Current
<1>7. CASE Change \/ Toggle
  <2>1. /\ pending' = TRUE
        /\ UNCHANGED <<running, last, disposed, wire, stored>>
    BY <1>7 DEF Change, Toggle, Schedule
  <2>2. QED BY <2>1 DEF CurrentInv
<1>8. CASE Beat
  <2>1. /\ disposed \/ pending' = TRUE
        /\ UNCHANGED <<running, last, disposed, wire, stored>>
    BY <1>8 DEF Beat, Schedule
  <2>2. QED BY <2>1 DEF CurrentInv
<1>9. CASE Dispose
  BY <1>9 DEF Dispose, CurrentInv
<1>10. CASE TimePasses \/ UNCHANGED reporterVars
  BY <1>10 DEF TimePasses, CurrentInv, Current
<1>11. QED BY <1>2, <1>3, <1>4, <1>5, <1>6, <1>7, <1>8, <1>9, <1>10
           DEF ReporterNext

\* The order is kept by what neither sends nor stores.
LEMMA OrderKept ==
  ASSUME ReporterTypeOK, OrderInv, stored' = stored, wire' \in {wire, Nothing},
         \/ editor' = editor
         \/ editor' = editor + 1,
         \A s \in reports' :
           \/ s.update \notin Contexts
           \/ s.update = editor
           \/ \E r \in reports : s.update = r.update
  PROVE  OrderInv'
<1>1. /\ Contexts \subseteq Nat /\ Nothing \notin Contexts /\ editor \in Nat
      /\ editor' \in Nat /\ editor <= editor'
  BY ReporterAssumption DEF ReporterTypeOK, Contexts
<1>2. \A c \in {stored, wire} \cap Contexts : c <= editor /\ c \in Nat
  BY <1>1 DEF OrderInv
<1>3. \A c \in {stored', wire'} \cap Contexts :
        c \in {stored, wire} \cap Contexts
  BY <1>1
<1>4. \A s \in reports' :
        s.update \in Contexts =>
          /\ s.update \in Nat /\ s.update <= editor
          /\ \A c \in {stored, wire} \cap Contexts : c <= s.update
  <2> TAKE s \in reports'
  <2> HAVE s.update \in Contexts
  <2>1. CASE s.update = editor
    BY <1>1, <1>2, <2>1
  <2>2. CASE \E r \in reports : s.update = r.update
    BY <1>1, <2>2 DEF OrderInv
  <2>3. QED BY <2>1, <2>2
<1>5. {stored', wire'} \subseteq Contexts => stored' <= wire'
  BY <1>1 DEF OrderInv
<1>6. \A n \in Nat : n <= editor => n <= editor'
  BY <1>1
<1>7. QED BY <1>2, <1>3, <1>4, <1>5, <1>6 DEF OrderInv, Contexts

LEMMA OrderStep ==
  ASSUME ReporterTypeOK, OneInv, OrderInv, [ReporterNext]_reporterVars
  PROVE  OrderInv'
<1> USE DEF scheduler, reporter, service, reporterVars
<1>1. /\ Contexts \subseteq Nat /\ editor \in Nat
      /\ Nothing \notin Contexts /\ Unavailable \notin Contexts
      /\ Invalidation \notin Contexts
  BY ReporterAssumption DEF ReporterTypeOK, Contexts
<1>2. ASSUME CanFlush, Flush, UNCHANGED <<editor, service>>
      PROVE  OrderInv'
  <2>1. \A s \in reports' : s.update \notin Contexts \/ s.update = editor
    BY <1>1, <1>2, FlushIs DEF Current
  <2>2. QED BY <1>2, <2>1, OrderKept
<1>3. ASSUME reports' = reports, UNCHANGED <<editor, service>>
      PROVE  OrderInv'
  BY <1>3, OrderKept
<1>4. CASE TimerFires \/ ReportNow
  BY <1>2, <1>3, <1>4 DEF TimerFires, ReportNow
<1>5. ASSUME NEW r \in reports, Capture(r) PROVE OrderInv'
  <2>1. \A s \in reports' : s.update = r.update
    BY <1>5, StepIs DEF Capture
  <2>2. UNCHANGED <<editor, service>>
    BY <1>5 DEF Capture
  <2>3. QED BY <2>1, <2>2, OrderKept
<1>6. ASSUME NEW r \in reports, Connect(r) PROVE OrderInv'
  <2>1. \A s \in reports' : s.update = r.update
    BY <1>6, StepIs DEF Connect
  <2>2. wire' = r.update /\ UNCHANGED <<editor, stored>>
    BY <1>6 DEF Connect
  <2>3. /\ stored \in Contexts => stored <= editor
        /\ r.update \in Contexts => r.update <= editor /\ r.update <= r.update
        /\ stored \in Contexts /\ r.update \in Contexts => stored <= r.update
    <3>1. \A n \in Contexts : n <= n
      BY <1>1
    <3>2. QED BY <3>1 DEF OrderInv
  <2>4. \A c \in {stored', wire'} \cap Contexts :
          /\ c <= editor'
          /\ \A s \in reports' : s.update \in Contexts => c <= s.update
    BY <2>1, <2>2, <2>3
  <2>5. /\ {stored', wire'} \subseteq Contexts => stored' <= wire'
        /\ \A s \in reports' : s.update \in Contexts => s.update <= editor'
    BY <2>1, <2>2, <2>3
  <2>6. QED BY <2>4, <2>5 DEF OrderInv, Contexts
<1>7. ASSUME NEW r \in reports, NEW result \in {"ok", "failed"},
             EndReport(r, result)
      PROVE  OrderInv'
  BY <1>7, OrderKept DEF EndReport
<1>8. CASE Serve
  <2>1. \A s \in reports' : \E r \in reports : s.update = r.update
    BY <1>8, AnswerIs DEF Serve
  <2>2. stored' = wire /\ wire' = Nothing /\ UNCHANGED editor
    BY <1>8 DEF Serve
  <2>3. QED BY <1>1, <2>1, <2>2 DEF OrderInv, Contexts
<1>9. CASE BreakConnection
  <2>1. \A s \in reports' : \E r \in reports : s.update = r.update
    BY <1>9, AnswerIs DEF BreakConnection
  <2>2. stored' = stored /\ wire' = Nothing /\ UNCHANGED editor
    BY <1>9 DEF BreakConnection
  <2>3. QED BY <2>1, <2>2, OrderKept
<1>10. CASE Change
  <2>1. \A s \in reports' : s.update \notin Contexts \/ s \in reports
    BY <1>1, <1>10, ChangeIs
  <2>2. UNCHANGED service /\ editor' = editor + 1
    BY <1>10 DEF Change
  <2>3. QED BY <2>1, <2>2, OrderKept
<1>11. CASE Beat \/ Toggle \/ Dispose \/ TimePasses \/ UNCHANGED reporterVars
  BY <1>3, <1>11 DEF Beat, Toggle, Dispose, TimePasses
<1>12. QED BY <1>4, <1>5, <1>6, <1>7, <1>8, <1>9, <1>10, <1>11 DEF ReporterNext

\* The types and the invariant of what is scheduled, under way, in the pipe and
\* stored.
THEOREM ReporterInvCorrect == ReporterSpec => []ReporterIInv
<1>1. ASSUME ReporterInit PROVE ReporterIInv
  <2>1. ReporterTypeOK
    <3>1. /\ DebounceMs \in 0..DebounceMs /\ HeartbeatMs \in 0..HeartbeatMs
          /\ 0 \in 0..MaxChanges
      BY ReporterAssumption
    <3>2. [update |-> Nothing, result |-> "none"] \in
            [update: Update \cup {Nothing}, result: {"none", "ok", "failed"}]
      OBVIOUS
    <3>3. QED BY <1>1, <3>1, <3>2 DEF ReporterInit, ReporterTypeOK
  <2>2. QED
    BY <1>1, <2>1, ReporterAssumption
       DEF ReporterInit, ReporterIInv, ReporterInv, OneInv, WaitInv, ToldInv,
           CurrentInv, OrderInv, Contexts
<1>2. ReporterIInv /\ [ReporterNext]_reporterVars => ReporterIInv'
  BY ReporterTypeStep, OneStep, WaitStep, ToldStep, CurrentStep, OrderStep
     DEF ReporterIInv, ReporterInv
<1>3. QED BY <1>1, <1>2, PTL DEF ReporterSpec

\* What an event changed reaches the service, however it fell into a report: at
\* rest after a success the service has the context of now.
THEOREM EventsReachService == ReporterSpec => []Settled
<1>1. ReporterIInv => Settled
  <2> SUFFICES ASSUME ReporterIInv PROVE Settled
    OBVIOUS
  <2>1. SingleFlight
    <3>1. CASE reports = {}
      BY <3>1, FS_EmptySet DEF SingleFlight
    <3>2. CASE reports # {}
      <4>1. PICK r \in reports : reports = {r}
        BY <3>2 DEF ReporterIInv, ReporterInv, OneInv
      <4>2. QED BY <4>1, FS_Singleton DEF SingleFlight
    <3>3. QED BY <3>1, <3>2
  <2>2. QED BY <2>1 DEF ReporterIInv, ReporterInv, CurrentInv, Settled
<1>2. QED BY <1>1, ReporterInvCorrect, PTL

\* What the service has stored is never replaced by an older context, whatever
\* clients gave up.
THEOREM NothingStale == ReporterSpec => StoreMovesOn
<1>1. ReporterIInv /\ [ReporterNext]_reporterVars =>
        ({stored, stored'} \subseteq 0..MaxChanges => stored' >= stored)
  <2> SUFFICES ASSUME ReporterIInv, [ReporterNext]_reporterVars,
                      {stored, stored'} \subseteq Contexts
               PROVE  stored' >= stored
    BY DEF Contexts
  <2>1. stored' = stored \/ stored' = wire
    BY DEF ReporterNext, TimerFires, ReportNow, Capture, Connect, EndReport,
           Serve, BreakConnection, Change, Beat, Toggle, Dispose, TimePasses,
           reporterVars, service
  <2>2. stored \in Nat /\ stored' \in Nat
    BY ReporterAssumption DEF Contexts
  <2>3. stored' = wire => stored <= stored'
    BY DEF ReporterIInv, ReporterInv, OrderInv
  <2>4. QED BY <2>1, <2>2, <2>3
<1>2. ReporterIInv /\ [ReporterNext]_reporterVars =>
        [{stored, stored'} \subseteq 0..MaxChanges => stored' >= stored]_reporterVars
  BY <1>1
<1>3. QED BY <1>2, ReporterInvCorrect, PTL DEF ReporterSpec, StoreMovesOn

-----------------------------------------------------------------------------
(***************************************************************************)
(* The editor contexts, for any windows, any time to live and any bound on *)
(* the way of a report.                                                    *)
(***************************************************************************)
TravellingReport == [update: EditorContextUpdate, age: 0..MaxTransit]
StoredUpdate == [update: EditorContextUpdate, left: 0..Ttl, from: Windows]

LEMMA BoundType ==
  /\ Bound \in Nat
  /\ MaxTransit <= Bound
  /\ Ttl <= Bound
BY EditorAssumption DEF Bound

\* A capture is an update, and a focused one is of the window with the focus.
LEMMA CapturedType ==
  ASSUME NEW w \in Windows, NEW syntax \in Syntaxes, TypeOK
  PROVE  /\ Captured(w, syntax) \in EditorContextUpdate
         /\ foreground # w => ~Captured(w, syntax).window_focused
BY EditorAssumption
DEF Captured, unavailableUpdate, EditorContextUpdate, EditorSurface,
    EditorSyntax, TypeOK

\* What is stored is the update with its whole time, or nothing.
LEMMA PublishType ==
  ASSUME NEW w \in Windows, NEW update \in EditorContextUpdate
  PROVE  /\ Publish(update, w) \in StoredUpdate \cup {NoReport}
         /\ Publish(update, w) # NoReport =>
              Publish(update, w) = [update |-> update, left |-> Ttl, from |-> w]
BY EditorAssumption DEF Publish, Invalidated, StoredUpdate

\* A rule that is served is the stored one, of a focused window and in time.
LEMMA RuleIsStored ==
  ASSUME NEW w \in Windows, RuleFrom(w)
  PROVE  /\ store # NoReport
         /\ store.from = w
         /\ store.update.window_focused
         /\ store.left > 0
<1>1. Evaluate(DefaultSnapshot).source # "SyntaxContext"
  BY DEF DefaultSnapshot, Evaluate, EvaluateRules, Keep, None
<1>2. Apply(foreground, DefaultSnapshot) # DefaultSnapshot
  BY <1>1 DEF RuleFrom, Served
<1>3. QED BY <1>2 DEF Apply, RuleFrom

-----------------------------------------------------------------------------
LEMMA TypeStep == TypeOK /\ [Next]_vars => TypeOK'
<1> SUFFICES ASSUME TypeOK, [Next]_vars
             PROVE  TypeOK'
  OBVIOUS
<1> USE BoundType DEF TypeOK, vars, windowVars
<1>1. ASSUME NEW w \in Windows, Report(w) PROVE TypeOK'
  <2>1. PICK syntax \in Syntaxes :
          flight' = [flight EXCEPT
                       ![w] = [update |-> Captured(w, syntax), age |-> 0]]
    BY <1>1 DEF Report
  <2>2. [update |-> Captured(w, syntax), age |-> 0] \in TravellingReport
    BY CapturedType, EditorAssumption DEF TravellingReport
  <2>3. flight' \in [Windows -> TravellingReport \cup {NoReport}]
    BY <2>1, <2>2 DEF TravellingReport
  <2>4. QED BY <1>1, <2>3 DEF Report, TravellingReport
<1>2. ASSUME NEW w \in Windows, Deliver(w) PROVE TypeOK'
  <2>1. flight[w].update \in EditorContextUpdate
    BY <1>2 DEF Deliver
  <2>2. store' \in StoredUpdate \cup {NoReport}
    BY <1>2, <2>1, PublishType DEF Deliver
  <2>3. QED BY <1>2, <2>2 DEF Deliver, StoredUpdate
<1>3. ASSUME NEW w \in Windows, Lose(w) PROVE TypeOK'
  BY <1>3 DEF Lose
<1>4. ASSUME NEW w \in Windows, NEW where \in EditorSurface, Interact(w, where)
      PROVE  TypeOK'
  BY <1>4 DEF Interact
<1>5. ASSUME NEW w \in Windows \cup {Elsewhere}, Focus(w) PROVE TypeOK'
  <2>1. surface' \in [Windows -> EditorSurface]
    BY <1>5 DEF Focus, EditorSurface
  <2>2. away' \in [Windows -> 0..Bound]
    BY <1>5 DEF Focus
  <2>3. QED BY <1>5, <2>1, <2>2 DEF Focus
<1>6. CASE Tick
  <2>1. ASSUME NEW w \in Windows, flight[w] # NoReport
        PROVE  [flight[w] EXCEPT !.age = @ + 1] \in TravellingReport
    BY <1>6, <2>1, EditorAssumption DEF Tick, TravellingReport
  <2>2. flight' \in [Windows -> TravellingReport \cup {NoReport}]
    BY <1>6, <2>1 DEF Tick
  <2>3. store' \in StoredUpdate \cup {NoReport}
    <3>1. CASE store = NoReport \/ store.left = 0
      BY <1>6, <3>1 DEF Tick, StoredUpdate
    <3>2. CASE ~(store = NoReport \/ store.left = 0)
      <4>1. store \in StoredUpdate /\ store.left - 1 \in 0..Ttl
        BY <3>2, EditorAssumption DEF StoredUpdate
      <4>2. store' = [store EXCEPT !.left = @ - 1]
        BY <1>6, <3>2 DEF Tick
      <4>3. QED BY <4>1, <4>2 DEF StoredUpdate
    <3>3. QED BY <3>1, <3>2
  <2>4. away' \in [Windows -> 0..Bound]
    <3>1. \A w \in Windows : away[w] \in 0..Bound
      OBVIOUS
    <3>2. \A w \in Windows : away[w] # Bound => away[w] + 1 \in 0..Bound
      BY <3>1
    <3>3. QED BY <1>6, <3>1, <3>2 DEF Tick
  <2>5. QED BY <1>6, <2>2, <2>3, <2>4 DEF Tick, TravellingReport, StoredUpdate
<1>7. CASE UNCHANGED vars
  BY <1>7
<1>8. QED BY <1>1, <1>2, <1>3, <1>4, <1>5, <1>6, <1>7 DEF Next

\* Every variable keeps its type, for all values of the constants.
THEOREM TypeCorrect == Spec => []TypeOK
<1>1. ASSUME Init PROVE TypeOK
  BY <1>1, BoundType DEF Init, TypeOK, EditorSurface
<1>2. QED BY <1>1, TypeStep, PTL DEF Spec

-----------------------------------------------------------------------------
(***************************************************************************)
(* The inductive invariant.                                                *)
(***************************************************************************)
LEMMA FlightStep ==
  ASSUME TypeOK, FlightInv, [Next]_vars
  PROVE  FlightInv'
<1> USE BoundType DEF FlightInv, vars, windowVars
<1>0. \A w \in Windows : away[w] \in 0..Bound
  BY DEF TypeOK
<1>1. ASSUME NEW w \in Windows, Report(w) PROVE FlightInv'
  <2>1. PICK syntax \in Syntaxes :
          flight' = [flight EXCEPT
                       ![w] = [update |-> Captured(w, syntax), age |-> 0]]
    BY <1>1 DEF Report
  <2>2. flight'[w].update = Captured(w, syntax)
    BY <2>1 DEF TypeOK
  <2>3. QED BY <1>1, <2>1, <2>2, CapturedType DEF Report, TypeOK
<1>2. ASSUME NEW w \in Windows, Deliver(w) \/ Lose(w) PROVE FlightInv'
  BY <1>2 DEF Deliver, Lose, TypeOK
<1>3. ASSUME NEW w \in Windows, NEW where \in EditorSurface, Interact(w, where)
      PROVE  FlightInv'
  BY <1>3 DEF Interact
<1>4. ASSUME NEW w \in Windows \cup {Elsewhere}, Focus(w) PROVE FlightInv'
  <2>1. SUFFICES ASSUME NEW v \in Windows, flight[v] # NoReport,
                        flight[v].update.window_focused, v # w
                 PROVE  away'[v] <= flight[v].age
    BY <1>4 DEF Focus
  <2>2. flight[v].age \in Nat
    BY <2>1, EditorAssumption DEF TypeOK
  <2>3. QED BY <1>4, <2>1, <2>2 DEF Focus
<1>5. CASE Tick
  <2>1. SUFFICES ASSUME NEW v \in Windows, flight'[v] # NoReport,
                        flight'[v].update.window_focused, v # foreground
                 PROVE  away'[v] <= flight'[v].age
    BY <1>5 DEF Tick
  <2>2. /\ flight[v] # NoReport
        /\ flight'[v] = [flight[v] EXCEPT !.age = @ + 1]
    BY <1>5, <2>1 DEF Tick
  <2>3. /\ flight[v].age \in Nat
        /\ flight'[v].age = flight[v].age + 1
        /\ flight'[v].update = flight[v].update
    BY <2>2, EditorAssumption DEF TypeOK
  <2>4. away[v] <= flight[v].age
    BY <2>1, <2>2, <2>3
  <2>5. away'[v] <= away[v] + 1
    BY <1>5, <1>0, <2>1 DEF Tick
  <2>6. away'[v] \in Nat
    BY <1>5, <1>0, <2>1 DEF Tick
  <2>7. QED BY <1>0, <2>3, <2>4, <2>5, <2>6
<1>6. CASE UNCHANGED vars
  BY <1>6
<1>7. QED BY <1>1, <1>2, <1>3, <1>4, <1>5, <1>6 DEF Next

LEMMA StoreStep ==
  ASSUME TypeOK, FlightInv, StoreInv, [Next]_vars
  PROVE  StoreInv'
<1> USE BoundType DEF StoreInv, vars, windowVars
<1>0. /\ \A w \in Windows : away[w] \in 0..Bound
      /\ store # NoReport => /\ store.from \in Windows
                             /\ store.left \in 0..Ttl
  BY DEF TypeOK
<1>1. ASSUME NEW w \in Windows, Report(w) \/ Lose(w) PROVE StoreInv'
  BY <1>1 DEF Report, Lose
<1>2. ASSUME NEW w \in Windows, Deliver(w) PROVE StoreInv'
  <2>1. SUFFICES ASSUME store' # NoReport, store'.update.window_focused,
                        store'.from # foreground
                 PROVE  away[store'.from] + store'.left <= Bound
    BY <1>2 DEF Deliver
  <2>2. /\ flight[w].update \in EditorContextUpdate
        /\ flight[w].age \in 0..MaxTransit
    BY <1>2 DEF Deliver, TypeOK
  <2>3. store' = [update |-> flight[w].update, left |-> Ttl, from |-> w]
    BY <1>2, <2>1, <2>2, PublishType DEF Deliver
  <2>4. away[w] <= flight[w].age
    BY <1>2, <2>1, <2>3 DEF FlightInv, Deliver
  <2>5. QED BY <1>0, <2>2, <2>3, <2>4, EditorAssumption DEF Bound
<1>3. ASSUME NEW w \in Windows, NEW where \in EditorSurface, Interact(w, where)
      PROVE  StoreInv'
  BY <1>3 DEF Interact
<1>4. ASSUME NEW w \in Windows \cup {Elsewhere}, Focus(w) PROVE StoreInv'
  <2>1. SUFFICES ASSUME store # NoReport, store.update.window_focused,
                        store.from # w
                 PROVE  away'[store.from] + store.left <= Bound
    BY <1>4 DEF Focus
  <2>2. CASE store.from = foreground
    <3>1. away'[store.from] = 0
      BY <1>0, <1>4, <2>1, <2>2 DEF Focus
    <3>2. QED BY <1>0, <2>1, <3>1, EditorAssumption
  <2>3. CASE store.from # foreground
    <3>1. away'[store.from] = away[store.from]
      BY <1>0, <1>4, <2>1, <2>3 DEF Focus
    <3>2. QED BY <2>1, <2>3, <3>1
  <2>4. QED BY <2>2, <2>3
<1>5. CASE Tick
  <2>1. SUFFICES ASSUME store # NoReport, store.update.window_focused,
                        store.from # foreground
                 PROVE  /\ store'.from = store.from
                        /\ away'[store.from] + store'.left <= Bound
    BY <1>5 DEF Tick, TypeOK
  <2>2. away[store.from] + store.left <= Bound
    BY <2>1
  <2>3. CASE store.left = 0
    BY <1>0, <1>5, <2>1, <2>2, <2>3 DEF Tick
  <2>4. CASE store.left # 0
    <3>1. store' = [store EXCEPT !.left = @ - 1]
      BY <1>5, <2>1, <2>4 DEF Tick
    <3>2. store'.left = store.left - 1 /\ store'.from = store.from
      BY <2>1, <3>1 DEF TypeOK
    <3>3. away'[store.from] <= away[store.from] + 1 /\ away'[store.from] \in Nat
      BY <1>0, <1>5, <2>1 DEF Tick
    <3>4. QED BY <1>0, <2>1, <2>2, <3>2, <3>3, EditorAssumption
  <2>5. QED BY <2>3, <2>4
<1>6. CASE UNCHANGED vars
  BY <1>6
<1>7. QED BY <1>1, <1>2, <1>3, <1>4, <1>5, <1>6 DEF Next

LEMMA SilencedStep ==
  ASSUME TypeOK, SilencedInv, [Next]_vars
  PROVE  SilencedInv'
<1> USE DEF SilencedInv, vars, windowVars
<1>1. ASSUME NEW w \in Windows, Report(w) PROVE SilencedInv'
  <2>1. PICK syntax \in Syntaxes :
          flight' = [flight EXCEPT
                       ![w] = [update |-> Captured(w, syntax), age |-> 0]]
    BY <1>1 DEF Report
  <2>2. flight'[w].update = Captured(w, syntax)
    BY <2>1 DEF TypeOK
  <2>3. QED BY <1>1, <2>1, <2>2, CapturedType DEF Report, TypeOK
<1>2. ASSUME NEW w \in Windows, Deliver(w) PROVE SilencedInv'
  <2>1. flight[w].update \in EditorContextUpdate
    BY <1>2 DEF Deliver, TypeOK
  <2>2. store' # NoReport =>
          store' = [update |-> flight[w].update, left |-> Ttl, from |-> w]
    BY <1>2, <2>1, PublishType DEF Deliver
  <2>3. SUFFICES ASSUME NEW v \in silenced'
                 PROVE  /\ v # foreground
                        /\ flight'[v] # NoReport
                             => ~flight'[v].update.window_focused
                        /\ store' # NoReport /\ store'.from = v
                             => ~store'.update.window_focused
    BY <1>2 DEF Deliver
  <2>4. CASE v \in silenced
    BY <1>2, <2>2, <2>4 DEF Deliver, TypeOK
  <2>5. CASE v \notin silenced
    <3>1. v = w /\ ~flight[w].update.window_focused /\ foreground # w
      BY <1>2, <2>3, <2>5 DEF Deliver
    <3>2. flight'[v] = NoReport
      BY <1>2, <3>1 DEF Deliver, TypeOK
    <3>3. QED BY <2>2, <3>1, <3>2
  <2>6. QED BY <2>4, <2>5
<1>3. ASSUME NEW w \in Windows, Lose(w) PROVE SilencedInv'
  BY <1>3 DEF Lose, TypeOK
<1>4. ASSUME NEW w \in Windows, NEW where \in EditorSurface, Interact(w, where)
      PROVE  SilencedInv'
  BY <1>4 DEF Interact
<1>5. ASSUME NEW w \in Windows \cup {Elsewhere}, Focus(w) PROVE SilencedInv'
  BY <1>5 DEF Focus
<1>6. CASE Tick
  <2>1. SUFFICES ASSUME NEW v \in silenced
                 PROVE  /\ v # foreground
                        /\ flight'[v] # NoReport
                             => ~flight'[v].update.window_focused
                        /\ store' # NoReport /\ store'.from = v
                             => ~store'.update.window_focused
    BY <1>6 DEF Tick
  <2>2. v \in Windows
    BY DEF TypeOK
  <2>3. flight'[v] # NoReport
          => flight[v] # NoReport /\ flight'[v].update = flight[v].update
    BY <1>6, <2>2 DEF Tick, TypeOK
  <2>4. store' # NoReport
          => /\ store # NoReport
             /\ store'.update = store.update
             /\ store'.from = store.from
    BY <1>6 DEF Tick, TypeOK
  <2>5. QED BY <2>3, <2>4
<1>7. CASE UNCHANGED vars
  BY <1>7
<1>8. QED BY <1>1, <1>2, <1>3, <1>4, <1>5, <1>6, <1>7 DEF Next

\* The inductive invariant holds, for all values of the constants.
THEOREM InvCorrect == Spec => []ReportsInv
<1>1. Init => ReportsInv
  BY DEF Init, ReportsInv, FlightInv, StoreInv, SilencedInv
<1>2. TypeOK /\ ReportsInv /\ [Next]_vars => ReportsInv'
  BY FlightStep, StoreStep, SilencedStep DEF ReportsInv
<1>3. QED BY <1>1, <1>2, TypeCorrect, PTL DEF Spec

-----------------------------------------------------------------------------
\* A window the user has left is heard of for MaxTransit + Ttl at most.
THEOREM ForeignRulesEnd == Spec => []ForeignRuleEnds
<1>1. TypeOK /\ ReportsInv => ForeignRuleEnds
  <2>1. SUFFICES ASSUME TypeOK, ReportsInv, NEW w \in Windows,
                        RuleFrom(w), w # foreground
                 PROVE  away[w] < Bound
    BY DEF ForeignRuleEnds
  <2>2. /\ store # NoReport
        /\ store.from = w
        /\ store.update.window_focused
        /\ store.left > 0
    BY <2>1, RuleIsStored
  <2>3. store.left \in 0..Ttl /\ away[w] \in 0..Bound
    BY <2>1, <2>2 DEF TypeOK
  <2>4. away[w] + store.left <= Bound
    BY <2>1, <2>2 DEF ReportsInv, StoreInv
  <2>5. QED BY <2>2, <2>3, <2>4, BoundType, EditorAssumption
<1>2. QED BY <1>1, TypeCorrect, InvCorrect, PTL

\* A report of the loss of the focus ends what the window said before.
THEOREM LeavingIsHeard == Spec => []LeavingSilences
<1>1. TypeOK /\ ReportsInv => LeavingSilences
  BY RuleIsStored DEF ReportsInv, SilencedInv, LeavingSilences, TypeOK
<1>2. QED BY <1>1, TypeCorrect, InvCorrect, PTL
=============================================================================
