---------------------------- MODULE ContextReporter ----------------------------
(***************************************************************************)
(* One VS Code window's adapter: ReportScheduler and VSCodeContextReporter.*)
(* Editor events and a heartbeat schedule a trailing report; a report      *)
(* captures the context, connects to the Context Service, sends the update *)
(* and waits for the answer.  The extension host runs one callback at a    *)
(* time, so the interleaving is at the awaits.  A context is the number of *)
(* the change that led to it; timers count down and a timer that is due    *)
(* fires before time goes on.                                              *)
(***************************************************************************)
EXTENDS Naturals, FiniteSets

CONSTANTS
  DebounceMs,    \* configuration().debounceMs
  HeartbeatMs,   \* configuration().heartbeatMs
  MaxChanges,    \* bound on the changes of the editor's context
  Off,           \* a timer that is not set
  Nothing,       \* no bytes in the pipe, nothing stored
  Unavailable,   \* unavailableUpdate
  Invalidation   \* the unfocused, unknown update of a disabled adapter

ASSUME ReporterAssumption ==
  /\ DebounceMs \in Nat
  /\ HeartbeatMs \in Nat \ {0}
  /\ MaxChanges \in Nat
  /\ {Nothing, Unavailable, Invalidation} \cap 0..MaxChanges = {}

VARIABLES
  timer,     \* ReportScheduler.timer: the time left
  pending,   \* pendingTrigger is set
  running,   \* ReportScheduler.running
  reports,   \* the calls of report() that have not returned
  beat,      \* VSCodeContextReporter.heartbeat: the time left
  told,      \* disabledInvalidationSent
  last,      \* lastUpdate and lastResult
  disposed,
  enabled,   \* configuration().enabled
  editor,    \* the context the user is in
  wire,      \* a request the service can still read
  stored     \* the update the service has stored

scheduler == <<timer, pending, running>>
reporter == <<beat, told, last, disposed>>
service == <<wire, stored>>
reporterVars == <<scheduler, reports, reporter, enabled, editor, service>>

Update == 0..MaxChanges \cup {Unavailable, Invalidation}

ReportUnderWay ==
  [update: Update, phase: {"capturing", "connecting", "waiting", "answered"}]

ReporterTypeOK ==
  /\ timer \in 0..DebounceMs \cup {Off}
  /\ pending \in BOOLEAN
  /\ running \in BOOLEAN
  /\ reports \subseteq ReportUnderWay
  /\ beat \in 0..HeartbeatMs \cup {Off}
  /\ told \in BOOLEAN
  /\ last \in [update: Update \cup {Nothing}, result: {"none", "ok", "failed"}]
  /\ disposed \in BOOLEAN
  /\ enabled \in BOOLEAN
  /\ editor \in 0..MaxChanges
  /\ wire \in Update \cup {Nothing}
  /\ stored \in Update \cup {Nothing}

\* start(): the heartbeat is set and 'activate' is scheduled.
ReporterInit ==
  /\ timer = DebounceMs
  /\ pending = TRUE
  /\ running = FALSE
  /\ reports = {}
  /\ enabled \in BOOLEAN
  /\ beat = IF enabled THEN HeartbeatMs ELSE Off
  /\ told = FALSE
  /\ last = [update |-> Nothing, result |-> "none"]
  /\ disposed = FALSE
  /\ editor = 0
  /\ wire = Nothing
  /\ stored = Nothing

-----------------------------------------------------------------------------
(***************************************************************************)
(* The scheduler.                                                          *)
(***************************************************************************)
\* Mutant of Schedule: an event during a report is dropped.
ScheduleWhenIdle ==
  IF disposed \/ running
  THEN UNCHANGED <<timer, pending>>
  ELSE /\ pending' = TRUE
       /\ timer' = DebounceMs

\* schedule
Schedule ==
  IF disposed
  THEN UNCHANGED <<timer, pending>>
  ELSE /\ pending' = TRUE
       /\ timer' = DebounceMs

\* The start of report(): what it has to send, if anything.
Begun ==
  IF enabled
  THEN {[update |-> editor, phase |-> "capturing"]}
  ELSE IF told
  THEN {}
  ELSE {[update |-> Invalidation, phase |-> "connecting"]}

\* flush, entered with a trigger: a report() that has nothing to send
\* returns before anything else runs.
Flush ==
  /\ pending' = FALSE
  /\ reports' = reports \cup Begun
  /\ running' = (Begun # {})
  /\ told' = (told \/ ~enabled)

\* Mutant of CanFlush: a report under way is not waited for.
CanFlushAnyway == ~disposed

CanFlush == ~disposed /\ ~running

\* The callback of the timer.
TimerFires ==
  /\ timer = 0
  /\ timer' = Off
  /\ IF CanFlush /\ pending
     THEN Flush
     ELSE UNCHANGED <<pending, running, reports, told>>
  /\ UNCHANGED <<beat, last, disposed, enabled, editor, service>>

\* reportNow: schedule, then flush without waiting for the timer.
ReportNow ==
  /\ ~disposed
  /\ timer' = DebounceMs
  /\ IF CanFlush
     THEN Flush
     ELSE /\ pending' = TRUE
          /\ UNCHANGED <<running, reports, told>>
  /\ UNCHANGED <<beat, last, disposed, enabled, editor, service>>

-----------------------------------------------------------------------------
(***************************************************************************)
(* A report.                                                               *)
(***************************************************************************)
Step(r, phase) == (reports \ {r}) \cup {[r EXCEPT !.phase = phase]}

\* capture() has returned.
Capture(r) ==
  /\ r.phase = "capturing"
  /\ reports' = Step(r, "connecting")
  /\ told' = FALSE
  /\ UNCHANGED <<scheduler, beat, last, disposed, enabled, editor, service>>

\* The service serves one connection at a time: the client gets one when
\* the request before it has been read or dropped.
Connect(r) ==
  /\ r.phase = "connecting"
  /\ wire = Nothing
  /\ wire' = r.update
  /\ reports' = Step(r, "waiting")
  /\ UNCHANGED <<scheduler, reporter, enabled, editor, stored>>

\* The service reads the request and answers, whether or not the client
\* still waits.
Serve ==
  /\ wire # Nothing
  /\ stored' = wire
  /\ wire' = Nothing
  /\ reports' = {IF r.phase = "waiting" THEN [r EXCEPT !.phase = "answered"]
                                        ELSE r : r \in reports}
  /\ UNCHANGED <<scheduler, reporter, enabled, editor>>

\* The connection breaks before the request is read: EPIPE, and publish
\* tries again while its deadline allows.
BreakConnection ==
  /\ wire # Nothing
  /\ wire' = Nothing
  /\ reports' = {IF r.phase = "waiting" THEN [r EXCEPT !.phase = "connecting"]
                                        ELSE r : r \in reports}
  /\ UNCHANGED <<scheduler, reporter, enabled, editor, stored>>

\* Mutant of EndReport: the trigger is cleared at the end of the report.
EndReportClearing(r, result) ==
  /\ r.phase # "capturing"
  /\ result = "ok" => r.phase = "answered"
  /\ reports' = reports \ {r}
  /\ running' = FALSE
  /\ last' = IF disposed THEN last
              ELSE [update |-> r.update, result |-> result]
  /\ pending' = FALSE
  /\ UNCHANGED <<timer, beat, told, disposed, enabled, editor, service>>

\* publish() returns: the answer was acknowledged, or the exchange failed or
\* met its deadline wherever it was.  Then the finally of flush().
EndReport(r, result) ==
  /\ r.phase # "capturing"
  /\ result = "ok" => r.phase = "answered"
  /\ reports' = reports \ {r}
  /\ running' = FALSE
  /\ last' = IF disposed THEN last
              ELSE [update |-> r.update, result |-> result]
  /\ IF pending THEN Schedule ELSE UNCHANGED <<timer, pending>>
  /\ UNCHANGED <<beat, told, disposed, enabled, editor, service>>

-----------------------------------------------------------------------------
(***************************************************************************)
(* What makes the reporter schedule.                                       *)
(***************************************************************************)
\* An editor, terminal or window event.  A capture in progress keeps the
\* text it started with, or finds at its end that the editor has changed.
Change ==
  /\ ~disposed
  /\ editor < MaxChanges
  /\ editor' = editor + 1
  /\ \E left \in BOOLEAN :
       reports' = IF left
                  THEN {IF r.phase = "capturing"
                        THEN [r EXCEPT !.update = Unavailable]
                        ELSE r : r \in reports}
                  ELSE reports
  /\ Schedule
  /\ UNCHANGED <<running, reporter, enabled, service>>

\* Mutant of Beat: a timeout instead of an interval.
BeatOnce ==
  /\ beat = 0
  /\ beat' = Off
  /\ Schedule
  /\ UNCHANGED <<running, reports, told, last, disposed, enabled, editor,
                 service>>

Beat ==
  /\ beat = 0
  /\ beat' = HeartbeatMs
  /\ Schedule
  /\ UNCHANGED <<running, reports, told, last, disposed, enabled, editor,
                 service>>

\* onDidChangeConfiguration, with resetHeartbeat.
Toggle ==
  /\ ~disposed
  /\ enabled' = ~enabled
  /\ told' = FALSE
  /\ beat' = IF enabled' THEN HeartbeatMs ELSE Off
  /\ Schedule
  /\ UNCHANGED <<running, reports, last, disposed, editor, service>>

Dispose ==
  /\ ~disposed
  /\ disposed' = TRUE
  /\ timer' = Off
  /\ beat' = Off
  /\ pending' = FALSE
  /\ UNCHANGED <<running, reports, told, last, enabled, editor, service>>

Left(t) == IF t = Off THEN Off ELSE t - 1

TimePasses ==
  /\ timer # 0 /\ beat # 0
  /\ timer' = Left(timer)
  /\ beat' = Left(beat)
  /\ UNCHANGED <<pending, running, reports, told, last, disposed, enabled,
                 editor, service>>

-----------------------------------------------------------------------------
ReporterNext ==
  \/ TimerFires
  \/ ReportNow
  \/ \E r \in reports :
       \/ Capture(r)
       \/ Connect(r)
       \/ \E result \in {"ok", "failed"} : EndReport(r, result)
  \/ Serve
  \/ BreakConnection
  \/ Change
  \/ Beat
  \/ Toggle
  \/ Dispose
  \/ TimePasses

ReporterSpec == ReporterInit /\ [][ReporterNext]_reporterVars

\* Time passes, due timers run, and a report comes to its end: a capture is
\* bounded work and publish() has a deadline.  Nothing is asked of the
\* service, the user or the configuration.
FairSpec ==
  /\ ReporterSpec
  /\ WF_reporterVars(TimerFires)
  /\ WF_reporterVars(Beat)
  /\ WF_reporterVars(TimePasses)
  /\ WF_reporterVars(\E r \in reports : Capture(r))
  /\ WF_reporterVars(\E r \in reports : EndReport(r, "failed"))

-----------------------------------------------------------------------------
(***************************************************************************)
(* What the properties rest on.                                            *)
(***************************************************************************)
\* What there is to report.
Current == IF enabled THEN editor ELSE Invalidation

\* running tells whether a report is under way, and there is one at most.
OneInv ==
  /\ running <=> reports # {}
  /\ \A r, s \in reports : r = s

\* A client that waits has its own request in the pipe, and the answer it has
\* is to its own.
WaitInv ==
  \A r \in reports :
    /\ r.phase = "waiting" => wire = r.update
    /\ r.phase = "answered" => wire = Nothing /\ stored = r.update

\* The invalidation is the last that was sent as long as it counts as told.
ToldInv ==
  told =>
    /\ ~enabled
    /\ \A r \in reports : r.update = Invalidation /\ r.phase # "capturing"
    /\ ~running /\ ~disposed => last.update = Invalidation

\* Without a trigger, what is under way or was last sent is what there is to
\* report; and a success that is remembered is what the service has.
CurrentInv ==
  /\ ~pending /\ ~disposed =>
       /\ \A r \in reports : r.update = Current
       /\ ~running => last.update = Current
  /\ ~running /\ ~disposed /\ last.result = "ok" =>
       wire = Nothing /\ stored = last.update

Contexts == 0..MaxChanges

\* Contexts are older from the editor to the report, the pipe and the service.
OrderInv ==
  /\ \A c \in {stored, wire} \cap Contexts :
       /\ c <= editor
       /\ \A r \in reports : r.update \in Contexts => c <= r.update
  /\ {stored, wire} \subseteq Contexts => stored <= wire
  /\ \A r \in reports : r.update \in Contexts => r.update <= editor

ReporterInv ==
  OneInv /\ WaitInv /\ ToldInv /\ CurrentInv /\ OrderInv

-----------------------------------------------------------------------------
\* Only one report is under way, so that two captures never race to the pipe
\* (running in ReportScheduler.flush).
SingleFlight == Cardinality(reports) <= 1

\* When nothing is scheduled or under way and the last exchange succeeded,
\* the service holds the context the user is in, or the invalidation of a
\* disabled adapter: no event that came during a capture or an exchange was
\* swallowed by it.  The types, and that reports do not overlap, come with it.
Settled ==
  /\ ReporterTypeOK
  /\ SingleFlight
  /\ ~pending /\ ~running /\ ~disposed /\ last.result = "ok" =>
       stored = Current

\* The service never goes back to an older context, although a request whose
\* client gave up may still be read.
StoreMovesOn ==
  [][{stored, stored'} \subseteq 0..MaxChanges => stored' >= stored]_reporterVars

\* While the adapter is enabled it keeps reporting: the heartbeat refreshes a
\* context that does not change.
KeepsReporting ==
  <>[](enabled /\ ~disposed) =>
    []<>(\E r \in reports : r.phase = "connecting")

\* A disabled adapter sends the invalidation as its last report, however
\* the change of the setting fell into a report under way.
DisablingIsReported ==
  <>[](~enabled /\ ~disposed) => <>[](last.update = Invalidation)
=============================================================================
