--------------------------- MODULE ProjectCandidates ---------------------------
(***************************************************************************)
(* The way of a project's symbols into the candidate list.  The symbol     *)
(* reporter of each VS Code window activates its project and publishes its *)
(* document's symbols; the indexer keeps a snapshot of the active project  *)
(* with a lease and a generation; the refresh worker in the Weasel server  *)
(* polls it.  A dictionary is the newest version of its window's document  *)
(* whose symbols it holds: an upsert merges, and symbols stay.             *)
(***************************************************************************)
EXTENDS Integers

CONSTANTS
  Windows,        \* each with a workspace, and a project, of its own
  Nobody,         \* no window, or no project
  NoExchange,     \* no connection at the indexer's pipe
  MaxVersion,     \* bound: versions of a document
  MaxGeneration,  \* bound: generations that are told apart at a time
  MaxFaults,      \* bound: losses, failures and stops of the service
  MaxMoves,       \* bound: changes of focus, document or setting
  Lease,          \* kActiveProjectLeaseMs, in ticks
  Poll            \* poll_interval_ms, in ticks

ASSUME CandidatesAssumption ==
  /\ Nobody \notin Windows
  /\ {MaxVersion, Lease, Poll} \subseteq Nat \ {0}
  /\ MaxGeneration \in Nat /\ MaxGeneration >= 3
  /\ {MaxFaults, MaxMoves} \subseteq Nat

VARIABLES
  focus,       \* the window the user is in
  window,      \* the reporter of each window
  exchange,    \* the one connection the indexer's pipe takes at a time
  up,          \* the service runs
  dictionary,  \* on the disk
  active,      \* ActiveProjectSnapshotCache
  fetch,       \* the refresh worker: ticks to its poll and of validity
  shown,       \* the worker's snapshot, from which the candidates are made
  faults, moves,
  gone,        \* history: ticks since shown's project was live at the indexer
  reborn       \* history: the service restarted since shown was published

bounds == <<faults, moves>>
history == <<gone, reborn>>
server == <<up, dictionary, active>>
worker == <<fetch, shown>>
vars == <<focus, window, exchange, server, worker, bounds, history>>

Versions == 0..MaxVersion
Generations == 0..MaxGeneration
Left == -1..Lease
Ops == {"disable", "deactivate", "activate", "upsert"}

Window ==
  [enabled: BOOLEAN,       \* projectDictionary.enabled
   sent: BOOLEAN,          \* disabledInvalidationSent
   activated: BOOLEAN,     \* activeProjectId is this window's project
   force: BOOLEAN,         \* forceNext
   version: Versions,      \* document.version
   published: Versions,    \* publishedVersions
   captured: Versions,     \* capturedVersion, 0 outside the report
   at: Ops \cup {"idle", "capture"}]  \* the await the report is at

\* left: ticks to expires_at_ms, or valid_until_ms; below 0 it has passed.
Snapshot == [project: Windows \cup {Nobody}, generation: Generations,
             candidates: Versions, left: Left]
Shown == [project: Windows \cup {Nobody}, generation: Generations,
          candidates: Versions]

TypeOK ==
  /\ focus \in Windows \cup {Nobody}
  /\ window \in [Windows -> Window]
  /\ exchange \in [from: Windows, op: Ops, version: Versions, waits: BOOLEAN]
                    \cup {NoExchange}
  /\ up \in BOOLEAN
  /\ dictionary \in [Windows -> Versions]
  /\ active \in Snapshot
  /\ fetch \in [due: 0..Poll, valid: Left]
  /\ shown \in Shown
  /\ faults \in 0..MaxFaults
  /\ moves \in 0..MaxMoves
  /\ gone \in Nat
  /\ reborn \in BOOLEAN

EmptySnapshot(generation) ==
  [project |-> Nobody, generation |-> generation, candidates |-> 0, left |-> -1]

Init ==
  /\ focus \in Windows \cup {Nobody}
  /\ window = [w \in Windows |->
                 [enabled |-> TRUE, sent |-> FALSE, activated |-> FALSE,
                  force |-> FALSE, version |-> 1, published |-> 0,
                  captured |-> 0, at |-> "idle"]]
  /\ exchange = NoExchange
  /\ up = TRUE
  /\ dictionary = [w \in Windows |-> 0]
  /\ active = EmptySnapshot(1)
  /\ fetch = [due |-> 0, valid |-> -1]
  /\ shown = [project |-> Nobody, generation |-> 0, candidates |-> 0]
  /\ faults = 0
  /\ moves = 0
  /\ gone = 0
  /\ reborn = FALSE

Fault ==
  /\ faults < MaxFaults
  /\ faults' = faults + 1
  /\ UNCHANGED moves

-----------------------------------------------------------------------------
(***************************************************************************)
(* The indexer's snapshot of the active project.                           *)
(***************************************************************************)
IsLive == active.left >= 0

\* The counter goes up by one.  The worker only compares, so a new generation is
\* the least number that neither the snapshot nor the worker holds; after a
\* restart, which counts from 1 again, it may be the one the worker holds.
NextGenerations ==
  LET free == (1..MaxGeneration) \ {active.generation, shown.generation}
  IN {CHOOSE g \in free : \A h \in free : g <= h}
       \cup (IF reborn THEN {shown.generation} \ {0, active.generation} ELSE {})

Publish(w, version) ==
  \E g \in NextGenerations :
    active' = [project |-> w, generation |-> g, candidates |-> version,
               left |-> Lease]

Clear == \E g \in NextGenerations : active' = EmptySnapshot(g)

Refreshable(w) == active.project = w /\ IsLive

\* After the step, nothing is shown or a project whose lease runs.
ShownLives ==
  \/ shown.project = Nobody
  \/ shown.project = active'.project /\ active'.left >= 0

\* Mutant of Activate: another project's live lease is refreshed as well.
ActivateAny(w) ==
  IF IsLive THEN active' = [active EXCEPT !.left = Lease]
            ELSE Publish(w, dictionary[w])

Activate(w) ==
  IF Refreshable(w) THEN active' = [active EXCEPT !.left = Lease]
                    ELSE Publish(w, dictionary[w])

Upsert(w, version) ==
  LET merged == IF version > dictionary[w] THEN version ELSE dictionary[w]
  IN /\ dictionary' = [dictionary EXCEPT ![w] = merged]
     /\ IF Refreshable(w) THEN Publish(w, merged) ELSE UNCHANGED active

Handle(request) ==
  \/ /\ request.op = "activate"
     /\ Activate(request.from)
     /\ UNCHANGED dictionary
  \/ /\ request.op \in {"disable", "deactivate"}
     /\ Clear
     /\ UNCHANGED dictionary
  \/ request.op = "upsert" /\ Upsert(request.from, request.version)

\* The store cannot be read or written, which is answered by a StoreError.
HandleFails(request) ==
  /\ \/ request.op = "activate" /\ ~Refreshable(request.from) /\ Clear
     \/ request.op = "upsert" /\ UNCHANGED active
  /\ UNCHANGED dictionary

-----------------------------------------------------------------------------
(***************************************************************************)
(* The reporter of a window: report(), from one await to the next.         *)
(***************************************************************************)
Waits(w) == exchange # NoExchange /\ exchange.from = w /\ exchange.waits

Ended(s) == [s EXCEPT !.at = "idle", !.captured = 0]

\* The report goes on after its activation, whatever became of it.
Activated(s, ok) ==
  LET next == [s EXCEPT !.activated = @ \/ ok, !.force = FALSE]
  IN IF ~s.force /\ s.published = s.version
     THEN Ended(next)
     ELSE [next EXCEPT !.at = "capture", !.captured = s.version]

\* Mutant of Published: the document is taken for published in any case.
PublishedAnyway(s, ok) ==
  Ended([s EXCEPT !.published = s.captured])

Published(s, ok) ==
  Ended([s EXCEPT
           !.published = IF ok /\ s.version = s.captured THEN s.captured ELSE @])

\* The exchange of window record s has ended.
Resume(s, ok) ==
  CASE s.at = "activate" -> Activated(s, ok)
    [] s.at = "upsert" -> Published(s, ok)
    [] s.at = "deactivate" -> Ended([s EXCEPT !.activated = @ /\ ~ok])
    [] s.at = "disable" -> Ended([s EXCEPT !.activated = @ /\ ~ok, !.sent = ok])

\* By the heartbeat or by an event; reports do not overlap (ReportScheduler).
Report(w) ==
  LET s == window[w]
      on == [s EXCEPT !.sent = FALSE]
  IN /\ s.at = "idle"
     /\ window' = [window EXCEPT ![w] =
          CASE ~s.enabled -> IF s.sent THEN s ELSE [s EXCEPT !.at = "disable"]
            [] s.enabled /\ focus = w -> [on EXCEPT !.at = "activate"]
            [] s.enabled /\ focus # w ->
                 IF s.activated THEN [on EXCEPT !.at = "deactivate"] ELSE on]
     /\ UNCHANGED <<focus, exchange, server, worker, bounds, history>>

\* A pipe that is busy or not there ends the request, but publish tries again.
Send(w) ==
  LET s == window[w]
  IN /\ s.at \in Ops /\ ~Waits(w)
     /\ IF up /\ exchange = NoExchange
        THEN /\ exchange' = [from |-> w, op |-> s.at, version |-> s.captured,
                             waits |-> TRUE]
             /\ UNCHANGED window
        ELSE /\ s.at # "upsert"
             /\ window' = [window EXCEPT ![w] = Resume(@, FALSE)]
             /\ UNCHANGED exchange
     /\ UNCHANGED <<focus, server, worker, bounds, history>>

\* publish gives up at its deadline.
SendTimeout(w) ==
  /\ window[w].at = "upsert" /\ ~Waits(w)
  /\ Fault
  /\ window' = [window EXCEPT ![w] = Resume(@, FALSE)]
  /\ UNCHANGED <<focus, exchange, server, worker, history>>

\* The client gives up, the request stays in the pipe.
Abandon(w) ==
  /\ Waits(w)
  /\ Fault
  /\ window' = [window EXCEPT ![w] = Resume(@, FALSE)]
  /\ exchange' = [exchange EXCEPT !.waits = FALSE]
  /\ UNCHANGED <<focus, server, worker, history>>

Capture(w) ==
  /\ window[w].at = "capture"
  /\ window' = [window EXCEPT ![w].at = "upsert"]
  /\ UNCHANGED <<focus, exchange, server, worker, bounds, history>>

\* The language server has no answer yet.
CaptureFails(w) ==
  /\ window[w].at = "capture"
  /\ Fault
  /\ window' = [window EXCEPT ![w] = Ended(@)]
  /\ UNCHANGED <<focus, exchange, server, worker, history>>

\* The window that waits has its answer, or the end of its connection.
Answered(ok) ==
  window' = [w \in Windows |-> IF Waits(w) THEN Resume(window[w], ok)
                                          ELSE window[w]]

\* The indexer serves the connection; an abandoned request may be read or not.
Serve ==
  /\ exchange # NoExchange
  /\ exchange' = NoExchange
  /\ \/ Handle(exchange) /\ Answered(TRUE) /\ UNCHANGED bounds
     \/ HandleFails(exchange) /\ Answered(FALSE) /\ Fault
     \/ /\ ~exchange.waits
        /\ UNCHANGED <<dictionary, active, window, bounds>>
  /\ gone' = IF ShownLives THEN 0 ELSE gone
  /\ UNCHANGED <<focus, up, worker, reborn>>

-----------------------------------------------------------------------------
(***************************************************************************)
(* The refresh worker.                                                     *)
(***************************************************************************)
MakeResponse ==
  IF IsLive
  THEN [project |-> active.project, generation |-> active.generation,
        candidates |-> active.candidates, ttl |-> active.left]
  ELSE [project |-> Nobody, generation |-> active.generation, candidates |-> 0,
        ttl |-> -1]

Show(project, generation, candidates) ==
  shown' = [project |-> project, generation |-> generation,
            candidates |-> candidates]

\* Mutant of PublishShown: the project alone tells whether anything is new.
PublishOtherProject(r) ==
  IF shown.project = r.project
  THEN UNCHANGED <<shown, reborn>>
  ELSE Show(r.project, r.generation, r.candidates) /\ reborn' = FALSE

\* Publish and PublishEmpty leave what seems to be there already.
PublishShown(r) ==
  IF shown.project = r.project /\ shown.generation = r.generation
  THEN UNCHANGED <<shown, reborn>>
  ELSE Show(r.project, r.generation, r.candidates) /\ reborn' = FALSE

\* The response is published as it was made: what becomes active while it is on
\* its way is seen by the next poll.
Fetch ==
  /\ fetch.due = 0
  /\ up
  /\ PublishShown(MakeResponse)
  /\ fetch' = [due |-> Poll, valid |-> MakeResponse.ttl]
  /\ gone' = 0
  /\ UNCHANGED <<focus, window, exchange, server, bounds>>

\* Mutant of PublishExpired: what was fetched stays.
KeepExpired == UNCHANGED <<shown, history>>

PublishExpired ==
  IF fetch.valid < 0
  THEN /\ Show(Nobody, 0, 0)
       /\ gone' = 0
       /\ reborn' = FALSE
  ELSE UNCHANGED <<shown, history>>

\* No service, or a failure of the exchange at any point.
FetchFails ==
  /\ fetch.due = 0
  /\ \/ ~up /\ UNCHANGED bounds
     \/ Fault
  /\ PublishExpired
  /\ fetch' = [fetch EXCEPT !.due = Poll]
  /\ UNCHANGED <<focus, window, exchange, server>>

-----------------------------------------------------------------------------
(***************************************************************************)
(* The user, the service's life and time.                                  *)
(***************************************************************************)
MoveFocus ==
  /\ moves < MaxMoves
  /\ moves' = moves + 1
  /\ \E w \in (Windows \cup {Nobody}) \ {focus} : focus' = w
  /\ UNCHANGED <<window, exchange, server, worker, faults, history>>

Edit(w) ==
  /\ focus = w
  /\ window[w].version < MaxVersion /\ moves < MaxMoves
  /\ moves' = moves + 1
  /\ window' = [window EXCEPT ![w].version = @ + 1]
  /\ UNCHANGED <<focus, exchange, server, worker, faults, history>>

\* The setting changes, and forces the next report to publish.
Configure(w) ==
  /\ moves < MaxMoves
  /\ moves' = moves + 1
  /\ window' = [window EXCEPT ![w].enabled = ~@, ![w].force = TRUE]
  /\ UNCHANGED <<focus, exchange, server, worker, faults, history>>

\* Snapshot and generation are gone with the process.
ServiceStops ==
  /\ up
  /\ up' = FALSE
  /\ Fault
  /\ exchange' = NoExchange
  /\ Answered(FALSE)
  /\ active' = EmptySnapshot(1)
  /\ reborn' = TRUE
  /\ UNCHANGED <<focus, dictionary, worker, gone>>

ServiceStarts ==
  /\ ~up
  /\ up' = TRUE
  /\ UNCHANGED <<focus, window, exchange, dictionary, active, worker, bounds,
                 history>>

Less(n) == IF n < 0 THEN n ELSE n - 1

\* A poll that is due comes before time goes on.
Tick ==
  /\ fetch.due > 0
  /\ active' = [active EXCEPT !.left = Less(@)]
  /\ fetch' = [due |-> fetch.due - 1, valid |-> Less(fetch.valid)]
  /\ gone' = IF ShownLives THEN 0 ELSE gone + 1
  /\ UNCHANGED <<focus, window, exchange, up, dictionary, shown, bounds, reborn>>

ReporterStep(w) ==
  \/ Report(w)
  \/ Send(w)
  \/ SendTimeout(w)
  \/ Abandon(w)
  \/ Capture(w)
  \/ CaptureFails(w)

Next ==
  \/ \E w \in Windows : ReporterStep(w) \/ Edit(w) \/ Configure(w)
  \/ Serve
  \/ Fetch
  \/ FetchFails
  \/ MoveFocus
  \/ ServiceStops
  \/ ServiceStarts
  \/ Tick

Spec == Init /\ [][Next]_vars

\* Heartbeats and polls go on, pending calls return, the service is started
\* again and time passes.  The user has no fairness, and no fault has.
FairSpec ==
  /\ Spec
  /\ \A w \in Windows : WF_vars(Report(w)) /\ WF_vars(Capture(w))
                        /\ SF_vars(Send(w))
  /\ WF_vars(Serve)
  /\ WF_vars(Fetch)
  /\ WF_vars(ServiceStarts)
  /\ WF_vars(Tick)

-----------------------------------------------------------------------------
\* A connection whose end is waited for belongs to a report that sent it.
WaitInv == \A w \in Windows : Waits(w) => window[w].at \in Ops

\* The worker takes an equal generation for the same candidates, and it is.
GenerationInv ==
  /\ shown.project = Nobody => shown.candidates = 0
  /\ active.project = Nobody => active.candidates = 0
  /\ shown.project = active.project /\ shown.generation = active.generation
       /\ ~reborn => shown.candidates = active.candidates

\* What is shown outlives its validity by the rest of a poll.
ValidInv ==
  shown.project # Nobody =>
    IF fetch.valid >= 0 THEN gone + fetch.valid <= Lease
                        ELSE gone + fetch.due <= Lease + Poll + 1

ShownInv == GenerationInv /\ ValidInv

\* Candidates of a project that is no longer active end within the lease and a
\* poll, whether the service answers or is gone (docs/project-dictionary.md:122).
LeftProjectEnds == shown.project # Nobody => gone <= Lease + Poll + 1

\* What is shown after a successful fetch is what the indexer answered.  A
\* service that restarted counts its generations from 1 again, and the worker
\* takes an equal one for the same candidates.
ShownIsServed ==
  [][Fetch => \/ /\ shown'.project = MakeResponse.project
                 /\ shown'.candidates = MakeResponse.candidates
              \/ reborn]_vars

\* The project whose symbols the user, who comes to rest (MaxMoves), is to see.
Wanted == IF focus # Nobody /\ window[focus].enabled THEN focus ELSE Nobody

\* The symbols of the document the user stays in get into the candidates, in
\* spite of lost activations, failed captures, restarts and what other windows
\* still have under way.  Not for good: a slow heartbeat lets the lease end.
SymbolsShown ==
  []<>(\/ Wanted = Nobody
       \/ reborn
       \/ shown.project = focus /\ shown.candidates = window[focus].version)

\* The candidates of any other project end for good, late activations of a
\* window the user has left or switched off included.
LeavingEnds == <>[](shown.project \in {Wanted, Nobody})
=============================================================================
