# ContextIME: the context path in TLA+

ContextIME switches a Weasel (librime) input method between Chinese and English
by the context the user types in: the application, the editor, the kind of text
at the cursor. This directory holds TLA+ models of the code that makes and
carries that decision, the TLC configurations that check them, and proofs that
TLAPS checks. Paths below are relative to the repository, `src/...` being its
C++ sources and `packages/...` its TypeScript.

## 1. The system

| part | state it keeps | operations | talks to |
|---|---|---|---|
| Context Engine, `src/context-engine` | none | `Evaluate` | called by the service and by the decision cache |
| Decision cache, `src/context-service/src/decision_cache.cpp` | a sequence number and two atomic words | `Publish`, `Invalidate`, `Read` | written by the refresh worker, read by the TSF thread |
| Refresh worker, `src/ime-host/src/context_refresh_worker_win.cpp` | `Impl` under a mutex, two generations, a thread | `Start`, `Stop`, `Activate`, `Deactivate`, `Read`, the loop `Run` | asks the service over a named pipe, calls back to the bridge |
| IME state applier, `src/ime-host/src/ime_state_applier.cpp` | none | `ApplyDecision` | calls the bridge's sink |
| TSF context bridge, `native/patches/m3-ime-context-bridge/ContextBridge.cpp` and the hooks its script puts into Weasel | focus, observed mode, pending automatic switch, manual override | focus and ready-message handlers, `_ApplyContextMode`, `_ObserveContextMode`, `_MarkContextManualOverride` | the worker, the Weasel server |
| Context Service, `src/context-service` | one `EditorContextStore`; a mutex, an event | evaluate, publish editor context, ping | IME hosts, VS Code windows |
| VS Code adapter, `packages/vscode-adapter` | scheduler, heartbeat, surface, last update | `schedule`, `flush`, `report`, `capture`, `publish` | the service, the indexer |
| Project indexer, `src/project-indexer` | dictionaries on disk, the active project's snapshot and lease | upsert, activate, clear, remove, enable, list, candidates | the adapter, the candidate worker, the settings manager |
| Service process, `src/context-service/src/context_service_main_win.cpp` | a named mutex and stop event, the threads and their pipes | `wmain`, `SignalQuit` | the installers start and stop it |
| Symbol reporter, `packages/vscode-adapter/src/project-symbol-reporter.ts` | active project, published versions, a forced report | `report` | the indexer |
| Candidate refresh worker, `src/ime-host/src/project_candidate_refresh_worker_win.cpp` | last snapshot and its generation | `Run`, `Stop` | the indexer, librime through an atomic pointer |
| Settings manager, `src/settings` | the lists of projects and entries shown, the selections, the cursors | list, view, enable, delete, add and remove an entry | the indexer |
| Prototypes, `packages/policy-core`, `windows-runtime`, `syntax-runtime` | | | not part of the shipped path |
| Weasel, librime, installers, scripts | | | third party, deployment |

A decision travels so: the VS Code adapter reports the syntax at the cursor to
the service; the refresh worker of the focused text service asks the service
every 250 ms and puts the answer in the cache; a message wakes the TSF thread,
which reads the cache with the safety state it is in then (composition, user
lock, manual override) and asks the Weasel server for the mode; the server's
response shows the new mode, and the bridge has to tell its own change from one
the user made.

What is hard about it, and what makes each part correct:

- *Engine*: eleven early returns are the specification; and the decision is cut
  in two, the service evaluating rules with no safety state and the reader
  evaluating safety with no rules. Correct if the two halves are the whole.
- *Cache*: two words read without a lock while they are written. Correct if it
  cannot be told from one entry replaced as a whole, and if a read ends.
- *Worker*: an exchange of unbounded staleness between copying a snapshot and
  publishing; the publication happens after the mutex is released. Correct if a
  reader only ever gets an answer for the focus it has, in time, if no
  notification is lost, and if `Stop` returns and clears what it should.
- *Bridge*: messages queued for a focus that is gone; server exchanges that
  fail; a mode change whose author is guessed. Correct if the user's change is
  left alone for the protected time, the bridge's own changes are not taken for
  the user's, and the mode follows the rule in the end.
- *Reporter*: callbacks interleaved at awaits, a trailing debounce, a heartbeat,
  retries, requests the service reads after the client gave up. Correct if no
  event is swallowed, nothing is applied out of order, and it keeps reporting.
- *Store*: one slot for many windows. Correct if the rule of a window the user
  left ends, and the rule of the one he is in does not.
- *Dictionaries*: a change is several operations on the disk, any of which fails
  or is the last one before the process dies; and it starts from a cached
  dictionary that is trusted by the file's size and time. Correct if a change is
  made as a whole or not at all, to what the disk holds, and if `Ok` means made.
- *Indexer*: a snapshot of one project's candidates with a lease, kept beside
  those dictionaries. Correct if readers see what the disk holds.
- *Service process*: processes that meet in kernel objects which outlive any of
  them; threads blocked in a pipe that a stop has to wake. Correct if one
  process serves at a time, if a quit that succeeds has ended what it found, if
  no stop cuts off an answer, and if a stop is heard by every thread.
- *Symbol reporter, active snapshot, candidate worker*: windows that activate
  and deactivate against each other, exchanges applied after their client gave
  up, generations that let the worker skip a snapshot and start again with the
  service. Correct if the candidates shown are the indexer's, end in bounded
  time when their project is left, and get to be those of the document at hand.
- *Settings manager*: what is shown was read by an earlier call, and a later one
  may fail while others change the dictionary. Correct if what the user sees
  and acts on belongs together and is current, and if lists are complete.

`PROJECT.json` lists every hazard at its line with the properties that bear on it,
and says of the hazards without a property why they have none.

## 2. Modules

| module | models | composed of |
|---|---|---|
| `ContextEngine` | `Evaluate`; the priority table of `docs/context-engine.md` as reference | |
| `CachedDecision` | what the cache stores of a decision and makes of it on a read, the worker's request, `ApplyDecision` | extends `ContextEngine` |
| `ContextDecision` | one IME and its inputs, changing one at a time | extends `CachedDecision` |
| `DecisionSlot` | abstract specification of the cache: one entry, atomic reads | |
| `DecisionCache` | the cache, one action per atomic access | extends `CachedDecision`, implements `DecisionSlot` |
| `ContextRefreshWorker` | owner and worker thread, one action per critical section, atomic access or stretch of local work | extends `CachedDecision`; its cache is the slot |
| `ContextBridge` | handlers of the text service with Weasel's server, the user and the clock around them | extends `CachedDecision`; its worker is a slot that answers the focus of now |
| `ContextReporter` | one VS Code window's scheduler, reporter and pipe client | |
| `EditorContext` | all windows and the service's store | extends `ContextEngine`; its windows have one report under way |
| `DurableDictionary` | abstract specification of the dictionaries: a change is made at once, an `Ok` follows it | |
| `ProjectDictionary` | `ProjectDictionaryStore`: cache, load, merge, save, remove, one action per change of the disk | |
| `ProjectIndexer` | the requests of adapters and managers, the active snapshot and its lease | extends `ProjectDictionary`, implements `DurableDictionary` |
| `ServiceLifecycle` | any number of service and quit processes, their threads, the exchange of a connection with its acknowledgement, the wake-up, crashes | |
| `ProjectCandidates` | symbol reporters of several windows, the indexer's active snapshot, the candidate refresh worker | its dictionaries are a version each, as `ProjectIndexer` shows them to be whole |
| `SettingsManager` | the dictionary manager's window, its calls, the indexer's side of the management protocol | its dictionaries are changed at once, as `DurableDictionary` says |
| `DecisionProofs` | theorems about `ContextDecision` and `DecisionCache` | extends both |
| `ReportingProofs` | theorems about `ContextReporter` and `EditorContext` | extends both |
| `*Proofs` | theorems about the module they are named after | |
| `MC*` | constants for TLC | |

The layers lean on each other: `DecisionCache` is proved to implement the slot,
so `ContextRefreshWorker` uses the slot for its cache. `ContextRefreshWorker` is
proved to answer only the focus of now and in time, so `ContextBridge` has a
slot that is emptied by a new generation. `ContextReporter` is proved to have
one report under way, so `EditorContext` gives each window one, and
`ProjectCandidates`, whose reporters use the same scheduler, likewise.
`ProjectIndexer` is proved to implement `DurableDictionary`, so the two modules
around it take a dictionary to change at once. The instants at which a layer
hands over are the ones its properties speak of.

### State and actions against the code

*ContextDecision.* `snapshot` is `ContextSnapshot`. `EditSafety` and `EditRules`
change one field to any value, so that every snapshot is reached; `Apply` is the
engine's decision put through `ImeStateApplier::ApplyDecision`.

*DecisionCache.* `sequence`, `decision_word`, `expires_at_ms` are the three
atomics. `Publish` and `Invalidate` start a `Store` (`BeginStore`, `StoreWord`,
`StoreExpiry`, `FinishStore`), `CallRead` starts a `Read` (`EvaluateSafety`,
then rounds of `LoadBefore`, `LoadWord`, `LoadExpiry`, `LoadAfter`). The packed
word is a record of its three fields: packing is injective on them, and the
target and the flag of the published decision are not in it. Accesses
interleave in program order, as on x64 and x86, where an increment is a locked
instruction and loads are not reordered; the compiler, MSVC, keeps atomic
accesses in order.

*ContextRefreshWorker.* `impl` is the shared part of `Impl`, `worker` the locals
of `Run`, `wpc` where `Run` is; the owner's calls are atomic up to their join
(`BeginStop`, `FinishStop`) or their look at the cache (`BeginRead`,
`FinishRead`). `signalled` is a notification that reached a waiting worker: one
that is sent while the worker does something else is lost, as with a condition
variable, and the model would show a lost wakeup. Between `PublishResult` and
`Stamp` the mutex is not held, so an answer may be published for a focus that
has gone since `JudgeAnswer`; `docs/ime-context-bridge.md` says such an answer is
not published, and the code only makes sure that it is not read. `asked_at` is
a history variable.

*ContextBridge.* `origin` is `_contextObserved*`, `_contextPending*` and
`_contextManualOverrideUntilMs`; `Observe` is `_ObserveContextMode`, which runs
in every response of the server. `AutomaticSwitch` and `ReadyIgnored` are the
whole handler of a ready message, the nested exchange and the response to it
included. An exchange is two bits, whether the server got the command and
whether the client got its answer. `author`, `user_until` and `bar_until` are
history variables that say what really happened, and `lost` one that says that
a switch was not delivered or not confirmed. A text service is activated once
(`InitContextBridge` asks for `origin.observed = None`): `_UninitContextBridge` resets
neither the observed mode nor the override (`ContextBridge.cpp:83-95`), and what an
object that is activated again would make of them is not modelled.

*ContextReporter.* An action is what the extension host runs between two awaits.
`timer` and `beat` count down, and a due timer fires before time goes on.
`wire` is a request the service can still read: `Serve` may come after the
client gave up. A context is the number of the change that led to it.

*EditorContext.* `store` is the one stored update with the time it has left;
the window it came from is recorded for the properties. `flight` is each
window's report, at most `MaxTransit` old when it is stored (the pipe client's
deadline). VS Code is taken to learn of a focus change at once.

*ProjectDictionary*, *ProjectIndexer*. One thread serves one request at a time;
`job` is the request and the step of `Save` or `Remove` it is at. `Begin` is
everything up to the first change of the disk, `SaveOpen`, `SaveWrite`,
`SaveReplace`, `RemoveTarget` and `RemoveTemporary` are the changes, each of
which may fail, and `Answer` is the rest of the handler: the snapshot it
publishes, refreshes or clears, and SetEnabled's second load. A managing request
loads twice, first to see that the project is there; nothing comes between the
two, so one load stands for both. `Crash` may come between any two of them; it
is the end of the process, not of the system: what the file system keeps after
a loss of power is not modelled. A file is a dictionary or it is `Corrupt`; its
stamp counts the changes made by somebody else (`ChangeOutside`, between two
requests), each of which is taken to change size or time, while two saves of
the store itself may leave the same ones. `active.left` is what the lease has
left. `lagging` is a history variable: the disk has changed and the code's
snapshot could not follow, by a foreign change or by a change of its own that it
answered with an error.

*ServiceLifecycle.* A process is `wmain` of a service or `SignalQuit`; the first
look at the mutex (`CreateMutex`, `OpenMutex`) tells which. `mutex` and `stop` are
the kernel objects with the processes that have a handle: the last handle takes
the object with it, a quit's handle keeps it. `thread` is where each serving
thread is in its loop, `pipe` the one instance it has and what the client at
its other end has done; the actions `CheckStop` to `AfterExchange` are one round.
The serving threads of project and candidates have the same loop, so a worker
is any thread but the main one. `Crash` is the end of a process at any point.
`WakePipe` connects to an instance and closes it at once; that its fifty attempts
of 10 ms are more than a thread needs from its stop check to its pipe is an
assumption (`GiveUpWaking`). `ExchangeFails` is what else may come of a
`TransferExact` or of the encoding between two of them, at any point of the
exchange: its deadline, or a `SystemError`, on which the thread disconnects like
on a deadline and then leaves its loop. `found` and `cut` are history variables:
the services a quit has found, and the threads that closed their pipe on an unread
answer before its deadline. The client's reading of the response and its
acknowledgement are one step.

*ProjectCandidates.* `window` is the reporter: the await `report()` is at, and what
it remembers. `Report` runs up to the first await, `Resume` from one to the
next; `exchange` is the connection the indexer's pipe takes, which outlives a
client that gave up (`Abandon`) and may still be served. A batch of symbols is
one request, and the version of the document stands for its symbols. `active`
is `ActiveProjectSnapshotCache`, its expiry as the time left; `Fetch` and
`FetchFails` are a round of `Run`, whose response has no time of transit. A request
is handled (`Handle`) or answered with a `StoreError` (`HandleFails`): an activation
whose dictionary cannot be loaded has cleared the snapshot by then, symbols that
cannot be saved leave it. The
generation counts up in the code and is only compared: the model takes the least
number that neither the snapshot nor the worker holds, and after a restart also
the worker's. `gone` and `reborn` are history variables.

*SettingsManager.* `ui` is `AppState` with the list box and the buttons, `call` the
request the one thread waits for. A command runs up to its call; `Served` and
`CallFails` are the indexer's handler with all the manager does with the answer,
up to the next call. `Publish` is the editor's change in between. The user can
press a button only while the thread waits for nothing. `origin`, `unread`,
`fresh` and `quiet` are history variables: whose page is shown, and whether
something failed or was changed by others since. `ValidRequest` is what
`EncodeRequest` lets pass; a request it refuses ends in `CallRefused`, a
`PROTOCOL_ERROR` without a pipe. `Refused` are the terms that this happens to:
`AddTerm` looks at length and encoding only, and the protocol asks for a valid
entry, without separators, drives and control characters.

## 3. Runs

| run | shows |
|---|---|
| `context_decision` | all 93 312 snapshots over two instants: the table, the two halves, the applier |
| `decision_cache` | one reader, three stores, three attempts: inductive invariant, no torn read, implementation of the slot, reads end |
| `refresh_worker` | three focus changes or stops, three instants, two windows: inductive invariant, reads are of this focus and fresh, `Stop` clears and returns, every focus is served and refreshed |
| `context_bridge` | four instants, a server that may not get a command or not confirm it: a click on the language bar always wins; authorship is exact, any change by the user wins and the mode follows the rule unless a switch was lost |
| `reporter` | two changes of the editor, default order of the timers: nothing swallowed or reordered, reporting goes on, disabling is told |
| `editor_context` | two windows: the rule of a left window ends, and at once when the service hears of it |
| `project_indexer` | two projects, eleven requests, dictionaries of at most two of three keys, failing and crashing file operations, one foreign change: changes are whole or not made, `Ok` means made, cache and candidates are the disk's |
| `service` | three processes, each a service or a quit, with one worker and at most one request for the main thread: one serves, a quit's word is true, an unread answer is cut off by a deadline, a thread's last system error or the end of the process only, a stop is heard |
| `project_candidates` | two windows, one move of the user, one fault: what is shown is the indexer's, ends in bounded time, gets to be the document's symbols, and another project's ends for good |
| `settings` | three projects in a list of two, two entries on two pages, one term the protocol refuses, two failing calls, one change by the editor: the page belongs to the selection and is current, lists are complete, frames but that of a refused term are well formed |
| `editor_background`, `settings_stale` | violations, see below |

Why the bounds are enough. *Instants*: code compares instants and adds
one duration to them, so what matters is their order and the saturation at the
end of the clock; three or four instants hold a request, an expiry and a later
read, or a protection and both of its ends, and the last instant saturates. *Cache*:
readers write nothing, so one is as good as many; an old entry, a torn one and
a new one need two stores, the third makes the last attempt of a reader fail.
*Worker*: a publication can be late by one focus change, and a stop can follow;
three cover a late answer, its replacement and a stop. *Reporter*: one change
during a report and one after it. *Editor*: the slot cannot tell which other
window wrote it. *Dictionaries*: three keys are one more than fit, and are of the
three kinds that differ (a symbol that is shown, one that is not, the user's
term); two observations can be merged in either order; the second project is
there to take cache and lease from the first, and needs one change and a
removal; a lease of one tick is live, then lapsed. *Service*: a service, its
successor and the quit between them, in every order; workers do the same, so
one stands for two. *Candidates*: each fault is one the code meets alone, and
the second window is the one that interferes; three generations are the
snapshot's, the worker's and a new one. The one fault may be a restart, so that
`SymbolsShown` and `ShownIsServed` are seen on both sides of it. *Settings*: one
page more than the cursor is at, one project more than the list takes, a
failure of a change and one of the load after it; refused terms are all alike.
The proofs lift what they are
about to all values of the constants.

The runs of `ServiceLifecycle` and `ProjectCandidates` do not check for deadlock:
every process ends, and a client that waits for nothing more is at rest; that
nothing waits for ever is what `StopIsHeard` and `SymbolsShown` say.

`ActiveIsDurable` excepts what `lagging` says. The exception is needed: a Remove
that deletes the dictionary and fails on a left-over temporary file is answered
with an error before the snapshot is cleared
(`project_indexer_server_win.cpp:337-345`), and the adapter's activations then
keep refreshing the lease of candidates that are gone; likewise SetEnabled whose
second load fails.

### Where code and documents disagree

- `editor_background`: each window has a heartbeat, focused or not, and
  `EditorContextStore::Publish` overwrites the slot whoever publishes
  (`editor_context.cpp:49`): the rule of the focused window drops out until its
  own next heartbeat, against `docs/editor-context-protocol.md:51`.
- `settings_stale`: `SelectProject` sets the selection before it loads the page
  and `LoadEntryPage` leaves the old page when its call fails
  (`project_dictionary_manager_win.cpp:303`): the remove button then deletes the
  entry selected in that page from the other project, against
  `docs/project-dictionary-management.md:35`.

Without a run, as what a property has to except or no property is about:

- An automatic switch that the server did not confirm waits for its confirmation
  for 1000 ms. If the user changes to the same mode by key in that time,
  `_ObserveContextMode` takes it for the confirmation and grants no protection
  (`ContextBridge.cpp:241-249`), against `docs/product-plan.md:300`; if it is
  confirmed later than that, it counts as manual (`ContextBridge.cpp:242-251`),
  against `docs/ime-context-bridge.md:78`. `lost` in `ManualWins` and `OriginExact`.
- `schedule` re-arms the timer each time (`report-scheduler.ts:19-23`), so that a
  `heartbeatMs` below `debounceMs`, which the settings of `package.json` allow, puts
  every report off. `KeepsReporting` is checked for the default order.
- A quit between `CreateEvent` and `ResetEvent` of a starting service is lost
  (`context_service_main_win.cpp:213`); the quit then fails after five seconds.
  `StopIsHeard` starts behind it.
- A service that is started while another one is on its way out finds the mutex,
  exits with success and leaves none (`context_service_main_win.cpp:208`).
- A client that came and went between `CreateNamedPipe` and `ConnectNamedPipe` makes
  the latter fail with `ERROR_NO_DATA`, which ends the service
  (`context_service_main_win.cpp:286`).
- Generations restart at 1 with the service, and the candidate worker takes an
  equal one for an equal snapshot (`active_project_snapshot.cpp:42`): it may keep
  older candidates of the same project until the next publication. `reborn` in
  `ShownIsServed` and `SymbolsShown`.
- The dictionary manager lets the user add a term like `a/b`
  (`project_dictionary_manager_win.cpp:413-444`), which the encoder then refuses as a
  protocol error (`project_management_protocol.cpp:155-160`), although
  `docs/project-dictionary.md:107` makes it an invalid term. `TermRefused` in
  `WellFormed`.
- `project_dictionary.h:81` says that removing an absent key leaves the file
  untouched; `RemoveEntry` saves whatever it removed, and so does the model.

### Fairness

- `DecisionCache`: a thread inside `Read` goes on. The writer has no fairness: it
  may stop half way through a store.
- `ContextRefreshWorker`: the worker thread goes on (its exchange has a deadline,
  its doze a timeout, its waits are left by a notification, which is in the
  guards), and the owner returns from a call it is in. The owner need not call.
- `ContextBridge`: the worker refreshes while there is a focus, and the thread
  dispatches its messages. User, server and clock have none.
- `ContextReporter`: time passes and due timers run; a capture ends; `publish`
  ends at its deadline at the latest, so only a failing end is fair. The
  service has none.
- `ServiceLifecycle`: each process that runs and each of its threads goes on:
  every wait has a deadline but `ConnectNamedPipe` and the join, which are in the
  guards. Clients, crashes and launches have none.
- `ProjectCandidates`: heartbeats and polls come, the indexer serves, it is
  started again after it stopped, a pending call returns, time passes. A request
  that finds the pipe busy tries again and gets it at last among finitely many
  windows (strong fairness of `Send`). The user and the faults have none.
- The other modules state safety only and have none.

## 4. Proofs

| module | theorems |
|---|---|
| `DecisionProofs` | `DecisionTypeCorrect`, `FirstRowCorrect`, `SplitCorrect`, `SwitchesReachSink`, `ApplyOnce`; `TypeCorrect`, `InvCorrect`, `TornReadsRejected`, `CacheImplementsSlot` |
| `ContextRefreshWorkerProofs` | `TypeCorrect`, `InvCorrect`, `ReadsAreCurrent`, `RulesAreFresh`, `StopClears` |
| `ContextBridgeProofs` | `TypeCorrect`, `InvCorrect`, `LangBarKeeps`, `ManualKeeps`, `OriginKeeps` |
| `ReportingProofs` | `ReporterInvCorrect`, `EventsReachService`, `NothingStale`; `TypeCorrect`, `InvCorrect`, `ForeignRulesEnd`, `LeavingIsHeard` |
| `ProjectIndexerProofs` | `InvCorrect`, `CacheIsCoherent`, `ActiveCandidates`, `NothingLost`, `IndexerImplementsDurable` |
| `ServiceLifecycleProofs` | `TypeCorrect`, `InvCorrect`, `ServesAlone`, `QuitIsTrue`, `AnswersStay` |
| `ProjectCandidatesProofs` | `TypeCorrect`, `InvCorrect`, `LeftEnds`, `ServedIsShown` |
| `SettingsManagerProofs` | `InvCorrect`, `PageIsTheSelecteds`, `PageIsTheStoreds`, `ListComplete`, `FramesWellFormed` |

With them every safety property of the runs that pass, states, steps and the two
refinements, is proved for every value of the constants that satisfies the named
assumptions, which TLC evaluates in the runs: `TimeAssumption`,
`CacheAssumption`, `WorkerAssumption`, `BridgeAssumption`, `EditorAssumption`,
`ReporterAssumption`, `LifecycleAssumption`, `CandidatesAssumption`,
`ManagerAssumption`, and of the indexer `StoreAssumption`, `RequestAssumption`,
`IndexerAssumption`. They say that bounds and durations are natural numbers, that
sets of keys, projects and entries are finite, that the pages of the manager are
of a size its protocol allows, and, with `NothingAssumption` and
`NoProjectAssumption`, that what stands for nothing is told from something. Type
invariants are part of each inductive invariant; those of four modules are
conjuncts of `Settled`, `CacheCoherent` and `WellFormed` and so also checked in the
runs. The inductive invariants that are in no run's configuration
(`ReporterInv`, `IndexerInv`, `ManagerInv`, ...) are each defined in the module of
the component, next to the properties, and hold on the instances of the runs.

*Decisions.* `FirstRowDecides` and `SplitEvaluation` are facts about operators
for each snapshot of the type, so type correctness is all the invariant there
is. The first is proved row by row, the second by cases on the safety state.

*Cache.* `NoTornRead` alone is not inductive: that a reader at its last look
holds one entry depends on what it loaded before. `CacheInv` adds, for the
writer, that the sequence number is odd exactly during a store and that the words
already written are the store's own, and for a reader, that if its first
sequence number still stands then what it loaded is what is there. A store
moves the number first, which empties the premise for every reader. For the
refinement the entry in force is the store's argument from its first increment
on, and a read takes effect at its second look at the number.

*Worker.* `ReadIsOfThisFocus` needs that generations are ordered
(`published <= worker's <= impl's <= requested`), that equal generations carry
equal snapshots, that what is being published answers the worker's snapshot,
and that the stamp comes after the publication; then a read past both gates
sees a stamp that is the newest, so the worker's snapshot was the newest, and a
later publication would need a newer generation. These are `GenerationInv`,
`ResultInv` and `ReadInv`; `ExpiryInv` gives freshness, `LifeInv` the empty state
after `Stop`.

*Bridge.* The three properties are about what a step does, and follow from
`OriginInv`: the override covers the user's changes (`OverrideInv`), the mode last
observed is the mode shown (`ObservedInv`), nothing is pending between two
handlers (`PendingInv`), and what the bridge has not seen yet is the user's doing
(`AuthorInv`). The last two need that no switch was lost; `LangBarWins` does
without them, for a click extends the override whatever is pending.

*Editor store.* `ForeignRuleEnds` needs how old a report is that will be stored:
`FlightInv` bounds the time since a window lost the focus by the age of a report
that still claims it, `StoreInv` by that and the time to live that is used up.
`SilencedInv` says that a window that has told of its loss has no such report
under way, which rests on one report at a time.

*Reporter.* `ReporterInv` says that `running` tells whether a report is under way and
that there is one at most (`OneInv`); that a client which waits has its own
request in the pipe (`WaitInv`), since it could only connect to an empty one; that
the invalidation is the last that was sent as long as it counts as told
(`ToldInv`); and that without a trigger what is under way or was sent last is what
there is to report (`CurrentInv`). `Settled` is the last of these at rest.
`StoreMovesOn` needs that contexts get older from the editor to the report, the
pipe and the service (`OrderInv`), whoever gave up in between.

*Dictionaries.* The cache is coherent because stamps of others never come back
(`StampInv`) and a change invalidates or replaces what is cached (`FreshInv`). For the
refinement a change is the abstract one until it is made, computed from what
the disk holds (`BasisInv`), and afterwards the disk holds it (`MadeInv`); the
change takes effect when the file is replaced or removed, a request that changes
nothing does so in its first step, and all other steps and the crashes are
stutters or failures. `ActiveInv` lets the candidates be behind while a change
that is made waits for its answer, in the project it was made to only, or when
`lagging` says so.

*Settings manager.* `PageIsCurrent` and `ListIsComplete` hold when a load or a listing
ends, by what was true while it was under way: a request is about the
selected project, and nothing is selected while projects are listed
(`CallInv`); the page belongs to the selection or is being loaded (`BelongInv`);
a term that is refused finds the page as it is stored and leaves it so
(`CurrentInv`, in the proof module); and the identifiers so far are the sorted
projects before the cursor (`ListInv`), so that the pages join to the whole list (`SliceJoins`). That a
finite set of numbers can be sorted at all (`SortedExists`) is an induction; it is
put as a contradiction on the least cardinality of a set that cannot be.

*Service.* `OneServes` follows from three facts: a process has a handle to the
mutex from its first look to its end (`HandleInv`), so that nobody else creates
it; a service owns it as long as its threads may run (`OwnerInv`); and threads
run only between their start and their join (`ThreadInv`, with `TurnInv` for the
order of the joins). `QuitInv` adds that what a quit has found is past its
release when the quit gets the mutex. `NotCutOff` rests on `AnswerInv`, that a pipe with
an unread answer has a thread that waits for its acknowledgement, and on
`ThreadInv`: such a thread has not been joined.

*Candidates.* `GenerationInv` says that an equal generation of the same project
means equal candidates, which makes the worker's skipping right; `ValidInv` that
the time since a project was live and the validity that is left are together at
most the lease, and beyond it at most the rest of a poll. `WaitInv` is what the
types need of a request that is answered.

*Only model-checked*: liveness (`ReadReturns`, `FocusServed`, `KeepsRefreshing`,
`StopReturns`, `ModeFollowsRule`, `KeepsReporting`, `DisablingIsReported`,
`StopIsHeard`, `SymbolsShown`, `LeavingEnds`), because the proof system has no rules
for fairness and `ENABLED` here; the two violations are counterexamples of TLC's.

## 5. Plan

Done: engine, cache, worker, bridge, reporter, editor store; dictionaries,
indexer and lease; candidates with symbol reporter and refresh worker; the life
of the service with its exchange; the settings manager; the proofs listed above.

Left: the implementations that are argued in the text and not stated as
refinements (`ContextRefreshWorker` of the slot that `ContextBridge` uses,
`ContextReporter` of a window of `EditorContext`), and the steps the liveness
properties rest on, as far as they are safety.

### Not modelled, and why

- The layout of the wire protocols' frames and the text format of a dictionary:
  pure functions between bytes and records, with unit tests of their own; an
  input that does not decode is an error answer in the models. What a management
  frame may contain is in `SettingsManager`.
- The wait of one client for another one's connection: a matter of milliseconds.
- `Start` and `Stop` of the candidate refresh worker: they touch what the thread
  writes only before it runs and after its join; `reportNow` and `dispose` of the
  symbol reporter.
- The foreground application's name: an input read from Windows.
- The TextMate classification of a cursor (third-party grammars) and the
  collection of symbols (the language server): inputs.
- `rime.lua`, Weasel's use of the candidates, Weasel and librime: external.
- Installers and scripts: deployment. The TypeScript prototypes: replaced by the
  C++ the modules are about.
- Memory orders weaker than those of x86 and x64, the two targets the product is
  built for; what a file system keeps after a loss of power.
