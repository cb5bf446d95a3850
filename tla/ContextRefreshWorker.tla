-------------------------- MODULE ContextRefreshWorker --------------------------
(***************************************************************************)
(* ContextRefreshWorker: the owner (the TSF thread) starts, stops,         *)
(* activates, deactivates and reads; a background thread asks the Context  *)
(* Service and fills the decision cache.  One action is one critical       *)
(* section, one atomic access, or one stretch of thread-local work that    *)
(* reads the clock.  The cache is the one-entry slot DecisionCache         *)
(* implements.                                                             *)
(***************************************************************************)
EXTENDS CachedDecision

CONSTANTS
  Snapshots,       \* the live snapshots the owner activates with
  ReadStates,      \* the read states it reads with, apart from the instant
  DecisionTtl,     \* decision_ttl_ms
  Largest,         \* the largest instant, 2^64 - 1 in the code
  Failed,          \* the result of an exchange that failed
  MaxGenerations   \* bound: focus changes and stops of one behaviour

ASSUME WorkerAssumption ==
  /\ Largest \in Nat
  /\ Time = 0..Largest
  /\ DecisionTtl \in 1..Largest
  /\ Snapshots \subseteq ContextSnapshot
  /\ Snapshots # {}
  /\ ReadStates \subseteq ReadState
  /\ Failed \notin Decision
  /\ MaxGenerations \in Nat

VARIABLES
  now,                   \* GetTickCount64()
  running,               \* impl_ # nullptr
  active,                \* active_ of the owner's side
  requested_generation,  \* requested_generation_
  published_generation,  \* published_generation_
  impl,                  \* snapshot_, generation_, active_, stopping_ of Impl
  signalled,             \* condition_ was notified while the worker waited
  wpc,                   \* where the worker is in Run
  worker,                \* Run's locals
  slot,                  \* cache_
  asked_at,              \* history: when the entry in the slot was asked for
  opc,                   \* where the owner is in Stop and Read
  reading,               \* Read's argument
  returned               \* what the last Read returned

ownerVars == <<opc, reading, returned>>
focusVars == <<running, active, requested_generation>>
workerVars == <<wpc, worker>>
cacheVars == <<slot, asked_at, published_generation>>
vars == <<now, focusVars, impl, signalled, workerVars, cacheVars, ownerVars>>

Impl == [snapshot: ContextSnapshot, generation: Nat,
         active: BOOLEAN, stopping: BOOLEAN]
NoImpl == [snapshot |-> DefaultSnapshot, generation |-> 0,
           active |-> FALSE, stopping |-> FALSE]

WorkerStep ==
  {"starting", "parked", "copied", "asking", "publishing", "stamping",
   "calling", "relock", "dozing", "exited"}

Worker == [snapshot: ContextSnapshot, generation: Nat, asked: Time,
           result: Decision \cup {Failed}]
NoWorker == [snapshot |-> DefaultSnapshot, generation |-> 0, asked |-> 0,
             result |-> Failed]

NotReading == ReadStateOf(DefaultSnapshot)

TypeOK ==
  /\ now \in Time
  /\ running \in BOOLEAN
  /\ active \in BOOLEAN
  /\ requested_generation \in Nat
  /\ published_generation \in Nat
  /\ impl \in Impl
  /\ signalled \in BOOLEAN
  /\ wpc \in WorkerStep
  /\ worker \in Worker
  /\ slot \in Entry
  /\ asked_at \in Time
  /\ opc \in {"idle", "joining", "reading"}
  /\ reading \in ReadState
  /\ returned \in Decision

Init ==
  /\ now = 0
  /\ running = FALSE
  /\ active = FALSE
  /\ requested_generation = 0
  /\ published_generation = 0
  /\ impl = NoImpl
  /\ signalled = FALSE
  /\ wpc = "exited"
  /\ worker = NoWorker
  /\ slot = NoEntry
  /\ asked_at = 0
  /\ opc = "idle"
  /\ reading = NotReading
  /\ returned = Keep("Chinese", "ContextUnavailable")

-----------------------------------------------------------------------------
(***************************************************************************)
(* The worker thread: Impl::Run.                                           *)
(***************************************************************************)

\* The top of the loop, with the mutex held: leave, wait for work, or copy
\* the newest snapshot out.
LoopTop ==
  /\ \/ /\ impl.stopping
        /\ wpc' = "exited"
        /\ UNCHANGED worker
     \/ /\ ~impl.stopping
        /\ ~impl.active
        /\ wpc' = "parked"
        /\ UNCHANGED worker
     \/ /\ ~impl.stopping
        /\ impl.active
        /\ wpc' = "copied"
        /\ worker' = [worker EXCEPT !.snapshot = impl.snapshot,
                                    !.generation = impl.generation]
  /\ signalled' = FALSE
  /\ UNCHANGED <<now, focusVars, impl, cacheVars, ownerVars>>

Begin == wpc = "starting" /\ LoopTop

\* A waiting thread looks at its condition again once it was notified.
Wake == wpc = "parked" /\ signalled /\ LoopTop

Ask ==
  /\ wpc = "copied"
  /\ worker' = [worker EXCEPT !.asked = now]
  /\ wpc' = "asking"
  /\ UNCHANGED <<now, focusVars, impl, signalled, cacheVars, ownerVars>>

\* What the service may answer: it adds the editor's syntax mode, if there is
\* one and the request has none, and evaluates.
ServiceAnswers(request) ==
  LET modes == IF request.syntax_context = None
               THEN OptionalMode ELSE {request.syntax_context}
  IN {Evaluate([request EXCEPT !.syntax_context = m]) : m \in modes}

Request == PrepareContextRefreshSnapshot(worker.snapshot, worker.asked)

StillCurrent ==
  ~impl.stopping /\ impl.active /\ impl.generation = worker.generation

\* The exchange ends, with an answer or without one, and the worker takes the
\* mutex to see whether anybody still wants it.
JudgeAnswer ==
  /\ wpc = "asking"
  /\ \E result \in ServiceAnswers(Request) \cup {Failed} :
       worker' = [worker EXCEPT !.result = result]
  /\ wpc' = IF StillCurrent THEN "publishing" ELSE "relock"
  /\ UNCHANGED <<now, focusVars, impl, signalled, cacheVars, ownerVars>>

\* Mutant of ExpiresAt: counted from the answer, not from the request.
ExpiresFromAnswer(asked) ==
  IF now > Largest - DecisionTtl THEN Largest ELSE now + DecisionTtl

ExpiresAt(asked) ==
  IF asked > Largest - DecisionTtl THEN Largest ELSE asked + DecisionTtl

\* The mutex is not held from here to the stamp.
PublishResult ==
  /\ wpc = "publishing"
  /\ slot' = IF worker.result = Failed THEN NoEntry
             ELSE EntryOf(worker.result, ExpiresAt(worker.asked))
  /\ asked_at' = worker.asked
  /\ wpc' = "stamping"
  /\ UNCHANGED <<now, focusVars, impl, signalled, worker, published_generation,
                 ownerVars>>

Published == worker.result # Failed /\ Cacheable(worker.result)

\* Mutant of Stamp: with the generation of now.
StampNewest ==
  /\ wpc = "stamping"
  /\ published_generation' = impl.generation
  /\ wpc' = IF Published THEN "calling" ELSE "relock"
  /\ UNCHANGED <<now, focusVars, impl, signalled, worker, slot, asked_at,
                 ownerVars>>

Stamp ==
  /\ wpc = "stamping"
  /\ published_generation' = worker.generation
  /\ wpc' = IF Published THEN "calling" ELSE "relock"
  /\ UNCHANGED <<now, focusVars, impl, signalled, worker, slot, asked_at,
                 ownerVars>>

\* callback_: the owner's business.
Call ==
  /\ wpc = "calling"
  /\ wpc' = "relock"
  /\ UNCHANGED <<now, focusVars, impl, signalled, worker, cacheVars, ownerVars>>

\* Wait out the refresh interval, or start over at once.
Relock ==
  /\ wpc = "relock"
  /\ \/ /\ StillCurrent
        /\ wpc' = "dozing"
        /\ signalled' = FALSE
        /\ UNCHANGED <<now, focusVars, impl, worker, cacheVars, ownerVars>>
     \/ /\ ~StillCurrent
        /\ LoopTop

\* Mutant of IntervalOver: a wait without a timeout.
IntervalNeverOver == wpc = "dozing" /\ signalled /\ ~StillCurrent /\ LoopTop

\* wait_for ends when the interval is over, notified or not.
IntervalOver == wpc = "dozing" /\ LoopTop

\* ... or earlier, if a notification finds the condition changed.
DozeInterrupted ==
  /\ wpc = "dozing"
  /\ signalled
  /\ \/ ~StillCurrent /\ LoopTop
     \/ /\ StillCurrent
        /\ signalled' = FALSE
        /\ UNCHANGED <<now, focusVars, impl, workerVars, cacheVars, ownerVars>>

WorkerNext ==
  \/ Begin
  \/ Wake
  \/ Ask
  \/ JudgeAnswer
  \/ PublishResult
  \/ Stamp
  \/ Call
  \/ Relock
  \/ IntervalOver
  \/ DozeInterrupted

-----------------------------------------------------------------------------
(***************************************************************************)
(* The owner.  Its calls follow one another: Stop and Read are in progress *)
(* while opc says so.                                                      *)
(***************************************************************************)

\* Mutant of Notify: only a worker in its interval is notified.
NotifyDozing == signalled' = (signalled \/ wpc = "dozing")

\* Mutant of Notify: the notification is forgotten.
NotifyNobody == UNCHANGED signalled

\* notify_one, right after the mutex is released.
Notify == signalled' = (signalled \/ wpc \in {"parked", "dozing"})

\* Start with an impl_ there, or without a thread to be had, changes nothing.
Start ==
  /\ opc = "idle"
  /\ ~running
  /\ running' = TRUE
  /\ impl' = NoImpl
  /\ wpc' = "starting"
  /\ worker' = NoWorker
  /\ signalled' = FALSE
  /\ UNCHANGED <<now, active, requested_generation, cacheVars, ownerVars>>

\* Mutant of NextGeneration: only the first focus takes one.
FirstGenerationOnly == requested_generation' = 1

NextGeneration ==
  /\ requested_generation < MaxGenerations
  /\ requested_generation' = requested_generation + 1

Activate(snapshot) ==
  /\ opc = "idle"
  /\ \/ /\ ~running
        /\ active' = FALSE
        /\ UNCHANGED <<requested_generation, impl, signalled>>
     \/ /\ running
        /\ NextGeneration
        /\ active' = TRUE
        /\ impl' = [impl EXCEPT !.snapshot = snapshot,
                                !.generation = requested_generation',
                                !.active = TRUE]
        /\ Notify
  /\ UNCHANGED <<now, running, workerVars, cacheVars, ownerVars>>

Deactivate ==
  /\ opc = "idle"
  /\ NextGeneration
  /\ active' = FALSE
  /\ \/ /\ running
        /\ impl' = [impl EXCEPT !.generation = requested_generation',
                                !.active = FALSE]
        /\ Notify
     \/ /\ ~running
        /\ UNCHANGED <<impl, signalled>>
  /\ UNCHANGED <<now, running, workerVars, cacheVars, ownerVars>>

\* Stop up to the join.
BeginStop ==
  /\ opc = "idle"
  /\ NextGeneration
  /\ active' = FALSE
  /\ opc' = "joining"
  /\ \/ /\ running
        /\ impl' = [impl EXCEPT !.stopping = TRUE, !.active = FALSE]
        /\ Notify
     \/ /\ ~running
        /\ UNCHANGED <<impl, signalled>>
  /\ UNCHANGED <<now, running, workerVars, cacheVars, reading, returned>>

\* Mutant of FinishStop: the thread is not joined.
FinishStopDetached ==
  /\ opc = "joining"
  /\ running' = FALSE
  /\ slot' = NoEntry
  /\ asked_at' = 0
  /\ published_generation' = 0
  /\ opc' = "idle"
  /\ UNCHANGED <<now, active, requested_generation, impl, signalled,
                 workerVars, reading, returned>>

\* The join, and what follows it.
FinishStop ==
  /\ opc = "joining"
  /\ wpc = "exited"
  /\ running' = FALSE
  /\ impl' = NoImpl
  /\ worker' = NoWorker
  /\ slot' = NoEntry
  /\ asked_at' = 0
  /\ published_generation' = 0
  /\ opc' = "idle"
  /\ UNCHANGED <<now, active, requested_generation, signalled, wpc, reading,
                 returned>>

KeepUnavailable(mode) == Keep(mode, "ContextUnavailable")

\* Read up to its look at the cache: the focus gate and the generation gate.
BeginRead(s) ==
  /\ opc = "idle"
  /\ reading' = s
  /\ \/ /\ ~active
        /\ returned' = KeepUnavailable(s.current_mode)
        /\ UNCHANGED opc
     \/ /\ active
        /\ \/ requested_generation = 0
           \/ published_generation # requested_generation
        /\ returned' = EvaluateDecisionCacheSafety(s)
        /\ UNCHANGED opc
     \/ /\ active
        /\ requested_generation # 0
        /\ published_generation = requested_generation
        /\ opc' = "reading"
        /\ UNCHANGED returned
  /\ UNCHANGED <<now, focusVars, impl, signalled, workerVars, cacheVars>>

FinishRead ==
  /\ opc = "reading"
  /\ returned' = Answer(slot, reading)
  /\ opc' = "idle"
  /\ UNCHANGED <<now, focusVars, impl, signalled, workerVars, cacheVars,
                 reading>>

OwnerNext ==
  \/ Start
  \/ \E s \in Snapshots : Activate(s)
  \/ Deactivate
  \/ BeginStop
  \/ FinishStop
  \/ \E s \in ReadStates : BeginRead([s EXCEPT !.now_ms = now])
  \/ FinishRead

Tick ==
  /\ now < Largest
  /\ now' = now + 1
  /\ UNCHANGED <<focusVars, impl, signalled, workerVars, cacheVars, ownerVars>>

Next == WorkerNext \/ OwnerNext \/ Tick

Spec == Init /\ [][Next]_vars

\* The worker thread keeps running (the exchange has a deadline, the doze a
\* timeout), and the owner returns from a call it is in.
FairSpec ==
  /\ Spec
  /\ WF_vars(WorkerNext)
  /\ WF_vars(FinishStop)
  /\ WF_vars(FinishRead)

-----------------------------------------------------------------------------
(***************************************************************************)
(* The inductive invariant.                                                *)
(***************************************************************************)

\* The words the service's answers to a snapshot are packed into.  The
\* instant of the request does not matter to them.
WordsFor(snapshot) ==
  {Pack(d) : d \in ServiceAnswers(PrepareContextRefreshSnapshot(snapshot, 0))}

HoldsAnswerFor(snapshot) == slot = NoEntry \/ slot.word \in WordsFor(snapshot)

\* Nothing the worker carries is younger than the newest request, and a
\* generation stands for one snapshot.
GenerationInv ==
  /\ impl.generation <= requested_generation
  /\ worker.generation <= impl.generation
  /\ published_generation <= worker.generation
  /\ impl.active => impl.generation > 0
  /\ wpc \in {"copied", "asking", "publishing", "stamping", "calling",
              "relock", "dozing"} => worker.generation > 0
  /\ worker.generation > 0 /\ worker.generation = impl.generation /\ impl.active
       => worker.snapshot = impl.snapshot
  /\ active => /\ running
               /\ impl.active
               /\ impl.generation = requested_generation
               /\ ~impl.stopping
               /\ opc # "joining"

\* What is being published answers the worker's own snapshot, and what was
\* published for the newest generation answers the snapshot of that.
ResultInv ==
  /\ wpc \in {"publishing", "stamping"} =>
       \/ worker.result = Failed
       \/ Pack(worker.result) \in WordsFor(worker.snapshot)
  /\ wpc = "stamping" => HoldsAnswerFor(worker.snapshot)
  /\ active /\ published_generation = requested_generation
       => HoldsAnswerFor(impl.snapshot)

\* The owner looks into the cache only past both gates.
ReadInv ==
  opc = "reading" =>
    /\ active
    /\ requested_generation > 0
    /\ published_generation = requested_generation

\* The entry expires where its request's instant says.
ExpiryInv == slot = NoEntry \/ slot.expires = ExpiresAt(asked_at)

\* A worker that is gone has left nothing behind.
LifeInv ==
  /\ ~running => /\ wpc = "exited"
                 /\ slot = NoEntry
                 /\ published_generation = 0
                 /\ impl = NoImpl
                 /\ worker = NoWorker
  /\ running /\ wpc = "exited" => impl.stopping
  /\ impl.stopping => opc = "joining"

WorkerInv ==
  GenerationInv /\ ResultInv /\ ReadInv /\ ExpiryInv /\ LifeInv

-----------------------------------------------------------------------------
(***************************************************************************)
(* What the worker is for.                                                 *)
(***************************************************************************)

\* "Before a new generation is published the old cache cannot be read"
\* (docs/ime-context-bridge.md): whenever the owner looks into the cache it
\* finds an answer to the snapshot of the focus it has now, although the worker
\* publishes without the mutex and an answer may be in flight for a focus that
\* is long gone.
ReadIsOfThisFocus == opc = "reading" => HoldsAnswerFor(impl.snapshot)

\* A rule is used for DecisionTtl from the instant its request was made, the
\* time the exchange took included, however the reads and the clock fall.
RuleIsFresh ==
  opc = "reading" /\ Answer(slot, reading).source \in RuleSource =>
    reading.now_ms < asked_at + DecisionTtl

\* Stop leaves an empty cache and a stamp no generation has: a publication the
\* worker was in the middle of is over before, not after, they are cleared.
StoppedIsEmpty ==
  ~running => slot = NoEntry /\ published_generation = 0

\* A focus is served: the worker stamps its generation unless the owner has
\* moved on.  No notification is lost on the way, whatever the worker was
\* doing when the focus came.
FocusServed ==
  \A g \in 1..MaxGenerations :
    (active /\ requested_generation = g) ~>
      (published_generation = g \/ requested_generation # g)

\* As long as the IME has the focus its decision is asked for again and again.
KeepsRefreshing == []<>(wpc = "asking" \/ ~active)

\* Stop returns: the worker sees the stop wherever it is.
StopReturns == (opc = "joining") ~> (opc = "idle")
=============================================================================
