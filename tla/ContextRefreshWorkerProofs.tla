----------------------- MODULE ContextRefreshWorkerProofs -----------------------
(***************************************************************************)
(* Proofs about the refresh worker, for any snapshots, read states, time   *)
(* to live and number of focus changes.                                    *)
(***************************************************************************)
EXTENDS ContextRefreshWorker, TLAPS

\* Evaluate returns a decision whatever the snapshot.
LEMMA EvaluateType ==
  ASSUME NEW s \in ContextSnapshot
  PROVE  Evaluate(s) \in Decision
BY DEF Evaluate, EvaluateRules, Keep, Select, Decision, DesiredMode, DecisionSource,
       TransientSource, RuleSource, ContextSnapshot, OptionalMode, InputMode, None

\* The local safety rules return a decision whatever the reader's state.
LEMMA SafetyType ==
  ASSUME NEW s \in ReadState
  PROVE  EvaluateDecisionCacheSafety(s) \in Decision
<1>1. SafetySnapshot(s) \in ContextSnapshot
  BY TimeAssumption
  DEF SafetySnapshot, ReadState, ContextSnapshot, DefaultSnapshot,
      OptionalMode, InputMode, None
<1>2. QED BY <1>1, EvaluateType DEF EvaluateDecisionCacheSafety

\* A read returns a decision whatever entry it has put together.
LEMMA AnswerType ==
  ASSUME NEW entry \in Entry, NEW s \in ReadState
  PROVE  Answer(entry, s) \in Decision
BY SafetyType DEF Answer, Rebase, Entry, Word, ReadState, Keep, Select, Decision,
                  DesiredMode

\* A store puts a well-formed entry into the cache whatever it is handed.
LEMMA EntryOfType ==
  ASSUME NEW d \in Decision, NEW e \in Time
  PROVE  EntryOf(d, e) \in Entry /\ NoEntry \in Entry
BY TimeAssumption
DEF EntryOf, Entry, NoEntry, NoWord, Word, Pack, Decision, DesiredMode,
    DecisionSource, TransientSource

\* A request made from a snapshot is a snapshot.
LEMMA RequestType ==
  ASSUME NEW s \in ContextSnapshot, NEW t \in Time
  PROVE  PrepareContextRefreshSnapshot(s, t) \in ContextSnapshot
BY TimeAssumption
DEF PrepareContextRefreshSnapshot, ContextSnapshot, OptionalMode, None

\* The service answers with decisions.
LEMMA AnswersType ==
  ASSUME NEW s \in ContextSnapshot, NEW d \in ServiceAnswers(s)
  PROVE  d \in Decision
<1>1. ASSUME NEW m \in OptionalMode
      PROVE  [s EXCEPT !.syntax_context = m] \in ContextSnapshot
  BY DEF ContextSnapshot
<1>2. s.syntax_context \in OptionalMode
  BY DEF ContextSnapshot
<1>3. QED BY <1>1, <1>2, EvaluateType DEF ServiceAnswers

\* The instant of a request does not matter to its answer: the request carries
\* no manual override.
LEMMA AnswersAreWords ==
  ASSUME NEW s \in ContextSnapshot, NEW t \in Time,
         NEW d \in ServiceAnswers(PrepareContextRefreshSnapshot(s, t))
  PROVE  Pack(d) \in WordsFor(s)
<1> DEFINE P(u) == PrepareContextRefreshSnapshot(s, u)
<1>1. PICK m \in OptionalMode :
        /\ s.syntax_context = None \/ m = s.syntax_context
        /\ d = Evaluate([P(t) EXCEPT !.syntax_context = m])
  BY DEF ServiceAnswers, PrepareContextRefreshSnapshot, ContextSnapshot
<1>2. ~(t < 0) /\ ~(0 < 0)
  BY TimeAssumption
<1>3. Evaluate([P(t) EXCEPT !.syntax_context = m])
        = Evaluate([P(0) EXCEPT !.syntax_context = m])
  BY <1>2
  DEF Evaluate, EvaluateRules, PrepareContextRefreshSnapshot, ContextSnapshot
<1>4. d \in ServiceAnswers(P(0))
  BY <1>1, <1>3
  DEF ServiceAnswers, PrepareContextRefreshSnapshot, ContextSnapshot
<1>5. QED BY <1>4 DEF WordsFor

\* The fresh safety state alone never yields an automatic rule.
LEMMA SafetyIsTransient ==
  ASSUME NEW s \in ReadState
  PROVE  EvaluateDecisionCacheSafety(s).source \notin RuleSource
BY DEF EvaluateDecisionCacheSafety, SafetySnapshot, DefaultSnapshot, Evaluate,
       Keep, Select, RuleSource

LEMMA ConstantTypes ==
  /\ NoEntry \in Entry
  /\ NotReading \in ReadState
  /\ NoImpl \in Impl
  /\ NoWorker \in Worker
  /\ 0 \in Time
  /\ \A mode \in InputMode : KeepUnavailable(mode) \in Decision
  /\ Keep("Chinese", "ContextUnavailable") \in Decision
<1>1. DefaultSnapshot \in ContextSnapshot
  BY TimeAssumption
  DEF DefaultSnapshot, ContextSnapshot, InputMode, OptionalMode, None
<1>2. NoEntry \in Entry
  BY TimeAssumption
  DEF NoEntry, Entry, NoWord, Word, DesiredMode, DecisionSource, TransientSource
<1>3. NotReading \in ReadState
  BY <1>1 DEF NotReading, ReadStateOf, ReadState, ContextSnapshot
<1>4. QED
  BY <1>1, <1>2, <1>3, TimeAssumption
  DEF NoImpl, Impl, NoWorker, Worker, KeepUnavailable, Keep, Decision,
      DesiredMode, InputMode, DecisionSource, TransientSource

\* The deadline is an instant: the addition saturates.
LEMMA ExpiryType ==
  ASSUME NEW t \in Time
  PROVE  /\ ExpiresAt(t) \in Time
         /\ ExpiresAt(t) <= t + DecisionTtl
BY WorkerAssumption DEF ExpiresAt

-----------------------------------------------------------------------------
(***************************************************************************)
(* Type correctness.                                                       *)
(***************************************************************************)
LEMMA TypeStep == TypeOK /\ [Next]_vars => TypeOK'
<1> SUFFICES ASSUME TypeOK, [Next]_vars
             PROVE  TypeOK'
  OBVIOUS
<1> USE DEF TypeOK, focusVars, workerVars, cacheVars, ownerVars
<1>1. ASSUME LoopTop PROVE TypeOK'
  BY <1>1 DEF LoopTop, WorkerStep, Worker, Impl
<1>2. CASE Begin
  BY <1>1, <1>2 DEF Begin
<1>3. CASE Wake
  BY <1>1, <1>3 DEF Wake
<1>4. CASE Ask
  BY <1>4 DEF Ask, WorkerStep, Worker
<1>5. CASE JudgeAnswer
  <2>1. Request \in ContextSnapshot
    BY RequestType DEF Request, Worker
  <2>2. PICK result \in ServiceAnswers(Request) \cup {Failed} :
          worker' = [worker EXCEPT !.result = result]
    BY <1>5 DEF JudgeAnswer
  <2>3. result \in Decision \cup {Failed}
    BY <2>1, AnswersType
  <2>4. worker' \in Worker
    BY <2>2, <2>3 DEF Worker
  <2>5. QED BY <1>5, <2>4 DEF JudgeAnswer, WorkerStep
<1>6. CASE PublishResult
  <2>1. worker.asked \in Time /\ worker.result \in Decision \cup {Failed}
    BY DEF Worker
  <2>2. slot' \in Entry
    BY <1>6, <2>1, ExpiryType, EntryOfType, ConstantTypes DEF PublishResult
  <2>3. QED BY <1>6, <2>1, <2>2 DEF PublishResult, WorkerStep
<1>7. CASE Stamp
  BY <1>7 DEF Stamp, WorkerStep, Worker
<1>8. CASE Call
  BY <1>8 DEF Call, WorkerStep
<1>9. CASE Relock
  BY <1>9, <1>1 DEF Relock, WorkerStep
<1>10. CASE IntervalOver
  BY <1>10, <1>1 DEF IntervalOver
<1>11. CASE DozeInterrupted
  BY <1>11, <1>1 DEF DozeInterrupted
<1>12. CASE Start
  BY <1>12, ConstantTypes DEF Start, WorkerStep
<1>22. Notify => signalled' \in BOOLEAN
  BY Zenon DEF Notify
<1>23. NextGeneration => requested_generation' \in Nat
  BY DEF NextGeneration
<1>13. ASSUME NEW s \in Snapshots, Activate(s) PROVE TypeOK'
  <2>1. CASE ~running
    BY <1>13, <2>1 DEF Activate
  <2>2. CASE running
    <3>1. signalled' \in BOOLEAN /\ requested_generation' \in Nat
      BY <1>13, <1>22, <1>23, <2>2 DEF Activate
    <3>2. QED BY <1>13, <2>2, <3>1, WorkerAssumption DEF Activate, Impl
  <2>3. QED BY <2>1, <2>2
<1>14. CASE Deactivate
  <2>1. signalled' \in BOOLEAN /\ requested_generation' \in Nat
    BY <1>14, <1>22, <1>23 DEF Deactivate
  <2>2. QED BY <1>14, <2>1 DEF Deactivate, Impl
<1>15. CASE BeginStop
  <2>1. signalled' \in BOOLEAN /\ requested_generation' \in Nat
    BY <1>15, <1>22, <1>23 DEF BeginStop
  <2>2. QED BY <1>15, <2>1 DEF BeginStop, Impl
<1>16. CASE FinishStop
  BY <1>16, ConstantTypes DEF FinishStop
<1>17. ASSUME NEW s \in ReadStates, BeginRead([s EXCEPT !.now_ms = now])
       PROVE  TypeOK'
  <2>1. [s EXCEPT !.now_ms = now] \in ReadState
    BY WorkerAssumption DEF ReadState
  <2>2. [s EXCEPT !.now_ms = now].current_mode \in InputMode
    BY <2>1 DEF ReadState
  <2>3. QED
    BY <1>17, <2>1, <2>2, ConstantTypes, SafetyType DEF BeginRead
<1>18. CASE FinishRead
  BY <1>18, AnswerType DEF FinishRead
<1>19. CASE Tick
  BY <1>19, WorkerAssumption DEF Tick
<1>20. CASE UNCHANGED vars
  BY <1>20 DEF vars
<1>21. QED
  BY <1>2, <1>3, <1>4, <1>5, <1>6, <1>7, <1>8, <1>9, <1>10, <1>11, <1>12,
     <1>13, <1>14, <1>15, <1>16, <1>17, <1>18, <1>19, <1>20
  DEF Next, WorkerNext, OwnerNext

\* Every variable of the worker keeps its type, for all values of the constants.
THEOREM TypeCorrect == Spec => []TypeOK
<1>1. ASSUME Init PROVE TypeOK
  <2>1. /\ now \in Time
        /\ asked_at \in Time
        /\ slot \in Entry
        /\ impl \in Impl
        /\ worker \in Worker
        /\ reading \in ReadState
        /\ returned \in Decision
    BY <1>1, ConstantTypes DEF Init
  <2>2. QED BY <1>1, <2>1 DEF Init, TypeOK, WorkerStep
<1>2. TypeOK /\ [Next]_vars => TypeOK'
  BY TypeStep
<1>3. QED BY <1>1, <1>2, PTL DEF Spec

-----------------------------------------------------------------------------
(***************************************************************************)
(* The inductive invariant.                                                *)
(***************************************************************************)

\* A generation is newer than all the numbers there are.
LEMMA GenerationStep ==
  ASSUME TypeOK, GenerationInv, LifeInv, [Next]_vars
  PROVE  GenerationInv'
<1> USE DEF GenerationInv, focusVars, workerVars, cacheVars, ownerVars
<1>0. /\ requested_generation \in Nat
      /\ published_generation \in Nat
      /\ impl.generation \in Nat
      /\ worker.generation \in Nat
      /\ impl = [snapshot |-> impl.snapshot, generation |-> impl.generation,
                 active |-> impl.active, stopping |-> impl.stopping]
  BY DEF TypeOK, Impl, Worker
<1>1. ASSUME LoopTop PROVE GenerationInv'
  <2>1. \/ UNCHANGED worker /\ wpc' \in {"exited", "parked"}
        \/ (/\ impl.active
            /\ worker'.generation = impl.generation
            /\ worker'.snapshot = impl.snapshot)
    BY <1>1 DEF LoopTop, TypeOK, Worker
  <2>2. CASE UNCHANGED worker /\ wpc' \in {"exited", "parked"}
    BY <1>1, <2>2, <1>0 DEF LoopTop
  <2>3. CASE /\ impl.active
             /\ worker'.generation = impl.generation
             /\ worker'.snapshot = impl.snapshot
    BY <1>1, <2>3, <1>0 DEF LoopTop
  <2>4. QED BY <2>1, <2>2, <2>3
<1>2. CASE Begin
  BY <1>1, <1>2 DEF Begin
<1>3. CASE Wake
  BY <1>1, <1>3 DEF Wake
<1>4. CASE Ask
  BY <1>4 DEF Ask, TypeOK, Worker
<1>5. CASE JudgeAnswer
  BY <1>5 DEF JudgeAnswer, TypeOK, Worker
<1>6. CASE PublishResult
  BY <1>6 DEF PublishResult
<1>7. CASE Stamp
  BY <1>7 DEF Stamp, TypeOK, Worker
<1>8. CASE Call
  BY <1>8 DEF Call
<1>9. CASE Relock
  BY <1>1, <1>9 DEF Relock
<1>10. CASE IntervalOver
  BY <1>1, <1>10 DEF IntervalOver
<1>11. CASE DozeInterrupted
  BY <1>1, <1>11 DEF DozeInterrupted
<1>12. CASE Start
  BY <1>12 DEF Start, NoImpl, NoWorker, LifeInv, TypeOK
<1>13. ASSUME NEW s \in Snapshots, Activate(s) PROVE GenerationInv'
  <2>1. CASE ~running
    BY <1>13, <2>1, <1>0 DEF Activate
  <2>2. CASE running
    <3>1. /\ requested_generation' = requested_generation + 1
          /\ active' = TRUE
          /\ impl'.snapshot = s
          /\ impl'.generation = requested_generation + 1
          /\ impl'.active = TRUE
          /\ impl'.stopping = impl.stopping
          /\ UNCHANGED <<running, wpc, worker, published_generation, opc>>
          /\ opc = "idle"
      BY <1>13, <2>2, <1>0 DEF Activate, NextGeneration
    <3>2. QED BY <2>2, <3>1, <1>0 DEF LifeInv
  <2>3. QED BY <2>1, <2>2
<1>14. CASE Deactivate
  <2>1. /\ requested_generation' = requested_generation + 1
        /\ active' = FALSE
        /\ UNCHANGED <<running, wpc, worker, published_generation, opc>>
        /\ \/ impl' = impl
           \/ /\ impl'.generation = requested_generation + 1
              /\ impl'.active = FALSE
    BY <1>14, <1>0 DEF Deactivate, NextGeneration
  <2>2. QED BY <2>1, <1>0
<1>15. CASE BeginStop
  <2>1. /\ requested_generation' = requested_generation + 1
        /\ active' = FALSE
        /\ UNCHANGED <<running, wpc, worker, published_generation>>
        /\ \/ impl' = impl
           \/ /\ impl'.generation = impl.generation
              /\ impl'.active = FALSE
    BY <1>15, <1>0 DEF BeginStop, NextGeneration
  <2>2. QED BY <2>1, <1>0
<1>16. CASE FinishStop
  BY <1>16 DEF FinishStop, NoImpl, NoWorker, TypeOK
<1>17. ASSUME NEW s, BeginRead(s) PROVE GenerationInv'
  BY <1>17 DEF BeginRead
<1>18. CASE FinishRead
  BY <1>18 DEF FinishRead
<1>19. CASE Tick
  BY <1>19 DEF Tick
<1>20. CASE UNCHANGED vars
  BY <1>20 DEF vars
<1>21. QED
  BY <1>2, <1>3, <1>4, <1>5, <1>6, <1>7, <1>8, <1>9, <1>10, <1>11, <1>12,
     <1>13, <1>14, <1>15, <1>16, <1>17, <1>18, <1>19, <1>20
  DEF Next, WorkerNext, OwnerNext

\* A publication answers the worker's snapshot; the newest focus reads only an
\* answer to its own.
LEMMA ResultStep ==
  ASSUME TypeOK, GenerationInv, GenerationInv', ResultInv, LifeInv, [Next]_vars
  PROVE  ResultInv'
<1> USE DEF ResultInv, HoldsAnswerFor, focusVars, workerVars, cacheVars,
            ownerVars
<1>0. /\ requested_generation \in Nat
      /\ published_generation \in Nat
      /\ impl.generation \in Nat
      /\ worker.generation \in Nat
      /\ worker = [snapshot |-> worker.snapshot,
                   generation |-> worker.generation,
                   asked |-> worker.asked, result |-> worker.result]
      /\ impl = [snapshot |-> impl.snapshot, generation |-> impl.generation,
                 active |-> impl.active, stopping |-> impl.stopping]
  BY DEF TypeOK, Impl, Worker
<1>1. ASSUME LoopTop PROVE ResultInv'
  BY <1>1 DEF LoopTop
<1>2. CASE Begin
  BY <1>1, <1>2 DEF Begin
<1>3. CASE Wake
  BY <1>1, <1>3 DEF Wake
<1>4. CASE Ask
  BY <1>4 DEF Ask
<1>5. CASE JudgeAnswer
  <2>1. worker.snapshot \in ContextSnapshot /\ worker.asked \in Time
    BY DEF TypeOK, Worker
  <2>2. PICK result \in ServiceAnswers(Request) \cup {Failed} :
          worker' = [worker EXCEPT !.result = result]
    BY <1>5 DEF JudgeAnswer
  <2>3. worker'.result = result /\ worker'.snapshot = worker.snapshot
    BY <2>2, <1>0
  <2>4. result = Failed \/ Pack(result) \in WordsFor(worker.snapshot)
    BY <2>1, AnswersAreWords DEF Request
  <2>5. wpc' # "stamping"
    BY <1>5 DEF JudgeAnswer
  <2>6. QED BY <1>5, <2>3, <2>4, <2>5 DEF JudgeAnswer
<1>6. CASE PublishResult
  <2>1. HoldsAnswerFor(worker.snapshot)'
    BY <1>6 DEF PublishResult, EntryOf
  <2>2. ASSUME active, published_generation = requested_generation
        PROVE  HoldsAnswerFor(impl.snapshot)'
    <3>1. impl.active /\ worker.generation = impl.generation
      BY <2>2, <1>0 DEF GenerationInv
    <3>2. worker.snapshot = impl.snapshot
      BY <1>6, <3>1 DEF GenerationInv, PublishResult
    <3>3. QED BY <1>6, <2>1, <3>2 DEF PublishResult
  <2>3. QED BY <1>6, <2>1, <2>2 DEF PublishResult
<1>7. CASE Stamp
  <2>1. HoldsAnswerFor(worker.snapshot)
    BY <1>7 DEF Stamp
  <2>2. ASSUME active, worker.generation = requested_generation
        PROVE  worker.snapshot = impl.snapshot
    BY <1>7, <2>2 DEF GenerationInv, Stamp
  <2>3. QED BY <1>7, <2>1, <2>2 DEF Stamp
<1>8. CASE Call
  BY <1>8 DEF Call
<1>9. CASE Relock
  BY <1>1, <1>9 DEF Relock
<1>10. CASE IntervalOver
  BY <1>1, <1>10 DEF IntervalOver
<1>11. CASE DozeInterrupted
  BY <1>1, <1>11 DEF DozeInterrupted
<1>12. CASE Start
  BY <1>12 DEF Start, GenerationInv
<1>13. ASSUME NEW s \in Snapshots, Activate(s) PROVE ResultInv'
  <2>1. CASE ~running
    BY <1>13, <2>1 DEF Activate, GenerationInv
  <2>2. CASE running
    <3>1. requested_generation' > published_generation
      BY <1>13, <2>2, <1>0 DEF Activate, NextGeneration, GenerationInv
    <3>2. QED BY <1>13, <2>2, <3>1, <1>0 DEF Activate
  <2>3. QED BY <2>1, <2>2
<1>14. CASE Deactivate
  BY <1>14 DEF Deactivate
<1>15. CASE BeginStop
  BY <1>15 DEF BeginStop
<1>16. CASE FinishStop
  BY <1>16 DEF FinishStop
<1>17. ASSUME NEW s, BeginRead(s) PROVE ResultInv'
  BY <1>17 DEF BeginRead
<1>18. CASE FinishRead
  BY <1>18 DEF FinishRead
<1>19. CASE Tick
  BY <1>19 DEF Tick
<1>20. CASE UNCHANGED vars
  BY <1>20 DEF vars
<1>21. QED
  BY <1>2, <1>3, <1>4, <1>5, <1>6, <1>7, <1>8, <1>9, <1>10, <1>11, <1>12,
     <1>13, <1>14, <1>15, <1>16, <1>17, <1>18, <1>19, <1>20
  DEF Next, WorkerNext, OwnerNext

\* While the owner is between the gates and the cache the gates stay passed:
\* it is the owner that would close them, and the worker stamps nothing older.
LEMMA ReadStep ==
  ASSUME TypeOK, GenerationInv, ReadInv, [Next]_vars
  PROVE  ReadInv'
<1> USE DEF ReadInv, focusVars, workerVars, cacheVars, ownerVars
<1>1. requested_generation \in Nat
  BY DEF TypeOK
<1>2. CASE Stamp
  <2>1. ASSUME opc = "reading"
        PROVE  worker.generation = requested_generation
    BY <2>1 DEF GenerationInv, TypeOK, Worker, Impl
  <2>2. QED BY <1>2, <2>1 DEF Stamp
<1>3. CASE WorkerNext /\ ~Stamp
  BY <1>3
  DEF WorkerNext, Begin, Wake, LoopTop, Ask, JudgeAnswer, PublishResult, Call,
      Relock, IntervalOver, DozeInterrupted
<1>4. CASE OwnerNext
  <2>1. CASE \E s \in ReadStates : BeginRead([s EXCEPT !.now_ms = now])
    BY <1>1, <2>1 DEF BeginRead
  <2>2. CASE ~\E s \in ReadStates : BeginRead([s EXCEPT !.now_ms = now])
    <3>1. opc' \in {"idle", "joining"}
      BY <1>4, <2>2
      DEF OwnerNext, Start, Activate, Deactivate, BeginStop, FinishStop,
          FinishRead
    <3>2. QED BY <3>1
  <2>3. QED BY <2>1, <2>2
<1>5. CASE Tick \/ UNCHANGED vars
  BY <1>5 DEF Tick, vars
<1>6. QED BY <1>2, <1>3, <1>4, <1>5 DEF Next

\* The entry and the instant it was asked at are replaced together.
LEMMA ExpiryStep ==
  ASSUME ExpiryInv, [Next]_vars
  PROVE  ExpiryInv'
<1> USE DEF ExpiryInv, ExpiresAt, focusVars, workerVars, cacheVars, ownerVars
<1>1. CASE PublishResult
  BY <1>1 DEF PublishResult, EntryOf
<1>2. CASE WorkerNext /\ ~PublishResult
  BY <1>2
  DEF WorkerNext, Begin, Wake, LoopTop, Ask, JudgeAnswer, Stamp, Call, Relock,
      IntervalOver, DozeInterrupted
<1>3. CASE OwnerNext
  BY <1>3
  DEF OwnerNext, Start, Activate, Deactivate, BeginStop, FinishStop, BeginRead,
      FinishRead
<1>4. CASE Tick \/ UNCHANGED vars
  BY <1>4 DEF Tick, vars
<1>5. QED BY <1>1, <1>2, <1>3, <1>4 DEF Next

\* Only the join ends the life of an Impl, and it waits for the thread.
LEMMA LifeStep ==
  ASSUME TypeOK, LifeInv, [Next]_vars
  PROVE  LifeInv'
<1> USE DEF LifeInv, focusVars, workerVars, cacheVars, ownerVars
<1>0. impl = [snapshot |-> impl.snapshot, generation |-> impl.generation,
              active |-> impl.active, stopping |-> impl.stopping]
  BY DEF TypeOK, Impl
<1>1. ASSUME LoopTop, wpc # "exited" PROVE LifeInv'
  BY <1>1 DEF LoopTop
<1>2. CASE WorkerNext
  BY <1>1, <1>2
  DEF WorkerNext, Begin, Wake, Ask, JudgeAnswer, PublishResult, Stamp, Call,
      Relock, IntervalOver, DozeInterrupted
<1>3. CASE Start
  BY <1>3 DEF Start, NoImpl
<1>4. ASSUME NEW s \in Snapshots, Activate(s) PROVE LifeInv'
  BY <1>0, <1>4 DEF Activate
<1>5. CASE Deactivate
  BY <1>0, <1>5 DEF Deactivate
<1>6. CASE BeginStop
  <2>1. UNCHANGED <<running, wpc, worker, slot, published_generation>>
    BY <1>6 DEF BeginStop
  <2>2. opc' = "joining"
    BY <1>6 DEF BeginStop
  <2>3. running => impl'.stopping
    BY <1>0, <1>6 DEF BeginStop
  <2>4. ~running => impl' = impl
    BY <1>6 DEF BeginStop
  <2>5. QED BY <2>1, <2>2, <2>3, <2>4
<1>7. CASE FinishStop
  BY <1>7 DEF FinishStop, NoImpl
<1>8. ASSUME NEW s, BeginRead(s) PROVE LifeInv'
  BY <1>8 DEF BeginRead
<1>9. CASE FinishRead
  BY <1>9 DEF FinishRead
<1>10. CASE Tick \/ UNCHANGED vars
  BY <1>10 DEF Tick, vars
<1>11. QED
  BY <1>2, <1>3, <1>4, <1>5, <1>6, <1>7, <1>8, <1>9, <1>10
  DEF Next, OwnerNext

\* The inductive invariant holds, for all values of the constants.
THEOREM InvCorrect == Spec => []WorkerInv
<1>1. ASSUME Init PROVE WorkerInv
  <2>1. NoImpl.generation = 0 /\ NoImpl.active = FALSE
        /\ NoImpl.stopping = FALSE /\ NoWorker.generation = 0
    BY DEF NoImpl, NoWorker
  <2>2. GenerationInv
    BY <1>1, <2>1 DEF Init, GenerationInv
  <2>3. ResultInv /\ ReadInv /\ ExpiryInv
    BY <1>1 DEF Init, ResultInv, ReadInv, ExpiryInv
  <2>4. LifeInv
    BY <1>1, <2>1 DEF Init, LifeInv
  <2>5. QED BY <2>2, <2>3, <2>4 DEF WorkerInv
<1>2. TypeOK /\ WorkerInv /\ [Next]_vars => WorkerInv'
  <2>1. SUFFICES ASSUME TypeOK, WorkerInv, [Next]_vars
                 PROVE  WorkerInv'
    OBVIOUS
  <2>2. GenerationInv'
    BY <2>1, GenerationStep DEF WorkerInv
  <2>3. ResultInv'
    BY <2>1, <2>2, ResultStep DEF WorkerInv
  <2>4. ReadInv' /\ ExpiryInv' /\ LifeInv'
    BY <2>1, ReadStep, ExpiryStep, LifeStep DEF WorkerInv
  <2>5. QED BY <2>2, <2>3, <2>4 DEF WorkerInv
<1>3. QED BY <1>1, <1>2, TypeCorrect, PTL DEF Spec

-----------------------------------------------------------------------------
(***************************************************************************)
(* What the worker is for.                                                 *)
(***************************************************************************)

\* Whatever the interleaving of focus changes with an exchange in flight, the
\* cache the owner looks into answers the snapshot of the focus it has.
THEOREM ReadsAreCurrent == Spec => []ReadIsOfThisFocus
<1>1. WorkerInv => ReadIsOfThisFocus
  BY DEF WorkerInv, ReadInv, ResultInv, ReadIsOfThisFocus
<1>2. QED BY <1>1, InvCorrect, PTL

\* A cached rule is used for less than the time to live after its request was
\* made, saturation at the largest instant included.
THEOREM RulesAreFresh == Spec => []RuleIsFresh
<1>1. TypeOK /\ WorkerInv => RuleIsFresh
  <2>1. SUFFICES ASSUME TypeOK, WorkerInv, opc = "reading",
                        Answer(slot, reading).source \in RuleSource
                 PROVE  reading.now_ms < asked_at + DecisionTtl
    BY DEF RuleIsFresh
  <2>2. reading \in ReadState /\ reading.now_ms \in Nat
    BY <2>1, TimeAssumption DEF TypeOK, ReadState
  <2>3. /\ slot.word.valid
        /\ reading.now_ms < slot.expires
    BY <2>1, <2>2, SafetyIsTransient DEF Answer
  <2>4. slot # NoEntry
    BY <2>3 DEF NoEntry, NoWord
  <2>5. slot.expires = ExpiresAt(asked_at)
    BY <2>1, <2>4 DEF WorkerInv, ExpiryInv
  <2>6. asked_at \in Time /\ asked_at \in Nat /\ DecisionTtl \in Nat
    BY <2>1, WorkerAssumption DEF TypeOK
  <2>7. /\ ExpiresAt(asked_at) <= asked_at + DecisionTtl
        /\ ExpiresAt(asked_at) \in Nat
    BY <2>6, ExpiryType, TimeAssumption
  <2>8. QED BY <2>2, <2>3, <2>5, <2>6, <2>7
<1>2. QED BY <1>1, TypeCorrect, InvCorrect, PTL

\* After Stop, and before the first Start, there is nothing in the cache and no
\* generation counts as published.
THEOREM StopClears == Spec => []StoppedIsEmpty
<1>1. WorkerInv => StoppedIsEmpty
  BY DEF WorkerInv, LifeInv, StoppedIsEmpty
<1>2. QED BY <1>1, InvCorrect, PTL
=============================================================================
