----------------------------- MODULE DecisionProofs -----------------------------
(***************************************************************************)
(* Proofs about the decision in the IME's process: Evaluate, its split     *)
(* into the service's and the reader's half, and the cache between them,   *)
(* for every snapshot over any set of instants, any number of readers, any *)
(* decisions and deadlines stored, any number of attempts of a read and    *)
(* any number of stores.                                                   *)
(***************************************************************************)
EXTENDS DecisionCache, ContextDecision, TLAPS

-----------------------------------------------------------------------------
(***************************************************************************)
(* The pure operators of the engine and of the cache.                      *)
(***************************************************************************)

\* Evaluate returns a decision whatever the snapshot.
LEMMA EvaluateType ==
  ASSUME NEW s \in ContextSnapshot
  PROVE  Evaluate(s) \in Decision
BY DEF Evaluate, EvaluateRules, Keep, Select, Decision, DesiredMode, DecisionSource,
       TransientSource, RuleSource, ContextSnapshot, OptionalMode, InputMode, None

\* The local safety rules return a decision whatever the reader's state.
LEMMA SafetyType ==
  ASSUME NEW s \in ReadState
  PROVE  EvaluateDecisionCacheSafety(s) \in Decision
<1>1. SafetySnapshot(s) \in ContextSnapshot
  BY TimeAssumption
  DEF SafetySnapshot, ReadState, ContextSnapshot, DefaultSnapshot,
      OptionalMode, InputMode, None
<1>2. QED BY <1>1, EvaluateType DEF EvaluateDecisionCacheSafety

\* A read returns a decision whatever entry it has put together.
LEMMA AnswerType ==
  ASSUME NEW entry \in Entry, NEW s \in ReadState
  PROVE  Answer(entry, s) \in Decision
BY SafetyType DEF Answer, Rebase, Entry, Word, ReadState, Keep, Select, Decision,
                  DesiredMode

\* A store puts a well-formed entry into the cache whatever it is handed.
LEMMA EntryOfType ==
  ASSUME NEW d \in Decision, NEW e \in Time
  PROVE  EntryOf(d, e) \in Entry /\ NoEntry \in Entry
BY TimeAssumption
DEF EntryOf, Entry, NoEntry, NoWord, Word, Pack, Decision, DesiredMode,
    DecisionSource, TransientSource

-----------------------------------------------------------------------------
(***************************************************************************)
(* One IME and the world it decides in.                                    *)
(***************************************************************************)

\* The snapshot stays one the program can hold.
THEOREM DecisionTypeCorrect == DecisionSpec => []DecisionTypeOK
<1>1. DecisionInit => DecisionTypeOK
  BY TimeAssumption
  DEF DecisionInit, DecisionTypeOK, DefaultSnapshot, ContextSnapshot, OptionalMode, InputMode,
      None
<1>2. DecisionTypeOK /\ [DecisionNext]_decisionVars => DecisionTypeOK'
  <2>1. SUFFICES ASSUME DecisionTypeOK, [DecisionNext]_decisionVars
                 PROVE  DecisionTypeOK'
    OBVIOUS
  <2>2. CASE Apply
    <3>1. PICK mode : /\ mode = ApplyDecision(Evaluate(snapshot),
                                              snapshot.current_mode)
                      /\ mode # None
                      /\ snapshot' = [snapshot EXCEPT !.current_mode = mode]
      BY <2>2 DEF Apply
    <3>2. mode \in InputMode
      BY <2>1, <3>1, EvaluateType DEF DecisionTypeOK, ApplyDecision, Decision
    <3>3. QED BY <2>1, <3>1, <3>2 DEF DecisionTypeOK, ContextSnapshot
  <2>3. CASE EditSafety
    BY <2>1, <2>3 DEF EditSafety, DecisionTypeOK, ContextSnapshot
  <2>4. CASE EditRules
    BY <2>1, <2>4 DEF EditRules, DecisionTypeOK, ContextSnapshot
  <2>5. QED
    BY <2>1, <2>2, <2>3, <2>4 DEF DecisionNext, decisionVars, DecisionTypeOK
<1>3. QED BY <1>1, <1>2, PTL DEF DecisionSpec

-----------------------------------------------------------------------------
(***************************************************************************)
(* The split evaluation.                                                   *)
(***************************************************************************)

\* The rules a request is answered by are the snapshot's own, seen from the
\* mode the IME was in when it asked.
LEMMA RequestRules ==
  ASSUME NEW s \in ContextSnapshot, NEW past \in InputMode
  PROVE  Evaluate(PrepareContextRefreshSnapshot(
                    [s EXCEPT !.current_mode = past], 0))
           = EvaluateRules([s EXCEPT !.current_mode = past])
BY DEF Evaluate, EvaluateRules, PrepareContextRefreshSnapshot,
       ContextSnapshot, Keep, Select, None

\* Repacking what the rules decided gives the rules' decision seen from another
\* mode.
LEMMA RebaseRules ==
  ASSUME NEW s \in ContextSnapshot, NEW past \in InputMode
  PROVE  LET served == EvaluateRules([s EXCEPT !.current_mode = past])
         IN /\ Cacheable(served)
            /\ Rebase(Pack(served), s.current_mode) = EvaluateRules(s)
<1>1. /\ s.user_rule \in OptionalMode
      /\ s.project_rule \in OptionalMode
      /\ s.syntax_context \in OptionalMode
      /\ s.surface_context \in OptionalMode
      /\ s.application_default \in OptionalMode
  BY DEF ContextSnapshot
<1>2. ASSUME NEW mode \in OptionalMode, mode # None, NEW source \in RuleSource
      PROVE  /\ Cacheable(Select(past, mode, source))
             /\ Rebase(Pack(Select(past, mode, source)), s.current_mode)
                  = Select(s.current_mode, mode, source)
  BY <1>2
  DEF Cacheable, IsDecisionShapeValid, IsStableAutomaticDecision, Rebase, Pack,
      Select, OptionalMode, InputMode, None
<1>3. /\ Cacheable(Keep(past, "FallbackKeep"))
      /\ Rebase(Pack(Keep(past, "FallbackKeep")), s.current_mode)
           = Keep(s.current_mode, "FallbackKeep")
  BY DEF Cacheable, IsDecisionShapeValid, IsStableAutomaticDecision, Rebase,
         Pack, Keep
<1>4. /\ [s EXCEPT !.current_mode = past].current_mode = past
      /\ [s EXCEPT !.current_mode = past].user_rule = s.user_rule
      /\ [s EXCEPT !.current_mode = past].project_rule = s.project_rule
      /\ [s EXCEPT !.current_mode = past].syntax_context = s.syntax_context
      /\ [s EXCEPT !.current_mode = past].surface_context = s.surface_context
      /\ [s EXCEPT !.current_mode = past].application_default
           = s.application_default
  BY DEF ContextSnapshot
<1>5. QED
  BY <1>1, <1>2, <1>3, <1>4 DEF EvaluateRules, RuleSource

\* The reader's safety evaluation is the snapshot's own, with the context taken
\* to be unavailable.
LEMMA SafetyOfSnapshot ==
  ASSUME NEW s \in ContextSnapshot
  PROVE  EvaluateDecisionCacheSafety(ReadStateOf(s)) =
           IF \/ s.composition_active \/ s.candidate_visible
              \/ s.explicit_user_lock # None
              \/ s.now_ms < s.manual_override_until_ms
              \/ ~s.automation_enabled
           THEN Evaluate([s EXCEPT !.context_available = TRUE])
           ELSE Keep(s.current_mode, "ContextUnavailable")
BY DEF EvaluateDecisionCacheSafety, SafetySnapshot, ReadStateOf,
       DefaultSnapshot, Evaluate, ContextSnapshot, Keep, Select, None

LEMMA SplitLemma ==
  ASSUME NEW s \in ContextSnapshot, NEW past \in InputMode, NEW e \in Time
  PROVE  LET asked == [s EXCEPT !.current_mode = past]
             served == Evaluate(PrepareContextRefreshSnapshot(asked, 0))
         IN /\ Cacheable(served)
            /\ s.now_ms < e =>
                 Answer(EntryOf(served, e), ReadStateOf(s)) =
                   Evaluate([s EXCEPT !.context_available = TRUE])
<1> DEFINE served == Evaluate(PrepareContextRefreshSnapshot(
                                [s EXCEPT !.current_mode = past], 0))
           whole == Evaluate([s EXCEPT !.context_available = TRUE])
           safety == EvaluateDecisionCacheSafety(ReadStateOf(s))
           protected == \/ s.composition_active \/ s.candidate_visible
                        \/ s.explicit_user_lock # None
                        \/ s.now_ms < s.manual_override_until_ms
                        \/ ~s.automation_enabled
<1>1. /\ Cacheable(served)
      /\ Rebase(Pack(served), s.current_mode) = EvaluateRules(s)
  BY RequestRules, RebaseRules
<1>2. CASE protected
  <2>1. safety = whole
    BY <1>2, SafetyOfSnapshot
  <2>2. safety.source # "ContextUnavailable"
    BY <1>2, <2>1 DEF Evaluate, ContextSnapshot, Keep, Select
  <2>3. QED BY <1>1, <2>1, <2>2 DEF Answer
<1>3. CASE ~protected
  <2>1. safety.source = "ContextUnavailable"
    <3>1. safety = Keep(s.current_mode, "ContextUnavailable")
      BY <1>3, SafetyOfSnapshot
    <3>2. QED BY <3>1 DEF Keep
  <2>2. whole = EvaluateRules(s)
    BY <1>3 DEF Evaluate, EvaluateRules, ContextSnapshot, Keep, Select
  <2>3. /\ ReadStateOf(s).now_ms = s.now_ms
        /\ ReadStateOf(s).current_mode = s.current_mode
    BY DEF ReadStateOf
  <2>4. EntryOf(served, e) = [word |-> Pack(served), expires |-> e]
    BY <1>1 DEF EntryOf
  <2>5. Pack(served).valid
    BY DEF Pack
  <2>6. s.now_ms < e => Answer(EntryOf(served, e), ReadStateOf(s)) = whole
    BY <1>1, <2>1, <2>2, <2>3, <2>4, <2>5 DEF Answer
  <2>7. QED BY <1>1, <2>6
<1>4. QED BY <1>2, <1>3

\* The service and the reader together decide what one evaluation would.
THEOREM SplitCorrect == DecisionSpec => []SplitEvaluation
<1>1. DecisionTypeOK => SplitEvaluation
  BY SplitLemma DEF DecisionTypeOK, SplitEvaluation
<1>2. QED BY <1>1, DecisionTypeCorrect, PTL

-----------------------------------------------------------------------------
(***************************************************************************)
(* The applier.                                                            *)
(***************************************************************************)

\* A decision of Evaluate that asks for a switch names a target that is also
\* the desired mode, the deciding rule's, and not the current mode.
LEMMA SwitchShape ==
  ASSUME NEW s \in ContextSnapshot, Evaluate(s).should_switch
  PROVE  /\ Evaluate(s).desired_mode = Evaluate(s).target_mode
         /\ Evaluate(s).target_mode # s.current_mode
         /\ Evaluate(s).desired_mode # "Keep"
         /\ Evaluate(s).target_mode = RowMode(Evaluate(s).source, s)
<1> DEFINE P(d) == d.should_switch =>
                     /\ d.desired_mode = d.target_mode
                     /\ d.target_mode # s.current_mode
                     /\ d.desired_mode # "Keep"
                     /\ d.target_mode = RowMode(d.source, s)
<1>1. ASSUME NEW source
      PROVE  P(Keep(s.current_mode, source))
  BY DEF Keep
<1>2. ASSUME NEW mode \in InputMode, NEW source, mode = RowMode(source, s)
      PROVE  P(Select(s.current_mode, mode, source))
  BY <1>2 DEF Select, InputMode
<1>3. /\ RowMode("ExplicitUserLock", s) = s.explicit_user_lock
      /\ RowMode("UserRule", s) = s.user_rule
      /\ RowMode("ProjectRule", s) = s.project_rule
      /\ RowMode("SyntaxContext", s) = s.syntax_context
      /\ RowMode("SurfaceContext", s) = s.surface_context
      /\ RowMode("ApplicationDefault", s) = s.application_default
  BY DEF RowMode
<1>4. \A m \in {s.explicit_user_lock, s.user_rule, s.project_rule,
               s.syntax_context, s.surface_context, s.application_default} :
        m # None => m \in InputMode
  BY DEF ContextSnapshot, OptionalMode
<1> HIDE DEF P
<1>5. P(EvaluateRules(s))
  BY <1>1, <1>2, <1>3, <1>4 DEF EvaluateRules
<1>6. P(Evaluate(s))
  BY <1>1, <1>2, <1>3, <1>4, <1>5 DEF Evaluate
<1>7. QED BY <1>6 DEF P

\* No switch the engine asks for is lost on its way to the sink.
THEOREM SwitchesReachSink == DecisionSpec => []NoSwitchDropped
<1>1. DecisionTypeOK => NoSwitchDropped
  BY SwitchShape DEF DecisionTypeOK, NoSwitchDropped, ApplyDecision
<1>2. QED BY <1>1, DecisionTypeCorrect, PTL
\* Applying a decision leaves nothing to apply.
THEOREM ApplyOnce == DecisionSpec => ApplySettles
<1> DEFINE Asked(s) == ApplyDecision(Evaluate(s), s.current_mode)
<1>1. DecisionTypeOK /\ Apply => Asked(snapshot') = None
  <2>1. SUFFICES ASSUME DecisionTypeOK, Apply
                 PROVE  Asked(snapshot') = None
    OBVIOUS
  <2>2. PICK mode : /\ mode = Asked(snapshot)
                    /\ mode # None
                    /\ snapshot' = [snapshot EXCEPT !.current_mode = mode]
    BY <2>1 DEF Apply
  <2>3. /\ Evaluate(snapshot).should_switch
        /\ mode = Evaluate(snapshot).target_mode
    BY <2>2 DEF ApplyDecision
  <2>4. mode = Evaluate(snapshot').target_mode \/ ~Evaluate(snapshot').should_switch
    BY <2>1, <2>2, <2>3
    DEF DecisionTypeOK, ContextSnapshot, Evaluate, EvaluateRules, Keep, Select
  <2>5. snapshot'.current_mode = mode
    BY <2>1, <2>2 DEF DecisionTypeOK, ContextSnapshot
  <2>6. QED BY <2>4, <2>5 DEF ApplyDecision
<1>2. DecisionTypeOK /\ [DecisionNext]_decisionVars => [Apply => Asked(snapshot') = None]_decisionVars
  BY <1>1
<1>3. QED BY <1>2, DecisionTypeCorrect, PTL DEF DecisionSpec, ApplySettles

-----------------------------------------------------------------------------
(***************************************************************************)
(* The priority table.                                                     *)
(***************************************************************************)

\* The deciding row exists and is unique: it fires and no earlier row does.
LEMMA DecidingRowIs ==
  ASSUME NEW s \in ContextSnapshot, NEW i \in 1..11,
         RowFires(PriorityTable[i], s),
         \A j \in 1..(i - 1) : ~RowFires(PriorityTable[j], s)
  PROVE  DecidingRow(s) = i
<1> DEFINE First(k) == /\ RowFires(PriorityTable[k], s)
                       /\ \A j \in 1..(k - 1) : ~RowFires(PriorityTable[j], s)
<1>1. First(i)
  OBVIOUS
<1>2. ASSUME NEW k \in 1..11, First(k)
      PROVE  k = i
  BY <1>1, <1>2
<1> HIDE DEF First
<1>3. DecidingRow(s) = CHOOSE k \in 1..11 : First(k)
  BY DEF DecidingRow, First
<1>4. QED BY <1>1, <1>2, <1>3
\* The rows of the table, spelt out.
LEMMA Rows ==
  ASSUME NEW s
  PROVE  /\ PriorityTable[1] = "CompositionProtection"
         /\ RowMode("CompositionProtection", s) = None
         /\ RowFires("CompositionProtection", s) <=> (s.composition_active \/ s.candidate_visible)
         /\ PriorityTable[2] = "ExplicitUserLock"
         /\ RowMode("ExplicitUserLock", s) = s.explicit_user_lock
         /\ RowFires("ExplicitUserLock", s) <=> s.explicit_user_lock # None
         /\ PriorityTable[3] = "ManualOverrideProtection"
         /\ RowMode("ManualOverrideProtection", s) = None
         /\ RowFires("ManualOverrideProtection", s) <=> s.now_ms < s.manual_override_until_ms
         /\ PriorityTable[4] = "AutomationDisabled"
         /\ RowMode("AutomationDisabled", s) = None
         /\ RowFires("AutomationDisabled", s) <=> ~s.automation_enabled
         /\ PriorityTable[5] = "ContextUnavailable"
         /\ RowMode("ContextUnavailable", s) = None
         /\ RowFires("ContextUnavailable", s) <=> ~s.context_available
         /\ PriorityTable[6] = "UserRule"
         /\ RowMode("UserRule", s) = s.user_rule
         /\ RowFires("UserRule", s) <=> s.user_rule # None
         /\ PriorityTable[7] = "ProjectRule"
         /\ RowMode("ProjectRule", s) = s.project_rule
         /\ RowFires("ProjectRule", s) <=> s.project_rule # None
         /\ PriorityTable[8] = "SyntaxContext"
         /\ RowMode("SyntaxContext", s) = s.syntax_context
         /\ RowFires("SyntaxContext", s) <=> s.syntax_context # None
         /\ PriorityTable[9] = "SurfaceContext"
         /\ RowMode("SurfaceContext", s) = s.surface_context
         /\ RowFires("SurfaceContext", s) <=> s.surface_context # None
         /\ PriorityTable[10] = "ApplicationDefault"
         /\ RowMode("ApplicationDefault", s) = s.application_default
         /\ RowFires("ApplicationDefault", s) <=> s.application_default # None
         /\ PriorityTable[11] = "FallbackKeep"
         /\ RowMode("FallbackKeep", s) = None
         /\ RowFires("FallbackKeep", s)
BY DEF PriorityTable, RowMode, RowFires

\* Evaluate returns early exactly where the table's first firing row stands.
LEMMA FirstRowLemma ==
  ASSUME NEW s \in ContextSnapshot
  PROVE  LET source == PriorityTable[DecidingRow(s)]
             mode == RowMode(source, s)
         IN Evaluate(s) = IF mode = None
                          THEN Keep(s.current_mode, source)
                          ELSE Select(s.current_mode, mode, source)
<1> DEFINE Fires(k) == RowFires(PriorityTable[k], s)
           Expected(source) ==
             IF RowMode(source, s) = None
             THEN Keep(s.current_mode, source)
             ELSE Select(s.current_mode, RowMode(source, s), source)
<1>1. ASSUME NEW i \in 1..11, Fires(i), \A j \in 1..(i - 1) : ~Fires(j),
             Evaluate(s) = Expected(PriorityTable[i])
      PROVE  Evaluate(s) = Expected(PriorityTable[DecidingRow(s)])
  <2>1. DecidingRow(s) = i
    BY <1>1, DecidingRowIs
  <2>2. QED BY <1>1, <2>1
<1>2. CASE Fires(1)
  <2>1. Evaluate(s) = Expected("CompositionProtection")
    BY <1>2, Rows DEF Evaluate
  <2>2. QED BY <1>1, <1>2, <2>1, Rows
<1>3. CASE Fires(2) /\ \A j \in 1..1 : ~Fires(j)
  <2>1. Evaluate(s) = Expected("ExplicitUserLock")
    BY <1>3, Rows DEF Evaluate
  <2>2. QED BY <1>1, <1>3, <2>1, Rows
<1>4. CASE Fires(3) /\ \A j \in 1..2 : ~Fires(j)
  <2>1. Evaluate(s) = Expected("ManualOverrideProtection")
    BY <1>4, Rows DEF Evaluate
  <2>2. QED BY <1>1, <1>4, <2>1, Rows
<1>5. CASE Fires(4) /\ \A j \in 1..3 : ~Fires(j)
  <2>1. Evaluate(s) = Expected("AutomationDisabled")
    BY <1>5, Rows DEF Evaluate
  <2>2. QED BY <1>1, <1>5, <2>1, Rows
<1>6. CASE Fires(5) /\ \A j \in 1..4 : ~Fires(j)
  <2>1. Evaluate(s) = Expected("ContextUnavailable")
    BY <1>6, Rows DEF Evaluate
  <2>2. QED BY <1>1, <1>6, <2>1, Rows
<1>7. CASE Fires(6) /\ \A j \in 1..5 : ~Fires(j)
  <2>1. Evaluate(s) = Expected("UserRule")
    BY <1>7, Rows DEF Evaluate, EvaluateRules
  <2>2. QED BY <1>1, <1>7, <2>1, Rows
<1>8. CASE Fires(7) /\ \A j \in 1..6 : ~Fires(j)
  <2>1. Evaluate(s) = Expected("ProjectRule")
    BY <1>8, Rows DEF Evaluate, EvaluateRules
  <2>2. QED BY <1>1, <1>8, <2>1, Rows
<1>9. CASE Fires(8) /\ \A j \in 1..7 : ~Fires(j)
  <2>1. Evaluate(s) = Expected("SyntaxContext")
    BY <1>9, Rows DEF Evaluate, EvaluateRules
  <2>2. QED BY <1>1, <1>9, <2>1, Rows
<1>10. CASE Fires(9) /\ \A j \in 1..8 : ~Fires(j)
  <2>1. Evaluate(s) = Expected("SurfaceContext")
    BY <1>10, Rows DEF Evaluate, EvaluateRules
  <2>2. QED BY <1>1, <1>10, <2>1, Rows
<1>11. CASE Fires(10) /\ \A j \in 1..9 : ~Fires(j)
  <2>1. Evaluate(s) = Expected("ApplicationDefault")
    BY <1>11, Rows DEF Evaluate, EvaluateRules
  <2>2. QED BY <1>1, <1>11, <2>1, Rows
<1>12. CASE Fires(11) /\ \A j \in 1..10 : ~Fires(j)
  <2>1. Evaluate(s) = Expected("FallbackKeep")
    BY <1>12, Rows DEF Evaluate, EvaluateRules
  <2>2. QED BY <1>1, <1>12, <2>1, Rows
<1>13. QED
  <2>1. Fires(11)
    BY Rows
  <2>2. QED
    BY <2>1, <1>2, <1>3, <1>4, <1>5, <1>6, <1>7, <1>8, <1>9, <1>10, <1>11, <1>12

\* Evaluate is the documented table.
THEOREM FirstRowCorrect == DecisionSpec => []FirstRowDecides
<1>1. DecisionTypeOK => FirstRowDecides
  BY FirstRowLemma DEF DecisionTypeOK, FirstRowDecides
<1>2. QED BY <1>1, DecisionTypeCorrect, PTL

-----------------------------------------------------------------------------
(***************************************************************************)
(* The cache: one writer and its readers.                                  *)
(***************************************************************************)

-----------------------------------------------------------------------------
(***************************************************************************)
(* Type correctness.                                                       *)
(***************************************************************************)

\* Giving up an attempt, and returning a decision, keep the readers' types.
LEMMA ReturnType ==
  ASSUME TypeOK, NEW r \in Readers, NEW d \in Decision, Return(r, d)
  PROVE  /\ rpc' \in [Readers -> ReaderStep]
         /\ state' \in [Readers -> ReadState \cup {NotAsked}]
         /\ attempt' \in [Readers -> 0..(MaximumReadAttempts - 1)]
         /\ load' \in [Readers -> Load]
         /\ returned' \in [Readers -> Decision]
<1>1. NoLoad \in Load /\ 0 \in 0..(MaximumReadAttempts - 1)
  BY EntryOfType, TimeAssumption, CacheAssumption
  DEF NoLoad, Load, NoWord, Word, DesiredMode, DecisionSource, TransientSource
<1>2. QED BY <1>1 DEF Return, TypeOK, ReaderStep

LEMMA NextAttemptType ==
  ASSUME TypeOK, NEW r \in Readers, state[r] \in ReadState, NextAttempt(r)
  PROVE  /\ rpc' \in [Readers -> ReaderStep]
         /\ state' \in [Readers -> ReadState \cup {NotAsked}]
         /\ attempt' \in [Readers -> 0..(MaximumReadAttempts - 1)]
         /\ load' \in [Readers -> Load]
         /\ returned' \in [Readers -> Decision]
<1>1. CASE attempt[r] + 1 >= MaximumReadAttempts
  <2>1. Safety(r) \in Decision
    BY SafetyType DEF Safety
  <2>2. Return(r, Safety(r))
    BY <1>1, CacheAssumption DEF NextAttempt, TypeOK
  <2>3. QED BY <2>1, <2>2, ReturnType
<1>2. CASE attempt[r] + 1 < MaximumReadAttempts
  <2>1. NoLoad \in Load
    BY TimeAssumption
    DEF NoLoad, Load, NoWord, Word, DesiredMode, DecisionSource, TransientSource
  <2>2. attempt[r] + 1 \in 0..(MaximumReadAttempts - 1)
    BY <1>2, CacheAssumption DEF TypeOK
  <2>3. QED
    BY <1>2, <2>1, <2>2, CacheAssumption DEF NextAttempt, TypeOK, ReaderStep
<1>3. QED BY <1>1, <1>2, CacheAssumption DEF TypeOK

\* A reader inside Read has a read state: the second half of ReaderInv's first
\* conjunct, kept apart because the types of the returned decisions need it.
Asking == \A r \in Readers : rpc[r] = "idle" <=> state[r] = NotAsked

LEMMA TypeStep ==
  ASSUME TypeOK, Asking, [Next]_vars
  PROVE  TypeOK' /\ Asking'
<1> USE DEF Asking
<1>1. ASSUME NEW r \in Readers, rpc[r] # "idle"
      PROVE  state[r] \in ReadState
  BY <1>1 DEF TypeOK
<1>2. ASSUME NEW entry \in Entry, BeginStore(entry)
      PROVE  TypeOK' /\ Asking'
  BY <1>2 DEF BeginStore, TypeOK, WriterStep, reader
<1>3. ASSUME NEW d \in Decisions, NEW e \in Deadlines, Publish(d, e)
      PROVE  TypeOK' /\ Asking'
  <2>1. EntryOf(d, e) \in Entry
    BY EntryOfType, CacheAssumption
  <2>2. QED BY <1>3, <2>1, <1>2 DEF Publish
<1>4. CASE Invalidate
  <2>1. NoEntry \in Entry
    BY TimeAssumption
    DEF NoEntry, Entry, NoWord, Word, DesiredMode, DecisionSource,
        TransientSource
  <2>2. QED BY <1>4, <2>1, <1>2 DEF Invalidate
<1>5. CASE StoreWord
  BY <1>5 DEF StoreWord, TypeOK, WriterStep, reader, Entry
<1>6. CASE StoreExpiry
  BY <1>6 DEF StoreExpiry, TypeOK, WriterStep, reader, Entry
<1>7. CASE FinishStore
  BY <1>7 DEF FinishStore, TypeOK, WriterStep, reader
<1>8. ASSUME NEW r \in Readers, NEW s \in ReadStates, CallRead(r, s)
      PROVE  TypeOK' /\ Asking'
  <2>1. s \in ReadState /\ s # NotAsked
    BY CacheAssumption
  <2>2. QED
    BY <1>8, <2>1 DEF CallRead, TypeOK, ReaderStep, shared, writer
<1>9. ASSUME NEW r \in Readers, EvaluateSafety(r)
      PROVE  TypeOK' /\ Asking'
  <2>1. state[r] \in ReadState /\ rpc[r] = "safety"
    BY <1>9, <1>1 DEF EvaluateSafety
  <2>2. CASE Safety(r).source # "ContextUnavailable"
    <3>1. Return(r, Safety(r)) /\ UNCHANGED <<shared, writer>>
      BY <1>9, <2>2 DEF EvaluateSafety
    <3>2. Safety(r) \in Decision
      BY <2>1, SafetyType DEF Safety
    <3>3. TypeOK'
      BY <3>1, <3>2, ReturnType DEF TypeOK, shared, writer
    <3>4. Asking'
      BY <3>1 DEF Return, TypeOK
    <3>5. QED BY <3>3, <3>4
  <2>3. CASE Safety(r).source = "ContextUnavailable"
    BY <1>9, <2>3, <2>1, CacheAssumption
    DEF EvaluateSafety, TypeOK, ReaderStep, shared, writer
  <2>4. QED BY <2>2, <2>3
<1>10. ASSUME NEW r \in Readers, NextAttempt(r), rpc[r] # "idle",
              UNCHANGED <<shared, writer>>
       PROVE  TypeOK' /\ Asking'
  <2>1. TypeOK'
    BY <1>10, <1>1, NextAttemptType DEF TypeOK, shared, writer
  <2>2. Asking'
    BY <1>10, <1>1, CacheAssumption DEF NextAttempt, Return, TypeOK
  <2>3. QED BY <2>1, <2>2
<1>11. ASSUME NEW r \in Readers, LoadBefore(r)
       PROVE  TypeOK' /\ Asking'
  <2>1. CASE sequence % 2 = 0
    BY <1>11, <2>1 DEF LoadBefore, TypeOK, ReaderStep, Load, shared, writer
  <2>2. CASE sequence % 2 # 0
    BY <1>11, <2>2, <1>10 DEF LoadBefore
  <2>3. QED BY <2>1, <2>2
<1>12. ASSUME NEW r \in Readers, LoadWord(r)
       PROVE  TypeOK' /\ Asking'
  BY <1>12 DEF LoadWord, TypeOK, ReaderStep, Load, shared, writer
<1>13. ASSUME NEW r \in Readers, LoadExpiry(r)
       PROVE  TypeOK' /\ Asking'
  BY <1>13 DEF LoadExpiry, TypeOK, ReaderStep, Load, shared, writer
<1>14. ASSUME NEW r \in Readers, LoadAfter(r)
       PROVE  TypeOK' /\ Asking'
  <2>1. CASE load[r].before = sequence
    <3>1. /\ Return(r, Answer(Loaded(r), state[r]))
          /\ UNCHANGED <<shared, writer>>
      BY <1>14, <2>1 DEF LoadAfter
    <3>2. state[r] \in ReadState
      BY <1>14, <1>1 DEF LoadAfter
    <3>3. Loaded(r) \in Entry
      BY DEF TypeOK, Load, Entry, Loaded
    <3>4. Answer(Loaded(r), state[r]) \in Decision
      BY <3>2, <3>3, AnswerType
    <3>5. TypeOK'
      BY <3>1, <3>4, ReturnType DEF TypeOK, shared, writer
    <3>6. Asking'
      BY <3>1 DEF Return, TypeOK
    <3>7. QED BY <3>5, <3>6
  <2>2. CASE load[r].before # sequence
    BY <1>14, <2>2, <1>10 DEF LoadAfter
  <2>3. QED BY <2>1, <2>2
<1>15. CASE UNCHANGED vars
  BY <1>15 DEF vars, shared, writer, reader, TypeOK
<1>16. QED
  BY <1>3, <1>4, <1>5, <1>6, <1>7, <1>8, <1>9, <1>11, <1>12, <1>13, <1>14,
     <1>15
  DEF Next, WriterNext, ReaderNext, ReaderStepOf
\* Every variable of the cache has its type in every reachable state.
THEOREM TypeCorrect == Spec => []TypeOK
<1>1. Init => TypeOK /\ Asking
  <2>1. /\ NoWord \in Word
        /\ NoEntry \in Entry
        /\ Keep("Chinese", "ContextUnavailable") \in Decision
        /\ NoLoad \in Load
        /\ 0 \in 0..(MaximumReadAttempts - 1)
    BY TimeAssumption, CacheAssumption
    DEF NoWord, Word, NoEntry, Entry, Keep, Decision, NoLoad, Load,
        DesiredMode, InputMode, DecisionSource, TransientSource
  <2>2. QED
    BY <2>1, TimeAssumption
    DEF Init, TypeOK, Asking, WriterStep, ReaderStep
<1>2. TypeOK /\ Asking /\ [Next]_vars => TypeOK' /\ Asking'
  BY TypeStep
<1>3. QED BY <1>1, <1>2, PTL DEF Spec

-----------------------------------------------------------------------------
(***************************************************************************)
(* No torn read.                                                           *)
(***************************************************************************)

\* A step of the writer keeps its own half of the invariant.
LEMMA WriterInvStep ==
  ASSUME TypeOK, CacheInv, [Next]_vars
  PROVE  WriterInv'
<1> USE DEF WriterInv, CacheInv
<1>1. ASSUME NEW entry, BeginStore(entry)
      PROVE  WriterInv'
  BY <1>1 DEF BeginStore, TypeOK
<1>2. CASE StoreWord
  BY <1>2 DEF StoreWord, TypeOK
<1>3. CASE StoreExpiry
  BY <1>3 DEF StoreExpiry, TypeOK
<1>4. CASE FinishStore
  BY <1>4 DEF FinishStore, TypeOK
<1>5. ASSUME UNCHANGED <<shared, writer>>
      PROVE  WriterInv'
  BY <1>5 DEF shared, writer
<1>6. ASSUME NEW r \in Readers, ReaderNext(r)
      PROVE  UNCHANGED <<shared, writer>>
  BY <1>6
  DEF ReaderNext, ReaderStepOf, CallRead, EvaluateSafety, LoadBefore, LoadWord,
      LoadExpiry, LoadAfter
<1>7. QED
  BY <1>1, <1>2, <1>3, <1>4, <1>5, <1>6
  DEF Next, WriterNext, Publish, Invalidate, vars, reader

\* A step of the writer keeps the readers' half: once a store has begun no
\* reader's sequence number stands, and none stands again.
LEMMA WriterKeepsReaderInv ==
  ASSUME TypeOK, CacheInv, WriterNext, NEW r \in Readers
  PROVE  ReaderInv(r)'
<1> USE DEF ReaderInv, Safety
<1>1. ReaderInv(r) /\ WriterInv
  BY DEF CacheInv
<1>2. ASSUME NEW entry, BeginStore(entry)
      PROVE  ReaderInv(r)'
  BY <1>1, <1>2 DEF BeginStore, TypeOK, Load, reader
<1>3. CASE StoreWord
  BY <1>1, <1>3 DEF StoreWord, TypeOK, Load, reader, WriterInv
<1>4. CASE StoreExpiry
  BY <1>1, <1>4 DEF StoreExpiry, TypeOK, Load, reader, WriterInv
<1>5. CASE FinishStore
  BY <1>1, <1>5 DEF FinishStore, TypeOK, Load, reader, WriterInv
<1>6. QED
  BY <1>2, <1>3, <1>4, <1>5 DEF WriterNext, Publish, Invalidate

\* A step of a reader keeps its own half and does not touch another's.
LEMMA ReaderKeepsReaderInv ==
  ASSUME TypeOK, CacheInv, NEW q \in Readers, ReaderNext(q), NEW r \in Readers
  PROVE  ReaderInv(r)'
<1> USE DEF ReaderInv, Safety
<1>1. ReaderInv(r) /\ ReaderInv(q) /\ WriterInv
  BY DEF CacheInv
<1>2. ASSUME NEW d, Return(q, d), UNCHANGED <<shared, writer>>
      PROVE  ReaderInv(r)'
  BY <1>1, <1>2, CacheAssumption DEF Return, TypeOK, Load, NoLoad, shared
<1>3. ASSUME NextAttempt(q), UNCHANGED <<shared, writer>>,
             rpc[q] \in {"before", "after"}
      PROVE  ReaderInv(r)'
  BY <1>1, <1>2, <1>3, CacheAssumption
  DEF NextAttempt, TypeOK, Load, NoLoad, shared
<1>4. ASSUME NEW s \in ReadStates, CallRead(q, s)
      PROVE  ReaderInv(r)'
  BY <1>1, <1>4, CacheAssumption DEF CallRead, TypeOK, Load, shared
<1>5. CASE EvaluateSafety(q)
  BY <1>1, <1>2, <1>5 DEF EvaluateSafety, TypeOK, Load, shared
<1>6. CASE LoadBefore(q)
  BY <1>1, <1>3, <1>6 DEF LoadBefore, TypeOK, Load, shared
<1>7. CASE LoadWord(q)
  BY <1>1, <1>7 DEF LoadWord, TypeOK, Load, shared
<1>8. CASE LoadExpiry(q)
  BY <1>1, <1>8 DEF LoadExpiry, TypeOK, Load, shared
<1>9. CASE LoadAfter(q)
  BY <1>2, <1>3, <1>9 DEF LoadAfter
<1>10. QED
  BY <1>4, <1>5, <1>6, <1>7, <1>8, <1>9 DEF ReaderNext, ReaderStepOf

\* The inductive invariant holds in every reachable state.
THEOREM InvCorrect == Spec => []CacheInv
<1>1. Init => CacheInv
  BY DEF Init, CacheInv, WriterInv, ReaderInv, NoLoad
<1>2. TypeOK /\ CacheInv /\ [Next]_vars => CacheInv'
  <2>1. SUFFICES ASSUME TypeOK, CacheInv, [Next]_vars
                 PROVE  CacheInv'
    OBVIOUS
  <2>2. WriterInv'
    BY <2>1, WriterInvStep
  <2>3. ASSUME NEW r \in Readers
        PROVE  ReaderInv(r)'
    <3>1. CASE WriterNext
      BY <2>1, <3>1, WriterKeepsReaderInv
    <3>2. ASSUME NEW q \in Readers, ReaderNext(q)
          PROVE  ReaderInv(r)'
      BY <2>1, <3>2, ReaderKeepsReaderInv
    <3>3. CASE UNCHANGED vars
      BY <2>1, <3>3
      DEF vars, shared, writer, reader, CacheInv, ReaderInv, Safety
    <3>4. QED BY <2>1, <3>1, <3>2, <3>3 DEF Next
  <2>4. QED BY <2>2, <2>3 DEF CacheInv
<1>3. QED BY <1>1, <1>2, TypeCorrect, PTL DEF Spec

\* No reader ever accepts a word of one store with the expiry of another, and
\* what it accepts is still in force when it accepts it.
THEOREM TornReadsRejected == Spec => []NoTornRead
<1>1. TypeOK /\ CacheInv => NoTornRead
  <2>1. SUFFICES ASSUME TypeOK, CacheInv, NEW r \in Readers,
                        rpc[r] = "after", load[r].before = sequence
                 PROVE  /\ wpc = "idle"
                        /\ Loaded(r) = [word |-> decision_word,
                                        expires |-> expires_at_ms]
    BY DEF NoTornRead
  <2>2. QED BY <2>1 DEF CacheInv, WriterInv, ReaderInv, Loaded
<1>2. QED BY <1>1, TypeCorrect, InvCorrect, PTL
-----------------------------------------------------------------------------
(***************************************************************************)
(* The cache implements the slot: one lemma for each kind of step.         *)
(***************************************************************************)

\* The first increment of a store replaces the slot's entry.
LEMMA BeginStoreRefines ==
  ASSUME TypeOK, CacheInv, NEW entry \in Entry, BeginStore(entry)
  PROVE  Slot!SlotNext
<1>1. InForce' = entry /\ UNCHANGED <<state, returned>>
  BY DEF BeginStore, InForce, reader
<1>2. Slot!Replace(entry)
  BY <1>1 DEF Slot!Replace
<1>3. QED BY <1>2 DEF Slot!SlotNext

\* The rest of a store changes nothing the slot shows.
LEMMA StoreStutters ==
  ASSUME TypeOK, CacheInv, StoreWord \/ StoreExpiry \/ FinishStore
  PROVE  UNCHANGED <<InForce, state, returned>>
<1>1. CASE StoreWord
  BY <1>1 DEF StoreWord, InForce, reader
<1>2. CASE StoreExpiry
  BY <1>2 DEF StoreExpiry, InForce, reader
<1>3. CASE FinishStore
  <2>1. wpc = "finish" /\ wpc' = "idle"
    BY <1>3 DEF FinishStore
  <2>2. sequence > 0
    BY <2>1 DEF CacheInv, WriterInv, TypeOK
  <2>3. storing = [word |-> decision_word, expires |-> expires_at_ms]
    BY <2>1, <2>2 DEF CacheInv, WriterInv, TypeOK, Entry
  <2>4. InForce' = InForce
    BY <1>3, <2>1, <2>3 DEF FinishStore, InForce
  <2>5. QED BY <1>3, <2>4 DEF FinishStore, reader
<1>4. QED BY <1>1, <1>2, <1>3

\* A read that gives up, or needs no entry, answers from its safety state.
LEMMA SafetyReturnRefines ==
  ASSUME TypeOK, CacheInv, NEW r \in Readers, rpc[r] # "idle",
         Return(r, Safety(r)), UNCHANGED <<shared, writer>>
  PROVE  Slot!SlotNext
<1>1. state[r] # NotAsked
  BY DEF CacheInv, ReaderInv
<1>2. Slot!AnswerFromSafety(r)
  BY <1>1
  DEF Slot!AnswerFromSafety, Slot!Reply, Return, Safety, InForce, shared, writer
<1>3. QED BY <1>2 DEF Slot!SlotNext

LEMMA NextAttemptRefines ==
  ASSUME TypeOK, CacheInv, NEW r \in Readers, rpc[r] # "idle",
         NextAttempt(r), UNCHANGED <<shared, writer>>
  PROVE  Slot!SlotNext \/ UNCHANGED <<InForce, state, returned>>
<1>1. CASE Return(r, Safety(r))
  BY <1>1, SafetyReturnRefines
<1>2. CASE UNCHANGED <<state, returned>>
  BY <1>2 DEF InForce, shared, writer
<1>3. QED BY <1>1, <1>2 DEF NextAttempt

\* A read whose sequence number still stands answers from the entry in force.
LEMMA AcceptRefines ==
  ASSUME TypeOK, CacheInv, NEW r \in Readers, rpc[r] = "after",
         load[r].before = sequence, Return(r, Answer(Loaded(r), state[r])),
         UNCHANGED <<shared, writer>>
  PROVE  Slot!SlotNext
<1>1. Loaded(r) = InForce
  BY DEF CacheInv, ReaderInv, WriterInv, Loaded, InForce
<1>2. state[r] # NotAsked
  BY DEF CacheInv, ReaderInv
<1>3. Slot!AnswerFromSlot(r)
  BY <1>1, <1>2
  DEF Slot!AnswerFromSlot, Slot!Reply, Return, InForce, shared, writer
<1>4. QED BY <1>3 DEF Slot!SlotNext

\* Every step of a reader is a step of the slot or shows nothing.
LEMMA ReaderRefines ==
  ASSUME TypeOK, CacheInv, NEW r \in Readers, ReaderNext(r)
  PROVE  Slot!SlotNext \/ UNCHANGED <<InForce, state, returned>>
<1>1. ASSUME NEW s \in ReadStates, CallRead(r, s)
      PROVE  Slot!SlotNext
  <2>1. state[r] = NotAsked
    BY <1>1 DEF CallRead, CacheInv, ReaderInv
  <2>2. Slot!Ask(r, s)
    BY <1>1, <2>1 DEF CallRead, Slot!Ask, InForce, shared, writer
  <2>3. QED BY <2>2, CacheAssumption DEF Slot!SlotNext
<1>2. CASE EvaluateSafety(r)
  <2>1. CASE Return(r, Safety(r))
    BY <1>2, <2>1, SafetyReturnRefines DEF EvaluateSafety
  <2>2. CASE UNCHANGED <<state, returned>>
    BY <1>2, <2>2 DEF EvaluateSafety, InForce, shared, writer
  <2>3. QED BY <1>2, <2>1, <2>2 DEF EvaluateSafety
<1>3. CASE LoadBefore(r)
  <2>1. CASE NextAttempt(r)
    BY <1>3, <2>1, NextAttemptRefines DEF LoadBefore
  <2>2. CASE UNCHANGED <<state, returned>>
    BY <1>3, <2>2 DEF LoadBefore, InForce, shared, writer
  <2>3. QED BY <1>3, <2>1, <2>2 DEF LoadBefore
<1>4. CASE LoadWord(r) \/ LoadExpiry(r)
  BY <1>4 DEF LoadWord, LoadExpiry, InForce, shared, writer
<1>5. CASE LoadAfter(r)
  <2>1. CASE NextAttempt(r)
    BY <1>5, <2>1, NextAttemptRefines DEF LoadAfter
  <2>2. CASE load[r].before = sequence
    BY <1>5, <2>2, AcceptRefines DEF LoadAfter
  <2>3. QED BY <1>5, <2>1, <2>2 DEF LoadAfter
<1>6. QED
  BY <1>1, <1>2, <1>3, <1>4, <1>5 DEF ReaderNext, ReaderStepOf

\* Whatever the interleaving, the cache behaves like one entry that is replaced
\* as a whole.
THEOREM CacheImplementsSlot == Spec => ImplementsSlot
<1>1. Init => Slot!SlotInit
  <2>1. Keep("Chinese", "ContextUnavailable") \in Decision
    BY DEF Keep, Decision, DesiredMode, InputMode, DecisionSource,
           TransientSource
  <2>2. QED BY <2>1 DEF Init, Slot!SlotInit, InForce, NoEntry
<1>2. TypeOK /\ CacheInv /\ [Next]_vars => [Slot!SlotNext]_(Slot!slotVars)
  <2>1. SUFFICES ASSUME TypeOK, CacheInv, [Next]_vars
                 PROVE  \/ Slot!SlotNext
                        \/ UNCHANGED <<InForce, state, returned>>
    BY DEF Slot!slotVars
  <2>2. ASSUME NEW d \in Decisions, NEW e \in Deadlines, Publish(d, e)
        PROVE  Slot!SlotNext
    BY <2>1, <2>2, BeginStoreRefines, EntryOfType, CacheAssumption DEF Publish
  <2>3. CASE Invalidate
    <3>1. NoEntry \in Entry
      BY TimeAssumption
      DEF NoEntry, Entry, NoWord, Word, DesiredMode, DecisionSource,
          TransientSource
    <3>2. QED BY <2>1, <2>3, <3>1, BeginStoreRefines DEF Invalidate
  <2>4. CASE StoreWord \/ StoreExpiry \/ FinishStore
    BY <2>1, <2>4, StoreStutters
  <2>5. CASE UNCHANGED vars
    BY <2>5 DEF vars, shared, writer, reader, InForce
  <2>6. QED
    BY <2>1, <2>2, <2>3, <2>4, <2>5, ReaderRefines DEF Next, WriterNext
<1>3. QED
  BY <1>1, <1>2, TypeCorrect, InvCorrect, PTL
  DEF Spec, ImplementsSlot, Slot!SlotSpec
=============================================================================
