-------------------------- MODULE ContextBridgeProofs --------------------------
(***************************************************************************)
(* Proofs about the bridge, for any instants and any durations.            *)
(***************************************************************************)
EXTENDS ContextBridge, TLAPS

\* Evaluate returns a decision whatever the snapshot.
LEMMA EvaluateType ==
  ASSUME NEW s \in ContextSnapshot
  PROVE  Evaluate(s) \in Decision
BY DEF Evaluate, EvaluateRules, Keep, Select, Decision, DesiredMode, DecisionSource,
       TransientSource, RuleSource, ContextSnapshot, OptionalMode, InputMode, None

\* The local safety rules return a decision whatever the reader's state.
LEMMA SafetyType ==
  ASSUME NEW s \in ReadState
  PROVE  EvaluateDecisionCacheSafety(s) \in Decision
<1>1. SafetySnapshot(s) \in ContextSnapshot
  BY TimeAssumption
  DEF SafetySnapshot, ReadState, ContextSnapshot, DefaultSnapshot,
      OptionalMode, InputMode, None
<1>2. QED BY <1>1, EvaluateType DEF EvaluateDecisionCacheSafety

\* A read returns a decision whatever entry it has put together.
LEMMA AnswerType ==
  ASSUME NEW entry \in Entry, NEW s \in ReadState
  PROVE  Answer(entry, s) \in Decision
BY SafetyType DEF Answer, Rebase, Entry, Word, ReadState, Keep, Select, Decision,
                  DesiredMode

\* A store puts a well-formed entry into the cache whatever it is handed.
LEMMA EntryOfType ==
  ASSUME NEW d \in Decision, NEW e \in Time
  PROVE  EntryOf(d, e) \in Entry /\ NoEntry \in Entry
BY TimeAssumption
DEF EntryOf, Entry, NoEntry, NoWord, Word, Pack, Decision, DesiredMode,
    DecisionSource, TransientSource

LEMMA DeadlineType ==
  ASSUME NEW t \in Time, NEW duration \in 1..Largest
  PROVE  /\ SaturatingDeadline(t, duration) \in Time
         /\ t <= SaturatingDeadline(t, duration)
         /\ \A u \in Time :
              t <= u => SaturatingDeadline(t, duration)
                          <= SaturatingDeadline(u, duration)
BY BridgeAssumption DEF SaturatingDeadline

\* Under a composition or a manual override nothing is to be switched.
LEMMA ProtectedMeansNone ==
  ASSUME TypeOK, busy \/ now < origin.override
  PROVE  Target = None
<1>1. EvaluateDecisionCacheSafety(LiveState).source
        \in {"CompositionProtection", "ManualOverrideProtection"}
  BY DEF EvaluateDecisionCacheSafety, SafetySnapshot, LiveState, ReadStateOf,
         DefaultSnapshot, Evaluate, Keep, TypeOK, None
<1>2. EvaluateDecisionCacheSafety(LiveState).should_switch = FALSE
  BY DEF EvaluateDecisionCacheSafety, SafetySnapshot, LiveState, ReadStateOf,
         DefaultSnapshot, Evaluate, Keep, TypeOK, None
<1>3. Answer(slot, LiveState) = EvaluateDecisionCacheSafety(LiveState)
  BY <1>1 DEF Answer
<1>4. QED BY <1>2, <1>3 DEF Target, ApplyDecision

LEMMA TargetType ==
  ASSUME TypeOK
  PROVE  Target \in OptionalMode
<1>1. LiveState \in ReadState
  BY TimeAssumption
  DEF LiveState, ReadStateOf, DefaultSnapshot, ReadState, TypeOK, Origin,
      OptionalMode, None
<1>2. Answer(slot, LiveState) \in Decision
  BY <1>1, AnswerType DEF TypeOK
<1>3. QED BY <1>2 DEF Target, ApplyDecision, Decision, OptionalMode

\* Observing a mode: it is the observed one afterwards, and the override moves
\* only for a change that is not an automatic one.
LEMMA ObserveFacts ==
  ASSUME NEW o \in Origin, NEW m \in InputMode, NEW automatic \in BOOLEAN,
         now \in Time
  PROVE  /\ Observe(o, m, automatic) \in Origin
         /\ Observe(o, m, automatic).observed = m
         /\ Observe(o, m, automatic).pending \in {o.pending, NoPending}
         /\ \/ Observe(o, m, automatic).override = o.override
            \/ /\ o.observed \notin {None, m}
               /\ ~automatic
               /\ Observe(o, m, automatic).override
                    = SaturatingDeadline(now, ManualOverrideDurationMs)
         /\ (/\ o.observed \notin {None, m} /\ ~automatic
             /\ o.pending = NoPending) =>
              Observe(o, m, automatic).override
                = SaturatingDeadline(now, ManualOverrideDurationMs)
<1>1. SaturatingDeadline(now, ManualOverrideDurationMs) \in Time
  BY BridgeAssumption, DeadlineType
<1>2. m \in OptionalMode /\ m # None
  BY DEF OptionalMode, InputMode, None
<1>3. QED BY <1>1, <1>2 DEF Observe, MarkManualOverride, PendingSays, Origin

\* An automatic switch: it never moves the override, and unless the exchange
\* fails everybody agrees on the target.
LEMMA SwitchFacts ==
  ASSUME TypeOK, AutomaticSwitch
  PROVE  /\ ~busy /\ origin.override <= now
         /\ mode' \in InputMode /\ server' \in InputMode
         /\ author' \in {author, "automatic"}
         /\ lost' \in BOOLEAN /\ (lost => lost')
         /\ origin' \in Origin
         /\ origin'.override = origin.override
         /\ \/ origin'.observed = mode'
            \/ origin'.observed = origin.observed /\ mode' = mode
         /\ ~lost' => server' = mode' /\ origin'.pending = NoPending
<1>1. Target \in InputMode
  BY TargetType DEF AutomaticSwitch, OptionalMode
<1>2. ~busy /\ origin.override <= now
  <2>1. origin.override \in Nat /\ now \in Nat
    BY TimeAssumption DEF TypeOK, Origin
  <2>2. QED BY <2>1, ProtectedMeansNone DEF AutomaticSwitch
<1> DEFINE pending ==
             [mode |-> Target,
              until |-> SaturatingDeadline(now, AutomaticOriginDurationMs)]
           marked == [origin EXCEPT !.pending = pending]
<1>3. marked \in Origin /\ marked.override = origin.override
        /\ marked.observed = origin.observed
  <2>1. pending \in Pending
    BY <1>1, DeadlineType, BridgeAssumption DEF Pending, TypeOK
  <2>2. QED BY <2>1 DEF Origin, TypeOK
<1>4. PICK x \in Exchanges :
        /\ server' = IF x.delivered THEN Target ELSE server
        /\ lost' = (lost \/ ~x.delivered \/ ~x.answered)
        /\ author' = IF server' # server THEN "automatic" ELSE author
        /\ \/ /\ x.answered
              /\ mode' = server'
              /\ LET seen == Observe(marked, server', TRUE)
                 IN origin' = IF server' = Target
                              THEN [seen EXCEPT !.pending = NoPending]
                              ELSE seen
           \/ /\ ~x.answered
              /\ origin' = marked
              /\ UNCHANGED mode
  BY Zenon DEF AutomaticSwitch, ApplyContextMode
<1>5. server' \in InputMode
  BY <1>1, <1>4 DEF TypeOK
<1>6. lost' \in BOOLEAN /\ (lost => lost')
  BY <1>4, Zenon
<1>7. author' \in {author, "automatic"}
  BY <1>4
<1>8. CASE ~x.answered
  BY <1>2, <1>3, <1>4, <1>5, <1>6, <1>7, <1>8 DEF TypeOK, Exchanges
<1>9. CASE x.answered
  <2>1. mode' = server'
    BY <1>4, <1>9
  <2>2. /\ Observe(marked, server', TRUE) \in Origin
        /\ Observe(marked, server', TRUE).observed = server'
        /\ Observe(marked, server', TRUE).override = marked.override
    <3>1. now \in Time
      BY DEF TypeOK
    <3> HIDE DEF marked
    <3>2. QED BY <1>3, <1>5, <3>1, ObserveFacts
  <2>3. CASE server' = Target
    <3>1. origin' = [Observe(marked, server', TRUE) EXCEPT !.pending = NoPending]
      BY <1>4, <1>9, <2>3
    <3>2. QED
      BY <1>2, <1>3, <1>5, <1>6, <1>7, <2>1, <2>2, <3>1 DEF Origin
  <2>4. CASE server' # Target
    <3>1. origin' = Observe(marked, server', TRUE)
      BY <1>4, <1>9, <2>4
    <3>2. lost'
      BY <1>4, <2>4
    <3>3. QED
      BY <1>2, <1>3, <1>5, <1>6, <1>7, <2>1, <2>2, <3>1, <3>2
  <2>5. QED BY <2>3, <2>4
<1>10. QED BY <1>8, <1>9

-----------------------------------------------------------------------------
LEMMA TypeStep == TypeOK /\ [Next]_vars => TypeOK'
<1> SUFFICES ASSUME TypeOK, [Next]_vars
             PROVE  TypeOK'
  OBVIOUS
<1> USE DEF TypeOK, userVars, worldVars, workerVars, vars
<1>a. NoEntry \in Entry
  BY TimeAssumption
  DEF NoEntry, Entry, NoWord, Word, DesiredMode, DecisionSource, TransientSource
<1>b. SaturatingDeadline(now, ManualOverrideDurationMs) \in Time
  BY BridgeAssumption, DeadlineType
<1>c. MarkManualOverride(origin) \in Origin
  BY <1>b DEF MarkManualOverride, Origin
<1>d. ASSUME NEW m \in InputMode PROVE Observe(origin, m, FALSE) \in Origin
  BY ObserveFacts
<1>1. CASE InitContextBridge
  BY <1>1, <1>a, <1>d DEF InitContextBridge, NewGeneration, Response
<1>2. CASE UninitContextBridge
  BY <1>2, <1>a DEF UninitContextBridge, NewGeneration, Origin
<1>3. CASE SetFocus \/ KillFocus
  BY <1>3, <1>a DEF SetFocus, KillFocus, NewGeneration
<1>4. CASE WorkerPublishes
  <2>1. Served \in Decision
    BY <1>4
    DEF WorkerPublishes, Served, Keep, Select, Decision, DesiredMode,
        DecisionSource, RuleSource, OptionalMode
  <2>2. SaturatingDeadline(now, DecisionTtl) \in Time
    BY BridgeAssumption, DeadlineType
  <2>3. slot' \in Entry
    BY <1>4, <2>1, <2>2, EntryOfType DEF WorkerPublishes
  <2>4. QED BY <1>4, <2>3 DEF WorkerPublishes
<1>5. CASE WorkerFails
  BY <1>5, <1>a DEF WorkerFails
<1>6. CASE AutomaticSwitch
  BY <1>6, SwitchFacts DEF AutomaticSwitch
<1>7. CASE ReadyIgnored
  BY <1>7 DEF ReadyIgnored
<1>8. CASE UserKey
  <2>1. PICK m \in InputMode : UserChanges(m) /\ Response(origin, m, FALSE)
    BY <1>8 DEF UserKey
  <2>2. user_until' \in Time
    BY <1>8, <1>b DEF UserKey, Protected
  <2>3. QED BY <1>8, <1>d, <2>1, <2>2 DEF UserKey, UserChanges, Response
<1>9. CASE UserLangBar
  <2>1. user_until' \in Time /\ bar_until' \in Time
    BY <1>9, <1>b DEF UserLangBar, Protected
  <2>2. QED BY <1>9, <1>c, <2>1 DEF UserLangBar, UserChanges
<1>10. CASE Refresh
  BY <1>10, <1>d DEF Refresh, Response
<1>11. CASE Compose
  BY <1>11 DEF Compose
<1>12. CASE ContextChanges
  BY <1>12 DEF ContextChanges
<1>13. CASE Tick
  BY <1>13, BridgeAssumption DEF Tick
<1>14. CASE UNCHANGED vars
  BY <1>14
<1>15. QED
  BY <1>1, <1>2, <1>3, <1>4, <1>5, <1>6, <1>7, <1>8, <1>9, <1>10, <1>11,
     <1>12, <1>13, <1>14 DEF Next

\* Every variable keeps its type, for all values of the constants.
THEOREM TypeCorrect == Spec => []TypeOK
<1>1. ASSUME Init PROVE TypeOK
  <2>1. NoEntry \in Entry
    BY TimeAssumption
    DEF NoEntry, Entry, NoWord, Word, DesiredMode, DecisionSource,
        TransientSource
  <2>2. QED
    BY <1>1, <2>1, TimeAssumption
    DEF Init, TypeOK, Origin, OptionalMode, InputMode
<1>2. QED BY <1>1, TypeStep, PTL DEF Spec

-----------------------------------------------------------------------------
(***************************************************************************)
(* The inductive invariant.                                                *)
(***************************************************************************)
LEMMA ObservedStep ==
  ASSUME TypeOK, ObservedInv, [Next]_vars
  PROVE  ObservedInv'
<1> USE DEF ObservedInv, userVars, worldVars, workerVars, vars
<1>a. ASSUME NEW m \in InputMode, Response(origin, m, FALSE) PROVE ObservedInv'
  <2>1. origin'.observed = m /\ mode' = m /\ m # None
    BY <1>a, ObserveFacts DEF Response, TypeOK, InputMode, None
  <2>2. QED BY <2>1
<1>1. CASE InitContextBridge \/ Refresh
  BY <1>1, <1>a DEF InitContextBridge, Refresh, TypeOK
<1>2. CASE UserKey
  BY <1>2, <1>a DEF UserKey
<1>3. CASE AutomaticSwitch
  <2>1. window => origin'.observed # None
    BY <1>3, SwitchFacts DEF InputMode, None
  <2>2. QED BY <1>3, <2>1, SwitchFacts DEF AutomaticSwitch
<1>4. CASE UninitContextBridge \/ UserLangBar
  BY <1>4 DEF UninitContextBridge, UserLangBar, MarkManualOverride, TypeOK, Origin
<1>5. CASE \/ SetFocus \/ KillFocus \/ WorkerPublishes \/ WorkerFails
           \/ ReadyIgnored \/ Compose \/ ContextChanges \/ Tick \/ UNCHANGED vars
  BY <1>5
  DEF SetFocus, KillFocus, WorkerPublishes, WorkerFails, ReadyIgnored, Compose,
      ContextChanges, Tick
<1>6. QED BY <1>1, <1>2, <1>3, <1>4, <1>5 DEF Next

LEMMA PendingStep ==
  ASSUME TypeOK, PendingInv, [Next]_vars
  PROVE  PendingInv'
<1> USE DEF PendingInv, userVars, worldVars, workerVars, vars
<1>a. ASSUME NEW m \in InputMode, Response(origin, m, FALSE), UNCHANGED lost
      PROVE  PendingInv'
  BY <1>a, ObserveFacts DEF Response, TypeOK
<1>1. CASE InitContextBridge \/ Refresh
  BY <1>1, <1>a DEF InitContextBridge, Refresh, TypeOK
<1>2. CASE UserKey
  BY <1>2, <1>a DEF UserKey
<1>3. CASE AutomaticSwitch
  BY <1>3, SwitchFacts
<1>4. CASE UninitContextBridge \/ UserLangBar
  BY <1>4 DEF UninitContextBridge, UserLangBar, MarkManualOverride, TypeOK, Origin
<1>5. CASE \/ SetFocus \/ KillFocus \/ WorkerPublishes \/ WorkerFails
           \/ ReadyIgnored \/ Compose \/ ContextChanges \/ Tick \/ UNCHANGED vars
  BY <1>5
  DEF SetFocus, KillFocus, WorkerPublishes, WorkerFails, ReadyIgnored, Compose,
      ContextChanges, Tick
<1>6. QED BY <1>1, <1>2, <1>3, <1>4, <1>5 DEF Next

LEMMA AuthorStep ==
  ASSUME TypeOK, AuthorInv, [Next]_vars
  PROVE  AuthorInv'
<1> USE DEF AuthorInv, userVars, worldVars, workerVars, vars
<1>1. CASE InitContextBridge \/ Refresh
  BY <1>1 DEF InitContextBridge, Refresh, Response
<1>2. CASE UserKey \/ UserLangBar
  BY <1>2 DEF UserKey, UserLangBar, UserChanges
<1>3. CASE AutomaticSwitch
  BY <1>3, SwitchFacts
<1>4. CASE \/ UninitContextBridge \/ SetFocus \/ KillFocus \/ WorkerPublishes
           \/ WorkerFails \/ ReadyIgnored \/ Compose \/ ContextChanges \/ Tick
           \/ UNCHANGED vars
  BY <1>4
  DEF UninitContextBridge, SetFocus, KillFocus, WorkerPublishes, WorkerFails,
      ReadyIgnored, Compose, ContextChanges, Tick
<1>5. QED BY <1>1, <1>2, <1>3, <1>4 DEF Next

\* The override is the deadline of some mark, and a mark is made for whatever
\* protects the user.
LEMMA OverrideStep ==
  ASSUME TypeOK, OverrideInv, ObservedInv, PendingInv, [Next]_vars
  PROVE  OverrideInv'
<1> USE DEF OverrideInv, userVars, worldVars, workerVars, vars
<1> DEFINE Deadline == SaturatingDeadline(now, ManualOverrideDurationMs)
<1>a. /\ Deadline \in Nat /\ origin.override \in Nat
      /\ bar_until \in Nat /\ user_until \in Nat
  BY TimeAssumption, BridgeAssumption, DeadlineType DEF TypeOK, Origin
<1>b. ASSUME NEW m \in InputMode, Response(origin, m, FALSE), UNCHANGED now
      PROVE  origin'.override \in {origin.override, Deadline}
  BY <1>b, ObserveFacts DEF Response, TypeOK
<1>1. CASE InitContextBridge \/ Refresh
  <2>1. origin'.override \in {origin.override, Deadline}
    BY <1>1, <1>b DEF InitContextBridge, Refresh, TypeOK
  <2>2. UNCHANGED <<now, bar_until, user_until, lost>>
    BY <1>1 DEF InitContextBridge, Refresh
  <2>3. QED BY <1>a, <2>1, <2>2 DEF SaturatingDeadline
<1>2. CASE UserKey
  <2>1. PICK m \in InputMode : Response(origin, m, FALSE)
    BY <1>2 DEF UserKey
  <2>2. UNCHANGED <<now, bar_until, lost>>
    BY <1>2 DEF UserKey
  <2>3. origin'.override \in {origin.override, Deadline}
    BY <1>b, <2>1, <2>2
  <2>4. mode' = m /\ window
    BY <1>2, <2>1 DEF Response, UserKey
  <2>5. ASSUME mode' # mode, ~lost PROVE origin'.override = Deadline
    <3>1. origin.observed \notin {None, m} /\ origin.pending = NoPending
      BY <2>4, <2>5 DEF ObservedInv, PendingInv
    <3>2. origin \in Origin /\ now \in Time
      BY DEF TypeOK
    <3>3. origin' = Observe(origin, m, FALSE)
      BY <2>1 DEF Response
    <3>4. QED BY <3>1, <3>2, <3>3, ObserveFacts
  <2>6. user_until' = IF mode' # mode THEN Deadline ELSE user_until
    BY <1>2, <2>2 DEF UserKey, Protected
  <2>7. QED BY <1>a, <2>2, <2>3, <2>5, <2>6 DEF SaturatingDeadline
<1>3. CASE UserLangBar
  <2>1. /\ user_until' = Deadline /\ bar_until' = Deadline
        /\ origin'.override = Deadline
        /\ UNCHANGED <<now, lost>>
    BY <1>3 DEF UserLangBar, Protected, MarkManualOverride, TypeOK, Origin
  <2>2. QED BY <1>a, <2>1 DEF SaturatingDeadline
<1>4. CASE AutomaticSwitch
  <2>1. origin'.override = origin.override /\ (lost => lost')
    BY <1>4, SwitchFacts
  <2>2. UNCHANGED <<now, bar_until, user_until>>
    BY <1>4 DEF AutomaticSwitch
  <2>3. QED BY <2>1, <2>2 DEF SaturatingDeadline
<1>5. CASE Tick
  <2>1. now' \in Time /\ now <= now'
    BY <1>5, BridgeAssumption DEF Tick, TypeOK
  <2>2. Deadline <= SaturatingDeadline(now', ManualOverrideDurationMs)
    BY <2>1, DeadlineType, BridgeAssumption DEF TypeOK
  <2>3. SaturatingDeadline(now', ManualOverrideDurationMs) \in Nat
    BY <2>1, DeadlineType, BridgeAssumption, TimeAssumption
  <2>4. SaturatingDeadline(now, ManualOverrideDurationMs)'
          = SaturatingDeadline(now', ManualOverrideDurationMs)
    BY DEF SaturatingDeadline
  <2>5. QED BY <1>5, <1>a, <2>2, <2>3, <2>4 DEF Tick
<1>6. CASE \/ UninitContextBridge \/ SetFocus \/ KillFocus \/ WorkerPublishes
           \/ WorkerFails \/ ReadyIgnored \/ Compose \/ ContextChanges
           \/ UNCHANGED vars
  <2>1. /\ UNCHANGED <<now, bar_until, user_until, lost>>
        /\ origin'.override = origin.override
    BY <1>6
    DEF UninitContextBridge, SetFocus, KillFocus, WorkerPublishes, WorkerFails,
        ReadyIgnored, Compose, ContextChanges, TypeOK, Origin
  <2>2. QED BY <2>1 DEF SaturatingDeadline
<1>7. QED BY <1>1, <1>2, <1>3, <1>4, <1>5, <1>6 DEF Next

\* The inductive invariant holds, for all values of the constants.
THEOREM InvCorrect == Spec => []OriginInv
<1>1. ASSUME Init PROVE OriginInv
  <2>1. SaturatingDeadline(now, ManualOverrideDurationMs) \in Nat
    BY <1>1, DeadlineType, BridgeAssumption, TimeAssumption DEF Init
  <2>2. QED
    BY <1>1, <2>1
    DEF Init, OriginInv, OverrideInv, ObservedInv, PendingInv, AuthorInv
<1>2. TypeOK /\ OriginInv /\ [Next]_vars => OriginInv'
  BY OverrideStep, ObservedStep, PendingStep, AuthorStep DEF OriginInv
<1>3. QED BY <1>1, <1>2, TypeCorrect, PTL DEF Spec

-----------------------------------------------------------------------------
\* An automatic switch is never made while the user's last change by the
\* language bar is protected.
THEOREM LangBarKeeps == Spec => LangBarWins
<1>1. TypeOK /\ OriginInv /\ [Next]_vars => [AutomaticSwitch => now >= bar_until]_vars
  <2>1. SUFFICES ASSUME TypeOK, OriginInv, AutomaticSwitch
                 PROVE  now >= bar_until
    OBVIOUS
  <2>2. bar_until <= origin.override /\ origin.override <= now
    BY <2>1, SwitchFacts DEF OriginInv, OverrideInv
  <2>3. bar_until \in Nat /\ origin.override \in Nat /\ now \in Nat
    BY <2>1, TimeAssumption DEF TypeOK, Origin
  <2>4. QED BY <2>2, <2>3
<1>2. QED BY <1>1, TypeCorrect, InvCorrect, PTL DEF Spec, LangBarWins

\* ... nor, until a switch is lost, while a change by a key is.
THEOREM ManualKeeps == Spec => ManualWins
<1>1. TypeOK /\ OriginInv /\ [Next]_vars
        => [AutomaticSwitch => now >= user_until \/ lost]_vars
  <2>1. SUFFICES ASSUME TypeOK, OriginInv, AutomaticSwitch, ~lost
                 PROVE  now >= user_until
    OBVIOUS
  <2>2. user_until <= origin.override /\ origin.override <= now
    BY <2>1, SwitchFacts DEF OriginInv, OverrideInv
  <2>3. user_until \in Nat /\ origin.override \in Nat /\ now \in Nat
    BY <2>1, TimeAssumption DEF TypeOK, Origin
  <2>4. QED BY <2>2, <2>3
<1>2. QED BY <1>1, TypeCorrect, InvCorrect, PTL DEF Spec, ManualWins

\* The override is extended for changes of the user only, until a switch is
\* lost.
THEOREM OriginKeeps == Spec => OriginExact
<1>1. TypeOK /\ OriginInv /\ [Next]_vars
        => [origin'.override # origin.override => author' = "user" \/ lost]_vars
  <2>1. SUFFICES ASSUME TypeOK, OriginInv, [Next]_vars, ~lost,
                        origin'.override # origin.override
                 PROVE  author' = "user"
    OBVIOUS
  <2>2. CASE InitContextBridge
    <3>1. origin'.override = origin.override
      BY <2>1, <2>2, ObserveFacts DEF InitContextBridge, Response, TypeOK
    <3>2. QED BY <2>1, <3>1
  <2>3. CASE Refresh
    <3>1. window /\ origin.observed \notin {None, server}
      BY <2>1, <2>3, ObserveFacts DEF Refresh, Response, TypeOK
    <3>2. server # mode
      BY <2>1, <3>1 DEF OriginInv, ObservedInv
    <3>3. QED
      BY <2>1, <2>3, <3>2 DEF Refresh, OriginInv, AuthorInv, worldVars, userVars
  <2>4. CASE UserKey \/ UserLangBar
    BY <2>4 DEF UserKey, UserLangBar, UserChanges
  <2>5. CASE AutomaticSwitch
    BY <2>1, <2>5, SwitchFacts
  <2>6. CASE \/ UninitContextBridge \/ SetFocus \/ KillFocus \/ WorkerPublishes
             \/ WorkerFails \/ ReadyIgnored \/ Compose \/ ContextChanges \/ Tick
             \/ UNCHANGED vars
    BY <2>1, <2>6
    DEF UninitContextBridge, SetFocus, KillFocus, WorkerPublishes, WorkerFails,
        ReadyIgnored, Compose, ContextChanges, Tick, vars, TypeOK, Origin
  <2>7. QED BY <2>1, <2>2, <2>3, <2>4, <2>5, <2>6 DEF Next
<1>2. QED BY <1>1, TypeCorrect, InvCorrect, PTL DEF Spec, OriginExact
=============================================================================
