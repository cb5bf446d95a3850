---------------------------- MODULE ContextDecision ----------------------------
(***************************************************************************)
(* One IME and the world it decides in: the inputs of a snapshot change    *)
(* one at a time, and the mode also changes when ImeStateApplier applies   *)
(* a decision.  The properties are about Evaluate and about splitting it   *)
(* in two, the service's rules and the reader's own safety state.          *)
(***************************************************************************)
EXTENDS CachedDecision

VARIABLE snapshot

decisionVars == <<snapshot>>

DecisionTypeOK == snapshot \in ContextSnapshot

DecisionInit == snapshot = DefaultSnapshot

Apply ==
  LET mode == ApplyDecision(Evaluate(snapshot), snapshot.current_mode)
  IN /\ mode # None
     /\ snapshot' = [snapshot EXCEPT !.current_mode = mode]

EditSafety ==
  \/ \E m \in InputMode : snapshot' = [snapshot EXCEPT !.current_mode = m]
  \/ \E b \in BOOLEAN : snapshot' = [snapshot EXCEPT !.composition_active = b]
  \/ \E b \in BOOLEAN : snapshot' = [snapshot EXCEPT !.candidate_visible = b]
  \/ \E m \in OptionalMode :
       snapshot' = [snapshot EXCEPT !.explicit_user_lock = m]
  \/ \E t \in Time : snapshot' = [snapshot EXCEPT !.now_ms = t]
  \/ \E t \in Time :
       snapshot' = [snapshot EXCEPT !.manual_override_until_ms = t]
  \/ \E b \in BOOLEAN : snapshot' = [snapshot EXCEPT !.automation_enabled = b]

EditRules ==
  \/ \E b \in BOOLEAN : snapshot' = [snapshot EXCEPT !.context_available = b]
  \/ \E m \in OptionalMode : snapshot' = [snapshot EXCEPT !.user_rule = m]
  \/ \E m \in OptionalMode : snapshot' = [snapshot EXCEPT !.project_rule = m]
  \/ \E m \in OptionalMode : snapshot' = [snapshot EXCEPT !.syntax_context = m]
  \/ \E m \in OptionalMode : snapshot' = [snapshot EXCEPT !.surface_context = m]
  \/ \E m \in OptionalMode :
       snapshot' = [snapshot EXCEPT !.application_default = m]

DecisionNext == Apply \/ EditSafety \/ EditRules

DecisionSpec == DecisionInit /\ [][DecisionNext]_decisionVars

-----------------------------------------------------------------------------
\* The eleven early returns of Evaluate are the priority table of
\* docs/context-engine.md: the decision is the first firing row's, a switch to
\* the row's mode, or a keep, and it asks for a switch only away from the mode
\* the IME is in.
FirstRowDecides ==
  LET source == PriorityTable[DecidingRow(snapshot)]
      mode == RowMode(source, snapshot)
  IN Evaluate(snapshot) =
       IF mode = None THEN Keep(snapshot.current_mode, source)
                      ELSE Select(snapshot.current_mode, mode, source)

\* The decision is split between two processes: the service evaluates the
\* rules on a request stripped of the safety state (and with the mode the IME
\* was in then), the reader evaluates the safety state it is in now and takes
\* the cached rule only if that left the question open.  Together they decide
\* what one evaluation of the whole snapshot would, and the service's half is
\* never refused by the cache.
SplitEvaluation ==
  \A past \in InputMode, e \in Time :
    LET asked == [snapshot EXCEPT !.current_mode = past]
        served == Evaluate(PrepareContextRefreshSnapshot(asked, 0))
    IN /\ Cacheable(served)
       /\ snapshot.now_ms < e =>
            Answer(EntryOf(served, e), ReadStateOf(snapshot)) =
              Evaluate([snapshot EXCEPT !.context_available = TRUE])

\* A decision is applied once: applying it makes the next evaluation of the
\* same inputs ask for nothing.
ApplySettles ==
  [][Apply => ApplyDecision(Evaluate(snapshot'), snapshot'.current_mode) = None]_decisionVars

\* The applier drops no decision the engine makes: whenever Evaluate asks for a
\* switch the sink is called, and with the mode the deciding rule named.
NoSwitchDropped ==
  LET d == Evaluate(snapshot)
  IN d.should_switch =>
       ApplyDecision(d, snapshot.current_mode) =
         RowMode(d.source, snapshot)
=============================================================================
