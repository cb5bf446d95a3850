---------------------------- MODULE ContextEngine ----------------------------
(***************************************************************************)
(* The Context Engine: the pure function every automatic decision about    *)
(* the input mode goes through (src/context-engine).  It is evaluated by   *)
(* the Context Service on a request and by the IME host on its own fresh   *)
(* safety state; it keeps no state of its own.                             *)
(***************************************************************************)
EXTENDS Naturals

CONSTANT Time   \* the instants, in milliseconds, a snapshot may carry

ASSUME TimeAssumption == Time \subseteq Nat /\ 0 \in Time

InputMode == {"Chinese", "English"}
DesiredMode == InputMode \cup {"Keep"}

\* OptionalMode::None() is a value of its own; Some(m) is m.
None == "None"
OptionalMode == InputMode \cup {None}

TransientSource ==
  {"CompositionProtection", "ExplicitUserLock", "ManualOverrideProtection",
   "AutomationDisabled", "ContextUnavailable"}

RuleSource ==
  {"UserRule", "ProjectRule", "SyntaxContext", "SurfaceContext",
   "ApplicationDefault"}

DecisionSource == TransientSource \cup RuleSource \cup {"FallbackKeep"}

Decision ==
  [desired_mode: DesiredMode, target_mode: InputMode,
   source: DecisionSource, should_switch: BOOLEAN]

ContextSnapshot ==
  [current_mode: InputMode,
   composition_active: BOOLEAN, candidate_visible: BOOLEAN,
   explicit_user_lock: OptionalMode,
   now_ms: Time, manual_override_until_ms: Time,
   automation_enabled: BOOLEAN, context_available: BOOLEAN,
   user_rule: OptionalMode, project_rule: OptionalMode,
   syntax_context: OptionalMode, surface_context: OptionalMode,
   application_default: OptionalMode]

\* A default-constructed snapshot.
DefaultSnapshot ==
  [current_mode |-> "Chinese",
   composition_active |-> FALSE, candidate_visible |-> FALSE,
   explicit_user_lock |-> None,
   now_ms |-> 0, manual_override_until_ms |-> 0,
   automation_enabled |-> TRUE, context_available |-> TRUE,
   user_rule |-> None, project_rule |-> None,
   syntax_context |-> None, surface_context |-> None,
   application_default |-> None]

Keep(mode, source) ==
  [desired_mode |-> "Keep", target_mode |-> mode,
   source |-> source, should_switch |-> FALSE]

Select(mode, selected, source) ==
  [desired_mode |-> selected, target_mode |-> selected,
   source |-> source, should_switch |-> selected # mode]

(***************************************************************************)
(* ContextEngine::Evaluate: eleven early returns, in this order.           *)
(***************************************************************************)
\* Mutant of EvaluateRules: the project's rule is looked at first.
ProjectRuleFirst(s) ==
  LET rules == <<<<s.project_rule, "ProjectRule">>, <<s.user_rule, "UserRule">>,
                 <<s.syntax_context, "SyntaxContext">>,
                 <<s.surface_context, "SurfaceContext">>,
                 <<s.application_default, "ApplicationDefault">>>>
      given == {i \in 1..5 : rules[i][1] # None}
      first == CHOOSE i \in given : \A j \in given : i <= j
  IN IF given = {} THEN Keep(s.current_mode, "FallbackKeep")
     ELSE Select(s.current_mode, rules[first][1], rules[first][2])

EvaluateRules(s) ==
  IF s.user_rule # None
  THEN Select(s.current_mode, s.user_rule, "UserRule")
  ELSE IF s.project_rule # None
  THEN Select(s.current_mode, s.project_rule, "ProjectRule")
  ELSE IF s.syntax_context # None
  THEN Select(s.current_mode, s.syntax_context, "SyntaxContext")
  ELSE IF s.surface_context # None
  THEN Select(s.current_mode, s.surface_context, "SurfaceContext")
  ELSE IF s.application_default # None
  THEN Select(s.current_mode, s.application_default, "ApplicationDefault")
  ELSE Keep(s.current_mode, "FallbackKeep")

Evaluate(s) ==
  IF s.composition_active \/ s.candidate_visible
  THEN Keep(s.current_mode, "CompositionProtection")
  ELSE IF s.explicit_user_lock # None
  THEN Select(s.current_mode, s.explicit_user_lock, "ExplicitUserLock")
  ELSE IF s.now_ms < s.manual_override_until_ms
  THEN Keep(s.current_mode, "ManualOverrideProtection")
  ELSE IF ~s.automation_enabled
  THEN Keep(s.current_mode, "AutomationDisabled")
  ELSE IF ~s.context_available
  THEN Keep(s.current_mode, "ContextUnavailable")
  ELSE EvaluateRules(s)

-----------------------------------------------------------------------------
(***************************************************************************)
(* The reference: the priority table of docs/context-engine.md.  A row     *)
(* fires or not, and the decision is the first firing row's.               *)
(***************************************************************************)
PriorityTable ==
  <<"CompositionProtection", "ExplicitUserLock", "ManualOverrideProtection",
    "AutomationDisabled", "ContextUnavailable", "UserRule", "ProjectRule",
    "SyntaxContext", "SurfaceContext", "ApplicationDefault", "FallbackKeep">>

\* The mode a row asks for when it fires, None where the row keeps.
RowMode(source, s) ==
  CASE source = "ExplicitUserLock"   -> s.explicit_user_lock
    [] source = "UserRule"           -> s.user_rule
    [] source = "ProjectRule"        -> s.project_rule
    [] source = "SyntaxContext"      -> s.syntax_context
    [] source = "SurfaceContext"     -> s.surface_context
    [] source = "ApplicationDefault" -> s.application_default
    [] OTHER                         -> None

RowFires(source, s) ==
  CASE source = "CompositionProtection" ->
         s.composition_active \/ s.candidate_visible
    [] source = "ManualOverrideProtection" ->
         s.now_ms < s.manual_override_until_ms
    [] source = "AutomationDisabled" -> ~s.automation_enabled
    [] source = "ContextUnavailable" -> ~s.context_available
    [] source = "FallbackKeep" -> TRUE
    [] OTHER -> RowMode(source, s) # None

DecidingRow(s) ==
  CHOOSE i \in 1..11 :
    /\ RowFires(PriorityTable[i], s)
    /\ \A j \in 1..(i - 1) : ~RowFires(PriorityTable[j], s)
=============================================================================
