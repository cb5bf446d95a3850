--------------------------- MODULE MCDecisionCache ---------------------------
EXTENDS DecisionCache

MCTime == 0..2

\* A switch to either mode, a keep, and two decisions that may not be cached:
\* a transient one and one whose target contradicts its desired mode.
MCDecisions ==
  {Select("Chinese", "English", "SyntaxContext"),
   Select("Chinese", "Chinese", "UserRule"),
   Keep("Chinese", "FallbackKeep"),
   Keep("Chinese", "ContextUnavailable"),
   [Select("Chinese", "English", "ProjectRule") EXCEPT
      !.target_mode = "Chinese"]}

\* Undisturbed reads before and at the deadlines, and one of each kind the
\* local rules decide.
ReadAt(now) == [ReadStateOf(DefaultSnapshot) EXCEPT !.now_ms = now]

MCReadStates ==
  {ReadAt(0), [ReadAt(1) EXCEPT !.current_mode = "English"],
   [ReadAt(1) EXCEPT !.composition_active = TRUE],
   [ReadAt(1) EXCEPT !.manual_override_until_ms = 2]}
=============================================================================
