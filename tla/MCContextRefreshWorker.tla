------------------------- MODULE MCContextRefreshWorker -------------------------
EXTENDS ContextRefreshWorker

MCTime == 0..Largest

\* Two windows whose answers differ: one of them has a rule of its own.
MCSnapshots ==
  {DefaultSnapshot, [DefaultSnapshot EXCEPT !.user_rule = "English"]}

\* An undisturbed read: what the local rules decide is DecisionCache's matter.
MCReadStates == {ReadStateOf(DefaultSnapshot)}
=============================================================================
