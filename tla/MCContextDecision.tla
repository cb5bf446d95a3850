-------------------------- MODULE MCContextDecision --------------------------
EXTENDS ContextDecision

MCTime == 0..1
=============================================================================
