--------------------------- MODULE MCContextBridge ---------------------------
EXTENDS ContextBridge

MCTime == 0..Largest
=============================================================================
