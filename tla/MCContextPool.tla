--------------------------- MODULE MCContextPool ---------------------------
\* ContextPool with the constants of the .cfg files.
EXTENDS ContextPool
=============================================================================
