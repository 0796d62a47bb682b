--------------------------- MODULE MCLoggerProxy ----------------------------
\* LoggerProxy with the constants of the .cfg file.  Nothing tells one thread from
\* another, nor one second: the names of files have no order.
EXTENDS LoggerProxy, TLC

Symmetry == Permutations(Threads) \cup Permutations(Seconds)
=============================================================================
