----------------------------- MODULE MCTcpRelay -----------------------------
\* TcpRelay with the constants of the .cfg file.
EXTENDS TcpRelay

\* The client and the first target send two bytes each.  The client's may come as
\* one chunk, which is for both targets; the target's connection takes one at a
\* time, so the target may have to wait in the middle.
MCMaxBytes == [s \in Sockets |-> IF s = 2 THEN 0 ELSE 2]
MCInWindow == [s \in Sockets |-> IF s = Client THEN 2 ELSE 1]
=============================================================================
