----------------------------- MODULE MCTcpProxy -----------------------------
\* TcpProxy with the constants of the .cfg file.
EXTENDS TcpProxy
=============================================================================
