---------------------------- MODULE MCTcpSession ----------------------------
\* TcpSession with the constants of the .cfg files.
EXTENDS TcpSession
=============================================================================
