----------------------------- MODULE MCUdpProxy -----------------------------
\* UdpProxy with the constant of the .cfg files.
EXTENDS UdpProxy
=============================================================================
