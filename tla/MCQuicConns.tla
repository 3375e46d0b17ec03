---------------------------- MODULE MCQuicConns ----------------------------
EXTENDS QuicConns
=============================================================================
