---------------------------- MODULE MCSenderLoop ----------------------------
EXTENDS SenderLoop
=============================================================================
