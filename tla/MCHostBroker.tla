---------------------------- MODULE MCHostBroker ----------------------------
EXTENDS HostBroker

CONSTANTS g1, g2

MCGoroutines == {g1, g2}
=============================================================================
