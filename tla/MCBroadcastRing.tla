-------------------------- MODULE MCBroadcastRing --------------------------
EXTENDS BroadcastRing
=============================================================================
