----------------------------- MODULE MCRingIdle -----------------------------
EXTENDS RingIdle
=============================================================================
