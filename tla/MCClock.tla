------------------------------- MODULE MCClock ------------------------------
EXTENDS Clock
=============================================================================
