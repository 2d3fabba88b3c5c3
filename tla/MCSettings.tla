----------------------------- MODULE MCSettings ----------------------------
EXTENDS Settings
=============================================================================
