----------------------------- MODULE MCRegister -----------------------------
EXTENDS Register
=============================================================================
