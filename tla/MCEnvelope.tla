----------------------------- MODULE MCEnvelope ----------------------------
EXTENDS Envelope
=============================================================================
