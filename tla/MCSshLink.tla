----------------------------- MODULE MCSshLink -----------------------------
EXTENDS SshLink

\* A server that wants a key, one that asks for words, one that takes nothing more.
MCOffers == {{"publickey", "password"}, {"keyboard"}, {}}
=============================================================================
