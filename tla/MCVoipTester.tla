----------------------------- MODULE MCVoipTester -----------------------------
EXTENDS VoipTester
=============================================================================
