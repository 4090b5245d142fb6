----------------------------- MODULE MCVtTimer -----------------------------
EXTENDS VtTimer
=============================================================================
