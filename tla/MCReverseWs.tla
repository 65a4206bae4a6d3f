---------------------------- MODULE MCReverseWs -----------------------------
EXTENDS ReverseWs
=============================================================================
