----------------------------- MODULE MCNetSaver -----------------------------
EXTENDS NetSaver
=============================================================================
