----------------------------- MODULE MCSipCall ------------------------------
EXTENDS SipCall
=============================================================================
