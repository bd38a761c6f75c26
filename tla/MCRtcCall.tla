------------------------------ MODULE MCRtcCall ------------------------------
\* Three pages, so that one of them finds the room full.
EXTENDS RtcCall
=============================================================================
