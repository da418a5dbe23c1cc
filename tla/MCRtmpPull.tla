------------------------------ MODULE MCRtmpPull ------------------------------
\* A small instance of RtmpPull.
EXTENDS RtmpPull
=============================================================================
