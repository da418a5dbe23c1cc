---------------------------- MODULE MCRtspRelay ----------------------------
\* Instances of RtspRelay for TLC: one viewer, so there is no symmetry to use.
EXTENDS RtspRelay
=============================================================================
