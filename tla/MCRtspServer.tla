---------------------------- MODULE MCRtspServer ----------------------------
\* Small instances of RtspServer: all publishers on one path.
EXTENDS RtspServer, TLC

CONSTANT live

OnePath == [p \in Publisher |-> live]

SamePathSymmetry == Permutations(Publisher)
=============================================================================
