----------------------------- MODULE MCSignaling -----------------------------
\* Small instances of Signaling: every client under a display of its own, or all
\* under the same; one message each, or two of c1.
EXTENDS Signaling

CONSTANTS c1

OwnDisplay == [c \in Client |-> c]
OneDisplay == [c \in Client |-> c1]

OwnDisplays == {OwnDisplay}
EveryDisplays == {OwnDisplay, OneDisplay}

OneMessage == [c \in Client |-> 1]
TwoOfC1 == [c \in Client |-> IF c = c1 THEN 2 ELSE 1]
=============================================================================
