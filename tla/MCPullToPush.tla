---------------------------- MODULE MCPullToPush ----------------------------
\* Small instances of PullToPush: two pulls that compete for a path, one with
\* two callers of StreamStop; or two pulls of different paths, u1 without one.
EXTENDS PullToPush

CONSTANTS u1, u2, live, a1, a2

OnePath == [u \in Pull |-> live]
EmptyOrLive == [u \in Pull |-> IF u = u1 THEN EmptyPath ELSE live]

Callers(n1, n2) == [u \in Pull |-> IF u = u1 THEN n1 ELSE n2]

Plans ==
    {[path |-> OnePath, callers |-> Callers({a1}, {a1})],
     [path |-> OnePath, callers |-> Callers({a1, a2}, {})],
     [path |-> EmptyOrLive, callers |-> Callers({a1, a2}, {})],
     [path |-> EmptyOrLive, callers |-> Callers({}, {a1, a2})]}
=============================================================================
