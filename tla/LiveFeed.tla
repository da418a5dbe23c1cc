------------------------------ MODULE LiveFeed ------------------------------
(***************************************************************************)
(* What a relayed stream promises a viewer, without queues, locks, maps or *)
(* goroutines: first a contiguous piece of the video of one group of       *)
(* pictures, then the stream itself, in order and without a hole.  Between *)
(* the two a hole, or the repetition of one pack, is allowed.              *)
(***************************************************************************)
EXTENDS Naturals, Sequences

CONSTANTS Player, SourceKinds

VARIABLES
    arrived,  \* the kind of every pack the source sent
    out,      \* out[p]: the packs written to p's connection, by number
    live      \* live[p]: p is past the replay

vars == <<arrived, out, live>>

Init ==
    /\ arrived = <<>>
    /\ out = [p \in Player |-> <<>>]
    /\ live = [p \in Player |-> FALSE]

Emit ==
    /\ \E k \in SourceKinds : arrived' = Append(arrived, k)
    /\ UNCHANGED <<out, live>>

Started(p) == out[p] # <<>>
LastOut(p) == out[p][Len(out[p])]

\* pack n continues the replay: the next video pack, of the same group of pictures
Continues(p, n) ==
    /\ n > LastOut(p)
    /\ arrived[n] = "delta"
    /\ \A m \in (LastOut(p) + 1)..(n - 1) : arrived[m] = "other"

Replay(p) ==
    /\ ~live[p]
    /\ \E n \in 1..Len(arrived) :
        /\ arrived[n] # "other"
        /\ Started(p) => Continues(p, n)
        /\ out' = [out EXCEPT ![p] = Append(@, n)]
    /\ UNCHANGED <<arrived, live>>

Join(p) ==
    /\ ~live[p]
    /\ live' = [live EXCEPT ![p] = TRUE]
    /\ \E n \in 1..Len(arrived) :
        /\ Started(p) => n >= LastOut(p)
        /\ out' = [out EXCEPT ![p] = Append(@, n)]
    /\ UNCHANGED arrived

Follow(p) ==
    /\ live[p]
    /\ LastOut(p) < Len(arrived)
    /\ out' = [out EXCEPT ![p] = Append(@, LastOut(p) + 1)]
    /\ UNCHANGED <<arrived, live>>

Next == Emit \/ \E p \in Player : Replay(p) \/ Join(p) \/ Follow(p)

Spec == Init /\ [][Next]_vars
=============================================================================
