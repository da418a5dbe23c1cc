------------------------------- MODULE WebRoom -------------------------------
(***************************************************************************)
(* The conference page (www-sig/demos/room.html) of one user, with the     *)
(* client of the signaling server (js/srs.sig.js) and the publishers and   *)
(* players of the SDK (js/srs.sdk.js), in a room with other peers.         *)
(*                                                                         *)
(* A click on start runs startDemo, an asynchronous function over the      *)
(* page's globals: sig, publisher, players.  At each await another click,  *)
(* a notification or the end of a publish may come first.  Every run has a *)
(* SrsRtcSignalingAsync, and so a socket, and a publisher of its own; a    *)
(* run that goes on after an await uses whichever is current.              *)
(*                                                                         *)
(* The server is what module Signaling says of one room.  A join is        *)
(* refused while the display is in the room.  Who leaves is removed some   *)
(* time later, but for a join that is handled after the clean-up.  A       *)
(* publish is told by a goroutine that copies the list of participants and *)
(* tells one after another: events overtake one another, and wait for ever *)
(* for a peer whose handler has returned.  The page's own handlers keep    *)
(* receiving: there is one of its connections in a list at most, and       *)
(* behind it nobody whom the page would hear of.  A message reaches the    *)
(* page when it is told.  Each peer joins, publishes and leaves once, and  *)
(* joins before its connection ends.                                       *)
(*                                                                         *)
(* A player is started for who publishes.  The events of joins and leaves, *)
(* which close the players of those who are not in the list that comes     *)
(* with them, and the ends of players are left out.                        *)
(***************************************************************************)
EXTENDS Naturals, SequencesExt

CONSTANTS
    Peer,        \* the other participants of the room
    Publishers,  \* those of them that may publish
    Leaving,     \* those of them whose connections may end
    MaxRun       \* bound: clicks on start

ASSUME WebRoomAssumption ==
    /\ MaxRun \in Nat \ {0}
    /\ Peer \cap (1..MaxRun) = {}
    /\ Publishers \subseteq Peer /\ Leaving \subseteq Peer

VARIABLES
    room,       \* Room.Participants, of peers and of connections of the page
    peers,      \* each peer: out, in the room, publishing, leaving, or gone
    join,       \* how far the server is with the join of each connection of the page
    cleaned,    \* the connections of the page whose clean-up has run
    returned,   \* the peers whose handlers have returned
    notify,     \* the Notify of each peer's publish: none, to copy the list, or whom it has to tell
    sig,        \* the current run, whose SrsRtcSignalingAsync is the global one
    socket,     \* the socket of each run
    run,        \* where each run of startDemo is
    on,         \* the run whose socket its answer will come on
    r0,         \* the participants in its answer to join, then those of them that publish
    publisher,  \* the run whose publisher is the global one
    pub,        \* the publisher of each run
    players     \* the peers that there is a player of

serverVars == <<room, peers, join, cleaned, returned, notify>>
pageVars == <<sig, socket, run, on, r0>>
mediaVars == <<publisher, pub, players>>
vars == <<serverVars, pageVars, mediaVars>>

Run == 1..MaxRun
Participant == Peer \cup Run

NoTask == [pc |-> "none", to |-> <<>>]
ToList == [pc |-> "list", to |-> <<>>]

Init ==
    /\ room = <<>>
    /\ peers = [p \in Peer |-> "out"]
    /\ join = [k \in Run |-> "none"]
    /\ cleaned = {} /\ returned = {}
    /\ notify = [p \in Peer |-> NoTask]
    /\ sig = 0
    /\ socket = [k \in Run |-> "none"]
    /\ run = [k \in Run |-> "idle"]
    /\ on = [k \in Run |-> 0]
    /\ r0 = [k \in Run |-> {}]
    /\ publisher = 0
    /\ pub = [k \in Run |-> "none"]
    /\ players = {}

InRoom(p) == p \in ToSet(room)
Joined == Run \cap ToSet(room)
Waits(k) == run[k] \in {"join", "publish"}
RunGoto(k, pc) == run' = [run EXCEPT ![k] = pc]

-----------------------------------------------------------------------------
(* startDemo, up to the answer to join.                                    *)

\* mutant of Start: close forgets the socket, but not those who wait for its answers
StartNoReject ==
    /\ sig < MaxRun
    /\ sig' = sig + 1
    /\ socket' = [k \in Run |-> IF k = sig THEN "closed" ELSE IF k = sig + 1 THEN "connecting" ELSE socket[k]]
    /\ run' = [k \in Run |->
            IF k = sig + 1 THEN "connect"
            ELSE IF k = sig /\ run[k] = "connect" THEN "failed"
            ELSE run[k]]
    /\ UNCHANGED <<serverVars, on, r0, mediaVars>>

\* A click: close of the sig that was there closes its socket, which fails a connect, and
\* rejects whoever waits for an answer on it; then there is a new one.
Start ==
    /\ sig < MaxRun
    /\ sig' = sig + 1
    /\ socket' = [k \in Run |-> IF k = sig THEN "closed" ELSE IF k = sig + 1 THEN "connecting" ELSE socket[k]]
    /\ run' = [k \in Run |->
            IF k = sig + 1 THEN "connect"
            ELSE IF (k = sig /\ run[k] = "connect") \/ (Waits(k) /\ on[k] = sig) THEN "failed"
            ELSE run[k]]
    /\ UNCHANGED <<serverVars, on, r0, mediaVars>>

\* the socket opens, and join is sent; or it fails
Connect(k) ==
    /\ socket[k] = "connecting"
    /\ \/ /\ socket' = [socket EXCEPT ![k] = "open"]
          /\ RunGoto(k, "join")
          /\ on' = [on EXCEPT ![k] = k]
          /\ join' = [join EXCEPT ![k] = "asked"]
       \/ /\ socket' = [socket EXCEPT ![k] = "closed"]
          /\ RunGoto(k, "failed")
          /\ UNCHANGED <<on, join>>
    /\ UNCHANGED <<room, peers, cleaned, returned, notify, sig, r0, mediaVars>>

\* Room.Add, after which the answer takes the list of participants.  A refusal ends the
\* processor and the context, and nothing tells the page: there is no answer and the handler
\* keeps the socket.  A join on a socket that was closed may still be handled, or be lost.
ServerJoins(k) ==
    /\ join[k] = "asked"
    /\ \/ /\ Joined = {}
          /\ room' = Append(room, k)
          /\ join' = [join EXCEPT ![k] = "added"]
          /\ r0' = [r0 EXCEPT ![k] = {p \in Peer : InRoom(p)}]
       \/ /\ Joined # {} \/ socket[k] = "closed"
          /\ join' = [join EXCEPT ![k] = "refused"]
          /\ UNCHANGED <<room, r0>>
    /\ UNCHANGED <<peers, cleaned, returned, notify, sig, socket, run, on, mediaVars>>

\* Publishing of a participant, which it keeps when it leaves
Publishing(p) == notify[p].pc # "none"

\* mutant of ServerAnswers: the flags are those of the time before, nobody publishes
ServerAnswersBare(k) ==
    /\ join[k] = "added"
    /\ join' = [join EXCEPT ![k] = "answered"]
    /\ r0' = [r0 EXCEPT ![k] = {}]
    /\ UNCHANGED <<room, peers, cleaned, returned, notify, sig, socket, run, on, mediaVars>>

\* the answer is put together, with who publishes by now
ServerAnswers(k) ==
    /\ join[k] = "added"
    /\ join' = [join EXCEPT ![k] = "answered"]
    /\ r0' = [r0 EXCEPT ![k] = {p \in @ : Publishing(p)}]
    /\ UNCHANGED <<room, peers, cleaned, returned, notify, sig, socket, run, on, mediaVars>>

\* mutant of Publish: the publisher that was there goes on
PublishToo(k) ==
    /\ publisher' = k
    /\ pub' = [pub EXCEPT ![k] = "starting"]

\* startPublish: the publisher that was there is closed
Publish(k) ==
    /\ publisher' = k
    /\ pub' = [j \in Run |-> IF j = k THEN "starting" ELSE IF j = publisher THEN "closed" ELSE pub[j]]

\* the answer arrives, unless the socket was closed, and the run starts to publish
JoinAnswered(k) ==
    /\ join[k] = "answered"
    /\ join' = [join EXCEPT ![k] = "over"]
    /\ IF socket[k] = "open" /\ run[k] = "join"
       THEN RunGoto(k, "media") /\ Publish(k)
       ELSE UNCHANGED <<run, publisher, pub>>
    /\ UNCHANGED <<room, peers, cleaned, returned, notify, sig, socket, on, r0, players>>

-----------------------------------------------------------------------------
(* startDemo, from the media on.                                           *)

\* The end of publish of the SDK.  If it was closed it finds its pc gone, and fails, or waits
\* for ever for a step of a connection that is closed.  The page's catch closes the
\* publisher that is current, which may be another run's.
PublishEnds(k) ==
    /\ run[k] = "media"
    /\ \/ pub[k] = "starting" /\ pub' = [pub EXCEPT ![k] = "live"]
       \/ publisher # 0 /\ pub' = [pub EXCEPT ![publisher] = "closed"]
    /\ RunGoto(k, "send")
    /\ UNCHANGED <<serverVars, sig, socket, on, r0, publisher, players>>

\* publish is sent on the sig that is current: a socket that is not open yet throws, one
\* that is closed swallows it
SendPublish(k) ==
    /\ run[k] = "send"
    /\ IF socket[sig] = "connecting"
       THEN RunGoto(k, "failed") /\ UNCHANGED on
       ELSE RunGoto(k, "publish") /\ on' = [on EXCEPT ![k] = sig]
    /\ UNCHANGED <<serverVars, sig, socket, r0, mediaVars>>

\* startPlay of each of ps: a player that was there is closed, and there is a new one
StartPlay(ps) == players' = players \cup ps

\* The server takes publish behind the join of its connection, so the display is in the
\* room, and answers; after a refusal nobody takes it.  With the answer the run plays who
\* it was told of at first.
PublishAnswered(k) ==
    /\ run[k] = "publish"
    /\ socket[on[k]] = "open"
    /\ join[on[k]] = "over"
    /\ RunGoto(k, "done")
    /\ StartPlay(r0[k])
    /\ UNCHANGED <<serverVars, sig, socket, on, r0, publisher, pub>>

\* the connection breaks, or the server ends it
SocketLost(k) ==
    /\ socket[k] = "open"
    /\ socket' = [socket EXCEPT ![k] = "closed"]
    /\ UNCHANGED <<serverVars, sig, run, on, r0, mediaVars>>

\* The server notices the end of a socket.  The clean-up removes who has joined, and runs
\* once: a join that is handled after it stays in the room.
ServerLeaves(k) ==
    /\ join[k] # "none" /\ socket[k] = "closed"
    /\ k \notin cleaned
    /\ cleaned' = cleaned \cup {k}
    /\ room' = IF join[k] \in {"answered", "over"} THEN RemoveFirst(room, k) ELSE room
    /\ UNCHANGED <<peers, join, returned, notify, pageVars, mediaVars>>

-----------------------------------------------------------------------------
(* The other peers, and what the page is told of them.                     *)

\* a write to a peer whose connection is broken fails: its handler returns
HandlerReturns(p) ==
    /\ p \in Leaving /\ peers[p] # "out"
    /\ p \notin returned
    /\ returned' = returned \cup {p}
    /\ UNCHANGED <<room, peers, join, cleaned, notify, pageVars, mediaVars>>

\* the context of a peer's connection is done
Left(p) == peers[p] \in {"leaving", "gone"}

PeerGoto(p, pc) == peers' = [peers EXCEPT ![p] = pc]

PeerJoins(p) ==
    /\ peers[p] = "out"
    /\ PeerGoto(p, "in")
    /\ room' = Append(room, p)
    /\ UNCHANGED <<join, cleaned, returned, notify, pageVars, mediaVars>>

PeerPublishes(p) ==
    /\ p \in Publishers /\ peers[p] = "in"
    /\ PeerGoto(p, "publishing")
    /\ notify' = [notify EXCEPT ![p] = ToList]
    /\ UNCHANGED <<room, join, cleaned, returned, pageVars, mediaVars>>

PeerLeaves(p) ==
    /\ p \in Leaving /\ peers[p] \in {"in", "publishing"}
    /\ PeerGoto(p, "leaving")
    /\ UNCHANGED <<room, join, cleaned, returned, notify, pageVars, mediaVars>>

\* its clean-up
PeerRemoved(p) ==
    /\ peers[p] = "leaving"
    /\ PeerGoto(p, "gone")
    /\ room' = RemoveFirst(room, p)
    /\ UNCHANGED <<join, cleaned, returned, notify, pageVars, mediaVars>>

\* Notify copies the list, to tell all of it but who the event is about
List(p) ==
    /\ notify[p].pc = "list"
    /\ notify' = [notify EXCEPT ![p] = [pc |-> "tell", to |-> RemoveFirst(room, p)]]
    /\ UNCHANGED <<room, peers, join, cleaned, returned, pageVars, mediaVars>>

Telling(p) == notify[p].pc = "tell" /\ notify[p].to # <<>>

\* The next of the list is told when its handler receives, and if it is the page the event
\* fires on an open socket: onmessage plays who publishes.
Tell(p) ==
    /\ Telling(p)
    /\ LET x == Head(notify[p].to) IN
        /\ x \notin returned
        /\ IF x \in Run /\ socket[x] = "open" THEN StartPlay({p}) ELSE UNCHANGED players
    /\ notify' = [notify EXCEPT ![p].to = Tail(@)]
    /\ UNCHANGED <<room, peers, join, cleaned, returned, pageVars, publisher, pub>>

\* the context of who publishes is done, and the rest is not told
NotifyEnds(p) ==
    /\ Telling(p) /\ Left(p)
    /\ notify' = [notify EXCEPT ![p].to = <<>>]
    /\ UNCHANGED <<room, peers, join, cleaned, returned, pageVars, mediaVars>>

-----------------------------------------------------------------------------
Connection(k) == ServerJoins(k) \/ ServerAnswers(k) \/ ServerLeaves(k)

Notifying(p) == List(p) \/ Tell(p) \/ NotifyEnds(p)

Peers ==
    \E p \in Peer :
        PeerJoins(p) \/ PeerPublishes(p) \/ HandlerReturns(p) \/ PeerLeaves(p) \/ PeerRemoved(p) \/ Notifying(p)

Page ==
    \/ Start
    \/ \E k \in Run :
        Connect(k) \/ SocketLost(k) \/ JoinAnswered(k) \/ PublishEnds(k) \/ SendPublish(k) \/ PublishAnswered(k)

Next ==
    \/ Page \/ Peers
    \/ \E k \in Run : Connection(k)

Spec == Init /\ [][Next]_vars

\* The server goes on and messages arrive.  Nobody has to click, to join, to publish or to
\* leave; the user may leave the question for the camera open, and a connection may hang.
\* Clicks and peers are bounded, and so is every step that follows from them: to be fair to
\* one of them is to be fair to all.
GoesOn ==
    \/ \E k \in Run : Connection(k) \/ JoinAnswered(k) \/ SendPublish(k) \/ PublishAnswered(k)
    \/ \E p \in Peer : (p \in returned /\ PeerLeaves(p)) \/ PeerRemoved(p) \/ Notifying(p)

Fairness == WF_vars(GoesOn)

FairSpec == Spec /\ Fairness

-----------------------------------------------------------------------------
(* Properties.                                                             *)

\* Every variable stays in its type; the display is in the room for one connection at most.
TypeOK ==
    /\ room \in Seq(Participant)
    /\ \A j, k \in Joined : j = k
    /\ peers \in [Peer -> {"out", "in", "publishing", "leaving", "gone"}]
    /\ join \in [Run -> {"none", "asked", "added", "answered", "over", "refused"}]
    /\ cleaned \in SUBSET Run /\ returned \in SUBSET Peer
    /\ notify \in [Peer -> [pc : {"none", "list", "tell"}, to : Seq(Participant)]]
    /\ sig \in 0..MaxRun
    /\ socket \in [Run -> {"none", "connecting", "open", "closed"}]
    /\ run \in [Run -> {"idle", "connect", "join", "media", "send", "publish", "done", "failed"}]
    /\ on \in [Run -> 0..MaxRun]
    /\ r0 \in [Run -> SUBSET Peer]
    /\ publisher \in 0..MaxRun
    /\ pub \in [Run -> {"none", "starting", "live", "closed"}]
    /\ players \in SUBSET Peer

\* The page publishes once: a publisher that is not closed is the current one.
OnePublisher == \A k \in Run : pub[k] \in {"starting", "live"} => k = publisher

\* js/srs.sig.js line 68: close rejects whoever waits for an answer.  No run is left
\* waiting on a socket that the page itself has closed, also when it was started on one
\* and sent on another.
NoneWaitsOnClosedSig == \A k \in Run : Waits(k) => on[k] = sig

\* A Notify waits for a peer whose handler has returned.
Stuck(p) == Telling(p) /\ Head(notify[p].to) \in returned

\* room.html line 94: subscribe if new user start to publish.  A peer that publishes is
\* played by a page that has joined and has finished starting: between the answer to join,
\* from a list that is old when it is used, and the events, which come in any order, no
\* publisher is missed, unless it leaves or its Notify is stuck before it comes to the page.
PublishersPlayed ==
    \A p \in Publishers : \A k \in Run :
        peers[p] = "publishing" /\ run[k] = "done" /\ on[k] = k
            ~> p \in players \/ Left(p) \/ socket[k] = "closed" \/ Stuck(p)
=============================================================================
