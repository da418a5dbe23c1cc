------------------------------ MODULE PullToPush ------------------------------
(***************************************************************************)
(* Pull-to-push: StreamStart (routers/streams.go) connects an RTSPClient   *)
(* to a source, a SessionPuller relays it through a Pusher of the server,  *)
(* StreamStop ends it by the ID that StreamStart returned.                 *)
(*                                                                         *)
(* Three Stop functions call one another: Session.Stop (which the Pusher   *)
(* and the puller share), SessionPuller.Stop and RTSPClient.Stop.  Each    *)
(* begins with an unsynchronised test-and-set, and they are entered from   *)
(* the HTTP handlers of StreamStop and from the end of startStream.        *)
(*                                                                         *)
(* The pusher's send to the recorder (module RtspServer) is left out of    *)
(* AddPusher and RemovePusher here.                                        *)
(***************************************************************************)
EXTENDS FiniteSets

CONSTANTS
    Pull,       \* calls of StreamStart, each with a client and a session of its own
    Path,       \* paths of the server's map
    EmptyPath,  \* the path of a session that has not been given one
    Plan,       \* which requests come: plans, each with the path of each pull (its custom
                \* path, or that of its URL) and the callers of StreamStop for it
    NoPusher,   \* no entry in the map
    ApiCaller   \* callers of StreamStop

ASSUME PullAssumption ==
    /\ EmptyPath \in Path
    /\ Plan \subseteq [path : [Pull -> Path], callers : [Pull -> SUBSET ApiCaller]]
    /\ NoPusher \notin Pull
    /\ "loop" \notin ApiCaller

VARIABLES
    plan,         \* the plan of this behavior
    pushers,      \* Server.pushers
    api,          \* where the StreamStart handler of the pull is
    start,        \* where its SessionPuller.Start goroutine is
    loop,         \* its startStream goroutine
    conn,         \* RTSPClient.Conn: not dialled, open, closed and not yet nil, nil
    stoped,       \* Session.Stoped, of the puller and of its Pusher
    clientStoped, \* RTSPClient.Stoped
    rtpClient,    \* SessionPuller.RTPClient is not nil
    stop,         \* where each caller of a Stop is
    crashed       \* an unrecovered panic ended the process

startVars == <<api, start, loop>>
flagVars == <<stoped, clientStoped, rtpClient>>
vars == <<plan, pushers, startVars, conn, flagVars, stop, crashed>>

Stopper == ApiCaller \cup {"loop"}

PathOf == plan.path

Registered(u) == pushers[PathOf[u]] = u

Init ==
    /\ plan \in Plan
    /\ pushers = [q \in Path |-> NoPusher]
    /\ api = [u \in Pull |-> "idle"]
    /\ start = [u \in Pull |-> "none"]
    /\ loop = [u \in Pull |-> "none"]
    /\ conn = [u \in Pull |-> "none"]
    /\ stoped = [u \in Pull |-> FALSE]
    /\ clientStoped = [u \in Pull |-> FALSE]
    /\ rtpClient = [u \in Pull |-> TRUE]
    /\ stop = [u \in Pull |-> [c \in Stopper |-> "idle"]]
    /\ crashed = FALSE

\* caller c of a Stop of u goes on to pc
Goto(u, c, pc) == stop' = [stop EXCEPT ![u][c] = pc]

-----------------------------------------------------------------------------
(* StreamStart and SessionPuller.Start.                                    *)

\* StreamStart looks its path up before SessionPuller.Start has given the session one
StreamStart(u) ==
    /\ api[u] = "idle"
    /\ api' = [api EXCEPT ![u] = IF pushers[EmptyPath] # NoPusher THEN "refused" ELSE "init"]
    /\ UNCHANGED <<pushers, start, loop, conn, flagVars, stop, crashed>>

\* Init fails, before the connection is dialled or after, and closes nothing
InitFails(u) ==
    /\ api[u] = "init"
    /\ api' = [api EXCEPT ![u] = "failed"]
    /\ conn' \in {conn, [conn EXCEPT ![u] = "open"]}
    /\ UNCHANGED <<pushers, start, loop, flagVars, stop, crashed>>

\* requestStream succeeds, onSdp starts the puller, and the ID is answered
InitSucceeds(u) ==
    /\ api[u] = "init"
    /\ api' = [api EXCEPT ![u] = "answered"]
    /\ conn' = [conn EXCEPT ![u] = "open"]
    /\ start' = [start EXCEPT ![u] = "client"]
    /\ UNCHANGED <<pushers, loop, flagVars, stop, crashed>>

\* the path, the Pusher and the handles are set, and the client is started
ClientStart(u) ==
    /\ start[u] = "client"
    /\ start' = [start EXCEPT ![u] = "add"]
    /\ loop' = [loop EXCEPT ![u] = "run"]
    /\ UNCHANGED <<pushers, api, conn, flagVars, stop, crashed>>

AddPusher(u) ==
    /\ start[u] = "add"
    /\ start' = [start EXCEPT ![u] = "done"]
    /\ pushers' = IF pushers[PathOf[u]] = NoPusher THEN [pushers EXCEPT ![PathOf[u]] = u] ELSE pushers
    /\ UNCHANGED <<api, loop, conn, flagVars, stop, crashed>>

-----------------------------------------------------------------------------
(* The callers of a Stop.                                                  *)

\* startStream ends: the source or the connection failed, or Stoped was seen;
\* its deferred function calls RTSPClient.Stop
LoopEnds(u) ==
    /\ loop[u] = "run"
    /\ loop' = [loop EXCEPT ![u] = "ended"]
    /\ Goto(u, "loop", "client")
    /\ UNCHANGED <<pushers, api, start, conn, flagVars, crashed>>

\* StreamStop looks for the ID among the pushers; without one it answers 400
StreamStop(u, c) ==
    /\ api[u] = "answered"
    /\ stop[u][c] = "idle"
    /\ Goto(u, c, IF Registered(u) THEN "session" ELSE "notFound")
    /\ UNCHANGED <<pushers, startVars, conn, flagVars, crashed>>

\* mutant of SessionStop: Stoped is set after the handles
SessionStopLate(u, c) ==
    /\ \/ /\ stop[u][c] = "session"
          /\ Goto(u, c, IF stoped[u] THEN "done" ELSE "remove")
          /\ UNCHANGED stoped
       \/ /\ stop[u][c] = "puller"
          /\ ~stoped[u]
          /\ stoped' = [stoped EXCEPT ![u] = TRUE]
          /\ UNCHANGED stop
    /\ UNCHANGED <<pushers, startVars, conn, clientStoped, rtpClient, crashed>>

\* Session.Stop: the test, then the set
SessionStop(u, c) ==
    /\ \/ /\ stop[u][c] = "session"
          /\ Goto(u, c, IF stoped[u] THEN "done" ELSE "set")
          /\ UNCHANGED stoped
       \/ /\ stop[u][c] = "set"
          /\ Goto(u, c, "remove")
          /\ stoped' = [stoped EXCEPT ![u] = TRUE]
    /\ UNCHANGED <<pushers, startVars, conn, clientStoped, rtpClient, crashed>>

\* Server.RemovePusher: the first of Session.Stop's handles, and part of the
\* client's
RemovePusher(u) ==
    pushers' = IF Registered(u) THEN [pushers EXCEPT ![PathOf[u]] = NoPusher] ELSE pushers

SessionHandle(u, c) ==
    /\ stop[u][c] = "remove"
    /\ RemovePusher(u)
    /\ Goto(u, c, "puller")
    /\ UNCHANGED <<startVars, conn, flagVars, crashed>>

\* mutant of PullerStop: the test of Stoped comes first, as in the other two
PullerStopTests(u, c) ==
    /\ stop[u][c] = "puller"
    /\ Goto(u, c, IF rtpClient[u] /\ ~stoped[u] THEN "client" ELSE "done")
    /\ UNCHANGED <<pushers, startVars, conn, flagVars, crashed>>

\* SessionPuller.Stop, the second handle: the client is tested for nil, and
\* Session.Stop has set Stoped already, so nothing follows the client's Stop
PullerStop(u, c) ==
    /\ stop[u][c] = "puller"
    /\ Goto(u, c, IF rtpClient[u] THEN "client" ELSE "done")
    /\ UNCHANGED <<pushers, startVars, conn, flagVars, crashed>>

\* RTSPClient.Stop: the test; the puller's field may have become nil before the call
ClientStop(u, c) ==
    /\ stop[u][c] = "client"
    /\ Goto(u, c, IF c # "loop" /\ ~rtpClient[u] THEN "panicked"
                  ELSE IF clientStoped[u] THEN "left"
                  ELSE "clientSet")
    /\ UNCHANGED <<pushers, startVars, conn, flagVars, crashed>>

ClientSet(u, c) ==
    /\ stop[u][c] = "clientSet"
    /\ Goto(u, c, "handle")
    /\ clientStoped' = [clientStoped EXCEPT ![u] = TRUE]
    /\ UNCHANGED <<pushers, startVars, conn, stoped, rtpClient, crashed>>

\* the client's handle sets the session's flag and stops its players (module
\* RtspRelay)
ClientHandle(u, c) ==
    /\ stop[u][c] = "handle"
    /\ Goto(u, c, "clientRemove")
    /\ stoped' = [stoped EXCEPT ![u] = TRUE]
    /\ UNCHANGED <<pushers, startVars, conn, clientStoped, rtpClient, crashed>>

\* mutant of ClientRemove: the handle does not remove the pusher
ClientRemoveNot(u, c) ==
    /\ stop[u][c] = "clientRemove"
    /\ Goto(u, c, "conn")
    /\ UNCHANGED <<pushers, startVars, conn, flagVars, crashed>>

ClientRemove(u, c) ==
    /\ stop[u][c] = "clientRemove"
    /\ RemovePusher(u)
    /\ Goto(u, c, "conn")
    /\ UNCHANGED <<startVars, conn, flagVars, crashed>>

\* the test of client.Conn for nil
ConnTest(u, c) ==
    /\ stop[u][c] = "conn"
    /\ Goto(u, c, IF conn[u] \in {"open", "closed"} THEN "close" ELSE "left")
    /\ UNCHANGED <<pushers, startVars, conn, flagVars, crashed>>

\* Close, for a second caller too: it does nothing more to a closed conn, and calls through
\* nil if the first has come further since the test; the HTTP handler recovers that, the
\* goroutine of startStream does not
ConnClose(u, c) ==
    /\ stop[u][c] = "close"
    /\ IF conn[u] = "nil"
       THEN /\ Goto(u, c, "panicked")
            /\ crashed' = (c = "loop")
            /\ UNCHANGED conn
       ELSE /\ Goto(u, c, "forget")
            /\ conn' = [conn EXCEPT ![u] = "closed"]
            /\ UNCHANGED crashed
    /\ UNCHANGED <<pushers, startVars, flagVars>>

\* Conn = nil
ConnForget(u, c) ==
    /\ stop[u][c] = "forget"
    /\ conn' = [conn EXCEPT ![u] = "nil"]
    /\ Goto(u, c, "left")
    /\ UNCHANGED <<pushers, startVars, flagVars, crashed>>

\* RTSPClient.Stop returns: the puller forgets the client
ClientLeft(u, c) ==
    /\ stop[u][c] = "left"
    /\ Goto(u, c, "done")
    /\ rtpClient' = [rtpClient EXCEPT ![u] = @ /\ c = "loop"]
    /\ UNCHANGED <<pushers, startVars, conn, stoped, clientStoped, crashed>>

-----------------------------------------------------------------------------
Starting(u) ==
    StreamStart(u) \/ InitFails(u) \/ InitSucceeds(u) \/ ClientStart(u) \/ AddPusher(u)

Stopping(u, c) ==
    \/ SessionStop(u, c) \/ SessionHandle(u, c) \/ PullerStop(u, c)
    \/ ClientStop(u, c) \/ ClientSet(u, c) \/ ClientHandle(u, c) \/ ClientRemove(u, c)
    \/ ConnTest(u, c) \/ ConnClose(u, c) \/ ConnForget(u, c) \/ ClientLeft(u, c)

Running == ~crashed /\ UNCHANGED plan

Next ==
    /\ Running
    /\ \E u \in Pull :
        \/ Starting(u) \/ LoopEnds(u)
        \/ \E c \in plan.callers[u] : StreamStop(u, c)
        \/ \E c \in Stopper : Stopping(u, c)

Spec == Init /\ [][Next]_vars

\* Goroutines go on; a closed connection ends the loop.  Nobody has to start or stop a
\* pull, and a source may stay up for ever.
Fairness ==
    \A u \in Pull :
        /\ WF_vars(Running /\ (ClientStart(u) \/ AddPusher(u)))
        /\ WF_vars(Running /\ conn[u] \in {"closed", "nil"} /\ LoopEnds(u))
        /\ \A c \in Stopper : WF_vars(Running /\ Stopping(u, c))

FairSpec == Spec /\ Fairness

-----------------------------------------------------------------------------
(* Properties.                                                             *)

StopPc ==
    {"idle", "notFound", "session", "set", "remove", "puller", "client", "clientSet", "handle",
     "clientRemove", "conn", "close", "forget", "left", "done", "panicked"}

\* Every variable stays in its type; an entry of the map is under the pull's path, and
\* was made after its client was started.
TypeOK ==
    /\ plan \in Plan
    /\ pushers \in [Path -> Pull \cup {NoPusher}]
    /\ api \in [Pull -> {"idle", "init", "refused", "failed", "answered"}]
    /\ start \in [Pull -> {"none", "client", "add", "done"}]
    /\ loop \in [Pull -> {"none", "run", "ended"}]
    /\ conn \in [Pull -> {"none", "open", "closed", "nil"}]
    /\ stoped \in [Pull -> BOOLEAN]
    /\ clientStoped \in [Pull -> BOOLEAN]
    /\ rtpClient \in [Pull -> BOOLEAN]
    /\ stop \in [Pull -> [Stopper -> StopPc]]
    /\ crashed \in BOOLEAN
    /\ \A q \in Path : pushers[q] # NoPusher =>
        PathOf[pushers[q]] = q /\ start[pushers[q]] = "done"

\* A registered pull whose source fails gives its path back.
EndedSourceFreesPath ==
    \A u \in Pull :
        Registered(u) /\ stop[u]["loop"] = "client" ~> ~Registered(u) \/ crashed

Resting(pc) == pc \in {"idle", "notFound", "done", "panicked"}

\* When nobody is in the middle of a Stop and somebody has made one, the pull is
\* disconnected and all its flags are set: no mixture of callers that overtake one
\* another, return early or panic half-way leaves the source connected.
StopsAddUp ==
    \A u \in Pull :
        (\A c \in Stopper : Resting(stop[u][c])) /\ (\E c \in Stopper : stop[u][c] \in {"done", "panicked"})
            => conn[u] = "nil" /\ stoped[u] /\ clientStoped[u]

\* u came to AddPusher while v had the path: v has it still, or was stopped since
Lost(u, v) ==
    /\ PathOf[v] = PathOf[u]
    /\ start[v] = "done"
    /\ Registered(v) \/ stoped[v] \/ clientStoped[v]

\* routers/streams.go line 45: the ID that StreamStart returns serves to stop the pull
\* later.  A pull that has been set up and is relaying is in the map, where the ID finds it;
\* it is not only if another one had its path when it came to AddPusher, which answers
\* nothing: then the ID does not stop it, also when the path has become free again.
StoppableById ==
    \A u \in Pull :
        start[u] = "done" /\ loop[u] = "run" /\ ~stoped[u] /\ ~clientStoped[u] =>
            Registered(u) \/ \E v \in Pull \ {u} : Lost(u, v)
=============================================================================
