--------------------------- MODULE PullToPushProofs ---------------------------
(***************************************************************************)
(* Theorems about PullToPush, for every set of pulls and of paths, every   *)
(* number of callers of StreamStop and every plan of requests.             *)
(***************************************************************************)
EXTENDS PullToPush, TLAPS

-----------------------------------------------------------------------------
(* The inductive invariant.                                                *)

\* The types, without what they say of the map
PullTypes ==
    /\ pushers \in [Path -> Pull \cup {NoPusher}]
    /\ api \in [Pull -> {"idle", "init", "refused", "failed", "answered"}]
    /\ start \in [Pull -> {"none", "client", "add", "done"}]
    /\ loop \in [Pull -> {"none", "run", "ended"}]
    /\ conn \in [Pull -> {"none", "open", "closed", "nil"}]
    /\ crashed \in BOOLEAN

FlagTypes ==
    /\ stoped \in [Pull -> BOOLEAN]
    /\ clientStoped \in [Pull -> BOOLEAN]
    /\ rtpClient \in [Pull -> BOOLEAN]
    /\ stop \in [Pull -> [Stopper -> StopPc]]

MapTypes ==
    /\ plan \in Plan
    /\ \A q \in Path : pushers[q] # NoPusher => PathOf[pushers[q]] = q /\ start[pushers[q]] = "done"

\* Before the ID is answered nobody can stop the pull; from then on there is a conn.
\* The loop runs once start has started it, and stops the pull when it has ended.
EarlyInv ==
    \A u \in Pull :
        /\ api[u] # "answered" =>
            start[u] = "none" /\ loop[u] = "none" /\ ~clientStoped[u] /\ \A c \in Stopper : stop[u][c] = "idle"
        /\ api[u] = "answered" => conn[u] # "none"
        /\ start[u] \in {"none", "client"} => loop[u] = "none"
        /\ loop[u] # "ended" => stop[u]["loop"] = "idle"

\* What each step of the chain of Stops has found or set before.
StopInv ==
    \A u \in Pull :
        /\ \A c \in ApiCaller : stop[u][c] \notin {"idle", "notFound", "session", "set"} => stoped[u]
        /\ \A c \in Stopper : stop[u][c] \in {"handle", "clientRemove", "conn", "close", "forget", "left"} => clientStoped[u]
        /\ stop[u]["loop"] \notin {"idle", "client", "clientSet"} => clientStoped[u]
        /\ ~rtpClient[u] => clientStoped[u]

\* A flag that is set has somebody behind it who goes on to the next link of the chain, or
\* the chain has been gone through.
ChainInv ==
    \A u \in Pull :
        /\ stoped[u] =>
            \/ clientStoped[u]
            \/ \E c \in ApiCaller : stop[u][c] \in {"remove", "puller", "client", "clientSet"}
        /\ clientStoped[u] =>
            /\ stoped[u] \/ \E c \in Stopper : stop[u][c] = "handle"
            /\ \/ conn[u] = "nil"
               \/ \E c \in Stopper : stop[u][c] \in {"handle", "clientRemove", "conn", "close", "forget"}

IInv == PullTypes /\ FlagTypes /\ MapTypes /\ EarlyInv /\ StopInv /\ ChainInv

\* the callers' names, and a Goto, which moves one caller of one pull
LEMMA Names ==
    /\ "loop" \in Stopper /\ "loop" \notin ApiCaller /\ ApiCaller \subseteq Stopper /\ NoPusher \notin Pull
    /\ \A c \in Stopper : c # "loop" => c \in ApiCaller
  BY PullAssumption DEF Stopper

LEMMA Moved ==
    ASSUME FlagTypes, NEW u \in Pull, NEW c \in Stopper, NEW pc, Goto(u, c, pc)
    PROVE  /\ stop'[u][c] = pc
           /\ \A d \in Stopper : d # c => stop'[u][d] = stop[u][d]
           /\ \A v \in Pull : v # u => stop'[v] = stop[v]
           /\ pc \in StopPc => stop' \in [Pull -> [Stopper -> StopPc]]
<1>1. stop \in [Pull -> [Stopper -> StopPc]]
  BY DEF FlagTypes
<1>2. stop' = [stop EXCEPT ![u] = [stop[u] EXCEPT ![c] = pc]]
  BY DEF Goto
<1>3. stop'[u] = [stop[u] EXCEPT ![c] = pc] /\ \A v \in Pull : v # u => stop'[v] = stop[v]
  BY <1>1, <1>2
<1>4. stop[u] \in [Stopper -> StopPc]
  BY <1>1
<1>5. pc \in StopPc => [stop[u] EXCEPT ![c] = pc] \in [Stopper -> StopPc]
  BY <1>4
<1>6. pc \in StopPc => stop' \in [Pull -> [Stopper -> StopPc]]
  BY <1>1, <1>2, <1>5
<1> QED BY <1>3, <1>4, <1>6

\* the types of the map, the handlers and the conns
LEMMA PullTypesStep == IInv /\ [Next]_vars => PullTypes'
<1> SUFFICES ASSUME IInv, [Next]_vars PROVE PullTypes'
  OBVIOUS
<1> USE DEF vars, startVars, flagVars, PullTypes
<1>0. PullTypes /\ MapTypes
  BY DEF IInv
<1>1. CASE UNCHANGED <<pushers, api, start, loop, conn, crashed>>
  BY <1>0, <1>1
<1>2. ASSUME NEW u \in Pull, StreamStart(u) PROVE PullTypes'
  BY <1>0, <1>2 DEF StreamStart
<1>3. ASSUME NEW u \in Pull, InitFails(u) PROVE PullTypes'
  BY <1>0, <1>3 DEF InitFails
<1>4. ASSUME NEW u \in Pull, InitSucceeds(u) PROVE PullTypes'
  BY <1>0, <1>4 DEF InitSucceeds
<1>5. ASSUME NEW u \in Pull, ClientStart(u) PROVE PullTypes'
  BY <1>0, <1>5 DEF ClientStart
<1>6. ASSUME NEW u \in Pull, AddPusher(u) PROVE PullTypes'
  <2>1. PathOf[u] \in Path
    BY <1>0, PullAssumption DEF MapTypes, PathOf
  <2> QED BY <1>0, <2>1, <1>6 DEF AddPusher
<1>7. ASSUME NEW u \in Pull, LoopEnds(u) PROVE PullTypes'
  BY <1>0, <1>7 DEF LoopEnds
<1>8. ASSUME NEW u \in Pull, NEW c \in plan.callers[u], StreamStop(u, c) PROVE PullTypes'
  BY <1>1, <1>8 DEF StreamStop
<1>9. ASSUME NEW u \in Pull, NEW c \in Stopper, SessionHandle(u, c) PROVE PullTypes'
  <2>1. pushers' \in [Path -> Pull \cup {NoPusher}]
    BY <1>0, <1>9 DEF SessionHandle, RemovePusher
  <2> QED BY <1>0, <2>1, <1>9 DEF SessionHandle
<1>10. ASSUME NEW u \in Pull, NEW c \in Stopper, ClientRemove(u, c) PROVE PullTypes'
  <2>1. pushers' \in [Path -> Pull \cup {NoPusher}]
    BY <1>0, <1>10 DEF ClientRemove, RemovePusher
  <2> QED BY <1>0, <2>1, <1>10 DEF ClientRemove
<1>11. ASSUME NEW u \in Pull, NEW c \in Stopper, ConnClose(u, c) PROVE PullTypes'
  <2>1. conn' \in [Pull -> {"none", "open", "closed", "nil"}] /\ crashed' \in BOOLEAN
    BY <1>0, <1>11 DEF ConnClose
  <2> QED BY <1>0, <2>1, <1>11 DEF ConnClose
<1>11a. ASSUME NEW u \in Pull, NEW c \in Stopper, ConnForget(u, c) PROVE PullTypes'
  <2>1. conn' \in [Pull -> {"none", "open", "closed", "nil"}] /\ crashed' \in BOOLEAN
    BY <1>0, <1>11a DEF ConnForget
  <2> QED BY <1>0, <2>1, <1>11a DEF ConnForget
<1>12. ASSUME NEW u \in Pull, NEW c \in Stopper, SessionStop(u, c) \/ PullerStop(u, c) \/ ClientStop(u, c) \/
      ClientSet(u, c) \/ ClientHandle(u, c) \/ ConnTest(u, c) \/ ClientLeft(u, c) PROVE PullTypes'
  BY <1>1, <1>12 DEF SessionStop, PullerStop, ClientStop, ClientSet, ClientHandle, ConnTest, ClientLeft
<1>13. CASE UNCHANGED vars
  BY <1>1, <1>13
<1> QED BY <1>1, <1>2, <1>3, <1>4, <1>5, <1>6, <1>7, <1>8, <1>9, <1>10, <1>11a, <1>11, <1>12, <1>13 DEF Next, Starting,
      Stopping

\* the types of the flags and of the callers
LEMMA FlagTypesStep == IInv /\ [Next]_vars => FlagTypes'
<1> SUFFICES ASSUME IInv, [Next]_vars PROVE FlagTypes'
  OBVIOUS
<1> USE DEF vars, startVars, flagVars, FlagTypes
<1>0. FlagTypes /\ MapTypes
  BY DEF IInv
<1>1. CASE UNCHANGED <<flagVars, stop>>
  BY <1>0, <1>1
<1>2. ASSUME NEW u \in Pull, LoopEnds(u) PROVE FlagTypes'
  <2>1. \E pc \in StopPc : Goto(u, "loop", pc)
    BY <1>2 DEF LoopEnds, StopPc
  <2>2. stop' \in [Pull -> [Stopper -> StopPc]]
    BY <1>0, <2>1, Moved, Names
  <2> QED BY <1>0, <2>2, <1>2 DEF LoopEnds
<1>3. ASSUME NEW u \in Pull, StreamStart(u) \/ InitFails(u) \/ InitSucceeds(u) \/ ClientStart(u) \/ AddPusher(u) PROVE
      FlagTypes'
  BY <1>1, <1>3 DEF StreamStart, InitFails, InitSucceeds, ClientStart, AddPusher
<1>4. ASSUME NEW u \in Pull, NEW c \in plan.callers[u], StreamStop(u, c) PROVE FlagTypes'
  <2>1. c \in Stopper
    BY <1>0, PullAssumption, Names DEF MapTypes
  <2>2. \E pc \in StopPc : Goto(u, c, pc)
    BY <1>4 DEF StreamStop, StopPc
  <2>3. stop' \in [Pull -> [Stopper -> StopPc]]
    BY <1>0, <2>1, <2>2, Moved
  <2> QED BY <1>0, <2>3, <1>4 DEF StreamStop
<1>5. ASSUME NEW u \in Pull, NEW c \in Stopper, SessionStop(u, c) PROVE FlagTypes'
  <2>1. \E pc \in StopPc : Goto(u, c, pc)
    BY <1>5 DEF SessionStop, StopPc
  <2>2. stop' \in [Pull -> [Stopper -> StopPc]]
    BY <1>0, <2>1, Moved, Names
  <2> QED BY <1>0, <2>2, <1>5 DEF SessionStop
<1>6. ASSUME NEW u \in Pull, NEW c \in Stopper, SessionHandle(u, c) PROVE FlagTypes'
  <2>1. \E pc \in StopPc : Goto(u, c, pc)
    BY <1>6 DEF SessionHandle, StopPc
  <2>2. stop' \in [Pull -> [Stopper -> StopPc]]
    BY <1>0, <2>1, Moved, Names
  <2> QED BY <1>0, <2>2, <1>6 DEF SessionHandle
<1>7. ASSUME NEW u \in Pull, NEW c \in Stopper, PullerStop(u, c) PROVE FlagTypes'
  <2>1. \E pc \in StopPc : Goto(u, c, pc)
    BY <1>7 DEF PullerStop, StopPc
  <2>2. stop' \in [Pull -> [Stopper -> StopPc]]
    BY <1>0, <2>1, Moved, Names
  <2> QED BY <1>0, <2>2, <1>7 DEF PullerStop
<1>8. ASSUME NEW u \in Pull, NEW c \in Stopper, ClientStop(u, c) PROVE FlagTypes'
  <2>1. \E pc \in StopPc : Goto(u, c, pc)
    BY <1>8 DEF ClientStop, StopPc
  <2>2. stop' \in [Pull -> [Stopper -> StopPc]]
    BY <1>0, <2>1, Moved, Names
  <2> QED BY <1>0, <2>2, <1>8 DEF ClientStop
<1>9. ASSUME NEW u \in Pull, NEW c \in Stopper, ClientSet(u, c) PROVE FlagTypes'
  <2>1. \E pc \in StopPc : Goto(u, c, pc)
    BY <1>9 DEF ClientSet, StopPc
  <2>2. stop' \in [Pull -> [Stopper -> StopPc]]
    BY <1>0, <2>1, Moved, Names
  <2> QED BY <1>0, <2>2, <1>9 DEF ClientSet
<1>10. ASSUME NEW u \in Pull, NEW c \in Stopper, ClientHandle(u, c) PROVE FlagTypes'
  <2>1. \E pc \in StopPc : Goto(u, c, pc)
    BY <1>10 DEF ClientHandle, StopPc
  <2>2. stop' \in [Pull -> [Stopper -> StopPc]]
    BY <1>0, <2>1, Moved, Names
  <2> QED BY <1>0, <2>2, <1>10 DEF ClientHandle
<1>11. ASSUME NEW u \in Pull, NEW c \in Stopper, ClientRemove(u, c) PROVE FlagTypes'
  <2>1. \E pc \in StopPc : Goto(u, c, pc)
    BY <1>11 DEF ClientRemove, StopPc
  <2>2. stop' \in [Pull -> [Stopper -> StopPc]]
    BY <1>0, <2>1, Moved, Names
  <2> QED BY <1>0, <2>2, <1>11 DEF ClientRemove
<1>12. ASSUME NEW u \in Pull, NEW c \in Stopper, ConnTest(u, c) PROVE FlagTypes'
  <2>1. \E pc \in StopPc : Goto(u, c, pc)
    BY <1>12 DEF ConnTest, StopPc
  <2>2. stop' \in [Pull -> [Stopper -> StopPc]]
    BY <1>0, <2>1, Moved, Names
  <2> QED BY <1>0, <2>2, <1>12 DEF ConnTest
<1>13. ASSUME NEW u \in Pull, NEW c \in Stopper, ConnClose(u, c) PROVE FlagTypes'
  <2>1. \E pc \in StopPc : Goto(u, c, pc)
    BY <1>13 DEF ConnClose, StopPc
  <2>2. stop' \in [Pull -> [Stopper -> StopPc]]
    BY <1>0, <2>1, Moved, Names
  <2> QED BY <1>0, <2>2, <1>13 DEF ConnClose
<1>13a. ASSUME NEW u \in Pull, NEW c \in Stopper, ConnForget(u, c) PROVE FlagTypes'
  <2>1. \E pc \in StopPc : Goto(u, c, pc)
    BY <1>13a DEF ConnForget, StopPc
  <2>2. stop' \in [Pull -> [Stopper -> StopPc]]
    BY <1>0, <2>1, Moved, Names
  <2> QED BY <1>0, <2>2, <1>13a DEF ConnForget
<1>14. ASSUME NEW u \in Pull, NEW c \in Stopper, ClientLeft(u, c) PROVE FlagTypes'
  <2>1. \E pc \in StopPc : Goto(u, c, pc)
    BY <1>14 DEF ClientLeft, StopPc
  <2>2. stop' \in [Pull -> [Stopper -> StopPc]]
    BY <1>0, <2>1, Moved, Names
  <2> QED BY <1>0, <2>2, <1>14 DEF ClientLeft
<1>15. CASE UNCHANGED vars
  BY <1>1, <1>15
<1> QED BY <1>1, <1>2, <1>3, <1>4, <1>5, <1>6, <1>7, <1>8, <1>9, <1>10, <1>11, <1>12, <1>13a, <1>13, <1>14, <1>15 DEF Next,
      Starting, Stopping

\* an entry of the map is made by the pull whose path it is, when it has started
LEMMA MapTypesStep == IInv /\ [Next]_vars => MapTypes'
<1> SUFFICES ASSUME IInv, [Next]_vars PROVE MapTypes'
  OBVIOUS
<1> USE DEF vars, startVars, flagVars, MapTypes
<1>0. MapTypes /\ PullTypes /\ EarlyInv
  BY DEF IInv
<1>00. plan' = plan
  BY DEF Next, Running
<1>1. CASE UNCHANGED <<pushers, start>>
  BY <1>0, <1>00, <1>1 DEF PathOf
<1>2. ASSUME NEW u \in Pull, InitSucceeds(u) PROVE MapTypes'
  <2>1. \A v \in Pull : start[v] = "done" => start'[v] = "done"
    BY <1>0, <1>00, <1>2 DEF InitSucceeds, PullTypes, EarlyInv
  <2> QED BY <1>0, <1>00, <2>1, <1>2 DEF InitSucceeds, PullTypes, PathOf
<1>3. ASSUME NEW u \in Pull, ClientStart(u) PROVE MapTypes'
  <2>1. \A v \in Pull : start[v] = "done" => start'[v] = "done"
    BY <1>0, <1>00, <1>3 DEF ClientStart, PullTypes
  <2> QED BY <1>0, <1>00, <2>1, <1>3 DEF ClientStart, PullTypes, PathOf
<1>4. ASSUME NEW u \in Pull, AddPusher(u) PROVE MapTypes'
  <2>1. (\A v \in Pull : start[v] = "done" => start'[v] = "done") /\ start'[u] = "done"
    BY <1>0, <1>00, <1>4 DEF AddPusher, PullTypes
  <2>2. \A q \in Path : pushers'[q] = pushers[q] \/ (pushers'[q] = u /\ q = PathOf[u])
    BY <1>0, <1>00, <1>4 DEF AddPusher, PullTypes
  <2> QED BY <1>0, <1>00, <2>1, <2>2, <1>4, PullAssumption DEF PullTypes, PathOf
<1>5. ASSUME NEW u \in Pull, StreamStart(u) \/ InitFails(u) \/ LoopEnds(u) PROVE MapTypes'
  BY <1>1, <1>00, <1>5 DEF StreamStart, InitFails, LoopEnds
<1>6. ASSUME NEW u \in Pull, NEW c \in plan.callers[u], StreamStop(u, c) PROVE MapTypes'
  BY <1>1, <1>00, <1>6 DEF StreamStop
<1>7. ASSUME NEW u \in Pull, NEW c \in Stopper, SessionHandle(u, c) PROVE MapTypes'
  <2>1. \A q \in Path : pushers'[q] \in {pushers[q], NoPusher}
    BY <1>0, <1>00, <1>7 DEF SessionHandle, RemovePusher, PullTypes
  <2>2. UNCHANGED start
    BY <1>7 DEF SessionHandle
  <2> QED BY <1>0, <1>00, <2>1, <2>2 DEF PathOf
<1>8. ASSUME NEW u \in Pull, NEW c \in Stopper, ClientRemove(u, c) PROVE MapTypes'
  <2>1. \A q \in Path : pushers'[q] \in {pushers[q], NoPusher}
    BY <1>0, <1>00, <1>8 DEF ClientRemove, RemovePusher, PullTypes
  <2>2. UNCHANGED start
    BY <1>8 DEF ClientRemove
  <2> QED BY <1>0, <1>00, <2>1, <2>2 DEF PathOf
<1>9. ASSUME NEW u \in Pull, NEW c \in Stopper, SessionStop(u, c) \/ PullerStop(u, c) \/ ClientStop(u, c) \/
      ClientSet(u, c) \/ ClientHandle(u, c) \/ ConnTest(u, c) \/ ConnClose(u, c) \/ ConnForget(u, c) \/ ClientLeft(u, c) PROVE MapTypes'
  BY <1>1, <1>00, <1>9 DEF SessionStop, PullerStop, ClientStop, ClientSet, ClientHandle, ConnTest, ConnClose,
     ConnForget, ClientLeft
<1>10. CASE UNCHANGED vars
  BY <1>1, <1>00, <1>10
<1> QED BY <1>1, <1>2, <1>3, <1>4, <1>5, <1>6, <1>7, <1>8, <1>9, <1>10 DEF Next, Starting, Stopping

\* a caller moves only when the pull has been answered, the loop's only when it has ended
LEMMA EarlyStep == IInv /\ [Next]_vars => EarlyInv'
<1> SUFFICES ASSUME IInv, [Next]_vars PROVE EarlyInv'
  OBVIOUS
<1> USE DEF vars, startVars, flagVars, EarlyInv
<1>0. EarlyInv /\ PullTypes /\ FlagTypes /\ MapTypes
  BY DEF IInv
<1>1. CASE UNCHANGED <<api, start, loop, conn, clientStoped, stop>>
  BY <1>0, <1>1
<1>2. ASSUME NEW u \in Pull, StreamStart(u) PROVE EarlyInv'
  <2>1. UNCHANGED <<stop, clientStoped>>
    BY <1>2 DEF StreamStart
  <2> QED BY <1>0, <2>1, <1>2 DEF StreamStart, PullTypes
<1>3. ASSUME NEW u \in Pull, InitFails(u) PROVE EarlyInv'
  <2>1. UNCHANGED <<stop, clientStoped>>
    BY <1>3 DEF InitFails
  <2> QED BY <1>0, <2>1, <1>3 DEF InitFails, PullTypes
<1>4. ASSUME NEW u \in Pull, InitSucceeds(u) PROVE EarlyInv'
  <2>1. UNCHANGED <<stop, clientStoped>>
    BY <1>4 DEF InitSucceeds
  <2> QED BY <1>0, <2>1, <1>4 DEF InitSucceeds, PullTypes
<1>5. ASSUME NEW u \in Pull, ClientStart(u) PROVE EarlyInv'
  <2>1. UNCHANGED <<stop, clientStoped, api, conn>>
    BY <1>5 DEF ClientStart
  <2>2. api[u] = "answered"
    BY <1>0, <1>5 DEF ClientStart
  <2>3. loop' = [loop EXCEPT ![u] = "run"] /\ start' = [start EXCEPT ![u] = "add"]
    BY <1>5 DEF ClientStart
  <2>4. stop[u]["loop"] = "idle"
    <3>1. start[u] = "client"
      BY <1>5 DEF ClientStart
    <3> QED BY <1>0, <3>1
  <2> QED BY <1>0, <2>1, <2>2, <2>3, <2>4 DEF PullTypes
<1>6. ASSUME NEW u \in Pull, AddPusher(u) PROVE EarlyInv'
  BY <1>0, <1>6 DEF AddPusher, PullTypes
<1>7. ASSUME NEW u \in Pull, LoopEnds(u) PROVE EarlyInv'
  <2>1. stop'[u]["loop"] = "client" /\ \A v \in Pull : v # u => stop'[v] = stop[v]
    BY <1>0, <1>7, Moved, Names DEF LoopEnds
  <2>2. api[u] = "answered" /\ loop'[u] = "ended" /\ \A v \in Pull : v # u => loop'[v] = loop[v]
    BY <1>0, <1>7 DEF LoopEnds, PullTypes
  <2> QED BY <1>0, <2>1, <2>2, <1>7 DEF LoopEnds
<1>8. ASSUME NEW u \in Pull, NEW c \in plan.callers[u], StreamStop(u, c) PROVE EarlyInv'
  <2>0. c \in ApiCaller /\ c \in Stopper /\ c # "loop"
    BY <1>0, PullAssumption, Names DEF MapTypes
  <2>1. \E pc \in StopPc : Goto(u, c, pc)
    BY <1>8 DEF StreamStop, StopPc
  <2>2. (\A d \in Stopper : d # c => stop'[u][d] = stop[u][d]) /\ \A v \in Pull : v # u => stop'[v] = stop[v]
    BY <1>0, <2>0, <2>1, Moved
  <2> QED BY <1>0, <2>0, <2>2, <1>8, Names DEF StreamStop
<1>9. ASSUME NEW u \in Pull, NEW c \in Stopper, SessionStop(u, c) PROVE EarlyInv'
  <2>1. \E pc \in StopPc : Goto(u, c, pc)
    BY <1>9 DEF SessionStop, StopPc
  <2>2. (\A d \in Stopper : d # c => stop'[u][d] = stop[u][d]) /\ \A v \in Pull : v # u => stop'[v] = stop[v]
    BY <1>0, <2>1, Moved
  <2>3. stop[u][c] # "idle"
    BY <1>9 DEF SessionStop
  <2>4. api[u] = "answered" /\ (c = "loop" => loop[u] = "ended")
    BY <1>0, <2>3
  <2>5. UNCHANGED <<api, start, loop>> /\ \A v \in Pull : v # u => clientStoped'[v] = clientStoped[v]
    BY <1>0, <1>9 DEF SessionStop, FlagTypes
  <2>6. \A v \in Pull : conn'[v] = conn[v] \/ conn'[v] = "closed"
    BY <1>0, <1>9 DEF SessionStop, PullTypes
  <2> QED BY <1>0, <2>2, <2>4, <2>5, <2>6, Names
<1>10. ASSUME NEW u \in Pull, NEW c \in Stopper, SessionHandle(u, c) PROVE EarlyInv'
  <2>1. \E pc \in StopPc : Goto(u, c, pc)
    BY <1>10 DEF SessionHandle, StopPc
  <2>2. (\A d \in Stopper : d # c => stop'[u][d] = stop[u][d]) /\ \A v \in Pull : v # u => stop'[v] = stop[v]
    BY <1>0, <2>1, Moved
  <2>3. stop[u][c] # "idle"
    BY <1>10 DEF SessionHandle
  <2>4. api[u] = "answered" /\ (c = "loop" => loop[u] = "ended")
    BY <1>0, <2>3
  <2>5. UNCHANGED <<api, start, loop>> /\ \A v \in Pull : v # u => clientStoped'[v] = clientStoped[v]
    BY <1>0, <1>10 DEF SessionHandle, FlagTypes
  <2>6. \A v \in Pull : conn'[v] = conn[v] \/ conn'[v] = "closed"
    BY <1>0, <1>10 DEF SessionHandle, PullTypes
  <2> QED BY <1>0, <2>2, <2>4, <2>5, <2>6, Names
<1>11. ASSUME NEW u \in Pull, NEW c \in Stopper, PullerStop(u, c) PROVE EarlyInv'
  <2>1. \E pc \in StopPc : Goto(u, c, pc)
    BY <1>11 DEF PullerStop, StopPc
  <2>2. (\A d \in Stopper : d # c => stop'[u][d] = stop[u][d]) /\ \A v \in Pull : v # u => stop'[v] = stop[v]
    BY <1>0, <2>1, Moved
  <2>3. stop[u][c] # "idle"
    BY <1>11 DEF PullerStop
  <2>4. api[u] = "answered" /\ (c = "loop" => loop[u] = "ended")
    BY <1>0, <2>3
  <2>5. UNCHANGED <<api, start, loop>> /\ \A v \in Pull : v # u => clientStoped'[v] = clientStoped[v]
    BY <1>0, <1>11 DEF PullerStop, FlagTypes
  <2>6. \A v \in Pull : conn'[v] = conn[v] \/ conn'[v] = "closed"
    BY <1>0, <1>11 DEF PullerStop, PullTypes
  <2> QED BY <1>0, <2>2, <2>4, <2>5, <2>6, Names
<1>12. ASSUME NEW u \in Pull, NEW c \in Stopper, ClientStop(u, c) PROVE EarlyInv'
  <2>1. \E pc \in StopPc : Goto(u, c, pc)
    BY <1>12 DEF ClientStop, StopPc
  <2>2. (\A d \in Stopper : d # c => stop'[u][d] = stop[u][d]) /\ \A v \in Pull : v # u => stop'[v] = stop[v]
    BY <1>0, <2>1, Moved
  <2>3. stop[u][c] # "idle"
    BY <1>12 DEF ClientStop
  <2>4. api[u] = "answered" /\ (c = "loop" => loop[u] = "ended")
    BY <1>0, <2>3
  <2>5. UNCHANGED <<api, start, loop>> /\ \A v \in Pull : v # u => clientStoped'[v] = clientStoped[v]
    BY <1>0, <1>12 DEF ClientStop, FlagTypes
  <2>6. \A v \in Pull : conn'[v] = conn[v] \/ conn'[v] = "closed"
    BY <1>0, <1>12 DEF ClientStop, PullTypes
  <2> QED BY <1>0, <2>2, <2>4, <2>5, <2>6, Names
<1>13. ASSUME NEW u \in Pull, NEW c \in Stopper, ClientSet(u, c) PROVE EarlyInv'
  <2>1. \E pc \in StopPc : Goto(u, c, pc)
    BY <1>13 DEF ClientSet, StopPc
  <2>2. (\A d \in Stopper : d # c => stop'[u][d] = stop[u][d]) /\ \A v \in Pull : v # u => stop'[v] = stop[v]
    BY <1>0, <2>1, Moved
  <2>3. stop[u][c] # "idle"
    BY <1>13 DEF ClientSet
  <2>4. api[u] = "answered" /\ (c = "loop" => loop[u] = "ended")
    BY <1>0, <2>3
  <2>5. UNCHANGED <<api, start, loop>> /\ \A v \in Pull : v # u => clientStoped'[v] = clientStoped[v]
    BY <1>0, <1>13 DEF ClientSet, FlagTypes
  <2>6. \A v \in Pull : conn'[v] = conn[v] \/ conn'[v] = "closed"
    BY <1>0, <1>13 DEF ClientSet, PullTypes
  <2> QED BY <1>0, <2>2, <2>4, <2>5, <2>6, Names
<1>14. ASSUME NEW u \in Pull, NEW c \in Stopper, ClientHandle(u, c) PROVE EarlyInv'
  <2>1. \E pc \in StopPc : Goto(u, c, pc)
    BY <1>14 DEF ClientHandle, StopPc
  <2>2. (\A d \in Stopper : d # c => stop'[u][d] = stop[u][d]) /\ \A v \in Pull : v # u => stop'[v] = stop[v]
    BY <1>0, <2>1, Moved
  <2>3. stop[u][c] # "idle"
    BY <1>14 DEF ClientHandle
  <2>4. api[u] = "answered" /\ (c = "loop" => loop[u] = "ended")
    BY <1>0, <2>3
  <2>5. UNCHANGED <<api, start, loop>> /\ \A v \in Pull : v # u => clientStoped'[v] = clientStoped[v]
    BY <1>0, <1>14 DEF ClientHandle, FlagTypes
  <2>6. \A v \in Pull : conn'[v] = conn[v] \/ conn'[v] = "closed"
    BY <1>0, <1>14 DEF ClientHandle, PullTypes
  <2> QED BY <1>0, <2>2, <2>4, <2>5, <2>6, Names
<1>15. ASSUME NEW u \in Pull, NEW c \in Stopper, ClientRemove(u, c) PROVE EarlyInv'
  <2>1. \E pc \in StopPc : Goto(u, c, pc)
    BY <1>15 DEF ClientRemove, StopPc
  <2>2. (\A d \in Stopper : d # c => stop'[u][d] = stop[u][d]) /\ \A v \in Pull : v # u => stop'[v] = stop[v]
    BY <1>0, <2>1, Moved
  <2>3. stop[u][c] # "idle"
    BY <1>15 DEF ClientRemove
  <2>4. api[u] = "answered" /\ (c = "loop" => loop[u] = "ended")
    BY <1>0, <2>3
  <2>5. UNCHANGED <<api, start, loop>> /\ \A v \in Pull : v # u => clientStoped'[v] = clientStoped[v]
    BY <1>0, <1>15 DEF ClientRemove, FlagTypes
  <2>6. \A v \in Pull : conn'[v] = conn[v] \/ conn'[v] = "closed"
    BY <1>0, <1>15 DEF ClientRemove, PullTypes
  <2> QED BY <1>0, <2>2, <2>4, <2>5, <2>6, Names
<1>16. ASSUME NEW u \in Pull, NEW c \in Stopper, ConnTest(u, c) PROVE EarlyInv'
  <2>1. \E pc \in StopPc : Goto(u, c, pc)
    BY <1>16 DEF ConnTest, StopPc
  <2>2. (\A d \in Stopper : d # c => stop'[u][d] = stop[u][d]) /\ \A v \in Pull : v # u => stop'[v] = stop[v]
    BY <1>0, <2>1, Moved
  <2>3. stop[u][c] # "idle"
    BY <1>16 DEF ConnTest
  <2>4. api[u] = "answered" /\ (c = "loop" => loop[u] = "ended")
    BY <1>0, <2>3
  <2>5. UNCHANGED <<api, start, loop>> /\ \A v \in Pull : v # u => clientStoped'[v] = clientStoped[v]
    BY <1>0, <1>16 DEF ConnTest, FlagTypes
  <2>6. \A v \in Pull : conn'[v] = conn[v] \/ conn'[v] = "closed"
    BY <1>0, <1>16 DEF ConnTest, PullTypes
  <2> QED BY <1>0, <2>2, <2>4, <2>5, <2>6, Names
<1>17. ASSUME NEW u \in Pull, NEW c \in Stopper, ConnClose(u, c) PROVE EarlyInv'
  <2>1. \E pc \in StopPc : Goto(u, c, pc)
    BY <1>17 DEF ConnClose, StopPc
  <2>2. (\A d \in Stopper : d # c => stop'[u][d] = stop[u][d]) /\ \A v \in Pull : v # u => stop'[v] = stop[v]
    BY <1>0, <2>1, Moved
  <2>3. stop[u][c] # "idle"
    BY <1>17 DEF ConnClose
  <2>4. api[u] = "answered" /\ (c = "loop" => loop[u] = "ended")
    BY <1>0, <2>3
  <2>5. UNCHANGED <<api, start, loop>> /\ \A v \in Pull : v # u => clientStoped'[v] = clientStoped[v]
    BY <1>0, <1>17 DEF ConnClose, FlagTypes
  <2>6. \A v \in Pull : conn'[v] = conn[v] \/ conn'[v] = "closed"
    BY <1>0, <1>17 DEF ConnClose, PullTypes
  <2> QED BY <1>0, <2>2, <2>4, <2>5, <2>6, Names
<1>17a. ASSUME NEW u \in Pull, NEW c \in Stopper, ConnForget(u, c) PROVE EarlyInv'
  <2>1. \E pc \in StopPc : Goto(u, c, pc)
    BY <1>17a DEF ConnForget, StopPc
  <2>2. (\A d \in Stopper : d # c => stop'[u][d] = stop[u][d]) /\ \A v \in Pull : v # u => stop'[v] = stop[v]
    BY <1>0, <2>1, Moved
  <2>3. stop[u][c] # "idle"
    BY <1>17a DEF ConnForget
  <2>4. api[u] = "answered" /\ (c = "loop" => loop[u] = "ended")
    BY <1>0, <2>3
  <2>5. UNCHANGED <<api, start, loop>> /\ \A v \in Pull : v # u => clientStoped'[v] = clientStoped[v]
    BY <1>0, <1>17a DEF ConnForget, FlagTypes
  <2>6. \A v \in Pull : conn'[v] = conn[v] \/ conn'[v] = "nil"
    BY <1>0, <1>17a DEF ConnForget, PullTypes
  <2> QED BY <1>0, <2>2, <2>4, <2>5, <2>6, Names
<1>18. ASSUME NEW u \in Pull, NEW c \in Stopper, ClientLeft(u, c) PROVE EarlyInv'
  <2>1. \E pc \in StopPc : Goto(u, c, pc)
    BY <1>18 DEF ClientLeft, StopPc
  <2>2. (\A d \in Stopper : d # c => stop'[u][d] = stop[u][d]) /\ \A v \in Pull : v # u => stop'[v] = stop[v]
    BY <1>0, <2>1, Moved
  <2>3. stop[u][c] # "idle"
    BY <1>18 DEF ClientLeft
  <2>4. api[u] = "answered" /\ (c = "loop" => loop[u] = "ended")
    BY <1>0, <2>3
  <2>5. UNCHANGED <<api, start, loop>> /\ \A v \in Pull : v # u => clientStoped'[v] = clientStoped[v]
    BY <1>0, <1>18 DEF ClientLeft, FlagTypes
  <2>6. \A v \in Pull : conn'[v] = conn[v] \/ conn'[v] = "closed"
    BY <1>0, <1>18 DEF ClientLeft, PullTypes
  <2> QED BY <1>0, <2>2, <2>4, <2>5, <2>6, Names
<1>19. CASE UNCHANGED vars
  BY <1>1, <1>19
<1> QED BY <1>1, <1>2, <1>3, <1>4, <1>5, <1>6, <1>7, <1>8, <1>9, <1>10, <1>11, <1>12, <1>13, <1>14, <1>15, <1>16,
      <1>17a, <1>17, <1>18, <1>19 DEF Next, Starting, Stopping

\* a Stop goes on only behind a flag that it has set or found set
LEMMA StopStep == IInv /\ [Next]_vars => StopInv'
<1> SUFFICES ASSUME IInv, [Next]_vars PROVE StopInv'
  OBVIOUS
<1> USE DEF vars, startVars, flagVars, StopInv
<1>0. StopInv /\ FlagTypes /\ MapTypes /\ EarlyInv
  BY DEF IInv
<1>1. CASE UNCHANGED <<flagVars, stop>>
  BY <1>0, <1>1
<1>2. ASSUME NEW u \in Pull, LoopEnds(u) PROVE StopInv'
  <2>1. stop'[u]["loop"] = "client" /\ (\A d \in Stopper : d # "loop" => stop'[u][d] = stop[u][d])
        /\ \A v \in Pull : v # u => stop'[v] = stop[v]
    BY <1>0, <1>2, Moved, Names DEF LoopEnds
  <2> QED BY <1>0, <2>1, <1>2, Names DEF LoopEnds
<1>3. ASSUME NEW u \in Pull, StreamStart(u) \/ InitFails(u) \/ InitSucceeds(u) \/ ClientStart(u) \/ AddPusher(u) PROVE
      StopInv'
  BY <1>1, <1>3 DEF StreamStart, InitFails, InitSucceeds, ClientStart, AddPusher
<1>4. ASSUME NEW u \in Pull, NEW c \in plan.callers[u], StreamStop(u, c) PROVE StopInv'
  <2>0. c \in ApiCaller /\ c \in Stopper /\ c # "loop"
    BY <1>0, PullAssumption, Names DEF MapTypes
  <2>1. stop[u][c] = "idle" /\ \E pc \in {"session", "notFound"} : Goto(u, c, pc)
    BY <1>4 DEF StreamStop
  <2>2. stop'[u][c] \in {"session", "notFound"} /\ (\A d \in Stopper : d # c => stop'[u][d] = stop[u][d])
        /\ \A v \in Pull : v # u => stop'[v] = stop[v]
    BY <1>0, <2>0, <2>1, Moved
  <2> QED BY <1>0, <2>0, <2>2, <1>4, Names DEF StreamStop
<1>5. ASSUME NEW u \in Pull, NEW c \in Stopper, SessionStop(u, c) PROVE StopInv'
  <2>1. stop[u][c] \in {"session", "set"} /\ \E pc \in {"done", "set", "remove"} : Goto(u, c, pc)
    BY <1>5 DEF SessionStop
  <2>2. stop'[u][c] \in {"done", "set", "remove"} /\ (\A d \in Stopper : d # c => stop'[u][d] = stop[u][d])
        /\ \A v \in Pull : v # u => stop'[v] = stop[v]
    BY <1>0, <2>1, Moved
  <2>3. \A v \in Pull : v # u => stoped'[v] = stoped[v] /\ clientStoped'[v] = clientStoped[v] /\ rtpClient'[v] =
     rtpClient[v]
    BY <1>0, <1>5 DEF SessionStop, FlagTypes
  <2>4. (stoped[u] => stoped'[u]) /\ UNCHANGED <<clientStoped, rtpClient>>
    BY <1>0, <1>5 DEF SessionStop, FlagTypes
  <2>5. stop'[u][c] # "set" => stoped'[u]
    <3>1. CASE stop[u][c] = "session"
      <4>1. Goto(u, c, IF stoped[u] THEN "done" ELSE "set")
        BY <3>1, <1>5 DEF SessionStop
      <4> QED BY <1>0, <2>4, <4>1, Moved
    <3>2. CASE stop[u][c] = "set"
      BY <1>0, <3>2, <1>5 DEF SessionStop, FlagTypes
    <3> QED BY <2>1, <3>1, <3>2
  <2> QED BY <1>0, <2>1, <2>2, <2>3, <2>4, <2>5, Names
<1>6. ASSUME NEW u \in Pull, NEW c \in Stopper, SessionHandle(u, c) PROVE StopInv'
  <2>1. stop[u][c] \in {"remove"} /\ \E pc \in {"puller"} : Goto(u, c, pc)
    BY <1>6 DEF SessionHandle
  <2>2. stop'[u][c] \in {"puller"} /\ (\A d \in Stopper : d # c => stop'[u][d] = stop[u][d])
        /\ \A v \in Pull : v # u => stop'[v] = stop[v]
    BY <1>0, <2>1, Moved
  <2>3. \A v \in Pull : v # u => stoped'[v] = stoped[v] /\ clientStoped'[v] = clientStoped[v] /\ rtpClient'[v] =
     rtpClient[v]
    BY <1>0, <1>6 DEF SessionHandle, FlagTypes
  <2>4. UNCHANGED flagVars
    BY <1>6 DEF SessionHandle
  <2> QED BY <1>0, <2>1, <2>2, <2>3, <2>4, Names
<1>7. ASSUME NEW u \in Pull, NEW c \in Stopper, PullerStop(u, c) PROVE StopInv'
  <2>1. stop[u][c] \in {"puller"} /\ \E pc \in {"client", "done"} : Goto(u, c, pc)
    BY <1>7 DEF PullerStop
  <2>2. stop'[u][c] \in {"client", "done"} /\ (\A d \in Stopper : d # c => stop'[u][d] = stop[u][d])
        /\ \A v \in Pull : v # u => stop'[v] = stop[v]
    BY <1>0, <2>1, Moved
  <2>3. \A v \in Pull : v # u => stoped'[v] = stoped[v] /\ clientStoped'[v] = clientStoped[v] /\ rtpClient'[v] =
     rtpClient[v]
    BY <1>0, <1>7 DEF PullerStop, FlagTypes
  <2>4. UNCHANGED flagVars
    BY <1>7 DEF PullerStop
  <2> QED BY <1>0, <2>1, <2>2, <2>3, <2>4, Names
<1>8. ASSUME NEW u \in Pull, NEW c \in Stopper, ClientStop(u, c) PROVE StopInv'
  <2>1. stop[u][c] \in {"client"} /\ \E pc \in {"panicked", "left", "clientSet"} : Goto(u, c, pc)
    BY <1>8 DEF ClientStop
  <2>2. stop'[u][c] \in {"panicked", "left", "clientSet"} /\ (\A d \in Stopper : d # c => stop'[u][d] = stop[u][d])
        /\ \A v \in Pull : v # u => stop'[v] = stop[v]
    BY <1>0, <2>1, Moved
  <2>3. \A v \in Pull : v # u => stoped'[v] = stoped[v] /\ clientStoped'[v] = clientStoped[v] /\ rtpClient'[v] =
     rtpClient[v]
    BY <1>0, <1>8 DEF ClientStop, FlagTypes
  <2>4. UNCHANGED flagVars
    BY <1>8 DEF ClientStop
  <2>5. stop'[u][c] = "clientSet" \/ (stop'[u][c] = "panicked" /\ c # "loop" /\ ~rtpClient[u])
        \/ (stop'[u][c] = "left" /\ clientStoped[u])
    BY <1>0, <1>8, Moved DEF ClientStop
  <2> QED BY <1>0, <2>1, <2>2, <2>3, <2>4, <2>5, Names
<1>9. ASSUME NEW u \in Pull, NEW c \in Stopper, ClientSet(u, c) PROVE StopInv'
  <2>1. stop[u][c] \in {"clientSet"} /\ \E pc \in {"handle"} : Goto(u, c, pc)
    BY <1>9 DEF ClientSet
  <2>2. stop'[u][c] \in {"handle"} /\ (\A d \in Stopper : d # c => stop'[u][d] = stop[u][d])
        /\ \A v \in Pull : v # u => stop'[v] = stop[v]
    BY <1>0, <2>1, Moved
  <2>3. \A v \in Pull : v # u => stoped'[v] = stoped[v] /\ clientStoped'[v] = clientStoped[v] /\ rtpClient'[v] =
     rtpClient[v]
    BY <1>0, <1>9 DEF ClientSet, FlagTypes
  <2>4. clientStoped'[u] /\ UNCHANGED <<stoped, rtpClient>>
    BY <1>0, <1>9 DEF ClientSet, FlagTypes
  <2> QED BY <1>0, <2>1, <2>2, <2>3, <2>4, Names
<1>10. ASSUME NEW u \in Pull, NEW c \in Stopper, ClientHandle(u, c) PROVE StopInv'
  <2>1. stop[u][c] \in {"handle"} /\ \E pc \in {"clientRemove"} : Goto(u, c, pc)
    BY <1>10 DEF ClientHandle
  <2>2. stop'[u][c] \in {"clientRemove"} /\ (\A d \in Stopper : d # c => stop'[u][d] = stop[u][d])
        /\ \A v \in Pull : v # u => stop'[v] = stop[v]
    BY <1>0, <2>1, Moved
  <2>3. \A v \in Pull : v # u => stoped'[v] = stoped[v] /\ clientStoped'[v] = clientStoped[v] /\ rtpClient'[v] =
     rtpClient[v]
    BY <1>0, <1>10 DEF ClientHandle, FlagTypes
  <2>4. stoped'[u] /\ UNCHANGED <<clientStoped, rtpClient>>
    BY <1>0, <1>10 DEF ClientHandle, FlagTypes
  <2> QED BY <1>0, <2>1, <2>2, <2>3, <2>4, Names
<1>11. ASSUME NEW u \in Pull, NEW c \in Stopper, ClientRemove(u, c) PROVE StopInv'
  <2>1. stop[u][c] \in {"clientRemove"} /\ \E pc \in {"conn"} : Goto(u, c, pc)
    BY <1>11 DEF ClientRemove
  <2>2. stop'[u][c] \in {"conn"} /\ (\A d \in Stopper : d # c => stop'[u][d] = stop[u][d])
        /\ \A v \in Pull : v # u => stop'[v] = stop[v]
    BY <1>0, <2>1, Moved
  <2>3. \A v \in Pull : v # u => stoped'[v] = stoped[v] /\ clientStoped'[v] = clientStoped[v] /\ rtpClient'[v] =
     rtpClient[v]
    BY <1>0, <1>11 DEF ClientRemove, FlagTypes
  <2>4. UNCHANGED flagVars
    BY <1>11 DEF ClientRemove
  <2> QED BY <1>0, <2>1, <2>2, <2>3, <2>4, Names
<1>12. ASSUME NEW u \in Pull, NEW c \in Stopper, ConnTest(u, c) PROVE StopInv'
  <2>1. stop[u][c] \in {"conn"} /\ \E pc \in {"close", "left"} : Goto(u, c, pc)
    BY <1>12 DEF ConnTest
  <2>2. stop'[u][c] \in {"close", "left"} /\ (\A d \in Stopper : d # c => stop'[u][d] = stop[u][d])
        /\ \A v \in Pull : v # u => stop'[v] = stop[v]
    BY <1>0, <2>1, Moved
  <2>3. \A v \in Pull : v # u => stoped'[v] = stoped[v] /\ clientStoped'[v] = clientStoped[v] /\ rtpClient'[v] =
     rtpClient[v]
    BY <1>0, <1>12 DEF ConnTest, FlagTypes
  <2>4. UNCHANGED flagVars
    BY <1>12 DEF ConnTest
  <2> QED BY <1>0, <2>1, <2>2, <2>3, <2>4, Names
<1>13. ASSUME NEW u \in Pull, NEW c \in Stopper, ConnClose(u, c) PROVE StopInv'
  <2>1. stop[u][c] \in {"close"} /\ \E pc \in {"forget", "panicked"} : Goto(u, c, pc)
    BY <1>13 DEF ConnClose
  <2>2. stop'[u][c] \in {"forget", "panicked"} /\ (\A d \in Stopper : d # c => stop'[u][d] = stop[u][d])
        /\ \A v \in Pull : v # u => stop'[v] = stop[v]
    BY <1>0, <2>1, Moved
  <2>3. \A v \in Pull : v # u => stoped'[v] = stoped[v] /\ clientStoped'[v] = clientStoped[v] /\ rtpClient'[v] =
     rtpClient[v]
    BY <1>0, <1>13 DEF ConnClose, FlagTypes
  <2>4. UNCHANGED flagVars
    BY <1>13 DEF ConnClose
  <2> QED BY <1>0, <2>1, <2>2, <2>3, <2>4, Names
<1>13a. ASSUME NEW u \in Pull, NEW c \in Stopper, ConnForget(u, c) PROVE StopInv'
  <2>1. stop[u][c] \in {"forget"} /\ \E pc \in {"left"} : Goto(u, c, pc)
    BY <1>13a DEF ConnForget
  <2>2. stop'[u][c] \in {"left"} /\ (\A d \in Stopper : d # c => stop'[u][d] = stop[u][d])
        /\ \A v \in Pull : v # u => stop'[v] = stop[v]
    BY <1>0, <2>1, Moved
  <2>3. \A v \in Pull : v # u => stoped'[v] = stoped[v] /\ clientStoped'[v] = clientStoped[v] /\ rtpClient'[v] =
     rtpClient[v]
    BY <1>0, <1>13a DEF ConnForget, FlagTypes
  <2>4. UNCHANGED flagVars
    BY <1>13a DEF ConnForget
  <2> QED BY <1>0, <2>1, <2>2, <2>3, <2>4, Names
<1>14. ASSUME NEW u \in Pull, NEW c \in Stopper, ClientLeft(u, c) PROVE StopInv'
  <2>1. stop[u][c] \in {"left"} /\ \E pc \in {"done"} : Goto(u, c, pc)
    BY <1>14 DEF ClientLeft
  <2>2. stop'[u][c] \in {"done"} /\ (\A d \in Stopper : d # c => stop'[u][d] = stop[u][d])
        /\ \A v \in Pull : v # u => stop'[v] = stop[v]
    BY <1>0, <2>1, Moved
  <2>3. \A v \in Pull : v # u => stoped'[v] = stoped[v] /\ clientStoped'[v] = clientStoped[v] /\ rtpClient'[v] =
     rtpClient[v]
    BY <1>0, <1>14 DEF ClientLeft, FlagTypes
  <2>4. UNCHANGED <<stoped, clientStoped>>
    BY <1>14 DEF ClientLeft
  <2> QED BY <1>0, <2>1, <2>2, <2>3, <2>4, Names
<1>15. CASE UNCHANGED vars
  BY <1>1, <1>15
<1> QED BY <1>1, <1>2, <1>3, <1>4, <1>5, <1>6, <1>7, <1>8, <1>9, <1>10, <1>11, <1>12, <1>13a, <1>13, <1>14, <1>15 DEF Next,
      Starting, Stopping

\* whoever sets a flag goes on to the next link, and the last one closes the conn
LEMMA ChainStep == IInv /\ [Next]_vars => ChainInv'
<1> SUFFICES ASSUME IInv, [Next]_vars PROVE ChainInv'
  OBVIOUS
<1> USE DEF vars, startVars, flagVars, ChainInv
<1>0. ChainInv /\ StopInv /\ PullTypes /\ FlagTypes /\ MapTypes /\ EarlyInv
  BY DEF IInv
<1>1. CASE UNCHANGED <<stoped, clientStoped, conn, stop>>
  BY <1>0, <1>1
<1>2. ASSUME NEW u \in Pull, InitFails(u) PROVE ChainInv'
  <2>1. UNCHANGED <<flagVars, stop>> /\ ~clientStoped[u]
    BY <1>0, <1>2 DEF InitFails, EarlyInv
  <2>2. \A v \in Pull : v # u => conn'[v] = conn[v]
    BY <1>0, <1>2 DEF InitFails, PullTypes
  <2> QED BY <1>0, <2>1, <2>2
<1>3. ASSUME NEW u \in Pull, InitSucceeds(u) PROVE ChainInv'
  <2>1. UNCHANGED <<flagVars, stop>> /\ ~clientStoped[u]
    BY <1>0, <1>3 DEF InitSucceeds, EarlyInv
  <2>2. \A v \in Pull : v # u => conn'[v] = conn[v]
    BY <1>0, <1>3 DEF InitSucceeds, PullTypes
  <2> QED BY <1>0, <2>1, <2>2
<1>4. ASSUME NEW u \in Pull, LoopEnds(u) PROVE ChainInv'
  <2>1. stop[u]["loop"] = "idle" /\ (\A d \in Stopper : d # "loop" => stop'[u][d] = stop[u][d])
        /\ \A v \in Pull : v # u => stop'[v] = stop[v]
    BY <1>0, <1>4, Moved, Names DEF LoopEnds, EarlyInv
  <2> QED BY <1>0, <2>1, <1>4, Names DEF LoopEnds
<1>5. ASSUME NEW u \in Pull, StreamStart(u) \/ ClientStart(u) \/ AddPusher(u) PROVE ChainInv'
  BY <1>1, <1>5 DEF StreamStart, ClientStart, AddPusher
<1>6. ASSUME NEW u \in Pull, NEW c \in plan.callers[u], StreamStop(u, c) PROVE ChainInv'
  <2>0. c \in ApiCaller /\ c \in Stopper /\ c # "loop"
    BY <1>0, PullAssumption, Names DEF MapTypes
  <2>1. stop[u][c] = "idle" /\ \E pc \in {"session", "notFound"} : Goto(u, c, pc)
    BY <1>6 DEF StreamStop
  <2>2. stop'[u][c] \in {"session", "notFound"} /\ (\A d \in Stopper : d # c => stop'[u][d] = stop[u][d])
        /\ \A v \in Pull : v # u => stop'[v] = stop[v]
    BY <1>0, <2>0, <2>1, Moved
  <2> QED BY <1>0, <2>0, <2>1, <2>2, <1>6, Names DEF StreamStop
<1>7. ASSUME NEW u \in Pull, NEW c \in Stopper, SessionStop(u, c) PROVE ChainInv'
  <2>1. stop[u][c] \in {"session", "set"} /\ \E pc \in {"done", "set", "remove"} : Goto(u, c, pc)
    BY <1>7 DEF SessionStop
  <2>2. stop'[u][c] \in {"done", "set", "remove"} /\ (\A d \in Stopper : d # c => stop'[u][d] = stop[u][d])
        /\ \A v \in Pull : v # u => stop'[v] = stop[v]
    BY <1>0, <2>1, Moved
  <2>3. \A v \in Pull : v # u => stoped'[v] = stoped[v] /\ clientStoped'[v] = clientStoped[v]
    BY <1>0, <1>7 DEF SessionStop, FlagTypes
  <2>4. UNCHANGED <<clientStoped, conn>> /\ (stoped[u] => stoped'[u])
    BY <1>0, <1>7 DEF SessionStop, FlagTypes
  <2>5. c \in ApiCaller \/ clientStoped[u]
    BY <1>0, <2>1, Names DEF StopInv
  <2>6. stoped'[u] => stoped[u] \/ stop'[u][c] = "remove"
    <3>1. CASE stop[u][c] = "session"
      BY <3>1, <1>7 DEF SessionStop
    <3>2. CASE stop[u][c] = "set"
      <4>1. Goto(u, c, "remove")
        BY <3>2, <1>7 DEF SessionStop
      <4> QED BY <1>0, <4>1, Moved
    <3> QED BY <2>1, <3>1, <3>2
  <2> QED BY <1>0, <2>1, <2>2, <2>3, <2>4, <2>5, <2>6, Names
<1>8. ASSUME NEW u \in Pull, NEW c \in Stopper, SessionHandle(u, c) PROVE ChainInv'
  <2>1. stop[u][c] \in {"remove"} /\ \E pc \in {"puller"} : Goto(u, c, pc)
    BY <1>8 DEF SessionHandle
  <2>2. stop'[u][c] \in {"puller"} /\ (\A d \in Stopper : d # c => stop'[u][d] = stop[u][d])
        /\ \A v \in Pull : v # u => stop'[v] = stop[v]
    BY <1>0, <2>1, Moved
  <2>3. UNCHANGED <<flagVars, conn>>
    BY <1>8 DEF SessionHandle
  <2>4. c \in ApiCaller \/ clientStoped[u]
    BY <1>0, <2>1, Names DEF StopInv
  <2> QED BY <1>0, <2>1, <2>2, <2>3, <2>4, Names
<1>9. ASSUME NEW u \in Pull, NEW c \in Stopper, PullerStop(u, c) PROVE ChainInv'
  <2>1. stop[u][c] \in {"puller"} /\ \E pc \in {"client", "done"} : Goto(u, c, pc)
    BY <1>9 DEF PullerStop
  <2>2. stop'[u][c] \in {"client", "done"} /\ (\A d \in Stopper : d # c => stop'[u][d] = stop[u][d])
        /\ \A v \in Pull : v # u => stop'[v] = stop[v]
    BY <1>0, <2>1, Moved
  <2>3. UNCHANGED <<flagVars, conn>>
    BY <1>9 DEF PullerStop
  <2>4. c \in ApiCaller \/ clientStoped[u]
    BY <1>0, <2>1, Names DEF StopInv
  <2>5. stop'[u][c] = "client" \/ clientStoped[u]
    BY <1>0, <1>9, Moved DEF PullerStop, StopInv
  <2> QED BY <1>0, <2>1, <2>2, <2>3, <2>4, <2>5, Names
<1>10. ASSUME NEW u \in Pull, NEW c \in Stopper, ClientStop(u, c) PROVE ChainInv'
  <2>1. stop[u][c] \in {"client"} /\ \E pc \in {"panicked", "left", "clientSet"} : Goto(u, c, pc)
    BY <1>10 DEF ClientStop
  <2>2. stop'[u][c] \in {"panicked", "left", "clientSet"} /\ (\A d \in Stopper : d # c => stop'[u][d] = stop[u][d])
        /\ \A v \in Pull : v # u => stop'[v] = stop[v]
    BY <1>0, <2>1, Moved
  <2>3. UNCHANGED <<flagVars, conn>>
    BY <1>10 DEF ClientStop
  <2>4. stop'[u][c] = "clientSet" \/ clientStoped[u]
    BY <1>0, <1>10, Moved DEF ClientStop, StopInv
  <2> QED BY <1>0, <2>1, <2>2, <2>3, <2>4, Names
<1>11. ASSUME NEW u \in Pull, NEW c \in Stopper, ClientSet(u, c) PROVE ChainInv'
  <2>1. stop[u][c] \in {"clientSet"} /\ \E pc \in {"handle"} : Goto(u, c, pc)
    BY <1>11 DEF ClientSet
  <2>2. stop'[u][c] \in {"handle"} /\ (\A d \in Stopper : d # c => stop'[u][d] = stop[u][d])
        /\ \A v \in Pull : v # u => stop'[v] = stop[v]
    BY <1>0, <2>1, Moved
  <2>3. \A v \in Pull : v # u => stoped'[v] = stoped[v] /\ clientStoped'[v] = clientStoped[v]
    BY <1>0, <1>11 DEF ClientSet, FlagTypes
  <2>4. clientStoped'[u] /\ UNCHANGED <<stoped, conn>>
    BY <1>0, <1>11 DEF ClientSet, FlagTypes
  <2> QED BY <1>0, <2>1, <2>2, <2>3, <2>4, Names
<1>12. ASSUME NEW u \in Pull, NEW c \in Stopper, ClientHandle(u, c) PROVE ChainInv'
  <2>1. stop[u][c] \in {"handle"} /\ \E pc \in {"clientRemove"} : Goto(u, c, pc)
    BY <1>12 DEF ClientHandle
  <2>2. stop'[u][c] \in {"clientRemove"} /\ (\A d \in Stopper : d # c => stop'[u][d] = stop[u][d])
        /\ \A v \in Pull : v # u => stop'[v] = stop[v]
    BY <1>0, <2>1, Moved
  <2>3. \A v \in Pull : v # u => stoped'[v] = stoped[v] /\ clientStoped'[v] = clientStoped[v]
    BY <1>0, <1>12 DEF ClientHandle, FlagTypes
  <2>4. stoped'[u] /\ clientStoped[u] /\ UNCHANGED <<clientStoped, conn>>
    BY <1>0, <2>1, <1>12 DEF ClientHandle, FlagTypes, StopInv
  <2> QED BY <1>0, <2>1, <2>2, <2>3, <2>4, Names
<1>13. ASSUME NEW u \in Pull, NEW c \in Stopper, ClientRemove(u, c) PROVE ChainInv'
  <2>1. stop[u][c] \in {"clientRemove"} /\ \E pc \in {"conn"} : Goto(u, c, pc)
    BY <1>13 DEF ClientRemove
  <2>2. stop'[u][c] \in {"conn"} /\ (\A d \in Stopper : d # c => stop'[u][d] = stop[u][d])
        /\ \A v \in Pull : v # u => stop'[v] = stop[v]
    BY <1>0, <2>1, Moved
  <2>3. UNCHANGED <<flagVars, conn>>
    BY <1>13 DEF ClientRemove
  <2> QED BY <1>0, <2>1, <2>2, <2>3, Names
<1>14. ASSUME NEW u \in Pull, NEW c \in Stopper, ConnTest(u, c) PROVE ChainInv'
  <2>1. stop[u][c] \in {"conn"} /\ \E pc \in {"close", "left"} : Goto(u, c, pc)
    BY <1>14 DEF ConnTest
  <2>2. stop'[u][c] \in {"close", "left"} /\ (\A d \in Stopper : d # c => stop'[u][d] = stop[u][d])
        /\ \A v \in Pull : v # u => stop'[v] = stop[v]
    BY <1>0, <2>1, Moved
  <2>3. UNCHANGED <<flagVars, conn>>
    BY <1>14 DEF ConnTest
  <2>4. conn[u] # "none"
    BY <1>0, <2>1 DEF EarlyInv
  <2>5. stop'[u][c] = "close" \/ conn[u] \notin {"open", "closed"}
    BY <1>0, <1>14, Moved DEF ConnTest
  <2>6. stop'[u][c] = "close" \/ conn[u] = "nil"
    BY <1>0, <2>4, <2>5 DEF PullTypes
  <2> QED BY <1>0, <2>1, <2>2, <2>3, <2>6, Names
<1>15. ASSUME NEW u \in Pull, NEW c \in Stopper, ConnClose(u, c) PROVE ChainInv'
  <2>1. stop[u][c] \in {"close"} /\ \E pc \in {"forget", "panicked"} : Goto(u, c, pc)
    BY <1>15 DEF ConnClose
  <2>2. stop'[u][c] \in {"forget", "panicked"} /\ (\A d \in Stopper : d # c => stop'[u][d] = stop[u][d])
        /\ \A v \in Pull : v # u => stop'[v] = stop[v]
    BY <1>0, <2>1, Moved
  <2>3. UNCHANGED flagVars /\ \A v \in Pull : v # u => conn'[v] = conn[v]
    BY <1>0, <1>15 DEF ConnClose, PullTypes
  <2>5. stop'[u][c] = "forget" \/ (conn[u] = "nil" /\ conn'[u] = "nil")
    BY <1>0, <1>15, Moved DEF ConnClose
  <2> QED BY <1>0, <2>1, <2>2, <2>3, <2>5, Names
<1>15a. ASSUME NEW u \in Pull, NEW c \in Stopper, ConnForget(u, c) PROVE ChainInv'
  <2>1. stop[u][c] \in {"forget"} /\ \E pc \in {"left"} : Goto(u, c, pc)
    BY <1>15a DEF ConnForget
  <2>2. stop'[u][c] \in {"left"} /\ (\A d \in Stopper : d # c => stop'[u][d] = stop[u][d])
        /\ \A v \in Pull : v # u => stop'[v] = stop[v]
    BY <1>0, <2>1, Moved
  <2>3. UNCHANGED flagVars /\ \A v \in Pull : v # u => conn'[v] = conn[v]
    BY <1>0, <1>15a DEF ConnForget, PullTypes
  <2>5. conn'[u] = "nil"
    BY <1>0, <1>15a DEF ConnForget, PullTypes
  <2> QED BY <1>0, <2>1, <2>2, <2>3, <2>5, Names
<1>16. ASSUME NEW u \in Pull, NEW c \in Stopper, ClientLeft(u, c) PROVE ChainInv'
  <2>1. stop[u][c] \in {"left"} /\ \E pc \in {"done"} : Goto(u, c, pc)
    BY <1>16 DEF ClientLeft
  <2>2. stop'[u][c] \in {"done"} /\ (\A d \in Stopper : d # c => stop'[u][d] = stop[u][d])
        /\ \A v \in Pull : v # u => stop'[v] = stop[v]
    BY <1>0, <2>1, Moved
  <2>3. \A v \in Pull : v # u => stoped'[v] = stoped[v] /\ clientStoped'[v] = clientStoped[v]
    BY <1>0, <1>16 DEF ClientLeft, FlagTypes
  <2>4. UNCHANGED <<stoped, clientStoped, conn>>
    BY <1>16 DEF ClientLeft
  <2> QED BY <1>0, <2>1, <2>2, <2>3, <2>4, Names
<1>17. CASE UNCHANGED vars
  BY <1>1, <1>17
<1> QED BY <1>1, <1>2, <1>3, <1>4, <1>5, <1>6, <1>7, <1>8, <1>9, <1>10, <1>11, <1>12, <1>13, <1>14, <1>15a, <1>15, <1>16,
      <1>17 DEF Next, Starting, Stopping

\* the first state: nothing is set and nobody is stopping
LEMMA InitHolds == Init => IInv
<1> SUFFICES ASSUME Init PROVE IInv
  OBVIOUS
<1>1. PullTypes
  BY DEF Init, PullTypes
<1>2. FlagTypes
  <2>1. \A u \in Pull : [c \in Stopper |-> "idle"] \in [Stopper -> StopPc]
    BY DEF StopPc
  <2> QED BY <2>1 DEF Init, FlagTypes
<1>3. MapTypes /\ EarlyInv /\ StopInv /\ ChainInv
  BY Names DEF Init, MapTypes, EarlyInv, StopInv, ChainInv
<1> QED BY <1>1, <1>2, <1>3 DEF IInv

\* every step keeps the whole invariant, each part with the help of the others
LEMMA StepHolds == IInv /\ [Next]_vars => IInv'
  BY PullTypesStep, FlagTypesStep, MapTypesStep, EarlyStep, StopStep, ChainStep DEF IInv

\* the invariant holds in every state
LEMMA Invariance == Spec => []IInv
  BY InitHolds, StepHolds, PTL DEF Spec

-----------------------------------------------------------------------------
(* The theorems.                                                           *)

\* The variables stay in their types, and an entry of Server.pushers is under the path of
\* the pull that made it, after its client was started (rtsp-session-puller.go).
THEOREM TypeCorrect == Spec => []TypeOK
<1>1. IInv => TypeOK
  BY DEF IInv, PullTypes, FlagTypes, MapTypes, TypeOK
<1> QED BY <1>1, Invariance, PTL

\* However many callers of StreamStop race each other and the end of the source, and
\* wherever each returns early or panics: when all have come to their ends the source is
\* disconnected and the flags of session and client are set.
THEOREM StopsComeToTheEnd == Spec => []StopsAddUp
<1>1. IInv => StopsAddUp
  <2> SUFFICES ASSUME IInv, NEW u \in Pull, \A c \in Stopper : Resting(stop[u][c]),
                      NEW c \in Stopper, stop[u][c] \in {"done", "panicked"}
               PROVE  conn[u] = "nil" /\ stoped[u] /\ clientStoped[u]
    BY DEF StopsAddUp
  <2> USE DEF IInv, Resting
  <2>1. c \in ApiCaller => stoped[u]
    BY DEF StopInv
  <2>2. stoped[u] => clientStoped[u]
    BY Names DEF ChainInv
  <2>3. c = "loop" => clientStoped[u]
    BY DEF StopInv
  <2>4. clientStoped[u]
    BY <2>1, <2>2, <2>3, Names
  <2> QED BY <2>4 DEF ChainInv
<1> QED BY <1>1, Invariance, PTL

\* StoppableById without the test that the client still runs, which it does not need
MapInv ==
    \A u \in Pull :
        start[u] = "done" /\ ~stoped[u] /\ ~clientStoped[u] =>
            Registered(u) \/ \E v \in Pull \ {u} : Lost(u, v)

\* a step keeps it that takes out of the map only pulls whose flags are set, and lets a pull
\* come to its end only where MapInv says
Kept ==
    /\ PathOf' = PathOf
    /\ \A v \in Pull : (stoped[v] => stoped'[v]) /\ (clientStoped[v] => clientStoped'[v])
    /\ \A v \in Pull : start[v] = "done" => start'[v] = "done"
    /\ \A v \in Pull : Registered(v) => Registered(v)' \/ stoped'[v] \/ clientStoped'[v]
    /\ \A v \in Pull :
        start'[v] = "done" => start[v] = "done" \/ Registered(v)' \/ \E w \in Pull \ {v} : Lost(v, w)'

\* such a step keeps MapInv
LEMMA KeptMap == MapInv /\ Kept => MapInv'
<1> SUFFICES ASSUME MapInv, Kept, NEW u \in Pull, start'[u] = "done", ~stoped'[u], ~clientStoped'[u]
             PROVE  Registered(u)' \/ \E v \in Pull \ {u} : Lost(u, v)'
  BY DEF MapInv
<1>1. CASE start[u] # "done"
  BY <1>1 DEF Kept
<1>2. CASE start[u] = "done"
  <2>1. ~stoped[u] /\ ~clientStoped[u]
    BY DEF Kept
  <2>2. CASE Registered(u)
    BY <2>2 DEF Kept
  <2>3. CASE \E v \in Pull \ {u} : Lost(u, v)
    <3>1. PICK v \in Pull \ {u} : Lost(u, v)
      BY <2>3
    <3>2. PathOf'[v] = PathOf'[u] /\ start'[v] = "done"
      BY <3>1 DEF Kept, Lost
    <3>3. Registered(v)' \/ stoped'[v] \/ clientStoped'[v]
      BY <3>1 DEF Kept, Lost
    <3>4. Lost(u, v)'
      BY <3>2, <3>3 DEF Lost
    <3> QED BY <3>4
  <2> QED BY <1>2, <2>1, <2>2, <2>3 DEF MapInv
<1> QED BY <1>1, <1>2

\* only a pull whose flags are set is taken out of the map
LEMMA MapStep == IInv /\ MapInv /\ [Next]_vars => MapInv'
<1> SUFFICES ASSUME IInv, MapInv, [Next]_vars PROVE Kept
  BY KeptMap
<1> USE DEF vars, startVars, flagVars
<1>0. StopInv /\ PullTypes /\ FlagTypes /\ MapTypes
  BY DEF IInv
<1>00. PathOf' = PathOf
  BY DEF Next, Running, PathOf
<1>1. CASE UNCHANGED <<pushers, start, stoped, clientStoped>>
  BY <1>00, <1>1 DEF Registered, Kept
<1>2. ASSUME NEW u \in Pull, InitSucceeds(u) \/ ClientStart(u), start[u] # "done" PROVE Kept
  <2>1. \A v \in Pull : start'[v] = "done" <=> start[v] = "done"
    BY <1>0, <1>2 DEF InitSucceeds, ClientStart, PullTypes
  <2>2. UNCHANGED <<pushers, stoped, clientStoped>>
    BY <1>2 DEF InitSucceeds, ClientStart
  <2> QED BY <1>00, <2>1, <2>2 DEF Registered, Kept
<1>4. ASSUME NEW u \in Pull, AddPusher(u) PROVE Kept
  <2>1. PathOf[u] \in Path
    BY <1>0, PullAssumption DEF MapTypes, PathOf
  <2>2. (\A v \in Pull : v # u => start'[v] = start[v]) /\ start'[u] = "done"
    BY <1>0, <1>4 DEF AddPusher, PullTypes
  <2>3. UNCHANGED <<stoped, clientStoped>> /\ start[u] = "add"
    BY <1>4 DEF AddPusher
  <2>4. \A q \in Path : pushers[q] # NoPusher => pushers'[q] = pushers[q]
    BY <1>0, <1>4 DEF AddPusher, PullTypes
  <2>5. \A v \in Pull : PathOf[v] \in Path /\ v # NoPusher
    BY <1>0, PullAssumption, Names DEF MapTypes, PathOf
  <2>6. \A v \in Pull : Registered(v) => Registered(v)'
    BY <1>00, <2>4, <2>5 DEF Registered
  <2>7. Registered(u)' \/ \E w \in Pull \ {u} : Lost(u, w)'
    <3>1. CASE pushers[PathOf[u]] = NoPusher
      <4>1. pushers'[PathOf[u]] = u
        BY <1>0, <2>1, <3>1, <1>4 DEF AddPusher, PullTypes
      <4> QED BY <1>00, <4>1 DEF Registered
    <3>2. CASE pushers[PathOf[u]] # NoPusher
      <4>1. PICK w \in Pull : w = pushers[PathOf[u]]
        BY <1>0, <2>1, <3>2 DEF PullTypes
      <4>2. PathOf[w] = PathOf[u] /\ start[w] = "done" /\ w # u /\ Registered(w)
        BY <1>0, <2>1, <2>3, <3>2, <4>1 DEF MapTypes, Registered
      <4>3. Registered(w)' /\ start'[w] = "done"
        BY <2>2, <2>6, <4>2
      <4>4. Lost(u, w)'
        BY <1>00, <4>2, <4>3 DEF Lost
      <4> QED BY <4>2, <4>4
    <3> QED BY <3>1, <3>2
  <2> QED BY <1>00, <2>2, <2>3, <2>6, <2>7 DEF Kept
<1>5. ASSUME NEW u \in Pull, StreamStart(u) \/ InitFails(u) \/ LoopEnds(u) PROVE Kept
  BY <1>1, <1>5 DEF StreamStart, InitFails, LoopEnds
<1>6. ASSUME NEW u \in Pull, NEW c \in plan.callers[u], StreamStop(u, c) PROVE Kept
  BY <1>1, <1>6 DEF StreamStop
<1>7. ASSUME NEW u \in Pull, NEW c \in Stopper, SessionStop(u, c) \/ ClientSet(u, c) \/ ClientHandle(u, c) PROVE Kept
  <2>1. \A v \in Pull : (stoped[v] => stoped'[v]) /\ (clientStoped[v] => clientStoped'[v])
    BY <1>0, <1>7 DEF SessionStop, ClientSet, ClientHandle, FlagTypes
  <2>2. UNCHANGED <<pushers, start>>
    BY <1>7 DEF SessionStop, ClientSet, ClientHandle
  <2> QED BY <1>00, <2>1, <2>2 DEF Registered, Kept
<1>8. ASSUME NEW u \in Pull, stoped[u] \/ clientStoped[u], RemovePusher(u), UNCHANGED <<start, flagVars>> PROVE Kept
  <2>1. \A v \in Pull : v # u /\ Registered(v) => Registered(v)'
    BY <1>0, <1>00, PullAssumption, <1>8 DEF RemovePusher, Registered, PathOf, PullTypes, MapTypes
  <2> QED BY <1>00, <1>8, <2>1 DEF Kept
<1>9. ASSUME NEW u \in Pull, NEW c \in Stopper, SessionHandle(u, c) PROVE Kept
  <2>1. stoped[u] \/ clientStoped[u]
    BY <1>0, Names, <1>9 DEF SessionHandle, StopInv
  <2> QED BY <1>8, <1>9, <2>1 DEF SessionHandle
<1>10. ASSUME NEW u \in Pull, NEW c \in Stopper, ClientRemove(u, c) PROVE Kept
  <2>1. clientStoped[u]
    BY <1>0, Names, <1>10 DEF ClientRemove, StopInv
  <2> QED BY <1>8, <1>10, <2>1 DEF ClientRemove
<1>11. ASSUME NEW u \in Pull, NEW c \in Stopper, PullerStop(u, c) \/ ClientStop(u, c) \/ ConnTest(u, c) \/
      ConnClose(u, c) \/ ConnForget(u, c) \/ ClientLeft(u, c) PROVE Kept
  BY <1>1, <1>11 DEF PullerStop, ClientStop, ConnTest, ConnClose, ConnForget, ClientLeft
<1>12. ASSUME NEW u \in Pull, InitSucceeds(u) \/ ClientStart(u) PROVE start[u] # "done"
  BY <1>0, <1>12 DEF InitSucceeds, ClientStart, IInv, EarlyInv
<1>13. CASE UNCHANGED vars
  BY <1>1, <1>13
<1> QED BY <1>1, <1>2, <1>4, <1>5, <1>6, <1>7, <1>9, <1>10, <1>11, <1>12, <1>13 DEF Next, Starting, Stopping

\* routers/streams.go line 45: a pull that has been set up can be stopped by its ID as long as
\* nobody has stopped it, unless another one had its path when it came to AddPusher.
THEOREM PullsAreStoppable == Spec => []StoppableById
<1>1. Init => MapInv
  BY DEF Init, MapInv
<1>2. MapInv => StoppableById
  BY DEF MapInv, StoppableById
<1> QED BY <1>1, <1>2, Invariance, MapStep, PTL DEF Spec
=============================================================================
