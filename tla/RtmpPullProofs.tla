----------------------------- MODULE RtmpPullProofs -----------------------------
(***************************************************************************)
(* Theorems about RtmpPull, for every number of callers of StreamStop and  *)
(* every length of the analysis.                                           *)
(***************************************************************************)
EXTENDS RtmpPull, TLAPS

-----------------------------------------------------------------------------
(* The inductive invariant.                                                *)

Appended(p) == start[p] \in {"dispose", "disposeSet", "add", "done"}
Attached(p) == start[p] \in {"add", "done"}
Other(p) == IF p = "reader" THEN "api" ELSE "reader"
One(b) == IF b THEN 1 ELSE 0

HasPuller(list) == \E i \in 1..Len(list) : list[i] = "puller"

\* The list of dispose has at most a handle for each puller that has appended, fewer when one
\* append was lost; a puller starts once; what it read is what the other one left.
HandlesInv ==
    /\ ~sdpRaw => start["reader"] = "none"
    /\ api \in {"idle", "init", "disposing", "pulled"} => start["api"] = "none"
    /\ disposeHandles <= One(Attached("reader")) + One(Attached("api"))
    /\ \A p \in Puller : start[p] = "disposeSet" => count[p] <= One(Attached(Other(p)))

\* a puller has come past its two appends
Pulled == \E p \in Puller : Appended(p)

\* Who wrote the stop handles last wrote a puller's, unless a puller is between its two
\* appends.
ListInv ==
    Pulled /\ (\A p \in Puller : ~Appending(p)) => HasPuller(stopHandles)

\* Who runs handles has one left to run, and one caller at most is inside the Once.
CountInv ==
    /\ \A c \in ApiCaller : stop[c] = "run" => handles[c] # <<>>
    /\ \A c \in Stopper : stop[c] \in {"handles", "handleRemove"} => once = c
    /\ \A c \in Stopper : stop[c] = "handleRemove" => todo > 0

\* Until the session has a conn and has shaken hands nobody has a reason to stop it.
EarlyInv ==
    /\ api = "idle" => reader = "none"
    /\ reader \in {"none", "dial", "handshake"} =>
        /\ api \in {"idle", "init"} /\ ~errChan /\ ~doResultChan
        /\ once = "free"
        /\ \A c \in Stopper : stop[c] = "idle"
    /\ reader \notin {"disposing", "ended"} => stop["reader"] = "idle"
    /\ api \notin {"disposing", "failed"} => stop["api"] = "idle"

\* What each step of the chain of Stops has found or set before.
StopInv ==
    /\ registered => Pulled
    /\ \A c \in ApiCaller : stop[c] \in {"session", "set"} => Pulled
    /\ \A c \in ApiCaller : stop[c] \notin {"idle", "notFound", "session", "set"} => stoped
    /\ \A c \in ApiCaller : stop[c] \in {"dispose", "handles", "handleRemove", "left", "panicked"} => clientStoped
    /\ ~rtpClient => clientStoped
    /\ \A c \in {"reader", "api"} : stop[c] \in {"idle", "dispose", "handles", "handleRemove", "done"}

\* c has the client's Stop before it
ToClient(c) == stop[c] \in {"client", "clientSet"} \/ (stop[c] = "run" /\ HasPuller(handles[c]))

\* A flag that is set has somebody behind it who disposes of the session, or has done so.
DisposeInv ==
    /\ stoped =>
        \/ once # "free" \/ clientStoped \/ interrupted
        \/ \E c \in ApiCaller : ToClient(c)
    /\ clientStoped => once # "free" \/ \E c \in Stopper : stop[c] = "dispose"
    /\ once \in Stopper => stop[once] \in {"handles", "handleRemove"}
    /\ \A c \in {"reader", "api"} : stop[c] = "done" => once = "done"
    /\ once = "done" => conn # "open"

IInv == TypeOK /\ HandlesInv /\ ListInv /\ CountInv /\ EarlyInv /\ StopInv /\ DisposeInv

-----------------------------------------------------------------------------
(* Types, and the names of the callers.                                    *)

\* the callers' names are apart from the states of the Once
LEMMA Names ==
    /\ {"reader", "api"} \subseteq Stopper /\ ApiCaller \subseteq Stopper
    /\ "reader" \notin ApiCaller /\ "api" \notin ApiCaller
    /\ "free" \notin Stopper /\ "done" \notin Stopper
  BY RtmpPullAssumption DEF Stopper

\* TypeOK in three parts, by who changes what
ReaderTypes ==
    /\ api \in {"idle", "init", "disposing", "failed", "pulled", "answered"}
    /\ reader \in {"none", "dial", "handshake", "loop", "remux", "disposing", "ended"}
    /\ errChan \in BOOLEAN /\ doResultChan \in BOOLEAN /\ notified \in BOOLEAN
    /\ conn \in {"none", "open", "closed"}
    /\ headers \in SUBSET {"video", "audio"}
    /\ cached \in 0..MaxCache
    /\ sdpRaw \in BOOLEAN
    /\ crashed \in BOOLEAN

PullerTypes ==
    /\ start \in [Puller -> StartPc]
    /\ copy \in [Puller -> Seq(Handle)] /\ count \in [Puller -> 0..1]
    /\ stopHandles \in Seq(Handle) /\ disposeHandles \in 0..2

StopTypes ==
    /\ registered \in BOOLEAN
    /\ stoped \in BOOLEAN /\ clientStoped \in BOOLEAN /\ rtpClient \in BOOLEAN
    /\ stop \in [Stopper -> StopPc]
    /\ handles \in [ApiCaller -> Seq(Handle)] /\ interrupted \in BOOLEAN
    /\ once \in Stopper \cup {"free", "done"}
    /\ todo \in 0..2

LEMMA TypeParts == TypeOK <=> ReaderTypes /\ PullerTypes /\ StopTypes
  BY DEF TypeOK, ReaderTypes, PullerTypes, StopTypes

\* the cache is bounded while the analysis lasts, and the analysis ends once
LEMMA ReaderTypesStep == IInv /\ [Next]_vars => ReaderTypes'
<1> SUFFICES ASSUME IInv, [Next]_vars PROVE ReaderTypes'
  OBVIOUS
<1> USE DEF vars, chanVars, analysisVars, pullerVars, flagVars, runVars, stopVars, ReaderTypes
<1>0. ReaderTypes
  BY TypeParts DEF IInv
<1>1. CASE UNCHANGED <<api, reader, errChan, doResultChan, notified, conn, headers, cached, sdpRaw, crashed>>
  BY <1>0, <1>1 DEF ReaderTypes
<1>2. CASE StreamStart
  BY <1>0, <1>2 DEF StreamStart, ReaderTypes
<1>3. CASE DoFails
  BY <1>0, <1>3 DEF DoFails, ReaderTypes
<1>4. CASE DoSucceeds
  BY <1>0, <1>4 DEF DoSucceeds, ReaderTypes
<1>5. CASE InitReturns
  BY <1>0, <1>5 DEF InitReturns, ReaderTypes
<1>6. CASE TcpConnect
  BY <1>0, <1>6 DEF TcpConnect, ReaderTypes
<1>7. CASE Handshake
  BY <1>0, <1>7 DEF Handshake, ReaderTypes
<1>8. CASE PlayStarted
  BY <1>0, <1>8 DEF PlayStarted, ReaderTypes
<1>9. CASE UnknownMessage
  BY <1>0, <1>9 DEF UnknownMessage, ReaderTypes
<1>10. CASE RemuxCache
  BY <1>0, RtmpPullAssumption, <1>10 DEF RemuxCache
<1>11. CASE ReadFails
  BY <1>0, <1>11 DEF ReadFails, ReaderTypes
<1>12. ASSUME NEW msg \in {"video", "audio", "badVideo", "other"}, ReadAv(msg) PROVE ReaderTypes'
  <2>1. headers' \in SUBSET {"video", "audio"}
    BY <1>0, <1>12 DEF ReadAv
  <2>2. cached' \in 0..MaxCache
    BY <1>0, RtmpPullAssumption, <1>12 DEF ReadAv
  <2>3. reader' \in {reader, "remux"} /\ sdpRaw' \in {sdpRaw, TRUE}
    BY <1>12 DEF ReadAv
  <2> QED BY <1>0, <2>1, <2>2, <2>3, <1>12 DEF ReadAv
<1>13. ASSUME NEW c \in Stopper, DisposeOnce(c) PROVE ReaderTypes'
  BY <1>0, <1>13 DEF DisposeOnce, ReaderTypes
<1>14. ASSUME NEW c \in Stopper, DisposeClose(c) PROVE ReaderTypes'
  BY <1>0, <1>14 DEF DisposeClose, ReaderTypes
<1>15. ASSUME NEW p \in Puller, NewPusher(p) \/ AddStopHandle(p) \/ AddDisposeHandles(p) \/ AddPusher(p)
      PROVE ReaderTypes'
  BY <1>1, <1>15 DEF NewPusher, AddStopHandle, AddDisposeHandles, AddPusher
<1>16. ASSUME NEW c \in ApiCaller, StreamStop(c) \/ SessionStop(c) \/ SessionHandle(c) \/ PullerStop(c) \/
      ClientStop(c) \/ ClientLeft(c) PROVE ReaderTypes'
  BY <1>1, <1>16 DEF StreamStop, SessionStop, SessionHandle, PullerStop, ClientStop, ClientLeft
<1>17. ASSUME NEW c \in Stopper, DisposeHandle(c) PROVE ReaderTypes'
  BY <1>1, <1>17 DEF DisposeHandle
<1>18. CASE UNCHANGED vars
  BY <1>1, <1>18
<1> QED BY <1>1, <1>2, <1>3, <1>4, <1>5, <1>6, <1>7, <1>8, <1>9, <1>10, <1>11, <1>12, <1>13, <1>14, <1>15, <1>16,
      <1>17, <1>18 DEF Next, Handling, Message, Pulling, Stopping, Disposing

\* what a puller read of a list is at most the other's handle, so that the list has two at most
LEMMA PullerTypesStep == IInv /\ [Next]_vars => PullerTypes'
<1> SUFFICES ASSUME IInv, [Next]_vars PROVE PullerTypes'
  OBVIOUS
<1> USE DEF vars, chanVars, analysisVars, pullerVars, flagVars, runVars, stopVars, PullerTypes
<1>0. PullerTypes /\ HandlesInv
  BY TypeParts DEF IInv
<1>1. CASE UNCHANGED <<start, copy, count, stopHandles, disposeHandles>>
  BY <1>0, <1>1 DEF PullerTypes
<1>2. CASE InitReturns
  BY <1>0, <1>2 DEF InitReturns, Puller, StartPc
<1>3. ASSUME NEW msg \in {"video", "audio", "badVideo", "other"}, ReadAv(msg) PROVE PullerTypes'
  BY <1>0, <1>3 DEF ReadAv, Puller, StartPc
<1>4. ASSUME NEW p \in Puller, NewPusher(p) \/ AddStopHandle(p) PROVE PullerTypes'
  <2>1. \E read, write, next \in StartPc, h \in Handle : AppendStopHandle(p, read, write, next, h)
    BY <1>4 DEF NewPusher, AddStopHandle, StartPc, Handle
  <2>2. \E pc \in StartPc : start' = [start EXCEPT ![p] = pc]
    BY <2>1 DEF AppendStopHandle, StartGoto
  <2>4. copy' \in [Puller -> Seq(Handle)] /\ stopHandles' \in Seq(Handle)
    <3>1. copy[p] \in Seq(Handle) /\ <<>> \in Seq(Handle)
      BY <1>0
    <3>2. \A h \in Handle : Append(copy[p], h) \in Seq(Handle)
      BY <3>1
    <3>3. stopHandles' = stopHandles \/ \E h \in Handle : stopHandles' = Append(copy[p], h)
      BY <2>1 DEF AppendStopHandle
    <3>4. copy' = [copy EXCEPT ![p] = stopHandles] \/ copy' = [copy EXCEPT ![p] = <<>>]
      BY <2>1 DEF AppendStopHandle
    <3> QED BY <1>0, <3>1, <3>2, <3>3, <3>4
  <2>3. UNCHANGED <<count, disposeHandles>>
    BY <1>4 DEF NewPusher, AddStopHandle
  <2> QED BY <1>0, <2>2, <2>3, <2>4
<1>5. ASSUME NEW p \in Puller, AddDisposeHandles(p) PROVE PullerTypes'
  <2>1. start' \in [Puller -> StartPc]
    BY <1>0, <1>5 DEF AddDisposeHandles, StartGoto, StartPc
  <2>2. disposeHandles' \in 0..2
    BY <1>0, <1>5 DEF AddDisposeHandles
  <2>3. count' \in [Puller -> 0..1]
    <3>1. CASE count' = count
      BY <1>0, <3>1
    <3>2. CASE count' = [count EXCEPT ![p] = disposeHandles] /\ start[p] = "dispose"
      <4>1. disposeHandles \in 0..1
        BY <1>0, <3>2 DEF HandlesInv, Attached, One, Puller
      <4> QED BY <1>0, <3>2, <4>1
    <3> QED BY <1>5, <3>1, <3>2 DEF AddDisposeHandles
  <2> QED BY <1>0, <2>1, <2>2, <2>3, <1>5 DEF AddDisposeHandles
<1>6. ASSUME NEW p \in Puller, AddPusher(p) PROVE PullerTypes'
  BY <1>0, <1>6 DEF AddPusher, StartGoto, StartPc
<1>7. CASE StreamStart \/ DoFails \/ DoSucceeds \/ TcpConnect \/ Handshake \/ PlayStarted \/ UnknownMessage \/
      RemuxCache \/ ReadFails
  BY <1>1, <1>7 DEF StreamStart, DoFails, DoSucceeds, TcpConnect, Handshake, PlayStarted, UnknownMessage, RemuxCache,
     ReadFails
<1>8. ASSUME NEW c \in ApiCaller, StreamStop(c) \/ SessionStop(c) \/ SessionHandle(c) \/ PullerStop(c) \/
      ClientStop(c) \/ ClientLeft(c) PROVE PullerTypes'
  BY <1>1, <1>8 DEF StreamStop, SessionStop, SessionHandle, PullerStop, ClientStop, ClientLeft
<1>9. ASSUME NEW c \in Stopper, DisposeOnce(c) \/ DisposeHandle(c) \/ DisposeClose(c) PROVE PullerTypes'
  BY <1>1, <1>9 DEF DisposeOnce, DisposeHandle, DisposeClose
<1>10. CASE UNCHANGED vars
  BY <1>1, <1>10
<1> QED BY <1>1, <1>2, <1>3, <1>4, <1>5, <1>6, <1>7, <1>8, <1>9, <1>10 DEF Next, Handling, Message, Pulling, Stopping,
      Disposing

\* a Goto keeps the type of stop
LEMMA GotoType ==
    ASSUME StopTypes, NEW c \in Stopper, NEW pc \in StopPc, Goto(c, pc)
    PROVE  stop' \in [Stopper -> StopPc]
  BY DEF StopTypes, Goto

\* the counters of handles left do not go below zero
LEMMA StopTypesStep == IInv /\ [Next]_vars => StopTypes'
<1> SUFFICES ASSUME IInv, [Next]_vars PROVE StopTypes'
  OBVIOUS
<1> USE DEF vars, chanVars, analysisVars, pullerVars, flagVars, runVars, stopVars, StopTypes
<1>0. StopTypes /\ PullerTypes /\ CountInv
  BY TypeParts DEF IInv
<1>1. CASE UNCHANGED <<registered, stoped, clientStoped, rtpClient, stop, handles, interrupted, once, todo>>
  BY <1>0, <1>1 DEF StopTypes
<1>2. CASE DoFails
  <2>1. \E pc \in StopPc : Goto("api", pc)
    BY <1>0, <1>2 DEF DoFails, StopPc
  <2>2. stop' \in [Stopper -> StopPc]
    BY <1>0, <2>1, Names, GotoType
  <2> QED BY <1>0, <2>2, <1>2 DEF DoFails
<1>3. CASE ReadFails
  <2>1. \E pc \in StopPc : Goto("reader", pc)
    BY <1>0, <1>3 DEF ReadFails, StopPc
  <2>2. stop' \in [Stopper -> StopPc]
    BY <1>0, <2>1, Names, GotoType
  <2> QED BY <1>0, <2>2, <1>3 DEF ReadFails
<1>4. ASSUME NEW msg \in {"video", "audio", "badVideo", "other"}, ReadAv(msg) PROVE StopTypes'
  BY <1>1, <1>4 DEF ReadAv
<1>5. ASSUME NEW p \in Puller, AddPusher(p) PROVE StopTypes'
  BY <1>0, <1>5 DEF AddPusher
<1>6. ASSUME NEW c \in ApiCaller, StreamStop(c) PROVE StopTypes'
  <2>1. \E pc \in StopPc : Goto(c, pc)
    BY <1>0, <1>6 DEF StreamStop, StopPc
  <2>2. stop' \in [Stopper -> StopPc]
    BY <1>0, <2>1, Names, GotoType
  <2> QED BY <1>0, <2>2, <1>6 DEF StreamStop
<1>7. ASSUME NEW c \in ApiCaller, SessionStop(c) PROVE StopTypes'
  <2>1. \E pc \in StopPc : Goto(c, pc)
    BY <1>0, <1>7 DEF SessionStop, TakeHandles, NextHandle, StopPc
  <2>2. stop' \in [Stopper -> StopPc]
    BY <1>0, <2>1, Names, GotoType
  <2>3. handles' \in [ApiCaller -> Seq(Handle)] /\ interrupted' \in BOOLEAN
    BY <1>0, <1>7 DEF SessionStop, TakeHandles, PullerTypes, Appending
  <2> QED BY <1>0, <2>2, <2>3, <1>7 DEF SessionStop
<1>8. ASSUME NEW c \in ApiCaller, SessionHandle(c) PROVE StopTypes'
  <2>1. \E pc \in StopPc : Goto(c, pc)
    BY <1>0, <1>8 DEF SessionHandle, NextHandle, StopPc
  <2>2. stop' \in [Stopper -> StopPc]
    BY <1>0, <2>1, Names, GotoType
  <2>3. handles[c] \in Seq(Handle) /\ handles[c] # <<>>
    BY <1>0, <1>8 DEF SessionHandle, RunHandle, CountInv
  <2>4. handles' \in [ApiCaller -> Seq(Handle)]
    BY <1>0, <1>8, <2>3 DEF SessionHandle, RunHandle
  <2> QED BY <1>0, <2>2, <2>4, <1>8 DEF SessionHandle
<1>9. ASSUME NEW c \in ApiCaller, PullerStop(c) PROVE StopTypes'
  <2>1. \E pc \in StopPc : Goto(c, pc)
    BY <1>0, <1>9 DEF PullerStop, StopPc, NextHandle
  <2>2. stop' \in [Stopper -> StopPc]
    BY <1>0, <2>1, Names, GotoType
  <2>3. handles[c] \in Seq(Handle) /\ handles[c] # <<>>
    BY <1>0, <1>9 DEF PullerStop, RunHandle, CountInv
  <2>4. handles' \in [ApiCaller -> Seq(Handle)]
    BY <1>0, <1>9, <2>3 DEF PullerStop, RunHandle
  <2> QED BY <1>0, <2>2, <2>4, <1>9 DEF PullerStop
<1>10. ASSUME NEW c \in ApiCaller, ClientStop(c) PROVE StopTypes'
  <2>1. \E pc \in StopPc : Goto(c, pc)
    BY <1>0, <1>10 DEF ClientStop, StopPc
  <2>2. stop' \in [Stopper -> StopPc]
    BY <1>0, <2>1, Names, GotoType
  <2> QED BY <1>0, <2>2, <1>10 DEF ClientStop
<1>11. ASSUME NEW c \in ApiCaller, ClientLeft(c) PROVE StopTypes'
  <2>1. \E pc \in StopPc : Goto(c, pc)
    BY <1>0, <1>11 DEF ClientLeft, StopPc, NextHandle
  <2>2. stop' \in [Stopper -> StopPc]
    BY <1>0, <2>1, Names, GotoType
  <2> QED BY <1>0, <2>2, <1>11 DEF ClientLeft
<1>12. ASSUME NEW c \in Stopper, DisposeOnce(c) PROVE StopTypes'
  <2>1. \E pc \in StopPc : Goto(c, pc)
    BY <1>0, <1>12 DEF DisposeOnce, StopPc, AfterDispose
  <2>2. stop' \in [Stopper -> StopPc]
    BY <1>0, <2>1, Names, GotoType
  <2>3. once' \in Stopper \cup {"free", "done"} /\ todo' \in 0..2
    BY <1>0, <1>12 DEF DisposeOnce, PullerTypes
  <2> QED BY <1>0, <2>2, <2>3, <1>12 DEF DisposeOnce
<1>13. ASSUME NEW c \in Stopper, DisposeHandle(c) PROVE StopTypes'
  <2>1. \E pc \in StopPc : Goto(c, pc)
    BY <1>0, <1>13 DEF DisposeHandle, StopPc
  <2>2. stop' \in [Stopper -> StopPc]
    BY <1>0, <2>1, Names, GotoType
  <2>3. todo' \in 0..2
    BY <1>0, <1>13 DEF DisposeHandle, CountInv
  <2> QED BY <1>0, <2>2, <2>3, <1>13 DEF DisposeHandle
<1>14. ASSUME NEW c \in Stopper, DisposeClose(c) PROVE StopTypes'
  <2>1. \E pc \in StopPc : Goto(c, pc)
    BY <1>0, <1>14 DEF DisposeClose, StopPc, AfterDispose
  <2>2. stop' \in [Stopper -> StopPc]
    BY <1>0, <2>1, Names, GotoType
  <2>3. once' \in Stopper \cup {"free", "done"} /\ todo' \in 0..2
    BY <1>0, <1>14 DEF DisposeClose
  <2> QED BY <1>0, <2>2, <2>3, <1>14 DEF DisposeClose
<1>15. CASE StreamStart \/ DoSucceeds \/ InitReturns \/ TcpConnect \/ Handshake \/ PlayStarted \/ UnknownMessage \/
      RemuxCache
  BY <1>1, <1>15 DEF StreamStart, DoSucceeds, InitReturns, TcpConnect, Handshake, PlayStarted, UnknownMessage,
     RemuxCache
<1>16. ASSUME NEW p \in Puller, NewPusher(p) \/ AddStopHandle(p) \/ AddDisposeHandles(p) PROVE StopTypes'
  BY <1>1, <1>16 DEF NewPusher, AddStopHandle, AddDisposeHandles
<1>17. CASE UNCHANGED vars
  BY <1>1, <1>17
<1> QED BY <1>1, <1>2, <1>3, <1>4, <1>5, <1>6, <1>7, <1>8, <1>9, <1>10, <1>11, <1>12, <1>13, <1>14, <1>15, <1>16,
      <1>17 DEF Next, Handling, Message, Pulling, Stopping, Disposing

\* a puller starts from nothing, and appends once; the other one may undo that
LEMMA HandlesStep == IInv /\ [Next]_vars => HandlesInv'
<1> SUFFICES ASSUME IInv, [Next]_vars PROVE HandlesInv'
  OBVIOUS
<1> USE DEF vars, chanVars, analysisVars, pullerVars, flagVars, runVars, stopVars
<1>0. /\ HandlesInv
      /\ start \in [Puller -> StartPc]
      /\ count \in [Puller -> 0..1] /\ disposeHandles \in 0..2
  BY DEF IInv, TypeOK
<1>1. CASE UNCHANGED <<sdpRaw, api, start, count, disposeHandles>>
  BY <1>0, <1>1 DEF HandlesInv, Attached, Other, One, Puller
<1>2. CASE StreamStart
  BY <1>0, <1>2 DEF StreamStart, HandlesInv, Attached, Other, One, Puller
<1>3. CASE DoFails
  BY <1>0, <1>3 DEF DoFails, HandlesInv, Attached, Other, One, Puller
<1>4. CASE DoSucceeds
  BY <1>0, <1>4 DEF DoSucceeds, HandlesInv, Attached, Other, One, Puller
<1>5. CASE InitReturns
  BY <1>0, <1>5 DEF InitReturns, HandlesInv, Attached, Other, One, Puller
<1>6. ASSUME NEW msg \in {"video", "audio", "badVideo", "other"}, ReadAv(msg) PROVE HandlesInv'
  BY <1>0, <1>6 DEF ReadAv, HandlesInv, Attached, Other, One, Puller
<1>7. ASSUME NEW p \in Puller, NewPusher(p) \/ AddStopHandle(p) PROVE HandlesInv'
  BY <1>0, <1>7 DEF NewPusher, AddStopHandle, AppendStopHandle, StartGoto, HandlesInv, Attached, Other, One, Puller
<1>8. ASSUME NEW p \in Puller, AddDisposeHandles(p) PROVE HandlesInv'
  BY <1>0, <1>8 DEF AddDisposeHandles, StartGoto, HandlesInv, Attached, Other, One, Puller
<1>9. ASSUME NEW p \in Puller, AddPusher(p) PROVE HandlesInv'
  BY <1>0, <1>9 DEF AddPusher, StartGoto, HandlesInv, Attached, Other, One, Puller
<1>10. ASSUME NEW c \in Stopper, DisposeOnce(c) PROVE HandlesInv'
  BY <1>0, <1>10 DEF DisposeOnce, HandlesInv, Attached, Other, One, Puller
<1>11. ASSUME NEW c \in Stopper, DisposeClose(c) PROVE HandlesInv'
  BY <1>0, <1>11 DEF DisposeClose, HandlesInv, Attached, Other, One, Puller
<1>12. CASE TcpConnect \/ Handshake \/ PlayStarted \/ UnknownMessage \/ RemuxCache \/ ReadFails
  BY <1>1, <1>12 DEF TcpConnect, Handshake, PlayStarted, UnknownMessage, RemuxCache, ReadFails
<1>13. ASSUME NEW c \in ApiCaller, StreamStop(c) \/ SessionStop(c) \/ SessionHandle(c) \/ PullerStop(c) \/
      ClientStop(c) \/ ClientLeft(c) PROVE HandlesInv'
  BY <1>1, <1>13 DEF StreamStop, SessionStop, SessionHandle, PullerStop, ClientStop, ClientLeft
<1>14. ASSUME NEW c \in Stopper, DisposeHandle(c) PROVE HandlesInv'
  BY <1>1, <1>14 DEF DisposeHandle
<1>15. CASE UNCHANGED vars
  BY <1>1, <1>15
<1> QED BY <1>1, <1>2, <1>3, <1>4, <1>5, <1>6, <1>7, <1>8, <1>9, <1>10, <1>11, <1>12, <1>13, <1>14, <1>15 DEF Next,
      Handling, Message, Pulling, Stopping, Disposing

\* what the list has of pullers' handles after an append
LEMMA HasPullerAppend == ASSUME NEW list \in Seq(Handle) PROVE HasPuller(Append(list, "puller"))
  <1>1. Append(list, "puller")[Len(list) + 1] = "puller" /\ Len(list) + 1 \in 1..Len(Append(list, "puller"))
    OBVIOUS
  <1> QED BY <1>1 DEF HasPuller

\* what is left of them when a pusher's was run
LEMMA HasPullerTail ==
    ASSUME NEW list \in Seq(Handle), list # <<>>, Head(list) # "puller", HasPuller(list)
    PROVE  HasPuller(Tail(list)) /\ Tail(list) # <<>>
  <1>1. PICK i \in 1..Len(list) : list[i] = "puller"
    BY DEF HasPuller
  <1>2. i # 1 /\ i - 1 \in 1..Len(Tail(list)) /\ Tail(list)[i - 1] = list[i]
    BY <1>1
  <1>3. HasPuller(Tail(list))
    BY <1>1, <1>2 DEF HasPuller
  <1>4. Tail(list) # <<>>
    BY <1>2
  <1> QED BY <1>3, <1>4

\* a puller has appended, and no other step takes that back
LEMMA ListStep == IInv /\ [Next]_vars => ListInv'
<1> SUFFICES ASSUME IInv, [Next]_vars PROVE ListInv'
  OBVIOUS
<1> USE DEF vars, chanVars, analysisVars, pullerVars, flagVars, runVars, stopVars
<1>0. ListInv /\ PullerTypes /\ HandlesInv
  BY TypeParts DEF IInv
<1>1. CASE UNCHANGED <<start, stopHandles>>
  BY <1>0, <1>1 DEF ListInv, Pulled, Appended, Appending
<1>2. CASE InitReturns
  BY <1>0, <1>2 DEF InitReturns, HandlesInv, ListInv, Pulled, Appended, Appending, PullerTypes, Puller
<1>3. ASSUME NEW msg \in {"video", "audio", "badVideo", "other"}, ReadAv(msg) PROVE ListInv'
  BY <1>0, <1>3 DEF ReadAv, HandlesInv, ListInv, Pulled, Appended, Appending, PullerTypes, Puller
<1>4. ASSUME NEW p \in Puller, NewPusher(p) PROVE ListInv'
  <2>1. CASE start[p] = "pusher" /\ start'[p] = "pusherSet" /\ UNCHANGED stopHandles
    BY <1>0, <1>4, <2>1 DEF NewPusher, AppendStopHandle, StartGoto, ListInv, Pulled, Appended, Appending, PullerTypes
  <2>2. CASE start'[p] = "puller"
    BY <2>2 DEF ListInv, Appending
  <2> QED BY <1>0, <1>4, <2>1, <2>2 DEF NewPusher, AppendStopHandle, StartGoto, PullerTypes
<1>5. ASSUME NEW p \in Puller, AddStopHandle(p) PROVE ListInv'
  <2>1. CASE start'[p] = "pullerSet"
    BY <2>1 DEF ListInv, Appending
  <2>2. CASE stopHandles' = Append(copy[p], "puller")
    BY <1>0, <2>2, HasPullerAppend DEF ListInv, PullerTypes
  <2> QED BY <1>0, <1>5, <2>1, <2>2 DEF AddStopHandle, AppendStopHandle, StartGoto, PullerTypes
<1>6. ASSUME NEW p \in Puller, AddDisposeHandles(p) \/ AddPusher(p) PROVE ListInv'
  BY <1>0, <1>6 DEF AddDisposeHandles, AddPusher, StartGoto, ListInv, Pulled, Appended, Appending, PullerTypes
<1>7. CASE StreamStart \/ DoFails \/ DoSucceeds \/ TcpConnect \/ Handshake \/ PlayStarted \/ UnknownMessage \/
      RemuxCache \/ ReadFails
  BY <1>1, <1>7 DEF StreamStart, DoFails, DoSucceeds, TcpConnect, Handshake, PlayStarted, UnknownMessage, RemuxCache,
     ReadFails
<1>8. ASSUME NEW c \in ApiCaller, StreamStop(c) \/ SessionStop(c) \/ SessionHandle(c) \/ PullerStop(c) \/
      ClientStop(c) \/ ClientLeft(c) PROVE ListInv'
  BY <1>1, <1>8 DEF StreamStop, SessionStop, SessionHandle, PullerStop, ClientStop, ClientLeft
<1>9. ASSUME NEW c \in Stopper, DisposeOnce(c) \/ DisposeHandle(c) \/ DisposeClose(c) PROVE ListInv'
  BY <1>1, <1>9 DEF DisposeOnce, DisposeHandle, DisposeClose
<1>10. CASE UNCHANGED vars
  BY <1>1, <1>10
<1> QED BY <1>1, <1>2, <1>3, <1>4, <1>5, <1>6, <1>7, <1>8, <1>9, <1>10 DEF Next, Handling, Message, Pulling, Stopping,
      Disposing

\* the Once lets one caller in, who counts the handles down
LEMMA CountStep == IInv /\ [Next]_vars => CountInv'
<1> SUFFICES ASSUME IInv, [Next]_vars PROVE CountInv'
  OBVIOUS
<1> USE DEF vars, chanVars, analysisVars, pullerVars, flagVars, runVars, stopVars
<1>0. /\ CountInv /\ stop \in [Stopper -> StopPc]
      /\ handles \in [ApiCaller -> Seq(Handle)] /\ todo \in 0..2 /\ stopHandles \in Seq(Handle)
  BY DEF IInv, TypeOK
<1>1. CASE UNCHANGED <<stop, handles, once, todo>>
  BY <1>0, Names, <1>1 DEF CountInv, Goto
<1>2. CASE DoFails
  BY <1>0, Names, <1>2 DEF DoFails, CountInv, Goto
<1>3. CASE ReadFails
  BY <1>0, Names, <1>3 DEF ReadFails, CountInv, Goto
<1>4. ASSUME NEW msg \in {"video", "audio", "badVideo", "other"}, ReadAv(msg) PROVE CountInv'
  BY <1>1, <1>4 DEF ReadAv
<1>5. ASSUME NEW c \in ApiCaller, StreamStop(c) PROVE CountInv'
  BY <1>0, Names, <1>5 DEF StreamStop, CountInv, Goto
<1>6. ASSUME NEW c \in ApiCaller, SessionStop(c) PROVE CountInv'
  BY <1>0, Names, <1>6 DEF SessionStop, TakeHandles, NextHandle, CountInv, Goto
<1>7. ASSUME NEW c \in ApiCaller, SessionHandle(c) PROVE CountInv'
  BY <1>0, Names, <1>7 DEF SessionHandle, RunHandle, NextHandle, CountInv, Goto
<1>8. ASSUME NEW c \in ApiCaller, PullerStop(c) PROVE CountInv'
  BY <1>0, Names, <1>8 DEF PullerStop, RunHandle, NextHandle, CountInv, Goto
<1>9. ASSUME NEW c \in ApiCaller, ClientStop(c) PROVE CountInv'
  BY <1>0, Names, <1>9 DEF ClientStop, CountInv, Goto
<1>10. ASSUME NEW c \in ApiCaller, ClientLeft(c) PROVE CountInv'
  BY <1>0, Names, <1>10 DEF ClientLeft, NextHandle, CountInv, Goto
<1>11. ASSUME NEW c \in Stopper, DisposeOnce(c) PROVE CountInv'
  BY <1>0, Names, <1>11 DEF DisposeOnce, AfterDispose, CountInv, Goto
<1>12. ASSUME NEW c \in Stopper, DisposeHandle(c) PROVE CountInv'
  BY <1>0, Names, <1>12 DEF DisposeHandle, CountInv, Goto
<1>13. ASSUME NEW c \in Stopper, DisposeClose(c) PROVE CountInv'
  BY <1>0, Names, <1>13 DEF DisposeClose, AfterDispose, CountInv, Goto
<1>14. CASE StreamStart \/ DoSucceeds \/ InitReturns \/ TcpConnect \/ Handshake \/ PlayStarted \/ UnknownMessage \/
      RemuxCache
  BY <1>1, <1>14 DEF StreamStart, DoSucceeds, InitReturns, TcpConnect, Handshake, PlayStarted, UnknownMessage,
     RemuxCache
<1>15. ASSUME NEW p \in Puller, NewPusher(p) \/ AddStopHandle(p) \/ AddDisposeHandles(p) \/ AddPusher(p)
      PROVE CountInv'
  BY <1>1, <1>15 DEF NewPusher, AddStopHandle, AddDisposeHandles, AddPusher
<1>16. CASE UNCHANGED vars
  BY <1>1, <1>16
<1> QED BY <1>1, <1>2, <1>3, <1>4, <1>5, <1>6, <1>7, <1>8, <1>9, <1>10, <1>11, <1>12, <1>13, <1>14, <1>15, <1>16 DEF
      Next, Handling, Message, Pulling, Stopping, Disposing

\* nobody has a Stop to call before the handshake, and the handler and the reader dispose once
LEMMA EarlyStep == IInv /\ [Next]_vars => EarlyInv'
<1> SUFFICES ASSUME IInv, [Next]_vars PROVE EarlyInv'
  OBVIOUS
<1> USE DEF vars, chanVars, analysisVars, pullerVars, flagVars, runVars, stopVars
<1>0. EarlyInv /\ stop \in [Stopper -> StopPc]
  BY DEF IInv, TypeOK
<1>1. CASE UNCHANGED <<api, reader, errChan, doResultChan, once, stop>>
  BY <1>0, Names, <1>1 DEF EarlyInv, Goto
<1>2. CASE StreamStart
  BY <1>0, Names, <1>2 DEF StreamStart, EarlyInv, Goto
<1>3. CASE DoFails
  BY <1>0, Names, <1>3 DEF DoFails, EarlyInv, Goto
<1>4. CASE DoSucceeds
  BY <1>0, Names, <1>4 DEF DoSucceeds, EarlyInv, Goto
<1>5. CASE InitReturns
  BY <1>0, Names, <1>5 DEF InitReturns, EarlyInv, Goto
<1>6. CASE TcpConnect
  BY <1>0, Names, <1>6 DEF TcpConnect, EarlyInv, Goto
<1>7. CASE Handshake
  BY <1>0, Names, <1>7 DEF Handshake, EarlyInv, Goto
<1>8. CASE PlayStarted
  BY <1>0, Names, <1>8 DEF PlayStarted, Reads, EarlyInv
<1>9. CASE RemuxCache
  BY <1>0, Names, <1>9 DEF RemuxCache, EarlyInv, Goto
<1>10. CASE ReadFails
  BY <1>0, Names, <1>10 DEF ReadFails, EarlyInv, Goto
<1>11. ASSUME NEW msg \in {"video", "audio", "badVideo", "other"}, ReadAv(msg) PROVE EarlyInv'
  BY <1>0, Names, <1>11 DEF ReadAv, Reads, EarlyInv
<1>12. ASSUME NEW c \in ApiCaller, StreamStop(c) PROVE EarlyInv'
  BY <1>0, Names, <1>12 DEF StreamStop, EarlyInv, Goto
<1>13. ASSUME NEW c \in ApiCaller, SessionStop(c) PROVE EarlyInv'
  BY <1>0, Names, <1>13 DEF SessionStop, TakeHandles, EarlyInv, Goto
<1>14. ASSUME NEW c \in ApiCaller, SessionHandle(c) PROVE EarlyInv'
  BY <1>0, Names, <1>14 DEF SessionHandle, RunHandle, EarlyInv, Goto
<1>15. ASSUME NEW c \in ApiCaller, PullerStop(c) PROVE EarlyInv'
  BY <1>0, Names, <1>15 DEF PullerStop, RunHandle, EarlyInv, Goto
<1>16. ASSUME NEW c \in ApiCaller, ClientStop(c) PROVE EarlyInv'
  BY <1>0, Names, <1>16 DEF ClientStop, EarlyInv, Goto
<1>17. ASSUME NEW c \in ApiCaller, ClientLeft(c) PROVE EarlyInv'
  BY <1>0, Names, <1>17 DEF ClientLeft, EarlyInv, Goto
<1>18. ASSUME NEW c \in Stopper, DisposeOnce(c) PROVE EarlyInv'
  BY <1>0, Names, <1>18 DEF DisposeOnce, EarlyInv, Goto
<1>19. ASSUME NEW c \in Stopper, DisposeHandle(c) PROVE EarlyInv'
  BY <1>0, Names, <1>19 DEF DisposeHandle, EarlyInv, Goto
<1>20. ASSUME NEW c \in Stopper, DisposeClose(c) PROVE EarlyInv'
  BY <1>0, Names, <1>20 DEF DisposeClose, EarlyInv, Goto
<1>21. CASE UnknownMessage
  BY <1>1, <1>21 DEF UnknownMessage
<1>22. ASSUME NEW p \in Puller, NewPusher(p) \/ AddStopHandle(p) \/ AddDisposeHandles(p) \/ AddPusher(p)
      PROVE EarlyInv'
  BY <1>1, <1>22 DEF NewPusher, AddStopHandle, AddDisposeHandles, AddPusher
<1>23. CASE UNCHANGED vars
  BY <1>1, <1>23
<1> QED BY <1>1, <1>2, <1>3, <1>4, <1>5, <1>6, <1>7, <1>8, <1>9, <1>10, <1>11, <1>12, <1>13, <1>14, <1>15, <1>16,
      <1>17, <1>18, <1>19, <1>20, <1>21, <1>22, <1>23 DEF Next, Handling, Message, Pulling, Stopping, Disposing

\* a Stop goes on only behind a flag that it has set or found set
LEMMA StopStep == IInv /\ [Next]_vars => StopInv'
<1> SUFFICES ASSUME IInv, [Next]_vars PROVE StopInv'
  OBVIOUS
<1> USE DEF vars, chanVars, analysisVars, pullerVars, flagVars, runVars, stopVars
<1>0. /\ StopInv /\ HandlesInv /\ stop \in [Stopper -> StopPc] /\ start \in [Puller -> StartPc]
  BY DEF IInv, TypeOK
<1>p. start' = start => Pulled' = Pulled
  BY DEF Pulled, Appended
<1>1. CASE UNCHANGED <<registered, start, stop, stoped, clientStoped, rtpClient>>
  BY <1>0, Names, <1>p, <1>1 DEF StopInv, Goto
<1>2. CASE DoFails
  BY <1>0, <1>p, Names, <1>2 DEF DoFails, StopInv, Goto
<1>3. CASE ReadFails
  BY <1>0, <1>p, Names, <1>3 DEF ReadFails, StopInv, Goto
<1>4. ASSUME NEW msg \in {"video", "audio", "badVideo", "other"}, ReadAv(msg) PROVE StopInv'
  BY <1>0, Names, <1>4 DEF ReadAv, StopInv, HandlesInv, Pulled, Appended, Puller
<1>5. ASSUME NEW p \in Puller, NewPusher(p) \/ AddStopHandle(p) PROVE StopInv'
  BY <1>0, Names, <1>5 DEF NewPusher, AddStopHandle, AppendStopHandle, StartGoto, StopInv, Pulled, Appended
<1>6. ASSUME NEW p \in Puller, AddPusher(p) PROVE StopInv'
  BY <1>0, Names, <1>6 DEF AddPusher, StartGoto, StopInv, Pulled, Appended
<1>7. ASSUME NEW c \in ApiCaller, StreamStop(c) PROVE StopInv'
  BY <1>0, <1>p, Names, <1>7 DEF StreamStop, StopInv, Goto
<1>8. ASSUME NEW c \in ApiCaller, SessionStop(c) PROVE StopInv'
  BY <1>0, <1>p, Names, <1>8 DEF SessionStop, TakeHandles, NextHandle, StopInv, Goto
<1>9. ASSUME NEW c \in ApiCaller, SessionHandle(c) PROVE StopInv'
  BY <1>0, <1>p, Names, <1>9 DEF SessionHandle, RunHandle, NextHandle, StopInv, Goto
<1>10. ASSUME NEW c \in ApiCaller, PullerStop(c) PROVE StopInv'
  BY <1>0, <1>p, Names, <1>10 DEF PullerStop, RunHandle, NextHandle, StopInv, Goto
<1>11. ASSUME NEW c \in ApiCaller, ClientStop(c) PROVE StopInv'
  BY <1>0, <1>p, Names, <1>11 DEF ClientStop, StopInv, Goto
<1>12. ASSUME NEW c \in ApiCaller, ClientLeft(c) PROVE StopInv'
  BY <1>0, <1>p, Names, <1>12 DEF ClientLeft, NextHandle, StopInv, Goto
<1>13. ASSUME NEW c \in Stopper, DisposeOnce(c) PROVE StopInv'
  BY <1>0, <1>p, Names, <1>13 DEF DisposeOnce, AfterDispose, StopInv, Goto
<1>14. ASSUME NEW c \in Stopper, DisposeHandle(c) PROVE StopInv'
  BY <1>0, <1>p, Names, <1>14 DEF DisposeHandle, StopInv, Goto
<1>15. ASSUME NEW c \in Stopper, DisposeClose(c) PROVE StopInv'
  BY <1>0, <1>p, Names, <1>15 DEF DisposeClose, AfterDispose, StopInv, Goto
<1>16. CASE StreamStart \/ DoSucceeds \/ TcpConnect \/ Handshake \/ PlayStarted \/ UnknownMessage \/
      RemuxCache
  BY <1>1, <1>16 DEF StreamStart, DoSucceeds, TcpConnect, Handshake, PlayStarted, UnknownMessage,
     RemuxCache
<1>17. ASSUME NEW p \in Puller, AddDisposeHandles(p) PROVE StopInv'
  BY <1>0, Names, <1>17 DEF AddDisposeHandles, StartGoto, StopInv, Pulled, Appended
<1>18. CASE UNCHANGED vars
  BY <1>1, <1>18
<1>19. CASE InitReturns
  BY <1>0, Names, <1>19 DEF InitReturns, StopInv, HandlesInv, Pulled, Appended, Puller
<1> QED BY <1>1, <1>2, <1>3, <1>4, <1>5, <1>6, <1>7, <1>8, <1>9, <1>10, <1>11, <1>12, <1>13, <1>14, <1>15, <1>16,
      <1>17, <1>18, <1>19 DEF Next, Handling, Message, Pulling, Stopping, Disposing

\* whoever sets a flag goes on to the next one, and the last one to dispose
LEMMA DisposeStep == IInv /\ [Next]_vars => DisposeInv'
<1> SUFFICES ASSUME IInv, [Next]_vars PROVE DisposeInv'
  OBVIOUS
<1> USE DEF vars, chanVars, analysisVars, pullerVars, flagVars, runVars, stopVars
<1>0. /\ DisposeInv /\ StopInv /\ EarlyInv /\ CountInv /\ stop \in [Stopper -> StopPc]
      /\ once \in Stopper \cup {"free", "done"} /\ handles \in [ApiCaller -> Seq(Handle)] /\ ListInv
  BY DEF IInv, TypeOK
<1>1. CASE UNCHANGED <<stoped, once, clientStoped, interrupted, handles, stop, conn>>
  BY <1>0, Names, <1>1 DEF DisposeInv, ToClient, Goto
<1>2. CASE DoFails
  <2>1. \A d \in Stopper : d # "api" => stop'[d] = stop[d]
    BY <1>0, Names, <1>2 DEF DoFails, Goto
  <2>2. stop["api"] = "idle" /\ stop'["api"] = "dispose"
    BY <1>0, Names, <1>2 DEF DoFails, Goto, EarlyInv
  <2>3. UNCHANGED <<stoped, once, clientStoped, interrupted, handles, conn>>
    BY <1>2 DEF DoFails
  <2> QED BY <1>0, Names, <1>2, <2>1, <2>2, <2>3 DEF DisposeInv, ToClient
<1>3. CASE TcpConnect
  <2>1. once = "free" /\ once # "done"
    BY <1>0, <1>3 DEF TcpConnect, EarlyInv
  <2>2. UNCHANGED <<stoped, once, clientStoped, interrupted, handles, stop>>
    BY <1>3 DEF TcpConnect
  <2> QED BY <1>0, <2>1, <2>2 DEF DisposeInv, ToClient
<1>4. CASE ReadFails
  <2>1. \A d \in Stopper : d # "reader" => stop'[d] = stop[d]
    BY <1>0, Names, <1>4 DEF ReadFails, Goto
  <2>2. stop["reader"] = "idle" /\ stop'["reader"] = "dispose"
    BY <1>0, Names, <1>4 DEF ReadFails, Goto, EarlyInv
  <2>3. UNCHANGED <<stoped, once, clientStoped, interrupted, handles, conn>>
    BY <1>4 DEF ReadFails
  <2> QED BY <1>0, Names, <1>4, <2>1, <2>2, <2>3 DEF DisposeInv, ToClient
<1>5. ASSUME NEW msg \in {"video", "audio", "badVideo", "other"}, ReadAv(msg) PROVE DisposeInv'
  BY <1>1, <1>5 DEF ReadAv
<1>6. ASSUME NEW c \in ApiCaller, StreamStop(c) PROVE DisposeInv'
  <2>1. \A d \in Stopper : d # c => stop'[d] = stop[d]
    BY <1>0, Names, <1>6 DEF StreamStop, Goto
  <2>2. stop[c] = "idle"
    BY <1>0, Names, <1>6 DEF StreamStop
  <2>3. UNCHANGED <<stoped, once, clientStoped, interrupted, handles, conn>>
    BY <1>6 DEF StreamStop
  <2> QED BY <1>0, Names, <1>6, <2>1, <2>2, <2>3 DEF DisposeInv, ToClient
<1>7. ASSUME NEW c \in ApiCaller, SessionStop(c) PROVE DisposeInv'
  <2>1. \A d \in Stopper : d # c => stop'[d] = stop[d] /\ (d \in ApiCaller => handles'[d] = handles[d])
    BY <1>0, Names, <1>7 DEF SessionStop, TakeHandles, Goto
  <2>2. stop[c] \in {"session", "set"}
    BY <1>0, Names, <1>7 DEF SessionStop
  <2>3. UNCHANGED <<once, clientStoped, conn>>
    BY <1>7 DEF SessionStop
  <2>8. interrupted => interrupted'
    BY <1>7 DEF SessionStop, TakeHandles
  <2>4. stop[c] = "set" => interrupted' \/ ToClient(c)'
    <3> SUFFICES ASSUME stop[c] = "set", \A p \in Puller : ~Appending(p) PROVE ToClient(c)'
      BY <1>7 DEF SessionStop, TakeHandles
    <3>1. HasPuller(stopHandles)
      BY <1>0 DEF StopInv, ListInv
    <3>2. stopHandles # <<>>
      BY <3>1 DEF HasPuller
    <3>3. stop'[c] = "run" /\ handles'[c] = stopHandles
      BY <1>0, Names, <1>7, <3>2 DEF SessionStop, TakeHandles, NextHandle, Goto
    <3> QED BY <3>1, <3>3 DEF ToClient, HasPuller
  <2>5. stop[c] = "session" => stoped' = stoped
    BY <1>7 DEF SessionStop
  <2>6. \A d \in ApiCaller : d # c /\ ToClient(d) => ToClient(d)'
    BY <2>1, Names DEF ToClient, HasPuller
  <2>7. ~ToClient(c)
    BY <2>2 DEF ToClient
  <2> QED BY <1>0, Names, <2>1, <2>2, <2>3, <2>4, <2>5, <2>6, <2>7, <2>8 DEF DisposeInv
<1>8. ASSUME NEW c \in ApiCaller, SessionHandle(c) PROVE DisposeInv'
  <2>1. \A d \in Stopper : d # c => stop'[d] = stop[d] /\ (d \in ApiCaller => handles'[d] = handles[d])
    BY <1>0, Names, <1>8 DEF SessionHandle, RunHandle, Goto
  <2>2. stop[c] = "run"
    BY <1>8 DEF SessionHandle, RunHandle
  <2>3. UNCHANGED <<stoped, once, clientStoped, interrupted, conn>>
    BY <1>8 DEF SessionHandle
  <2>4. ToClient(c) => ToClient(c)'
    <3> SUFFICES ASSUME HasPuller(handles[c]) PROVE ToClient(c)'
      BY <2>2 DEF ToClient
    <3>1. handles[c] \in Seq(Handle) /\ handles[c] # <<>> /\ Head(handles[c]) # "puller"
      BY <1>0, <1>8 DEF SessionHandle, RunHandle, CountInv
    <3>2. HasPuller(Tail(handles[c])) /\ Tail(handles[c]) # <<>>
      BY <3>1, HasPullerTail
    <3>3. stop'[c] = "run" /\ handles'[c] = Tail(handles[c])
      BY <1>0, Names, <1>8, <3>2 DEF SessionHandle, RunHandle, NextHandle, Goto
    <3> QED BY <3>2, <3>3 DEF ToClient, HasPuller
  <2>5. \A d \in ApiCaller : d # c /\ ToClient(d) => ToClient(d)'
    BY <2>1, Names DEF ToClient, HasPuller
  <2> QED BY <1>0, Names, <2>1, <2>2, <2>3, <2>4, <2>5 DEF DisposeInv
<1>9. ASSUME NEW c \in ApiCaller, PullerStop(c) PROVE DisposeInv'
  <2>1. \A d \in Stopper : d # c => stop'[d] = stop[d] /\ (d \in ApiCaller => handles'[d] = handles[d])
    BY <1>0, Names, <1>9 DEF PullerStop, RunHandle, Goto
  <2>2. stop[c] = "run"
    BY <1>9 DEF PullerStop, RunHandle
  <2>3. stop'[c] = "client" \/ clientStoped
    BY <1>0, Names, <1>9 DEF PullerStop, Goto, StopInv
  <2>4. UNCHANGED <<stoped, once, clientStoped, interrupted, conn>>
    BY <1>9 DEF PullerStop
  <2>5. \A d \in ApiCaller : d # c /\ ToClient(d) => ToClient(d)'
    BY <2>1, Names DEF ToClient, HasPuller
  <2>6. ToClient(c)' \/ clientStoped
    BY <2>3 DEF ToClient
  <2> QED BY <1>0, Names, <2>1, <2>2, <2>4, <2>5, <2>6 DEF DisposeInv
<1>10. ASSUME NEW c \in ApiCaller, ClientStop(c) PROVE DisposeInv'
  <2>1. \A d \in Stopper : d # c => stop'[d] = stop[d]
    BY <1>0, Names, <1>10 DEF ClientStop, Goto
  <2>2. stop[c] \in {"client", "clientSet"}
    BY <1>0, Names, <1>10 DEF ClientStop
  <2>3. stop'[c] = "clientSet" \/ clientStoped \/ (stop'[c] = "dispose" /\ clientStoped')
    BY <1>0, Names, <1>10 DEF ClientStop, Goto, StopInv
  <2>4. clientStoped => clientStoped'
    BY <1>0, Names, <1>10 DEF ClientStop
  <2>5. clientStoped' => clientStoped \/ stop'[c] = "dispose"
    BY <1>0, Names, <1>10 DEF ClientStop, Goto
  <2>6. UNCHANGED <<stoped, once, interrupted, handles, conn>>
    BY <1>10 DEF ClientStop
  <2> QED BY <1>0, Names, <1>10, <2>1, <2>2, <2>3, <2>4, <2>5, <2>6 DEF DisposeInv, ToClient
<1>11. ASSUME NEW c \in ApiCaller, ClientLeft(c) PROVE DisposeInv'
  <2>1. \A d \in Stopper : d # c => stop'[d] = stop[d]
    BY <1>0, Names, <1>11 DEF ClientLeft, Goto
  <2>2. stop[c] = "left"
    BY <1>0, Names, <1>11 DEF ClientLeft
  <2>3. UNCHANGED <<stoped, once, clientStoped, interrupted, handles, conn>>
    BY <1>11 DEF ClientLeft
  <2> QED BY <1>0, Names, <1>11, <2>1, <2>2, <2>3 DEF DisposeInv, ToClient
<1>12. ASSUME NEW c \in Stopper, DisposeOnce(c) PROVE DisposeInv'
  <2>1. \A d \in Stopper : d # c => stop'[d] = stop[d]
    BY <1>0, <1>12 DEF DisposeOnce, Goto
  <2>2. UNCHANGED <<stoped, clientStoped, interrupted, handles, conn>> /\ stop[c] = "dispose"
    BY <1>12 DEF DisposeOnce
  <2>3. CASE once = "free" /\ once' = c /\ Goto(c, "handles")
    <3>1. stop'[c] = "handles" /\ once' # "free" /\ once' # "done"
      BY <1>0, <2>3, Names DEF Goto
    <3> QED BY <1>0, <2>1, <2>2, <2>3, <3>1, Names DEF DisposeInv, ToClient
  <2>4. CASE once = "done" /\ once' = once
    BY <1>0, <2>1, <2>2, <2>4, Names DEF DisposeInv, ToClient
  <2> QED BY <1>12, <2>3, <2>4 DEF DisposeOnce
<1>13. ASSUME NEW c \in Stopper, DisposeHandle(c) PROVE DisposeInv'
  <2>1. once = c /\ once' = c /\ c # "free" /\ c # "done"
    BY <1>0, <1>13, Names DEF DisposeHandle, CountInv
  <2>2. stop'[c] \in {"handles", "handleRemove"} /\ \A d \in Stopper : d # c => stop'[d] = stop[d]
    BY <1>0, <1>13 DEF DisposeHandle, Goto
  <2>3. UNCHANGED <<clientStoped, interrupted, handles, conn>>
    BY <1>13 DEF DisposeHandle
  <2> QED BY <1>0, <2>1, <2>2, <2>3, Names DEF DisposeInv, ToClient
<1>14. ASSUME NEW c \in Stopper, DisposeClose(c) PROVE DisposeInv'
  <2>1. once' = "done" /\ conn' # "open"
    BY <1>14 DEF DisposeClose
  <2> QED BY <2>1, Names DEF DisposeInv, ToClient
<1>15. CASE StreamStart \/ DoSucceeds \/ InitReturns \/ Handshake \/ PlayStarted \/ UnknownMessage \/ RemuxCache
  BY <1>1, <1>15 DEF StreamStart, DoSucceeds, InitReturns, Handshake, PlayStarted, UnknownMessage, RemuxCache
<1>16. ASSUME NEW p \in Puller, NewPusher(p) \/ AddStopHandle(p) \/ AddDisposeHandles(p) \/ AddPusher(p)
      PROVE DisposeInv'
  BY <1>1, <1>16 DEF NewPusher, AddStopHandle, AddDisposeHandles, AddPusher
<1>17. CASE UNCHANGED vars
  BY <1>1, <1>17
<1> QED BY <1>1, <1>2, <1>3, <1>4, <1>5, <1>6, <1>7, <1>8, <1>9, <1>10, <1>11, <1>12, <1>13, <1>14, <1>15, <1>16,
      <1>17 DEF Next, Handling, Message, Pulling, Stopping, Disposing

\* the first state: nothing is set and nobody is stopping
LEMMA InitHolds == Init => IInv
<1> SUFFICES ASSUME Init PROVE IInv
  OBVIOUS
<1>1. ReaderTypes
  <2>1. 0 \in 0..MaxCache
    BY RtmpPullAssumption
  <2>2. api \in {"idle"} /\ reader \in {"none"} /\ conn \in {"none"} /\ headers = {} /\ cached = 0
    BY DEF Init
  <2>3. errChan = FALSE /\ doResultChan = FALSE /\ notified = FALSE /\ sdpRaw = FALSE /\ crashed = FALSE
    BY DEF Init
  <2> QED BY <2>1, <2>2, <2>3 DEF ReaderTypes
<1>2. PullerTypes
  BY DEF Init, PullerTypes, StartPc, Puller
<1>3. StopTypes
  <2>1. stop \in [Stopper -> StopPc]
    BY DEF Init, StopPc
  <2>2. once \in Stopper \cup {"free", "done"} /\ todo \in 0..2
    BY DEF Init
  <2>4. handles \in [ApiCaller -> Seq(Handle)]
    BY DEF Init
  <2>3. registered \in BOOLEAN /\ stoped \in BOOLEAN /\ clientStoped \in BOOLEAN /\ rtpClient \in BOOLEAN
    BY DEF Init
  <2>5. interrupted \in BOOLEAN
    BY DEF Init
  <2> QED BY <2>1, <2>2, <2>3, <2>4, <2>5 DEF StopTypes
<1>4. HandlesInv /\ ListInv
  BY DEF Init, HandlesInv, ListInv, Pulled, Appended, Attached, Other, One, Puller
<1>5. CountInv /\ EarlyInv /\ StopInv /\ DisposeInv
  BY Names DEF Init, CountInv, EarlyInv, StopInv, DisposeInv
<1> QED BY <1>1, <1>2, <1>3, <1>4, <1>5, TypeParts DEF IInv

\* every step keeps the whole invariant, each part with the help of the others
LEMMA StepHolds == IInv /\ [Next]_vars => IInv'
<1> SUFFICES ASSUME IInv, [Next]_vars PROVE IInv'
  OBVIOUS
<1>1. ReaderTypes' /\ PullerTypes' /\ StopTypes'
  BY ReaderTypesStep, PullerTypesStep, StopTypesStep
<1>2. TypeOK'
  BY <1>1 DEF TypeOK, ReaderTypes, PullerTypes, StopTypes
<1> QED BY <1>2, HandlesStep, ListStep, CountStep, EarlyStep, StopStep, DisposeStep DEF IInv

\* the invariant holds in every state
LEMMA Invariance == Spec => []IInv
  BY InitHolds, StepHolds, PTL DEF Spec

-----------------------------------------------------------------------------
(* The theorems.                                                           *)

\* The variables stay in their types; in particular dispose never has more handles to run
\* than the two pullers have added, though their appends race.
THEOREM TypeCorrect == Spec => []TypeOK
<1>1. IInv => TypeOK
  BY DEF IInv
<1> QED BY <1>1, Invariance, PTL

\* However the source's end, an error of the dial and any number of callers of StreamStop
\* interleave, when they have come to their ends the session was disposed of and its conn
\* is not open, unless a Stop took the handles between the two appends of a puller
\* (rtmp-client.go, rtsp-session-puller.go, client_session.go).
THEOREM StoppedIsDisposed == Spec => []DisposedWhenStopped
<1>1. IInv => DisposedWhenStopped
  <2> SUFFICES ASSUME IInv, \A c \in Stopper : Resting(stop[c]),
                      NEW c \in Stopper, stop[c] \in {"done", "panicked"}, ~interrupted
               PROVE  once = "done" /\ conn # "open"
    BY DEF DisposedWhenStopped
  <2> USE DEF IInv, Resting
  <2>1. once \notin Stopper
    BY DEF DisposeInv
  <2>2. c \in ApiCaller => stoped
    BY DEF StopInv
  <2>3. stoped => once # "free"
    BY Names DEF DisposeInv, ToClient
  <2>4. c \notin ApiCaller => once = "done"
    BY DEF Stopper, DisposeInv, StopInv
  <2>5. once = "done"
    BY <2>1, <2>2, <2>3, <2>4 DEF TypeOK
  <2> QED BY <2>5 DEF DisposeInv
<1> QED BY <1>1, Invariance, PTL

\* who takes the session's pusher out of the map is in a Stop, or inside the Once
LEMMA RelayingStep == IInv /\ RelayingIsRegistered /\ [Next]_vars => RelayingIsRegistered'
<1> SUFFICES ASSUME IInv, RelayingIsRegistered, [Next]_vars PROVE RelayingIsRegistered'
  OBVIOUS
<1> USE DEF vars, chanVars, analysisVars, pullerVars, flagVars, runVars, stopVars, RelayingIsRegistered
<1>0. RelayingIsRegistered /\ PullerTypes /\ StopInv /\ CountInv
  BY TypeParts DEF IInv
<1>1. CASE UNCHANGED <<start, once, stoped, registered>>
  BY <1>0, <1>1 DEF RelayingIsRegistered
<1>2. CASE InitReturns
  BY <1>0, <1>2 DEF InitReturns, Puller, PullerTypes
<1>3. ASSUME NEW msg \in {"video", "audio", "badVideo", "other"}, ReadAv(msg) PROVE RelayingIsRegistered'
  BY <1>0, <1>3 DEF ReadAv, Puller, PullerTypes
<1>4. ASSUME NEW p \in Puller, NewPusher(p) \/ AddStopHandle(p) PROVE RelayingIsRegistered'
  BY <1>0, <1>4 DEF NewPusher, AddStopHandle, AppendStopHandle, StartGoto, PullerTypes
<1>5. ASSUME NEW p \in Puller, AddDisposeHandles(p) PROVE RelayingIsRegistered'
  BY <1>0, <1>5 DEF AddDisposeHandles, StartGoto, PullerTypes
<1>6. ASSUME NEW p \in Puller, AddPusher(p) PROVE RelayingIsRegistered'
  BY <1>6 DEF AddPusher
<1>7. ASSUME NEW c \in ApiCaller, SessionStop(c) PROVE RelayingIsRegistered'
  BY <1>0, <1>7 DEF SessionStop
<1>8. ASSUME NEW c \in ApiCaller, SessionHandle(c) PROVE RelayingIsRegistered'
  BY <1>0, Names, <1>8 DEF SessionHandle, RunHandle, StopInv
<1>9. ASSUME NEW c \in Stopper, DisposeOnce(c) PROVE RelayingIsRegistered'
  BY <1>0, Names, <1>9 DEF DisposeOnce
<1>10. ASSUME NEW c \in Stopper, DisposeHandle(c) PROVE RelayingIsRegistered'
  BY <1>0, Names, <1>10 DEF DisposeHandle, CountInv
<1>11. ASSUME NEW c \in Stopper, DisposeClose(c) PROVE RelayingIsRegistered'
  BY <1>0, <1>11 DEF DisposeClose
<1>12. CASE StreamStart \/ DoFails \/ DoSucceeds \/ TcpConnect \/ Handshake \/ PlayStarted \/ UnknownMessage \/
      RemuxCache \/ ReadFails
  BY <1>1, <1>12 DEF StreamStart, DoFails, DoSucceeds, TcpConnect, Handshake, PlayStarted, UnknownMessage, RemuxCache,
     ReadFails
<1>13. ASSUME NEW c \in ApiCaller, StreamStop(c) \/ PullerStop(c) \/ ClientStop(c) \/ ClientLeft(c) PROVE
      RelayingIsRegistered'
  BY <1>1, <1>13 DEF StreamStop, PullerStop, ClientStop, ClientLeft
<1>14. CASE UNCHANGED vars
  BY <1>1, <1>14
<1> QED BY <1>1, <1>2, <1>3, <1>4, <1>5, <1>6, <1>7, <1>8, <1>9, <1>10, <1>11, <1>12, <1>13, <1>14 DEF Next, Handling,
      Message, Pulling, Stopping, Disposing

\* A pull that relays is in the map under the ID that StreamStart answered, whichever of its
\* two pullers came first (streams.go, rtsp-session-puller.go).
THEOREM RelayingCanBeStopped == Spec => []RelayingIsRegistered
<1>1. Init => RelayingIsRegistered
  BY DEF Init, RelayingIsRegistered, Puller
<1> QED BY <1>1, Invariance, RelayingStep, PTL DEF Spec
=============================================================================
