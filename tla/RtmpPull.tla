------------------------------- MODULE RtmpPull -------------------------------
(***************************************************************************)
(* Pull-to-push from an RTMP source: one StreamStart (routers/streams.go)  *)
(* with its RTMPClient (rtmp/rtmp-client.go), the ClientSession below it   *)
(* (rtmp/client_session.go), the pullers that relay it, and the ways it    *)
(* ends: the source, an error of the connection, StreamStop.               *)
(*                                                                         *)
(* The handler waits in doContext's select while the session's goroutine,  *)
(* the reader, dials, shakes hands and reads.  The reader analyses the     *)
(* first messages of the stream until it can describe it (the SDP), which  *)
(* starts a goroutine with SessionPuller.Start.  The handler starts one    *)
(* more when it sees the SDP after the answer to play: the two pullers     *)
(* share a session, its ID and its path, so an entry of the server's map   *)
(* of either is removed by the other.                                      *)
(*                                                                         *)
(* The session is disposed of under a sync.Once, by whoever comes first.   *)
(* The list of stop handles holds a pusher's handles and a puller's: what  *)
(* the two pullers put there does the same, and so the list of handles of  *)
(* dispose is its length.  An append is a read of the list and a write,    *)
(* since the pullers race for it, and a puller makes two to the stop       *)
(* handles: the one of its pusher, then its own.  The path is free when    *)
(* the pull starts (PullToPush has the pulls that compete for one).        *)
(***************************************************************************)
EXTENDS Naturals, Sequences

CONSTANTS
    ApiCaller,            \* callers of StreamStop
    maxAnalyzeAvMsgSize,  \* messages that are cached before the analysis gives up waiting
    MaxCache              \* bound: messages that come while the analysis finds no header

ASSUME RtmpPullAssumption ==
    /\ {"reader", "api", "free", "done"} \cap ApiCaller = {}
    /\ maxAnalyzeAvMsgSize \in Nat \ {0}
    /\ MaxCache \in Nat /\ MaxCache >= maxAnalyzeAvMsgSize

VARIABLES
    api,             \* where the StreamStart handler is
    reader,          \* where the session's goroutine is
    errChan,         \* an error waits in errChan
    doResultChan,    \* the success waits in doResultChan
    notified,        \* hasNotifyDoResultSucc
    conn,            \* ClientSession.conn: not dialled, open or closed
    headers,         \* the sequence headers that were parsed, until the analysis ends
    cached,          \* the length of msgCache
    sdpRaw,          \* SDPRaw is set
    start,           \* where each goroutine with SessionPuller.Start is
    copy,            \* the stop handles that it read, to append to
    count,           \* the length it read of disposeHandles
    stopHandles,     \* Session.StopHandles
    disposeHandles,  \* ClientSession.onDisposeHandles
    registered,      \* the server's map has a pusher of the session
    stoped,          \* Session.Stoped, of the pullers and their pushers
    clientStoped,    \* RTMPClient.Stoped
    rtpClient,       \* SessionPuller.RTPClient is not nil
    stop,            \* where each caller of a Stop or of dispose is
    handles,         \* the handles that Session.Stop has yet to run
    interrupted,     \* a Session.Stop took the handles between the two appends of a puller
    once,            \* disposeOnce: free, being run by a caller, or done
    todo,            \* handles that dispose has yet to run
    crashed          \* a panic of the reader ended the process

chanVars == <<errChan, doResultChan, notified>>
analysisVars == <<headers, cached, sdpRaw>>
pullerVars == <<start, copy, count, stopHandles, disposeHandles>>
flagVars == <<stoped, clientStoped, rtpClient>>
runVars == <<handles, interrupted>>
stopVars == <<stop, runVars, once, todo>>
vars == <<api, reader, chanVars, conn, analysisVars, pullerVars, registered, flagVars, stopVars, crashed>>

Puller == {"reader", "api"}   \* who started the goroutine
Handle == {"pusher", "puller"}
Stopper == ApiCaller \cup {"reader", "api"}

Init ==
    /\ api = "idle"
    /\ reader = "none"
    /\ errChan = FALSE /\ doResultChan = FALSE /\ notified = FALSE
    /\ conn = "none"
    /\ headers = {} /\ cached = 0 /\ sdpRaw = FALSE
    /\ start = [p \in Puller |-> "none"]
    /\ copy = [p \in Puller |-> <<>>] /\ count = [p \in Puller |-> 0]
    /\ stopHandles = <<>> /\ disposeHandles = 0
    /\ registered = FALSE
    /\ stoped = FALSE /\ clientStoped = FALSE /\ rtpClient = TRUE
    /\ stop = [c \in Stopper |-> "idle"]
    /\ handles = [c \in ApiCaller |-> <<>>] /\ interrupted = FALSE
    /\ once = "free" /\ todo = 0
    /\ crashed = FALSE

Goto(c, pc) == stop' = [stop EXCEPT ![c] = pc]

-----------------------------------------------------------------------------
(* StreamStart: RTMPClient.Init, which waits in doContext.                 *)

StreamStart ==
    /\ api = "idle"
    /\ api' = "init"
    /\ reader' = "dial"
    /\ UNCHANGED <<chanVars, conn, analysisVars, pullerVars, registered, flagVars, stopVars, crashed>>

\* the error is taken from errChan: the handler disposes of the session
DoFails ==
    /\ api = "init" /\ errChan
    /\ errChan' = FALSE
    /\ api' = "disposing"
    /\ Goto("api", "dispose")
    /\ UNCHANGED <<reader, doResultChan, notified, conn, analysisVars, pullerVars, registered, flagVars, runVars,
                   once, todo, crashed>>

DoSucceeds ==
    /\ api = "init" /\ doResultChan
    /\ doResultChan' = FALSE
    /\ api' = "pulled"
    /\ UNCHANGED <<reader, errChan, notified, conn, analysisVars, pullerVars, registered, flagVars, stopVars,
                   crashed>>

\* Init starts a puller if the SDP is there by now; the ID is answered
InitReturns ==
    /\ api = "pulled"
    /\ api' = "answered"
    /\ start' = IF sdpRaw THEN [start EXCEPT !["api"] = "pusher"] ELSE start
    /\ UNCHANGED <<reader, chanVars, conn, analysisVars, copy, count, stopHandles, disposeHandles, registered,
                   flagVars, stopVars, crashed>>

-----------------------------------------------------------------------------
(* The session's goroutine.                                                *)

\* parseUrl or net.Dial fails, and the error goes to errChan; or there is a conn
TcpConnect ==
    /\ reader = "dial"
    /\ \/ reader' = "ended" /\ errChan' = TRUE /\ UNCHANGED conn
       \/ reader' = "handshake" /\ conn' = "open" /\ UNCHANGED errChan
    /\ UNCHANGED <<api, doResultChan, notified, analysisVars, pullerVars, registered, flagVars, stopVars, crashed>>

\* mutant of Handshake: a failure ends the goroutine without telling errChan
HandshakeSilent ==
    /\ reader = "handshake"
    /\ reader' \in {"ended", "loop"}
    /\ UNCHANGED <<api, chanVars, conn, analysisVars, pullerVars, registered, flagVars, stopVars, crashed>>

\* the handshake, the chunk size and connect
Handshake ==
    /\ reader = "handshake"
    /\ \/ reader' = "ended" /\ errChan' = TRUE
       \/ reader' = "loop" /\ UNCHANGED errChan
    /\ UNCHANGED <<api, doResultChan, notified, conn, analysisVars, pullerVars, registered, flagVars, stopVars,
                   crashed>>

Reads == reader = "loop" /\ conn = "open"

\* NetStream.Play.Start: told once, since some servers send it twice
PlayStarted ==
    /\ Reads
    /\ ~notified
    /\ notified' = TRUE
    /\ doResultChan' = TRUE
    /\ UNCHANGED <<api, reader, errChan, conn, analysisVars, pullerVars, registered, flagVars, stopVars, crashed>>

\* both headers, or enough messages and a header that sdp.Pack can describe
Describable(hs, n) == hs = {"video", "audio"} \/ (n >= maxAnalyzeAvMsgSize /\ hs # {})

\* A message of the analysis: it is cached, and analysed except when it is a video
\* header that cannot be parsed, which also takes the one that was there away.  The SDP
\* starts a puller.
ReadAv(msg) ==
    LET hs == CASE msg = "badVideo" -> headers \ {"video"}
                [] msg = "other" -> headers
                [] OTHER -> headers \cup {msg}
    IN
    /\ Reads /\ ~sdpRaw
    /\ cached < MaxCache
    /\ cached' = cached + 1
    /\ IF msg # "badVideo" /\ Describable(hs, cached + 1)
       THEN /\ sdpRaw' = TRUE /\ headers' = {}
            /\ start' = [start EXCEPT !["reader"] = "pusher"]
            /\ reader' = "remux"
       ELSE headers' = hs /\ UNCHANGED <<sdpRaw, start, reader>>
    /\ UNCHANGED <<api, chanVars, conn, copy, count, stopHandles, disposeHandles, registered, flagVars, stopVars,
                   crashed>>

\* the cache goes to the handlers of packs that are there by now
RemuxCache ==
    /\ reader = "remux"
    /\ reader' = "loop"
    /\ cached' = 0
    /\ UNCHANGED <<api, chanVars, conn, headers, sdpRaw, pullerVars, registered, flagVars, stopVars, crashed>>

\* doMsg panics on a message type that it does not know
UnknownMessage ==
    /\ Reads
    /\ crashed' = TRUE
    /\ UNCHANGED <<api, reader, chanVars, conn, analysisVars, pullerVars, registered, flagVars, stopVars>>

\* the source has ended, a message is wrong or the conn was closed: runReadLoop disposes
ReadFails ==
    /\ reader = "loop"
    /\ reader' = "disposing"
    /\ Goto("reader", "dispose")
    /\ UNCHANGED <<api, chanVars, conn, analysisVars, pullerVars, registered, flagVars, runVars, once, todo, crashed>>

-----------------------------------------------------------------------------
(* SessionPuller.Start, on a goroutine of its own.                         *)

StartGoto(p, pc) == start' = [start EXCEPT ![p] = pc]

\* An append to the session's stop handles, which holds no lock: another puller's may come
\* between the read and the write.
AppendStopHandle(p, read, write, next, h) ==
    \/ /\ start[p] = read
       /\ copy' = [copy EXCEPT ![p] = stopHandles]
       /\ StartGoto(p, write)
       /\ UNCHANGED stopHandles
    \/ /\ start[p] = write
       /\ stopHandles' = Append(copy[p], h)
       /\ copy' = [copy EXCEPT ![p] = <<>>]
       /\ StartGoto(p, next)

\* NewPusher's handle, which takes the pusher out of the map
NewPusher(p) ==
    /\ AppendStopHandle(p, "pusher", "pusherSet", "puller", "pusher")
    /\ UNCHANGED <<api, reader, chanVars, conn, analysisVars, count, disposeHandles, registered, flagVars, stopVars,
                   crashed>>

\* mutant of AddStopHandle: the puller does not add itself to what the pusher's Stop calls
AddStopHandleNot(p) ==
    /\ start[p] = "puller"
    /\ StartGoto(p, "dispose")
    /\ UNCHANGED <<api, reader, chanVars, conn, analysisVars, copy, count, stopHandles, disposeHandles, registered,
                   flagVars, stopVars, crashed>>

\* the puller's, which stops the client
AddStopHandle(p) ==
    /\ AppendStopHandle(p, "puller", "pullerSet", "dispose", "puller")
    /\ UNCHANGED <<api, reader, chanVars, conn, analysisVars, count, disposeHandles, registered, flagVars, stopVars,
                   crashed>>

\* mutant of AddDisposeHandles: the puller attaches nothing to the session
AddDisposeHandlesNot(p) ==
    /\ start[p] = "dispose"
    /\ StartGoto(p, "add")
    /\ UNCHANGED <<api, reader, chanVars, conn, analysisVars, copy, count, stopHandles, disposeHandles, registered,
                   flagVars, stopVars, crashed>>

\* RTMPClient.AddStopHandles
AddDisposeHandles(p) ==
    /\ \/ /\ start[p] = "dispose"
          /\ count' = [count EXCEPT ![p] = disposeHandles]
          /\ StartGoto(p, "disposeSet")
          /\ UNCHANGED disposeHandles
       \/ /\ start[p] = "disposeSet"
          /\ disposeHandles' = count[p] + 1
          /\ StartGoto(p, "add")
          /\ UNCHANGED count
    /\ UNCHANGED <<api, reader, chanVars, conn, analysisVars, copy, stopHandles, registered, flagVars, stopVars,
                   crashed>>

\* the session's pusher takes the path, or finds itself there
AddPusher(p) ==
    /\ start[p] = "add"
    /\ StartGoto(p, "done")
    /\ registered' = TRUE
    /\ UNCHANGED <<api, reader, chanVars, conn, analysisVars, copy, count, stopHandles, disposeHandles, flagVars,
                   stopVars, crashed>>

-----------------------------------------------------------------------------
(* StreamStop: Session.Stop, its handles, SessionPuller.Stop and           *)
(* RTMPClient.Stop, which disposes of the session.                         *)

StreamStop(c) ==
    /\ api = "answered"
    /\ stop[c] = "idle"
    /\ Goto(c, IF registered THEN "session" ELSE "notFound")
    /\ UNCHANGED <<api, reader, chanVars, conn, analysisVars, pullerVars, registered, flagVars, runVars, once, todo,
                   crashed>>

\* a puller has put its pusher's handle on the list, over what was there, and not its own
Appending(p) == start[p] \in {"puller", "pullerSet"}

\* what Session.Stop goes on with, by the handles that are left
NextHandle(left) == IF left = <<>> THEN "done" ELSE "run"

\* the loop runs over the list that is there when it begins
TakeHandles(c) ==
    /\ handles' = [handles EXCEPT ![c] = stopHandles]
    /\ interrupted' = (interrupted \/ \E p \in Puller : Appending(p))
    /\ Goto(c, NextHandle(stopHandles))

\* mutant of SessionStop: Stoped is set after the handles
SessionStopLate(c) ==
    /\ \/ /\ stop[c] = "session" /\ ~stoped
          /\ TakeHandles(c)
          /\ UNCHANGED stoped
       \/ /\ stop[c] = "done"
          /\ stoped' = TRUE
          /\ UNCHANGED <<stop, handles, interrupted>>
    /\ UNCHANGED <<api, reader, chanVars, conn, analysisVars, pullerVars, registered, clientStoped, rtpClient, once,
                   todo, crashed>>

\* the test of Stoped, then the set and the loop
SessionStop(c) ==
    /\ \/ /\ stop[c] = "session"
          /\ Goto(c, IF stoped THEN "done" ELSE "set")
          /\ UNCHANGED <<stoped, handles, interrupted>>
       \/ /\ stop[c] = "set"
          /\ stoped' = TRUE
          /\ TakeHandles(c)
    /\ UNCHANGED <<api, reader, chanVars, conn, analysisVars, pullerVars, registered, clientStoped, rtpClient, once,
                   todo, crashed>>

RunHandle(c, h) ==
    /\ stop[c] = "run"
    /\ Head(handles[c]) = h
    /\ handles' = [handles EXCEPT ![c] = Tail(@)]

\* the pusher's handle
SessionHandle(c) ==
    /\ RunHandle(c, "pusher")
    /\ registered' = FALSE
    /\ Goto(c, NextHandle(Tail(handles[c])))
    /\ UNCHANGED <<api, reader, chanVars, conn, analysisVars, pullerVars, flagVars, interrupted, once, todo, crashed>>

\* the puller's
PullerStop(c) ==
    /\ RunHandle(c, "puller")
    /\ Goto(c, IF rtpClient THEN "client" ELSE NextHandle(Tail(handles[c])))
    /\ UNCHANGED <<api, reader, chanVars, conn, analysisVars, pullerVars, registered, flagVars, interrupted, once,
                   todo, crashed>>

\* RTMPClient.Stop; the puller's field may have become nil since the test, which the
\* handler's recover catches
ClientStop(c) ==
    /\ \/ /\ stop[c] = "client"
          /\ Goto(c, IF ~rtpClient THEN "panicked" ELSE IF clientStoped THEN "left" ELSE "clientSet")
          /\ UNCHANGED clientStoped
       \/ /\ stop[c] = "clientSet"
          /\ clientStoped' = TRUE
          /\ Goto(c, "dispose")
    /\ UNCHANGED <<api, reader, chanVars, conn, analysisVars, pullerVars, registered, stoped, rtpClient, runVars,
                   once, todo, crashed>>

\* RTMPClient.Stop has returned
ClientLeft(c) ==
    /\ stop[c] = "left"
    /\ rtpClient' = FALSE
    /\ Goto(c, NextHandle(handles[c]))
    /\ UNCHANGED <<api, reader, chanVars, conn, analysisVars, pullerVars, registered, stoped, clientStoped, runVars,
                   once, todo, crashed>>

-----------------------------------------------------------------------------
(* ClientSession.dispose.                                                  *)

\* what the caller goes on with
AfterDispose(c) == IF c \in ApiCaller THEN "left" ELSE "done"

\* The first caller runs it, the others wait for it: Once.Do returns when it is done.
DisposeOnce(c) ==
    /\ stop[c] = "dispose"
    /\ \/ /\ once = "free"
          /\ once' = c
          /\ todo' = disposeHandles
          /\ Goto(c, "handles")
          /\ UNCHANGED <<api, reader>>
       \/ /\ once = "done"
          /\ Goto(c, AfterDispose(c))
          /\ api' = IF c = "api" THEN "failed" ELSE api
          /\ reader' = IF c = "reader" THEN "ended" ELSE reader
          /\ UNCHANGED <<once, todo>>
    /\ UNCHANGED <<chanVars, conn, analysisVars, pullerVars, registered, flagVars, runVars, crashed>>

\* mutant of DisposeHandle: the handle stops the puller, and so calls dispose from within
DisposeHandleStops(c) ==
    /\ stop[c] = "handles"
    /\ todo > 0
    /\ Goto(c, "dispose")
    /\ stoped' = TRUE
    /\ clientStoped' = TRUE
    /\ UNCHANGED <<api, reader, chanVars, conn, analysisVars, pullerVars, registered, rtpClient, runVars, once, todo,
                   crashed>>

\* a puller's handle: the flag, the players (module RtspRelay), then the map
DisposeHandle(c) ==
    /\ \/ /\ stop[c] = "handles"
          /\ todo > 0
          /\ stoped' = TRUE
          /\ Goto(c, "handleRemove")
          /\ UNCHANGED <<registered, todo>>
       \/ /\ stop[c] = "handleRemove"
          /\ registered' = FALSE
          /\ todo' = todo - 1
          /\ Goto(c, "handles")
          /\ UNCHANGED stoped
    /\ UNCHANGED <<api, reader, chanVars, conn, analysisVars, pullerVars, clientStoped, rtpClient, runVars, once,
                   crashed>>

DisposeClose(c) ==
    /\ stop[c] = "handles"
    /\ todo = 0
    /\ conn' = IF conn = "open" THEN "closed" ELSE conn
    /\ once' = "done"
    /\ Goto(c, AfterDispose(c))
    /\ api' = IF c = "api" THEN "failed" ELSE api
    /\ reader' = IF c = "reader" THEN "ended" ELSE reader
    /\ UNCHANGED <<chanVars, analysisVars, pullerVars, registered, flagVars, runVars, todo, crashed>>

-----------------------------------------------------------------------------
Handling == DoFails \/ DoSucceeds \/ InitReturns

Message == PlayStarted \/ (\E msg \in {"video", "audio", "badVideo", "other"} : ReadAv(msg)) \/ UnknownMessage

Pulling(p) == NewPusher(p) \/ AddStopHandle(p) \/ AddDisposeHandles(p) \/ AddPusher(p)

Disposing(c) == DisposeOnce(c) \/ DisposeHandle(c) \/ DisposeClose(c)

Stopping(c) ==
    SessionStop(c) \/ SessionHandle(c) \/ PullerStop(c) \/ ClientStop(c) \/ ClientLeft(c)

Next ==
    /\ ~crashed
    /\ \/ StreamStart \/ Handling
       \/ TcpConnect \/ Handshake \/ Message \/ RemuxCache \/ ReadFails
       \/ \E p \in Puller : Pulling(p)
       \/ \E c \in ApiCaller : StreamStop(c) \/ Stopping(c)
       \/ \E c \in Stopper : Disposing(c)

Spec == Init /\ [][Next]_vars

\* Goroutines go on, a dial comes to an end, and a conn that is closed ends the read.  Each
\* of these steps is taken finitely often, so that to be fair to one of them is to be fair
\* to all.  No timeout is set: a source may be silent for ever, in the handshake too.
GoesOn ==
    \/ Handling \/ TcpConnect \/ RemuxCache
    \/ conn = "closed" /\ ReadFails
    \/ \E p \in Puller : Pulling(p)
    \/ \E c \in Stopper : Disposing(c)
    \/ \E c \in ApiCaller : Stopping(c)

Fairness == WF_vars(~crashed /\ GoesOn)

FairSpec == Spec /\ Fairness

-----------------------------------------------------------------------------
(* Properties.                                                             *)

StartPc == {"none", "pusher", "pusherSet", "puller", "pullerSet", "dispose", "disposeSet", "add", "done"}

StopPc ==
    {"idle", "notFound", "session", "set", "run", "client", "clientSet", "dispose", "handles", "handleRemove", "left",
     "done", "panicked"}

\* Every variable stays in its type.
TypeOK ==
    /\ api \in {"idle", "init", "disposing", "failed", "pulled", "answered"}
    /\ reader \in {"none", "dial", "handshake", "loop", "remux", "disposing", "ended"}
    /\ errChan \in BOOLEAN /\ doResultChan \in BOOLEAN /\ notified \in BOOLEAN
    /\ conn \in {"none", "open", "closed"}
    /\ headers \in SUBSET {"video", "audio"}
    /\ cached \in 0..MaxCache
    /\ sdpRaw \in BOOLEAN
    /\ start \in [Puller -> StartPc]
    /\ copy \in [Puller -> Seq(Handle)] /\ count \in [Puller -> 0..1]
    /\ stopHandles \in Seq(Handle) /\ disposeHandles \in 0..2
    /\ registered \in BOOLEAN
    /\ stoped \in BOOLEAN /\ clientStoped \in BOOLEAN /\ rtpClient \in BOOLEAN
    /\ stop \in [Stopper -> StopPc]
    /\ handles \in [ApiCaller -> Seq(Handle)] /\ interrupted \in BOOLEAN
    /\ once \in Stopper \cup {"free", "done"}
    /\ todo \in 0..2
    /\ crashed \in BOOLEAN

Resting(pc) == pc \in {"idle", "notFound", "done", "panicked"}

\* When nobody is in the middle of a Stop or of dispose and somebody has come to the end
\* of one, the session has been disposed of and its conn is not open: no mixture of the
\* source's end, an error of the dial and two callers of StreamStop, each of which returns
\* where it finds another's flag, leaves the source connected.  A Stop that took the list
\* of handles between the two appends of a puller may have missed the other puller's.
DisposedWhenStopped ==
    /\ \A c \in Stopper : Resting(stop[c])
    /\ \E c \in Stopper : stop[c] \in {"done", "panicked"}
    /\ ~interrupted
    => once = "done" /\ conn # "open"

\* A pull that is relaying can be found by the ID that StreamStart answered, though two
\* pullers put it in the map and each other's handles take it out.
RelayingIsRegistered ==
    (\E p \in Puller : start[p] = "done") /\ once = "free" /\ ~stoped => registered

\* The ID that StreamStart answers can be used to stop the pull later: a StreamStop that
\* finds the pull disconnects the source and ends its reader.
IdStopsPull ==
    \A c \in ApiCaller : stop[c] = "session" ~> (conn = "closed" /\ reader = "ended") \/ crashed

\* So it is, whatever the source and the other callers do, unless a Stop took the list of
\* handles between the two appends of a puller.
StoppedPullEnds ==
    \A c \in ApiCaller :
        stop[c] = "session" ~> (conn = "closed" /\ reader = "ended") \/ interrupted \/ crashed

\* No puller is on its way to the map, or will be.
Settled == api = "answered" /\ \A p \in Puller : start[p] \in {"none", "done"}

\* A source that ends while its pusher is in the map gives the path back for good, also when
\* one of the two pullers' handles was lost in the race for the list.
EndedSourceFreesPath ==
    registered /\ Settled /\ stop["reader"] = "dispose" /\ once = "free" ~> ([]~registered) \/ crashed

\* A source that cannot be reached, or fails in the handshake, is answered with an error.
FailedDialAnswered ==
    api = "init" /\ reader = "ended" /\ once = "free" ~> api = "failed"
=============================================================================
