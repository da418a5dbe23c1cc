------------------------------ MODULE RtspServer ------------------------------
(***************************************************************************)
(* The registry of the RTSP server (rtsp/rtsp-server.go) and the sessions  *)
(* that publish through it (rtsp/rtsp-session.go): ANNOUNCE tests the map  *)
(* and enters it in two critical sections, RECORD enters it once more,     *)
(* Session.Stop runs in the session's reader and in the HTTP handler of    *)
(* StreamStop.  Who enters or leaves the map tells the recorder goroutine  *)
(* over an unbuffered channel, and a restart closes both channels.         *)
(*                                                                         *)
(* A session announces once, so it stands for its Pusher; it is followed   *)
(* from its ANNOUNCE on.  A panic that nothing recovers ends the process:  *)
(* crashed, and no step follows.                                           *)
(***************************************************************************)
EXTENDS Naturals, FiniteSets

CONSTANTS
    Publisher,          \* sessions that publish
    Path,               \* paths of the server's map
    PathOf,             \* the path each of them announces
    NoPusher,           \* no entry in the map
    SaveStreamToLocal,  \* the recorder starts an ffmpeg for every pusher
    EnsureDirFails,     \* creating a stream's directory may fail
    ApiStops,           \* somebody calls StreamStop
    MaxRecord,          \* bound: RECORD requests of one session
    MaxRestart          \* bound: restarts of the server

ASSUME ServerAssumption ==
    /\ PathOf \in [Publisher -> Path]
    /\ NoPusher \notin Publisher
    /\ {SaveStreamToLocal, EnsureDirFails, ApiStops} \subseteq BOOLEAN
    /\ MaxRecord \in Nat
    /\ MaxRestart \in Nat

VARIABLES
    pushers,   \* Server.pushers
    reader,    \* where the session's reader is
    records,   \* RECORD requests it has read
    stoped,    \* Session.Stoped
    stop,      \* where each caller of Session.Stop is
    started,   \* goroutines that AddPusher started for the pusher
    addOpen,   \* addPusherCh is not closed
    removeOpen,\* removePusherCh is not closed
    recorder,  \* each goroutine of Record: its two flags, and whether it exists
    cmds,      \* its pusher2ffmpegMap
    phase,     \* where the restart loop of the application is
    restarts,  \* restarts begun
    crashed    \* an unrecovered panic ended the process

sessionVars  == <<reader, records, stoped, stop>>
channelVars  == <<addOpen, removeOpen>>
recorderVars == <<recorder, cmds>>
restartVars  == <<phase, restarts>>
vars == <<pushers, sessionVars, started, channelVars, recorderVars, restartVars, crashed>>

Stopper == {"reader", "api"}

\* every Start of the server runs a recorder of its own
Recorder == 0..MaxRestart

Registered(p) == pushers[PathOf[p]] = p

\* mutant of Looping: the loop goes on while both flags are up
LoopingBoth(r) == recorder[r].live /\ recorder[r].addChnOk /\ recorder[r].removeChnOk

\* the loop of Record goes on while one of the flags is up
Looping(r) == recorder[r].live /\ (recorder[r].addChnOk \/ recorder[r].removeChnOk)

Fresh == [live |-> TRUE, addChnOk |-> TRUE, removeChnOk |-> TRUE]

Init ==
    /\ pushers = [q \in Path |-> NoPusher]
    /\ reader = [p \in Publisher |-> "connected"]
    /\ records = [p \in Publisher |-> 0]
    /\ stoped = [p \in Publisher |-> FALSE]
    /\ stop = [p \in Publisher |-> [s \in Stopper |-> "idle"]]
    /\ started = [p \in Publisher |-> 0]
    /\ addOpen = TRUE
    /\ removeOpen = TRUE
    /\ recorder = [r \in Recorder |-> IF r = 0 THEN Fresh ELSE [Fresh EXCEPT !.live = FALSE]]
    /\ cmds = [r \in Recorder |-> {}]
    /\ phase = "up"
    /\ restarts = 0
    /\ crashed = FALSE

-----------------------------------------------------------------------------
(* The reader of a publishing session.                                     *)

\* ANNOUNCE: NewPusher, then GetPusher decides between AddPusher and 406
Announce(p) ==
    /\ reader[p] = "connected"
    /\ reader' = [reader EXCEPT ![p] =
                    IF pushers[PathOf[p]] = NoPusher THEN "announce" ELSE "ready"]
    /\ UNCHANGED <<pushers, records, stoped, stop, started, channelVars, recorderVars>>
    /\ UNCHANGED <<restartVars, crashed>>

\* the loop of Session.Start tests Stoped before it reads on; a stopped session
\* returns, and its deferred Stop does nothing
ReaderLoops(p) ==
    /\ reader[p] = "ready"
    /\ reader' = [reader EXCEPT ![p] = IF stoped[p] THEN "ended" ELSE "reading"]
    /\ UNCHANGED <<pushers, records, stoped, stop, started, channelVars, recorderVars>>
    /\ UNCHANGED <<restartVars, crashed>>

\* RECORD is read, perhaps from the buffer and after a Stop by StreamStop
Record(p) ==
    /\ reader[p] = "reading"
    /\ records[p] < MaxRecord
    /\ reader' = [reader EXCEPT ![p] = "record"]
    /\ records' = [records EXCEPT ![p] = @ + 1]
    /\ UNCHANGED <<pushers, stoped, stop, started, channelVars, recorderVars>>
    /\ UNCHANGED <<restartVars, crashed>>

\* mutant of AddPusher: the goroutine is started whether the path was free or not
AddPusherStartsAlways(p) ==
    /\ reader[p] \in {"announce", "record"}
    /\ started' = [started EXCEPT ![p] = @ + 1]
    /\ IF pushers[PathOf[p]] = NoPusher
       THEN /\ pushers' = [pushers EXCEPT ![PathOf[p]] = p]
            /\ reader' = [reader EXCEPT ![p] = IF @ = "announce" THEN "sendAnnounced" ELSE "sendRecorded"]
       ELSE /\ reader' = [reader EXCEPT ![p] = "ready"]
            /\ UNCHANGED pushers
    /\ UNCHANGED <<records, stoped, stop, channelVars, recorderVars, restartVars, crashed>>

\* AddPusher: enter the map if the path is free, start the pusher's goroutine,
\* and go on to the send
AddPusher(p) ==
    /\ reader[p] \in {"announce", "record"}
    /\ IF pushers[PathOf[p]] = NoPusher
       THEN /\ pushers' = [pushers EXCEPT ![PathOf[p]] = p]
            /\ started' = [started EXCEPT ![p] = @ + 1]
            /\ reader' = [reader EXCEPT ![p] = IF @ = "announce" THEN "sendAnnounced" ELSE "sendRecorded"]
       ELSE /\ reader' = [reader EXCEPT ![p] = "ready"]
            /\ UNCHANGED <<pushers, started>>
    /\ UNCHANGED <<records, stoped, stop, channelVars, recorderVars, restartVars, crashed>>

SendingAdd(p) == reader[p] \in {"sendAnnounced", "sendRecorded"}

\* a send on a closed channel: handleRequest recovers the one of ANNOUNCE (500),
\* the one of RECORD is made by its deferred function, after the recover
AddPusherPanics(p) ==
    /\ SendingAdd(p)
    /\ ~addOpen
    /\ reader' = [reader EXCEPT ![p] = "ready"]
    /\ crashed' = (reader[p] = "sendRecorded")
    /\ UNCHANGED <<pushers, records, stoped, stop, started, channelVars, recorderVars, restartVars>>

-----------------------------------------------------------------------------
(* Session.Stop, by the reader (end of the connection, TEARDOWN) or by      *)
(* StreamStop, which finds the pusher in the map by its ID.                 *)

\* the test of Stoped that Stop begins with
StopTest(p) == IF stoped[p] THEN "done" ELSE "set"

ReaderEnds(p) ==
    /\ reader[p] = "reading"
    /\ reader' = [reader EXCEPT ![p] = "ended"]
    /\ stop' = [stop EXCEPT ![p]["reader"] = StopTest(p)]
    /\ UNCHANGED <<pushers, records, stoped, started, channelVars, recorderVars>>
    /\ UNCHANGED <<restartVars, crashed>>

StreamStop(p) ==
    /\ ApiStops
    /\ Registered(p)
    /\ stop[p]["api"] = "idle"
    /\ stop' = [stop EXCEPT ![p]["api"] = "found"]
    /\ UNCHANGED <<pushers, reader, records, stoped, started, channelVars, recorderVars>>
    /\ UNCHANGED <<restartVars, crashed>>

StreamStopCalls(p) ==
    /\ stop[p]["api"] = "found"
    /\ stop' = [stop EXCEPT ![p]["api"] = StopTest(p)]
    /\ UNCHANGED <<pushers, reader, records, stoped, started, channelVars, recorderVars>>
    /\ UNCHANGED <<restartVars, crashed>>

\* mutant of StopSet: StreamStop sets Stoped only, as the commented-out Pusher.Stop does
StopSetOnly(p, s) ==
    /\ stop[p][s] = "set"
    /\ stop' = [stop EXCEPT ![p][s] = IF s = "api" THEN "done" ELSE "remove"]
    /\ stoped' = [stoped EXCEPT ![p] = TRUE]
    /\ UNCHANGED <<pushers, reader, records, started, channelVars, recorderVars>>
    /\ UNCHANGED <<restartVars, crashed>>

StopSet(p, s) ==
    /\ stop[p][s] = "set"
    /\ stop' = [stop EXCEPT ![p][s] = "remove"]
    /\ stoped' = [stoped EXCEPT ![p] = TRUE]
    /\ UNCHANGED <<pushers, reader, records, started, channelVars, recorderVars>>
    /\ UNCHANGED <<restartVars, crashed>>

\* mutant of RemovePusher: whoever holds the path is removed
RemovePusherByPath(p, s) ==
    /\ stop[p][s] = "remove"
    /\ pushers' = [pushers EXCEPT ![PathOf[p]] = NoPusher]
    /\ stop' = [stop EXCEPT ![p][s] = IF pushers[PathOf[p]] # NoPusher THEN "send" ELSE "done"]
    /\ UNCHANGED <<reader, records, stoped, started, channelVars, recorderVars>>
    /\ UNCHANGED <<restartVars, crashed>>

\* mutant of RemovePusher: the recorder is not told
RemovePusherUntold(p, s) ==
    /\ stop[p][s] = "remove"
    /\ pushers' = IF Registered(p) THEN [pushers EXCEPT ![PathOf[p]] = NoPusher] ELSE pushers
    /\ stop' = [stop EXCEPT ![p][s] = "done"]
    /\ UNCHANGED <<reader, records, stoped, started, channelVars, recorderVars>>
    /\ UNCHANGED <<restartVars, crashed>>

\* mutant of RemovePusher: the recorder is told even if nothing was removed
RemovePusherTellsAlways(p, s) ==
    /\ stop[p][s] = "remove"
    /\ stop' = [stop EXCEPT ![p][s] = "send"]
    /\ pushers' = IF Registered(p) THEN [pushers EXCEPT ![PathOf[p]] = NoPusher] ELSE pushers
    /\ UNCHANGED <<reader, records, stoped, started, channelVars, recorderVars>>
    /\ UNCHANGED <<restartVars, crashed>>

\* RemovePusher: leave the map, if the entry is this session's, and go on to the send
RemovePusher(p, s) ==
    /\ stop[p][s] = "remove"
    /\ IF Registered(p)
       THEN /\ pushers' = [pushers EXCEPT ![PathOf[p]] = NoPusher]
            /\ stop' = [stop EXCEPT ![p][s] = "send"]
       ELSE /\ stop' = [stop EXCEPT ![p][s] = "done"]
            /\ UNCHANGED pushers
    /\ UNCHANGED <<reader, records, stoped, started, channelVars, recorderVars>>
    /\ UNCHANGED <<restartVars, crashed>>

\* the send panics: gin recovers it in the HTTP handler, where the rest of Stop
\* is then left undone; nothing recovers it in the reader
RemovePusherPanics(p, s) ==
    /\ stop[p][s] = "send"
    /\ ~removeOpen
    /\ stop' = [stop EXCEPT ![p][s] = "panicked"]
    /\ crashed' = (s = "reader")
    /\ UNCHANGED <<pushers, reader, records, stoped, started, channelVars, recorderVars, restartVars>>

-----------------------------------------------------------------------------
(* The recorder goroutine of Record: one receive per round.                *)

\* mutant of DirFailed: an error ends the recorder instead of the round
DirFailedReturns(r) ==
    recorder' = [recorder EXCEPT ![r].addChnOk = FALSE, ![r].removeChnOk = FALSE]

\* EnsureDir failed: continue, with the flag of the receive set
DirFailed(r) ==
    recorder' = [recorder EXCEPT ![r].addChnOk = TRUE]

\* a pusher is received, and its ffmpeg started unless its directory cannot be made
RecorderAdds(r, p) ==
    /\ Looping(r)
    /\ SendingAdd(p)
    /\ addOpen
    /\ reader' = [reader EXCEPT ![p] = "ready"]
    /\ \/ /\ recorder' = [recorder EXCEPT ![r].addChnOk = TRUE]
          /\ cmds' = IF SaveStreamToLocal THEN [cmds EXCEPT ![r] = @ \cup {p}] ELSE cmds
       \/ /\ SaveStreamToLocal /\ EnsureDirFails
          /\ DirFailed(r)
          /\ UNCHANGED cmds
    /\ UNCHANGED <<pushers, records, stoped, stop, started, channelVars, restartVars, crashed>>

\* a pusher that left is received: without an entry for it cmd is nil, and so
\* cmd.Process panics
RecorderRemoves(r, p, s) ==
    /\ Looping(r)
    /\ stop[p][s] = "send"
    /\ removeOpen
    /\ stop' = [stop EXCEPT ![p][s] = "done"]
    /\ recorder' = [recorder EXCEPT ![r].removeChnOk = TRUE]
    /\ cmds' = [cmds EXCEPT ![r] = @ \ {p}]
    /\ crashed' = (SaveStreamToLocal /\ p \notin cmds[r])
    /\ UNCHANGED <<pushers, reader, records, stoped, started, channelVars, restartVars>>

AddChnClosed(r) ==
    /\ Looping(r)
    /\ ~addOpen
    /\ recorder' = [recorder EXCEPT ![r].addChnOk = FALSE]
    /\ UNCHANGED <<pushers, sessionVars, started, channelVars, cmds, restartVars, crashed>>

\* the channel is closed: every process is told to end
RemoveChnClosed(r) ==
    /\ Looping(r)
    /\ ~removeOpen
    /\ recorder' = [recorder EXCEPT ![r].removeChnOk = FALSE]
    /\ cmds' = [cmds EXCEPT ![r] = {}]
    /\ UNCHANGED <<pushers, sessionVars, started, channelVars, restartVars, crashed>>

-----------------------------------------------------------------------------
(* The restart loop of the application: Server.Stop, then Server.Start.    *)

\* Stop begins: the map is replaced, the sessions live on
ServerStop ==
    /\ phase = "up"
    /\ restarts < MaxRestart
    /\ phase' = "closeAdd"
    /\ restarts' = restarts + 1
    /\ pushers' = [q \in Path |-> NoPusher]
    /\ UNCHANGED <<sessionVars, started, channelVars, recorderVars, crashed>>

\* close panics if an earlier Stop has closed the channel
CloseAdd ==
    /\ phase = "closeAdd"
    /\ phase' = "closeRemove"
    /\ addOpen' = FALSE
    /\ crashed' = ~addOpen
    /\ UNCHANGED <<pushers, sessionVars, started, removeOpen, recorderVars, restarts>>

CloseRemove ==
    /\ phase = "closeRemove"
    /\ phase' = "up"
    /\ removeOpen' = FALSE
    /\ UNCHANGED <<pushers, sessionVars, started, addOpen, recorderVars, restarts, crashed>>

\* Start runs in a goroutine, which makes a new recorder, and no new channels
ServerStart(r) ==
    /\ r \in 1..restarts
    /\ r = restarts => phase = "up"
    /\ ~recorder[r].live
    /\ recorder' = [recorder EXCEPT ![r] = Fresh]
    /\ UNCHANGED <<pushers, sessionVars, started, channelVars, cmds, restartVars, crashed>>

-----------------------------------------------------------------------------
Restart ==
    \/ ServerStop \/ CloseAdd \/ CloseRemove
    \/ \E r \in Recorder : ServerStart(r)

RecorderStep(r) ==
    \/ \E p \in Publisher :
        RecorderAdds(r, p) \/ \E s \in Stopper : RecorderRemoves(r, p, s)
    \/ AddChnClosed(r) \/ RemoveChnClosed(r)

SessionStop(p, s) == StopSet(p, s) \/ RemovePusher(p, s) \/ RemovePusherPanics(p, s)

PublisherStep(p) ==
    \/ Announce(p) \/ ReaderLoops(p) \/ Record(p) \/ AddPusher(p) \/ AddPusherPanics(p) \/ ReaderEnds(p)
    \/ StreamStop(p) \/ StreamStopCalls(p)
    \/ \E s \in Stopper : SessionStop(p, s)

Next ==
    /\ ~crashed
    /\ \/ \E p \in Publisher : PublisherStep(p)
       \/ \E r \in Recorder : RecorderStep(r)
       \/ Restart

Spec == Init /\ [][Next]_vars

\* Goroutines go on when they can, a blocked send is served when its turn comes
\* (the runtime queues senders), and a restart once begun is finished; nobody has
\* to announce, record, stop or restart.
Fairness ==
    /\ \A p \in Publisher :
        /\ WF_vars(~crashed /\ (AddPusher(p) \/ AddPusherPanics(p) \/ ReaderLoops(p)))
        /\ WF_vars(~crashed /\ StreamStopCalls(p))
        /\ \A s \in Stopper : WF_vars(~crashed /\ SessionStop(p, s))
    /\ \A r \in Recorder :
        /\ WF_vars(~crashed /\ ServerStart(r))
        /\ WF_vars(~crashed /\ AddChnClosed(r))
        /\ WF_vars(~crashed /\ RemoveChnClosed(r))
        /\ \A p \in Publisher :
            /\ SF_vars(~crashed /\ RecorderAdds(r, p))
            /\ \A s \in Stopper : SF_vars(~crashed /\ RecorderRemoves(r, p, s))
    /\ WF_vars(~crashed /\ (CloseAdd \/ CloseRemove))

FairSpec == Spec /\ Fairness

-----------------------------------------------------------------------------
(* Properties.                                                             *)

ReaderPc ==
    {"connected", "announce", "sendAnnounced", "ready", "reading", "record", "sendRecorded", "ended"}
StopPc == {"idle", "found", "set", "remove", "send", "done", "panicked"}

SessionTypeOK ==
    /\ reader \in [Publisher -> ReaderPc]
    /\ records \in [Publisher -> 0..MaxRecord]
    /\ stoped \in [Publisher -> BOOLEAN]
    /\ stop \in [Publisher -> [Stopper -> StopPc]]
    /\ started \in [Publisher -> Nat]

ServerTypeOK ==
    /\ pushers \in [Path -> Publisher \cup {NoPusher}]
    /\ addOpen \in BOOLEAN
    /\ removeOpen \in BOOLEAN
    /\ recorder \in [Recorder -> [live : BOOLEAN, addChnOk : BOOLEAN, removeChnOk : BOOLEAN]]
    /\ cmds \in [Recorder -> SUBSET Publisher]
    /\ phase \in {"up", "closeAdd", "closeRemove"}
    /\ restarts \in 0..MaxRestart
    /\ crashed \in BOOLEAN

\* Every variable stays in its type; an entry is under its session's path, and
\* its goroutine has been started.
TypeOK ==
    /\ SessionTypeOK
    /\ ServerTypeOK
    /\ \A q \in Path : pushers[q] # NoPusher =>
        PathOf[pushers[q]] = q /\ started[pushers[q]] > 0

\* A pusher leaves the map only by its own session's RemovePusher, or all do when
\* the server stops; that another session that was refused the path (406, or the
\* loser of two ANNOUNCEs) ends never takes the path from its holder, and nobody
\* replaces a holder.
OnlyOwnerUnregisters ==
    [][\A q \in Path : pushers[q] # NoPusher /\ pushers'[q] # pushers[q] =>
        /\ pushers'[q] = NoPusher
        /\ phase' # phase \/ \E s \in Stopper : stop[pushers[q]][s] = "remove"]_vars

\* One goroutine works for a pusher: ANNOUNCE and RECORD both add it, and until a
\* restart empties the map the second start happens only for a session that was stopped
\* in between, whose goroutines end at their first test of Stoped.
OneGoroutineWorks ==
    restarts = 0 => \A p \in Publisher : started[p] > 1 => stoped[p]

\* A recording belongs to a pusher in the map or to one whose removal is on its
\* way to the recorder: none is orphaned until a restart empties the map.
RecordingOwned ==
    restarts = 0 =>
        \A r \in Recorder : \A p \in cmds[r] :
            Registered(p) \/ \E s \in Stopper : stop[p][s] = "send"

\* As long as clients only announce, record and leave, and directories can be made, every
\* removal the recorder receives is of a pusher it has an entry for, whoever holds, is
\* refused or inherits the path (a StreamStop can overtake the send of ANNOUNCE).
RecorderKnowsPushers ==
    crashed => restarts > 0 \/ (\E p \in Publisher : stop[p]["api"] # "idle")

\* Server.Stop ends the recordings: a recorder that has seen both channels closed, and
\* ends, leaves no ffmpeg behind, whatever it received in between.
RecordingsEndOnStop ==
    \A r \in Recorder : recorder[r].live /\ ~Looping(r) => cmds[r] = {}

\* A session waiting to tell the recorder goes on, so no request and no stop
\* hangs on the recorder (its directory errors included).
SendersServed ==
    \A p \in Publisher :
        /\ SendingAdd(p) ~> ~SendingAdd(p) \/ crashed
        /\ \A s \in Stopper : stop[p][s] = "send" ~> stop[p][s] # "send" \/ crashed

\* A publisher that is stopped before it records gives its path back, however the
\* stops of its reader and of StreamStop interleave (RECORD races them: the README).
PathFreed ==
    \A p \in Publisher :
        stoped[p] /\ records[p] = 0 ~> ~Registered(p) \/ records[p] > 0 \/ crashed

\* routers/sys.go line 152: /restart restarts the service.  So when the restart is complete, with
\* its new recorder at work, a session that has entered the map since Stop emptied it can
\* tell the recorder: the send that AddPusher stands before does not meet a closed channel.
ServesAfterRestart ==
    restarts > 0 /\ phase = "up" /\ recorder[restarts].live =>
        \A p \in Publisher : Registered(p) /\ SendingAdd(p) => addOpen
=============================================================================
