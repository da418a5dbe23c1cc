--------------------------- MODULE RtspServerProofs ---------------------------
(***************************************************************************)
(* Proofs about RtspServer, for any set of publishers and paths and any    *)
(* bounds; three of them until the server is restarted.                    *)
(***************************************************************************)
EXTENDS RtspServer, TLAPS

-----------------------------------------------------------------------------
(* Types, and who is in the map.                                           *)

LEMMA InitTypes == Init => TypeOK
<1> SUFFICES ASSUME Init
             PROVE  TypeOK
  OBVIOUS
<1>1. SessionTypeOK
  BY ServerAssumption DEF Init, SessionTypeOK, ReaderPc, StopPc
<1>2. recorder \in [Recorder -> [live : BOOLEAN, addChnOk : BOOLEAN, removeChnOk : BOOLEAN]]
  <2>1. \A r \in Recorder :
            recorder[r] \in [live : BOOLEAN, addChnOk : BOOLEAN, removeChnOk : BOOLEAN]
    BY DEF Init, Fresh
  <2>2. QED
    BY <2>1 DEF Init
<1>3. ServerTypeOK
  <2>1. /\ pushers \in [Path -> Publisher \cup {NoPusher}]
        /\ cmds \in [Recorder -> SUBSET Publisher]
    BY DEF Init
  <2>2. restarts \in 0..MaxRestart
    BY ServerAssumption DEF Init
  <2>3. QED
    BY <1>2, <2>1, <2>2 DEF Init, ServerTypeOK
<1>4. QED
  BY <1>1, <1>3 DEF Init, TypeOK

\* A step of a publisher or of the reader's or the API's Stop keeps the types.
LEMMA PublisherTypes ==
    ASSUME TypeOK, NEW p \in Publisher, PublisherStep(p)
    PROVE  SessionTypeOK' /\ ServerTypeOK'
<1> USE DEF TypeOK, SessionTypeOK, ServerTypeOK
<1>1. CASE Announce(p) \/ ReaderLoops(p)
  BY <1>1 DEF Announce, ReaderLoops, ReaderPc, channelVars, recorderVars, restartVars
<1>2. CASE Record(p)
  <2>1. records[p] + 1 \in 0..MaxRecord
    BY <1>2, ServerAssumption DEF Record
  <2>2. QED
    BY <1>2, <2>1 DEF Record, ReaderPc, channelVars, recorderVars, restartVars
<1>3. CASE AddPusher(p)
  <2>1. started[p] + 1 \in Nat /\ PathOf[p] \in Path
    BY ServerAssumption
  <2>2. reader' \in [Publisher -> ReaderPc]
    BY <1>3 DEF AddPusher, ReaderPc
  <2>3. started' \in [Publisher -> Nat] /\ pushers' \in [Path -> Publisher \cup {NoPusher}]
    BY <1>3, <2>1 DEF AddPusher
  <2>4. QED
    BY <1>3, <2>2, <2>3 DEF AddPusher, channelVars, recorderVars, restartVars
<1>4. CASE AddPusherPanics(p)
  BY <1>4 DEF AddPusherPanics, ReaderPc, channelVars, recorderVars, restartVars
<1>5. CASE ReaderEnds(p)
  BY <1>5 DEF ReaderEnds, StopTest, StopPc, Stopper, ReaderPc, channelVars, recorderVars, restartVars
<1>6. CASE StreamStop(p) \/ StreamStopCalls(p)
  <2>1. CASE StreamStop(p)
    BY <2>1 DEF StreamStop, StopPc, Stopper, channelVars, recorderVars, restartVars
  <2>2. CASE StreamStopCalls(p)
    BY <2>2 DEF StreamStopCalls, StopTest, StopPc, Stopper, channelVars, recorderVars, restartVars
  <2>3. QED
    BY <1>6, <2>1, <2>2
<1>7. ASSUME NEW s \in Stopper, SessionStop(p, s)
      PROVE  SessionTypeOK' /\ ServerTypeOK'
  <2>1. CASE StopSet(p, s)
    BY <1>7, <2>1 DEF StopSet, StopPc, channelVars, recorderVars, restartVars
  <2>2. CASE RemovePusher(p, s)
    <3>1. pushers' = pushers \/ pushers' = [pushers EXCEPT ![PathOf[p]] = NoPusher]
      BY <2>2 DEF RemovePusher
    <3>2. \E pc \in {"send", "done"} : stop' = [stop EXCEPT ![p][s] = pc]
      BY <2>2 DEF RemovePusher
    <3>3. SessionTypeOK'
      BY <2>2, <3>2 DEF RemovePusher, StopPc
    <3>4. pushers' \in [Path -> Publisher \cup {NoPusher}]
      BY <3>1
    <3>5. QED
      BY <2>2, <3>3, <3>4 DEF RemovePusher, channelVars, recorderVars, restartVars
  <2>3. CASE RemovePusherPanics(p, s)
    BY <1>7, <2>3 DEF RemovePusherPanics, StopPc, channelVars, recorderVars, restartVars
  <2>4. QED
    BY <1>7, <2>1, <2>2, <2>3 DEF SessionStop
<1>8. QED
  BY <1>1, <1>2, <1>3, <1>4, <1>5, <1>6, <1>7 DEF PublisherStep

LEMMA RecorderTypes ==
    ASSUME TypeOK, NEW r \in Recorder, RecorderStep(r)
    PROVE  SessionTypeOK' /\ ServerTypeOK'
<1> USE DEF TypeOK, SessionTypeOK, ServerTypeOK
<1>1. ASSUME NEW p \in Publisher, RecorderAdds(r, p)
      PROVE  SessionTypeOK' /\ ServerTypeOK'
  <2>1. SessionTypeOK'
    BY <1>1 DEF RecorderAdds, ReaderPc
  <2>2. recorder' = [recorder EXCEPT ![r].addChnOk = TRUE]
    BY <1>1 DEF RecorderAdds, DirFailed
  <2>3. cmds' = cmds \/ cmds' = [cmds EXCEPT ![r] = @ \cup {p}]
    BY <1>1 DEF RecorderAdds
  <2>4. UNCHANGED <<pushers, addOpen, removeOpen, phase, restarts, crashed>>
    BY <1>1 DEF RecorderAdds, channelVars, restartVars
  <2>5. cmds' \in [Recorder -> SUBSET Publisher]
    <3>1. CASE cmds' = [cmds EXCEPT ![r] = @ \cup {p}]
      <4>1. cmds[r] \cup {p} \in SUBSET Publisher
        OBVIOUS
      <4>2. QED
        BY <3>1, <4>1
    <3>2. QED
      BY <2>3, <3>1
  <2>6. recorder' \in [Recorder -> [live : BOOLEAN, addChnOk : BOOLEAN, removeChnOk : BOOLEAN]]
    BY <2>2
  <2>7. QED
    BY <2>1, <2>4, <2>5, <2>6
<1>2. ASSUME NEW p \in Publisher, NEW s \in Stopper, RecorderRemoves(r, p, s)
      PROVE  SessionTypeOK' /\ ServerTypeOK'
  BY <1>2 DEF RecorderRemoves, StopPc, channelVars, restartVars
<1>3. CASE AddChnClosed(r) \/ RemoveChnClosed(r)
  <2>1. CASE AddChnClosed(r)
    BY <2>1 DEF AddChnClosed, sessionVars, channelVars, restartVars
  <2>2. CASE RemoveChnClosed(r)
    BY <2>2 DEF RemoveChnClosed, sessionVars, channelVars, restartVars
  <2>3. QED
    BY <1>3, <2>1, <2>2
<1>4. QED
  BY <1>1, <1>2, <1>3 DEF RecorderStep

LEMMA RestartTypes ==
    ASSUME TypeOK, Restart
    PROVE  SessionTypeOK' /\ ServerTypeOK'
<1> USE DEF TypeOK, SessionTypeOK, ServerTypeOK
<1>1. CASE ServerStop
  <2>1. restarts + 1 \in 0..MaxRestart
    BY <1>1, ServerAssumption DEF ServerStop
  <2>2. QED
    BY <1>1, <2>1 DEF ServerStop, sessionVars, channelVars, recorderVars
<1>2. CASE CloseAdd \/ CloseRemove
  BY <1>2 DEF CloseAdd, CloseRemove, sessionVars, recorderVars
<1>3. ASSUME NEW r \in Recorder, ServerStart(r)
      PROVE  SessionTypeOK' /\ ServerTypeOK'
  BY <1>3 DEF ServerStart, Fresh, sessionVars, channelVars, restartVars
<1>4. QED
  BY <1>1, <1>2, <1>3 DEF Restart

\* The map only ever changes to an entry under its own path, whose goroutine is
\* started in the same critical section.
LEMMA EntryStarted ==
    ASSUME TypeOK, [Next]_vars,
           NEW q \in Path, pushers'[q] # NoPusher
    PROVE  PathOf[pushers'[q]] = q /\ started'[pushers'[q]] > 0
<1> USE ServerAssumption DEF TypeOK, SessionTypeOK, ServerTypeOK
<1>1. CASE pushers' = pushers /\ started' = started
  BY <1>1
<1>2. ASSUME NEW p \in Publisher, AddPusher(p)
      PROVE  PathOf[pushers'[q]] = q /\ started'[pushers'[q]] > 0
  <2>1. CASE pushers[PathOf[p]] = NoPusher /\ q = PathOf[p]
    BY <1>2, <2>1 DEF AddPusher
  <2>2. CASE pushers[PathOf[p]] = NoPusher /\ q # PathOf[p]
    <3>1. pushers'[q] = pushers[q] /\ started' = [started EXCEPT ![p] = @ + 1]
      BY <1>2, <2>2 DEF AddPusher
    <3>2. pushers[q] \in Publisher
      BY <3>1
    <3>3. QED
      BY <3>1, <3>2
  <2>3. CASE pushers[PathOf[p]] # NoPusher
    BY <1>1, <1>2, <2>3 DEF AddPusher
  <2>4. QED
    BY <2>1, <2>2, <2>3
<1>3. ASSUME NEW p \in Publisher, NEW s \in Stopper, RemovePusher(p, s)
      PROVE  PathOf[pushers'[q]] = q /\ started'[pushers'[q]] > 0
  BY <1>3 DEF RemovePusher
<1>4. CASE ServerStop
  BY <1>4 DEF ServerStop
<1>5. QED
  BY <1>1, <1>2, <1>3, <1>4
     DEF Next, vars, PublisherStep, Announce, ReaderLoops, Record, AddPusherPanics, ReaderEnds,
         StreamStop, StreamStopCalls, SessionStop, StopSet, RemovePusherPanics, RecorderStep,
         RecorderAdds, RecorderRemoves, AddChnClosed, RemoveChnClosed, Restart, CloseAdd,
         CloseRemove, ServerStart

LEMMA TypesStep == TypeOK /\ [Next]_vars => TypeOK'
<1> SUFFICES ASSUME TypeOK, [Next]_vars
             PROVE  TypeOK'
  OBVIOUS
<1>1. CASE UNCHANGED vars
  BY <1>1
     DEF TypeOK, SessionTypeOK, ServerTypeOK, vars, sessionVars, channelVars, recorderVars, restartVars
<1>2. CASE Next
  <2>1. SessionTypeOK' /\ ServerTypeOK'
    BY <1>2, PublisherTypes, RecorderTypes, RestartTypes DEF Next
  <2>2. QED
    BY <2>1, EntryStarted DEF TypeOK
<1>3. QED
  BY <1>1, <1>2

\* Every variable keeps its type, and an entry of the map is under the path its
\* session announced and has its goroutine (AddPusher).
THEOREM TypeCorrect == Spec => []TypeOK
<1>1. QED
  BY InitTypes, TypesStep, PTL DEF Spec

\* Only the session that holds a path gives it back, by its own RemovePusher, unless
\* the server stops (Server.RemovePusher, Server.Stop).
THEOREM HoldersKeepPaths == Spec => OnlyOwnerUnregisters
<1> DEFINE Kept ==
        \A q \in Path : pushers[q] # NoPusher /\ pushers'[q] # pushers[q] =>
            /\ pushers'[q] = NoPusher
            /\ phase' # phase \/ \E s \in Stopper : stop[pushers[q]][s] = "remove"
<1>1. TypeOK /\ [Next]_vars => [Kept]_vars
  <2> SUFFICES ASSUME TypeOK, Next
               PROVE  Kept
    OBVIOUS
  <2> USE ServerAssumption DEF TypeOK, ServerTypeOK
  <2>1. CASE pushers' = pushers
    BY <2>1
  <2>2. ASSUME NEW p \in Publisher, AddPusher(p)
        PROVE  Kept
    BY <2>2 DEF AddPusher
  <2>3. ASSUME NEW p \in Publisher, NEW s \in Stopper, RemovePusher(p, s)
        PROVE  Kept
    <3>1. CASE Registered(p)
      BY <2>3, <3>1 DEF RemovePusher, Registered
    <3>2. CASE ~Registered(p)
      BY <2>1, <2>3, <3>2 DEF RemovePusher
    <3>3. QED
      BY <3>1, <3>2
  <2>4. CASE ServerStop
    BY <2>4 DEF ServerStop
  <2>5. QED
    BY <2>1, <2>2, <2>3, <2>4
       DEF Next, PublisherStep, Announce, ReaderLoops, Record, AddPusherPanics, ReaderEnds,
           StreamStop, StreamStopCalls, SessionStop, StopSet, RemovePusherPanics, RecorderStep,
           RecorderAdds, RecorderRemoves, AddChnClosed, RemoveChnClosed, Restart, CloseAdd,
           CloseRemove, ServerStart
<1>2. QED
  BY <1>1, TypeCorrect, PTL DEF Spec, OnlyOwnerUnregisters

-----------------------------------------------------------------------------
(* Until the server is restarted: one goroutine works for a pusher, and a  *)
(* recording has an owner.                                                 *)

\* The channels are open, and the first recorder is the only one.
NoRestart ==
    /\ restarts = 0 /\ phase = "up" /\ addOpen /\ removeOpen
    /\ \A r \in Recorder : r # 0 => ~recorder[r].live /\ cmds[r] = {}

\* Who has passed the test of Stoped in Stop has set it.
StopsAreSet ==
    \A p \in Publisher : \A s \in Stopper :
        stop[p][s] \in {"remove", "send", "panicked"} => stoped[p]

\* A pusher that was added and not stopped is still in the map.
WorkersRegistered ==
    \A p \in Publisher : started[p] > 0 /\ ~stoped[p] => Registered(p)

\* Of a pusher's goroutines one works.
OneWorks == \A p \in Publisher : started[p] > 1 => stoped[p]

IInv ==
    /\ TypeOK
    /\ NoRestart
    /\ StopsAreSet
    /\ WorkersRegistered
    /\ OneWorks

LEMMA NoRestartStep ==
    ASSUME TypeOK, NoRestart, [Next]_vars, restarts' = 0
    PROVE  NoRestart'
<1> USE DEF NoRestart, TypeOK, ServerTypeOK
<1>1. CASE UNCHANGED <<restartVars, channelVars, recorderVars>>
  BY <1>1 DEF restartVars, channelVars, recorderVars
<1>2. ASSUME NEW p \in Publisher, PublisherStep(p)
      PROVE  UNCHANGED <<restartVars, channelVars, recorderVars>>
  BY <1>2
     DEF PublisherStep, Announce, ReaderLoops, Record, AddPusher, AddPusherPanics, ReaderEnds,
         StreamStop, StreamStopCalls, SessionStop, StopSet, RemovePusher, RemovePusherPanics
<1>3. ASSUME NEW r \in Recorder, RecorderStep(r)
      PROVE  NoRestart'
  <2>1. Looping(r) /\ UNCHANGED <<restartVars, channelVars>>
    BY <1>3 DEF RecorderStep, RecorderAdds, RecorderRemoves, AddChnClosed, RemoveChnClosed
  <2>2. r = 0
    BY <2>1 DEF Looping
  <2>3. ~AddChnClosed(r) /\ ~RemoveChnClosed(r)
    BY DEF AddChnClosed, RemoveChnClosed
  <2>4. \A t \in Recorder : t # r => recorder'[t] = recorder[t] /\ cmds'[t] = cmds[t]
    BY <1>3, <2>3 DEF RecorderStep, RecorderAdds, RecorderRemoves, DirFailed
  <2>5. QED
    BY <2>1, <2>2, <2>4 DEF restartVars, channelVars
<1>4. ~ServerStop /\ ~CloseAdd /\ ~CloseRemove
  BY DEF ServerStop, CloseAdd, CloseRemove
<1>5. ASSUME NEW r \in Recorder, ServerStart(r)
      PROVE  FALSE
  BY <1>5 DEF ServerStart
<1>6. QED
  BY <1>1, <1>2, <1>3, <1>4, <1>5 DEF Next, vars, Restart

\* Restarts are only counted up.
LEMMA RestartsGrow ==
    ASSUME TypeOK, [Next]_vars, restarts' = 0
    PROVE  restarts = 0
<1> USE DEF TypeOK, ServerTypeOK
<1>1. restarts \in Nat
  BY ServerAssumption
<1>2. restarts' = restarts \/ restarts' = restarts + 1
  BY DEF Next, vars, restartVars, PublisherStep, Announce, ReaderLoops, Record, AddPusher,
         AddPusherPanics, ReaderEnds, StreamStop, StreamStopCalls, SessionStop, StopSet,
         RemovePusher, RemovePusherPanics, RecorderStep, RecorderAdds, RecorderRemoves,
         AddChnClosed, RemoveChnClosed, Restart, ServerStop, CloseAdd, CloseRemove, ServerStart
<1>3. QED
  BY <1>1, <1>2

LEMMA StopsAreSetStep ==
    ASSUME TypeOK, StopsAreSet, [Next]_vars
    PROVE  StopsAreSet'
<1> SUFFICES ASSUME NEW q \in Publisher, NEW t \in Stopper,
                    stop'[q][t] \in {"remove", "send", "panicked"}
             PROVE  stoped'[q]
  BY DEF StopsAreSet
<1> USE DEF TypeOK, SessionTypeOK, StopsAreSet
<1>1. CASE stop' = stop /\ stoped' = stoped
  BY <1>1
<1>2. ASSUME NEW p \in Publisher, ReaderEnds(p) \/ StreamStop(p) \/ StreamStopCalls(p)
      PROVE  stoped'[q]
  <2>1. \E s \in Stopper, pc \in {"found", "set", "done"} : stop' = [stop EXCEPT ![p][s] = pc]
    BY <1>2 DEF ReaderEnds, StreamStop, StreamStopCalls, StopTest, Stopper
  <2>2. stop'[q][t] = stop[q][t]
    BY <2>1
  <2>3. stoped' = stoped
    BY <1>2 DEF ReaderEnds, StreamStop, StreamStopCalls
  <2>4. QED
    BY <2>2, <2>3
<1>3. ASSUME NEW p \in Publisher, NEW s \in Stopper, StopSet(p, s)
      PROVE  stoped'[q]
  BY <1>3 DEF StopSet
<1>4. ASSUME NEW p \in Publisher, NEW s \in Stopper, RemovePusher(p, s) \/ RemovePusherPanics(p, s)
      PROVE  stoped'[q]
  <2>1. stop[p][s] \in {"remove", "send"} /\ stoped' = stoped
    BY <1>4 DEF RemovePusher, RemovePusherPanics
  <2>2. \E pc \in StopPc : stop' = [stop EXCEPT ![p][s] = pc]
    BY <1>4 DEF RemovePusher, RemovePusherPanics, StopPc
  <2>3. QED
    BY <2>1, <2>2
<1>5. ASSUME NEW r \in Recorder, NEW p \in Publisher, NEW s \in Stopper, RecorderRemoves(r, p, s)
      PROVE  stoped'[q]
  BY <1>5 DEF RecorderRemoves
<1>6. QED
  BY <1>1, <1>2, <1>3, <1>4, <1>5
     DEF Next, vars, sessionVars, PublisherStep, Announce, ReaderLoops, Record, AddPusher,
         AddPusherPanics, SessionStop, RecorderStep, RecorderAdds, AddChnClosed, RemoveChnClosed,
         Restart, ServerStop, CloseAdd, CloseRemove, ServerStart

LEMMA WorkersStep ==
    ASSUME IInv, restarts' = 0, [Next]_vars
    PROVE  WorkersRegistered' /\ OneWorks'
<1> SUFFICES ASSUME NEW q \in Publisher
             PROVE  /\ started'[q] > 0 /\ ~stoped'[q] => pushers'[PathOf[q]] = q
                    /\ started'[q] > 1 => stoped'[q]
  BY DEF WorkersRegistered, OneWorks, Registered
<1> USE ServerAssumption
    DEF IInv, TypeOK, SessionTypeOK, ServerTypeOK, WorkersRegistered, OneWorks, Registered
<1>1. CASE UNCHANGED <<pushers, started, stoped>>
  BY <1>1
<1>2. ASSUME NEW p \in Publisher, AddPusher(p)
      PROVE  /\ started'[q] > 0 /\ ~stoped'[q] => pushers'[PathOf[q]] = q
             /\ started'[q] > 1 => stoped'[q]
  <2>1. CASE pushers[PathOf[p]] = NoPusher /\ q = p
    <3>1. started[p] = 0 \/ stoped[p]
      BY <2>1
    <3>2. started'[p] = started[p] + 1 /\ stoped' = stoped /\ pushers'[PathOf[p]] = p
      BY <1>2, <2>1 DEF AddPusher
    <3>3. QED
      BY <2>1, <3>1, <3>2
  <2>2. CASE pushers[PathOf[p]] = NoPusher /\ q # p
    <3>1. started'[q] = started[q] /\ stoped' = stoped
      BY <1>2, <2>2 DEF AddPusher
    <3>2. CASE PathOf[q] = PathOf[p]
      BY <2>2, <3>1, <3>2
    <3>3. CASE PathOf[q] # PathOf[p]
      BY <1>2, <2>2, <3>1, <3>3 DEF AddPusher
    <3>4. QED
      BY <3>2, <3>3
  <2>3. CASE pushers[PathOf[p]] # NoPusher
    BY <1>1, <1>2, <2>3 DEF AddPusher
  <2>4. QED
    BY <2>1, <2>2, <2>3
<1>3. ASSUME NEW p \in Publisher, NEW s \in Stopper, StopSet(p, s)
      PROVE  /\ started'[q] > 0 /\ ~stoped'[q] => pushers'[PathOf[q]] = q
             /\ started'[q] > 1 => stoped'[q]
  BY <1>3 DEF StopSet
<1>4. ASSUME NEW p \in Publisher, NEW s \in Stopper, RemovePusher(p, s)
      PROVE  /\ started'[q] > 0 /\ ~stoped'[q] => pushers'[PathOf[q]] = q
             /\ started'[q] > 1 => stoped'[q]
  <2>1. stoped[p] /\ UNCHANGED <<started, stoped>>
    BY <1>4 DEF RemovePusher, StopsAreSet
  <2>2. CASE Registered(p)
    BY <1>4, <2>1, <2>2 DEF RemovePusher
  <2>3. CASE ~Registered(p)
    BY <1>1, <1>4, <2>1, <2>3 DEF RemovePusher
  <2>4. QED
    BY <2>2, <2>3
<1>5. ~ServerStop
  BY DEF ServerStop, NoRestart
<1>6. QED
  BY <1>1, <1>2, <1>3, <1>4, <1>5
     DEF Next, vars, sessionVars, PublisherStep, Announce, ReaderLoops, Record, AddPusherPanics,
         ReaderEnds, StreamStop, StreamStopCalls, SessionStop, RemovePusherPanics, RecorderStep,
         RecorderAdds, RecorderRemoves, AddChnClosed, RemoveChnClosed, Restart, CloseAdd,
         CloseRemove, ServerStart

LEMMA InitIInv == Init => IInv
<1> SUFFICES ASSUME Init
             PROVE  IInv
  OBVIOUS
<1>1. TypeOK
  BY InitTypes
<1>2. NoRestart
  BY DEF Init, NoRestart, Fresh
<1>3. StopsAreSet /\ WorkersRegistered /\ OneWorks
  BY DEF Init, StopsAreSet, WorkersRegistered, OneWorks
<1>4. QED
  BY <1>1, <1>2, <1>3 DEF IInv

\* ANNOUNCE and RECORD both add the pusher, but of the goroutines AddPusher starts at
\* most one belongs to a session that was not stopped (Server.AddPusher, Pusher.Start).
THEOREM OneWorker == Spec => []OneGoroutineWorks
<1> DEFINE Inv == restarts = 0 => IInv
<1>1. Init => Inv
  BY InitIInv
<1>2. TypeOK /\ TypeOK' /\ Inv /\ [Next]_vars => Inv'
  <2> SUFFICES ASSUME TypeOK, TypeOK', Inv, [Next]_vars, restarts' = 0
               PROVE  IInv'
    OBVIOUS
  <2>1. IInv
    BY RestartsGrow
  <2>2. QED
    BY <2>1, NoRestartStep, StopsAreSetStep, WorkersStep DEF IInv
<1>3. Inv => OneGoroutineWorks
  BY DEF IInv, OneWorks, OneGoroutineWorks
<1>4. QED
  BY <1>1, <1>2, <1>3, TypeCorrect, PTL DEF Spec

-----------------------------------------------------------------------------
(* The owner of a recording.                                               *)

RemovalSent(p, s) == stop[p][s] = "send"

\* The reader sends no pusher and stops no session at the same time.
ReaderStopsLast ==
    \A p \in Publisher : reader[p] # "ended" => stop[p]["reader"] = "idle"

\* A pusher on its way to the recorder is in the map, or its removal is on its way too.
AddsOwned ==
    \A p \in Publisher : SendingAdd(p) =>
        Registered(p) \/ (\E s \in Stopper : RemovalSent(p, s))

\* If the recorder still has an entry for a pusher that is added again, then the
\* removal of the first is still on its way, and the second has had none.
AddedAgain ==
    \A r \in Recorder : \A p \in cmds[r] :
        SendingAdd(p) => Registered(p) /\ RemovalSent(p, "api")

\* A recording has an owner.
Owned ==
    \A r \in Recorder : \A p \in cmds[r] :
        Registered(p) \/ \E s \in Stopper : RemovalSent(p, s)

RecordingInv ==
    /\ ReaderStopsLast
    /\ ~SaveStreamToLocal => \A r \in Recorder : cmds[r] = {}
    /\ SaveStreamToLocal /\ ~crashed => AddsOwned
    /\ AddedAgain
    /\ Owned

\* Only the first recorder receives.
LEMMA OnlyFirstReceives ==
    ASSUME NoRestart, NEW r \in Recorder, NEW p \in Publisher, NEW s \in Stopper,
           RecorderRemoves(r, p, s)
    PROVE  r = 0
  BY DEF NoRestart, RecorderRemoves, Looping

\* A removal that is sent stays sent until the recorder receives it.
LEMMA SentUntilReceived ==
    ASSUME TypeOK, NoRestart, ReaderStopsLast, [Next]_vars,
           NEW p \in Publisher, NEW s \in Stopper, RemovalSent(p, s)
    PROVE  \/ RemovalSent(p, s)'
           \/ \E r \in Recorder : RecorderRemoves(r, p, s)
<1> USE DEF TypeOK, SessionTypeOK, RemovalSent
<1>1. CASE stop' = stop
  BY <1>1
<1>2. ASSUME NEW q \in Publisher, ReaderEnds(q)
      PROVE  RemovalSent(p, s)'
  <2>1. stop[q]["reader"] = "idle"
    BY <1>2 DEF ReaderEnds, ReaderStopsLast
  <2>2. q # p \/ s # "reader"
    BY <2>1
  <2>3. \E pc \in StopPc : stop' = [stop EXCEPT ![q]["reader"] = pc]
    BY <1>2 DEF ReaderEnds, StopTest, StopPc
  <2>4. QED
    BY <2>2, <2>3
<1>3. ASSUME NEW q \in Publisher, StreamStop(q) \/ StreamStopCalls(q)
      PROVE  RemovalSent(p, s)'
  <2>1. stop[q]["api"] \in {"idle", "found"}
    BY <1>3 DEF StreamStop, StreamStopCalls
  <2>2. q # p \/ s # "api"
    BY <2>1
  <2>3. \E pc \in StopPc : stop' = [stop EXCEPT ![q]["api"] = pc]
    BY <1>3 DEF StreamStop, StreamStopCalls, StopTest, StopPc
  <2>4. QED
    BY <2>2, <2>3
<1>4. ASSUME NEW q \in Publisher, NEW t \in Stopper, StopSet(q, t) \/ RemovePusher(q, t)
      PROVE  RemovalSent(p, s)'
  <2>1. stop[q][t] \in {"set", "remove"}
    BY <1>4 DEF StopSet, RemovePusher
  <2>2. q # p \/ s # t
    BY <2>1
  <2>3. \E pc \in StopPc : stop' = [stop EXCEPT ![q][t] = pc]
    BY <1>4 DEF StopSet, RemovePusher, StopPc
  <2>4. QED
    BY <2>2, <2>3
<1>5. ASSUME NEW r \in Recorder, NEW q \in Publisher, NEW t \in Stopper, RecorderRemoves(r, q, t)
      PROVE  RemovalSent(p, s)' \/ RecorderRemoves(r, p, s)
  <2>1. CASE q = p /\ t = s
    BY <1>5, <2>1
  <2>2. CASE q # p \/ t # s
    BY <1>5, <2>2 DEF RecorderRemoves
  <2>3. QED
    BY <2>1, <2>2
<1>6. \A q \in Publisher, t \in Stopper : ~RemovePusherPanics(q, t)
  BY DEF RemovePusherPanics, NoRestart
<1>7. QED
  BY <1>1, <1>2, <1>3, <1>4, <1>5, <1>6
     DEF Next, vars, sessionVars, PublisherStep, Announce, ReaderLoops, Record, AddPusher,
         AddPusherPanics, SessionStop, RecorderStep, RecorderAdds, AddChnClosed, RemoveChnClosed,
         Restart, ServerStop, CloseAdd, CloseRemove, ServerStart

\* A pusher leaves the map by its own RemovePusher, which goes on to send the removal.
LEMMA LeavesBySending ==
    ASSUME TypeOK, NoRestart, restarts' = 0, [Next]_vars,
           NEW p \in Publisher, Registered(p), ~Registered(p)'
    PROVE  \E s \in Stopper : RemovePusher(p, s) /\ RemovalSent(p, s)'
<1> USE ServerAssumption DEF TypeOK, SessionTypeOK, ServerTypeOK, Registered
<1>1. pushers' # pushers
  OBVIOUS
<1>2. ~ServerStop
  BY DEF ServerStop, NoRestart
<1>3. \A q \in Publisher : ~AddPusher(q)
  BY DEF AddPusher
<1>4. ASSUME NEW q \in Publisher, NEW s \in Stopper, RemovePusher(q, s)
      PROVE  RemovePusher(p, s) /\ RemovalSent(p, s)'
  <2>1. Registered(q) /\ pushers' = [pushers EXCEPT ![PathOf[q]] = NoPusher]
    BY <1>1, <1>4 DEF RemovePusher
  <2>2. q = p
    BY <2>1
  <2>3. QED
    BY <1>4, <2>1, <2>2 DEF RemovePusher, RemovalSent
<1>5. QED
  BY <1>1, <1>2, <1>3, <1>4
     DEF Next, vars, PublisherStep, Announce, ReaderLoops, Record, AddPusherPanics, ReaderEnds,
         StreamStop, StreamStopCalls, SessionStop, StopSet, RemovePusherPanics, RecorderStep,
         RecorderAdds, RecorderRemoves, AddChnClosed, RemoveChnClosed, Restart, CloseAdd,
         CloseRemove, ServerStart

\* Who sends an added pusher has just entered it in the map, or was sending it before.
LEMMA SendsWhatItAdded ==
    ASSUME TypeOK, [Next]_vars, NEW p \in Publisher, SendingAdd(p)'
    PROVE  \/ SendingAdd(p)
           \/ (AddPusher(p) /\ ~Registered(p) /\ Registered(p)')
<1> USE ServerAssumption DEF TypeOK, SessionTypeOK, ServerTypeOK, SendingAdd
<1>1. CASE reader' = reader
  BY <1>1
<1>2. ASSUME NEW q \in Publisher, AddPusher(q)
      PROVE  SendingAdd(p) \/ (AddPusher(p) /\ ~Registered(p) /\ Registered(p)')
  <2>1. CASE q # p
    <3>1. PICK pc \in ReaderPc : reader' = [reader EXCEPT ![q] = pc]
      BY <1>2 DEF AddPusher, ReaderPc
    <3>2. reader'[p] = reader[p]
      BY <2>1, <3>1
    <3>3. QED
      BY <3>2
  <2>2. CASE q = p /\ pushers[PathOf[p]] = NoPusher
    BY <1>2, <2>2 DEF AddPusher, Registered
  <2>3. CASE q = p /\ pushers[PathOf[p]] # NoPusher
    BY <1>2, <2>3 DEF AddPusher
  <2>4. QED
    BY <2>1, <2>2, <2>3
<1>3. ASSUME NEW q \in Publisher,
             \/ Announce(q) \/ ReaderLoops(q) \/ Record(q) \/ AddPusherPanics(q) \/ ReaderEnds(q)
             \/ \E r \in Recorder : RecorderAdds(r, q)
      PROVE  SendingAdd(p)
  <2>1. \E pc \in ReaderPc \ {"sendAnnounced", "sendRecorded"} : reader' = [reader EXCEPT ![q] = pc]
    BY <1>3 DEF Announce, ReaderLoops, Record, AddPusherPanics, ReaderEnds, RecorderAdds, ReaderPc
  <2>2. QED
    BY <2>1
<1>4. QED
  BY <1>1, <1>2, <1>3
     DEF Next, vars, sessionVars, PublisherStep, StreamStop, StreamStopCalls, SessionStop, StopSet,
         RemovePusher, RemovePusherPanics, RecorderStep, RecorderRemoves, AddChnClosed,
         RemoveChnClosed, Restart, ServerStop, CloseAdd, CloseRemove, ServerStart

\* What the recorder has an entry for, it had one for or receives now; and the receipt
\* of a removal takes the entry.
LEMMA EntriesComeByReceipt ==
    ASSUME TypeOK, [Next]_vars,
           NEW r \in Recorder, NEW p \in Publisher, p \in cmds'[r]
    PROVE  /\ p \in cmds[r] \/ (RecorderAdds(r, p) /\ SaveStreamToLocal /\ ~crashed)
           /\ \A s \in Stopper : ~RecorderRemoves(r, p, s)
<1> USE DEF TypeOK, ServerTypeOK
<1>1. \A s \in Stopper : ~RecorderRemoves(r, p, s)
  BY DEF RecorderRemoves
<1>2. CASE cmds' = cmds
  BY <1>1, <1>2
<1>3. ASSUME Next, NEW t \in Recorder, NEW q \in Publisher, RecorderAdds(t, q)
      PROVE  p \in cmds[r] \/ (RecorderAdds(r, p) /\ SaveStreamToLocal /\ ~crashed)
  <2>1. cmds' = cmds \/ (SaveStreamToLocal /\ cmds' = [cmds EXCEPT ![t] = @ \cup {q}])
    BY <1>3 DEF RecorderAdds
  <2>2. ~crashed
    BY <1>3 DEF Next
  <2>3. CASE t = r /\ q = p
    BY <1>3, <2>1, <2>2, <2>3
  <2>4. CASE t # r \/ q # p
    BY <2>1, <2>4
  <2>5. QED
    BY <2>3, <2>4
<1>4. ASSUME NEW t \in Recorder,
             RemoveChnClosed(t) \/ \E q \in Publisher, s \in Stopper : RecorderRemoves(t, q, s)
      PROVE  p \in cmds[r]
  BY <1>4 DEF RemoveChnClosed, RecorderRemoves
<1>5. QED
  BY <1>1, <1>2, <1>3, <1>4
     DEF Next, vars, recorderVars, PublisherStep, Announce, ReaderLoops, Record, AddPusher,
         AddPusherPanics, ReaderEnds, StreamStop, StreamStopCalls, SessionStop, StopSet,
         RemovePusher, RemovePusherPanics, RecorderStep, AddChnClosed, Restart, ServerStop,
         CloseAdd, CloseRemove, ServerStart

LEMMA ReaderStopsLastStep ==
    ASSUME TypeOK, ReaderStopsLast, [Next]_vars
    PROVE  ReaderStopsLast'
<1> SUFFICES ASSUME NEW q \in Publisher, reader'[q] # "ended"
             PROVE  stop'[q]["reader"] = "idle"
  BY DEF ReaderStopsLast
<1> USE DEF TypeOK, SessionTypeOK, ReaderStopsLast, Stopper
<1>1. CASE stop' = stop /\ reader' = reader
  BY <1>1
<1>2. ASSUME NEW p \in Publisher,
             Announce(p) \/ ReaderLoops(p) \/ Record(p) \/ AddPusher(p) \/ AddPusherPanics(p)
      PROVE  stop'[q]["reader"] = "idle"
  <2>1. reader[p] # "ended" /\ stop' = stop
    BY <1>2 DEF Announce, ReaderLoops, Record, AddPusher, AddPusherPanics, SendingAdd
  <2>2. \E pc \in ReaderPc : reader' = [reader EXCEPT ![p] = pc]
    BY <1>2 DEF Announce, ReaderLoops, Record, AddPusher, AddPusherPanics, ReaderPc
  <2>3. QED
    BY <2>1, <2>2
<1>3. ASSUME NEW p \in Publisher, ReaderEnds(p)
      PROVE  stop'[q]["reader"] = "idle"
  BY <1>3 DEF ReaderEnds
<1>4. ASSUME NEW p \in Publisher, StreamStop(p) \/ StreamStopCalls(p)
      PROVE  stop'[q]["reader"] = "idle"
  <2>1. reader' = reader /\ \E pc \in StopPc : stop' = [stop EXCEPT ![p]["api"] = pc]
    BY <1>4 DEF StreamStop, StreamStopCalls, StopTest, StopPc
  <2>2. QED
    BY <2>1
<1>5. ASSUME NEW p \in Publisher, NEW s \in Stopper,
             SessionStop(p, s) \/ \E r \in Recorder : RecorderRemoves(r, p, s)
      PROVE  stop'[q]["reader"] = "idle"
  <2>1. reader' = reader /\ stop[p][s] # "idle"
    BY <1>5 DEF SessionStop, StopSet, RemovePusher, RemovePusherPanics, RecorderRemoves
  <2>2. \E pc \in StopPc : stop' = [stop EXCEPT ![p][s] = pc]
    BY <1>5 DEF SessionStop, StopSet, RemovePusher, RemovePusherPanics, RecorderRemoves, StopPc
  <2>3. QED
    BY <2>1, <2>2
<1>6. ASSUME NEW r \in Recorder, NEW p \in Publisher, RecorderAdds(r, p)
      PROVE  stop'[q]["reader"] = "idle"
  BY <1>6 DEF RecorderAdds, SendingAdd
<1>7. QED
  BY <1>1, <1>2, <1>3, <1>4, <1>5, <1>6
     DEF Next, vars, sessionVars, PublisherStep, RecorderStep, AddChnClosed, RemoveChnClosed,
         Restart, ServerStop, CloseAdd, CloseRemove, ServerStart

LEMMA AddsOwnedStep ==
    ASSUME TypeOK, NoRestart, restarts' = 0, RecordingInv, [Next]_vars,
           SaveStreamToLocal, ~crashed'
    PROVE  AddsOwned'
<1> SUFFICES ASSUME NEW p \in Publisher, SendingAdd(p)', ~Registered(p)'
             PROVE  \E s \in Stopper : RemovalSent(p, s)'
  BY DEF AddsOwned
<1> USE DEF RecordingInv
<1>1. SendingAdd(p)
  BY SendsWhatItAdded
<1>2. CASE Registered(p)
  BY <1>2, LeavesBySending
<1>3. CASE ~Registered(p)
  <2>1. ~crashed
    BY DEF Next, vars
  <2>2. PICK s \in Stopper : RemovalSent(p, s)
    BY <1>1, <1>3, <2>1 DEF AddsOwned
  <2>3. ASSUME NEW r \in Recorder, RecorderRemoves(r, p, s)
        PROVE  FALSE
    BY <1>1, <1>3, <2>3 DEF RecorderRemoves, AddedAgain
  <2>4. QED
    BY <2>2, <2>3, SentUntilReceived
<1>4. QED
  BY <1>2, <1>3

LEMMA AddedAgainStep ==
    ASSUME TypeOK, NoRestart, restarts' = 0, RecordingInv, [Next]_vars
    PROVE  AddedAgain'
<1> SUFFICES ASSUME NEW r \in Recorder, NEW p \in cmds'[r], SendingAdd(p)'
             PROVE  Registered(p)' /\ RemovalSent(p, "api")'
  BY DEF AddedAgain
<1> USE DEF RecordingInv
<1>0. p \in Publisher /\ r = 0 /\ "api" \in Stopper
  <2>1. TypeOK' /\ NoRestart'
    BY TypesStep, NoRestartStep
  <2>2. QED
    BY <2>1 DEF TypeOK, ServerTypeOK, NoRestart, Stopper
<1>1. p \in cmds[r]
  <2>1. ~RecorderAdds(r, p)
    BY <1>0 DEF RecorderAdds, SendingAdd, TypeOK, SessionTypeOK
  <2>2. QED
    BY <1>0, <2>1, EntriesComeByReceipt
<1>2. ASSUME RemovalSent(p, "api")
      PROVE  RemovalSent(p, "api")'
  BY <1>0, <1>2, EntriesComeByReceipt, SentUntilReceived, OnlyFirstReceives
<1>3. CASE SendingAdd(p)
  <2>1. Registered(p) /\ RemovalSent(p, "api")
    BY <1>1, <1>3 DEF AddedAgain
  <2>2. \A s \in Stopper : ~RemovePusher(p, s)
    BY <1>0, <1>3, <2>1 DEF RemovePusher, RemovalSent, ReaderStopsLast, SendingAdd, Stopper
  <2>3. QED
    BY <1>0, <1>2, <2>1, <2>2, LeavesBySending
<1>4. CASE AddPusher(p) /\ ~Registered(p) /\ Registered(p)'
  <2>1. \E s \in Stopper : RemovalSent(p, s)
    BY <1>1, <1>4 DEF Owned
  <2>2. ~RemovalSent(p, "reader")
    BY <1>0, <1>4 DEF AddPusher, RemovalSent, ReaderStopsLast
  <2>3. QED
    BY <1>2, <1>4, <2>1, <2>2 DEF Stopper
<1>5. QED
  BY <1>0, <1>3, <1>4, SendsWhatItAdded

LEMMA OwnedStep ==
    ASSUME TypeOK, NoRestart, restarts' = 0, RecordingInv, [Next]_vars
    PROVE  Owned'
<1> SUFFICES ASSUME NEW r \in Recorder, NEW p \in cmds'[r], ~Registered(p)'
             PROVE  \E s \in Stopper : RemovalSent(p, s)'
  BY DEF Owned
<1> USE DEF RecordingInv
<1>0. p \in Publisher /\ r = 0
  <2>1. TypeOK' /\ NoRestart'
    BY TypesStep, NoRestartStep
  <2>2. QED
    BY <2>1 DEF TypeOK, ServerTypeOK, NoRestart
<1>1. Registered(p) \/ \E s \in Stopper : RemovalSent(p, s)
  <2>1. CASE p \in cmds[r]
    BY <2>1 DEF Owned
  <2>2. CASE RecorderAdds(r, p) /\ SaveStreamToLocal /\ ~crashed
    BY <1>0, <2>2 DEF RecorderAdds, AddsOwned
  <2>3. QED
    BY <1>0, <2>1, <2>2, EntriesComeByReceipt
<1>2. CASE Registered(p)
  BY <1>0, <1>2, LeavesBySending
<1>3. ASSUME NEW s \in Stopper, RemovalSent(p, s)
      PROVE  RemovalSent(p, s)'
  BY <1>0, <1>3, EntriesComeByReceipt, SentUntilReceived, OnlyFirstReceives
<1>4. QED
  BY <1>1, <1>2, <1>3

LEMMA NothingRecordedStep ==
    ASSUME TypeOK, [Next]_vars, ~SaveStreamToLocal, \A r \in Recorder : cmds[r] = {}
    PROVE  \A r \in Recorder : cmds'[r] = {}
<1>1. ASSUME NEW r \in Recorder, NEW p \in Publisher, p \in cmds'[r]
      PROVE  FALSE
  BY <1>1, EntriesComeByReceipt
<1>2. TypeOK'
  BY TypesStep
<1>3. QED
  BY <1>1, <1>2 DEF TypeOK, ServerTypeOK

\* No recording is orphaned: whatever the recorder has an ffmpeg for is in the map or its
\* removal is on its way (Server.Record, AddPusher, RemovePusher, Session.Stop).
THEOREM RecordingsOwned == Spec => []RecordingOwned
<1> DEFINE Inv == restarts = 0 => IInv /\ RecordingInv
<1>1. Init => Inv
  <2>1. Init => RecordingInv
    BY DEF Init, RecordingInv, ReaderStopsLast, AddsOwned, AddedAgain, Owned, SendingAdd, Stopper
  <2>2. QED
    BY <2>1, InitIInv
<1>2. TypeOK /\ TypeOK' /\ Inv /\ [Next]_vars => Inv'
  <2> SUFFICES ASSUME TypeOK, TypeOK', Inv, [Next]_vars, restarts' = 0
               PROVE  IInv' /\ RecordingInv'
    OBVIOUS
  <2>1. IInv /\ RecordingInv
    BY RestartsGrow
  <2>2. IInv'
    BY <2>1, NoRestartStep, StopsAreSetStep, WorkersStep DEF IInv
  <2>3. RecordingInv'
    BY <2>1, ReaderStopsLastStep, NothingRecordedStep, AddsOwnedStep, AddedAgainStep, OwnedStep
       DEF IInv, RecordingInv
  <2>4. QED
    BY <2>2, <2>3
<1>3. Inv => RecordingOwned
  BY DEF RecordingInv, Owned, RemovalSent, RecordingOwned
<1>4. QED
  BY <1>1, <1>2, <1>3, TypeCorrect, PTL DEF Spec

-----------------------------------------------------------------------------
(* The end of the recordings.                                              *)

\* Stop closes addPusherCh first and nothing opens a channel again, so a recorder
\* that has seen removePusherCh closed receives no pusher any more.
EndInv ==
    /\ ~removeOpen \/ phase = "closeRemove" => ~addOpen
    /\ \A r \in Recorder :
        recorder[r].live /\ ~recorder[r].removeChnOk => ~removeOpen /\ cmds[r] = {}

LEMMA EndInvStep ==
    ASSUME TypeOK, EndInv, [Next]_vars
    PROVE  EndInv'
<1> USE DEF EndInv, TypeOK, ServerTypeOK
<1>1. CASE UNCHANGED <<phase, channelVars, recorderVars>>
  BY <1>1 DEF channelVars, recorderVars
<1>2. ASSUME NEW p \in Publisher, PublisherStep(p)
      PROVE  UNCHANGED <<phase, channelVars, recorderVars>>
  BY <1>2
     DEF PublisherStep, Announce, ReaderLoops, Record, AddPusher, AddPusherPanics, ReaderEnds,
         StreamStop, StreamStopCalls, SessionStop, StopSet, RemovePusher, RemovePusherPanics,
         restartVars
<1>3. ASSUME NEW r \in Recorder, NEW p \in Publisher, RecorderAdds(r, p)
      PROVE  EndInv'
  <2>1. /\ Looping(r) /\ addOpen /\ UNCHANGED <<phase, addOpen, removeOpen>>
        /\ recorder' = [recorder EXCEPT ![r].addChnOk = TRUE]
        /\ \A t \in Recorder : t # r => cmds'[t] = cmds[t]
    BY <1>3 DEF RecorderAdds, DirFailed, channelVars, restartVars
  <2>2. removeOpen /\ recorder[r].removeChnOk
    BY <2>1 DEF Looping
  <2>3. QED
    BY <2>1, <2>2
<1>4. ASSUME NEW r \in Recorder, NEW p \in Publisher, NEW s \in Stopper, RecorderRemoves(r, p, s)
      PROVE  EndInv'
  BY <1>4 DEF RecorderRemoves, channelVars, restartVars
<1>5. ASSUME NEW r \in Recorder, AddChnClosed(r)
      PROVE  EndInv'
  BY <1>5 DEF AddChnClosed, channelVars, restartVars
<1>6. ASSUME NEW r \in Recorder, RemoveChnClosed(r)
      PROVE  EndInv'
  BY <1>6 DEF RemoveChnClosed, channelVars, restartVars
<1>7. CASE ServerStop \/ CloseAdd \/ CloseRemove
  BY <1>7 DEF ServerStop, CloseAdd, CloseRemove, channelVars, recorderVars
<1>8. ASSUME NEW r \in Recorder, ServerStart(r)
      PROVE  EndInv'
  BY <1>8 DEF ServerStart, Fresh, channelVars, restartVars
<1>9. QED
  BY <1>1, <1>2, <1>3, <1>4, <1>5, <1>6, <1>7, <1>8
     DEF Next, vars, restartVars, RecorderStep, Restart

\* For any publishers, restarts and interleaving: a recorder that ends because the
\* server was stopped leaves no ffmpeg behind (Server.Stop, Server.Record).
THEOREM RecordingsEnd == Spec => []RecordingsEndOnStop
<1>1. Init => EndInv
  BY DEF Init, EndInv, Fresh
<1>2. TypeOK /\ EndInv /\ [Next]_vars => EndInv'
  BY EndInvStep
<1>3. EndInv => RecordingsEndOnStop
  BY DEF EndInv, RecordingsEndOnStop, Looping
<1>4. QED
  BY <1>1, <1>2, <1>3, TypeCorrect, PTL DEF Spec

-----------------------------------------------------------------------------
(* The recorder has an entry for every removal it receives.                *)

\* The sender of a removal has left the map and has its entry, ...
RemovedIsKnown ==
    \A p \in Publisher : RemovalSent(p, "reader") => ~Registered(p) /\ p \in cmds[0]

\* ... because the recorder received it before its reader went on.
HolderIsKnown ==
    \A p \in Publisher : Registered(p) /\ ~SendingAdd(p) => p \in cmds[0]

NoApiStop == \A p \in Publisher : stop[p]["api"] = "idle"

KnownInv ==
    /\ NoRestart
    /\ ReaderStopsLast
    /\ SaveStreamToLocal => RemovedIsKnown /\ HolderIsKnown
    /\ ~crashed

\* What StreamStop has begun is never forgotten.
LEMMA ApiStopStays ==
    ASSUME TypeOK, [Next]_vars, NoApiStop'
    PROVE  NoApiStop
<1> SUFFICES ASSUME NEW q \in Publisher, stop[q]["api"] # "idle"
             PROVE  stop'[q]["api"] # "idle"
  BY DEF NoApiStop
<1> USE DEF TypeOK, SessionTypeOK, Stopper
<1>1. CASE stop' = stop
  BY <1>1
<1>2. ASSUME NEW p \in Publisher,
             \/ ReaderEnds(p) \/ StreamStop(p) \/ StreamStopCalls(p)
             \/ \E s \in Stopper : SessionStop(p, s) \/ \E r \in Recorder : RecorderRemoves(r, p, s)
      PROVE  stop'[q]["api"] # "idle"
  <2>1. \E s \in Stopper, pc \in StopPc \ {"idle"} : stop' = [stop EXCEPT ![p][s] = pc]
    BY <1>2 DEF ReaderEnds, StreamStop, StreamStopCalls, StopTest, SessionStop, StopSet,
                RemovePusher, RemovePusherPanics, RecorderRemoves, StopPc
  <2>2. QED
    BY <2>1
<1>3. QED
  BY <1>1, <1>2
     DEF Next, vars, sessionVars, PublisherStep, Announce, ReaderLoops, Record, AddPusher,
         AddPusherPanics, RecorderStep, RecorderAdds, AddChnClosed, RemoveChnClosed,
         Restart, ServerStop, CloseAdd, CloseRemove, ServerStart

\* A removal is sent by a RemovePusher that found its session in the map.
LEMMA SentByHolder ==
    ASSUME TypeOK, [Next]_vars, NEW p \in Publisher, RemovalSent(p, "reader")'
    PROVE  RemovalSent(p, "reader") \/ (RemovePusher(p, "reader") /\ Registered(p))
<1> USE DEF TypeOK, SessionTypeOK, RemovalSent, Stopper
<1>1. CASE stop' = stop
  BY <1>1
<1>2. ASSUME NEW q \in Publisher, NEW s \in Stopper, RemovePusher(q, s)
      PROVE  RemovalSent(p, "reader") \/ (RemovePusher(p, "reader") /\ Registered(p))
  <2>1. CASE q = p /\ s = "reader"
    BY <1>2, <2>1 DEF RemovePusher
  <2>2. CASE q # p \/ s # "reader"
    <3>1. \E pc \in StopPc : stop' = [stop EXCEPT ![q][s] = pc]
      BY <1>2 DEF RemovePusher, StopPc
    <3>2. QED
      BY <2>2, <3>1
  <2>3. QED
    BY <2>1, <2>2
<1>3. ASSUME NEW q \in Publisher,
             \/ ReaderEnds(q) \/ StreamStop(q) \/ StreamStopCalls(q)
             \/ \E s \in Stopper :
                    \/ StopSet(q, s) \/ RemovePusherPanics(q, s)
                    \/ \E r \in Recorder : RecorderRemoves(r, q, s)
      PROVE  RemovalSent(p, "reader")
  <2>1. \E s \in Stopper, pc \in StopPc \ {"send"} : stop' = [stop EXCEPT ![q][s] = pc]
    BY <1>3 DEF ReaderEnds, StreamStop, StreamStopCalls, StopTest, StopSet, RemovePusherPanics,
                RecorderRemoves, StopPc
  <2>2. QED
    BY <2>1
<1>4. QED
  BY <1>1, <1>2, <1>3
     DEF Next, vars, sessionVars, PublisherStep, Announce, ReaderLoops, Record, AddPusher,
         AddPusherPanics, SessionStop, RecorderStep, RecorderAdds, AddChnClosed, RemoveChnClosed,
         Restart, ServerStop, CloseAdd, CloseRemove, ServerStart

\* A session enters the map by its own AddPusher, which goes on to send it.
LEMMA EntersBySending ==
    ASSUME TypeOK, [Next]_vars, NEW p \in Publisher, ~Registered(p), Registered(p)'
    PROVE  AddPusher(p) /\ SendingAdd(p)'
<1> USE ServerAssumption DEF TypeOK, SessionTypeOK, ServerTypeOK, Registered
<1>1. pushers' # pushers
  OBVIOUS
<1>2. ASSUME NEW q \in Publisher, AddPusher(q)
      PROVE  AddPusher(p) /\ SendingAdd(p)'
  <2>1. pushers' = [pushers EXCEPT ![PathOf[q]] = q] /\ q = p
    BY <1>1, <1>2 DEF AddPusher
  <2>2. reader'[p] \in {"sendAnnounced", "sendRecorded"}
    BY <1>1, <1>2, <2>1 DEF AddPusher
  <2>3. QED
    BY <1>2, <2>1, <2>2 DEF SendingAdd
<1>3. ASSUME NEW q \in Publisher, NEW s \in Stopper, RemovePusher(q, s)
      PROVE  FALSE
  BY <1>1, <1>3 DEF RemovePusher
<1>4. ~ServerStop
  BY DEF ServerStop
<1>5. QED
  BY <1>1, <1>2, <1>3, <1>4
     DEF Next, vars, PublisherStep, Announce, ReaderLoops, Record, AddPusherPanics, ReaderEnds,
         StreamStop, StreamStopCalls, SessionStop, StopSet, RemovePusherPanics, RecorderStep,
         RecorderAdds, RecorderRemoves, AddChnClosed, RemoveChnClosed, Restart, CloseAdd,
         CloseRemove, ServerStart

\* The send of AddPusher ends when the recorder has received.
LEMMA SentWhenReceived ==
    ASSUME TypeOK, NoRestart, [Next]_vars, NEW p \in Publisher, SendingAdd(p), ~SendingAdd(p)'
    PROVE  \E r \in Recorder : RecorderAdds(r, p)
<1> USE DEF TypeOK, SessionTypeOK, SendingAdd
<1>1. reader'[p] # reader[p]
  OBVIOUS
<1>2. ASSUME NEW q \in Publisher,
             Announce(q) \/ ReaderLoops(q) \/ Record(q) \/ AddPusher(q) \/ ReaderEnds(q)
      PROVE  FALSE
  <2>1. reader[q] \notin {"sendAnnounced", "sendRecorded"}
    BY <1>2 DEF Announce, ReaderLoops, Record, AddPusher, ReaderEnds
  <2>2. \E pc \in ReaderPc : reader' = [reader EXCEPT ![q] = pc]
    BY <1>2 DEF Announce, ReaderLoops, Record, AddPusher, ReaderEnds, ReaderPc
  <2>3. QED
    BY <1>1, <2>1, <2>2
<1>3. ASSUME NEW q \in Publisher, AddPusherPanics(q)
      PROVE  FALSE
  BY <1>3 DEF AddPusherPanics, NoRestart
<1>4. ASSUME NEW r \in Recorder, NEW q \in Publisher, RecorderAdds(r, q)
      PROVE  RecorderAdds(r, p)
  BY <1>1, <1>4 DEF RecorderAdds
<1>5. QED
  BY <1>1, <1>2, <1>3, <1>4
     DEF Next, vars, sessionVars, PublisherStep, StreamStop, StreamStopCalls, SessionStop, StopSet,
         RemovePusher, RemovePusherPanics, RecorderStep, RecorderRemoves, AddChnClosed,
         RemoveChnClosed, Restart, ServerStop, CloseAdd, CloseRemove, ServerStart

\* An entry leaves the recorder's map when its removal is received.
LEMMA EntryUntilRemoval ==
    ASSUME TypeOK, NoRestart, [Next]_vars, NEW p \in Publisher, p \in cmds[0], p \notin cmds'[0]
    PROVE  \E s \in Stopper : RemovalSent(p, s) /\ ~RemovalSent(p, s)'
<1> USE ServerAssumption DEF TypeOK, ServerTypeOK, SessionTypeOK, Recorder
<1>1. cmds' # cmds
  OBVIOUS
<1>2. ASSUME NEW r \in Recorder, NEW q \in Publisher, RecorderAdds(r, q)
      PROVE  FALSE
  <2>1. cmds' = [cmds EXCEPT ![r] = @ \cup {q}]
    BY <1>1, <1>2 DEF RecorderAdds
  <2>2. QED
    BY <2>1
<1>3. ASSUME NEW r \in Recorder, NEW q \in Publisher, NEW s \in Stopper, RecorderRemoves(r, q, s)
      PROVE  RemovalSent(p, s) /\ ~RemovalSent(p, s)'
  <2>1. q = p /\ stop[q][s] = "send" /\ stop' = [stop EXCEPT ![q][s] = "done"]
    BY <1>3 DEF RecorderRemoves
  <2>2. QED
    BY <2>1 DEF RemovalSent
<1>4. \A r \in Recorder : ~RemoveChnClosed(r)
  BY DEF RemoveChnClosed, NoRestart
<1>5. QED
  BY <1>1, <1>2, <1>3, <1>4
     DEF Next, vars, recorderVars, PublisherStep, Announce, ReaderLoops, Record, AddPusher,
         AddPusherPanics, ReaderEnds, StreamStop, StreamStopCalls, SessionStop, StopSet,
         RemovePusher, RemovePusherPanics, RecorderStep, AddChnClosed, Restart, ServerStop,
         CloseAdd, CloseRemove, ServerStart

LEMMA KnownStep ==
    ASSUME TypeOK, KnownInv, NoApiStop, ~EnsureDirFails, SaveStreamToLocal,
           restarts' = 0, [Next]_vars
    PROVE  RemovedIsKnown' /\ HolderIsKnown'
<1> USE DEF KnownInv
<1>1. \A p \in Publisher : ~RemovalSent(p, "api")
  BY DEF NoApiStop, RemovalSent
<1>2. ASSUME NEW p \in Publisher, RemovalSent(p, "reader")'
      PROVE  ~Registered(p)' /\ p \in cmds'[0]
  <2>1. CASE RemovalSent(p, "reader")
    <3>1. ~Registered(p) /\ p \in cmds[0] /\ reader[p] = "ended"
      BY <2>1 DEF RemovedIsKnown, ReaderStopsLast, RemovalSent
    <3>2. ~Registered(p)'
      BY <3>1, EntersBySending DEF AddPusher
    <3>3. p \in cmds'[0]
      BY <1>1, <1>2, <3>1, EntryUntilRemoval DEF Stopper
    <3>4. QED
      BY <3>2, <3>3
  <2>2. CASE RemovePusher(p, "reader") /\ Registered(p)
    <3>1. reader[p] = "ended" /\ cmds' = cmds
      BY <2>2 DEF RemovePusher, ReaderStopsLast, recorderVars
    <3>2. p \in cmds[0]
      BY <2>2, <3>1 DEF HolderIsKnown, SendingAdd
    <3>3. pushers'[PathOf[p]] = NoPusher /\ NoPusher # p
      BY <2>2, ServerAssumption DEF RemovePusher, TypeOK, ServerTypeOK
    <3>4. QED
      BY <3>1, <3>2, <3>3 DEF Registered
  <2>3. QED
    BY <1>2, <2>1, <2>2, SentByHolder
<1>3. ASSUME NEW p \in Publisher, Registered(p)', ~SendingAdd(p)'
      PROVE  p \in cmds'[0]
  <2>1. Registered(p)
    BY <1>3, EntersBySending
  <2>2. CASE SendingAdd(p)
    <3>1. PICK r \in Recorder : RecorderAdds(r, p)
      BY <1>3, <2>2, SentWhenReceived
    <3>2. r = 0 /\ cmds' = [cmds EXCEPT ![r] = @ \cup {p}]
      BY <3>1 DEF RecorderAdds, NoRestart, Looping
    <3>3. QED
      BY <3>2 DEF TypeOK, ServerTypeOK
  <2>3. CASE ~SendingAdd(p)
    <3>1. p \in cmds[0] /\ ~RemovalSent(p, "reader")
      BY <2>1, <2>3 DEF HolderIsKnown, RemovedIsKnown
    <3>2. QED
      BY <1>1, <3>1, EntryUntilRemoval DEF Stopper
  <2>4. QED
    BY <2>2, <2>3
<1>4. QED
  BY <1>2, <1>3 DEF RemovedIsKnown, HolderIsKnown

\* Without restarts and StreamStop nothing panics.
LEMMA NoPanicStep ==
    ASSUME TypeOK, KnownInv, NoApiStop, [Next]_vars
    PROVE  ~crashed'
<1> USE DEF KnownInv
<1>1. CASE crashed' = crashed
  BY <1>1
<1>2. ASSUME NEW p \in Publisher, AddPusherPanics(p) \/ \E s \in Stopper : RemovePusherPanics(p, s)
      PROVE  FALSE
  BY <1>2 DEF AddPusherPanics, RemovePusherPanics, NoRestart
<1>3. ASSUME NEW r \in Recorder, NEW p \in Publisher, NEW s \in Stopper, RecorderRemoves(r, p, s)
      PROVE  ~crashed'
  <2>1. r = 0 /\ RemovalSent(p, s) /\ s = "reader"
    BY <1>3 DEF RecorderRemoves, NoRestart, Looping, RemovalSent, NoApiStop, Stopper
  <2>2. QED
    BY <1>3, <2>1 DEF RecorderRemoves, RemovedIsKnown
<1>4. ~CloseAdd
  BY DEF CloseAdd, NoRestart
<1>5. QED
  BY <1>1, <1>2, <1>3, <1>4
     DEF Next, vars, PublisherStep, Announce, ReaderLoops, Record, AddPusher, ReaderEnds,
         StreamStop, StreamStopCalls, SessionStop, StopSet, RemovePusher, RecorderStep,
         RecorderAdds, AddChnClosed, RemoveChnClosed, Restart, ServerStop, CloseRemove, ServerStart

\* For any publishers, paths and RECORDs, if directories can be made: until a restart or
\* a StreamStop the recorder has an entry for every removal it receives, so that the nil
\* entry of Server.Record never ends the process.
THEOREM RecorderKnows ==
    ASSUME ~EnsureDirFails
    PROVE  Spec => []RecorderKnowsPushers
<1> DEFINE Inv == restarts = 0 /\ NoApiStop => KnownInv
<1>1. Init => Inv
  <2> SUFFICES ASSUME Init
               PROVE  KnownInv
    OBVIOUS
  <2>1. NoRestart /\ ReaderStopsLast
    BY InitIInv DEF IInv, Init, ReaderStopsLast, Stopper
  <2>2. RemovedIsKnown /\ HolderIsKnown
    BY ServerAssumption
       DEF Init, RemovedIsKnown, HolderIsKnown, RemovalSent, Registered, Stopper
  <2>3. QED
    BY <2>1, <2>2 DEF Init, KnownInv
<1>2. TypeOK /\ Inv /\ [Next]_vars => Inv'
  <2> SUFFICES ASSUME TypeOK, Inv, [Next]_vars, restarts' = 0, NoApiStop'
               PROVE  KnownInv'
    BY DEF NoApiStop
  <2>1. KnownInv /\ NoApiStop
    BY RestartsGrow, ApiStopStays
  <2>2. NoRestart' /\ ReaderStopsLast'
    BY <2>1, NoRestartStep, ReaderStopsLastStep DEF KnownInv
  <2>3. QED
    BY <2>1, <2>2, KnownStep, NoPanicStep DEF KnownInv
<1>3. TypeOK /\ Inv => RecorderKnowsPushers
  BY ServerAssumption DEF KnownInv, NoApiStop, RecorderKnowsPushers, TypeOK, ServerTypeOK
<1>4. QED
  BY <1>1, <1>2, <1>3, TypeCorrect, PTL DEF Spec

===============================================================================
