# OneDSS in TLA+

This directory holds TLA+ specifications of the parts of OneDSS in which goroutines, connections
and locks interact, the TLC configurations that model-check them on small instances, and proofs of
their main properties that TLAPS checks for every value of the constants.  Everything is translated
from the Go code; references such as `rtsp/pusher.go:129` are to files of the repository.

Contents: [the system](#the-system), [the modules](#the-modules), [the runs](#the-runs),
[fairness](#fairness), [the proofs](#the-proofs), [what the code does otherwise than it
says](#findings), [what is not modelled](#what-is-not-modelled), [plan](#plan).

## The system

OneDSS is a media server in one Go process.  Sources publish streams over RTSP (ANNOUNCE / RECORD),
or the server is told through its HTTP API to pull a stream from an RTSP or RTMP source; viewers
play the streams over RTSP (DESCRIBE / PLAY).  Beside that runs a signaling server for WebRTC rooms, with the
web page of a conference that uses it.

| component | code | state | operations |
|---|---|---|---|
| relay of one stream | `rtsp/pusher.go`, `rtsp/player.go` | the pusher's queue, its GOP cache, the map of its players; each player's queue; the Stoped flags | QueueRTP, the goroutines of Pusher.Start and Player.Start, AddPlayer, RemovePlayer, ClearPlayer, the stop handles |
| registry | `rtsp/rtsp-server.go` | the map of pushers by path, two channels to the recorder, the recorder's processes | AddPusher, RemovePusher, GetPusher, the goroutine of Record, Stop, Start |
| RTSP session | `rtsp/rtsp-session.go` | type, path, pusher or player, the conn, Stoped | the reader, handleRequest, Stop |
| pull to push | `routers/streams.go`, `rtsp/rtsp-session-puller.go`, `rtsp/rtsp-client.go` | the client's conn and flag, the puller's client and session | StreamStart, StreamStop, Init / Start / Stop of the client, Start / Stop of the puller |
| signaling | `signaling/sig-room.go`, `app/sig-app-server.go` | rooms and their participants, one context and four goroutines per websocket | Add, Get, Remove, Notify; join, publish, control; the cleanup |
| pull of RTMP | `rtmp/rtmp-client.go`, `rtmp/client_session.go` | the session's conn, its two result channels, the analysis with its cache, the handles, the Once of dispose | Init / Stop, the reader, dispose |
| RTMP | `rtmp/chunk_*.go`, `lal/connection/connection.go` | chunk streams; the connection's channels, buffer and flags | chunk division and composition; Write, Flush, Close and the write loop |
| conference page | `www-sig/demos/room.html`, `js/srs.sig.js`, `js/srs.sdk.js` | the globals sig, publisher and players; promises that wait for answers | startDemo, onmessage, connect / send / close, publish / play |
| RTP, SDP, codecs | `rtprtcp/`, `sdp/`, `lal/avc`, `lal/hevc` | the list of packets to unpack, counters of the receiver report | packing and unpacking, receiver reports |
| application | `main.go`, `app/`, `core/` | the servers, the restart loop | start, stop, restart |
| HTTP API, database, sessions | `routers/`, `db/`, `models/`, `sessions/` | tables | requests |

How they interact: a publishing session makes a Pusher and enters it in the registry, which starts
its goroutine and tells the recorder over an unbuffered channel.  The session's reader calls
QueueRTP of its pusher for every packet (a callback in `RTPHandles`); the pusher's goroutine calls
QueueRTP of each player; the player's goroutine writes to the viewer's conn.  A viewer's session
finds the pusher in the registry at DESCRIBE and keeps the pointer until PLAY.  A stop runs the
handles that the others left in `StopHandles`, in the goroutine of whoever stops.  The HTTP API
calls the same Stop functions from its own goroutines, and `/restart` stops and starts the server
while all of them go on.

What makes each of them hard, and what makes it correct:

- *Relay.*  Two locks in AddPlayer, a condition variable that is signalled without its lock, a
  broadcast to a copy of the map.  Correct: a viewer gets the current group of pictures and then the
  stream, in order, without holes, and once; nobody who plays is forgotten; goroutines end.
- *Registry and sessions.*  Check-then-act in ANNOUNCE, a second AddPusher in RECORD, an
  unsynchronised test-and-set in Stop, a message after the critical section it is about, channels that
  are closed and not made again.  Correct: one pusher per path with one goroutine, removed by its
  owner alone; recordings belong to pushers; nobody waits for ever; a path is freed.
- *Pull to push.*  Three Stop functions that call one another and are entered from several
  goroutines.  Correct: whoever stops first, the source ends up disconnected, the flags set and the
  path free, and a running pull can be stopped.
- *Signaling.*  Unbuffered channels between goroutines that end in any order, a message buffer that
  is shared, a cleanup racing a join.  Correct: a display is unique in a room, a participant stays until
  its cleanup and leaves after it, answers come, a leave is told.
- *Pull of RTMP.*  The handler waits for what the reader tells it; two pullers of one source append
  to lists without a lock; dispose is entered from everywhere under one Once.  Correct: a source that fails is
  answered with an error, a relayed pull can be stopped, whoever stops it disconnects it.
- *Conference page.*  An asynchronous function over globals that is run once more by each click, and
  events that overtake one another.  Correct: one publisher, nobody waits on a socket the page closed, no
  publisher is missed.
- *Connection.*  Several writers, a write loop and a close that may come from each of them.
  Correct: what is sent is what was written in order, a flush means sent, nothing follows Done, the
  loop ends.
- *Chunks and packets.*  Numbers at their boundaries, state of a chunk stream that outlives its message,
  packets lost, late and doubled.  Correct: a message is read as it was written; a frame whose packets all
  arrived comes out whole, once and in order, and one that lost a packet does not.

The list of hazards, each at its line and with the properties that speak of it, is in
`PROJECT.json` ("hazards"); properties were written for that list.

## The modules

| module | what it is |
|---|---|
| `RtspRelay` | the relay of one stream |
| `LiveFeed` | what the relay promises a viewer: the abstract specification that `RtspRelay` implements |
| `RtspServer` | the registry, its recorder, its restart, and the sessions that publish |
| `PullToPush` | pulls over RTSP: the API's handlers, the puller, the client |
| `RtmpPull` | one pull over RTMP: the handler, the session with its reader, its two pullers, its dispose |
| `Signaling` | one room and the handlers of its clients |
| `WebRoom` | the conference page of one user, the server's room and the other peers |
| `Connection` | the asynchronous connection of the RTMP sessions |
| `RtmpChunks` | division of messages into chunks and their composition |
| `RtpReceive` | frames over RTP: packing, a bad network, the container that joins them, the report |
| `MediaIo` | the composition of the last three, one layer at a time |
| `RtspRelayProofs`, `RtspServerProofs`, `PullToPushProofs`, `RtmpPullProofs`, `SignalingProofs`, `WebRoomProofs`, `RtpReceiveProofs`, `MediaIoProofs` | theorems, with the lemmas they rest on |
| `MC...` | constants for TLC: paths, displays, bounds on messages, symmetry |

Conventions.  An action is a stretch of code that the others cannot see inside: a critical section, a
channel operation, or the statements between two accesses to shared state; it is named for its
function, and its `map` entry in `PROJECT.json` gives the lines.  A "pc" variable says where a
goroutine is.  A queue that only its goroutine shortens is kept whole with the number of elements
taken, so that a property can speak of the past.  A panic that nothing recovers ends the process:
`crashed`, after which nothing happens.  Where a definition has a twin above it whose comment begins
with "mutant of", the twin is the same code with a plausible bug; the runs must find it.

### RtspRelay

`arrived` is the pusher's queue with `head` for what was taken; `gopCache`, `players` and `todo` (the
copy of the map in the running BroadcastRTP) are the pusher's; `feed[p]` and `taken[p]` the queue of a
player; `handler[p]` is the viewer's request handler, `playerStop[p]` the two callers of its
Session.Stop, the reader and the goroutine of ClearPlayer; `stopPc` the stop of the source.

| action | code |
|---|---|
| Arrive | QueueRTP (pusher.go:118-124), called for every packet |
| PusherCheck, PusherTake, PusherPark, PusherCache, PusherSnapshot, PusherBroadcast | Pusher.Start and BroadcastRTP (126-197): the test of Stoped, the take or the wait under the lock, the cache under its lock, the copy of the map, one player |
| Describe, Play, ReplayPack, Register | the pointer found at DESCRIBE; AddPlayer (199-217): the replay under the cache's lock, then the entry in the map and the goroutine |
| PlayerCheck, PlayerTake, PlayerPark | Player.Start (player.go:41-63) |
| ReaderEnds, ClearedStop, StopSet, RemovePlayer, StopWake | Session.Stop of a viewer with its handle (player.go:22-25) |
| SourceStop, ClearPlayer, Unregister, SourceWake | the stop of the source: the handles of a pushed stream (pusher.go:47-53), or of a pulled one (rtsp-session-puller.go:89-94), which also clears the players; a StreamStop runs the former before the latter |

A pack is its position in the stream; `arrived` says whether it starts a key frame, continues one, or is
not video, which is all the cache asks.  Abstractions: one DESCRIBE per session; the model starts after
AddPusher's critical section; the send of RemovePusher to the recorder is `RtspServer`'s; the UDP
sender that pulled streams also write to has no state here; a write to a viewer's conn takes no state
and may take any time, though [fairness](#fairness) assumes that it ends.  A pulled stream takes one PLAY per session, because a second one racing
ClearPlayer can start a second goroutine for one player, which `playerPc` cannot represent.

To know: a second PLAY of a session queues the cache once more behind what is live, so the viewer goes back in time;
`FeedOrdered` speaks of viewers that sent one PLAY, `PlayAgainLosesNothing` of all: from the first broadcast after its
entry in the map (`entry`) a viewer loses nothing by it.  A viewer that found the pusher at DESCRIBE and plays when it has
stopped is entered in the map of a pusher that feeds nobody, and is not told.  A goroutine that tests Stoped before the
stop sets it and waits after the Broadcast waits for ever (`ParkedGoroutinesEnd` speaks of those that wait already).

### RtspServer

`pushers` is the map; `reader[p]`, `records[p]`, `stoped[p]`, `stop[p]` are a publishing session with the
two callers of its Stop (its reader, and the API's StreamStop); `started[p]` counts the goroutines that
AddPusher started; `recorder[r]` and `cmds[r]` are the goroutines of Record with their processes, one for
each Start of the server; `addOpen`, `removeOpen`, `phase`, `restarts` the restart.

A session announces once and stands for its pusher.  Sends to the recorder are rendezvous
(`RecorderAdds`, `RecorderRemoves`); a send on a closed channel panics, and the model distinguishes where
that is recovered (the handler of ANNOUNCE answers 500, gin recovers the API's handler) and where it ends
the process.  What the recorder waits for (`proc.Wait`, rtsp-server.go:152) is assumed to end.  The
accept loop is not modelled, and Start is assumed to be able to listen.

Things the model shows that are worth knowing, and that the properties are worded around:

- A session that was refused with 406 takes the path with its RECORD as soon as it is free; and a
  RECORD that races StreamStop registers a stopped pusher that nobody removes any more.  So `PathFreed`
  speaks of publishers that have not recorded, and `OneGoroutineWorks` of goroutines of pushers that are
  not stopped: the path that such a pusher holds for good is in the model, and no property forbids it.
- StreamStop finds a pusher in the map before its AddPusher has told the recorder.  If the removal is
  received first, the recorder looks up a process it does not have and dereferences nil
  (rtsp-server.go:147-148).  `RecorderKnowsPushers` says that this is the only way, as long as directories
  can be made and the server is not restarted.

### PullToPush

One record of program counters per pull: `api` (StreamStart), `start` (the goroutine of
SessionPuller.Start), `loop` (startStream), `stop[u][c]` for every caller of a Stop, where `c` is a call of
StreamStop or the loop itself.  The flags are Session.Stoped, RTSPClient.Stoped, RTSPClient.Conn and
SessionPuller.RTPClient.  Each Stop is split at each access to them, since none is synchronised; the conn is closed
(`ConnClose`) before Conn is nil (`ConnForget`), and a caller between the two closes it twice.  Init with
its requests is one step, which fails with or without an open conn.  The rendezvous with the recorder is
left out of AddPusher and RemovePusher here.  `Plan` says which requests come: the path of each pull and who
calls StreamStop for it.

To know: StreamStart looks up the path of a session that has none yet (streams.go:79), which is the empty
path, so two pulls of one path are both started, and the second is not in the map and StreamStop cannot find it.
`StoppableById` excepts just these: a pull that came to AddPusher while another had its path (`Lost`), which has it still
or was stopped since.  There streams.go:45 does not hold.  A pull without a path blocks all others.  And a source that
ends between `client.Start` and `AddPusher` (rtsp-session-puller.go:95-96) has run its handles before the pusher is
registered, which then stays for good: StreamStop returns at the flag that the handles set (`EndedSourceFreesPath` speaks of
pulls that were registered before).

### RtmpPull

`api` is the StreamStart handler in doContext's select, with `errChan` and `doResultChan`; `reader` the
session's goroutine from the dial to its end; `headers`, `cached` and `sdpRaw` the analysis; `start[p]` the
two goroutines with SessionPuller.Start, one started by the reader's callback and one by Init; `stop[c]` the
callers of a Stop or of dispose, `once` and `todo` the dispose that is being run.

| action | code |
|---|---|
| StreamStart, DoFails, DoSucceeds, InitReturns | Init (rtmp-client.go:120) with Pull and doContext (client_session.go:230-280) |
| TcpConnect, Handshake, PlayStarted, ReadAv, RemuxCache, UnknownMessage, ReadFails | the reader: dial, handshake, runReadLoop with doMsg, and the client's analysis |
| NewPusher, AddStopHandle, AddDisposeHandles, AddPusher | SessionPuller.Start (rtsp-session-puller.go:78-96) with its two appends to the stop handles, of NewPusher (pusher.go:47) and its own (79), and one to those of dispose; each is a read of the list and a write |
| StreamStop, SessionStop, SessionHandle, PullerStop, ClientStop, ClientLeft | StreamStop and the Stops below it |
| DisposeOnce, DisposeHandle, DisposeClose | dispose (client_session.go:554) |

`stopHandles` is a list of pushers' and pullers' handles; which of the two pullers put a handle there makes no difference,
so the handles of dispose are their number.  Session.Stop runs the list it finds (`handles[c]`).  Once.Do makes later callers
wait until the first has returned, so a handle that called dispose would wait for itself.

The appends are not synchronised.  A puller that read the empty list writes its pusher's handle alone over both of the
other's, and has its own still to append.  A StreamStop that comes just then removes the pusher, sets Stoped and does not
stop the client: the source stays connected, and the ID stops nothing any more (run `rtmp_pull_raced`).  `interrupted` says
that a Stop took the list between the two appends of a puller; `DisposedWhenStopped` and `StoppedPullEnds` except that, and
TLC and the proof show that there is no other way to it.

To know: no timeout is ever set (rtmp-client.go:130), so Init waits for ever for a source that is silent, and
also for one that closes after the handshake and before it answers play, because the reader then disposes of
the session and tells nobody (`FailedDialAnswered` speaks of the dial and the handshake).  The ID is answered
when play is, but there is no pusher to stop by it until the analysis has ended.  A handle that is added after
dispose never runs, so a source that ends at once, or between the AddPusher of the two pullers, leaves a pusher in the
map for good (`EndedSourceFreesPath` speaks of sources that end when no puller is on its way to the map, and says
that the path is then free for good).  A message of a type that doMsg does
not know ends the process (client_session.go:378).

### WebRoom

`sig`, `publisher` and `players` are the page's globals, `run[k]` is where the k-th run of startDemo is,
`socket[k]` and `pub[k]` its own socket and publisher, `on[k]` the socket its answer will come on, `r0[k]` what it
keeps of the answer to join.  `room`, `join`, `cleaned`, `peers`, `returned` and `notify` are what `Signaling` says of the
server: a join is refused while the display is there; the clean-up of a connection runs once, and a join that is handled
after it stays; a Notify copies the list and then tells one after another, in its order, and waits at one whose handler
has returned.  An await is where a run's action ends.

| action | code |
|---|---|
| Start, Connect, JoinAnswered, SendPublish, PublishAnswered | startDemo (room.html:81-131) from await to await; connect, send and close of srs.sig.js |
| PublishEnds | the end of publish of srs.sdk.js and the page's then and catch |
| List, Tell, NotifyEnds | Room.Notify of a publish (sig-room.go:72-116); Tell with onmessage of the page (room.html:91-99) |
| ServerJoins, ServerAnswers, ServerLeaves, SocketLost | the server and a connection of the page |
| PeerJoins, PeerPublishes, PeerLeaves, PeerRemoved, HandlerReturns | the other peers, each of which joins, publishes and leaves once |

Whether a publish succeeds is open; a closed publisher fails or hangs.  `players` are the peers that a player was started
of.  Left out: the events of joins and leaves, with which the page closes the players of who is not in their list; the ends
of players; what the server does with a publish whose display is not in the room (`Signaling` has it).

To know: a refused join is waited for without end, because the server keeps the socket and srs.sig.js sets no onclose
anyway; a second click can make the first run send publish on the new socket before the new run has joined; the catch of a
publisher that was closed closes the new one too.  Beside peers that leave and sockets that
end, `PublishersPlayed` has one exception, which TLC finds to be necessary: a Notify that waits for a peer whose handler has returned (`Stuck`) does not come to the page behind it.

### Signaling

A participant is a client and the number of its join, so that a second join is a different one.  Per client:
the reader with its one buffer, the processor, the handler that writes, the cleanup; per message and per
leave a Notify with the list it copied.  The reader may overwrite the buffer while the processor decodes it
(`Unmarshalled`: the old message, the new one, or nothing valid).  `display` is chosen at first, of the choices in
`Displays`: each client its own, or two the same.  A write to a websocket is assumed to end.  Rooms do not interact, so
there is one.

To know: the processor and the handler stay for ever when a client disconnects while they wait; a join
that is processed after the cleanup leaves a participant without a client for good (`GoneLeaves` speaks of clients that
have joined when it runs); a peer that joins between the
copy of a leave's list and the Remove sees the leaver and is never told; publish by a display that is
not in the room dereferences nil (sig-app-server.go:147-150).

### Connection

`wChan` is the channel of messages, whole, with `head` for what was received; `flushDone` and `exit` are the
other two; `buffer` and `wire` hold what bufio.Writer keeps and what reached the network; `close` is the step
of close, which sync.Once lets one goroutine run.  `Init` chooses among the options: block or refuse at
a full channel, buffered or not, with a write timeout or not.  A write error and a closed conn lead to
close; with a write timeout, SetWriteDeadline fails first on a closed conn.  A reader only matters
when it fails, and is `Close`.  Synchronous connections (WriteChanSize = 0) are not modelled.

### RtmpChunks

Who writes is a session of this program (chunk_divider.go: whole messages, fmt 0 first) or another RTMP program
(any fmt, chunk streams interleaved; external).  `sending[c]` is the message a chunk stream is in, `stream[c]`
what the composer keeps of it, `size` and `peerSize` the chunk sizes of the two sides.  A chunk is its header's
fields and as many bytes as the writer puts in it; `Chunk` reads it as one round of RunLoop does, and
`ChunkMisread` is the round that takes more or fewer bytes than were written, after which the model stops.
Timestamps are modulo `Word`, so that differences turn over.  `MaxTimestamp` stands for 0xFFFFFF.

To know, all in the comments of the properties: a session's timestamp of exactly 0xFFFFFF is written without the
extended field and read with it; raising the chunk size while another message has been read in part makes the
composer read the rest of that as one chunk (chunk_composer.go:153); one absTsFlag serves all chunk streams, so
a message that is completed within another gives or takes its flag.

### RtpReceive

`packets` is the stream as RtpPacker divides it; a packet arrives when at most `Displace` later ones were
faster, some are lost, one comes twice.  `box` is the RtpUnpackContainer, `report` the RrProducer.  A packet is
known by its position in the stream, but the receiver compares only `SeqOf` it, the number modulo `SeqWord` (for
2^16; the window of CompareSeq is a quarter of it), which starts close to the turn.  The container unpacks
as far as it can after each packet, so a Feed is one step; the loops of packing and unpacking are recursive
functions of their rounds.  `first` remembers what came first, for what the report is measured by.

To know: insert counts duplicates that it does not keep, and the unpacker of AAC takes one packet too few off
Size for each fragmented frame; what is counted too much is never taken back (`Uncounted`), and
`NoFrameGivenUp` holds only while it leaves room.  After a gap of a quarter of the numbers since the last packet that
went out, isStale takes what comes for old, unless the numbers turned in between.

### MediaIo

One behaviour of `MediaIo` is one of a single layer: `layer` says which, and the two others rest.  They share no
state in the code either; a layer hands whole writes, messages or frames to the next.

## The runs

Deadlock is not checked anywhere, because all these models stop: their bounded inputs run out, and
servers stop.  That nobody hangs is stated by liveness properties instead.

| run | instance | properties |
|---|---|---|
| `relay_feed` | one viewer, 3 packs of any kind, 2 PLAYs, a pushed stream | GopCacheIsCurrentGop, FeedOrdered, PlayAgainLosesNothing |
| `relay_live` | one viewer, 2 packs, a pulled stream, fair | NoPlayerDroppedSilently, ImplementsLiveFeed, PacksReachPlayers, ParkedGoroutinesEnd |
| `server_registry` | 2 publishers of one path, 2 RECORDs each, one restart | OneGoroutineWorks, RecordingOwned, RecorderKnowsPushers, RecordingsEndOnStop, OnlyOwnerUnregisters |
| `server_live` | the same with one RECORD and directories that cannot be made, fair | SendersServed, PathFreed |
| `server_restarted` | one publisher, one restart | ServesAfterRestart, violated |
| `pulls` | 2 pulls on one path or on two, one of them empty, 2 calls of StreamStop, fair | StoppableById, StopsAddUp, EndedSourceFreesPath |
| `rtmp_pull` | one RTMP source, 2 calls of StreamStop, up to 3 messages of analysis, fair | DisposedWhenStopped, RelayingIsRegistered, StoppedPullEnds, EndedSourceFreesPath, FailedDialAnswered |
| `rtmp_pull_raced` | the same with 1 call and 1 message, fair | IdStopsPull, violated |
| `signaling_room` | 2 clients, with one display or each its own, one may leave, 2 messages and 1, fair | UniqueDisplay, JoinedUntilCleanup, Answered, GoneLeaves |
| `signaling_quitting` | 3 clients, 2 may leave | LeaveReachesAll, violated |
| `web_room` | 2 clicks, 2 other peers that join and leave, one of them publishes, fair | OnePublisher, NoneWaitsOnClosedSig, PublishersPlayed |
| `media_layers` | a connection: 2 goroutines write, one flushes, a channel of 2, 4 messages, all options, the network may fail, fair; chunks: 2 chunk streams, 3 messages, timestamps around the boundary; RTP: 6 frames or 3, 2 packets lost, one doubled | SentInOrder, FlushMeansSent, NothingAfterDone, LoopEnds, CallersGoOn, FramingKept, TimestampsKept, FramesInOrder, NoFrameGivenUp, ReportIsRight |

What each property says is in the comment before it.  The type invariants (`TypeOK`) are not in the list: they
are theorems of every module that states one, and need no run.  Why the bounds are enough:

- *Relay.*  The players of one pusher share only the pusher's goroutine, the map and the cache's read
  lock, and no property relates two of them; one viewer against the goroutine, the source and two stoppers
  has every interleaving of AddPlayer's two locks with the cache and the broadcast.  Three packs are a
  key frame with a pack before and after it, so that a replay has two packs and one is live.  In
  `relay_live` two packs suffice for one replayed and one live.
- *Registry.*  The hazards are those of two sessions on one path (of three, the third is in the place
  of the second); two RECORDs are the first and one after a stop.  One restart makes two recorders on the
  same closed channels.
- *Pulls.*  Two calls of StreamStop and the loop's end are three entries into the chain of Stops, in
  which each flag has at most one who sets it and two who find it set.  The plans have the two pulls compete, and
  one of them stopped twice.
- *RTMP pull.*  Two callers of StreamStop beside the reader's end, as above; two headers and one message more
  describe the stream in each of the ways isAnalyzeEnough knows.  The two pullers are all there are.
- *Signaling.*  One client with a second message has the reader and the processor at work on
  one buffer; the other is the peer who wants the same display, or is told.  Whom a leave reaches when there are several
  is `signaling_quitting`'s question.
- *Page.*  Two clicks are an old run and a new one; three would be two old ones, which meet the same
  globals.  One peer publishes, and the other may be before or behind the page in the list and have returned when the
  Notify comes to it.
- *Connection.*  A channel of two can be empty, partly full and full; four messages fill it while
  the loop works on one, and leave one more to be refused or to wait.

- *Chunks.*  Messages of one chunk and of several, with a chunk size above and below what is being sent;
  timestamps below, at and above the boundary, whose sums turn over; a third message after two that were interleaved.
- *RTP.*  Frames of one, two and three packets; a delay of two packets and the loss of two put a gap at the
  head of the list and overflow it; the numbers turn over within the stream.  40 numbers are the fewest, rounded
  up, of which a quarter still tells the order of a stream of nine packets.

The proofs remove the bounds from the properties they establish.

## Fairness

Only steps that a goroutine takes by itself are fair: the Go scheduler runs each runnable goroutine again
and again (weak fairness), and nobody is made to send, to play, to stop, to disconnect, to restart or to
flush.

Where the code has no deadline, fairness is also an assumption on the network: a write to a conn ends.  Without a write
timeout a peer that stops reading can make it wait for ever, and then what is said here of progress behind that write does
not hold.  The models state this of three writes: of the relay to a viewer (player.go:41-63, no deadline), of the write
loop of a connection without a write timeout (connection.go, WriteTimeoutMs = 0), and of the handler of a websocket.

- `RtspRelay`: weak fairness of each goroutine's next step, PlayerTake with its write to the viewer among
  them.  Readers of the cache's lock cannot keep its writer out, because sync.RWMutex holds new readers back while a writer waits; the model has no unfair
  lock to begin with, since a replay is finite.
- `RtspServer`: strong fairness of a recorder's receives, because a select takes a ready case at random and
  blocked senders of a channel wait in its queue; of the server's other steps weak fairness.
- `Signaling`: weak fairness of all that goroutines do (`GoesOn`).  The runs' messages are bounded and each leads to
  finitely many steps, so to be fair to one of them is to be fair to all, and to the senders of a channel in particular.
- `Connection`: strong fairness of a sender that finds room again and again, and of the select's exit case,
  which is taken at random among those ready; weak fairness of the loop's other steps, its writes to the network
  included.  With a write timeout they end by it; without one that is the assumption above.
- `RtmpPull`: weak fairness of what the handler, the pullers, the Stops and dispose do, of a dial (which the system
  ends) and of a read from a conn that was closed, in one formula (`GoesOn`) for the same reason.  None of the handshake
  or of any other read: no timeout is set.
- `WebRoom`: weak fairness of the server, of messages and of the runs' own steps (`GoesOn`, as above); none of publish,
  which may wait for the user or the network, and none of a connect.  A peer whose handler has returned is gone in the end.
- `PullToPush`: weak fairness of each Stop's next step; startStream ends when its conn was closed.

## The proofs

TLAPS checks these for every set of players, publishers, clients, pulls, callers and chunk streams and for every
bound; the assumptions are those the modules state of their constants.

**RtspRelayProofs.**  `TypeCorrect`: TypeOK, with the fact it needs that a replay stays within the cache while
it holds the lock.  `FeedsInOrder`: FeedOrdered, of each viewer up to its second
PLAY, whatever the others send.  It is not inductive.  The invariant `FeedInv` adds who is fed at
all (`AttachInv`), that up to the second PLAY the goroutine exists exactly from the end of AddPlayer (`OnePlayInv`), that the cache
is in order and behind the pusher (`CacheInv`), that during the first replay the feed is the beginning of the cache
(`ReplayInv`), and for the live part that the last pack a viewer was fed is the pusher's current or
previous one, depending on whether the running broadcast has still to serve it (`LiveInv`).  The proof has
one lemma per part, and each goes through the few actions that feed (`FeedStep`) and treats all
others as one case (`Quiet`).  `CacheIsCurrentGop`: GopCacheIsCurrentGop, inductive with `CacheInv`; the step
that matters is that of the pusher's goroutine (`GopCacheStep`), and `GopNext` says what the next pack makes of the
group of pictures.  `RelayImplementsLiveFeed`: ImplementsLiveFeed, for `MaxPlay = 1`.  It adds to `FeedInv` that the
replayed part of a feed is a piece of one group of pictures without a hole (`PieceInv`, from CacheIsCurrentGop); then
only PlayerTake shows the viewer anything (`NothingSeen`), and whether it is a Replay, a Join or a Follow of the
contract depends on how much was taken (`TakenPack`).  For any number of PLAYs: `NobodyDropped`, NoPlayerDroppedSilently,
inductive with the types; and `SecondPlayLosesNothing`, PlayAgainLosesNothing, because a player of the map has been fed
everything that was broadcast since it entered (`AgainInv`), so that whatever comes next has its predecessor there, be it
replayed again or live; that takes that nobody leaves the map for the first time while its session is in AddPlayer
(`BusyInv`).

**RtspServerProofs.**  `TypeCorrect`: TypeOK, with its clause that an entry of the map is under its
session's path and has been started.  `HoldersKeepPaths`: OnlyOwnerUnregisters.  `OneWorker`:
OneGoroutineWorks, from the invariant that a pusher which was started and is not stopped is in the map, or was
never removed (`WorkersRegistered`, `OneWorks`, `StopsAreSet`).  `RecordingsOwned`: RecordingOwned, from an
invariant that follows a pusher from its entry in the map through the rendezvous to the removal
(`RecordingInv`: in particular the reader's stop comes after its sends, and a RECORD that is on its way after
a stop has its pusher in the map).  These two speak of a server that was not restarted, and the proofs
first show that then one recorder receives (`NoRestart`).  `RecorderKnows`: RecorderKnowsPushers, if directories can be
made; a holder of a path that is not sending has its entry (`HolderIsKnown`), so that it has one when it sends its
removal (`RemovedIsKnown`).  `RecordingsEnd`: RecordingsEndOnStop, restarts included, from the order in which Server.Stop
closes the two channels (`EndInv`).

**PullToPushProofs.**  `TypeCorrect`: TypeOK.  `StopsComeToTheEnd`: StopsAddUp, which is not inductive: it says
nothing while somebody is in a Stop.  The invariant names who carries on: a flag that is set has a caller behind
it who goes on to the next link of the chain, or the chain has been gone through (`ChainInv`); each pc of a Stop
tells which flags were set before (`StopInv`); before the ID is answered nobody is in a Stop (`EarlyInv`).
`PullsAreStoppable`: StoppableById, from the same invariant and `MapInv`: an entry of the map is taken out only by a Stop of
the pull that made it, and whoever has come past AddPusher without an entry met another that had the path then.

**RtmpPullProofs.**  `TypeCorrect`: TypeOK; that dispose's list has at most two handles needs what each puller has
read of it (`HandlesInv`) and that nobody runs more than there are (`CountInv`).  `StoppedIsDisposed`:
DisposedWhenStopped, from `ListInv` and `DisposeInv`.  `ListInv` is about the race for the list of stop handles: once a
puller has come past its two appends, the list has a puller's handle whenever nobody is between two appends, for who wrote
last wrote one.  `DisposeInv` names who carries on: Stoped set means that the Once is taken, that a caller has the
client's Stop before it (`ToClient`), or that a Stop took the list between two appends (`interrupted`).
`RelayingCanBeStopped`: RelayingIsRegistered, because an entry is removed only by handles, which run after the flag or the
Once was set.

**SignalingProofs.**  `DisplaysAreUnique` and `StaysUntilCleanup`: UniqueDisplay and JoinedUntilCleanup from
`RoomInv`: the list is free of duplicates, what a client has joined as is its own (`SelfInv`), and a participant
that was added but is not yet its client's self is in the room, with nothing on its way that would remove it.  Two
lemmas (`AppendSet`, `RemoveSet`) turn the list into the set of its elements.  `TypeCorrect`: TypeOK, which needs
RoomInv for the room, and that a message which is handled has been received (`TypeInv`), so that a participant
always has the number of a message its client sent.

**WebRoomProofs.**  `TypeCorrect`: TypeOK, with at most one connection of the page in the room, for which lists are
compared as the sets of their elements (`AppendSet`, `RemoveSet`).  `PublishesOnce`: OnePublisher.
`ClosedSigRejects`: NoneWaitsOnClosedSig, from `WaitInv`: only the last run connects, and only its socket is connecting, so whoever sends does so on the current socket.

**MediaIoProofs: the connection.**  `TypeCorrect`: TypeOK, for any capacity.  `NothingSentAfterDone`: NothingAfterDone, from
`CloseInv` (with Done sent, the conn is closed) and `LoopInv` (a connection without bufio.Writer keeps
nothing back).  `SendsInOrder`: SentInOrder is inductive together with `LoopInv`; `OneSent` is the step
that sends, `NothingSent` all others.  `FlushesSend`: FlushMeansSent when one goroutine flushes
(`OneFlusher`): `FlushInv` says that a flush in the channel is awaited by who put it, that a signal on its way
is for the flush that is awaited, and that then what was written before it is on the wire.  With two goroutines
the statement is false, and the assumption is where that shows.

**MediaIoProofs: chunks.**  `FramingIsKept`: FramingKept, from `FramingInv`: the sides agree on the chunk size or the
message fits either (`SizesAgree`), and what the composer keeps of a chunk stream is what was written
(`StreamFollows`).  `TimestampsAreKept`: TimestampsKept, from `TimestampInv`: the flag is that of a message with
fmt 0 that has been begun, and the stream's timestamp is what was sent less what is still to be added.

**RtpReceiveProofs.**  `InOrder`, `NoneGivenUp`, `ReportRight`: FramesInOrder, NoFrameGivenUp and ReportIsRight,
for every stream, every loss, delay and duplication, and any number of turns of the sequence numbers.  They have one
hypothesis, `KeepsNear`: a packet that comes is less than a quarter of all numbers away from the packets in the list,
from the last one that went out and from the latest one that came.  That is what CompareSeq presupposes; a packet
that is farther off is taken for the opposite of what it is, and the three statements are false.
`ShortStreamsSafe` has no such hypothesis: it speaks of streams that have no more packets than that window, as those of
the run.  `TimelyStreamsSafe` speaks of AVC and HEVC streams of any length in which nothing comes twice: there the
hypothesis follows from `Timely`, which bounds what may delay a frame.  The packets of a full list, those that are overtaken
and those of frames with a loss must nowhere be a quarter of the numbers together.  For 2^16 numbers, the list of 1024
that lal gives its unpackers (vendor, rtsp.go:87), 100 overtaken packets and frames of up to 100 packets, that allows 76
lost packets in any window of the numbers and a frame on either side of it.  Its invariant adds to `IInv` that Size is
the length of the list and at most `MaxSize` (`FeedExact`).  If a packet came a quarter of the numbers after the last one
that went out, each of those between them would be in the list, overtaken, or near a loss (`Waiting`), and these are too
few (`Crowded`, `NoGap`).
The invariant of all is `IInv`: what the packer makes (`Stream`: a frame is a single packet or a start, middles and
an end); that at most `Displace` packets are overtaken (`Overtaken`); of the container (`Good`) that its list is
ascending, what came out are frames, in order and before the list (`BoxInv`), and, while Size leaves room, that a
frame of which nothing is lost came out, or all of it that came is in the list and nothing later came out (`Kept`); of
the report (`Counted`) that base and maximum are those of the first and the latest packet, the cycles what lies between.
The argument that matters is the one of a gap: with a gap at its head the list is as long as the longest frame
and the packets on their way together (`TooMany`), so what is missing cannot be on its way any more and a frame is
skipped only for a loss (`BeforeHead`, `DropGood`, `AcrossGood`).

What a loop computes after any number of rounds is needed here (packing, unpacking, searching the place and the end of
a frame), and induction over numbers is out of the provers' reach as the library states it.  The module states it
in first-order form: a set of numbers that holds the first and is handed on from each to the next holds all
(`HandedOn`, from the least counterexample, `Least`), a recursive function is what its equation says (`Recursion`), and
an invariant of the round is one of the loop (`Rounds`).

**MediaIoProofs: together.**  A behaviour of MediaIo is one of each layer (`LayersAlone`); so `WritingIsSafe` and
`ReceivingIsSafe` state the results above of the whole.

Model-checked only: the liveness properties, which all need fairness (no prover here does ENABLED).  Every
invariant and every action property of the passing runs is the statement of a theorem.

## Findings

Three runs end in a violation, of what the repository says of itself:

- `rtmp_pull_raced`: "the pull can be stopped by this ID later" (`routers/streams.go:45`).  Two pullers of one RTMP source
  append to `Session.StopHandles` without a lock (`rtsp/pusher.go:47`, `rtsp/rtsp-session-puller.go:79`); a StreamStop that
  comes while only a pusher's handle is on the list removes the pull from the map and leaves its source connected, for good.
- `server_restarted`: `routers/sys.go:152` documents `/restart` as a restart of the service.  When it is complete, a session
  that announces is entered in the map and its AddPusher stands before a channel that `Server.Stop` closed and `Start` does
  not make again (`rtsp/rtsp-server.go:195`, `32-33`): the ANNOUNCE is answered 500, and the end of that session sends on the
  other closed channel, where nothing recovers.
- `signaling_quitting`: "Notify other peers that we're quiting" (`app/sig-app-server.go:62`) stops at
  the first peer whose handler has returned, because the notification waits for it without end.  That needs three clients;
  what a leave does when no handler has returned is not checked for as many.

Other places where the code does what its documents do not say are under "To know" above, each with the property that is
worded around it; the hazards in `PROJECT.json` say which of them no property catches.

## What is not modelled

- Byte formats (RTSP text, SDP, AMF0, handshake, parameter sets, RTP headers): no state, and their meaning lies in
  standards that the repository does not state.
- HTTP, TLS, database, session stores, statistics, the OS service wrapper: thin layers over libraries.
- `www/js/jquery-2.2.4.js` and `www-sig/demos/js/adapter-7.4.0.js` are copies of other projects, and
  `www/apidoc` is generated from comments.  They are by far most of the JavaScript here, and no code of this program.
- `one2one.html`, and of the SDK what its promises do not tell: URLs, HTTP requests, the WebRTC stack.  Of the conference
  page the events of joins and leaves and the ends of players.
- Of a connection the Mod functions once it is in use: a session makes its synchronous connection an asynchronous one when
  play is answered (client_session.go:546), and `Connection` begins behind that.
- Sockets and their set-up over UDP, the accept loops, the requests of an RTSP session other than those that change
  shared state.
- Aggregate and empty RTMP messages: the composer never clears the buffer of an aggregate message
  (chunk_composer.go:186-238), so that a second one on its chunk stream is not read.
- Jitter and the fraction lost of the receiver report.
- RTMP's server and push sessions, which the application does not start.

`PROJECT.json` ("components") has the status of each part.

## Plan

Done: `RtspRelay` with `LiveFeed`, `RtspServer`, `PullToPush`, `RtmpPull`, `Signaling`, `WebRoom`, `Connection`,
`RtmpChunks`, `RtpReceive`, `MediaIo` and the proofs above.

What could follow: the requests of an RTSP session in any order (SETUP over TCP and UDP, the authentication) with
the clean-up of a failed SETUP; the restart of the application with its accept loops, composed with `RtspServer`.
