------------------------------- MODULE MediaIo -------------------------------
(***************************************************************************)
(* The three layers that media passes on its way in and out: the           *)
(* connection of an RTMP session (Connection), its chunks (RtmpChunks) and *)
(* RTP packets (RtpReceive).  A layer hands whole writes, messages or      *)
(* frames to the next one and shares no state with it, so a behaviour here *)
(* is one of a single layer, with the others at rest.                      *)
(***************************************************************************)
EXTENDS Connection, RtmpChunks, RtpReceive

VARIABLE layer \* the layer that works

mediaIoVars == <<vars, chunkVars, rtpVars, layer>>

ConnectionRests == Init /\ option = [block |-> FALSE, buffered |-> FALSE, timeout |-> FALSE]
ChunksRest == ChunksInit /\ writer = "session"
RtpRests == RtpInit /\ codec = "avc" /\ gone = {} /\ packets = Packets(CHOOSE s \in Streams : TRUE, "avc")

MediaIoInit ==
    \/ layer = "connection" /\ Init /\ ChunksRest /\ RtpRests
    \/ layer = "chunks" /\ ConnectionRests /\ ChunksInit /\ RtpRests
    \/ layer = "rtp" /\ ConnectionRests /\ ChunksRest /\ RtpInit

MediaIoNext ==
    \/ layer = "connection" /\ Next /\ UNCHANGED <<chunkVars, rtpVars, layer>>
    \/ layer = "chunks" /\ ChunksNext /\ UNCHANGED <<vars, rtpVars, layer>>
    \/ layer = "rtp" /\ RtpNext /\ UNCHANGED <<vars, chunkVars, layer>>

\* the fairness is that of the connection's goroutines; nobody has to send anything
MediaIoSpec == MediaIoInit /\ [][MediaIoNext]_mediaIoVars /\ Fairness
=============================================================================
