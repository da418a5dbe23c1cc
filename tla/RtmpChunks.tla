------------------------------ MODULE RtmpChunks ------------------------------
(***************************************************************************)
(* Messages on an RTMP connection: chunk_divider.go and the peers that     *)
(* write, chunk_composer.go that reads.                                    *)
(*                                                                         *)
(* Who writes is a session of this program, whose Message2Chunks divides   *)
(* one whole message after the other, or another RTMP program, which may   *)
(* use the shorter headers and interleave the chunk streams (external: the *)
(* composer's comments name ffmpeg).  A chunk is read when it is written:  *)
(* the bytes between are in order, and neither side waits for the other.   *)
(*                                                                         *)
(* Of a message the model keeps length, timestamp and whether it sets the  *)
(* chunk size.  The composer finds the next chunk by reading as many bytes *)
(* as it thinks this one has: once it reads more or fewer, what follows is *)
(* not chunks, and the model stops.  Aggregate and empty messages are not  *)
(* sent.                                                                   *)
(***************************************************************************)
EXTENDS Integers

CONSTANTS
    Csid,             \* chunk streams
    MsgLen,           \* lengths of messages
    Timestamp,        \* timestamps and differences that are sent
    ChunkSize,        \* chunk sizes that a peer may set
    LocalChunkSize,   \* 4096
    DefaultChunkSize, \* 128
    MaxTimestamp,     \* maxTimestampInMessageHeader, 0xFFFFFF
    Word,             \* 2^32, the timestamps of uint32
    MaxSent           \* bound: messages

ASSUME RtmpChunksAssumption ==
    /\ Timestamp \subseteq 0..(Word - 1)
    /\ ChunkSize \subseteq Nat \ {0}
    /\ MsgLen \subseteq Nat \ {0}
    /\ {LocalChunkSize, DefaultChunkSize, MaxTimestamp, Word} \subseteq Nat \ {0}
    /\ DefaultChunkSize <= LocalChunkSize

VARIABLES
    writer,    \* "session" of this program, or "other"
    sent,      \* messages begun
    sending,   \* the message each chunk stream is in
    sender,    \* of each chunk stream: the timestamp sent last, its field, and the length
    size,      \* the writer's chunk size
    peerSize,  \* peerChunkSize
    stream,    \* csid2stream: timestamp, header.TimestampAbs, header.MsgLen and bytes of msg
    absTsFlag, \* the local of RunLoop
    framed,    \* the composer reads chunks where there are chunks
    crossed,   \* a message was completed while another one had been begun
    far        \* a difference was sent that needs the extended timestamp

chunkVars == <<writer, sent, sending, sender, size, peerSize, stream, absTsFlag, framed, crossed, far>>

Idle == [len |-> 0, left |-> 0, fmt |-> 0, field |-> 0, set |-> 0]

ChunksInit ==
    /\ writer \in {"session", "other"}
    /\ sent = 0
    /\ sending = [c \in Csid |-> Idle]
    /\ sender = [c \in Csid |-> [ts |-> -1, field |-> 0, len |-> 0]]
    /\ size = IF writer = "session" THEN LocalChunkSize ELSE DefaultChunkSize
    /\ peerSize = DefaultChunkSize
    /\ stream = [c \in Csid |-> [timestamp |-> 0, abs |-> 0, len |-> 0, got |-> 0]]
    /\ absTsFlag = FALSE
    /\ framed = TRUE
    /\ crossed = FALSE
    /\ far = FALSE

Lesser(a, b) == IF a < b THEN a ELSE b
Busy(c) == sending[c].left > 0
Begun(c) == Busy(c) /\ sending[c].left < sending[c].len

-----------------------------------------------------------------------------
(* Writing.                                                                *)

\* the header of a message: len bytes at time ts, field in the header; set is the chunk
\* size it sets, or 0
Message(c, len, ts, fmt, field, set) ==
    /\ framed /\ sent < MaxSent /\ ~Busy(c)
    /\ sent' = sent + 1
    /\ sending' = [sending EXCEPT ![c] =
            [len |-> len, left |-> len, fmt |-> fmt, field |-> field, set |-> set]]
    /\ sender' = [sender EXCEPT ![c] = [ts |-> ts, field |-> field, len |-> len]]
    /\ far' = (far \/ (fmt > 0 /\ field >= MaxTimestamp))
    /\ UNCHANGED <<writer, size, peerSize, stream, absTsFlag, framed, crossed>>

\* Message2Chunks always begins with fmt 0, and a message is written as a whole.  The chunk
\* size is that of the divider from the start: what a session writes before it has told it
\* is shorter than the default.
SessionWrites(c, len, ts) ==
    /\ writer = "session" /\ \A d \in Csid : ~Busy(d)
    /\ peerSize = LocalChunkSize \/ len <= DefaultChunkSize
    /\ Message(c, len, ts, 0, ts, 0)

\* writeChunkSize
SessionSetsChunkSize(c) ==
    /\ writer = "session" /\ \A d \in Csid : ~Busy(d)
    /\ Message(c, 1, 0, 0, 0, LocalChunkSize)

\* fmt 0 has the timestamp, fmt 1 and 2 the difference, fmt 3 repeats the field before it
OtherWrites(c, len, fmt, field) ==
    /\ writer = "other"
    /\ fmt > 0 => sender[c].ts >= 0
    /\ fmt >= 2 => len = sender[c].len
    /\ fmt = 3 => field = sender[c].field
    /\ Message(c, len, IF fmt = 0 THEN field ELSE (sender[c].ts + field) % Word, fmt, field, 0)

OtherSetsChunkSize(c, n) ==
    /\ writer = "other"
    /\ Message(c, 1, 0, 0, 0, n)

\* calcHeader writes the extended timestamp beyond the boundary, other programs from it on;
\* both in every chunk of the message
HasExtended(field) == IF writer = "session" THEN field > MaxTimestamp ELSE field >= MaxTimestamp

-----------------------------------------------------------------------------
(* Reading: one round of RunLoop.                                          *)

\* the 24 bits of the header, or what the stream has kept
HeaderTimestamp(c, fmt) ==
    IF fmt = 3 THEN stream[c].timestamp ELSE Lesser(sending[c].field, MaxTimestamp)

\* mutant of ReadsExtended: the test that the composer had first
ReadsExtendedOnce(c, fmt) == HeaderTimestamp(c, fmt) = MaxTimestamp

ReadsExtended(c, fmt) == HeaderTimestamp(c, fmt) >= MaxTimestamp

TimestampAbs(c, fmt) ==
    CASE fmt = 0 -> sending[c].field
      [] fmt \in {1, 2} /\ ReadsExtended(c, fmt) ->
            (stream[c].abs + Word - MaxTimestamp + sending[c].field) % Word
      [] OTHER -> stream[c].abs

HeaderLen(c, fmt) == IF fmt <= 1 THEN sending[c].len ELSE stream[c].len

NeededSize(c, fmt) ==
    LET len == HeaderLen(c, fmt)
    IN  IF len <= peerSize THEN len ELSE Lesser(len - stream[c].got, peerSize)

\* mutant of AbsTsFlag: it is left as it is at the end of a message
AbsTsFlagKept(fmt, complete) == absTsFlag \/ fmt = 0

AbsTsFlag(fmt, complete) == ~complete /\ (absTsFlag \/ fmt = 0)

\* the next chunk of c's message: fmt 3, except for the first
Fmt(c) == IF Begun(c) THEN 3 ELSE sending[c].fmt
Portion(c) == Lesser(sending[c].left, size)

\* the message is complete
Complete(c) == stream[c].got + Portion(c) = HeaderLen(c, Fmt(c))

ReadTimestamp(c) ==
    IF ReadsExtended(c, Fmt(c)) THEN sending[c].field ELSE HeaderTimestamp(c, Fmt(c))

\* header.TimestampAbs after the chunk: a difference is added at the end of the message
ReadAbs(c) ==
    LET abs == TimestampAbs(c, Fmt(c))
    IN  IF Complete(c) /\ ~absTsFlag /\ Fmt(c) # 0 THEN (abs + ReadTimestamp(c)) % Word ELSE abs

NewSize(c, old) == IF Complete(c) /\ sending[c].set > 0 THEN sending[c].set ELSE old

ReadsWhatIsWritten(c) ==
    /\ ReadsExtended(c, Fmt(c)) = HasExtended(sending[c].field)
    /\ NeededSize(c, Fmt(c)) = Portion(c)

Chunk(c) ==
    /\ framed /\ Busy(c) /\ ReadsWhatIsWritten(c)
    /\ stream' = [stream EXCEPT ![c] =
            [timestamp |-> ReadTimestamp(c), abs |-> ReadAbs(c), len |-> HeaderLen(c, Fmt(c)),
             got |-> IF Complete(c) THEN 0 ELSE stream[c].got + Portion(c)]]
    /\ absTsFlag' = AbsTsFlag(Fmt(c), Complete(c))
    /\ sending' = [sending EXCEPT ![c].left = @ - Portion(c)]
    /\ size' = NewSize(c, size) /\ peerSize' = NewSize(c, peerSize)
    /\ crossed' = (crossed \/ (Complete(c) /\ \E d \in Csid \ {c} : Begun(d)))
    /\ UNCHANGED <<writer, sent, sender, framed, far>>

\* bytes are taken for a header, or a header for bytes
ChunkMisread(c) ==
    /\ framed /\ Busy(c) /\ ~ReadsWhatIsWritten(c)
    /\ framed' = FALSE
    /\ UNCHANGED <<writer, sent, sending, sender, size, peerSize, stream, absTsFlag, crossed, far>>

Writes(c) ==
    \/ \E len \in MsgLen, ts \in Timestamp : SessionWrites(c, len, ts)
    \/ SessionSetsChunkSize(c)
    \/ \E len \in MsgLen, fmt \in 0..3, field \in Timestamp : OtherWrites(c, len, fmt, field)
    \/ \E n \in ChunkSize : OtherSetsChunkSize(c, n)

ChunksNext == \E c \in Csid : Writes(c) \/ Chunk(c) \/ ChunkMisread(c)

ChunksSpec == ChunksInit /\ [][ChunksNext]_chunkVars

-----------------------------------------------------------------------------
(* Properties.                                                             *)

\* The composer reads a chunk where the writer wrote one, whatever the chunk streams, their
\* headers and sizes, but for two cases: a session's timestamp of exactly 0xFFFFFF, for which
\* the divider writes no extended timestamp and the composer reads one; and a message that has
\* been read in part when a chunk size is set that would hold it, since the composer compares
\* the length of the whole message with it.  In both the connection is of no use afterwards.
FramingKept ==
    framed \/ \E c \in Csid :
        /\ Busy(c)
        /\ \/ writer = "session" /\ sending[c].field = MaxTimestamp
           \/ Begun(c) /\ sending[c].len <= peerSize

\* A message gets the timestamp it was sent with, as long as no message was completed within
\* another one, whose one absTsFlag (chunk_composer.go line 57) it used up or met, and the
\* differences fit in the header.  The messages of a session are among these.
TimestampsKept ==
    framed /\ ~crossed /\ ~far =>
        \A c \in Csid : ~Busy(c) /\ sender[c].ts >= 0 => stream[c].abs = sender[c].ts

-----------------------------------------------------------------------------
(* Why the properties hold: invariants that no single step can break.      *)

\* what the variables are
ChunkTypes ==
    /\ writer \in {"session", "other"}
    /\ sent \in Nat
    /\ sending \in [Csid -> [len : Nat, left : Nat, fmt : 0..3, field : Nat, set : Nat]]
    /\ sender \in [Csid -> [ts : Int, field : Nat, len : Nat]]
    /\ size \in Nat \ {0} /\ peerSize \in Nat \ {0}
    /\ stream \in [Csid -> [timestamp : Nat, abs : Nat, len : Nat, got : Nat]]
    /\ absTsFlag \in BOOLEAN /\ framed \in BOOLEAN /\ crossed \in BOOLEAN /\ far \in BOOLEAN

\* who writes and who reads agree on the chunk size, or what is written is one chunk anyway;
\* a session is in one message at a time
SizesAgree ==
    /\ writer = "other" => size = peerSize
    /\ writer = "session" =>
        /\ size = LocalChunkSize /\ peerSize \in {DefaultChunkSize, LocalChunkSize}
        /\ \A c, d \in Csid : Busy(c) /\ Busy(d) => c = d
        /\ \A c \in Csid : Busy(c) =>
            /\ sending[c].fmt = 0 /\ sending[c].set \in {0, LocalChunkSize}
            /\ peerSize = LocalChunkSize \/ sending[c].len <= DefaultChunkSize

\* what the composer keeps of a chunk stream is what its writer has written
StreamFollows(c) ==
    LET m == sending[c]
    IN  /\ m.left <= m.len
        /\ stream[c].got = IF Busy(c) THEN m.len - m.left ELSE 0
        /\ Busy(c) => sender[c].ts >= 0 /\ sender[c].field = m.field /\ sender[c].len = m.len
        /\ Busy(c) /\ (Begun(c) \/ m.fmt >= 2) => stream[c].len = m.len
        /\ Busy(c) /\ (Begun(c) \/ m.fmt = 3) => stream[c].timestamp = m.field
        /\ Begun(c) /\ writer = "session" => m.field # MaxTimestamp
        /\ ~Busy(c) /\ sender[c].ts >= 0 =>
            stream[c].len = sender[c].len /\ stream[c].timestamp = sender[c].field

FramingInv == ChunkTypes /\ FramingKept /\ (framed => SizesAgree /\ \A c \in Csid : StreamFollows(c))

\* the flag is that of a message with fmt 0 that has been begun
FlagFollows ==
    /\ \A c \in Csid : Begun(c) /\ sending[c].fmt = 0 => absTsFlag
    /\ absTsFlag => \E c \in Csid : Begun(c) /\ sending[c].fmt = 0

\* the timestamp of the stream and what it lacks
TimestampFollows(c) ==
    LET m == sending[c]
    IN  /\ ~Busy(c) /\ sender[c].ts >= 0 => stream[c].abs = sender[c].ts
        /\ Busy(c) /\ m.fmt = 0 => sender[c].ts = m.field
        /\ Begun(c) /\ m.fmt = 0 => stream[c].abs = m.field
        /\ Busy(c) /\ m.fmt > 0 => sender[c].ts = (stream[c].abs + m.field) % Word /\ m.field < MaxTimestamp

TimestampInv ==
    framed /\ ~crossed /\ ~far => FlagFollows /\ \A c \in Csid : TimestampFollows(c)
=============================================================================
