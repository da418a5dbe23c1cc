------------------------------ MODULE RtpReceive ------------------------------
(***************************************************************************)
(* A stream of frames over RTP (rtprtcp): RtpPacker divides them into      *)
(* packets with consecutive sequence numbers, the network delays, loses    *)
(* and duplicates packets, RtpUnpackContainer joins them to frames again,  *)
(* and RrProducer counts for the receiver reports.                         *)
(*                                                                         *)
(* A packet is its position in the stream, and has the 16 bits of its      *)
(* sequence number and its place in its frame; the receiver sees no more   *)
(* than these.                                                             *)
(***************************************************************************)
EXTENDS Integers, Sequences, FiniteSets

CONSTANTS
    SeqWord,    \* 2^16
    FirstSeq,   \* RtpPackerOption.FirstSeq
    Streams,    \* streams of frames, each the length of its NAL
    MaxPayload, \* MaxPayloadSize
    MaxSize,    \* maxSize of the container
    Displace,   \* how many later packets overtake one at most
    MaxLost,    \* bound: packets lost
    MaxTwice    \* bound: duplicates

ASSUME RtpReceiveAssumption ==
    /\ SeqWord \in Nat \ {0} /\ FirstSeq \in 0..(SeqWord - 1)
    /\ Streams \subseteq Seq(Nat)
    /\ MaxPayload \in Nat /\ MaxPayload > 3
    /\ MaxSize \in Nat /\ Displace \in Nat

VARIABLES
    codec,    \* "avc", "hevc" or "aac"
    packets,  \* the packets sent: their places
    gone,     \* those that the network loses
    arrived,  \* those that have arrived
    first,    \* the one that arrived first, 0 before
    twice,    \* duplicates that have arrived
    box,      \* the container: list, Size, unpackedFlag, unpackedSeq, and the frames it put out
    report    \* the RrProducer: baseSeq, maxSeq, cycles, received

rtpVars == <<codec, packets, gone, arrived, first, twice, box, report>>

-----------------------------------------------------------------------------
(* Sequence numbers.                                                       *)

SeqOf(p) == (FirstSeq + p - 1) % SeqWord
Window == SeqWord \div 4

\* mutant of CompareSeq: the numbers as they are
CompareSeqPlain(a, b) == IF a = b THEN 0 ELSE IF a > b THEN 1 ELSE -1

CompareSeq(a, b) ==
    IF a = b THEN 0
    ELSE IF a > b THEN (IF a - b < Window THEN 1 ELSE -1)
    ELSE IF b - a < Window THEN -1 ELSE 1

\* SubSeq of rtp.go
DiffSeq(a, b) ==
    IF a >= b THEN (IF a - b < Window THEN a - b ELSE a - b - SeqWord)
    ELSE IF b - a < Window THEN a - b ELSE SeqWord - (b - a)

-----------------------------------------------------------------------------
(* Packing.                                                                *)

\* PackNal: a NAL beyond the payload goes without its own header, each part with one of its
\* own.  A STAP-A packet is received like a single one.  (AAC is packed one frame to a packet;
\* the fragments are those of another sender, divided alike.)
PackNal(len, kind) ==
    LET header == IF kind = "avc" THEN 2 ELSE 3
        part == MaxPayload - header
        n == (len - (header - 1) + part - 1) \div part
    IN  IF len <= MaxPayload THEN <<"single">>
        ELSE [i \in 1..n |-> IF i = 1 THEN "start" ELSE IF i = n THEN "end" ELSE "middle"]

Packets(lens, kind) ==
    LET sent[n \in 0..Len(lens)] == IF n = 0 THEN <<>> ELSE sent[n - 1] \o PackNal(lens[n], kind)
    IN  sent[Len(lens)]

RtpInit ==
    /\ codec \in {"avc", "hevc", "aac"}
    /\ \E s \in Streams : packets = Packets(s, codec)
    /\ gone \in {g \in SUBSET DOMAIN packets : Cardinality(g) <= MaxLost}
    /\ arrived = {}
    /\ first = 0
    /\ twice = 0
    /\ box = [list |-> <<>>, size |-> 0, flag |-> FALSE, seq |-> 0, out |-> <<>>]
    /\ report = [base |-> -1, max |-> -1, cycles |-> 0, received |-> 0]

-----------------------------------------------------------------------------
(* RtpUnpackContainer.                                                     *)

IsStale(b, p) == b.flag /\ CompareSeq(SeqOf(p), b.seq) <= 0

\* the packet goes before the first that is not earlier, unless that is the same
Placed(list, p) ==
    LET Later == {i \in 1..Len(list) : CompareSeq(SeqOf(p), SeqOf(list[i])) <= 0}
        at == IF Later = {} THEN Len(list) + 1 ELSE CHOOSE i \in Later : \A k \in Later : i <= k
        have == Later # {} /\ SeqOf(list[at]) = SeqOf(p)
    IN  IF have THEN list ELSE SubSeq(list, 1, at - 1) \o <<p>> \o SubSeq(list, at, Len(list))

\* insert counts the packet before it looks whether it has it
Insert(b, p) == [b EXCEPT !.size = @ + 1, !.list = Placed(@, p)]

\* the packets at the head of the list that make up a frame: 0, if it does not begin with one
WholeFrame(list) ==
    LET at(i) == packets[list[i]]
        ends == {n \in 2..Len(list) :
            /\ at(1) = "start" /\ at(n) = "end"
            /\ \A i \in 2..n : DiffSeq(SeqOf(list[i]), SeqOf(list[i - 1])) = 1
            /\ \A i \in 2..(n - 1) : at(i) = "middle"}
    IN  IF list = <<>> THEN 0
        ELSE IF at(1) = "single" THEN 1
        ELSE IF ends = {} THEN 0 ELSE CHOOSE n \in ends : TRUE

\* tryUnpackOne, which the unpacker of AAC leaves with one packet too many
UnpackOne(b) ==
    LET n == WholeFrame(b.list)
    IN  [list |-> SubSeq(b.list, n + 1, Len(b.list)),
         size |-> IF codec = "aac" /\ n > 1 THEN b.size - (n - 1) ELSE b.size - n,
         flag |-> TRUE, seq |-> SeqOf(b.list[n]),
         out |-> Append(b.out, SubSeq(b.list, 1, n))]

\* tryUnpackOneSequential goes on from the last frame
Sequential(b) ==
    /\ WholeFrame(b.list) > 0
    /\ b.flag => DiffSeq(SeqOf(Head(b.list)), b.seq) = 1

\* a round of the loop
UnpackNext(b) == IF Sequential(b) THEN UnpackOne(b) ELSE b

\* as many rounds as bring something, which are not more than there are packets
UnpackSequential(b) ==
    LET after[n \in 0..Len(b.list)] == IF n = 0 THEN b ELSE UnpackNext(after[n - 1])
    IN  after[Len(b.list)]

\* mutant of MakeRoom: the oldest packet goes, whether it is a frame or not
MakeRoomBlindly(b) == [b EXCEPT !.list = Tail(@), !.size = @ - 1]

\* with too many packets: a frame at the head is taken across the gap, or the head dropped
MakeRoom(b) ==
    IF WholeFrame(b.list) > 0 THEN UnpackSequential(UnpackOne(b))
    ELSE [b EXCEPT !.list = Tail(@), !.size = @ - 1]

Feed(b, p) ==
    IF IsStale(b, p) THEN b
    ELSE LET inserted == Insert(b, p)
         IN  IF Sequential(inserted) THEN UnpackSequential(inserted)
             ELSE IF inserted.size > MaxSize THEN MakeRoom(inserted)
             ELSE inserted

-----------------------------------------------------------------------------
(* RrProducer.                                                             *)

\* mutant of FeedRtpPacket: a packet that is late begins a new cycle as well
FeedRtpPacketLate(r, p) ==
    [base |-> IF r.base = -1 THEN SeqOf(p) ELSE r.base,
     max |-> SeqOf(p),
     cycles |-> IF SeqOf(p) < r.max THEN r.cycles + 1 ELSE r.cycles,
     received |-> r.received + 1]

FeedRtpPacket(r, p) ==
    LET later == r.max = -1 \/ CompareSeq(SeqOf(p), r.max) > 0
    IN  [base |-> IF r.base = -1 THEN SeqOf(p) ELSE r.base,
         max |-> IF later THEN SeqOf(p) ELSE r.max,
         cycles |-> IF later /\ SeqOf(p) < r.max THEN r.cycles + 1 ELSE r.cycles,
         received |-> r.received + 1]

ExtendedSeq(r) == r.cycles * SeqWord + r.max

\* Produce: lost
Lost(r) ==
    LET expected == ExtendedSeq(r) - r.base + 1
    IN  IF expected < r.received THEN 0 ELSE expected - r.received

-----------------------------------------------------------------------------
\* a packet comes when at most Displace later ones were faster, and perhaps once more
Arrives(p) ==
    /\ \A q \in DOMAIN packets : q < p - Displace => q \in arrived \cup gone
    /\ IF p \in arrived THEN twice < MaxTwice /\ twice' = twice + 1
                        ELSE UNCHANGED twice
    /\ arrived' = arrived \cup {p}
    /\ first' = IF arrived = {} THEN p ELSE first
    /\ box' = Feed(box, p)
    /\ report' = FeedRtpPacket(report, p)
    /\ UNCHANGED <<codec, packets, gone>>

RtpNext == \E p \in DOMAIN packets \ gone : Arrives(p)

RtpSpec == RtpInit /\ [][RtpNext]_rtpVars

-----------------------------------------------------------------------------
(* Properties.                                                             *)

\* the packets of the frame that begins with p
FrameAt(p) ==
    LET ends == {q \in p..Len(packets) : packets[q] \in {"single", "end"}}
    IN  p..(CHOOSE q \in ends : \A r \in ends : q <= r)

Frames == {FrameAt(p) : p \in {q \in DOMAIN packets : packets[q] \in {"single", "start"}}}

AsSet(s) == {s[i] : i \in 1..Len(s)}

\* Whatever is lost, late or doubled, what comes out are frames as they were sent, whole, joined
\* in the order of their packets, and each later than the one before it, also across the turn of
\* the sequence numbers.
FramesInOrder ==
    /\ \A i \in 1..Len(box.out) :
        /\ AsSet(box.out[i]) \in Frames
        /\ \A j \in 2..Len(box.out[i]) : box.out[i][j] = box.out[i][j - 1] + 1
    /\ \A i, j \in 1..Len(box.out) : i < j => Head(box.out[i]) < Head(box.out[j])

\* packets counted by Size that are not in the list
Uncounted == box.size - Len(box.list)

Longest == CHOOSE n \in 0..Len(packets) :
    /\ \A f \in Frames : Cardinality(f) <= n
    /\ \E f \in Frames : Cardinality(f) = n

\* A frame that arrived, after the first one that came out, came out or is in the list: only
\* frames with a packet that was lost are given up, as long as maxSize leaves room for a
\* frame and for the packets that overtake it.  What Size counts too many (duplicates in the
\* list, and one packet for each fragmented AAC frame) is taken off that room for good.
NoFrameGivenUp ==
    box.out # <<>> /\ Longest - 1 + Displace + Uncounted <= MaxSize =>
        \A f \in Frames :
            f \subseteq arrived /\ (\A p \in f : p > Head(box.out[1])) =>
                \/ \E i \in 1..Len(box.out) : f = AsSet(box.out[i])
                \/ f \subseteq AsSet(box.list)

\* The extended sequence number counts on from the first packet that came to the latest one,
\* across turns and with packets that are late; and what is reported as lost is what is
\* missing between them, if nothing came twice or from before the first.
ReportIsRight ==
    \A q \in arrived :
        (\A r \in arrived : r <= q) =>
            /\ ExtendedSeq(report) - report.base = q - first
            /\ twice = 0 /\ (\A r \in arrived : first <= r) =>
                Lost(report) = Cardinality((first..q) \ arrived)
=============================================================================
