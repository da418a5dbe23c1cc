----------------------------- MODULE MCMediaIo -----------------------------
\* Small instances of Connection, RtmpChunks and RtpReceive.
EXTENDS MediaIo

\* NALs of one packet, of two and of three, at the start, in the middle and at the end
MCStreams == {<<1, 8, 1, 1, 6, 1>>, <<6, 8, 6>>}
=============================================================================
