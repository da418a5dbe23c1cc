------------------------------ MODULE Connection ------------------------------
(***************************************************************************)
(* The connection that the RTMP sessions write through                     *)
(* (lal/connection/connection.go), with asynchronous sending: Write and    *)
(* Flush put messages on a channel, a goroutine writes them, and close     *)
(* runs once, for whoever comes first: a caller of Close, a reader with an *)
(* error, or the write loop itself.                                        *)
(*                                                                         *)
(* A message is its position among the messages put on the channel; the    *)
(* channel is kept whole with the number of messages received from it.     *)
(***************************************************************************)
EXTENDS Naturals, Sequences

CONSTANTS
    Caller,        \* goroutines that write
    Flusher,       \* those of them that flush
    WriteChanSize, \* capacity of the channel
    NetFails,      \* the network may fail before the connection is closed
    MaxMsg         \* bound: messages put on the channel

ASSUME ConnectionAssumption ==
    /\ Flusher \subseteq Caller
    /\ WriteChanSize \in Nat \ {0}
    /\ NetFails \in BOOLEAN
    /\ MaxMsg \in Nat

VARIABLES
    option,     \* connection.option: block when full, buffered writes, write timeouts
    caller,     \* where each caller is
    flushed,    \* the flush message each caller has put last
    wChan,      \* every message put on the channel: "write" or "flush"
    head,       \* messages the write loop has received
    loop,       \* where the write loop is
    flushDone,  \* messages in flushDoneChan
    exit,       \* messages in exitChan
    buffer,     \* writes that bufio.Writer keeps
    wire,       \* writes that reached the network
    lost,       \* a write or a flush has failed
    close,      \* the next step of close
    closedFlag, \* connection.closedFlag
    open,       \* connection.Conn is not closed
    done        \* messages ever sent on doneChan

callerVars == <<option, caller, flushed>>
loopVars == <<head, loop, flushDone>>
dataVars == <<buffer, wire, lost>>
closeVars == <<exit, close, closedFlag, open, done>>
vars == <<callerVars, wChan, loopVars, dataVars, closeVars>>

Init ==
    /\ option \in [block : BOOLEAN, buffered : BOOLEAN, timeout : BOOLEAN]
    /\ caller = [c \in Caller |-> "idle"]
    /\ flushed = [c \in Caller |-> 0]
    /\ wChan = <<>>
    /\ head = 0
    /\ loop = "select"
    /\ flushDone = 0
    /\ exit = 0
    /\ buffer = <<>>
    /\ wire = <<>>
    /\ lost = FALSE
    /\ close = "none"
    /\ closedFlag = FALSE
    /\ open = TRUE
    /\ done = 0

-----------------------------------------------------------------------------
(* Write and Flush.                                                        *)

Goto(c, pc) == caller' = [caller EXCEPT ![c] = pc]

\* Write tests closedFlag first; a call on a closed connection changes nothing
Write(c) ==
    /\ caller[c] = "idle" /\ ~closedFlag /\ Len(wChan) < MaxMsg
    /\ Goto(c, "write")
    /\ UNCHANGED <<option, flushed, wChan, loopVars, dataVars, closeVars>>

Flush(c) ==
    /\ c \in Flusher
    /\ caller[c] = "idle" /\ ~closedFlag /\ Len(wChan) < MaxMsg
    /\ Goto(c, "flush")
    /\ UNCHANGED <<option, flushed, wChan, loopVars, dataVars, closeVars>>

Full == Len(wChan) - head = WriteChanSize

Put(c) ==
    /\ caller[c] = "write" /\ ~Full
    /\ wChan' = Append(wChan, "write")
    /\ Goto(c, "idle")
    /\ UNCHANGED <<option, flushed, loopVars, dataVars, closeVars>>

\* mutant of PutFails: a full channel loses its oldest message to the new one
PutDropsOldest(c) ==
    /\ caller[c] = "write" /\ Full /\ ~option.block
    /\ head' = head + 1
    /\ wChan' = Append(wChan, "write")
    /\ Goto(c, "idle")
    /\ UNCHANGED <<option, flushed, loop, flushDone, dataVars, closeVars>>

\* ErrWriteChanFull; with the other behaviour the caller waits
PutFails(c) ==
    /\ caller[c] = "write" /\ Full /\ ~option.block
    /\ Goto(c, "idle")
    /\ UNCHANGED <<option, flushed, wChan, loopVars, dataVars, closeVars>>

PutFlush(c) ==
    /\ caller[c] = "flush" /\ ~Full
    /\ wChan' = Append(wChan, "flush")
    /\ flushed' = [flushed EXCEPT ![c] = Len(wChan) + 1]
    /\ Goto(c, "await")
    /\ UNCHANGED <<option, loopVars, dataVars, closeVars>>

FlushReturns(c) ==
    /\ caller[c] = "await" /\ flushDone > 0
    /\ flushDone' = flushDone - 1
    /\ Goto(c, "idle")
    /\ UNCHANGED <<option, flushed, wChan, head, loop, dataVars, closeVars>>

-----------------------------------------------------------------------------
(* runWriteLoop.                                                           *)

\* the select: either message, if there are both
LoopReceives ==
    /\ loop = "select" /\ head < Len(wChan)
    /\ head' = head + 1
    /\ loop' = wChan[head + 1]
    /\ UNCHANGED <<callerVars, wChan, flushDone, dataVars, closeVars>>

LoopExits ==
    /\ loop = "select" /\ exit > 0
    /\ exit' = exit - 1
    /\ loop' = "ended"
    /\ UNCHANGED <<callerVars, wChan, head, flushDone, dataVars, close, closedFlag, open, done>>

\* setting the deadline of a write fails on a closed connection
DeadlineSet == option.timeout => open

\* write: to the network, or to the buffer, which is first written out when it is full
LoopWrites ==
    /\ loop = "write" /\ DeadlineSet
    /\ loop' = "select"
    /\ \/ /\ ~option.buffered /\ open
          /\ wire' = Append(wire, head)
          /\ UNCHANGED buffer
       \/ /\ option.buffered
          /\ buffer' = Append(buffer, head)
          /\ UNCHANGED wire
       \/ /\ option.buffered /\ open
          /\ wire' = wire \o buffer
          /\ buffer' = <<head>>
    /\ UNCHANGED <<callerVars, wChan, head, flushDone, lost, closeVars>>

\* mutant of LoopFlushes: with nothing in the buffer there is nothing to signal
LoopFlushesIfAny ==
    /\ loop = "flush"
    /\ option.buffered => DeadlineSet /\ (open \/ buffer = <<>>)
    /\ wire' = wire \o buffer
    /\ buffer' = <<>>
    /\ loop' = IF buffer = <<>> THEN "select" ELSE "signal"
    /\ UNCHANGED <<callerVars, wChan, head, flushDone, lost, closeVars>>

\* mutant of LoopFlushes: who waits is told, and the buffer is left as it is
LoopFlushesNothing ==
    /\ loop = "flush"
    /\ loop' = "signal"
    /\ UNCHANGED <<callerVars, wChan, head, flushDone, dataVars, closeVars>>

\* flush: write the buffer out, if there is one
LoopFlushes ==
    /\ loop = "flush"
    /\ option.buffered => DeadlineSet /\ (open \/ buffer = <<>>)
    /\ wire' = wire \o buffer
    /\ buffer' = <<>>
    /\ loop' = "signal"
    /\ UNCHANGED <<callerVars, wChan, head, flushDone, lost, closeVars>>

\* an error: the loop calls close, and waits for it if somebody else is closing
LoopFails ==
    /\ \/ loop = "write" /\ (~open \/ NetFails)
       \/ loop = "flush" /\ buffer # <<>> /\ (~open \/ NetFails)
       \/ loop = "flush" /\ option.buffered /\ ~DeadlineSet
    /\ lost' = TRUE
    /\ loop' = IF loop = "write" THEN "closing" ELSE "closingFlush"
    /\ close' = IF close = "none" THEN "flag" ELSE close
    /\ UNCHANGED <<callerVars, wChan, head, flushDone, buffer, wire, exit, closedFlag, open, done>>

LoopClosed ==
    /\ loop \in {"closing", "closingFlush"} /\ close = "done"
    /\ loop' = IF loop = "closing" THEN "ended" ELSE "signalLast"
    /\ UNCHANGED <<callerVars, wChan, head, flushDone, dataVars, closeVars>>

LoopSignals ==
    /\ loop \in {"signal", "signalLast"} /\ flushDone = 0
    /\ flushDone' = 1
    /\ loop' = IF loop = "signal" THEN "select" ELSE "ended"
    /\ UNCHANGED <<callerVars, wChan, head, dataVars, closeVars>>

-----------------------------------------------------------------------------
(* close, by its sync.Once.                                                *)

\* Close, or a read error; whoever comes later has nothing to do
Close ==
    /\ close = "none"
    /\ close' = "flag"
    /\ UNCHANGED <<callerVars, wChan, loopVars, dataVars, exit, closedFlag, open, done>>

CloseFlag ==
    /\ close = "flag"
    /\ close' = "exit"
    /\ closedFlag' = TRUE
    /\ UNCHANGED <<callerVars, wChan, loopVars, dataVars, exit, open, done>>

\* mutant of CloseExit: the write loop is left to the closed Conn
CloseNoExit ==
    /\ close = "exit"
    /\ close' = "conn"
    /\ UNCHANGED <<callerVars, wChan, loopVars, dataVars, exit, closedFlag, open, done>>

CloseExit ==
    /\ close = "exit" /\ exit = 0
    /\ close' = "conn"
    /\ exit' = exit + 1
    /\ UNCHANGED <<callerVars, wChan, loopVars, dataVars, closedFlag, open, done>>

\* mutant of CloseConn: the message is sent first
CloseConnLast ==
    /\ close \in {"conn", "send"}
    /\ IF close = "conn" THEN done' = done + 1 /\ UNCHANGED open
                         ELSE open' = FALSE /\ UNCHANGED done
    /\ close' = IF close = "conn" THEN "send" ELSE "done"
    /\ UNCHANGED <<callerVars, wChan, loopVars, dataVars, exit, closedFlag>>

CloseConn ==
    /\ close = "conn"
    /\ close' = "send"
    /\ open' = FALSE
    /\ UNCHANGED <<callerVars, wChan, loopVars, dataVars, exit, closedFlag, done>>

CloseSend ==
    /\ close = "send" /\ done = 0
    /\ close' = "done"
    /\ done' = done + 1
    /\ UNCHANGED <<callerVars, wChan, loopVars, dataVars, exit, closedFlag, open>>

-----------------------------------------------------------------------------
CallerGoesOn(c) == Put(c) \/ PutFails(c) \/ PutFlush(c) \/ FlushReturns(c)

LoopStep ==
    LoopReceives \/ LoopWrites \/ LoopFlushes \/ LoopFails \/ LoopClosed \/ LoopSignals

Closing == CloseFlag \/ CloseExit \/ CloseConn \/ CloseSend

Next ==
    \/ \E c \in Caller : Write(c) \/ Flush(c) \/ CallerGoesOn(c)
    \/ LoopStep \/ LoopExits
    \/ Close \/ Closing

Spec == Init /\ [][Next]_vars

\* Goroutines go on; a select that finds exitChan ready again and again takes it, and so
\* does a sender that finds room; nobody has to write, to flush or to close.
Fairness ==
    /\ \A c \in Caller : SF_vars(CallerGoesOn(c))
    /\ WF_vars(LoopStep)
    /\ SF_vars(LoopExits)
    /\ WF_vars(Closing)

FairSpec == Spec /\ Fairness

-----------------------------------------------------------------------------
(* Properties.                                                             *)

ClosePc == {"none", "flag", "exit", "conn", "send", "done"}

\* Every variable stays in its type, and the channels within their capacities.
TypeOK ==
    /\ option \in [block : BOOLEAN, buffered : BOOLEAN, timeout : BOOLEAN]
    /\ caller \in [Caller -> {"idle", "write", "flush", "await"}]
    /\ flushed \in [Caller -> 0..Len(wChan)]
    /\ wChan \in Seq({"write", "flush"})
    /\ head \in 0..Len(wChan) /\ Len(wChan) - head <= WriteChanSize
    /\ loop \in {"select", "write", "flush", "signal", "closing", "closingFlush", "signalLast", "ended"}
    /\ flushDone \in 0..1 /\ exit \in 0..1 /\ done \in 0..1
    /\ buffer \in Seq(Nat) /\ wire \in Seq(Nat)
    /\ lost \in BOOLEAN /\ closedFlag \in BOOLEAN /\ open \in BOOLEAN
    /\ close \in ClosePc

IsWrite(n) == wChan[n] = "write"

\* messages the loop has dealt with
Handled == IF loop = "write" THEN head - 1 ELSE head

Sent == wire \o buffer

OnWire(n) == \E i \in 1..Len(wire) : wire[i] = n

\* What reached the network, and then the buffer, is what was written, in the order of the
\* calls, and as long as nothing failed without a hole: however many goroutines write,
\* whatever the channel refuses and whenever a flush or a spill comes.
SentInOrder ==
    /\ \A i \in 1..Len(Sent) : Sent[i] \in 1..Handled /\ IsWrite(Sent[i])
    /\ \A i, j \in 1..Len(Sent) : i < j => Sent[i] < Sent[j]
    /\ ~lost => \A n \in 1..Handled : IsWrite(n) => \E i \in 1..Len(Sent) : Sent[i] = n

\* connection.go lines 57-58: Flush blocks until what is in the channel has been sent.  So when it
\* returns on a connection that has not failed, everything put before it is on the wire.
\* (With one goroutine that flushes.  Of two, one can take the other's signal.)
FlushMeansSent ==
    [][\A c \in Caller : caller[c] = "await" /\ caller'[c] = "idle" /\ ~lost =>
        \A n \in 1..flushed[c] : IsWrite(n) => OnWire(n)]_vars

\* connection.go lines 64 and 433: when the message of Done is sent the connection is closed,
\* so nothing is written after it, although a write may have begun before.
NothingAfterDone == [][done = 1 => UNCHANGED wire]_vars

\* close ends the write loop, in whatever step it is and with whatever is in the channel.
LoopEnds == closedFlag ~> loop = "ended"

\* A goroutine that writes or flushes goes on while the connection is not being closed.
CallersGoOn ==
    \A c \in Caller :
        /\ caller[c] \in {"write", "flush"} ~> caller[c] \notin {"write", "flush"} \/ close # "none"
        /\ caller[c] = "await" ~> caller[c] # "await" \/ close # "none"

-----------------------------------------------------------------------------
(* Why the properties hold: invariants that no single step can break.      *)

\* what the loop works on is what it received, and only a bufio.Writer keeps anything
LoopInv ==
    /\ loop \in {"write", "flush"} => head > 0 /\ wChan[head] = loop
    /\ ~option.buffered => buffer = <<>>

\* the steps of close
CloseInv ==
    /\ close \in {"send", "done"} => ~open
    /\ done = 1 => close = "done"

\* a flush that was put is not dealt with
Pending(n) == n \in 1..Len(wChan) /\ wChan[n] = "flush" /\ (n > head \/ (n = head /\ loop = "flush"))

\* a flush was dealt with, and its caller has not been told
Signalled == flushDone = 1 \/ loop \in {"signal", "closingFlush", "signalLast"}

\* each flush is awaited by who put it, and a signal is for the flush that is awaited
FlushInv ==
    /\ \A c \in Caller : caller[c] \in {"flush", "await"} => c \in Flusher
    /\ \A n \in 1..Len(wChan) : Pending(n) => \E c \in Flusher : caller[c] = "await" /\ flushed[c] = n
    /\ Signalled => \E c \in Flusher : caller[c] = "await" /\ flushed[c] <= head /\ ~Pending(flushed[c])
    /\ loop \in {"signal", "closingFlush", "signalLast"} => flushDone = 0
    /\ loop \in {"closing", "closingFlush", "signalLast"} => lost
    /\ Signalled /\ ~lost => \A c \in Flusher : \A n \in 1..flushed[c] :
            caller[c] = "await" /\ IsWrite(n) => OnWire(n)
=============================================================================
