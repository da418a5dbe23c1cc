----------------------------- MODULE MediaIoProofs -----------------------------
(***************************************************************************)
(* Proofs about the layers of MediaIo, and that they hold of them together.*)
(*                                                                         *)
(* Connection: for any number of goroutines, any capacity of the channel   *)
(* and any number of messages.  What Flush means is proved for one         *)
(* goroutine that flushes: of two, one can take the other's signal.        *)
(*                                                                         *)
(* RtmpChunks: for any chunk streams, lengths, chunk sizes and timestamps. *)
(*                                                                         *)
(* What is proved of RtpReceive is in RtpReceiveProofs.                    *)
(***************************************************************************)
EXTENDS MediaIo, RtpReceiveProofs

-----------------------------------------------------------------------------
(* The connection: types.                                                  *)

LEMMA InitTypes == Init => TypeOK
<1> SUFFICES ASSUME Init
             PROVE  TypeOK
  OBVIOUS
<1>1. option \in [block : BOOLEAN, buffered : BOOLEAN, timeout : BOOLEAN]
  BY DEF Init
<1>2. /\ wChan \in Seq({"write", "flush"}) /\ Len(wChan) = 0 /\ head \in 0..Len(wChan)
      /\ Len(wChan) - head <= WriteChanSize
      /\ buffer \in Seq(Nat) /\ wire \in Seq(Nat)
  BY ConnectionAssumption DEF Init
<1>3. /\ caller \in [Caller -> {"idle", "write", "flush", "await"}]
      /\ flushed \in [Caller -> 0..Len(wChan)]
  BY <1>2 DEF Init
<1>4. /\ loop = "select" /\ flushDone = 0 /\ exit = 0 /\ done = 0 /\ close = "none"
      /\ lost \in BOOLEAN /\ closedFlag \in BOOLEAN /\ open \in BOOLEAN
  BY DEF Init
<1>5. QED
  BY <1>1, <1>2, <1>3, <1>4 DEF TypeOK, ClosePc

\* A step of a goroutine that writes or flushes keeps the types.
LEMMA CallerTypes ==
    ASSUME TypeOK, NEW c \in Caller, Write(c) \/ Flush(c) \/ CallerGoesOn(c)
    PROVE  TypeOK'
<1> USE ConnectionAssumption DEF TypeOK, ClosePc, Goto, loopVars, dataVars, closeVars
<1>1. CASE Write(c) \/ Flush(c) \/ PutFails(c)
  BY <1>1 DEF Write, Flush, PutFails
<1>0. CASE FlushReturns(c)
  BY <1>0 DEF FlushReturns
<1>2. CASE Put(c)
  <2>1. /\ wChan' \in Seq({"write", "flush"}) /\ Len(wChan') = Len(wChan) + 1
        /\ head' \in 0..Len(wChan') /\ Len(wChan') - head' <= WriteChanSize
    BY <1>2 DEF Put, Full
  <2>2. flushed' \in [Caller -> 0..Len(wChan')]
    BY <1>2, <2>1 DEF Put
  <2>3. QED
    BY <1>2, <2>1, <2>2 DEF Put
<1>3. CASE PutFlush(c)
  <2>1. /\ wChan' \in Seq({"write", "flush"}) /\ Len(wChan') = Len(wChan) + 1
        /\ head' \in 0..Len(wChan') /\ Len(wChan') - head' <= WriteChanSize
    BY <1>3 DEF PutFlush, Full
  <2>2. flushed' \in [Caller -> 0..Len(wChan')]
    BY <1>3, <2>1 DEF PutFlush
  <2>3. QED
    BY <1>3, <2>1, <2>2 DEF PutFlush
<1>4. QED
  BY <1>0, <1>1, <1>2, <1>3 DEF CallerGoesOn

\* A step of the write loop keeps the types.
LEMMA LoopTypes ==
    ASSUME TypeOK, LoopStep \/ LoopExits
    PROVE  TypeOK'
<1> USE ConnectionAssumption DEF TypeOK, ClosePc, callerVars, dataVars, closeVars
<1>1. CASE LoopReceives
  <2>1. head + 1 \in 1..Len(wChan) /\ wChan[head + 1] \in {"write", "flush"}
    BY <1>1 DEF LoopReceives
  <2>2. QED
    BY <1>1, <2>1 DEF LoopReceives
<1>2. CASE LoopWrites
  <2>1. head \in Nat /\ Append(wire, head) \in Seq(Nat) /\ Append(buffer, head) \in Seq(Nat)
    OBVIOUS
  <2>2. <<head>> \in Seq(Nat) /\ wire \o buffer \in Seq(Nat)
    OBVIOUS
  <2>3. wire' \in Seq(Nat) /\ buffer' \in Seq(Nat)
    <3>1. \/ wire' = Append(wire, head) /\ buffer' = buffer
          \/ wire' = wire /\ buffer' = Append(buffer, head)
          \/ wire' = wire \o buffer /\ buffer' = <<head>>
      BY <1>2 DEF LoopWrites
    <3>2. QED
      BY <2>1, <2>2, <3>1
  <2>4. loop' = "select" /\ UNCHANGED <<callerVars, wChan, head, flushDone, lost, closeVars>>
    BY <1>2 DEF LoopWrites
  <2>5. QED
    BY <2>3, <2>4
<1>3. CASE LoopFlushes
  BY <1>3 DEF LoopFlushes
<1>4. CASE LoopFails
  BY <1>4 DEF LoopFails
<1>5. CASE LoopClosed \/ LoopSignals \/ LoopExits
  BY <1>5 DEF LoopClosed, LoopSignals, LoopExits
<1>6. QED
  BY <1>1, <1>2, <1>3, <1>4, <1>5 DEF LoopStep

\* A step of close keeps the types.
LEMMA CloseTypes ==
    ASSUME TypeOK, Close \/ Closing
    PROVE  TypeOK'
<1> USE DEF TypeOK, ClosePc, callerVars, loopVars, dataVars
<1>1. CASE Close \/ CloseFlag \/ CloseConn
  BY <1>1 DEF Close, CloseFlag, CloseConn
<1>2. CASE CloseExit
  BY <1>2 DEF CloseExit
<1>3. CASE CloseSend
  BY <1>3 DEF CloseSend
<1>4. QED
  BY <1>1, <1>2, <1>3 DEF Closing

LEMMA StepTypes == TypeOK /\ [Next]_vars => TypeOK'
<1> SUFFICES ASSUME TypeOK, [Next]_vars
             PROVE  TypeOK'
  OBVIOUS
<1>1. CASE UNCHANGED vars
  BY <1>1 DEF TypeOK, vars, callerVars, loopVars, dataVars, closeVars
<1>2. CASE Next
  BY <1>2, CallerTypes, LoopTypes, CloseTypes DEF Next
<1>3. QED
  BY <1>1, <1>2

\* Every variable stays in its type and neither channel holds more than its capacity, whatever
\* the capacity of the channel of messages: TypeOK.
THEOREM TypeCorrect == Spec => []TypeOK
  BY InitTypes, StepTypes, PTL DEF Spec

-----------------------------------------------------------------------------
(* The write loop and close.                                               *)

LEMMA StepLoopInv == TypeOK /\ LoopInv /\ [Next]_vars => LoopInv'
<1> SUFFICES ASSUME TypeOK, LoopInv, [Next]_vars
             PROVE  LoopInv'
  OBVIOUS
<1> USE DEF TypeOK, LoopInv
<1>1. CASE UNCHANGED vars
  BY <1>1 DEF vars, callerVars, loopVars, dataVars, closeVars
<1>2. ASSUME NEW c \in Caller, Write(c) \/ Flush(c) \/ CallerGoesOn(c)
      PROVE  LoopInv'
  <2>1. \A n \in 1..Len(wChan) : wChan'[n] = wChan[n]
    BY <1>2 DEF Write, Flush, CallerGoesOn, Put, PutFails, PutFlush, FlushReturns
  <2>2. UNCHANGED <<option, head, loop, buffer>>
    BY <1>2 DEF Write, Flush, CallerGoesOn, Put, PutFails, PutFlush, FlushReturns,
                loopVars, dataVars
  <2>3. QED
    BY <2>1, <2>2
<1>3. CASE LoopStep \/ LoopExits
  BY <1>3 DEF LoopStep, LoopReceives, LoopWrites, LoopFlushes, LoopFails, LoopClosed, LoopSignals,
              LoopExits, callerVars, dataVars, closeVars
<1>4. CASE Close \/ Closing
  BY <1>4 DEF Close, Closing, CloseFlag, CloseExit, CloseConn, CloseSend,
              callerVars, loopVars, dataVars
<1>5. QED
  BY <1>1, <1>2, <1>3, <1>4 DEF Next

LEMMA StepCloseInv == TypeOK /\ CloseInv /\ [Next]_vars => CloseInv'
<1> SUFFICES ASSUME TypeOK, CloseInv, [Next]_vars
             PROVE  CloseInv'
  OBVIOUS
<1> USE DEF TypeOK, CloseInv
<1>1. CASE UNCHANGED vars
  BY <1>1 DEF vars, closeVars
<1>2. ASSUME NEW c \in Caller, Write(c) \/ Flush(c) \/ CallerGoesOn(c)
      PROVE  CloseInv'
  BY <1>2 DEF Write, Flush, CallerGoesOn, Put, PutFails, PutFlush, FlushReturns, closeVars
<1>3. CASE LoopStep \/ LoopExits
  BY <1>3 DEF LoopStep, LoopReceives, LoopWrites, LoopFlushes, LoopFails, LoopClosed, LoopSignals,
              LoopExits, closeVars
<1>4. CASE Close \/ Closing
  BY <1>4 DEF Close, Closing, CloseFlag, CloseExit, CloseConn, CloseSend
<1>5. QED
  BY <1>1, <1>2, <1>3, <1>4 DEF Next

\* With the message of Done sent the connection is closed, and only an open one is written to.
LEMMA DoneIsLast ==
    ASSUME TypeOK, LoopInv, CloseInv, [Next]_vars, done = 1
    PROVE  UNCHANGED wire
<1>1. ~open
  BY DEF CloseInv
<1>2. CASE LoopWrites
  BY <1>1, <1>2 DEF LoopWrites
<1>3. CASE LoopFlushes
  <2>1. buffer = <<>>
    BY <1>1, <1>3 DEF LoopFlushes, LoopInv, TypeOK
  <2>2. wire \o <<>> = wire
    BY DEF TypeOK
  <2>3. QED
    BY <1>3, <2>1, <2>2 DEF LoopFlushes
<1>4. CASE ~LoopWrites /\ ~LoopFlushes
  BY <1>4 DEF vars, Next, Write, Flush, CallerGoesOn, Put, PutFails, PutFlush, FlushReturns,
              LoopStep, LoopReceives, LoopFails, LoopClosed, LoopSignals, LoopExits,
              Close, Closing, CloseFlag, CloseExit, CloseConn, CloseSend, dataVars
<1>5. QED
  BY <1>2, <1>3, <1>4

\* Nothing reaches the network once the message of Done was sent, whoever closed and whatever
\* the write loop was doing (connection.go lines 426-439): NothingAfterDone.
THEOREM NothingSentAfterDone == Spec => NothingAfterDone
<1>1. Init => TypeOK /\ LoopInv /\ CloseInv
  BY InitTypes DEF Init, LoopInv, CloseInv
<1>2. TypeOK /\ LoopInv /\ CloseInv /\ [Next]_vars => (TypeOK /\ LoopInv /\ CloseInv)'
  BY StepTypes, StepLoopInv, StepCloseInv
<1>3. TypeOK /\ LoopInv /\ CloseInv /\ [Next]_vars => [done = 1 => UNCHANGED wire]_vars
  BY DoneIsLast
<1>4. QED
  BY <1>1, <1>2, <1>3, PTL DEF Spec, NothingAfterDone

-----------------------------------------------------------------------------
(* What is sent.                                                           *)

\* What the invariant speaks of is known: the loop handled messages that were put.
LEMMA HandledWasPut ==
    ASSUME TypeOK, LoopInv
    PROVE  Handled \in 0..Len(wChan) /\ Sent \in Seq(Nat)
  BY DEF TypeOK, LoopInv, Handled, Sent

\* A step that sends nothing, and deals with nothing that is to be sent unless it fails.
LEMMA NothingSent ==
    ASSUME TypeOK, LoopInv, SentInOrder, Sent' = Sent, lost => lost',
           Handled' \in Nat, Handled <= Handled',
           \A n \in 1..Len(wChan) : wChan'[n] = wChan[n],
           ~lost' => \A n \in (Handled + 1)..Handled' : wChan'[n] # "write"
    PROVE  SentInOrder'
<1>1. Handled \in 0..Len(wChan) /\ Sent \in Seq(Nat)
  BY HandledWasPut
<1>2. \A n \in 1..Handled : IsWrite(n)' <=> IsWrite(n)
  BY <1>1 DEF IsWrite
<1>3. \A i \in 1..Len(Sent') : Sent'[i] \in 1..Handled' /\ IsWrite(Sent[i])'
  BY <1>1, <1>2 DEF SentInOrder
<1>4. \A i, j \in 1..Len(Sent') : i < j => Sent'[i] < Sent'[j]
  BY DEF SentInOrder
<1>5. ASSUME ~lost', NEW n \in 1..Handled', IsWrite(n)'
      PROVE  \E i \in 1..Len(Sent') : Sent'[i] = n
  <2>1. n \in 1..Handled
    BY <1>1, <1>5 DEF IsWrite
  <2>2. IsWrite(n) /\ ~lost
    BY <1>2, <1>5, <2>1
  <2>3. QED
    BY <2>1, <2>2 DEF SentInOrder
<1>6. QED
  BY <1>3, <1>4, <1>5 DEF SentInOrder, IsWrite

\* The step of the loop that sends a message, to the network or to the buffer.
LEMMA OneSent ==
    ASSUME TypeOK, LoopInv, SentInOrder, LoopWrites
    PROVE  SentInOrder'
<1>1. Handled \in 0..Len(wChan) /\ Sent \in Seq(Nat)
  BY HandledWasPut
<1>2. /\ head \in 1..Len(wChan) /\ IsWrite(head) /\ Handled = head - 1 /\ Handled' = head
      /\ UNCHANGED <<wChan, head, lost>>
  BY DEF LoopWrites, LoopInv, TypeOK, Handled, IsWrite
<1>3. Sent' = Append(Sent, head)
  <2>1. \/ option.buffered = FALSE /\ wire' = Append(wire, head) /\ buffer' = buffer
        \/ wire' = wire /\ buffer' = Append(buffer, head)
        \/ wire' = wire \o buffer /\ buffer' = <<head>>
    BY DEF LoopWrites
  <2>2. wire \in Seq(Nat) /\ buffer \in Seq(Nat) /\ head \in Nat
    BY DEF TypeOK
  <2>3. CASE option.buffered = FALSE /\ wire' = Append(wire, head) /\ buffer' = buffer
    <3>1. buffer = <<>>
      BY <2>3 DEF LoopInv
    <3>2. wire \o <<>> = wire /\ Append(wire, head) \o <<>> = Append(wire, head)
      BY <2>2
    <3>3. QED
      BY <2>3, <3>1, <3>2 DEF Sent
  <2>4. CASE wire' = wire /\ buffer' = Append(buffer, head)
    <3>1. wire \o Append(buffer, head) = Append(wire \o buffer, head)
      BY <2>2
    <3>2. QED
      BY <2>4, <3>1 DEF Sent
  <2>5. CASE wire' = wire \o buffer /\ buffer' = <<head>>
    <3>1. (wire \o buffer) \o <<head>> = Append(wire \o buffer, head)
      BY <2>2
    <3>2. QED
      BY <2>5, <3>1 DEF Sent
  <2>6. QED
    BY <2>1, <2>3, <2>4, <2>5
<1>4. /\ Len(Sent') = Len(Sent) + 1 /\ Sent'[Len(Sent) + 1] = head
      /\ \A i \in 1..Len(Sent) : Sent'[i] = Sent[i]
  BY <1>1, <1>2, <1>3
<1>5. \A i \in 1..Len(Sent) : Sent[i] \in 1..(head - 1) /\ IsWrite(Sent[i])
  BY <1>2 DEF SentInOrder
<1>6. \A n \in Nat : IsWrite(n)' <=> IsWrite(n)
  BY <1>2 DEF IsWrite
<1>0. Len(Sent) \in Nat /\ head \in Nat
  BY <1>1 DEF TypeOK
<1>7. \A i \in 1..Len(Sent') : Sent'[i] \in 1..Handled' /\ wChan'[Sent'[i]] = "write"
  <2> SUFFICES ASSUME NEW i \in 1..Len(Sent')
               PROVE  Sent'[i] \in 1..Handled' /\ wChan'[Sent'[i]] = "write"
    OBVIOUS
  <2>1. CASE i = Len(Sent) + 1
    BY <1>0, <1>2, <1>4, <2>1 DEF IsWrite
  <2>2. CASE i # Len(Sent) + 1
    <3>1. i \in 1..Len(Sent)
      BY <1>0, <1>4, <2>2
    <3>2. Sent'[i] \in 1..(head - 1) /\ IsWrite(Sent'[i])
      BY <1>4, <1>5, <3>1
    <3>3. QED
      BY <1>0, <1>2, <3>2 DEF IsWrite
  <2>3. QED
    BY <2>1, <2>2
<1>8. \A i, j \in 1..Len(Sent') : i < j => Sent'[i] < Sent'[j]
  <2> SUFFICES ASSUME NEW i \in 1..Len(Sent'), NEW j \in 1..Len(Sent'), i < j
               PROVE  Sent'[i] < Sent'[j]
    OBVIOUS
  <2>1. CASE j = Len(Sent) + 1
    <3>1. i \in 1..Len(Sent) /\ Sent'[j] = head
      BY <1>0, <1>4, <2>1
    <3>2. Sent'[i] \in 1..(head - 1)
      BY <1>4, <1>5, <3>1
    <3>3. QED
      BY <1>0, <3>1, <3>2
  <2>2. CASE j # Len(Sent) + 1
    <3>1. i \in 1..Len(Sent) /\ j \in 1..Len(Sent)
      BY <1>0, <1>4, <2>2
    <3>2. Sent[i] < Sent[j] /\ Sent'[i] = Sent[i] /\ Sent'[j] = Sent[j]
      BY <1>4, <3>1 DEF SentInOrder
    <3>3. QED
      BY <3>2
  <2>3. QED
    BY <2>1, <2>2
<1>9. ASSUME ~lost', NEW n \in 1..Handled', wChan'[n] = "write"
      PROVE  \E i \in 1..Len(Sent') : Sent'[i] = n
  <2>1. CASE n = head
    BY <1>1, <1>4, <2>1
  <2>2. CASE n # head
    <3>1. n \in 1..Handled /\ IsWrite(n) /\ ~lost
      BY <1>2, <1>9, <2>2 DEF IsWrite
    <3>2. PICK i \in 1..Len(Sent) : Sent[i] = n
      BY <3>1 DEF SentInOrder
    <3>3. QED
      BY <1>1, <1>4, <3>2
  <2>3. QED
    BY <2>1, <2>2
<1>10. QED
  BY <1>7, <1>8, <1>9 DEF SentInOrder, IsWrite

LEMMA StepSent == TypeOK /\ LoopInv /\ SentInOrder /\ [Next]_vars => SentInOrder'
<1> SUFFICES ASSUME TypeOK, LoopInv, SentInOrder, [Next]_vars
             PROVE  SentInOrder'
  OBVIOUS
<1>1. Handled \in 0..Len(wChan) /\ Sent \in Seq(Nat)
  BY HandledWasPut
<1>2. ASSUME UNCHANGED <<head, loop, buffer, wire, lost>>,
             \A n \in 1..Len(wChan) : wChan'[n] = wChan[n]
      PROVE  SentInOrder'
  <2>1. Handled' = Handled /\ Sent' = Sent
    BY <1>2 DEF Handled, Sent
  <2>2. QED
    BY <1>1, <1>2, <2>1, NothingSent
<1>3. CASE UNCHANGED vars
  BY <1>2, <1>3 DEF vars, loopVars, dataVars
<1>4. ASSUME NEW c \in Caller, Write(c) \/ Flush(c) \/ CallerGoesOn(c)
      PROVE  SentInOrder'
  <2>1. \A n \in 1..Len(wChan) : wChan'[n] = wChan[n]
    <3>1. \/ wChan' = wChan \/ wChan' = Append(wChan, "write") \/ wChan' = Append(wChan, "flush")
      BY <1>4 DEF Write, Flush, CallerGoesOn, Put, PutFails, PutFlush, FlushReturns, Goto
    <3>2. wChan \in Seq({"write", "flush"})
      BY DEF TypeOK
    <3>3. \A n \in 1..Len(wChan) : /\ Append(wChan, "write")[n] = wChan[n]
                                   /\ Append(wChan, "flush")[n] = wChan[n]
      BY <3>2
    <3>4. QED
      BY <3>1, <3>3
  <2>2. UNCHANGED <<head, loop, buffer, wire, lost>>
    BY <1>4 DEF Write, Flush, CallerGoesOn, Put, PutFails, PutFlush, FlushReturns,
                loopVars, dataVars
  <2>3. QED
    BY <1>2, <2>1, <2>2
<1>5. CASE LoopReceives
  <2>1. /\ head \in 0..Len(wChan) /\ Handled = head /\ Sent' = Sent
        /\ Handled' = (IF wChan[head + 1] = "write" THEN head ELSE head + 1)
        /\ UNCHANGED <<wChan, lost>>
    BY <1>5 DEF LoopReceives, Handled, Sent, TypeOK, dataVars
  <2>2. QED
    BY <2>1, NothingSent
<1>6. CASE LoopWrites
  BY <1>6, OneSent
<1>7. CASE LoopFlushes
  <2>1. wire \in Seq(Nat) /\ buffer \in Seq(Nat)
    BY DEF TypeOK
  <2>2. (wire \o buffer) \o <<>> = wire \o buffer
    BY <2>1
  <2>3. Sent' = Sent /\ Handled' = Handled /\ UNCHANGED <<wChan, lost>>
    BY <1>7, <2>2 DEF LoopFlushes, Sent, Handled
  <2>4. QED
    BY <1>1, <2>3, NothingSent
<1>8. CASE LoopFails
  <2>1. Sent' = Sent /\ lost' /\ UNCHANGED wChan
    BY <1>8 DEF LoopFails, Sent
  <2>2. Handled' \in Nat /\ Handled <= Handled'
    BY <1>1, <1>8 DEF LoopFails, Handled, TypeOK
  <2>3. QED
    BY <2>1, <2>2, NothingSent
<1>9. CASE LoopClosed \/ LoopSignals \/ LoopExits
  <2>1. Sent' = Sent /\ Handled' = Handled /\ UNCHANGED <<wChan, lost>>
    BY <1>9 DEF LoopClosed, LoopSignals, LoopExits, Sent, Handled, dataVars
  <2>2. QED
    BY <1>1, <2>1, NothingSent
<1>10. CASE Close \/ Closing
  BY <1>2, <1>10 DEF Close, Closing, CloseFlag, CloseExit, CloseConn, CloseSend, loopVars, dataVars
<1>11. QED
  BY <1>3, <1>4, <1>5, <1>6, <1>7, <1>8, <1>9, <1>10 DEF Next, LoopStep

\* However many goroutines write, whatever the capacity of the channel and of the buffer, what is
\* sent is what was written, in the order of the calls and without a hole before the first
\* failure (connection.go lines 286-424): SentInOrder.
THEOREM SendsInOrder == Spec => []SentInOrder
<1>1. Init => TypeOK /\ LoopInv /\ SentInOrder
  <2> SUFFICES ASSUME Init
               PROVE  LoopInv /\ SentInOrder
    BY InitTypes
  <2>1. Len(Sent) = 0 /\ Handled = 0
    BY DEF Init, Sent, Handled
  <2>2. QED
    BY <2>1 DEF Init, LoopInv, SentInOrder
<1>2. TypeOK /\ LoopInv /\ SentInOrder /\ [Next]_vars => (TypeOK /\ LoopInv /\ SentInOrder)'
  BY StepTypes, StepLoopInv, StepSent
<1>3. QED
  BY <1>1, <1>2, PTL DEF Spec

-----------------------------------------------------------------------------
(* What a flush means.                                                     *)

OneFlusher == \A c, d \in Flusher : c = d

\* While nobody waits, no flush is pending and no signal is on its way.
LEMMA NobodyWaits ==
    ASSUME FlushInv, OneFlusher, NEW c \in Flusher, caller[c] # "await"
    PROVE  ~Signalled /\ \A n \in 1..Len(wChan) : ~Pending(n)
  BY DEF FlushInv, OneFlusher

\* While a signal is on its way no flush is pending.
LEMMA SignalledOnce ==
    ASSUME FlushInv, OneFlusher, Signalled
    PROVE  \A n \in 1..Len(wChan) : ~Pending(n)
  BY DEF FlushInv, OneFlusher

\* Steps that change neither the flushes nor the signals: the loop may have sent more.
LEMMA FlushFrame ==
    ASSUME TypeOK, FlushInv, UNCHANGED <<caller, flushed, wChan, head, flushDone>>,
           loop' = loop \/ (loop = "write" /\ loop' \in {"select", "closing"})
                        \/ (loop \in {"closing", "select"} /\ loop' = "ended"),
           lost => lost', loop' = "closing" => lost',
           \A n \in Nat : OnWire(n) => OnWire(n)'
    PROVE  FlushInv'
<1>1. Signalled' <=> Signalled
  BY DEF Signalled
<1>2. \A n \in Nat : Pending(n)' <=> Pending(n)
  BY DEF Pending
<1>3. \A c \in Flusher : c \in Caller
  BY ConnectionAssumption
<1>4. \A n \in 1..Len(wChan)' : Pending(n)' =>
          \E c \in Flusher : caller'[c] = "await" /\ flushed'[c] = n
  BY <1>2 DEF FlushInv
<1>5. Signalled' => \E c \in Flusher :
          caller'[c] = "await" /\ flushed'[c] <= head' /\ ~Pending(flushed[c])'
  BY <1>1, <1>2, <1>3 DEF FlushInv, TypeOK
<1>6. Signalled' /\ ~lost' => \A c \in Flusher : \A n \in 1..flushed'[c] :
          caller'[c] = "await" /\ wChan'[n] = "write" => OnWire(n)'
  BY <1>1, <1>3 DEF FlushInv, TypeOK, IsWrite
<1>7. QED
  BY <1>4, <1>5, <1>6 DEF FlushInv, IsWrite

\* The steps of the goroutines that write and flush.
LEMMA CallerFlushes ==
    ASSUME TypeOK, FlushInv, OneFlusher, NEW c \in Caller, Write(c) \/ Flush(c) \/ CallerGoesOn(c)
    PROVE  FlushInv'
<1> USE DEF Goto, loopVars, dataVars, closeVars
<1>1. wChan \in Seq({"write", "flush"}) /\ head \in 0..Len(wChan) /\ Len(wChan) \in Nat
      /\ flushed \in [Caller -> 0..Len(wChan)] /\ caller \in [Caller -> {"idle", "write", "flush", "await"}]
      /\ Flusher \subseteq Caller
  BY ConnectionAssumption DEF TypeOK
<1>2. CASE Write(c) \/ Flush(c) \/ PutFails(c)
  <2>1. /\ UNCHANGED <<flushed, wChan, head, loop, flushDone, lost, wire>>
        /\ caller[c] # "await" /\ caller'[c] # "await"
        /\ \A d \in Caller : d # c => caller'[d] = caller[d]
        /\ caller'[c] = "flush" => c \in Flusher
    BY <1>1, <1>2 DEF Write, Flush, PutFails
  <2>2. /\ Signalled' <=> Signalled
        /\ \A n \in Nat : (Pending(n)' <=> Pending(n)) /\ (OnWire(n)' <=> OnWire(n))
    BY <2>1 DEF Signalled, Pending, OnWire
  <2>3. \A d \in Flusher : caller'[d] = "await" <=> caller[d] = "await"
    BY <1>1, <2>1
  <2>4. QED
    BY <1>1, <2>1, <2>2, <2>3 DEF FlushInv, IsWrite
<1>3. CASE Put(c)
  <2>1. /\ UNCHANGED <<flushed, head, loop, flushDone, lost, wire>>
        /\ wChan' = Append(wChan, "write")
        /\ caller[c] # "await" /\ caller'[c] = "idle"
        /\ \A d \in Caller : d # c => caller'[d] = caller[d]
    BY <1>1, <1>3 DEF Put
  <2>2. /\ Len(wChan') = Len(wChan) + 1 /\ wChan'[Len(wChan) + 1] = "write"
        /\ \A n \in 1..Len(wChan) : wChan'[n] = wChan[n]
    BY <1>1, <2>1
  <2>3. /\ Signalled' <=> Signalled
        /\ \A n \in Nat : (Pending(n)' <=> Pending(n)) /\ (OnWire(n)' <=> OnWire(n))
    BY <1>1, <2>1, <2>2 DEF Signalled, Pending, OnWire
  <2>4. \A d \in Flusher : caller'[d] = "await" <=> caller[d] = "await"
    BY <1>1, <2>1
  <2>5. \A d \in Flusher : \A n \in 1..flushed[d] : IsWrite(n)' <=> IsWrite(n)
    BY <1>1, <2>2 DEF IsWrite
  <2>6. QED
    <3>1. \A d \in Caller : caller'[d] \in {"flush", "await"} => d \in Flusher
      BY <2>1 DEF FlushInv
    <3>2. \A n \in 1..Len(wChan') : Pending(n)' =>
              \E d \in Flusher : caller'[d] = "await" /\ flushed'[d] = n
      <4> SUFFICES ASSUME NEW n \in 1..Len(wChan'), Pending(n)'
                   PROVE  \E d \in Flusher : caller'[d] = "await" /\ flushed'[d] = n
        OBVIOUS
      <4>1. Pending(n)
        BY <2>3
      <4>2. n \in 1..Len(wChan)
        BY <4>1 DEF Pending
      <4>3. QED
        BY <2>1, <2>4, <4>1, <4>2 DEF FlushInv
    <3>3. Signalled' => \E d \in Flusher :
              caller'[d] = "await" /\ flushed'[d] <= head' /\ ~Pending(flushed[d])'
      BY <1>1, <2>1, <2>3, <2>4 DEF FlushInv
    <3>4. Signalled' /\ ~lost' => \A d \in Flusher : \A n \in 1..flushed'[d] :
              caller'[d] = "await" /\ IsWrite(n)' => OnWire(n)'
      BY <1>1, <2>1, <2>3, <2>4, <2>5 DEF FlushInv
    <3>5. QED
      BY <2>1, <3>1, <3>2, <3>3, <3>4 DEF FlushInv
<1>4. CASE PutFlush(c)
  <2>1. /\ UNCHANGED <<head, loop, flushDone, lost, wire>>
        /\ wChan' = Append(wChan, "flush")
        /\ caller[c] = "flush" /\ caller'[c] = "await" /\ flushed'[c] = Len(wChan) + 1
        /\ \A d \in Caller : d # c => caller'[d] = caller[d]
    BY <1>1, <1>4 DEF PutFlush
  <2>2. c \in Flusher
    BY <2>1 DEF FlushInv
  <2>3. ~Signalled /\ \A n \in 1..Len(wChan) : ~Pending(n)
    BY <2>1, <2>2, NobodyWaits
  <2>4. Len(wChan') = Len(wChan) + 1 /\ \A n \in 1..Len(wChan) : wChan'[n] = wChan[n]
    BY <1>1, <2>1
  <2>5. ~Signalled' /\ \A n \in 1..Len(wChan) : ~Pending(n)'
    BY <1>1, <2>1, <2>3, <2>4 DEF Signalled, Pending
  <2>6. QED
    <3>1. \A d \in Caller : caller'[d] \in {"flush", "await"} => d \in Flusher
      BY <2>1, <2>2 DEF FlushInv
    <3>2. \A n \in 1..Len(wChan') : Pending(n)' =>
              \E d \in Flusher : caller'[d] = "await" /\ flushed'[d] = n
      BY <1>1, <2>1, <2>2, <2>4, <2>5
    <3>3. loop' \in {"signal", "closingFlush", "signalLast"} => flushDone' = 0
      BY <2>1 DEF FlushInv
    <3>4. loop' \in {"closing", "closingFlush", "signalLast"} => lost'
      BY <2>1 DEF FlushInv
    <3>5. QED
      BY <2>5, <3>1, <3>2, <3>3, <3>4 DEF FlushInv
<1>5. CASE FlushReturns(c)
  <2>1. /\ UNCHANGED <<flushed, wChan, head, loop, lost, wire>>
        /\ caller[c] = "await" /\ caller'[c] = "idle" /\ flushDone = 1 /\ flushDone' = 0
        /\ \A d \in Caller : d # c => caller'[d] = caller[d]
    BY <1>1, <1>5 DEF FlushReturns, TypeOK
  <2>2. Signalled /\ loop \notin {"signal", "closingFlush", "signalLast"}
    BY <2>1 DEF Signalled, FlushInv
  <2>3. \A n \in 1..Len(wChan) : ~Pending(n)
    BY <2>2, SignalledOnce
  <2>4. ~Signalled' /\ \A n \in 1..Len(wChan') : ~Pending(n)'
    BY <2>1, <2>2, <2>3 DEF Signalled, Pending
  <2>5. \A d \in Caller : caller'[d] \in {"flush", "await"} => d \in Flusher
    BY <2>1 DEF FlushInv
  <2>6. loop' \in {"closing", "closingFlush", "signalLast"} => lost'
    BY <2>1 DEF FlushInv
  <2>7. QED
    BY <2>1, <2>2, <2>4, <2>5, <2>6 DEF FlushInv
<1>6. QED
  BY <1>2, <1>3, <1>4, <1>5 DEF CallerGoesOn

\* The steps of the loop that are about a flush.
LEMMA LoopFlushInv ==
    ASSUME TypeOK, LoopInv, SentInOrder, FlushInv, OneFlusher,
           LoopReceives \/ LoopFlushes \/ (LoopFails /\ loop = "flush")
               \/ (LoopClosed /\ loop = "closingFlush") \/ LoopSignals
    PROVE  FlushInv'
<1> USE DEF callerVars, dataVars, closeVars
<1>1. head \in 0..Len(wChan) /\ Len(wChan) \in Nat /\ flushed \in [Caller -> 0..Len(wChan)]
      /\ Flusher \subseteq Caller /\ flushDone \in 0..1
  BY ConnectionAssumption DEF TypeOK
<1>2. UNCHANGED <<caller, flushed, wChan>>
  BY DEF LoopReceives, LoopFlushes, LoopFails, LoopClosed, LoopSignals
<1>3. \A d \in Caller : caller'[d] \in {"flush", "await"} => d \in Flusher
  BY <1>2 DEF FlushInv
<1>4. CASE LoopReceives
  <2>1. /\ loop = "select" /\ head < Len(wChan) /\ head' = head + 1 /\ loop' = wChan[head + 1]
        /\ loop' \in {"write", "flush"} /\ UNCHANGED <<flushDone, lost, wire>>
    BY <1>1, <1>4 DEF LoopReceives, TypeOK
  <2>2. (Signalled' <=> Signalled) /\ \A n \in Nat : OnWire(n)' <=> OnWire(n)
    BY <2>1 DEF Signalled, OnWire
  <2>3. \A n \in Nat : Pending(n)' <=> Pending(n)
    BY <1>1, <1>2, <2>1 DEF Pending
  <2>4. Signalled' => \E d \in Flusher :
            caller'[d] = "await" /\ flushed'[d] <= head' /\ ~Pending(flushed[d])'
    BY <1>1, <1>2, <2>1, <2>2, <2>3 DEF FlushInv
  <2>5. \A n \in 1..Len(wChan') : Pending(n)' =>
            \E d \in Flusher : caller'[d] = "await" /\ flushed'[d] = n
    BY <1>1, <1>2, <2>3 DEF FlushInv
  <2>6. Signalled' /\ ~lost' => \A d \in Flusher : \A n \in 1..flushed'[d] :
            caller'[d] = "await" /\ IsWrite(n)' => OnWire(n)'
    BY <1>1, <1>2, <2>1, <2>2 DEF FlushInv, IsWrite
  <2>7. QED
    BY <1>2, <1>3, <2>1, <2>4, <2>5, <2>6 DEF FlushInv
<1>5. CASE LoopFlushes \/ (LoopFails /\ loop = "flush")
  <2>1. head \in 1..Len(wChan) /\ loop = "flush" /\ wChan[head] = "flush" /\ Pending(head)
        /\ UNCHANGED <<head, flushDone>>
    BY <1>1, <1>5 DEF LoopFlushes, LoopFails, LoopInv, Pending
  <2>2. PICK f \in Flusher : caller[f] = "await" /\ flushed[f] = head
    BY <2>1 DEF FlushInv
  <2>3. flushDone = 0
    BY <1>1, <2>1, SignalledOnce DEF Signalled
  <2>4. \A n \in 1..Len(wChan) : Pending(n) => n = head
    BY <2>1, <2>2 DEF FlushInv, OneFlusher
  <2>5. loop' \in {"signal", "closingFlush"} /\ (loop' = "closingFlush" => lost')
    BY <1>5, <2>1 DEF LoopFlushes, LoopFails
  <2>6. \A n \in 1..Len(wChan') : ~Pending(n)'
    BY <1>1, <1>2, <2>1, <2>4, <2>5 DEF Pending
  <2>7. caller'[f] = "await" /\ flushed'[f] <= head' /\ ~Pending(flushed[f])'
    BY <1>1, <1>2, <2>1, <2>2, <2>6
  <2>8. ASSUME ~lost', NEW n \in 1..head, IsWrite(n)
        PROVE  OnWire(n)'
    <3>1. LoopFlushes /\ ~lost
      BY <1>5, <2>8 DEF LoopFails, LoopFlushes
    <3>2. wire' = Sent /\ Handled = head
      BY <2>1, <3>1 DEF LoopFlushes, Sent, Handled
    <3>3. QED
      BY <2>8, <3>1, <3>2 DEF SentInOrder, OnWire
  <2>9. ~lost' => \A d \in Flusher : \A n \in 1..flushed'[d] :
            caller'[d] = "await" /\ IsWrite(n)' => OnWire(n)'
    BY <1>2, <2>2, <2>8 DEF OneFlusher, IsWrite
  <2>10. QED
    BY <1>3, <2>1, <2>3, <2>5, <2>6, <2>7, <2>9 DEF FlushInv
<1>6. CASE (LoopClosed /\ loop = "closingFlush") \/ LoopSignals
  <2>1. /\ loop \in {"signal", "closingFlush", "signalLast"} /\ UNCHANGED <<head, lost, wire>>
        /\ \/ loop' = "signalLast" /\ flushDone' = flushDone /\ loop = "closingFlush"
           \/ flushDone' = 1 /\ loop' \in {"select", "ended"}
    BY <1>6 DEF LoopClosed, LoopSignals
  <2>2. Signalled /\ Signalled'
    BY <2>1 DEF Signalled
  <2>3. \A n \in Nat : (Pending(n)' <=> Pending(n)) /\ (OnWire(n)' <=> OnWire(n))
    BY <1>2, <2>1 DEF Pending, OnWire
  <2>4. \E d \in Flusher : caller'[d] = "await" /\ flushed'[d] <= head' /\ ~Pending(flushed[d])'
    BY <1>1, <1>2, <2>1, <2>2, <2>3 DEF FlushInv
  <2>5. \A n \in 1..Len(wChan') : Pending(n)' =>
            \E d \in Flusher : caller'[d] = "await" /\ flushed'[d] = n
    BY <1>2, <2>3 DEF FlushInv
  <2>6. ~lost' => \A d \in Flusher : \A n \in 1..flushed'[d] :
            caller'[d] = "await" /\ IsWrite(n)' => OnWire(n)'
    BY <1>1, <1>2, <2>1, <2>2, <2>3 DEF FlushInv, IsWrite
  <2>7. /\ loop' \in {"signal", "closingFlush", "signalLast"} => flushDone' = 0
        /\ loop' \in {"closing", "closingFlush", "signalLast"} => lost'
    BY <2>1 DEF FlushInv
  <2>8. QED
    BY <1>2, <1>3, <2>4, <2>5, <2>6, <2>7 DEF FlushInv
<1>7. QED
  BY <1>4, <1>5, <1>6

LEMMA StepFlush ==
    ASSUME TypeOK, LoopInv, SentInOrder, FlushInv, OneFlusher, [Next]_vars
    PROVE  FlushInv'
<1>1. CASE UNCHANGED vars \/ Close \/ Closing \/ LoopExits
  <2>1. /\ UNCHANGED <<caller, flushed, wChan, head, flushDone, lost, wire>>
        /\ loop' = loop \/ (loop = "select" /\ loop' = "ended")
    BY <1>1 DEF vars, callerVars, loopVars, dataVars, Close, Closing, CloseFlag, CloseExit,
                CloseConn, CloseSend, LoopExits
  <2>2. \A n \in Nat : OnWire(n)' <=> OnWire(n)
    BY <2>1 DEF OnWire
  <2>3. loop' = "closing" => lost'
    BY <2>1 DEF FlushInv
  <2>4. QED
    BY <2>1, <2>2, <2>3, FlushFrame
<1>2. CASE LoopWrites
  <2>1. /\ UNCHANGED <<caller, flushed, wChan, head, flushDone, lost>>
        /\ loop = "write" /\ loop' = "select"
        /\ \/ wire' = wire
           \/ wire' = Append(wire, head)
           \/ wire' = wire \o buffer
    BY <1>2 DEF LoopWrites, callerVars
  <2>2. wire \in Seq(Nat) /\ buffer \in Seq(Nat) /\ head \in Nat
    BY DEF TypeOK
  <2>3. Len(wire) <= Len(wire') /\ \A i \in 1..Len(wire) : wire'[i] = wire[i]
    <3>1. CASE wire' = wire
      BY <2>2, <3>1
    <3>2. CASE wire' = Append(wire, head)
      BY <2>2, <3>2
    <3>3. CASE wire' = wire \o buffer
      BY <2>2, <3>3
    <3>4. QED
      BY <2>1, <3>1, <3>2, <3>3
  <2>4. \A n \in Nat : OnWire(n) => OnWire(n)'
    <3>1. Len(wire') \in Nat /\ Len(wire) \in Nat
      BY <2>1, <2>2
    <3>2. QED
      BY <2>3, <3>1 DEF OnWire
  <2>5. QED
    BY <2>1, <2>4, FlushFrame
<1>3. CASE (LoopFails /\ loop = "write") \/ (LoopClosed /\ loop = "closing")
  <2>1. /\ UNCHANGED <<caller, flushed, wChan, head, flushDone, wire>>
        /\ (loop = "write" /\ loop' = "closing" /\ lost')
               \/ (loop = "closing" /\ loop' = "ended" /\ lost' = lost)
    BY <1>3 DEF LoopFails, LoopClosed, callerVars, dataVars
  <2>2. \A n \in Nat : OnWire(n)' <=> OnWire(n)
    BY <2>1 DEF OnWire
  <2>3. QED
    BY <2>1, <2>2, FlushFrame
<1>4. CASE LoopReceives \/ LoopFlushes \/ (LoopFails /\ loop = "flush")
               \/ (LoopClosed /\ loop = "closingFlush") \/ LoopSignals
  BY <1>4, LoopFlushInv
<1>5. CASE \E c \in Caller : Write(c) \/ Flush(c) \/ CallerGoesOn(c)
  BY <1>5, CallerFlushes
<1>6. QED
  <2>1. LoopFails => loop \in {"write", "flush"}
    BY DEF LoopFails
  <2>2. LoopClosed => loop \in {"closing", "closingFlush"}
    BY DEF LoopClosed
  <2>3. QED
    BY <1>1, <1>2, <1>3, <1>4, <1>5, <2>1, <2>2 DEF Next, LoopStep

\* Only FlushReturns ends the wait of a goroutine, and the invariant holds of its flush.
LEMMA FlushedIsSent ==
    ASSUME TypeOK, FlushInv, [Next]_vars, ~lost, NEW c \in Caller,
           caller[c] = "await", caller'[c] = "idle",
           NEW n \in 1..flushed[c], IsWrite(n)
    PROVE  OnWire(n)
<1>1. \E d \in Caller : CallerGoesOn(d) \/ Write(d) \/ Flush(d)
  BY DEF vars, callerVars, Next, LoopStep, LoopReceives, LoopWrites, LoopFlushes, LoopFails,
         LoopClosed, LoopSignals, LoopExits, Close, Closing, CloseFlag, CloseExit, CloseConn, CloseSend
<1>2. PICK d \in Caller : CallerGoesOn(d) \/ Write(d) \/ Flush(d)
  BY <1>1
<1>3. caller' = [caller EXCEPT ![d] = caller'[d]] /\ caller[d] # caller'[d]
  BY <1>2 DEF TypeOK, CallerGoesOn, Write, Flush, Put, PutFails, PutFlush, FlushReturns, Goto
<1>4. d = c
  BY <1>3 DEF TypeOK
<1>5. FlushReturns(c)
  BY <1>2, <1>4 DEF CallerGoesOn, Write, Flush, Put, PutFails, PutFlush
<1>6. flushDone = 1 /\ c \in Flusher
  BY <1>5 DEF FlushReturns, TypeOK, FlushInv
<1>7. QED
  BY <1>6 DEF FlushInv, Signalled

\* When only one goroutine flushes, Flush returns on a connection that has not failed with
\* everything that was put before it on the wire (connection.go lines 307-317): FlushMeansSent.
THEOREM FlushesSend == ASSUME OneFlusher PROVE Spec => FlushMeansSent
<1> DEFINE Inv == TypeOK /\ LoopInv /\ SentInOrder /\ FlushInv
<1>1. Init => Inv
  <2> SUFFICES ASSUME Init
               PROVE  LoopInv /\ SentInOrder /\ FlushInv
    BY InitTypes
  <2>1. Len(Sent) = 0 /\ Handled = 0 /\ Len(wChan) = 0
    BY DEF Init, Sent, Handled
  <2>2. ~Signalled
    BY DEF Init, Signalled
  <2>3. QED
    BY <2>1, <2>2 DEF Init, LoopInv, SentInOrder, FlushInv
<1>2. Inv /\ [Next]_vars => Inv'
  BY StepTypes, StepLoopInv, StepSent, StepFlush
<1>3. Inv /\ [Next]_vars =>
          [\A c \in Caller : caller[c] = "await" /\ caller'[c] = "idle" /\ ~lost =>
               \A n \in 1..flushed[c] : IsWrite(n) => OnWire(n)]_vars
  BY FlushedIsSent
<1>4. QED
  BY <1>1, <1>2, <1>3, PTL DEF Spec, FlushMeansSent

-----------------------------------------------------------------------------
(* The chunks.                                                             *)

\* What the composer concludes from a chunk, when it reads it: the length is that of the
\* message, and it reads something else than was written only at the boundary of the
\* timestamps, or within a message that the chunk size now holds.
LEMMA Reading ==
    ASSUME FramingInv, framed, NEW c \in Csid, Busy(c)
    PROVE  /\ HeaderLen(c, Fmt(c)) = sending[c].len
           /\ ReadsExtended(c, Fmt(c)) = HasExtended(sending[c].field)
                \/ (writer = "session" /\ sending[c].field = MaxTimestamp)
           /\ NeededSize(c, Fmt(c)) = Portion(c) \/ (Begun(c) /\ sending[c].len <= peerSize)
           /\ Complete(c) <=> sending[c].left = Portion(c)
           /\ Portion(c) \in 1..sending[c].left
<1> DEFINE m == sending[c]
<1>1. /\ m.len \in Nat /\ m.left \in Nat /\ m.fmt \in 0..3 /\ m.field \in Nat
      /\ m.left > 0 /\ m.left <= m.len
      /\ stream[c].timestamp \in Nat /\ stream[c].len \in Nat /\ stream[c].got = m.len - m.left
      /\ size \in Nat \ {0} /\ peerSize \in Nat \ {0} /\ MaxTimestamp \in Nat \ {0}
      /\ LocalChunkSize \in Nat /\ DefaultChunkSize \in Nat
  BY RtmpChunksAssumption DEF FramingInv, ChunkTypes, StreamFollows, Busy
<1>2. Begun(c) <=> m.left < m.len
  BY DEF Begun
<1>3. Fmt(c) \in 0..3 /\ (Fmt(c) = 3 <=> Begun(c) \/ m.fmt = 3) /\ (Fmt(c) >= 2 <=> Begun(c) \/ m.fmt >= 2)
  BY <1>1 DEF Fmt
<1>4. HeaderLen(c, Fmt(c)) = m.len
  BY <1>1, <1>3 DEF HeaderLen, FramingInv, StreamFollows
<1>5. Portion(c) \in 1..m.left /\ (Portion(c) = m.left \/ Portion(c) = size)
      /\ Portion(c) <= size
  BY <1>1 DEF Portion, Lesser
<1>6. HeaderTimestamp(c, Fmt(c)) >= MaxTimestamp <=> m.field >= MaxTimestamp
  <2>1. CASE Fmt(c) = 3
    BY <2>1, <1>1, <1>3 DEF HeaderTimestamp, FramingInv, StreamFollows
  <2>2. CASE Fmt(c) # 3
    BY <2>2, <1>1 DEF HeaderTimestamp, Lesser
  <2>3. QED
    BY <2>1, <2>2
<1>7. (ReadsExtended(c, Fmt(c)) = HasExtended(m.field)) \/ (writer = "session" /\ m.field = MaxTimestamp)
  BY <1>1, <1>6 DEF ReadsExtended, HasExtended
<1>8. (NeededSize(c, Fmt(c)) = Portion(c)) \/ (Begun(c) /\ m.len <= peerSize)
  <2>1. CASE writer = "other"
    <3>1. size = peerSize
      BY <2>1 DEF FramingInv, SizesAgree
    <3>2. CASE Begun(c)
      BY <3>1, <3>2, <1>1, <1>4 DEF NeededSize, Portion, Lesser
    <3>3. CASE ~Begun(c)
      BY <3>1, <3>3, <1>1, <1>2, <1>4 DEF NeededSize, Portion, Lesser
    <3>4. QED
      BY <3>2, <3>3
  <2>2. CASE writer = "session"
    <3>1. /\ size = LocalChunkSize /\ peerSize \in {DefaultChunkSize, LocalChunkSize}
          /\ peerSize = LocalChunkSize \/ m.len <= DefaultChunkSize
          /\ DefaultChunkSize <= LocalChunkSize
      BY <2>2, RtmpChunksAssumption DEF FramingInv, SizesAgree
    <3>2. CASE size = peerSize
      BY <3>2, <1>1, <1>2, <1>4 DEF NeededSize, Portion, Lesser
    <3>3. CASE m.len <= DefaultChunkSize /\ peerSize = DefaultChunkSize
      BY <3>1, <3>3, <1>1, <1>2, <1>4 DEF NeededSize, Portion, Lesser
    <3>4. QED
      BY <3>1, <3>2, <3>3
  <2>3. QED
    BY <2>1, <2>2 DEF FramingInv, ChunkTypes
<1>9. Complete(c) <=> m.left = Portion(c)
  BY <1>1, <1>4, <1>5 DEF Complete
<1>10. QED
  BY <1>4, <1>5, <1>7, <1>8, <1>9

-----------------------------------------------------------------------------
(* The steps of a writer.                                                  *)

\* A message that follows the rules of its writer keeps the invariant.
LEMMA MessageKeepsFraming ==
    ASSUME FramingInv, NEW c \in Csid, NEW len \in Nat \ {0}, NEW ts \in Nat, NEW fmt \in 0..3,
           NEW field \in Nat, NEW set \in Nat, Message(c, len, ts, fmt, field, set),
           fmt >= 2 => sender[c].ts >= 0 /\ len = sender[c].len,
           fmt = 3 => field = sender[c].field,
           writer = "session" =>
                /\ fmt = 0 /\ set \in {0, LocalChunkSize}
                /\ \A d \in Csid : ~Busy(d)
                /\ peerSize = LocalChunkSize \/ len <= DefaultChunkSize
    PROVE  FramingInv'
<1> DEFINE m == [len |-> len, left |-> len, fmt |-> fmt, field |-> field, set |-> set]
<1>1. /\ framed /\ ~Busy(c) /\ framed' = framed /\ writer' = writer /\ size' = size
      /\ peerSize' = peerSize /\ stream' = stream /\ absTsFlag' = absTsFlag /\ crossed' = crossed
      /\ sending' = [sending EXCEPT ![c] = m]
      /\ sender' = [sender EXCEPT ![c] = [ts |-> ts, field |-> field, len |-> len]]
  BY DEF Message
<1>2. ChunkTypes'
  <2>1. m \in [len : Nat, left : Nat, fmt : 0..3, field : Nat, set : Nat]
    OBVIOUS
  <2>2. sending' \in [Csid -> [len : Nat, left : Nat, fmt : 0..3, field : Nat, set : Nat]]
    BY <1>1, <2>1 DEF FramingInv, ChunkTypes
  <2>3. sender' \in [Csid -> [ts : Int, field : Nat, len : Nat]]
    BY <1>1 DEF FramingInv, ChunkTypes
  <2>4. sent' \in Nat /\ far' \in BOOLEAN
    BY DEF Message, FramingInv, ChunkTypes
  <2>5. QED
    BY <1>1, <2>2, <2>3, <2>4 DEF FramingInv, ChunkTypes
<1>3. /\ sending'[c] = m /\ sender'[c] = [ts |-> ts, field |-> field, len |-> len]
      /\ \A d \in Csid \ {c} : sending'[d] = sending[d] /\ sender'[d] = sender[d]
  BY <1>1 DEF FramingInv, ChunkTypes
<1>4. /\ Busy(c)' /\ ~Begun(c)'
      /\ \A d \in Csid \ {c} : (Busy(d)' <=> Busy(d)) /\ (Begun(d)' <=> Begun(d))
  BY <1>3 DEF Busy, Begun
<1>5. SizesAgree'
  BY <1>1, <1>3, <1>4 DEF SizesAgree, FramingInv
<1>6. StreamFollows(c)'
  BY <1>1, <1>3, <1>4 DEF FramingInv, StreamFollows, ChunkTypes
<1>7. ASSUME NEW d \in Csid \ {c}
      PROVE  StreamFollows(d)'
  BY <1>1, <1>3, <1>4 DEF FramingInv, StreamFollows
<1>8. QED
  BY <1>1, <1>2, <1>5, <1>6, <1>7 DEF FramingInv, FramingKept

LEMMA RemainderIsNat ==
    ASSUME NEW a \in Int, NEW n \in Nat \ {0}
    PROVE  a % n \in Nat
OBVIOUS

\* So does every message that is written.
LEMMA WritesKeepFraming ==
    ASSUME FramingInv, NEW c \in Csid, Writes(c)
    PROVE  FramingInv'
<1> USE RtmpChunksAssumption
<1>1. ASSUME NEW len \in MsgLen, NEW ts \in Timestamp, SessionWrites(c, len, ts)
      PROVE  FramingInv'
  <2>1. len \in Nat \ {0} /\ ts \in Nat
    OBVIOUS
  <2>2. QED
    BY <1>1, <2>1, MessageKeepsFraming DEF SessionWrites
<1>2. CASE SessionSetsChunkSize(c)
  <2>1. 1 <= DefaultChunkSize /\ LocalChunkSize \in Nat
    OBVIOUS
  <2>2. QED
    BY <1>2, <2>1, MessageKeepsFraming DEF SessionSetsChunkSize
<1>3. ASSUME NEW len \in MsgLen, NEW fmt \in 0..3, NEW field \in Timestamp, OtherWrites(c, len, fmt, field)
      PROVE  FramingInv'
  <2> DEFINE ts == IF fmt = 0 THEN field ELSE (sender[c].ts + field) % Word
  <2>1. len \in Nat \ {0} /\ field \in Nat
    OBVIOUS
  <2>0. ts \in Nat
    <3>1. sender[c].ts + field \in Int /\ Word \in Nat \ {0}
      BY <2>1 DEF FramingInv, ChunkTypes
    <3>2. (sender[c].ts + field) % Word \in Nat
      BY <3>1, RemainderIsNat
    <3>3. QED
      BY <2>1, <3>2
  <2>2. Message(c, len, ts, fmt, field, 0) /\ writer = "other"
        /\ (fmt >= 2 => sender[c].ts >= 0 /\ len = sender[c].len) /\ (fmt = 3 => field = sender[c].field)
    BY <1>3 DEF OtherWrites
  <2> HIDE DEF ts
  <2>3. QED
    BY <2>0, <2>1, <2>2, MessageKeepsFraming
<1>4. ASSUME NEW n \in ChunkSize, OtherSetsChunkSize(c, n)
      PROVE  FramingInv'
  <2>1. Message(c, 1, 0, 0, 0, n) /\ writer = "other" /\ n \in Nat
    BY <1>4 DEF OtherSetsChunkSize
  <2>2. 1 \in Nat \ {0} /\ 0 \in Nat /\ 0 \in 0..3 /\ ~(0 >= 2) /\ 0 # 3
    OBVIOUS
  <2>3. QED
    BY <2>1, <2>2, MessageKeepsFraming
<1>5. QED
  BY <1>1, <1>2, <1>3, <1>4 DEF Writes

-----------------------------------------------------------------------------
(* The steps of the composer.                                              *)

\* What a chunk that is read changes.
LEMMA ChunkEffect ==
    ASSUME FramingInv, NEW c \in Csid, Chunk(c)
    PROVE  /\ framed /\ framed' /\ Busy(c) /\ writer' = writer /\ sender' = sender /\ far' = far
           /\ Portion(c) \in 1..sending[c].left
           /\ Complete(c) <=> sending[c].left = Portion(c)
           /\ sending'[c].left = sending[c].left - Portion(c)
           /\ \A k \in {"len", "fmt", "field", "set"} : sending'[c][k] = sending[c][k]
           /\ stream'[c].timestamp = sending[c].field
           /\ stream'[c].abs = ReadAbs(c)
           /\ stream'[c].len = sending[c].len
           /\ stream'[c].got = IF Busy(c)' THEN sending[c].len - sending'[c].left ELSE 0
           /\ Busy(c)' <=> ~Complete(c)
           /\ Begun(c)' <=> ~Complete(c)
           /\ writer = "session" => sending[c].field # MaxTimestamp
           /\ \A d \in Csid \ {c} :
                /\ sending'[d] = sending[d] /\ stream'[d] = stream[d]
                /\ Busy(d)' <=> Busy(d)
                /\ Begun(d)' <=> Begun(d)
<1> DEFINE m == sending[c]
<1>1. framed /\ Busy(c) /\ ReadsWhatIsWritten(c)
  BY DEF Chunk
<1>2. /\ HeaderLen(c, Fmt(c)) = m.len
      /\ Complete(c) <=> m.left = Portion(c)
      /\ Portion(c) \in 1..m.left
  BY <1>1, Reading
<1>3. /\ m.len \in Nat /\ m.left \in Nat /\ m.fmt \in 0..3 /\ m.field \in Nat
      /\ m.left > 0 /\ m.left <= m.len
      /\ stream[c].timestamp \in Nat /\ stream[c].got = m.len - m.left
      /\ MaxTimestamp \in Nat
  BY <1>1, RtmpChunksAssumption DEF FramingInv, ChunkTypes, StreamFollows, Busy
<1>4. writer = "session" => m.field # MaxTimestamp
  <2>1. CASE Begun(c)
    BY <1>1, <2>1 DEF FramingInv, StreamFollows
  <2>2. ASSUME ~Begun(c), writer = "session", m.field = MaxTimestamp
        PROVE  FALSE
    <3>1. m.fmt = 0
      BY <1>1, <2>2 DEF FramingInv, SizesAgree
    <3>2. ReadsExtended(c, Fmt(c)) /\ ~HasExtended(m.field)
      BY <1>3, <2>2, <3>1 DEF Fmt, ReadsExtended, HeaderTimestamp, HasExtended, Lesser
    <3>3. QED
      BY <1>1, <3>2 DEF ReadsWhatIsWritten
  <2>3. QED
    BY <2>1, <2>2
<1>5. ReadTimestamp(c) = m.field
  <2>1. CASE Fmt(c) = 3
    <3>1. stream[c].timestamp = m.field
      BY <1>1, <2>1, <1>3 DEF Fmt, FramingInv, StreamFollows
    <3>2. QED
      BY <2>1, <3>1 DEF ReadTimestamp, HeaderTimestamp
  <2>2. CASE Fmt(c) # 3
    BY <2>2, <1>3 DEF ReadTimestamp, ReadsExtended, HeaderTimestamp, Lesser
  <2>3. QED
    BY <2>1, <2>2
<1>6. /\ stream' = [stream EXCEPT ![c] =
            [timestamp |-> m.field, abs |-> ReadAbs(c), len |-> m.len,
             got |-> IF Complete(c) THEN 0 ELSE stream[c].got + Portion(c)]]
      /\ sending' = [sending EXCEPT ![c].left = m.left - Portion(c)]
      /\ framed' = framed /\ writer' = writer /\ sender' = sender /\ far' = far
  BY <1>2, <1>5 DEF Chunk
<1>7. /\ sending'[c] = [m EXCEPT !.left = m.left - Portion(c)]
      /\ \A d \in Csid \ {c} : sending'[d] = sending[d] /\ stream'[d] = stream[d]
      /\ stream'[c] = [timestamp |-> m.field, abs |-> ReadAbs(c), len |-> m.len,
                       got |-> IF Complete(c) THEN 0 ELSE stream[c].got + Portion(c)]
  BY <1>6 DEF FramingInv, ChunkTypes
<1>8. m \in [len : Nat, left : Nat, fmt : 0..3, field : Nat, set : Nat]
  BY DEF FramingInv, ChunkTypes
<1>9. /\ sending'[c].left = m.left - Portion(c)
      /\ \A k \in {"len", "fmt", "field", "set"} : sending'[c][k] = m[k]
  BY <1>7, <1>8
<1>10. /\ Busy(c)' <=> ~Complete(c)
       /\ Begun(c)' <=> ~Complete(c)
  BY <1>2, <1>3, <1>9 DEF Busy, Begun
<1>11. ASSUME NEW d \in Csid \ {c}
       PROVE  (Busy(d)' <=> Busy(d)) /\ (Begun(d)' <=> Begun(d))
  BY <1>7 DEF Busy, Begun
<1>12. stream'[c].got = IF Busy(c)' THEN m.len - sending'[c].left ELSE 0
  BY <1>2, <1>3, <1>7, <1>9, <1>10
<1>13. QED
  BY <1>1, <1>2, <1>4, <1>6, <1>7, <1>9, <1>10, <1>11, <1>12

\* A chunk that is read keeps the invariant.
LEMMA ChunkKeepsFraming ==
    ASSUME FramingInv, NEW c \in Csid, Chunk(c)
    PROVE  FramingInv'
<1> DEFINE m == sending[c]
<1>1. /\ framed /\ framed' /\ Busy(c) /\ writer' = writer /\ sender' = sender /\ far' = far
      /\ Portion(c) \in 1..m.left
      /\ sending'[c].left = m.left - Portion(c)
      /\ sending'[c].len = m.len /\ sending'[c].fmt = m.fmt
      /\ sending'[c].field = m.field /\ sending'[c].set = m.set
      /\ stream'[c].timestamp = m.field /\ stream'[c].len = m.len
      /\ stream'[c].got = IF Busy(c)' THEN m.len - sending'[c].left ELSE 0
      /\ Busy(c)' <=> ~Complete(c)
      /\ Begun(c)' <=> ~Complete(c)
      /\ writer = "session" => m.field # MaxTimestamp
      /\ \A d \in Csid \ {c} :
            /\ sending'[d] = sending[d] /\ stream'[d] = stream[d]
            /\ Busy(d)' <=> Busy(d)
            /\ Begun(d)' <=> Begun(d)
  BY ChunkEffect
<1>2. /\ m.len \in Nat /\ m.left \in Nat /\ m.set \in Nat /\ m.field \in Nat /\ m.fmt \in 0..3
      /\ stream[c].abs \in Nat /\ stream[c].got \in Nat
      /\ size \in Nat \ {0} /\ peerSize \in Nat \ {0}
  BY DEF FramingInv, ChunkTypes
<1>3. size' = NewSize(c, size) /\ peerSize' = NewSize(c, peerSize)
  BY DEF Chunk
<1>4. size' \in Nat \ {0} /\ peerSize' \in Nat \ {0}
  BY <1>2, <1>3 DEF NewSize
<1>5. ChunkTypes'
  <2>1. ReadAbs(c) \in Nat
    <3>1. TimestampAbs(c, Fmt(c)) \in Nat
      <4>1. stream[c].abs + Word - MaxTimestamp + m.field \in Int /\ Word \in Nat \ {0}
        BY <1>2, RtmpChunksAssumption
      <4>2. (stream[c].abs + Word - MaxTimestamp + m.field) % Word \in Nat
        BY <4>1, RemainderIsNat
      <4>3. QED
        BY <1>2, <4>2 DEF TimestampAbs
    <3>2. ReadTimestamp(c) \in Nat
      <4>1. stream[c].timestamp \in Nat /\ MaxTimestamp \in Nat
        BY RtmpChunksAssumption DEF FramingInv, ChunkTypes
      <4>2. QED
        BY <1>2, <4>1 DEF ReadTimestamp, HeaderTimestamp, Lesser
    <3>3. (TimestampAbs(c, Fmt(c)) + ReadTimestamp(c)) % Word \in Nat
      BY <3>1, <3>2, RemainderIsNat, RtmpChunksAssumption
    <3>4. QED
      BY <3>1, <3>3 DEF ReadAbs
  <2>2. HeaderLen(c, Fmt(c)) = m.len
    BY <1>1, Reading
  <2>3. ReadTimestamp(c) \in Nat
    <3>1. stream[c].timestamp \in Nat /\ MaxTimestamp \in Nat
      BY RtmpChunksAssumption DEF FramingInv, ChunkTypes
    <3>2. QED
      BY <1>2, <3>1 DEF ReadTimestamp, HeaderTimestamp, Lesser
  <2>4. stream' \in [Csid -> [timestamp : Nat, abs : Nat, len : Nat, got : Nat]]
    BY <1>1, <1>2, <2>1, <2>2, <2>3 DEF Chunk, FramingInv, ChunkTypes
  <2>5. sending' \in [Csid -> [len : Nat, left : Nat, fmt : 0..3, field : Nat, set : Nat]]
    <3>1. m.left - Portion(c) \in Nat
      BY <1>1, <1>2
    <3>2. sending' = [sending EXCEPT ![c].left = m.left - Portion(c)]
      BY DEF Chunk
    <3>3. QED
      BY <3>1, <3>2 DEF FramingInv, ChunkTypes
  <2>6. absTsFlag' \in BOOLEAN /\ crossed' \in BOOLEAN
    <3>1. absTsFlag' \in BOOLEAN
      BY DEF Chunk, AbsTsFlag
    <3>2. crossed' \in BOOLEAN
      BY DEF Chunk
    <3>3. QED
      BY <3>1, <3>2
  <2>7. sent' = sent
    BY DEF Chunk
  <2>8. QED
    BY <1>1, <1>4, <2>4, <2>5, <2>6, <2>7 DEF FramingInv, ChunkTypes
<1>6. SizesAgree'
  <2>1. CASE writer = "other"
    <3>1. size' = peerSize' /\ writer' = "other"
      BY <2>1, <1>1, <1>3 DEF FramingInv, SizesAgree, NewSize
    <3>2. QED
      BY <3>1 DEF SizesAgree
  <2>2. CASE writer = "session"
    <3>1. /\ size = LocalChunkSize /\ peerSize \in {DefaultChunkSize, LocalChunkSize}
          /\ m.set \in {0, LocalChunkSize}
      BY <2>2, <1>1 DEF FramingInv, SizesAgree
    <3>2. /\ size' = LocalChunkSize /\ peerSize' \in {DefaultChunkSize, LocalChunkSize}
          /\ peerSize' = peerSize \/ peerSize' = LocalChunkSize
      BY <1>3, <3>1 DEF NewSize
    <3>3. ASSUME NEW d \in Csid, Busy(d)'
          PROVE  d = c /\ sending'[d].fmt = 0 /\ sending'[d].set \in {0, LocalChunkSize}
                 /\ (peerSize' = LocalChunkSize \/ sending'[d].len <= DefaultChunkSize)
      <4>1. Busy(d)
        BY <1>1, <3>3
      <4>2. d = c
        BY <4>1, <2>2, <1>1 DEF FramingInv, SizesAgree
      <4>3. QED
        BY <4>2, <3>2, <2>2, <1>1 DEF FramingInv, SizesAgree
    <3>4. QED
      BY <1>1, <2>2, <3>2, <3>3 DEF SizesAgree
  <2>3. QED
    BY <2>1, <2>2 DEF FramingInv, ChunkTypes
<1>7. StreamFollows(c)'
  BY <1>1, <1>2 DEF FramingInv, StreamFollows, Busy
<1>8. ASSUME NEW d \in Csid \ {c}
      PROVE  StreamFollows(d)'
  BY <1>1 DEF FramingInv, StreamFollows
<1>9. QED
  BY <1>1, <1>5, <1>6, <1>7, <1>8 DEF FramingInv, FramingKept

\* A chunk that is misread is one of the cases that FramingKept names.
LEMMA MisreadKeepsFraming ==
    ASSUME FramingInv, NEW c \in Csid, ChunkMisread(c)
    PROVE  FramingInv'
<1>1. framed /\ Busy(c) /\ ~ReadsWhatIsWritten(c)
  BY DEF ChunkMisread
<1>2. \/ writer = "session" /\ sending[c].field = MaxTimestamp
      \/ Begun(c) /\ sending[c].len <= peerSize
  BY <1>1, Reading DEF ReadsWhatIsWritten
<1>3. FramingKept'
  BY <1>1, <1>2 DEF ChunkMisread, FramingKept, Busy, Begun
<1>4. ChunkTypes' /\ framed' = FALSE
  BY DEF ChunkMisread, FramingInv, ChunkTypes
<1>5. QED
  BY <1>3, <1>4 DEF FramingInv

LEMMA FramingInvInit == ChunksInit => FramingInv
<1> SUFFICES ASSUME ChunksInit PROVE FramingInv
  OBVIOUS
<1> USE RtmpChunksAssumption
<1>1. ChunkTypes
  <2>1. -1 \in Int /\ Idle \in [len : Nat, left : Nat, fmt : 0..3, field : Nat, set : Nat]
    BY DEF Idle
  <2>2. sending \in [Csid -> [len : Nat, left : Nat, fmt : 0..3, field : Nat, set : Nat]]
    BY <2>1 DEF ChunksInit
  <2>3. sender \in [Csid -> [ts : Int, field : Nat, len : Nat]]
    BY <2>1 DEF ChunksInit
  <2>4. stream \in [Csid -> [timestamp : Nat, abs : Nat, len : Nat, got : Nat]]
    BY DEF ChunksInit
  <2>5. size \in Nat \ {0} /\ peerSize \in Nat \ {0} /\ sent \in Nat
    BY DEF ChunksInit
  <2>6. QED
    BY <2>2, <2>3, <2>4, <2>5 DEF ChunksInit, ChunkTypes
<1>2. /\ \A c \in Csid : ~Busy(c) /\ sending[c].left = 0 /\ sending[c].len = 0
      /\ \A c \in Csid : sender[c].ts = -1 /\ stream[c].got = 0
      /\ framed
  BY DEF ChunksInit, Idle, Busy
<1>3. SizesAgree
  BY <1>2 DEF ChunksInit, SizesAgree
<1>4. ASSUME NEW c \in Csid
      PROVE  StreamFollows(c)
  <2>1. ~Busy(c) /\ sending[c].left = 0 /\ sending[c].len = 0 /\ ~(sender[c].ts >= 0) /\ stream[c].got = 0
    BY <1>2
  <2>2. QED
    BY <2>1 DEF StreamFollows, Begun
<1>5. QED
  BY <1>1, <1>2, <1>3, <1>4 DEF FramingInv, FramingKept

LEMMA FramingInvStep == FramingInv /\ [ChunksNext]_chunkVars => FramingInv'
<1> SUFFICES ASSUME FramingInv, [ChunksNext]_chunkVars PROVE FramingInv'
  OBVIOUS
<1>1. ASSUME NEW c \in Csid, Writes(c) \/ Chunk(c) \/ ChunkMisread(c)
      PROVE  FramingInv'
  BY <1>1, WritesKeepFraming, ChunkKeepsFraming, MisreadKeepsFraming
<1>2. CASE UNCHANGED chunkVars
  BY <1>2 DEF chunkVars, FramingInv, ChunkTypes, FramingKept, SizesAgree, StreamFollows, Busy, Begun
<1>3. QED
  BY <1>1, <1>2 DEF ChunksNext

LEMMA FramingInvAlways == ChunksSpec => []FramingInv
<1>1. QED
  BY FramingInvInit, FramingInvStep, PTL DEF ChunksSpec

\* chunk_divider.go and chunk_composer.go agree where each chunk ends, except at a timestamp
\* of 0xFFFFFF and within a message that a new chunk size would hold: for every chunk stream,
\* length, chunk size and timestamp.
THEOREM FramingIsKept == ChunksSpec => []FramingKept
<1>1. FramingInv => FramingKept
  BY DEF FramingInv
<1>2. QED
  BY <1>1, FramingInvAlways, PTL

-----------------------------------------------------------------------------
(* Timestamps.                                                             *)

\* A message with the timestamp that its header says keeps the invariant.
LEMMA MessageKeepsTimestamps ==
    ASSUME FramingInv, TimestampInv, NEW c \in Csid, NEW len \in Nat \ {0}, NEW ts \in Nat,
           NEW fmt \in 0..3, NEW field \in Nat, NEW set \in Nat, Message(c, len, ts, fmt, field, set),
           fmt = 0 => ts = field,
           fmt > 0 => sender[c].ts >= 0 /\ ts = (sender[c].ts + field) % Word
    PROVE  TimestampInv'
<1> SUFFICES ASSUME framed', ~crossed', ~far'
             PROVE  FlagFollows' /\ \A d \in Csid : TimestampFollows(d)'
  BY DEF TimestampInv
<1> DEFINE m == [len |-> len, left |-> len, fmt |-> fmt, field |-> field, set |-> set]
<1>1. /\ framed /\ ~Busy(c) /\ ~crossed /\ stream' = stream /\ absTsFlag' = absTsFlag
      /\ sending' = [sending EXCEPT ![c] = m]
      /\ sender' = [sender EXCEPT ![c] = [ts |-> ts, field |-> field, len |-> len]]
      /\ ~far /\ (fmt > 0 => ~(field >= MaxTimestamp))
  BY DEF Message
<1>2. FlagFollows /\ \A d \in Csid : TimestampFollows(d)
  BY <1>1 DEF TimestampInv
<1>3. /\ sending'[c] = m /\ sender'[c].ts = ts
      /\ \A d \in Csid \ {c} : sending'[d] = sending[d] /\ sender'[d] = sender[d]
  BY <1>1 DEF FramingInv, ChunkTypes
<1>4. /\ Busy(c)' /\ ~Begun(c)' /\ ~Begun(c)
      /\ \A d \in Csid \ {c} : (Busy(d)' <=> Busy(d)) /\ (Begun(d)' <=> Begun(d))
  BY <1>1, <1>3 DEF Busy, Begun
<1>5. FlagFollows'
  BY <1>1, <1>2, <1>3, <1>4 DEF FlagFollows
<1>6. TimestampFollows(c)'
  <2>1. fmt > 0 => field < MaxTimestamp
    BY <1>1, RtmpChunksAssumption
  <2>2. fmt > 0 => stream[c].abs = sender[c].ts
    BY <1>1, <1>2 DEF TimestampFollows
  <2>3. QED
    BY <1>1, <1>3, <1>4, <2>1, <2>2 DEF TimestampFollows
<1>7. ASSUME NEW d \in Csid \ {c}
      PROVE  TimestampFollows(d)'
  BY <1>1, <1>2, <1>3, <1>4 DEF TimestampFollows
<1>8. QED
  BY <1>5, <1>6, <1>7

LEMMA WritesKeepTimestamps ==
    ASSUME FramingInv, TimestampInv, NEW c \in Csid, Writes(c)
    PROVE  TimestampInv'
<1> USE RtmpChunksAssumption
<1>1. ASSUME NEW len \in MsgLen, NEW ts \in Timestamp, SessionWrites(c, len, ts)
      PROVE  TimestampInv'
  <2>1. len \in Nat \ {0} /\ ts \in Nat /\ Message(c, len, ts, 0, ts, 0)
    BY <1>1 DEF SessionWrites
  <2>2. 0 \in Nat /\ 0 \in 0..3 /\ ~(0 >= 2) /\ 0 # 3
    OBVIOUS
  <2>3. QED
    BY <2>1, <2>2, MessageKeepsTimestamps, SMTT(60)
<1>2. CASE SessionSetsChunkSize(c)
  <2>1. Message(c, 1, 0, 0, 0, LocalChunkSize) /\ LocalChunkSize \in Nat
    BY <1>2 DEF SessionSetsChunkSize
  <2>2. 1 \in Nat \ {0} /\ 0 \in Nat /\ 0 \in 0..3 /\ ~(0 >= 2) /\ 0 # 3
    OBVIOUS
  <2>3. QED
    BY <2>1, <2>2, MessageKeepsTimestamps, SMTT(60)
<1>3. ASSUME NEW len \in MsgLen, NEW fmt \in 0..3, NEW field \in Timestamp, OtherWrites(c, len, fmt, field)
      PROVE  TimestampInv'
  <2> DEFINE ts == IF fmt = 0 THEN field ELSE (sender[c].ts + field) % Word
  <2>1. len \in Nat \ {0} /\ field \in Nat
    OBVIOUS
  <2>2. ts \in Nat
    <3>1. sender[c].ts + field \in Int /\ Word \in Nat \ {0}
      BY <2>1 DEF FramingInv, ChunkTypes
    <3>2. (sender[c].ts + field) % Word \in Nat
      BY <3>1, RemainderIsNat
    <3>3. QED
      BY <2>1, <3>2
  <2>3. Message(c, len, ts, fmt, field, 0) /\ (fmt > 0 => sender[c].ts >= 0)
    BY <1>3 DEF OtherWrites
  <2>4. (fmt = 0 => ts = field) /\ (fmt > 0 => ts = (sender[c].ts + field) % Word)
    OBVIOUS
  <2> HIDE DEF ts
  <2>5. QED
    BY <2>1, <2>2, <2>3, <2>4, MessageKeepsTimestamps
<1>4. ASSUME NEW n \in ChunkSize, OtherSetsChunkSize(c, n)
      PROVE  TimestampInv'
  <2>1. Message(c, 1, 0, 0, 0, n) /\ n \in Nat
    BY <1>4 DEF OtherSetsChunkSize
  <2>2. 1 \in Nat \ {0} /\ 0 \in Nat /\ 0 \in 0..3 /\ ~(0 >= 2) /\ 0 # 3
    OBVIOUS
  <2>3. QED
    BY <2>1, <2>2, MessageKeepsTimestamps, SMTT(60)
<1>5. QED
  BY <1>1, <1>2, <1>3, <1>4 DEF Writes

\* So does a chunk, if no message is completed within another one.
LEMMA ChunkKeepsTimestamps ==
    ASSUME FramingInv, TimestampInv, NEW c \in Csid, Chunk(c)
    PROVE  TimestampInv'
<1> SUFFICES ASSUME framed', ~crossed', ~far'
             PROVE  FlagFollows' /\ \A d \in Csid : TimestampFollows(d)'
  BY DEF TimestampInv
<1> DEFINE m == sending[c]
<1>1. /\ framed /\ Busy(c) /\ sender' = sender /\ far' = far
      /\ sending'[c].fmt = m.fmt /\ sending'[c].field = m.field
      /\ stream'[c].abs = ReadAbs(c)
      /\ Busy(c)' <=> ~Complete(c)
      /\ Begun(c)' <=> ~Complete(c)
      /\ \A d \in Csid \ {c} :
            /\ sending'[d] = sending[d] /\ stream'[d] = stream[d]
            /\ Busy(d)' <=> Busy(d)
            /\ Begun(d)' <=> Begun(d)
  BY ChunkEffect
<1>2. /\ absTsFlag' <=> ~Complete(c) /\ (absTsFlag \/ Fmt(c) = 0)
      /\ ~crossed /\ (Complete(c) => \A d \in Csid \ {c} : ~Begun(d))
  BY DEF Chunk, AbsTsFlag
<1>3. FlagFollows /\ \A d \in Csid : TimestampFollows(d)
  BY <1>1, <1>2 DEF TimestampInv
<1>4. m.fmt \in 0..3 /\ m.field \in Nat /\ MaxTimestamp \in Nat /\ stream[c].timestamp \in Nat
      /\ (Fmt(c) = 0 <=> ~Begun(c) /\ m.fmt = 0)
  BY RtmpChunksAssumption DEF FramingInv, ChunkTypes, Fmt
<1>5. FlagFollows'
  <2>1. ASSUME NEW d \in Csid, Begun(d)', sending'[d].fmt = 0
        PROVE  absTsFlag'
    <3>1. CASE d = c
      BY <3>1, <2>1, <1>1, <1>2, <1>3, <1>4 DEF FlagFollows
    <3>2. CASE d # c
      BY <3>2, <2>1, <1>1, <1>2, <1>3 DEF FlagFollows
    <3>3. QED
      BY <3>1, <3>2
  <2>2. ASSUME absTsFlag'
        PROVE  \E d \in Csid : Begun(d)' /\ sending'[d].fmt = 0
    <3>1. ~Complete(c) /\ Begun(c)'
      BY <2>2, <1>1, <1>2
    <3>2. CASE Fmt(c) = 0
      BY <3>1, <3>2, <1>1, <1>4
    <3>3. CASE absTsFlag
      <4>1. PICK d \in Csid : Begun(d) /\ sending[d].fmt = 0
        BY <3>3, <1>3 DEF FlagFollows
      <4>2. Begun(d)' /\ sending'[d].fmt = 0
        BY <4>1, <3>1, <1>1
      <4>3. QED
        BY <4>2
    <3>4. QED
      BY <2>2, <1>2, <3>2, <3>3
  <2>3. QED
    BY <2>1, <2>2 DEF FlagFollows
<1>6. TimestampFollows(c)'
  <2>1. CASE m.fmt = 0
    <3>1. sender[c].ts = m.field
      BY <2>1, <1>1, <1>3 DEF TimestampFollows
    <3>2. ReadAbs(c) = m.field
      <4>1. CASE Begun(c)
        BY <4>1, <2>1, <1>3 DEF ReadAbs, TimestampAbs, Fmt, FlagFollows, TimestampFollows
      <4>2. CASE ~Begun(c)
        BY <4>2, <2>1 DEF ReadAbs, TimestampAbs, Fmt
      <4>3. QED
        BY <4>1, <4>2
    <3>3. QED
      BY <2>1, <3>1, <3>2, <1>1 DEF TimestampFollows
  <2>2. CASE m.fmt > 0
    <3>1. sender[c].ts = (stream[c].abs + m.field) % Word /\ m.field < MaxTimestamp
      BY <2>2, <1>1, <1>3 DEF TimestampFollows
    <3>2. Fmt(c) # 0 /\ (Fmt(c) = 3 => stream[c].timestamp = m.field)
      BY <2>2, <1>1, <1>4 DEF Fmt, FramingInv, StreamFollows
    <3>3. ~ReadsExtended(c, Fmt(c)) /\ ReadTimestamp(c) = m.field
      BY <3>1, <3>2, <1>4 DEF ReadsExtended, HeaderTimestamp, Lesser, ReadTimestamp
    <3>4. TimestampAbs(c, Fmt(c)) = stream[c].abs
      BY <3>2, <3>3 DEF TimestampAbs
    <3>5. Complete(c) => ~absTsFlag
      BY <2>2, <1>2, <1>3 DEF FlagFollows
    <3>6. ReadAbs(c) = IF Complete(c) THEN sender[c].ts ELSE stream[c].abs
      BY <3>1, <3>2, <3>3, <3>4, <3>5 DEF ReadAbs
    <3>7. QED
      BY <2>2, <3>1, <3>6, <1>1 DEF TimestampFollows
  <2>3. QED
    BY <2>1, <2>2, <1>4
<1>7. ASSUME NEW d \in Csid \ {c}
      PROVE  TimestampFollows(d)'
  BY <1>1, <1>3 DEF TimestampFollows
<1>8. QED
  BY <1>5, <1>6, <1>7

LEMMA TimestampInvInit == ChunksInit => TimestampInv
<1> SUFFICES ASSUME ChunksInit PROVE TimestampInv
  OBVIOUS
<1>1. ~absTsFlag /\ \A c \in Csid : ~Busy(c) /\ ~Begun(c) /\ sender[c].ts = -1
  BY DEF ChunksInit, Idle, Busy, Begun
<1>2. ASSUME NEW c \in Csid
      PROVE  TimestampFollows(c)
  <2>1. ~Busy(c) /\ ~Begun(c) /\ ~(sender[c].ts >= 0)
    BY <1>1
  <2>2. QED
    BY <2>1 DEF TimestampFollows
<1>3. FlagFollows
  BY <1>1 DEF FlagFollows
<1>4. QED
  BY <1>2, <1>3 DEF TimestampInv

LEMMA TimestampInvStep == FramingInv /\ TimestampInv /\ [ChunksNext]_chunkVars => TimestampInv'
<1> SUFFICES ASSUME FramingInv, TimestampInv, [ChunksNext]_chunkVars PROVE TimestampInv'
  OBVIOUS
<1>1. ASSUME NEW c \in Csid, Writes(c) \/ Chunk(c)
      PROVE  TimestampInv'
  BY <1>1, WritesKeepTimestamps, ChunkKeepsTimestamps
<1>2. ASSUME NEW c \in Csid, ChunkMisread(c)
      PROVE  TimestampInv'
  BY <1>2 DEF ChunkMisread, TimestampInv
<1>3. CASE UNCHANGED chunkVars
  BY <1>3 DEF chunkVars, TimestampInv, FlagFollows, TimestampFollows, Busy, Begun
<1>4. QED
  BY <1>1, <1>2, <1>3 DEF ChunksNext

\* chunk_composer.go gives every message the timestamp it was sent with, whatever the headers,
\* as long as no message is completed within another one and the differences fit in the header:
\* for every number of chunk streams, and every length and chunk size.
THEOREM TimestampsAreKept == ChunksSpec => []TimestampsKept
<1>1. TimestampInv => TimestampsKept
  BY DEF TimestampInv, TimestampsKept, TimestampFollows
<1>2. QED
  BY <1>1, TimestampInvInit, TimestampInvStep, FramingInvAlways, PTL DEF ChunksSpec

-----------------------------------------------------------------------------
(* The layers together.                                                    *)

\* Each layer of the composition behaves as it does alone.
LEMMA LayersAlone == MediaIoSpec => FairSpec /\ ChunksSpec /\ RtpSpec
<1>1. MediaIoInit => Init /\ ChunksInit /\ RtpInit
  BY DEF MediaIoInit, ConnectionRests, ChunksRest, RtpRests
<1>2. [MediaIoNext]_mediaIoVars => [Next]_vars
  BY DEF MediaIoNext, mediaIoVars, chunkVars, rtpVars
<1>3. [MediaIoNext]_mediaIoVars => [ChunksNext]_chunkVars
  BY DEF MediaIoNext, mediaIoVars, vars, rtpVars
<1>4. [MediaIoNext]_mediaIoVars => [RtpNext]_rtpVars
  BY DEF MediaIoNext, mediaIoVars, vars, chunkVars
<1>5. QED
  BY <1>1, <1>2, <1>3, <1>4, PTL DEF MediaIoSpec, FairSpec, Spec, ChunksSpec, RtpSpec

\* What is written goes out in order, and nothing after Done; divider and composer keep the
\* framing and the timestamps: of the whole of MediaIo.
THEOREM WritingIsSafe ==
    MediaIoSpec => /\ [](TypeOK /\ SentInOrder) /\ NothingAfterDone
                   /\ [](FramingKept /\ TimestampsKept)
<1>1. QED
  BY LayersAlone, TypeCorrect, SendsInOrder, NothingSentAfterDone, FramingIsKept, TimestampsAreKept,
     PTL DEF FairSpec

\* What is received comes out in order and whole, and is reported right: of the whole of MediaIo.
THEOREM ReceivingIsSafe ==
    MediaIoSpec /\ (KeepsNear \/ Timely) =>
        [](FramesInOrder /\ NoFrameGivenUp /\ ReportIsRight)
<1>1. QED
  BY LayersAlone, InOrder, NoneGivenUp, ReportRight, TimelyStreamsSafe, PTL
=============================================================================
