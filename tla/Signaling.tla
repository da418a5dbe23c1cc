------------------------------- MODULE Signaling -------------------------------
(***************************************************************************)
(* The signaling server: a room (signaling/sig-room.go) and the websocket  *)
(* handler of each client (app/sig-app-server.go), which is four           *)
(* goroutines around one context: a reader, a processor of its messages,   *)
(* the handler itself, which writes, and one that cleans up when the       *)
(* context is done; and a goroutine for every Notify.  The channels        *)
(* between them are unbuffered and never closed.                           *)
(*                                                                         *)
(* The rooms do not interact, so there is one.  A client joins it under    *)
(* one display; two clients may want the same.                             *)
(***************************************************************************)
EXTENDS Naturals, SequencesExt

CONSTANTS
    Client,     \* connections to the server
    Displays,   \* the displays they may join under: each choice is a function of the client
    Leaving,    \* the clients that may disconnect
    Action,     \* what clients send after their first message, a join
    MaxMsg,     \* bound: messages of each client
    NoOne       \* no participant

ASSUME SignalingAssumption ==
    /\ Leaving \subseteq Client
    /\ Action \subseteq {"join", "publish", "control"}
    /\ MaxMsg \in [Client -> Nat]
    /\ NoOne \notin Client \X Nat

VARIABLES
    display,  \* the display each client joins under
    room,     \* Room.Participants
    gone,     \* the client has disconnected
    sent,     \* messages the client has sent
    buf,      \* the reader's buffer, which its messages share
    reader,   \* where the reader is
    proc,     \* where the processor is
    taken,    \* the messages the processor has received, the last one first
    self,     \* the participant that the handler has joined as
    writer,   \* where the handler itself is
    done,     \* the handler's context is done
    cleanup,  \* where the clean-up goroutine is
    notify,   \* each Notify: where it is, about whom, and whom it has still to tell
    crashed   \* an unrecovered panic ended the process

readerVars == <<gone, sent, buf, reader>>
procVars == <<proc, taken, self>>
vars == <<display, room, readerVars, procVars, writer, done, cleanup, notify, crashed>>

\* a participant is a client and the number of its join among its messages
Participant == UNION {{c} \X (1..MaxMsg[c]) : c \in Client}
Display(p) == display[p[1]]

\* a Notify belongs to a client's k-th message, or for k = 0 to its clean-up
Task == Participant \cup (Client \X {0})
Idle == [pc |-> "none", peer |-> NoOne, todo |-> <<>>]
Fresh(p) == [pc |-> "list", peer |-> p, todo |-> <<>>]

Init ==
    /\ display \in Displays
    /\ room = <<>>
    /\ gone = [c \in Client |-> FALSE]
    /\ sent = [c \in Client |-> 0]
    /\ buf = [c \in Client |-> "join"]
    /\ reader = [c \in Client |-> "read"]
    /\ proc = [c \in Client |-> "wait"]
    /\ taken = [c \in Client |-> <<>>]
    /\ self = [c \in Client |-> NoOne]
    /\ writer = [c \in Client |-> "range"]
    /\ done = [c \in Client |-> FALSE]
    /\ cleanup = [c \in Client |-> "wait"]
    /\ notify = [t \in Task |-> Idle]
    /\ crashed = FALSE

-----------------------------------------------------------------------------
(* The client, and the reader.                                             *)

Disconnect(c) ==
    /\ c \in Leaving /\ ~gone[c]
    /\ gone' = [gone EXCEPT ![c] = TRUE]
    /\ UNCHANGED <<room, sent, buf, reader, procVars, writer, done, cleanup, notify, crashed>>

\* a message arrives in the buffer, and is offered to the processor
Read(c) ==
    /\ reader[c] = "read"
    /\ sent[c] < MaxMsg[c]
    /\ sent' = [sent EXCEPT ![c] = @ + 1]
    /\ \E a \in IF sent[c] = 0 THEN {"join"} ELSE Action : buf' = [buf EXCEPT ![c] = a]
    /\ reader' = [reader EXCEPT ![c] = "offer"]
    /\ UNCHANGED <<room, gone, procVars, writer, done, cleanup, notify, crashed>>

\* mutant of ReadFails: the reader returns without cancelling
ReadFailsSilently(c) ==
    /\ reader[c] = "read"
    /\ gone[c] \/ writer[c] = "ended"
    /\ reader' = [reader EXCEPT ![c] = "ended"]
    /\ UNCHANGED <<room, gone, sent, buf, procVars, writer, done, cleanup, notify, crashed>>

\* the client is gone, or the handler has returned and closed the connection
ReadFails(c) ==
    /\ reader[c] = "read"
    /\ gone[c] \/ writer[c] = "ended"
    /\ reader' = [reader EXCEPT ![c] = "ended"]
    /\ done' = [done EXCEPT ![c] = TRUE]
    /\ UNCHANGED <<room, gone, sent, buf, procVars, writer, cleanup, notify, crashed>>

\* the select of the reader, which reads on when the context is done
OfferTaken(c) ==
    /\ reader[c] = "offer"
    /\ proc[c] = "wait"
    /\ reader' = [reader EXCEPT ![c] = "read"]
    /\ proc' = [proc EXCEPT ![c] = "handle"]
    /\ taken' = [taken EXCEPT ![c] = <<buf[c]>> \o @]
    /\ UNCHANGED <<room, gone, sent, buf, self, writer, done, cleanup, notify, crashed>>

OfferDropped(c) ==
    /\ reader[c] = "offer"
    /\ done[c]
    /\ reader' = [reader EXCEPT ![c] = "read"]
    /\ UNCHANGED <<room, gone, sent, buf, procVars, writer, done, cleanup, notify, crashed>>

-----------------------------------------------------------------------------
(* The processor.                                                          *)

\* handleMessage unmarshals a slice of the buffer that the reader may be reading the
\* next message into: the old one, the new one, or neither
Unmarshalled(c) ==
    IF reader[c] = "read" /\ sent[c] = Len(taken[c])
    THEN {Head(taken[c])}
    ELSE {Head(taken[c]), buf[c], "invalid"}

Member(c) == {p \in ToSet(room) : Display(p) = display[c]}

\* handleMessage returns an error: the loop breaks, and the context is cancelled
ProcessorEnds(c) ==
    /\ proc' = [proc EXCEPT ![c] = "ended"]
    /\ done' = [done EXCEPT ![c] = TRUE]

\* mutant of Join: Room.Add does not look for the display
JoinUnchecked(c) ==
    /\ proc[c] = "handle"
    /\ "join" \in Unmarshalled(c)
    /\ room' = Append(room, <<c, Len(taken[c])>>)
    /\ proc' = [proc EXCEPT ![c] = "joined"]
    /\ UNCHANGED <<readerVars, taken, self, writer, done, cleanup, notify, crashed>>

\* mutant of Join: a new participant takes the place of the one with its display
JoinReplaces(c) ==
    /\ proc[c] = "handle"
    /\ "join" \in Unmarshalled(c)
    /\ room' = Append(SelectSeq(room, LAMBDA r : Display(r) # display[c]), <<c, Len(taken[c])>>)
    /\ proc' = [proc EXCEPT ![c] = "joined"]
    /\ UNCHANGED <<readerVars, taken, self, writer, done, cleanup, notify, crashed>>

\* Room.Add, unless the display is taken
Join(c) ==
    /\ proc[c] = "handle"
    /\ "join" \in Unmarshalled(c)
    /\ IF Member(c) = {}
       THEN /\ room' = Append(room, <<c, Len(taken[c])>>)
            /\ proc' = [proc EXCEPT ![c] = "joined"]
            /\ UNCHANGED done
       ELSE /\ ProcessorEnds(c)
            /\ UNCHANGED room
    /\ UNCHANGED <<readerVars, taken, self, writer, cleanup, notify, crashed>>

\* self is set after the participant was added, and the others are notified
Joined(c) ==
    /\ proc[c] = "joined"
    /\ LET p == <<c, Len(taken[c])>> IN
        /\ self' = [self EXCEPT ![c] = p]
        /\ notify' = [notify EXCEPT ![p] = Fresh(p)]
    /\ proc' = [proc EXCEPT ![c] = "answer"]
    /\ UNCHANGED <<room, readerVars, taken, writer, done, cleanup, crashed>>

\* Room.Get finds who publishes, or controls, by its display; Publishing is set through
\* nil if nobody is found, and a control goes out without a peer
Announce(c) ==
    /\ proc[c] = "handle"
    /\ \E a \in Unmarshalled(c) \cap {"publish", "control"} :
        IF Member(c) = {} /\ a = "publish"
        THEN /\ crashed' = TRUE
             /\ UNCHANGED <<proc, notify>>
        ELSE /\ \E p \in IF Member(c) = {} THEN {NoOne} ELSE Member(c) :
                    notify' = [notify EXCEPT ![<<c, Len(taken[c])>>] = Fresh(p)]
             /\ proc' = [proc EXCEPT ![c] = "answer"]
             /\ UNCHANGED crashed
    /\ UNCHANGED <<room, readerVars, taken, self, writer, done, cleanup>>

Invalid(c) ==
    /\ proc[c] = "handle"
    /\ "invalid" \in Unmarshalled(c)
    /\ ProcessorEnds(c)
    /\ UNCHANGED <<room, readerVars, taken, self, writer, cleanup, notify, crashed>>

\* the select that hands the answer to the handler, or finds the context done
Answer(c) ==
    /\ proc[c] = "answer"
    /\ writer[c] = "range"
    /\ proc' = [proc EXCEPT ![c] = "wait"]
    /\ writer' = [writer EXCEPT ![c] = "write"]
    /\ UNCHANGED <<room, readerVars, taken, self, done, cleanup, notify, crashed>>

\* mutant of AnswerDropped: the answer is sent without a select
AnswerWaits(c) == FALSE

AnswerDropped(c) ==
    /\ proc[c] = "answer"
    /\ done[c]
    /\ ProcessorEnds(c)
    /\ UNCHANGED <<room, readerVars, taken, self, writer, cleanup, notify, crashed>>

-----------------------------------------------------------------------------
(* The handler itself, and the clean-up.                                   *)

Writes(c) ==
    /\ writer[c] = "write"
    /\ writer' = [writer EXCEPT ![c] = "range"]
    /\ UNCHANGED <<room, readerVars, procVars, done, cleanup, notify, crashed>>

\* a write to a client that has gone may fail; the handler returns, and cancels
WriteFails(c) ==
    /\ writer[c] = "write"
    /\ gone[c]
    /\ writer' = [writer EXCEPT ![c] = "ended"]
    /\ done' = [done EXCEPT ![c] = TRUE]
    /\ UNCHANGED <<room, readerVars, procVars, cleanup, notify, crashed>>

\* the context is done: who has joined is announced to have left, and then removed
Leave(c) ==
    /\ cleanup[c] = "wait"
    /\ done[c]
    /\ IF self[c] = NoOne
       THEN /\ cleanup' = [cleanup EXCEPT ![c] = "ended"]
            /\ UNCHANGED notify
       ELSE /\ cleanup' = [cleanup EXCEPT ![c] = "remove"]
            /\ notify' = [notify EXCEPT ![<<c, 0>>] = Fresh(self[c])]
    /\ UNCHANGED <<room, readerVars, procVars, writer, done, crashed>>

\* Room.Remove
RemoveMember(p) == room' = RemoveFirst(room, p)

LeaveRemove(c) ==
    /\ cleanup[c] = "remove"
    /\ RemoveMember(self[c])
    /\ cleanup' = [cleanup EXCEPT ![c] = "ended"]
    /\ UNCHANGED <<readerVars, procVars, writer, done, notify, crashed>>

-----------------------------------------------------------------------------
(* Room.Notify, in a goroutine of its own.                                 *)

\* the participants are copied under the read lock; the peer is among them once, if at all
List(t) ==
    /\ notify[t].pc = "list"
    /\ notify' = [notify EXCEPT ![t].pc = "tell",
                                ![t].todo = RemoveFirst(room, notify[t].peer)]
    /\ UNCHANGED <<room, readerVars, procVars, writer, done, cleanup, crashed>>

\* the leave is told with a context that is never done
Background(t) == t[2] = 0

\* one participant is told, and the handler that receives it writes it
Tell(t) ==
    /\ notify[t].pc = "tell" /\ notify[t].todo # <<>>
    /\ LET c == Head(notify[t].todo)[1] IN
        /\ writer[c] = "range"
        /\ writer' = [writer EXCEPT ![c] = "write"]
    /\ notify' = [notify EXCEPT ![t].todo = Tail(@)]
    /\ UNCHANGED <<room, readerVars, procVars, done, cleanup, crashed>>

\* everybody is told, or the context is done and the rest is not
NotifyEnds(t) ==
    /\ notify[t].pc = "tell"
    /\ notify[t].todo = <<>> \/ (done[t[1]] /\ ~Background(t))
    /\ notify' = [notify EXCEPT ![t] = Idle]
    /\ UNCHANGED <<room, readerVars, procVars, writer, done, cleanup, crashed>>

-----------------------------------------------------------------------------
ReaderStep(c) == Read(c) \/ ReadFails(c) \/ OfferTaken(c) \/ OfferDropped(c)

ProcessorStep(c) ==
    Join(c) \/ Joined(c) \/ Announce(c) \/ Invalid(c) \/ Answer(c) \/ AnswerDropped(c)

WriterStep(c) == Writes(c) \/ WriteFails(c)

CleanupStep(c) == Leave(c) \/ LeaveRemove(c)

NotifyStep(t) == List(t) \/ Tell(t) \/ NotifyEnds(t)

Next ==
    /\ ~crashed
    /\ UNCHANGED display
    /\ \/ \E c \in Client :
            Disconnect(c) \/ ReaderStep(c) \/ ProcessorStep(c) \/ WriterStep(c) \/ CleanupStep(c)
       \/ \E t \in Task : NotifyStep(t)

Spec == Init /\ [][Next]_vars

\* Goroutines go on, and a write to a client ends; nobody has to connect, to send or to
\* disconnect.  A client's messages are bounded, and so is every step that follows from
\* them: to be fair to one of them is to be fair to all.
GoesOn ==
    \/ \E c \in Client :
        \/ ReadFails(c) \/ OfferTaken(c) \/ OfferDropped(c)
        \/ ProcessorStep(c) \/ WriterStep(c) \/ CleanupStep(c)
    \/ \E t \in Task : NotifyStep(t)

Fairness == WF_vars(~crashed /\ GoesOn /\ UNCHANGED display)

FairSpec == Spec /\ Fairness

-----------------------------------------------------------------------------
(* Properties.                                                             *)

\* Every variable stays in its type; a participant is in the room once, and the client it
\* belongs to has received its join.
TypeOK ==
    /\ display \in Displays
    /\ room \in Seq(Participant) /\ IsInjective(room)
    /\ gone \in [Client -> BOOLEAN]
    /\ sent \in [Client -> Nat] /\ \A c \in Client : sent[c] <= MaxMsg[c]
    /\ buf \in [Client -> {"join", "publish", "control"}]
    /\ reader \in [Client -> {"read", "offer", "ended"}]
    /\ proc \in [Client -> {"wait", "handle", "joined", "answer", "ended"}]
    /\ taken \in [Client -> Seq({"join", "publish", "control"})]
    /\ \A c \in Client : Len(taken[c]) <= sent[c]
    /\ self \in [Client -> Participant \cup {NoOne}]
    /\ writer \in [Client -> {"range", "write", "ended"}]
    /\ done \in [Client -> BOOLEAN]
    /\ cleanup \in [Client -> {"wait", "remove", "ended"}]
    /\ notify \in [Task -> [pc : {"none", "list", "tell"}, peer : Participant \cup {NoOne},
                            todo : Seq(Participant)]]
    /\ crashed \in BOOLEAN

\* No two participants of the room have the same display, which Get and the clients
\* identify them by.
UniqueDisplay ==
    \A p, q \in ToSet(room) : Display(p) = Display(q) => p = q

\* Who has joined stays in the room until its own clean-up removes it, whoever else comes,
\* leaves or is refused the display meanwhile.
JoinedUntilCleanup ==
    \A c \in Client : self[c] # NoOne /\ cleanup[c] # "ended" => self[c] \in ToSet(room)

\* Once a client that has joined is gone it leaves the room: the reader notices, or
\* the writer or the processor fails, and the clean-up runs.
GoneLeaves ==
    \A c \in Client :
        self[c] # NoOne /\ cleanup[c] = "wait" /\ gone[c]
            ~> (\A p \in ToSet(room) : p[1] # c) \/ crashed

\* A message that was handled is answered or its connection has ended: the processor
\* never hangs on the handler, in whatever order handler, context and Notifies end.
Answered ==
    \A c \in Client : proc[c] = "answer" ~> proc[c] # "answer" \/ crashed

\* app/sig-app-server.go line 62: notify other peers that we're quitting.  A leave that is
\* being told never waits for a handler that has returned, while peers that are still
\* connected come after it.
LeaveReachesAll ==
    \A c \in Client : LET todo == notify[<<c, 0>>].todo IN
        todo # <<>> /\ writer[Head(todo)[1]] = "ended" =>
            \A p \in ToSet(Tail(todo)) : gone[p[1]] \/ done[p[1]]
=============================================================================
