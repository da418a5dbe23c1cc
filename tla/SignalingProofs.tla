---------------------------- MODULE SignalingProofs ----------------------------
(***************************************************************************)
(* Theorems about Signaling, for every set of clients, every choice of     *)
(* their displays and every number of their messages.                      *)
(***************************************************************************)
EXTENDS Signaling, SequenceTheorems, TLAPS

-----------------------------------------------------------------------------
(* Lists as sets of their elements.                                        *)

\* Append adds an element at the end, and a new one keeps the list free of duplicates.
LEMMA AppendSet ==
    ASSUME NEW S, NEW s \in Seq(S), NEW x \in S
    PROVE  /\ Append(s, x) \in Seq(S)
           /\ ToSet(Append(s, x)) = ToSet(s) \cup {x}
           /\ IsInjective(s) /\ x \notin ToSet(s) => IsInjective(Append(s, x))
<1>1. /\ Append(s, x) \in Seq(S)
      /\ Len(Append(s, x)) = Len(s) + 1
      /\ \A i \in 1..Len(s) : Append(s, x)[i] = s[i]
      /\ Append(s, x)[Len(s) + 1] = x
  BY AppendProperties
<1>2. Len(s) \in Nat /\ DOMAIN s = 1..Len(s) /\ DOMAIN Append(s, x) = 1..(Len(s) + 1)
  BY <1>1, LenProperties
<1>3. ToSet(Append(s, x)) = ToSet(s) \cup {x}
  <2>1. ASSUME NEW y \in ToSet(Append(s, x)) PROVE y \in ToSet(s) \cup {x}
    <3>1. PICK i \in 1..(Len(s) + 1) : y = Append(s, x)[i]
      BY <1>2 DEF ToSet
    <3>2. CASE i \in 1..Len(s)
      BY <1>1, <1>2, <3>1, <3>2 DEF ToSet
    <3>3. CASE i = Len(s) + 1
      BY <1>1, <3>1, <3>3
    <3> QED BY <1>2, <3>2, <3>3
  <2>2. ASSUME NEW y \in ToSet(s) PROVE y \in ToSet(Append(s, x))
    <3>1. PICK i \in 1..Len(s) : y = s[i]
      BY <1>2 DEF ToSet
    <3>2. i \in 1..(Len(s) + 1) /\ y = Append(s, x)[i]
      BY <1>1, <1>2, <3>1
    <3> QED BY <1>2, <3>2 DEF ToSet
  <2>3. x \in ToSet(Append(s, x))
    BY <1>1, <1>2 DEF ToSet
  <2> QED BY <2>1, <2>2, <2>3
<1>4. ASSUME IsInjective(s), x \notin ToSet(s) PROVE IsInjective(Append(s, x))
  <2>1. \A i \in 1..Len(s) : s[i] # x
    BY <1>2, <1>4 DEF ToSet
  <2>2. ASSUME NEW i \in 1..(Len(s) + 1), NEW j \in 1..(Len(s) + 1), Append(s, x)[i] = Append(s, x)[j]
        PROVE  i = j
    BY <1>1, <1>2, <1>4, <2>1, <2>2 DEF IsInjective
  <2> QED BY <1>2, <2>2 DEF IsInjective
<1> QED BY <1>1, <1>3, <1>4

\* RemoveFirst takes one element out of a list without duplicates, and no other.
LEMMA RemoveSet ==
    ASSUME NEW S, NEW s \in Seq(S), IsInjective(s), NEW x
    PROVE  /\ RemoveFirst(s, x) \in Seq(S)
           /\ IsInjective(RemoveFirst(s, x))
           /\ ToSet(RemoveFirst(s, x)) = ToSet(s) \ {x}
<1>1. Len(s) \in Nat /\ DOMAIN s = 1..Len(s) /\ \A i \in 1..Len(s) : s[i] \in S
  BY LenProperties, ElementOfSeq
<1>2. CASE ~\E i \in 1..Len(s) : s[i] = x
  <2>1. RemoveFirst(s, x) = s
    BY <1>2 DEF RemoveFirst
  <2> QED BY <1>1, <1>2, <2>1 DEF ToSet
<1>3. CASE \E i \in 1..Len(s) : s[i] = x
  <2>1. PICK n \in 1..Len(s) : s[n] = x
    BY <1>3
  <2>2. {i \in 1..Len(s) : s[i] = x} = {n}
    BY <1>1, <2>1 DEF IsInjective
  <2>3. Min({n}) = n
    <3>1. n \in {n} /\ \A y \in {n} : n =< y
      BY <1>1
    <3> QED BY <3>1 DEF Min
  <2>4. SelectInSeq(s, LAMBDA v : v = x) = n
    BY <2>2, <2>3 DEF SelectInSeq
  <2>5. RemoveFirst(s, x) = SubSeq(s, 1, n - 1) \o SubSeq(s, n + 1, Len(s))
    BY <1>3, <2>4 DEF RemoveFirst, RemoveAt
  <2> DEFINE a == SubSeq(s, 1, n - 1)
             b == SubSeq(s, n + 1, Len(s))
             r == a \o b
  <2>6. /\ a \in Seq(S) /\ Len(a) = n - 1
        /\ \A i \in 1..(n - 1) : a[i] = s[i]
    <3>1. \A i \in 1..(n - 1) : s[i] \in S
      BY <1>1
    <3> QED BY <1>1, <3>1, SubSeqProperties
  <2>7. /\ b \in Seq(S) /\ Len(b) = Len(s) - n
        /\ \A i \in 1..(Len(s) - n) : b[i] = s[n + i]
    <3>1. \A i \in (n + 1)..Len(s) : s[i] \in S
      BY <1>1
    <3>2. n + 1 \in Int /\ Len(s) \in Int
      BY <1>1
    <3>3. /\ b \in Seq(S)
          /\ Len(b) = IF n + 1 <= Len(s) THEN Len(s) - (n + 1) + 1 ELSE 0
          /\ \A i \in 1..(Len(s) - (n + 1) + 1) : b[i] = s[(n + 1) + i - 1]
      BY <3>1, <3>2, SubSeqProperties
    <3>4. ASSUME NEW i \in 1..(Len(s) - n) PROVE b[i] = s[n + i]
      <4>1. i \in 1..(Len(s) - (n + 1) + 1) /\ (n + 1) + i - 1 = n + i
        BY <1>1
      <4> QED BY <3>3, <4>1
    <3>5. Len(b) = Len(s) - n
      <4>1. CASE n < Len(s)
        <5>1. n + 1 <= Len(s) /\ Len(s) - (n + 1) + 1 = Len(s) - n
          BY <1>1, <4>1
        <5> QED BY <3>3, <5>1
      <4>2. CASE n = Len(s)
        <5>1. ~(n + 1 <= Len(s)) /\ Len(s) - n = 0
          BY <1>1, <4>2
        <5> QED BY <3>3, <5>1
      <4>3. n < Len(s) \/ n = Len(s)
        <5>1. n \in Nat /\ Len(s) \in Nat /\ n <= Len(s)
          BY <1>1
        <5> QED BY <5>1
      <4> QED BY <4>1, <4>2, <4>3
    <3> QED BY <3>3, <3>4, <3>5
  <2> HIDE DEF a, b
  <2>8. r \in Seq(S) /\ Len(r) = Len(s) - 1
    <3>1. a \o b \in Seq(S) /\ Len(a \o b) = Len(a) + Len(b)
      BY <2>6, <2>7, ConcatProperties
    <3> QED BY <1>1, <2>6, <2>7, <3>1
  <2>9. \A i \in 1..(Len(s) - 1) : r[i] = IF i < n THEN s[i] ELSE s[i + 1]
    <3>1. \A i \in 1..(Len(a) + Len(b)) : (a \o b)[i] = IF i <= Len(a) THEN a[i] ELSE b[i - Len(a)]
      BY <2>6, <2>7, ConcatProperties
    <3>2. r = a \o b
      OBVIOUS
    <3> HIDE DEF r
    <3>3. ASSUME NEW i \in 1..(Len(s) - 1) PROVE r[i] = IF i < n THEN s[i] ELSE s[i + 1]
      <4>1. CASE i < n
        BY <1>1, <2>6, <2>7, <3>1, <3>2, <4>1
      <4>2. CASE ~(i < n)
        <5>1. i - Len(a) \in 1..(Len(s) - n) /\ n + (i - Len(a)) = i + 1
          BY <1>1, <2>6, <4>2
        <5>2. r[i] = b[i - Len(a)]
          BY <1>1, <2>6, <2>7, <3>1, <3>2, <4>2
        <5> QED BY <2>7, <4>2, <5>1, <5>2
      <4> QED BY <4>1, <4>2
    <3> QED BY <3>3
  <2>10. DOMAIN r = 1..(Len(s) - 1)
    BY <2>8, LenProperties
  <2> HIDE DEF r
  <2>11. IsInjective(r)
    <3>1. ASSUME NEW i \in 1..(Len(s) - 1), NEW j \in 1..(Len(s) - 1), r[i] = r[j] PROVE i = j
      <4> DEFINE k(m) == IF m < n THEN m ELSE m + 1
      <4>1. k(i) \in 1..Len(s) /\ k(j) \in 1..Len(s)
        BY <1>1
      <4>2. s[k(i)] = s[k(j)]
        BY <2>9, <3>1
      <4>3. k(i) = k(j)
        BY <1>1, <4>1, <4>2 DEF IsInjective
      <4> QED BY <1>1, <4>3
    <3> QED BY <2>10, <3>1 DEF IsInjective
  <2>12. ASSUME NEW y \in ToSet(r) PROVE y \in ToSet(s) /\ y # x
    <3>1. PICK i \in 1..(Len(s) - 1) : y = r[i]
      BY <2>10 DEF ToSet
    <3>2. PICK j \in 1..Len(s) : y = s[j] /\ j # n
      BY <1>1, <2>9, <3>1
    <3> QED BY <1>1, <2>1, <3>2 DEF ToSet, IsInjective
  <2>13. ASSUME NEW y \in ToSet(s), y # x PROVE y \in ToSet(r)
    <3>1. PICK j \in 1..Len(s) : y = s[j]
      BY <1>1 DEF ToSet
    <3>2. j # n
      BY <2>1, <2>13, <3>1
    <3>3. CASE j < n
      BY <1>1, <2>9, <2>10, <3>1, <3>3 DEF ToSet
    <3>4. CASE j > n
      <4>1. j - 1 \in 1..(Len(s) - 1) /\ ~(j - 1 < n) /\ (j - 1) + 1 = j
        BY <1>1, <3>4
      <4> QED BY <2>9, <2>10, <3>1, <4>1 DEF ToSet
    <3> QED BY <1>1, <3>2, <3>3, <3>4
  <2> QED BY <2>5, <2>8, <2>11, <2>12, <2>13 DEF r, a, b
<1> QED BY <1>2, <1>3

-----------------------------------------------------------------------------
(* The inductive invariant.                                                *)

\* The types that the room's properties need.
RoomTypes ==
    /\ room \in Seq(Client \X Nat) /\ IsInjective(room)
    /\ buf \in [Client -> {"join", "publish", "control"}]
    /\ proc \in [Client -> {"wait", "handle", "joined", "answer", "ended"}]
    /\ taken \in [Client -> Seq({"join", "publish", "control"})]
    /\ self \in [Client -> (Client \X Nat) \cup {NoOne}]
    /\ cleanup \in [Client -> {"wait", "remove", "ended"}]

\* What the handler has joined as is its own; between Room.Add and the assignment of self
\* the new participant is in the room, and none from before waits for its removal.
SelfInv ==
    /\ \A c \in Client : self[c] # NoOne => self[c][1] = c
    /\ \A c \in Client : cleanup[c] = "remove" => self[c] # NoOne
    /\ \A c \in Client : proc[c] = "joined" =>
        /\ <<c, Len(taken[c])>> \in ToSet(room)
        /\ self[c] = NoOne \/ cleanup[c] = "ended"

RoomInv == RoomTypes /\ SelfInv /\ UniqueDisplay /\ JoinedUntilCleanup

\* the first state: the room is empty and nobody has joined
LEMMA InitHolds == Init => RoomInv
<1> SUFFICES ASSUME Init PROVE RoomInv
  OBVIOUS
<1>1. room = <<>> /\ ToSet(room) = {} /\ IsInjective(room)
  BY DEF Init, ToSet, IsInjective
<1>2. RoomTypes
  BY <1>1 DEF Init, RoomTypes
<1>3. SelfInv /\ UniqueDisplay /\ JoinedUntilCleanup
  BY <1>1 DEF Init, SelfInv, UniqueDisplay, JoinedUntilCleanup
<1> QED BY <1>2, <1>3 DEF RoomInv

\* Join adds a participant whose display nobody in the room has, or nobody.
LEMMA JoinStep ==
    ASSUME RoomInv, NEW c \in Client, Join(c), UNCHANGED display
    PROVE  RoomInv'
<1> DEFINE p == <<c, Len(taken[c])>>
<1>0. RoomTypes /\ SelfInv /\ UniqueDisplay /\ JoinedUntilCleanup
  BY DEF RoomInv
<1>1. p \in Client \X Nat /\ Display(p) = display[c] /\ p # NoOne
  BY <1>0, LenProperties, SignalingAssumption DEF RoomTypes, Display
<1>2. UNCHANGED <<buf, taken, self, cleanup>> /\ proc[c] = "handle"
  BY DEF Join, readerVars
<1>3. CASE Member(c) = {} /\ room' = Append(room, p) /\ proc' = [proc EXCEPT ![c] = "joined"]
  <2>1. \A q \in ToSet(room) : Display(q) # display[c]
    BY <1>3 DEF Member
  <2>2. p \notin ToSet(room)
    BY <1>1, <2>1
  <2>3. room' \in Seq(Client \X Nat) /\ ToSet(room') = ToSet(room) \cup {p} /\ IsInjective(room')
    BY <1>0, <1>1, <1>3, <2>2, AppendSet DEF RoomTypes
  <2>4. proc' \in [Client -> {"wait", "handle", "joined", "answer", "ended"}]
    BY <1>0, <1>3 DEF RoomTypes
  <2>5. RoomTypes'
    BY <1>0, <1>2, <2>3, <2>4 DEF RoomTypes
  <2>6. UniqueDisplay'
    BY <1>0, <1>1, <2>1, <2>3 DEF UniqueDisplay, Display
  <2>7. JoinedUntilCleanup'
    BY <1>0, <1>2, <2>3 DEF JoinedUntilCleanup
  <2>8. self[c] = NoOne \/ cleanup[c] = "ended"
    <3>1. ASSUME self[c] # NoOne, cleanup[c] # "ended" PROVE FALSE
      <4>1. self[c] \in ToSet(room) /\ Display(self[c]) = display[c]
        BY <1>0, <3>1 DEF JoinedUntilCleanup, SelfInv, Display
      <4> QED BY <2>1, <4>1
    <3> QED BY <3>1
  <2>9. \A d \in Client : d # c => proc'[d] = proc[d]
    BY <1>0, <1>3 DEF RoomTypes
  <2>10. SelfInv'
    BY <1>0, <1>2, <2>3, <2>8, <2>9 DEF SelfInv
  <2> QED BY <2>5, <2>6, <2>7, <2>10 DEF RoomInv
<1>4. CASE room' = room /\ ProcessorEnds(c)
  <2>1. proc' = [proc EXCEPT ![c] = "ended"]
    BY <1>4 DEF ProcessorEnds
  <2>2. RoomTypes'
    BY <1>0, <1>2, <1>4, <2>1 DEF RoomTypes
  <2>3. SelfInv'
    BY <1>0, <1>2, <1>4, <2>1 DEF SelfInv, RoomTypes
  <2>4. UniqueDisplay' /\ JoinedUntilCleanup'
    BY <1>0, <1>2, <1>4 DEF UniqueDisplay, JoinedUntilCleanup, Display
  <2> QED BY <2>2, <2>3, <2>4 DEF RoomInv
<1> QED BY <1>3, <1>4 DEF Join

\* The handler has joined as the participant that its Join added.
LEMMA JoinedStep ==
    ASSUME RoomInv, NEW c \in Client, Joined(c), UNCHANGED display
    PROVE  RoomInv'
<1> DEFINE p == <<c, Len(taken[c])>>
<1>0. RoomTypes /\ SelfInv /\ UniqueDisplay /\ JoinedUntilCleanup
  BY DEF RoomInv
<1>1. p \in Client \X Nat /\ p # NoOne /\ p[1] = c
  BY <1>0, LenProperties, SignalingAssumption DEF RoomTypes
<1>2. /\ UNCHANGED <<room, buf, taken, cleanup>> /\ proc[c] = "joined"
      /\ self' = [self EXCEPT ![c] = p]
      /\ proc' = [proc EXCEPT ![c] = "answer"]
  BY DEF Joined, readerVars
<1>3. RoomTypes'
  BY <1>0, <1>1, <1>2 DEF RoomTypes
<1>4. /\ self'[c] = p /\ proc'[c] = "answer"
      /\ \A d \in Client : d # c => self'[d] = self[d] /\ proc'[d] = proc[d]
  BY <1>0, <1>2 DEF RoomTypes
<1>5. SelfInv'
  BY <1>0, <1>1, <1>2, <1>4 DEF SelfInv
<1>6. p \in ToSet(room)
  BY <1>0, <1>2 DEF SelfInv
<1>7. JoinedUntilCleanup'
  BY <1>0, <1>2, <1>4, <1>6 DEF JoinedUntilCleanup
<1>8. UniqueDisplay'
  BY <1>0, <1>2 DEF UniqueDisplay, Display
<1> QED BY <1>3, <1>5, <1>7, <1>8 DEF RoomInv

\* The clean-up takes its own participant out of the room, and no other.
LEMMA RemoveStep ==
    ASSUME RoomInv, NEW c \in Client, LeaveRemove(c), UNCHANGED display
    PROVE  RoomInv'
<1>0. RoomTypes /\ SelfInv /\ UniqueDisplay /\ JoinedUntilCleanup
  BY DEF RoomInv
<1>1. /\ UNCHANGED <<buf, proc, taken, self>>
      /\ room' = RemoveFirst(room, self[c])
      /\ cleanup[c] = "remove" /\ cleanup' = [cleanup EXCEPT ![c] = "ended"]
  BY DEF LeaveRemove, RemoveMember, readerVars, procVars
<1>2. /\ room' \in Seq(Client \X Nat) /\ IsInjective(room')
      /\ ToSet(room') = ToSet(room) \ {self[c]}
  BY <1>0, <1>1, RemoveSet DEF RoomTypes
<1>3. RoomTypes'
  BY <1>0, <1>1, <1>2 DEF RoomTypes
<1>4. cleanup'[c] = "ended" /\ \A d \in Client : d # c => cleanup'[d] = cleanup[d]
  BY <1>0, <1>1 DEF RoomTypes
<1>5. self[c] # NoOne /\ self[c][1] = c /\ proc[c] # "joined"
  BY <1>0, <1>1 DEF SelfInv
<1>6. \A d \in Client : d # c /\ self[d] # NoOne => self[d] # self[c]
  BY <1>0, <1>5 DEF SelfInv
<1>7. \A d \in Client : d # c => <<d, Len(taken[d])>> # self[c]
  BY <1>5
<1>8. SelfInv'
  BY <1>0, <1>1, <1>2, <1>4, <1>5, <1>7 DEF SelfInv
<1>9. JoinedUntilCleanup'
  BY <1>0, <1>1, <1>2, <1>4, <1>6 DEF JoinedUntilCleanup
<1>10. UniqueDisplay'
  BY <1>0, <1>2 DEF UniqueDisplay, Display
<1> QED BY <1>3, <1>8, <1>9, <1>10 DEF RoomInv

\* The clean-up announces who has joined; who has not joined by then is not removed later.
LEMMA LeaveStep ==
    ASSUME RoomInv, NEW c \in Client, Leave(c), UNCHANGED display
    PROVE  RoomInv'
<1>0. RoomTypes /\ SelfInv /\ UniqueDisplay /\ JoinedUntilCleanup
  BY DEF RoomInv
<1>1. /\ UNCHANGED <<room, buf, proc, taken, self>> /\ cleanup[c] = "wait"
      /\ cleanup' = [cleanup EXCEPT ![c] = IF self[c] = NoOne THEN "ended" ELSE "remove"]
  BY DEF Leave, readerVars, procVars
<1>2. /\ cleanup'[c] = IF self[c] = NoOne THEN "ended" ELSE "remove"
      /\ \A d \in Client : d # c => cleanup'[d] = cleanup[d]
  BY <1>0, <1>1 DEF RoomTypes
<1>3. RoomTypes'
  BY <1>0, <1>1 DEF RoomTypes
<1>4. SelfInv'
  BY <1>0, <1>1, <1>2 DEF SelfInv
<1>5. JoinedUntilCleanup' /\ UniqueDisplay'
  BY <1>0, <1>1, <1>2 DEF JoinedUntilCleanup, UniqueDisplay, Display
<1> QED BY <1>3, <1>4, <1>5 DEF RoomInv

\* The processor's other steps, and what it takes, leave the room and its participants alone.
LEMMA ProcessorStepHolds ==
    ASSUME RoomInv, NEW c \in Client, UNCHANGED display,
           OfferTaken(c) \/ Announce(c) \/ Invalid(c) \/ Answer(c) \/ AnswerDropped(c)
    PROVE  RoomInv'
<1>0. RoomTypes /\ SelfInv /\ UniqueDisplay /\ JoinedUntilCleanup
  BY DEF RoomInv
<1>1. UNCHANGED <<room, buf, self, cleanup>>
  BY DEF OfferTaken, Announce, Invalid, Answer, AnswerDropped, readerVars
<1>2. /\ proc' \in [Client -> {"wait", "handle", "joined", "answer", "ended"}]
      /\ \A d \in Client : proc'[d] = "joined" => proc[d] = "joined" /\ d # c
  <2>1. proc[c] \in {"wait", "handle", "answer"}
    BY DEF OfferTaken, Announce, Invalid, Answer, AnswerDropped
  <2>2. proc' = proc \/ \E pc \in {"handle", "answer", "wait", "ended"} : proc' = [proc EXCEPT ![c] = pc]
    BY DEF OfferTaken, Announce, Invalid, Answer, AnswerDropped, ProcessorEnds
  <2> QED BY <1>0, <2>1, <2>2 DEF RoomTypes
<1>3. /\ taken' \in [Client -> Seq({"join", "publish", "control"})]
      /\ \A d \in Client : d # c => taken'[d] = taken[d]
  <2>1. CASE taken' = taken
    BY <1>0, <2>1 DEF RoomTypes
  <2>2. CASE taken' = [taken EXCEPT ![c] = <<buf[c]>> \o @]
    <3>1. <<buf[c]>> \in Seq({"join", "publish", "control"}) /\ taken[c] \in Seq({"join", "publish", "control"})
      BY <1>0 DEF RoomTypes
    <3>2. <<buf[c]>> \o taken[c] \in Seq({"join", "publish", "control"})
      BY <3>1, ConcatProperties
    <3> QED BY <1>0, <2>2, <3>2 DEF RoomTypes
  <2> QED BY <2>1, <2>2 DEF OfferTaken, Announce, Invalid, Answer, AnswerDropped
<1>4. RoomTypes'
  BY <1>0, <1>1, <1>2, <1>3 DEF RoomTypes
<1>5. SelfInv'
  BY <1>0, <1>1, <1>2, <1>3 DEF SelfInv
<1>6. UniqueDisplay' /\ JoinedUntilCleanup'
  BY <1>0, <1>1 DEF UniqueDisplay, JoinedUntilCleanup, Display
<1> QED BY <1>4, <1>5, <1>6 DEF RoomInv

\* Everything else touches none of it, except the buffer that a message arrives in.
LEMMA OtherStep ==
    ASSUME RoomInv, UNCHANGED <<display, room, proc, taken, self, cleanup>>,
           buf' \in [Client -> {"join", "publish", "control"}]
    PROVE  RoomInv'
<1>1. RoomTypes /\ SelfInv /\ UniqueDisplay /\ JoinedUntilCleanup
  BY DEF RoomInv
<1>2. RoomTypes' /\ SelfInv'
  BY <1>1 DEF RoomTypes, SelfInv
<1>3. UniqueDisplay' /\ JoinedUntilCleanup'
  BY <1>1 DEF UniqueDisplay, JoinedUntilCleanup, Display
<1> QED BY <1>2, <1>3 DEF RoomInv

\* every step keeps the invariant
LEMMA StepHolds == RoomInv /\ [Next]_vars => RoomInv'
<1> SUFFICES ASSUME RoomInv, [Next]_vars PROVE RoomInv'
  OBVIOUS
<1>0. buf \in [Client -> {"join", "publish", "control"}]
  BY DEF RoomInv, RoomTypes
<1>5. UNCHANGED display
  BY DEF Next, vars
<1>1. CASE UNCHANGED vars
  BY <1>0, <1>1, OtherStep DEF vars, readerVars, procVars
<1>2. ASSUME NEW c \in Client, Disconnect(c) \/ ReadFails(c) \/ OfferDropped(c) \/ WriterStep(c) PROVE RoomInv'
  BY <1>0, <1>2, <1>5, OtherStep DEF Disconnect, ReadFails, OfferDropped, WriterStep, Writes, WriteFails, readerVars, procVars
<1>3. ASSUME NEW c \in Client, Read(c) PROVE RoomInv'
  <2>1. buf' \in [Client -> {"join", "publish", "control"}]
    BY <1>0, <1>3, SignalingAssumption DEF Read
  <2> QED BY <1>3, <1>5, <2>1, OtherStep DEF Read, procVars
<1>4. ASSUME NEW t \in Task, NotifyStep(t) PROVE RoomInv'
  BY <1>0, <1>4, <1>5, OtherStep DEF NotifyStep, List, Tell, NotifyEnds, readerVars, procVars
<1> QED BY <1>1, <1>2, <1>3, <1>4, <1>5, JoinStep, JoinedStep, LeaveStep, RemoveStep, ProcessorStepHolds
        DEF Next, ReaderStep, ProcessorStep, CleanupStep

\* the invariant holds in every state
LEMMA Invariance == Spec => []RoomInv
  BY InitHolds, StepHolds, PTL DEF Spec

-----------------------------------------------------------------------------
(* The theorems.                                                           *)

\* Two clients that join under one display at the same time do not both get into the room
\* (Room.Add, sig-room.go), however the readers, processors and clean-ups interleave.
THEOREM DisplaysAreUnique == Spec => []UniqueDisplay
<1>1. RoomInv => UniqueDisplay
  BY DEF RoomInv
<1> QED BY <1>1, Invariance, PTL

\* A client that has joined stays in the room until its own clean-up, though messages that
\* come after its leave, and other clients' joins and removals, may overtake it
\* (Room.Add and Room.Remove, the clean-up of app/sig-app-server.go).
THEOREM StaysUntilCleanup == Spec => []JoinedUntilCleanup
<1>1. RoomInv => JoinedUntilCleanup
  BY DEF RoomInv
<1> QED BY <1>1, Invariance, PTL

-----------------------------------------------------------------------------
(* Type correctness.  The room's part needs RoomInv.                       *)

\* A message that is offered has been sent and not been received; one that is handled
\* has been received.
TypeInv ==
    /\ TypeOK
    /\ \A c \in Client : reader[c] = "offer" => Len(taken[c]) < sent[c]
    /\ \A c \in Client : proc[c] \in {"handle", "joined", "answer"} => taken[c] # <<>>

\* the number of the message that is handled is the number of a message that was sent
LEMMA HandledNumber ==
    ASSUME TypeInv, NEW c \in Client, proc[c] \in {"handle", "joined", "answer"}
    PROVE  <<c, Len(taken[c])>> \in Participant
<1>1. taken[c] \in Seq({"join", "publish", "control"}) /\ taken[c] # <<>>
  BY DEF TypeInv, TypeOK
<1>2. Len(taken[c]) \in Nat /\ Len(taken[c]) # 0
  BY <1>1, LenProperties, EmptySeq
<1>3. Len(taken[c]) <= sent[c] /\ sent[c] \in Nat /\ sent[c] <= MaxMsg[c] /\ MaxMsg[c] \in Nat
  BY SignalingAssumption DEF TypeInv, TypeOK
<1>4. Len(taken[c]) \in 1..MaxMsg[c]
  BY <1>2, <1>3
<1> QED BY <1>4 DEF Participant

\* who is in the room is a participant, and a participant's client is a client
LEMMA RoomOfParticipants ==
    ASSUME TypeInv
    PROVE  ToSet(room) \subseteq Participant /\ \A p \in Participant : p[1] \in Client
<1>1. room \in Seq(Participant)
  BY DEF TypeInv, TypeOK
<1>2. \A i \in DOMAIN room : room[i] \in Participant
  BY <1>1, ElementOfSeq, LenProperties
<1> QED BY <1>2 DEF ToSet, Participant

\* the room gets participants with the number of a message, and loses some
LEMMA RoomType ==
    ASSUME RoomInv, TypeInv, RoomInv', [Next]_vars
    PROVE  room' \in Seq(Participant) /\ IsInjective(room')
<1>1. room \in Seq(Participant) /\ IsInjective(room)
  BY DEF TypeInv, TypeOK
<1>2. IsInjective(room')
  BY DEF RoomInv, RoomTypes
<1>3. CASE room' = room
  BY <1>1, <1>3
<1>4. ASSUME NEW c \in Client, Join(c) PROVE room' \in Seq(Participant)
  <2>1. <<c, Len(taken[c])>> \in Participant
    BY <1>4, HandledNumber DEF Join
  <2>2. Append(room, <<c, Len(taken[c])>>) \in Seq(Participant)
    BY <1>1, <2>1, AppendSet
  <2> QED BY <1>1, <1>4, <2>2 DEF Join
<1>5. ASSUME NEW c \in Client, LeaveRemove(c) PROVE room' \in Seq(Participant)
  BY <1>1, <1>5, RemoveSet DEF LeaveRemove, RemoveMember
<1>6. ASSUME NEW c \in Client, Disconnect(c) \/ ReaderStep(c) \/ WriterStep(c) \/ Leave(c) PROVE room' = room
  BY <1>6 DEF Disconnect, ReaderStep, Read, ReadFails, OfferTaken, OfferDropped,
             WriterStep, Writes, WriteFails, Leave
<1>7. ASSUME NEW c \in Client, Joined(c) \/ Announce(c) \/ Invalid(c) \/ Answer(c) \/ AnswerDropped(c)
      PROVE  room' = room
  BY <1>7 DEF Joined, Announce, Invalid, Answer, AnswerDropped
<1>8. ASSUME NEW t \in Task, NotifyStep(t) PROVE room' = room
  BY <1>8 DEF NotifyStep, List, Tell, NotifyEnds
<1> QED BY <1>2, <1>3, <1>4, <1>5, <1>6, <1>7, <1>8 DEF Next, vars, ProcessorStep, CleanupStep

\* what is read, offered and taken
MessageTypes ==
    /\ gone \in [Client -> BOOLEAN]
    /\ sent \in [Client -> Nat] /\ \A c \in Client : sent[c] <= MaxMsg[c]
    /\ buf \in [Client -> {"join", "publish", "control"}]
    /\ reader \in [Client -> {"read", "offer", "ended"}]
    /\ proc \in [Client -> {"wait", "handle", "joined", "answer", "ended"}]
    /\ taken \in [Client -> Seq({"join", "publish", "control"})]
    /\ \A c \in Client : Len(taken[c]) <= sent[c]
    /\ \A c \in Client : reader[c] = "offer" => Len(taken[c]) < sent[c]
    /\ \A c \in Client : proc[c] \in {"handle", "joined", "answer"} => taken[c] # <<>>

LEMMA MessageStep ==
    ASSUME TypeInv, [Next]_vars
    PROVE  MessageTypes'
<1>1. MessageTypes
  BY DEF TypeInv, TypeOK, MessageTypes
<1>2. CASE UNCHANGED <<readerVars, proc, taken>>
  BY <1>1, <1>2 DEF MessageTypes, readerVars
<1>3. ASSUME NEW c \in Client, Disconnect(c) PROVE MessageTypes'
  BY <1>1, <1>3 DEF MessageTypes, Disconnect, procVars
<1>4. ASSUME NEW c \in Client, Read(c) PROVE MessageTypes'
  <2>1. PICK a \in {"join", "publish", "control"} : buf' = [buf EXCEPT ![c] = a]
    BY <1>4, SignalingAssumption DEF Read
  <2>2. Len(taken[c]) \in Nat /\ Len(taken[c]) <= sent[c] /\ sent[c] \in Nat /\ MaxMsg[c] \in Nat
    BY <1>1, LenProperties, SignalingAssumption DEF MessageTypes
  <2>3. /\ reader[c] = "read" /\ sent[c] < MaxMsg[c]
        /\ sent' = [sent EXCEPT ![c] = sent[c] + 1]
        /\ reader' = [reader EXCEPT ![c] = "offer"]
        /\ UNCHANGED <<gone, proc, taken>>
    BY <1>4 DEF Read, procVars
  <2>4. sent[c] + 1 \in Nat /\ sent[c] + 1 <= MaxMsg[c] /\ Len(taken[c]) < sent[c] + 1 /\ Len(taken[c]) <= sent[c] + 1
    BY <2>2, <2>3
  <2> QED BY <1>1, <2>1, <2>3, <2>4 DEF MessageTypes
<1>5. ASSUME NEW c \in Client, ReadFails(c) \/ OfferDropped(c) PROVE MessageTypes'
  <2>1. \E pc \in {"read", "ended"} : reader' = [reader EXCEPT ![c] = pc]
    BY <1>5 DEF ReadFails, OfferDropped
  <2>2. UNCHANGED <<gone, sent, buf, proc, taken>>
    BY <1>5 DEF ReadFails, OfferDropped, procVars
  <2> QED BY <1>1, <2>1, <2>2 DEF MessageTypes
<1>6. ASSUME NEW c \in Client, OfferTaken(c) PROVE MessageTypes'
  <2>1. /\ reader[c] = "offer"
        /\ reader' = [reader EXCEPT ![c] = "read"]
        /\ proc' = [proc EXCEPT ![c] = "handle"]
        /\ taken' = [taken EXCEPT ![c] = <<buf[c]>> \o taken[c]]
        /\ UNCHANGED <<gone, sent, buf>>
    BY <1>6 DEF OfferTaken
  <2>2. <<buf[c]>> \in Seq({"join", "publish", "control"}) /\ Len(<<buf[c]>>) = 1
    BY <1>1 DEF MessageTypes
  <2>3. taken[c] \in Seq({"join", "publish", "control"}) /\ Len(taken[c]) \in Nat
    BY <1>1, LenProperties DEF MessageTypes
  <2>4. /\ <<buf[c]>> \o taken[c] \in Seq({"join", "publish", "control"})
        /\ Len(<<buf[c]>> \o taken[c]) = 1 + Len(taken[c])
    BY <2>2, <2>3, ConcatProperties
  <2>5. <<buf[c]>> \o taken[c] # <<>>
    BY <2>3, <2>4, EmptySeq
  <2>6. Len(<<buf[c]>> \o taken[c]) <= sent[c]
    BY <1>1, <2>1, <2>3, <2>4 DEF MessageTypes
  <2> QED BY <1>1, <2>1, <2>4, <2>5, <2>6 DEF MessageTypes
<1>7. ASSUME NEW c \in Client, Join(c) PROVE MessageTypes'
  <2>1. \E pc \in {"joined", "ended"} : proc' = [proc EXCEPT ![c] = pc]
    BY <1>7 DEF Join, ProcessorEnds
  <2>2. UNCHANGED <<gone, sent, buf, reader, taken>> /\ proc[c] = "handle"
    BY <1>7 DEF Join, readerVars
  <2> QED BY <1>1, <2>1, <2>2 DEF MessageTypes
<1>8. ASSUME NEW c \in Client, Joined(c) \/ Announce(c) \/ Invalid(c) \/ Answer(c) \/ AnswerDropped(c)
      PROVE  MessageTypes'
  <2>1. proc' = proc \/ \E pc \in {"answer", "wait", "ended"} : proc' = [proc EXCEPT ![c] = pc]
    BY <1>8 DEF Joined, Announce, Invalid, Answer, AnswerDropped, ProcessorEnds
  <2>2. UNCHANGED <<gone, sent, buf, reader, taken>> /\ proc[c] \in {"joined", "handle", "answer"}
    BY <1>8 DEF Joined, Announce, Invalid, Answer, AnswerDropped, readerVars
  <2> QED BY <1>1, <2>1, <2>2 DEF MessageTypes
<1>9. ASSUME NEW c \in Client, WriterStep(c) \/ CleanupStep(c) PROVE UNCHANGED <<readerVars, proc, taken>>
  BY <1>9 DEF WriterStep, Writes, WriteFails, CleanupStep, Leave, LeaveRemove, procVars
<1>10. ASSUME NEW t \in Task, NotifyStep(t) PROVE UNCHANGED <<readerVars, proc, taken>>
  BY <1>10 DEF NotifyStep, List, Tell, NotifyEnds, procVars
<1>11. UNCHANGED vars => UNCHANGED <<readerVars, proc, taken>>
  BY DEF vars, procVars
<1> QED BY <1>2, <1>3, <1>4, <1>5, <1>6, <1>7, <1>8, <1>9, <1>10, <1>11 DEF Next, ReaderStep, ProcessorStep

\* where the handler, its context and its clean-up are, and whom it has joined as
HandlerTypes ==
    /\ self \in [Client -> Participant \cup {NoOne}]
    /\ writer \in [Client -> {"range", "write", "ended"}]
    /\ done \in [Client -> BOOLEAN]
    /\ cleanup \in [Client -> {"wait", "remove", "ended"}]
    /\ crashed \in BOOLEAN

LEMMA HandlerStep ==
    ASSUME TypeInv, [Next]_vars
    PROVE  HandlerTypes'
<1>1. HandlerTypes
  BY DEF TypeInv, TypeOK, HandlerTypes
<1>2. CASE UNCHANGED <<self, writer, done, cleanup, crashed>>
  BY <1>1, <1>2 DEF HandlerTypes
<1>3. ASSUME NEW c \in Client, Disconnect(c) \/ Read(c) \/ OfferTaken(c) \/ OfferDropped(c)
      PROVE  UNCHANGED <<self, writer, done, cleanup, crashed>>
  BY <1>3 DEF Disconnect, Read, OfferTaken, OfferDropped, procVars
<1>4. ASSUME NEW c \in Client, ReadFails(c) \/ Join(c) \/ Invalid(c) \/ AnswerDropped(c) PROVE HandlerTypes'
  <2>1. done' = done \/ done' = [done EXCEPT ![c] = TRUE]
    BY <1>4 DEF ReadFails, Join, Invalid, AnswerDropped, ProcessorEnds
  <2>2. UNCHANGED <<self, writer, cleanup, crashed>>
    BY <1>4 DEF ReadFails, Join, Invalid, AnswerDropped, procVars
  <2> QED BY <1>1, <2>1, <2>2 DEF HandlerTypes
<1>5. ASSUME NEW c \in Client, Joined(c) PROVE HandlerTypes'
  <2>1. <<c, Len(taken[c])>> \in Participant
    BY <1>5, HandledNumber DEF Joined
  <2> QED BY <1>1, <1>5, <2>1 DEF HandlerTypes, Joined
<1>6. ASSUME NEW c \in Client, Announce(c) PROVE HandlerTypes'
  BY <1>1, <1>6 DEF HandlerTypes, Announce
<1>7. ASSUME NEW c \in Client, Answer(c) \/ WriterStep(c) PROVE HandlerTypes'
  <2>1. \E w \in {"range", "write", "ended"} : writer' = [writer EXCEPT ![c] = w]
    BY <1>7 DEF Answer, WriterStep, Writes, WriteFails
  <2>2. done' = done \/ done' = [done EXCEPT ![c] = TRUE]
    BY <1>7 DEF Answer, WriterStep, Writes, WriteFails
  <2>3. UNCHANGED <<self, cleanup, crashed>>
    BY <1>7 DEF Answer, WriterStep, Writes, WriteFails, procVars
  <2> QED BY <1>1, <2>1, <2>2, <2>3 DEF HandlerTypes
<1>8. ASSUME NEW c \in Client, CleanupStep(c) PROVE HandlerTypes'
  <2>1. \E w \in {"ended", "remove"} : cleanup' = [cleanup EXCEPT ![c] = w]
    BY <1>8 DEF CleanupStep, Leave, LeaveRemove
  <2>2. UNCHANGED <<self, writer, done, crashed>>
    BY <1>8 DEF CleanupStep, Leave, LeaveRemove, procVars
  <2> QED BY <1>1, <2>1, <2>2 DEF HandlerTypes
<1>9. ASSUME NEW t \in Task, List(t) \/ NotifyEnds(t)
      PROVE  UNCHANGED <<self, writer, done, cleanup, crashed>>
  BY <1>9 DEF List, NotifyEnds, procVars
<1>10. ASSUME NEW t \in Task, Tell(t) PROVE HandlerTypes'
  <2> DEFINE c == Head(notify[t].todo)[1]
  <2>1. writer' = [writer EXCEPT ![c] = "write"] /\ UNCHANGED <<self, done, cleanup, crashed>>
    BY <1>10 DEF Tell, procVars
  <2> HIDE DEF c
  <2> QED BY <1>1, <2>1 DEF HandlerTypes
<1>11. UNCHANGED vars => UNCHANGED <<self, writer, done, cleanup, crashed>>
  BY DEF vars, procVars
<1> QED BY <1>2, <1>3, <1>4, <1>5, <1>6, <1>7, <1>8, <1>9, <1>10, <1>11
        DEF Next, ReaderStep, ProcessorStep, NotifyStep

\* what a Notify holds
Notice == [pc : {"none", "list", "tell"}, peer : Participant \cup {NoOne}, todo : Seq(Participant)]

LEMMA NotifyType ==
    ASSUME TypeInv, [Next]_vars
    PROVE  notify' \in [Task -> Notice]
<1>1. notify \in [Task -> Notice]
  BY DEF TypeInv, TypeOK, Notice
<1>2. ASSUME NEW p \in Participant \cup {NoOne} PROVE Fresh(p) \in Notice
  BY DEF Fresh, Notice
<1>3. CASE notify' = notify
  BY <1>1, <1>3
<1>4. ASSUME NEW c \in Client, Disconnect(c) \/ ReaderStep(c) \/ WriterStep(c) \/ LeaveRemove(c)
      PROVE  notify' = notify
  BY <1>4 DEF Disconnect, ReaderStep, Read, ReadFails, OfferTaken, OfferDropped,
             WriterStep, Writes, WriteFails, LeaveRemove
<1>5. ASSUME NEW c \in Client, Join(c) \/ Invalid(c) \/ Answer(c) \/ AnswerDropped(c) PROVE notify' = notify
  BY <1>5 DEF Join, Invalid, Answer, AnswerDropped
<1>6. ASSUME NEW c \in Client, Joined(c) PROVE notify' \in [Task -> Notice]
  <2>1. <<c, Len(taken[c])>> \in Participant
    BY <1>6, HandledNumber DEF Joined
  <2>2. Fresh(<<c, Len(taken[c])>>) \in Notice
    BY <1>2, <2>1
  <2> QED BY <1>1, <1>6, <2>2 DEF Joined
<1>7. ASSUME NEW c \in Client, Announce(c) PROVE notify' \in [Task -> Notice]
  <2>1. Member(c) \subseteq Participant
    BY RoomOfParticipants DEF Member
  <2>2. notify' = notify \/ \E p \in Participant \cup {NoOne} :
            notify' = [notify EXCEPT ![<<c, Len(taken[c])>>] = Fresh(p)]
    BY <1>7, <2>1 DEF Announce
  <2> QED BY <1>1, <1>2, <2>2
<1>8. ASSUME NEW c \in Client, Leave(c) PROVE notify' \in [Task -> Notice]
  <2>1. self[c] \in Participant \cup {NoOne}
    BY DEF TypeInv, TypeOK
  <2>2. notify' = notify \/ notify' = [notify EXCEPT ![<<c, 0>>] = Fresh(self[c])]
    BY <1>8 DEF Leave
  <2> QED BY <1>1, <1>2, <2>1, <2>2
<1>9. ASSUME NEW t \in Task, List(t) PROVE notify' \in [Task -> Notice]
  <2> DEFINE rest == RemoveFirst(room, notify[t].peer)
  <2>1. rest \in Seq(Participant)
    <3>1. room \in Seq(Participant) /\ IsInjective(room)
      BY DEF TypeInv, TypeOK
    <3> QED BY <3>1, RemoveSet
  <2>2. notify' = [notify EXCEPT ![t].pc = "tell", ![t].todo = rest]
    BY <1>9 DEF List
  <2> HIDE DEF rest
  <2> QED BY <1>1, <2>1, <2>2 DEF Notice
<1>10. ASSUME NEW t \in Task, Tell(t) PROVE notify' \in [Task -> Notice]
  <2> DEFINE rest == Tail(notify[t].todo)
  <2>1. rest \in Seq(Participant)
    <3>1. notify[t].todo \in Seq(Participant) /\ notify[t].todo # <<>>
      BY <1>1, <1>10 DEF Tell, Notice
    <3> QED BY <3>1, HeadTailProperties
  <2>2. notify' = [notify EXCEPT ![t].todo = rest]
    BY <1>10 DEF Tell
  <2> HIDE DEF rest
  <2> QED BY <1>1, <2>1, <2>2 DEF Notice
<1>11. ASSUME NEW t \in Task, NotifyEnds(t) PROVE notify' \in [Task -> Notice]
  <2>1. Idle \in Notice
    BY DEF Idle, Notice
  <2> QED BY <1>1, <1>11, <2>1 DEF NotifyEnds
<1>12. UNCHANGED vars => notify' = notify
  BY DEF vars
<1> QED BY <1>3, <1>4, <1>5, <1>6, <1>7, <1>8, <1>9, <1>10, <1>11, <1>12
        DEF Next, ProcessorStep, CleanupStep, NotifyStep

\* In every reachable state every variable has its type: whatever the interleaving of a
\* handler's goroutines, a participant is in the room once and carries the number of a
\* message that its client has sent (sig-room.go and app/sig-app-server.go).
THEOREM TypeCorrect == Spec => []TypeOK
<1>1. Init => TypeInv
  <2> SUFFICES ASSUME Init PROVE TypeInv
    OBVIOUS
  <2>1. room \in Seq(Participant) /\ IsInjective(room)
    BY DEF Init, IsInjective
  <2>2. MessageTypes
    BY SignalingAssumption DEF Init, MessageTypes
  <2>3. HandlerTypes
    BY DEF Init, HandlerTypes
  <2>4. notify \in [Task -> Notice] /\ display \in Displays
    BY DEF Init, Idle, Notice
  <2> QED BY <2>1, <2>2, <2>3, <2>4 DEF TypeInv, TypeOK, MessageTypes, HandlerTypes, Notice
<1>2. TypeInv /\ RoomInv /\ RoomInv' /\ [Next]_vars => TypeInv'
  <2> SUFFICES ASSUME TypeInv, RoomInv, RoomInv', [Next]_vars PROVE TypeInv'
    OBVIOUS
  <2>1. room' \in Seq(Participant) /\ IsInjective(room')
    BY RoomType
  <2>2. MessageTypes' /\ HandlerTypes' /\ notify' \in [Task -> Notice]
    BY MessageStep, HandlerStep, NotifyType
  <2>3. display' \in Displays
    BY DEF TypeInv, TypeOK, Next, vars
  <2> QED BY <2>1, <2>2, <2>3 DEF TypeInv, TypeOK, MessageTypes, HandlerTypes, Notice
<1>3. TypeInv => TypeOK
  BY DEF TypeInv
<1> QED BY <1>1, <1>2, <1>3, Invariance, PTL DEF Spec
=============================================================================
