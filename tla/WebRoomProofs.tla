---------------------------- MODULE WebRoomProofs ----------------------------
(***************************************************************************)
(* Theorems about WebRoom, for every set of peers and every number of      *)
(* clicks.                                                                 *)
(***************************************************************************)
EXTENDS WebRoom, SequenceTheorems, WellFoundedInduction, TLAPS

-----------------------------------------------------------------------------
(* Lists as sets of their elements.                                        *)

\* Append adds an element at the end.
LEMMA AppendSet ==
    ASSUME NEW S, NEW s \in Seq(S), NEW x \in S
    PROVE  Append(s, x) \in Seq(S) /\ ToSet(Append(s, x)) \subseteq ToSet(s) \cup {x}
<1>1. /\ Append(s, x) \in Seq(S)
      /\ Len(Append(s, x)) = Len(s) + 1
      /\ \A i \in 1..Len(s) : Append(s, x)[i] = s[i]
      /\ Append(s, x)[Len(s) + 1] = x
  BY AppendProperties
<1>2. Len(s) \in Nat /\ DOMAIN s = 1..Len(s) /\ DOMAIN Append(s, x) = 1..(Len(s) + 1)
  BY <1>1, LenProperties
<1>3. ASSUME NEW i \in 1..(Len(s) + 1) PROVE Append(s, x)[i] \in ToSet(s) \cup {x}
  <2>1. CASE i \in 1..Len(s)
    BY <1>1, <1>2, <2>1 DEF ToSet
  <2>2. CASE i = Len(s) + 1
    BY <1>1, <2>2
  <2> QED BY <1>2, <2>1, <2>2
<1>4. ASSUME NEW y \in ToSet(Append(s, x)) PROVE y \in ToSet(s) \cup {x}
  <2>1. PICK i \in 1..(Len(s) + 1) : y = Append(s, x)[i]
    BY <1>2 DEF ToSet
  <2> QED BY <1>3, <2>1
<1> QED BY <1>1, <1>4

\* What is between two places of a list is a list of its elements.
LEMMA SubSeqSet ==
    ASSUME NEW S, NEW s \in Seq(S), NEW m \in Nat \ {0}, NEW n \in Nat, n <= Len(s)
    PROVE  SubSeq(s, m, n) \in Seq(S) /\ ToSet(SubSeq(s, m, n)) \subseteq ToSet(s)
<1>1. Len(s) \in Nat /\ DOMAIN s = 1..Len(s) /\ \A i \in 1..Len(s) : s[i] \in S
  BY LenProperties, ElementOfSeq
<1>2. \A i \in m..n : s[i] \in S
  BY <1>1
<1> DEFINE r == SubSeq(s, m, n)
<1>3. /\ r \in Seq(S)
      /\ Len(r) = IF m <= n THEN n - m + 1 ELSE 0
      /\ \A i \in 1..(n - m + 1) : r[i] = s[m + i - 1]
  BY <1>2, SubSeqProperties
<1>4. DOMAIN r = 1..Len(r)
  BY <1>3, LenProperties
<1> HIDE DEF r
<1>5. ASSUME NEW y \in ToSet(r) PROVE y \in ToSet(s)
  <2>1. PICK i \in 1..Len(r) : y = r[i]
    BY <1>4 DEF ToSet
  <2>2. i \in 1..(n - m + 1) /\ m + i - 1 \in 1..Len(s)
    BY <1>1, <1>3
  <2>3. y = s[m + i - 1]
    BY <1>3, <2>1, <2>2
  <2> QED BY <1>1, <2>2, <2>3 DEF ToSet
<1> QED BY <1>3, <1>5 DEF r

\* The elements of two lists one after the other are those of both.
LEMMA ConcatSet ==
    ASSUME NEW S, NEW a \in Seq(S), NEW b \in Seq(S)
    PROVE  a \o b \in Seq(S) /\ ToSet(a \o b) \subseteq ToSet(a) \cup ToSet(b)
<1>1. /\ a \o b \in Seq(S)
      /\ Len(a \o b) = Len(a) + Len(b)
      /\ \A i \in 1..(Len(a) + Len(b)) : (a \o b)[i] = IF i <= Len(a) THEN a[i] ELSE b[i - Len(a)]
  BY ConcatProperties
<1>2. /\ Len(a) \in Nat /\ DOMAIN a = 1..Len(a)
      /\ Len(b) \in Nat /\ DOMAIN b = 1..Len(b)
      /\ DOMAIN (a \o b) = 1..(Len(a) + Len(b))
  BY <1>1, LenProperties
<1>3. ASSUME NEW i \in 1..(Len(a) + Len(b)) PROVE (a \o b)[i] \in ToSet(a) \cup ToSet(b)
  <2>1. CASE i <= Len(a)
    BY <1>1, <1>2, <2>1 DEF ToSet
  <2>2. CASE ~(i <= Len(a))
    <3>1. i - Len(a) \in 1..Len(b)
      BY <1>2, <2>2
    <3> QED BY <1>1, <1>2, <2>2, <3>1 DEF ToSet
  <2> QED BY <2>1, <2>2
<1>4. ASSUME NEW y \in ToSet(a \o b) PROVE y \in ToSet(a) \cup ToSet(b)
  <2>1. PICK i \in 1..(Len(a) + Len(b)) : y = (a \o b)[i]
    BY <1>2 DEF ToSet
  <2> QED BY <1>3, <2>1
<1> QED BY <1>1, <1>4

\* A set of numbers that is not empty has a least one, and Min is in it.
LEMMA MinIn ==
    ASSUME NEW T \in SUBSET Nat, T # {}
    PROVE  Min(T) \in T
<1>1. PICK n \in T : \A m \in T : ~(<<m, n>> \in OpToRel(<, Nat))
  BY NatLessThanWellFounded, WFMin
<1>2. ASSUME NEW m \in T PROVE n <= m
  <2>1. m \in Nat /\ n \in Nat
    OBVIOUS
  <2>2. m < n => <<m, n>> \in OpToRel(<, Nat)
    <3>1. <<m, n>> \in Nat \X Nat /\ <<m, n>>[1] = m /\ <<m, n>>[2] = n
      BY <2>1
    <3> QED BY <3>1 DEF OpToRel
  <2>3. ~(m < n)
    BY <1>1, <2>2, Zenon
  <2> QED BY <2>1, <2>3
<1> QED BY <1>2 DEF Min

\* RemoveFirst adds nothing to a list.
LEMMA RemoveSet ==
    ASSUME NEW S, NEW s \in Seq(S), NEW x
    PROVE  RemoveFirst(s, x) \in Seq(S) /\ ToSet(RemoveFirst(s, x)) \subseteq ToSet(s)
<1>1. Len(s) \in Nat
  BY LenProperties
<1>2. CASE ~\E i \in 1..Len(s) : s[i] = x
  BY <1>2 DEF RemoveFirst
<1>3. CASE \E i \in 1..Len(s) : s[i] = x
  <2> DEFINE n == Min({i \in 1..Len(s) : s[i] = x})
  <2>1. n \in 1..Len(s)
    <3> DEFINE T == {i \in 1..Len(s) : s[i] = x}
    <3>1. T \in SUBSET Nat /\ T # {} /\ T \subseteq 1..Len(s)
      BY <1>1, <1>3
    <3> HIDE DEF T
    <3>2. Min(T) \in T
      BY <3>1, MinIn
    <3> QED BY <3>1, <3>2 DEF T
  <2>2. RemoveFirst(s, x) = SubSeq(s, 1, n - 1) \o SubSeq(s, n + 1, Len(s))
    BY <1>3 DEF RemoveFirst, RemoveAt, SelectInSeq
  <2> HIDE DEF n
  <2> DEFINE a == SubSeq(s, 1, n - 1)
             b == SubSeq(s, n + 1, Len(s))
  <2>3. a \in Seq(S) /\ ToSet(a) \subseteq ToSet(s)
    <3>1. n - 1 \in Nat /\ n - 1 <= Len(s) /\ 1 \in Nat \ {0}
      BY <1>1, <2>1
    <3> QED BY <3>1, SubSeqSet
  <2>4. b \in Seq(S) /\ ToSet(b) \subseteq ToSet(s)
    <3>1. n + 1 \in Nat \ {0} /\ Len(s) <= Len(s)
      BY <1>1, <2>1
    <3>2. ASSUME NEW m \in Nat \ {0}, NEW k \in Nat, k <= Len(s)
          PROVE  SubSeq(s, m, k) \in Seq(S) /\ ToSet(SubSeq(s, m, k)) \subseteq ToSet(s)
      BY <3>2, SubSeqSet
    <3>3. Len(s) \in Nat /\ Len(s) <= Len(s)
      BY <1>1
    <3> QED BY <3>1, <3>2, <3>3, Zenon
  <2> HIDE DEF a, b
  <2>5. a \o b \in Seq(S) /\ ToSet(a \o b) \subseteq ToSet(a) \cup ToSet(b)
    BY <2>3, <2>4, ConcatSet
  <2>6. RemoveFirst(s, x) = a \o b
    BY <2>2 DEF a, b
  <2> QED BY <2>3, <2>4, <2>5, <2>6
<1> QED BY <1>2, <1>3

-----------------------------------------------------------------------------
(* Types.                                                                  *)

Note == [pc : {"none", "list", "tell"}, to : Seq(Participant)]

\* TypeOK in three parts, by who changes what
ServerTypes ==
    /\ room \in Seq(Participant)
    /\ \A j, k \in Joined : j = k
    /\ peers \in [Peer -> {"out", "in", "publishing", "leaving", "gone"}]
    /\ join \in [Run -> {"none", "asked", "added", "answered", "over", "refused"}]
    /\ cleaned \in SUBSET Run /\ returned \in SUBSET Peer
    /\ notify \in [Peer -> Note]

PageTypes ==
    /\ sig \in 0..MaxRun
    /\ socket \in [Run -> {"none", "connecting", "open", "closed"}]
    /\ run \in [Run -> {"idle", "connect", "join", "media", "send", "publish", "done", "failed"}]
    /\ on \in [Run -> 0..MaxRun]
    /\ r0 \in [Run -> SUBSET Peer]

MediaTypes ==
    /\ publisher \in 0..MaxRun
    /\ pub \in [Run -> {"none", "starting", "live", "closed"}]
    /\ players \in SUBSET Peer

\* TypeOK in its three parts
LEMMA TypeParts == TypeOK <=> ServerTypes /\ PageTypes /\ MediaTypes
  BY DEF TypeOK, ServerTypes, PageTypes, MediaTypes, Note

\* A step of one of these leaves the page alone.
OfPeer(p) == PeerJoins(p) \/ PeerPublishes(p) \/ PeerLeaves(p) \/ PeerRemoved(p) \/ HandlerReturns(p)

\* the first state
LEMMA InitTypes == Init => TypeOK
<1> SUFFICES ASSUME Init PROVE TypeOK
  OBVIOUS
<1>1. NoTask \in Note /\ <<>> \in Seq(Participant)
  BY EmptySeq DEF NoTask, Note
<1>2. Joined = {}
  BY DEF Init, Joined, ToSet
<1>3. ServerTypes
  BY <1>1, <1>2 DEF Init, ServerTypes
<1>4. 0 \in 0..MaxRun
  BY WebRoomAssumption
<1>5. PageTypes
  BY <1>4 DEF Init, PageTypes
<1>6. MediaTypes
  BY <1>4 DEF Init, MediaTypes
<1> QED BY <1>3, <1>5, <1>6, TypeParts

\* who is added is a peer, or the page when it is not there
LEMMA RoomAppends ==
    ASSUME ServerTypes, NEW x \in Participant, room' = Append(room, x), x \in Peer \/ Joined = {}
    PROVE  room' \in Seq(Participant) /\ \A j, k \in Joined' : j = k
<1>1. room' \in Seq(Participant) /\ ToSet(room') \subseteq ToSet(room) \cup {x}
  BY AppendSet DEF ServerTypes
<1>2. Joined' \subseteq Joined \cup (Run \cap {x})
  BY <1>1 DEF Joined
<1>3. x \in Peer => x \notin Run
  BY WebRoomAssumption DEF Run
<1> QED BY <1>1, <1>2, <1>3 DEF ServerTypes

\* who is removed leaves the others
LEMMA RoomRemoves ==
    ASSUME ServerTypes, NEW x, room' = RemoveFirst(room, x)
    PROVE  room' \in Seq(Participant) /\ \A j, k \in Joined' : j = k
<1>1. room' \in Seq(Participant) /\ ToSet(room') \subseteq ToSet(room)
  BY RemoveSet DEF ServerTypes
<1> QED BY <1>1 DEF ServerTypes, Joined

\* the Notify of a publish, when it is to copy the list, when it has, and when it goes on
LEMMA NotifyTypes ==
    ASSUME ServerTypes, NEW p \in Peer, PeerPublishes(p) \/ Notifying(p)
    PROVE  notify' \in [Peer -> Note]
<1>0. notify \in [Peer -> Note] /\ notify[p] \in Note /\ room \in Seq(Participant)
  BY DEF ServerTypes
<1>1. CASE PeerPublishes(p)
  <2>1. ToList \in Note
    BY EmptySeq DEF ToList, Note
  <2> QED BY <1>0, <1>1, <2>1 DEF PeerPublishes
<1>2. CASE List(p)
  <2>1. [pc |-> "tell", to |-> RemoveFirst(room, p)] \in Note
    BY <1>0, RemoveSet DEF Note
  <2> QED BY <1>0, <1>2, <2>1 DEF List
<1>3. CASE Tell(p)
  <2>1. notify[p].to \in Seq(Participant) /\ notify[p].to # <<>>
    BY <1>0, <1>3 DEF Tell, Telling, Note
  <2>2. Tail(notify[p].to) \in Seq(Participant)
    BY <2>1, HeadTailProperties
  <2>3. [notify[p] EXCEPT !.to = Tail(@)] \in Note
    BY <1>0, <2>2 DEF Note
  <2>4. notify' = [notify EXCEPT ![p] = [notify[p] EXCEPT !.to = Tail(@)]]
    BY <1>3 DEF Tell
  <2> QED BY <1>0, <2>3, <2>4
<1>4. CASE NotifyEnds(p)
  <2>1. [notify[p] EXCEPT !.to = <<>>] \in Note
    BY <1>0, EmptySeq DEF Note
  <2>2. notify' = [notify EXCEPT ![p] = [notify[p] EXCEPT !.to = <<>>]]
    BY <1>4 DEF NotifyEnds
  <2> QED BY <1>0, <2>1, <2>2
<1> QED BY <1>1, <1>2, <1>3, <1>4 DEF Notifying

\* a step of the server, of a peer or of the page keeps the types of the room
LEMMA ServerStepTypes == TypeOK /\ Next => ServerTypes'
<1> SUFFICES ASSUME TypeOK, Next PROVE ServerTypes'
  OBVIOUS
<1>0. ServerTypes
  BY TypeParts
<1>k. room' = room => Joined' = Joined
  BY DEF Joined
<1>1. ASSUME NEW k \in Run, Connect(k) PROVE ServerTypes'
  BY <1>0, <1>1, <1>k DEF Connect, ServerTypes
<1>2. ASSUME NEW k \in Run, ServerJoins(k) PROVE ServerTypes'
  <2>1. join' \in [Run -> {"none", "asked", "added", "answered", "over", "refused"}]
    BY <1>0, <1>2 DEF ServerJoins, ServerTypes
  <2>2. (Joined = {} /\ room' = Append(room, k)) \/ room' = room
    BY <1>2 DEF ServerJoins
  <2>3. room' \in Seq(Participant) /\ \A i, j \in Joined' : i = j
    <3>1. k \in Participant
      BY DEF Participant
    <3> QED BY <1>0, <1>k, <2>2, <3>1, RoomAppends DEF ServerTypes
  <2> QED BY <1>0, <1>2, <2>1, <2>3 DEF ServerJoins, ServerTypes
<1>3. ASSUME NEW k \in Run, ServerAnswers(k) PROVE ServerTypes'
  BY <1>0, <1>3, <1>k DEF ServerAnswers, ServerTypes
<1>4. ASSUME NEW k \in Run, ServerLeaves(k) PROVE ServerTypes'
  <2>1. room' = RemoveFirst(room, k) \/ room' = room
    BY <1>4 DEF ServerLeaves
  <2>2. room' \in Seq(Participant) /\ \A i, j \in Joined' : i = j
    BY <1>0, <1>k, <2>1, RoomRemoves DEF ServerTypes
  <2> QED BY <1>0, <1>4, <2>2 DEF ServerLeaves, ServerTypes
<1>5. ASSUME NEW k \in Run, JoinAnswered(k) PROVE ServerTypes'
  BY <1>0, <1>5, <1>k DEF JoinAnswered, ServerTypes
<1>6. ASSUME NEW k \in Run, PublishEnds(k) \/ SendPublish(k) \/ PublishAnswered(k) \/ SocketLost(k) PROVE ServerTypes'
  BY <1>0, <1>6, <1>k DEF PublishEnds, SendPublish, PublishAnswered, SocketLost, serverVars, ServerTypes
<1>7. ASSUME NEW p \in Peer, OfPeer(p) PROVE ServerTypes'
  <2>1. room' = Append(room, p) \/ room' = RemoveFirst(room, p) \/ room' = room
    BY <1>7 DEF OfPeer, PeerJoins, PeerPublishes, PeerLeaves, PeerRemoved, HandlerReturns
  <2>2. room' \in Seq(Participant) /\ \A i, j \in Joined' : i = j
    <3>1. p \in Participant
      BY DEF Participant
    <3> QED BY <1>0, <1>k, <2>1, <3>1, RoomAppends, RoomRemoves DEF ServerTypes
  <2>3. peers' \in [Peer -> {"out", "in", "publishing", "leaving", "gone"}] /\ returned' \in SUBSET Peer
    BY <1>0, <1>7 DEF OfPeer, PeerJoins, PeerPublishes, PeerLeaves, PeerRemoved, HandlerReturns, PeerGoto, ServerTypes
  <2>4. notify' \in [Peer -> Note]
    <3>1. PeerPublishes(p) \/ notify' = notify
      BY <1>7 DEF OfPeer, PeerJoins, PeerLeaves, PeerRemoved, HandlerReturns
    <3> QED BY <1>0, <3>1, NotifyTypes DEF ServerTypes
  <2>5. UNCHANGED <<join, cleaned>>
    BY <1>7 DEF OfPeer, PeerJoins, PeerPublishes, PeerLeaves, PeerRemoved, HandlerReturns
  <2> QED BY <1>0, <2>2, <2>3, <2>4, <2>5 DEF ServerTypes
<1>8. ASSUME NEW p \in Peer, Notifying(p) PROVE ServerTypes'
  <2>1. notify' \in [Peer -> Note]
    BY <1>0, <1>8, NotifyTypes
  <2>2. UNCHANGED <<room, peers, join, cleaned, returned>>
    BY <1>8 DEF Notifying, List, Tell, NotifyEnds
  <2> QED BY <1>0, <1>k, <2>1, <2>2 DEF ServerTypes
<1>9. CASE Start
  BY <1>0, <1>9, <1>k DEF Start, serverVars, ServerTypes
<1> QED BY <1>1, <1>2, <1>3, <1>4, <1>5, <1>6, <1>7, <1>8, <1>9 DEF Next, Connection, Peers, Page, OfPeer

\* and those of the page's runs and sockets
LEMMA PageStepTypes == TypeOK /\ Next => PageTypes'
<1> SUFFICES ASSUME TypeOK, Next PROVE PageTypes'
  OBVIOUS
<1> USE DEF PageTypes
<1>0. PageTypes
  BY TypeParts
<1>1. CASE Start
  <2>1. sig + 1 \in 0..MaxRun
    BY <1>0, <1>1, WebRoomAssumption DEF Start
  <2>2. socket' \in [Run -> {"none", "connecting", "open", "closed"}]
    BY <1>0, <1>1 DEF Start
  <2>3. run' \in [Run -> {"idle", "connect", "join", "media", "send", "publish", "done", "failed"}]
    BY <1>0, <1>1 DEF Start
  <2> QED BY <1>0, <1>1, <2>1, <2>2, <2>3 DEF Start
<1>2. ASSUME NEW k \in Run, Connect(k) PROVE PageTypes'
  <2>1. k \in 0..MaxRun
    BY WebRoomAssumption DEF Run
  <2> QED BY <1>0, <1>2, <2>1 DEF Connect, RunGoto
<1>3. ASSUME NEW k \in Run, ServerJoins(k) PROVE PageTypes'
  <2>1. {p \in Peer : InRoom(p)} \in SUBSET Peer
    OBVIOUS
  <2>2. r0' \in [Run -> SUBSET Peer]
    BY <1>0, <1>3, <2>1 DEF ServerJoins
  <2> QED BY <1>0, <1>3, <2>2 DEF ServerJoins
<1>4. ASSUME NEW k \in Run, ServerAnswers(k) PROVE PageTypes'
  BY <1>0, <1>4 DEF ServerAnswers
<1>5. ASSUME NEW k \in Run, JoinAnswered(k) PROVE PageTypes'
  BY <1>0, <1>5 DEF JoinAnswered, RunGoto
<1>6. ASSUME NEW k \in Run, PublishEnds(k) \/ SendPublish(k) PROVE PageTypes'
  BY <1>0, <1>6 DEF PublishEnds, SendPublish, RunGoto
<1>7. ASSUME NEW k \in Run, PublishAnswered(k) \/ SocketLost(k) \/ ServerLeaves(k) PROVE PageTypes'
  BY <1>0, <1>7 DEF PublishAnswered, SocketLost, ServerLeaves, pageVars, RunGoto
<1>8. ASSUME NEW p \in Peer, OfPeer(p) PROVE PageTypes'
  BY <1>0, <1>8 DEF OfPeer, PeerJoins, PeerPublishes, PeerLeaves, PeerRemoved, HandlerReturns, pageVars
<1>9. ASSUME NEW p \in Peer, Notifying(p) PROVE PageTypes'
  BY <1>0, <1>9 DEF Notifying, List, Tell, NotifyEnds, pageVars
<1> QED BY <1>1, <1>2, <1>3, <1>4, <1>5, <1>6, <1>7, <1>8, <1>9 DEF Next, Connection, Peers, Page, OfPeer

\* and those of its publishers and players
LEMMA MediaStepTypes == TypeOK /\ Next => MediaTypes'
<1> SUFFICES ASSUME TypeOK, Next PROVE MediaTypes'
  OBVIOUS
<1> USE DEF MediaTypes
<1>0. MediaTypes /\ PageTypes
  BY TypeParts
<1>1. ASSUME NEW k \in Run, JoinAnswered(k) PROVE MediaTypes'
  <2>1. k \in 0..MaxRun
    BY WebRoomAssumption DEF Run
  <2> QED BY <1>0, <1>1, <2>1 DEF JoinAnswered, Publish
<1>2. ASSUME NEW k \in Run, PublishEnds(k) PROVE MediaTypes'
  BY <1>0, <1>2 DEF PublishEnds
<1>3. ASSUME NEW k \in Run, PublishAnswered(k) PROVE MediaTypes'
  <2>1. r0[k] \in SUBSET Peer
    BY <1>0 DEF PageTypes
  <2> QED BY <1>0, <1>3, <2>1 DEF PublishAnswered, StartPlay
<1>4. ASSUME NEW p \in Peer, Notifying(p) PROVE MediaTypes'
  <2>1. players' \in SUBSET Peer
    BY <1>0, <1>4 DEF Notifying, List, Tell, NotifyEnds, StartPlay, mediaVars
  <2> QED BY <1>0, <1>4, <2>1 DEF Notifying, List, Tell, NotifyEnds, mediaVars
<1>5. CASE Start
  BY <1>0, <1>5 DEF Start, mediaVars
<1>6. ASSUME NEW k \in Run,
             Connect(k) \/ ServerJoins(k) \/ ServerAnswers(k) \/ ServerLeaves(k) \/ SendPublish(k) \/ SocketLost(k)
      PROVE  MediaTypes'
  BY <1>0, <1>6 DEF Connect, ServerJoins, ServerAnswers, ServerLeaves, SendPublish, SocketLost, mediaVars
<1>7. ASSUME NEW p \in Peer, OfPeer(p) PROVE MediaTypes'
  BY <1>0, <1>7 DEF OfPeer, PeerJoins, PeerPublishes, PeerLeaves, PeerRemoved, HandlerReturns, mediaVars
<1> QED BY <1>1, <1>2, <1>3, <1>4, <1>5, <1>6, <1>7 DEF Next, Connection, Peers, Page, OfPeer

\* every step keeps the types
LEMMA StepTypes == TypeOK /\ [Next]_vars => TypeOK'
<1>1. TypeOK /\ Next => TypeOK'
  BY ServerStepTypes, PageStepTypes, MediaStepTypes
    DEF TypeOK, ServerTypes, PageTypes, MediaTypes, Note
<1>2. TypeOK /\ UNCHANGED vars => TypeOK'
  BY DEF TypeOK, vars, serverVars, pageVars, mediaVars, Joined
<1> QED BY <1>1, <1>2

\* The variables of the page, of its media and of the room stay in their types; in
\* particular the page's display is in the room for one connection at most.
THEOREM TypeCorrect == Spec => []TypeOK
  BY InitTypes, StepTypes, PTL DEF Spec

-----------------------------------------------------------------------------
(* One publisher.                                                          *)

\* Publish makes one publisher live and closes the one before it; no other step makes one live
LEMMA PublisherStep == TypeOK /\ OnePublisher /\ [Next]_vars => OnePublisher'
<1> SUFFICES ASSUME TypeOK, OnePublisher, [Next]_vars PROVE OnePublisher'
  OBVIOUS
<1> USE DEF OnePublisher
<1>0. pub \in [Run -> {"none", "starting", "live", "closed"}]
  BY DEF TypeOK
<1>1. ASSUME NEW k \in Run, JoinAnswered(k) PROVE OnePublisher'
  <2>1. CASE publisher' = publisher /\ pub' = pub
    BY <2>1
  <2>2. CASE Publish(k)
    BY <1>0, <2>2 DEF Publish
  <2> QED BY <1>1, <2>1, <2>2 DEF JoinAnswered
<1>2. ASSUME NEW k \in Run, PublishEnds(k) PROVE OnePublisher'
  BY <1>0, <1>2 DEF PublishEnds
<1>3. CASE UNCHANGED <<publisher, pub>>
  BY <1>3
<1>4. CASE Start
  BY <1>3, <1>4 DEF Start, mediaVars
<1>5. ASSUME NEW k \in Run,
             \/ Connect(k) \/ ServerJoins(k) \/ ServerAnswers(k) \/ ServerLeaves(k)
             \/ SendPublish(k) \/ SocketLost(k) \/ PublishAnswered(k)
      PROVE  OnePublisher'
  BY <1>3, <1>5 DEF Connect, ServerJoins, ServerAnswers, ServerLeaves, SendPublish, SocketLost,
     PublishAnswered, mediaVars
<1>6. ASSUME NEW p \in Peer, OfPeer(p) PROVE OnePublisher'
  BY <1>3, <1>6 DEF OfPeer, PeerJoins, PeerPublishes, PeerLeaves, PeerRemoved, HandlerReturns, mediaVars
<1>7. ASSUME NEW p \in Peer, Notifying(p) PROVE OnePublisher'
  BY <1>3, <1>7 DEF Notifying, List, Tell, NotifyEnds, mediaVars
<1>8. CASE UNCHANGED vars
  BY <1>3, <1>8 DEF vars, mediaVars
<1> QED BY <1>1, <1>2, <1>4, <1>5, <1>6, <1>7, <1>8 DEF Next, Connection, Peers, Page, OfPeer

\* However many clicks there are and in whatever order their runs go on, a publisher that is
\* not closed is the current one, which the next run closes (room.html, startPublish).
THEOREM PublishesOnce == Spec => []OnePublisher
<1>1. Init => OnePublisher
  BY DEF Init, OnePublisher
<1> QED BY <1>1, TypeCorrect, PublisherStep, PTL DEF Spec

-----------------------------------------------------------------------------
(* Nobody waits on a socket that the page closed.                          *)

\* NoneWaitsOnClosedSig with what makes it inductive: only the last run connects, and only
\* a run that connects has a socket that is connecting.
WaitInv ==
    /\ NoneWaitsOnClosedSig
    /\ \A k \in Run : run[k] = "connect" => k = sig
    /\ \A k \in Run : socket[k] = "connecting" => k = sig /\ run[k] = "connect"

\* a click rejects those who wait on the socket it closes, and who sends, sends on the current one
LEMMA WaitStep == TypeOK /\ WaitInv /\ [Next]_vars => WaitInv'
<1> SUFFICES ASSUME TypeOK, WaitInv, [Next]_vars PROVE WaitInv'
  OBVIOUS
<1> USE DEF WaitInv, NoneWaitsOnClosedSig, Waits
<1>0. /\ socket \in [Run -> {"none", "connecting", "open", "closed"}]
      /\ run \in [Run -> {"idle", "connect", "join", "media", "send", "publish", "done", "failed"}]
      /\ on \in [Run -> 0..MaxRun]
      /\ sig \in 0..MaxRun
  BY DEF TypeOK
<1>1. CASE Start
  <2>1. \A k \in Run : run'[k] \in {"join", "publish"} => FALSE
    BY <1>0, <1>1 DEF Start
  <2>2. \A k \in Run : run'[k] = "connect" => k = sig'
    BY <1>0, <1>1 DEF Start
  <2>3. sig + 1 # sig
    BY <1>0
  <2>4. \A k \in Run : socket'[k] = "connecting" => k = sig + 1
    BY <1>0, <1>1 DEF Start
  <2>5. \A k \in Run : k = sig + 1 => run'[k] = "connect"
    BY <1>0, <1>1 DEF Start
  <2> QED BY <1>1, <2>1, <2>2, <2>4, <2>5 DEF Start
<1>2. ASSUME NEW k \in Run, Connect(k) PROVE WaitInv'
  <2>1. k = sig
    BY <1>2 DEF Connect
  <2>2. socket'[k] # "connecting" /\ \A j \in Run \ {k} : socket'[j] = socket[j]
    BY <1>0, <1>2 DEF Connect
  <2>3. run'[k] # "connect" /\ \A j \in Run \ {k} : run'[j] = run[j] /\ on'[j] = on[j]
    BY <1>0, <1>2 DEF Connect, RunGoto
  <2>4. run'[k] \in {"join", "publish"} => on'[k] = k
    BY <1>0, <1>2 DEF Connect, RunGoto
  <2>5. sig' = sig
    BY <1>2 DEF Connect
  <2> QED BY <2>1, <2>2, <2>3, <2>4, <2>5
<1>3. ASSUME NEW k \in Run, SocketLost(k) PROVE WaitInv'
  <2>1. \A j \in Run : socket'[j] = "connecting" => socket[j] = "connecting"
    BY <1>0, <1>3 DEF SocketLost
  <2>2. UNCHANGED <<sig, run, on>>
    BY <1>3 DEF SocketLost
  <2> QED BY <2>1, <2>2
<1>4. ASSUME NEW k \in Run, JoinAnswered(k) \/ PublishEnds(k) \/ PublishAnswered(k) PROVE WaitInv'
  <2>1. UNCHANGED <<sig, socket, on>>
    BY <1>4 DEF JoinAnswered, PublishEnds, PublishAnswered
  <2>2. CASE run' = run
    BY <2>1, <2>2
  <2>3. CASE run[k] \in {"join", "media", "publish"} /\ \E pc \in {"media", "send", "done"} : RunGoto(k, pc)
    <3>1. run'[k] \in {"media", "send", "done"} /\ \A j \in Run \ {k} : run'[j] = run[j]
      BY <1>0, <2>3 DEF RunGoto
    <3> QED BY <2>1, <2>3, <3>1
  <2> QED BY <1>4, <2>2, <2>3 DEF JoinAnswered, PublishEnds, PublishAnswered
<1>5. ASSUME NEW k \in Run, SendPublish(k) PROVE WaitInv'
  <2>1. UNCHANGED <<sig, socket>> /\ run[k] = "send"
    BY <1>5 DEF SendPublish
  <2>2. run'[k] \in {"failed", "publish"} /\ \A j \in Run \ {k} : run'[j] = run[j] /\ on'[j] = on[j]
    BY <1>0, <1>5 DEF SendPublish, RunGoto
  <2>3. run'[k] = "publish" => on'[k] = sig
    BY <1>0, <1>5 DEF SendPublish, RunGoto
  <2> QED BY <2>1, <2>2, <2>3
<1>6. CASE UNCHANGED pageVars
  BY <1>6 DEF pageVars
<1>7. ASSUME NEW k \in Run, ServerJoins(k) \/ ServerAnswers(k) \/ ServerLeaves(k) PROVE WaitInv'
  <2>1. UNCHANGED <<sig, socket, run, on>>
    BY <1>7 DEF ServerJoins, ServerAnswers, ServerLeaves, pageVars
  <2> QED BY <2>1
<1>8. ASSUME NEW p \in Peer, OfPeer(p) PROVE WaitInv'
  BY <1>6, <1>8 DEF OfPeer, PeerJoins, PeerPublishes, PeerLeaves, PeerRemoved, HandlerReturns
<1>9. ASSUME NEW p \in Peer, Notifying(p) PROVE WaitInv'
  BY <1>6, <1>9 DEF Notifying, List, Tell, NotifyEnds
<1>10. CASE UNCHANGED vars
  BY <1>6, <1>10 DEF vars
<1> QED BY <1>1, <1>2, <1>3, <1>4, <1>5, <1>7, <1>8, <1>9, <1>10
  DEF Next, Connection, Peers, Page, OfPeer

\* The reject of SrsRtcSignalingAsync.close (js/srs.sig.js line 68) reaches everybody it has to:
\* no run of startDemo is left waiting on a socket that a later click has closed.
THEOREM ClosedSigRejects == Spec => []NoneWaitsOnClosedSig
<1>1. Init => WaitInv
  BY DEF Init, WaitInv, NoneWaitsOnClosedSig, Waits
<1>2. WaitInv => NoneWaitsOnClosedSig
  BY DEF WaitInv
<1> QED BY <1>1, <1>2, TypeCorrect, WaitStep, PTL DEF Spec
=============================================================================
