--------------------------- MODULE RtspRelayProofs ---------------------------
(***************************************************************************)
(* Proofs about RtspRelay, for any set of players, any number of packs and *)
(* any setting of the options.                                             *)
(***************************************************************************)
EXTENDS RtspRelay, TLAPS

\* The packs a replay reads are in the cache.
LEMMA ReplayedPack ==
    ASSUME TypeOK, ReplayInBounds, NEW p \in Player, ReplayPack(p)
    PROVE  gopCache[cursor[p]] \in Nat
  BY DEF ReplayPack, ReplayInBounds, TypeOK, PusherTypeOK, AttachTypeOK

LEMMA SourceTypes == TypeOK /\ [Next]_vars => SourceTypeOK'
<1> USE RelayAssumption DEF TypeOK, SourceTypeOK
<1>1. ASSUME TypeOK, NEW k \in SourceKinds, Arrive(k)
      PROVE  SourceTypeOK'
  BY <1>1 DEF Arrive, Kind
<1>2. ASSUME TypeOK, SourceStop \/ SourceHalt
      PROVE  SourceTypeOK'
  BY <1>2 DEF SourceStop, SourceHalt, ClearPlayer, Unregister, SourceWake
<1>3. TypeOK /\ UNCHANGED sourceVars => SourceTypeOK'
  BY DEF sourceVars
<1>4. QED
  BY <1>1, <1>2, <1>3
     DEF Next, vars, PusherGoroutine, PusherCheck, PusherTake, PusherPark, PusherCache,
         PusherSnapshot, PusherBroadcast, Describe, Play, AddPlayer, ReplayPack, Register,
         PlayerGoroutine, PlayerCheck, PlayerTake, PlayerPark, ReaderEnds, ClearedStop,
         SessionStop, StopSet, RemovePlayer, StopWake

LEMMA PusherTypes == TypeOK /\ [Next]_vars => PusherTypeOK'
<1> USE DEF TypeOK, PusherTypeOK, LoopPc, Wake, sourceVars
<1>1. ASSUME TypeOK, NEW k \in SourceKinds, Arrive(k)
      PROVE  PusherTypeOK'
  <2>1. arrived \in Seq(Kind) /\ k \in Kind
    BY <1>1, RelayAssumption DEF SourceTypeOK
  <2>2. Len(arrived') = Len(arrived) + 1 /\ Len(arrived) \in Nat
    BY <1>1, <2>1 DEF Arrive
  <2>3. QED
    BY <1>1, <2>2 DEF Arrive
<1>2. ASSUME TypeOK, SourceHalt
      PROVE  PusherTypeOK'
  BY <1>2 DEF SourceHalt, ClearPlayer, Unregister, SourceWake, pusherVars
<1>3. ASSUME TypeOK, PusherCheck \/ PusherTake \/ PusherPark \/ PusherSnapshot
      PROVE  PusherTypeOK'
  <2>1. Len(arrived) \in Nat
    BY <1>3 DEF SourceTypeOK
  <2>2. QED
    BY <1>3, <2>1 DEF PusherCheck, PusherTake, PusherPark, PusherSnapshot, BroadcastPc
<1>4. ASSUME TypeOK, PusherCache
      PROVE  PusherTypeOK'
  <2>1. NextGop(gopCache, head) \in Seq(Nat)
    BY <1>4 DEF NextGop
  <2>2. QED
    BY <1>4, <2>1 DEF PusherCache
<1>5. ASSUME TypeOK, NEW p \in Player, PusherBroadcast(p)
      PROVE  PusherTypeOK'
  BY <1>5 DEF PusherBroadcast, BroadcastPc
<1>6. ASSUME TypeOK, NEW p \in Player,
             Register(p) \/ \E s \in Stopper : RemovePlayer(p, s)
      PROVE  PusherTypeOK'
  BY <1>6 DEF Register, RemovePlayer, pusherVars
<1>7. TypeOK /\ UNCHANGED <<pusherVars, players, arrived>> => PusherTypeOK'
  BY DEF pusherVars
<1>8. QED
  BY <1>1, <1>2, <1>3, <1>4, <1>5, <1>6, <1>7
     DEF Next, vars, SourceStop, PusherGoroutine, Describe, Play, AddPlayer, ReplayPack,
         PlayerGoroutine, PlayerCheck, PlayerTake, PlayerPark, ReaderEnds, ClearedStop,
         SessionStop, StopSet, StopWake

LEMMA AttachTypes == TypeOK /\ [Next]_vars => AttachTypeOK'
<1> USE DEF TypeOK, AttachTypeOK
<1>1. ASSUME TypeOK, NEW p \in Player, Describe(p) \/ Play(p) \/ ReplayPack(p)
      PROVE  AttachTypeOK'
  <2>1. CASE Describe(p)
    BY <1>1, <2>1 DEF Describe
  <2>2. CASE Play(p)
    BY <1>1, <2>2 DEF Play, ReplayPc
  <2>3. CASE ReplayPack(p)
    BY <1>1, <2>3 DEF ReplayPack, ReplayPc
  <2>4. QED
    BY <1>1, <2>1, <2>2, <2>3
<1>2. ASSUME TypeOK, NEW p \in Player, Register(p)
      PROVE  AttachTypeOK'
  <2>1. Len(feed[p]) \in Nat /\ Upcoming \in Nat
    BY <1>2 DEF PlayerTypeOK, PusherTypeOK, Upcoming
  <2>2. /\ cursor' = cursor /\ plays' = plays
        /\ entry' = entry \/ entry' = [entry EXCEPT ![p] = Upcoming]
        /\ handler' = [handler EXCEPT ![p] = "ready"]
        /\ seam' = seam \/ seam' = [seam EXCEPT ![p] = Len(feed[p])]
    BY <1>2 DEF Register
  <2>3. QED
    BY <1>2, <2>1, <2>2
<1>3. TypeOK /\ UNCHANGED attachVars => AttachTypeOK'
  BY DEF attachVars
<1>4. QED
  BY <1>1, <1>2, <1>3
     DEF Next, vars, Arrive, SourceStop, SourceHalt, ClearPlayer, Unregister, SourceWake,
         PusherGoroutine, PusherCheck, PusherTake, PusherPark, PusherCache, PusherSnapshot,
         PusherBroadcast, AddPlayer, PlayerGoroutine, PlayerCheck, PlayerTake, PlayerPark,
         ReaderEnds, ClearedStop, SessionStop, StopSet, RemovePlayer, StopWake

LEMMA PlayerTypes == TypeOK /\ ReplayInBounds /\ [Next]_vars => PlayerTypeOK'
<1> USE DEF PlayerTypeOK, LoopPc, Wake
<1>1. ASSUME PlayerTypeOK, NEW p \in Player, NEW n \in Nat, QueueRTP(p, n)
      PROVE  PlayerTypeOK'
  BY <1>1 DEF QueueRTP
<1>2. ASSUME TypeOK, NEW p \in Player, PusherBroadcast(p)
      PROVE  PlayerTypeOK'
  BY <1>1, <1>2 DEF PusherBroadcast, TypeOK, PusherTypeOK
<1>3. ASSUME TypeOK, ReplayInBounds, NEW p \in Player, ReplayPack(p)
      PROVE  PlayerTypeOK'
  BY <1>1, <1>3, ReplayedPack DEF ReplayPack, TypeOK
<1>4. ASSUME TypeOK, NEW p \in Player, Register(p)
      PROVE  PlayerTypeOK'
  BY <1>4 DEF Register, TypeOK
<1>5. ASSUME TypeOK, NEW p \in Player, PlayerGoroutine(p)
      PROVE  PlayerTypeOK'
  <2>1. CASE PlayerCheck(p)
    BY <1>5, <2>1 DEF PlayerCheck, TypeOK
  <2>2. CASE PlayerTake(p)
    BY <1>5, <2>2 DEF PlayerTake, TypeOK
  <2>3. CASE PlayerPark(p)
    BY <1>5, <2>3 DEF PlayerPark, TypeOK
  <2>4. QED
    BY <1>5, <2>1, <2>2, <2>3 DEF PlayerGoroutine
<1>6. ASSUME TypeOK, NEW p \in Player, NEW s \in Stopper, StopWake(p, s)
      PROVE  PlayerTypeOK'
  BY <1>6 DEF StopWake, TypeOK
<1>7. TypeOK /\ UNCHANGED playerVars => PlayerTypeOK'
  BY DEF playerVars, TypeOK
<1>8. QED
  BY <1>2, <1>3, <1>4, <1>5, <1>6, <1>7
     DEF Next, vars, Arrive, SourceStop, SourceHalt, ClearPlayer, Unregister, SourceWake,
         PusherGoroutine, PusherCheck, PusherTake, PusherPark, PusherCache, PusherSnapshot,
         Describe, Play, AddPlayer, ReaderEnds, ClearedStop, SessionStop, StopSet, RemovePlayer

LEMMA StopTypes == TypeOK /\ [Next]_vars => StopTypeOK'
<1> USE DEF TypeOK, StopTypeOK, Stopper
<1>1. ASSUME TypeOK, ClearPlayer
      PROVE  StopTypeOK'
  BY <1>1 DEF ClearPlayer
<1>2. ASSUME TypeOK, NEW p \in Player, ReaderEnds(p) \/ ClearedStop(p)
      PROVE  StopTypeOK'
  BY <1>2 DEF ReaderEnds, ClearedStop, StopTest
<1>3. ASSUME TypeOK, NEW p \in Player, NEW s \in Stopper, SessionStop(p, s)
      PROVE  StopTypeOK'
  <2>1. CASE StopSet(p, s)
    BY <1>3, <2>1 DEF StopSet
  <2>2. CASE RemovePlayer(p, s)
    BY <1>3, <2>2 DEF RemovePlayer
  <2>3. CASE StopWake(p, s)
    BY <1>3, <2>3 DEF StopWake
  <2>4. QED
    BY <1>3, <2>1, <2>2, <2>3 DEF SessionStop
<1>4. TypeOK /\ UNCHANGED stopVars => StopTypeOK'
  BY DEF stopVars
<1>5. QED
  BY <1>1, <1>2, <1>3, <1>4
     DEF Next, vars, Arrive, SourceStop, SourceHalt, Unregister, SourceWake,
         PusherGoroutine, PusherCheck, PusherTake, PusherPark, PusherCache, PusherSnapshot,
         PusherBroadcast, Describe, Play, AddPlayer, ReplayPack, Register,
         PlayerGoroutine, PlayerCheck, PlayerTake, PlayerPark

\* The read lock of AddPlayer keeps the cursor inside the cache.
LEMMA ReplayStep == TypeOK /\ ReplayInBounds /\ [Next]_vars => ReplayInBounds'
<1> SUFFICES ASSUME TypeOK, ReplayInBounds, [Next]_vars,
                    NEW q \in Player, handler'[q] = "copy"
             PROVE  cursor'[q] <= Len(gopCache')
  BY DEF ReplayInBounds
<1> USE DEF TypeOK, PusherTypeOK, AttachTypeOK, ReplayInBounds, pusherVars, attachVars
<1>1. CASE UNCHANGED <<handler, cursor, gopCache>>
  BY <1>1
<1>2. CASE PusherCache
  BY <1>2 DEF PusherCache, CacheLockFree
<1>3. ASSUME NEW p \in Player, Describe(p) \/ Play(p) \/ ReplayPack(p) \/ Register(p)
      PROVE  cursor'[q] <= Len(gopCache')
  BY <1>3 DEF Describe, Play, ReplayPack, Register, ReplayPc
<1>4. QED
  BY <1>1, <1>2, <1>3
     DEF Next, vars, Arrive, SourceStop, SourceHalt, ClearPlayer, Unregister, SourceWake,
         PusherGoroutine, PusherCheck, PusherTake, PusherPark, PusherSnapshot, PusherBroadcast,
         AddPlayer, PlayerGoroutine, PlayerCheck, PlayerTake, PlayerPark, ReaderEnds, ClearedStop,
         SessionStop, StopSet, RemovePlayer, StopWake

\* Type correctness: no interleaving of the source, the pusher and player
\* goroutines, AddPlayer and the stop handles takes a variable out of its type,
\* and AddPlayer never reads past the end of the GOP cache.
THEOREM TypeCorrect == Spec => [](TypeOK /\ ReplayInBounds)
<1>1. Init => TypeOK /\ ReplayInBounds
  <2>1. Init => SourceTypeOK /\ PusherTypeOK
    <3>1. <<>> \in Seq(Kind) /\ <<>> \in Seq(Nat)
      OBVIOUS
    <3>2. Init => SourceTypeOK
      BY <3>1 DEF Init, SourceTypeOK
    <3>3. Init => PusherTypeOK
      BY <3>1 DEF Init, PusherTypeOK, LoopPc
    <3>4. QED
      BY <3>2, <3>3
  <2>2. Init => AttachTypeOK /\ PlayerTypeOK
    BY DEF Init, AttachTypeOK, PlayerTypeOK, LoopPc
  <2>3. Init => StopTypeOK /\ ReplayInBounds
    BY DEF Init, StopTypeOK, ReplayInBounds, Stopper
  <2>4. QED
    BY <2>1, <2>2, <2>3 DEF TypeOK
<1>2. TypeOK /\ ReplayInBounds /\ [Next]_vars => (TypeOK /\ ReplayInBounds)'
  BY SourceTypes, PusherTypes, AttachTypes, PlayerTypes, StopTypes, ReplayStep DEF TypeOK
<1>3. QED
  BY <1>1, <1>2, PTL DEF Spec

-----------------------------------------------------------------------------
(* Order of the feeds, of each player up to its second PLAY.               *)

\* A step that feeds nobody and attaches nobody: goroutines move between the
\* states of their loops and players leave the map.
Quiet ==
    /\ pusherPc' = pusherPc \/ {pusherPc, pusherPc'} \subseteq LoopPc
    /\ players' \subseteq players
    /\ \A p \in Player : playerPc'[p] = "none" <=> playerPc[p] = "none"
    /\ UNCHANGED <<head, gopCache, todo, attachVars, feed>>

\* The steps that matter to the feeds; all others are quiet.
FeedStep ==
    \/ PusherTake \/ PusherCache \/ PusherSnapshot
    \/ \E p \in Player :
        PusherBroadcast(p) \/ Describe(p) \/ Play(p) \/ ReplayPack(p) \/ Register(p)

LEMMA QuietOrFeed == TypeOK /\ [Next]_vars => Quiet \/ FeedStep
<1> SUFFICES ASSUME TypeOK, [Next]_vars
             PROVE  Quiet \/ FeedStep
  OBVIOUS
<1> USE DEF Quiet, LoopPc, pusherVars, playerVars, TypeOK, PusherTypeOK, PlayerTypeOK, Wake
<1>1. ASSUME NEW k \in SourceKinds, Arrive(k)
      PROVE  Quiet
  BY <1>1 DEF Arrive
<1>2. CASE SourceStop \/ SourceHalt
  BY <1>2 DEF SourceStop, SourceHalt, ClearPlayer, Unregister, SourceWake
<1>3. CASE PusherCheck \/ PusherPark
  BY <1>3 DEF PusherCheck, PusherPark
<1>4. ASSUME NEW p \in Player, PlayerGoroutine(p)
      PROVE  Quiet
  <2>1. CASE PlayerCheck(p)
    BY <1>4, <2>1 DEF PlayerCheck
  <2>2. CASE PlayerTake(p)
    BY <1>4, <2>2 DEF PlayerTake
  <2>3. CASE PlayerPark(p)
    BY <1>4, <2>3 DEF PlayerPark
  <2>4. QED
    BY <1>4, <2>1, <2>2, <2>3 DEF PlayerGoroutine
<1>5. ASSUME NEW p \in Player, ReaderEnds(p) \/ ClearedStop(p)
      PROVE  Quiet
  BY <1>5 DEF ReaderEnds, ClearedStop
<1>6. ASSUME NEW p \in Player, NEW s \in Stopper, SessionStop(p, s)
      PROVE  Quiet
  <2>1. CASE StopSet(p, s) \/ RemovePlayer(p, s)
    BY <2>1 DEF StopSet, RemovePlayer
  <2>2. CASE StopWake(p, s)
    BY <2>2 DEF StopWake
  <2>3. QED
    BY <1>6, <2>1, <2>2 DEF SessionStop
<1>7. CASE UNCHANGED vars
  BY <1>7 DEF vars
<1>8. QED
  BY <1>1, <1>2, <1>3, <1>4, <1>5, <1>6, <1>7 DEF Next, FeedStep, PusherGoroutine, AddPlayer

\* What Append returns.
LEMMA Appended ==
    ASSUME NEW f \in Seq(Nat), NEW n \in Nat
    PROVE  /\ Len(f) \in Nat /\ Len(Append(f, n)) = Len(f) + 1
           /\ \A i \in 1..Len(f) : Append(f, n)[i] = f[i]
           /\ Append(f, n)[Len(f) + 1] = n
  OBVIOUS

\* Appending a member of a set keeps the elements in the set.
LEMMA AppendedIn ==
    ASSUME NEW f \in Seq(Nat), NEW n \in Nat, NEW B, n \in B,
           \A i \in 1..Len(f) : f[i] \in B
    PROVE  \A i \in 1..Len(Append(f, n)) : Append(f, n)[i] \in B
<1>1. \A i \in 1..Len(Append(f, n)) : i \in 1..Len(f) \/ i = Len(f) + 1
  BY Appended
<1>2. QED
  BY <1>1, Appended

\* What QueueRTP does to the players.
LEMMA Fed ==
    ASSUME PlayerTypeOK, NEW p \in Player, NEW n \in Nat, QueueRTP(p, n)
    PROVE  /\ feed'[p] = Append(feed[p], n)
           /\ \A q \in Player : q # p => feed'[q] = feed[q]
           /\ \A q \in Player : playerPc'[q] = "none" <=> playerPc[q] = "none"
           /\ \A q \in Player : Len(feed'[q]) >= Len(feed[q]) /\ Len(feed[q]) \in Nat
<1>1. /\ feed'[p] = Append(feed[p], n)
      /\ \A q \in Player : q # p => feed'[q] = feed[q]
  BY DEF QueueRTP, PlayerTypeOK
<1>2. \A q \in Player : playerPc'[q] = "none" <=> playerPc[q] = "none"
  BY DEF QueueRTP, PlayerTypeOK, Wake
<1>3. \A q \in Player : feed[q] \in Seq(Nat)
  BY DEF PlayerTypeOK
<1>4. Len(feed'[p]) = Len(feed[p]) + 1
  BY <1>1, <1>3, Appended
<1>5. \A q \in Player : Len(feed'[q]) >= Len(feed[q]) /\ Len(feed[q]) \in Nat
  BY <1>1, <1>3, <1>4
<1>6. QED
  BY <1>1, <1>2, <1>5

\* Nobody is in the map or being served before the end of its AddPlayer.
LEMMA AttachStep ==
    ASSUME TypeOK, ReplayInBounds, AttachInv, [Next]_vars
    PROVE  AttachInv'
<1> USE DEF AttachInv, TypeOK, PusherTypeOK, AttachTypeOK, PlayerTypeOK,
            pusherVars, attachVars, playerVars
<1>1. CASE Quiet
  BY <1>1 DEF Quiet, LoopPc
<1>2. CASE PusherTake \/ PusherCache
  BY <1>2 DEF PusherTake, PusherCache
<1>3. CASE PusherSnapshot
  BY <1>3 DEF PusherSnapshot, BroadcastPc
<1>4. ASSUME NEW p \in Player, PusherBroadcast(p)
      PROVE  AttachInv'
  <2>1. /\ QueueRTP(p, head) /\ p \in todo /\ todo' = todo \ {p}
        /\ pusherPc' # "bcast" => todo' = {}
        /\ UNCHANGED <<players, plays, handler, seam>>
    BY <1>4 DEF PusherBroadcast, BroadcastPc
  <2>2. /\ \A q \in Player : Len(feed'[q]) >= Len(feed[q]) /\ Len(feed[q]) \in Nat
        /\ \A q \in Player : q # p => feed'[q] = feed[q]
        /\ \A q \in Player : playerPc'[q] = "none" <=> playerPc[q] = "none"
    BY <2>1, Fed
  <2>3. plays[p] # 0 /\ playerPc[p] # "none"
    BY <2>1
  <2>4. QED
    BY <2>1, <2>2, <2>3
<1>5. ASSUME NEW p \in Player, Describe(p)
      PROVE  AttachInv'
  BY <1>5 DEF Describe
<1>6. ASSUME NEW p \in Player, Play(p)
      PROVE  AttachInv'
  <2>1. /\ UNCHANGED <<pusherPc, todo, players, playerPc, feed, seam>> /\ handler[p] = "ready"
        /\ plays' = [plays EXCEPT ![p] = @ + 1] /\ plays[p] < MaxPlay
        /\ \A q \in Player : q # p => handler'[q] = handler[q]
    BY <1>6 DEF Play
  <2>2. /\ plays'[p] > 0 /\ plays'[p] <= MaxPlay
        /\ \A q \in Player : q # p => plays'[q] = plays[q]
    BY <2>1, RelayAssumption
  <2>3. QED
    BY <2>1, <2>2
<1>7. ASSUME NEW p \in Player, ReplayPack(p)
      PROVE  AttachInv'
  <2>1. /\ QueueRTP(p, gopCache[cursor[p]]) /\ gopCache[cursor[p]] \in Nat
        /\ handler[p] = "copy" /\ \A q \in Player : q # p => handler'[q] = handler[q]
        /\ UNCHANGED <<pusherPc, todo, players, plays, seam>>
    BY <1>7, ReplayedPack DEF ReplayPack
  <2>2. /\ \A q \in Player : Len(feed'[q]) >= Len(feed[q]) /\ Len(feed[q]) \in Nat
        /\ \A q \in Player : q # p => feed'[q] = feed[q]
        /\ \A q \in Player : playerPc'[q] = "none" <=> playerPc[q] = "none"
    BY <2>1, Fed
  <2>3. plays[p] # 0
    BY <2>1
  <2>4. ASSUME NEW q \in Player
        PROVE  /\ plays'[q] = 0 => /\ handler'[q] \in {"new", "ready"}
                                   /\ feed'[q] = <<>> /\ playerPc'[q] = "none"
               /\ playerPc'[q] = "none" => q \notin players' /\ q \notin todo' /\ seam'[q] = 0
               /\ playerPc'[q] # "none" => seam'[q] <= Len(feed'[q])
    <3>1. CASE q = p
      BY <2>1, <2>2, <2>3, <3>1
    <3>2. CASE q # p
      <4>1. /\ handler'[q] = handler[q] /\ plays'[q] = plays[q] /\ seam'[q] = seam[q]
            /\ feed'[q] = feed[q] /\ (playerPc'[q] = "none" <=> playerPc[q] = "none")
            /\ players' = players /\ todo' = todo
        BY <2>1, <2>2, <3>2
      <4>2. QED
        BY <4>1
    <3>3. QED
      BY <3>1, <3>2
  <2>5. QED
    BY <2>1, <2>4
<1>8. ASSUME NEW p \in Player, Register(p)
      PROVE  AttachInv'
  <2>1. /\ handler[p] = "register" /\ \A q \in Player : q # p => handler'[q] = handler[q]
        /\ players' = players \cup {p}
        /\ UNCHANGED <<pusherPc, todo, plays, feed>>
    BY <1>8 DEF Register
  <2>2. CASE p \in players
    BY <1>8, <2>1, <2>2 DEF Register
  <2>3. CASE p \notin players
    <3>1. /\ playerPc'[p] = "loop" /\ seam'[p] = Len(feed[p]) /\ Len(feed[p]) \in Nat
          /\ \A q \in Player : q # p => playerPc'[q] = playerPc[q] /\ seam'[q] = seam[q]
      BY <1>8, <2>3 DEF Register
    <3>2. QED
      BY <2>1, <3>1, SMTT(30)
  <2>4. QED
    BY <2>2, <2>3
<1>9. QED
  BY <1>1, <1>2, <1>3, <1>4, <1>5, <1>6, <1>7, <1>8, QuietOrFeed DEF FeedStep

\* Up to the second PLAY: the goroutine exists exactly from the end of AddPlayer on.
LEMMA OnePlayStep ==
    ASSUME TypeOK, AttachInv, OnePlayInv, [Next]_vars
    PROVE  OnePlayInv'
<1> USE DEF OnePlayInv, TypeOK, AttachTypeOK, PlayerTypeOK, pusherVars, attachVars, playerVars
<1>1. CASE Quiet
  BY <1>1 DEF Quiet
<1>2. CASE PusherTake \/ PusherCache \/ PusherSnapshot
  BY <1>2 DEF PusherTake, PusherCache, PusherSnapshot
<1>3. ASSUME NEW p \in Player, PusherBroadcast(p)
      PROVE  OnePlayInv'
  BY <1>3 DEF PusherBroadcast, QueueRTP, Wake
<1>4. ASSUME NEW p \in Player, Describe(p)
      PROVE  OnePlayInv'
  BY <1>4 DEF Describe, AttachInv
<1>5. ASSUME NEW p \in Player, Play(p)
      PROVE  OnePlayInv'
  BY <1>5 DEF Play, ReplayPc, AttachInv
<1>6. ASSUME NEW p \in Player, ReplayPack(p)
      PROVE  OnePlayInv'
  BY <1>6 DEF ReplayPack, ReplayPc, QueueRTP, Wake
<1>7. ASSUME NEW p \in Player, Register(p)
      PROVE  OnePlayInv'
  BY <1>7 DEF Register, AttachInv
<1>8. QED
  BY <1>1, <1>2, <1>3, <1>4, <1>5, <1>6, <1>7, QuietOrFeed DEF FeedStep

\* The cache stays in stream order and behind the pusher goroutine.
LEMMA CacheStep ==
    ASSUME TypeOK, CacheInv, [Next]_vars
    PROVE  CacheInv'
<1> USE DEF CacheInv, Cached, TypeOK, PusherTypeOK, pusherVars
<1>1. CASE Quiet
  BY <1>1 DEF Quiet, LoopPc
<1>2. CASE PusherTake
  BY <1>2 DEF PusherTake
<1>3. CASE PusherCache
  <2>1. ASSUME UNCHANGED <<gopCache, head>>
        PROVE  CacheInv'
    BY <1>3, <2>1 DEF PusherCache
  <2>2. ASSUME gopCache' = <<head>>, UNCHANGED head
        PROVE  CacheInv'
    BY <1>3, <2>2 DEF PusherCache
  <2>3. ASSUME gopCache' = Append(gopCache, head), UNCHANGED head
        PROVE  CacheInv'
    <3>1. /\ Len(gopCache') = Len(gopCache) + 1
          /\ \A i \in 1..Len(gopCache) : gopCache'[i] = gopCache[i] /\ gopCache[i] <= head - 1
          /\ gopCache'[Len(gopCache) + 1] = head
      BY <1>3, <2>3 DEF PusherCache
    <3>2. head \in 1..head
      BY <1>3 DEF PusherCache
    <3>3. QED
      BY <1>3, <2>3, <3>1, <3>2 DEF PusherCache
  <2>4. QED
    BY <1>3, <2>1, <2>2, <2>3 DEF PusherCache, NextGop
<1>4. CASE PusherSnapshot
  BY <1>4 DEF PusherSnapshot, BroadcastPc
<1>5. ASSUME NEW p \in Player, PusherBroadcast(p)
      PROVE  CacheInv'
  BY <1>5 DEF PusherBroadcast, BroadcastPc
<1>6. ASSUME NEW p \in Player, Describe(p) \/ Play(p) \/ ReplayPack(p) \/ Register(p)
      PROVE  CacheInv'
  BY <1>6 DEF Describe, Play, ReplayPack, Register
<1>7. QED
  BY <1>1, <1>2, <1>3, <1>4, <1>5, <1>6, QuietOrFeed DEF FeedStep

\* Appending a pack keeps the order, if it comes after everything fed so far or
\* repeats the last replayed pack.
LEMMA InOrderAppend ==
    ASSUME NEW f \in Seq(Nat), NEW n \in Nat, NEW join \in Nat, InOrder(f, join),
           \A i \in 1..Len(f) : f[i] < n \/ (f[i] = n /\ i = Len(f) /\ i = join)
    PROVE  InOrder(Append(f, n), join)
<1> DEFINE g == Append(f, n)
<1>1. /\ Len(f) \in Nat /\ Len(g) = Len(f) + 1
      /\ \A i \in 1..Len(f) : g[i] = f[i]
      /\ g[Len(f) + 1] = n
  BY Appended
<1>2. \A i, j \in 1..Len(f) : i < j => g[i] < g[j] \/ (g[i] = g[j] /\ i = join /\ j = join + 1)
  BY <1>1 DEF InOrder
<1>3. \A i \in 1..Len(f) : g[i] < n \/ (g[i] = n /\ i = join /\ Len(f) + 1 = join + 1)
  BY <1>1
<1>4. \A i, j \in 1..Len(g) : i < j => g[i] < g[j] \/ (g[i] = g[j] /\ i = join /\ j = join + 1)
  <2>1. ASSUME NEW i \in 1..Len(g), NEW j \in 1..Len(g), i < j
        PROVE  g[i] < g[j] \/ (g[i] = g[j] /\ i = join /\ j = join + 1)
    <3>1. i \in 1..Len(f)
      BY <1>1, <2>1
    <3>2. CASE j \in 1..Len(f)
      BY <1>2, <2>1, <3>1, <3>2
    <3>3. CASE j = Len(f) + 1
      BY <1>1, <1>3, <3>1, <3>3
    <3>4. QED
      BY <1>1, <2>1, <3>2, <3>3
  <2>2. QED
    BY <2>1
<1>5. QED
  BY <1>4 DEF InOrder

\* Appending the successor of the last pack leaves no hole.
LEMMA NoGapAppend ==
    ASSUME NEW f \in Seq(Nat), NEW n \in Nat, NEW join \in Nat, NoGapAfter(f, join),
           Len(f) > join => f[Len(f)] = n - 1
    PROVE  NoGapAfter(Append(f, n), join)
  BY DEF NoGapAfter

\* The broadcast serves a player that is past its AddPlayer.
LEMMA Broadcast ==
    ASSUME TypeOK, AttachInv, CacheInv, NEW p \in Player, PusherBroadcast(p)
    PROVE  /\ head \in Nat /\ head > 0
           /\ playerPc[p] # "none" /\ seam[p] <= Len(feed[p]) /\ seam[p] \in Nat
           /\ feed[p] \in Seq(Nat)
           /\ feed'[p] = Append(feed[p], head)
           /\ \A q \in Player : q # p => feed'[q] = feed[q]
           /\ \A q \in Player : playerPc'[q] = "none" <=> playerPc[q] = "none"
<1>1. QueueRTP(p, head) /\ head \in Nat /\ p \in todo /\ pusherPc = "bcast" /\ PlayerTypeOK
  BY DEF PusherBroadcast, TypeOK, PusherTypeOK
<1>2. head > 0 /\ playerPc[p] # "none" /\ seam[p] <= Len(feed[p])
  BY <1>1 DEF AttachInv, CacheInv
<1>3. seam[p] \in Nat /\ feed[p] \in Seq(Nat)
  BY DEF TypeOK, AttachTypeOK, PlayerTypeOK
<1>4. QED
  BY <1>1, <1>2, <1>3, Fed

\* A replay feeds the next entry of the cache, the first one to a player not yet in the map.
LEMMA Replayed ==
    ASSUME TypeOK, ReplayInBounds, OnePlayInv, ReplayInv, NEW p \in Player, ReplayPack(p)
    PROVE  /\ gopCache[cursor[p]] \in Nat
           /\ plays[p] <= 1 => playerPc[p] = "none" /\ cursor[p] = Len(feed[p]) + 1
           /\ feed[p] \in Seq(Nat)
           /\ cursor[p] \in 1..Len(gopCache)
           /\ cursor'[p] = cursor[p] + 1
           /\ feed'[p] = Append(feed[p], gopCache[cursor[p]])
           /\ \A q \in Player : q # p =>
                  feed'[q] = feed[q] /\ cursor'[q] = cursor[q] /\ handler'[q] = handler[q]
           /\ \A q \in Player : playerPc'[q] = "none" <=> playerPc[q] = "none"
<1>1. gopCache[cursor[p]] \in Nat
  BY ReplayedPack
<1>2. plays[p] <= 1 => playerPc[p] = "none" /\ cursor[p] = Len(feed[p]) + 1
  BY DEF ReplayPack, OnePlayInv, ReplayInv, TypeOK, AttachTypeOK, PlayerTypeOK
<1>3. cursor[p] \in 1..Len(gopCache) /\ feed[p] \in Seq(Nat)
  BY DEF ReplayPack, ReplayInBounds, TypeOK, AttachTypeOK, PlayerTypeOK, PusherTypeOK
<1>4. /\ cursor'[p] = cursor[p] + 1
      /\ \A q \in Player : q # p => cursor'[q] = cursor[q] /\ handler'[q] = handler[q]
  BY DEF ReplayPack, TypeOK, AttachTypeOK
<1>5. QueueRTP(p, gopCache[cursor[p]]) /\ PlayerTypeOK
  BY DEF ReplayPack, TypeOK
<1>6. QED
  BY <1>1, <1>2, <1>3, <1>4, <1>5, Fed

\* During the first replay the feed is the beginning of the cache.
LEMMA ReplayInvStep ==
    ASSUME TypeOK, ReplayInBounds, AttachInv, OnePlayInv, CacheInv, ReplayInv, [Next]_vars
    PROVE  ReplayInv'
<1> SUFFICES ASSUME NEW q \in Player, plays'[q] <= 1, handler'[q] = "copy"
             PROVE  /\ Len(feed'[q]) = cursor'[q] - 1
                    /\ \A i \in 1..Len(feed'[q]) : feed'[q][i] = gopCache'[i]
  BY DEF ReplayInv
<1>1. CASE Quiet
  BY <1>1 DEF Quiet, ReplayInv, attachVars
<1>2. CASE PusherTake \/ PusherSnapshot
  BY <1>2 DEF PusherTake, PusherSnapshot, ReplayInv, attachVars, playerVars
<1>3. CASE PusherCache
  BY <1>3 DEF PusherCache, CacheLockFree, ReplayInv, attachVars, playerVars
<1>4. ASSUME NEW p \in Player, PusherBroadcast(p)
      PROVE  /\ Len(feed'[q]) = cursor'[q] - 1
             /\ \A i \in 1..Len(feed'[q]) : feed'[q][i] = gopCache'[i]
  <2>1. UNCHANGED <<handler, cursor, plays, gopCache>>
    BY <1>4 DEF PusherBroadcast, attachVars
  <2>2. q # p
    BY <1>4, <2>1, Broadcast DEF OnePlayInv
  <2>3. QED
    BY <1>4, <2>1, <2>2, Broadcast DEF ReplayInv
<1>5. ASSUME NEW p \in Player, Describe(p) \/ Register(p)
      PROVE  /\ Len(feed'[q]) = cursor'[q] - 1
             /\ \A i \in 1..Len(feed'[q]) : feed'[q][i] = gopCache'[i]
  <2>1. handler[q] = "copy" /\ UNCHANGED <<cursor, plays, feed, gopCache>>
    BY <1>5 DEF Describe, Register, TypeOK, AttachTypeOK, pusherVars, playerVars
  <2>2. QED
    BY <2>1 DEF ReplayInv
<1>6. ASSUME NEW p \in Player, Play(p)
      PROVE  /\ Len(feed'[q]) = cursor'[q] - 1
             /\ \A i \in 1..Len(feed'[q]) : feed'[q][i] = gopCache'[i]
  <2>1. CASE q = p
    <3>1. plays[p] = 0
      BY <1>6, <2>1 DEF Play, TypeOK, AttachTypeOK
    <3>2. feed'[p] = <<>> /\ cursor'[p] = 1
      BY <1>6, <3>1 DEF Play, AttachInv, playerVars, TypeOK, AttachTypeOK
    <3>3. QED
      BY <2>1, <3>2
  <2>2. CASE q # p
    BY <1>6, <2>2 DEF Play, ReplayInv, TypeOK, AttachTypeOK, pusherVars, playerVars
  <2>3. QED
    BY <2>1, <2>2
<1>7. ASSUME NEW p \in Player, ReplayPack(p)
      PROVE  /\ Len(feed'[q]) = cursor'[q] - 1
             /\ \A i \in 1..Len(feed'[q]) : feed'[q][i] = gopCache'[i]
  <2>1. UNCHANGED <<gopCache, plays>> /\ handler[p] = "copy"
    BY <1>7 DEF ReplayPack, pusherVars
  <2>2. CASE q = p
    <3>1. /\ Len(feed'[p]) = Len(feed[p]) + 1 /\ Len(feed[p]) \in Nat
          /\ \A i \in 1..Len(feed[p]) : feed'[p][i] = feed[p][i]
          /\ feed'[p][Len(feed[p]) + 1] = gopCache[cursor[p]]
      <4>1. /\ feed[p] \in Seq(Nat) /\ gopCache[cursor[p]] \in Nat
            /\ feed'[p] = Append(feed[p], gopCache[cursor[p]])
        BY <1>7, Replayed
      <4>2. QED
        BY <4>1, Appended
    <3>2. \A i \in 1..Len(feed[p]) : feed'[p][i] = gopCache[i]
      BY <2>1, <2>2, <3>1 DEF ReplayInv
    <3>3. feed'[p][Len(feed[p]) + 1] = gopCache[Len(feed[p]) + 1]
      BY <1>7, <2>1, <2>2, <3>1, Replayed
    <3>4. cursor'[p] = Len(feed[p]) + 2
      BY <1>7, <2>1, <2>2, <3>1, Replayed
    <3>5. QED
      BY <2>1, <2>2, <3>1, <3>2, <3>3, <3>4
  <2>3. CASE q # p
    BY <1>7, <2>1, <2>3, Replayed DEF ReplayInv
  <2>4. QED
    BY <2>2, <2>3
<1>8. QED
  BY <1>1, <1>2, <1>3, <1>4, <1>5, <1>6, <1>7, QuietOrFeed DEF FeedStep

\* Who is being served got the current pack or waits for exactly it.
LEMMA LiveStep ==
    ASSUME TypeOK, ReplayInBounds, AttachInv, OnePlayInv, CacheInv, ReplayInv, LiveInv, [Next]_vars
    PROVE  LiveInv'
<1> USE DEF LiveInv, LastLive, Cached
<1>1. CASE Quiet
  BY <1>1 DEF Quiet, LoopPc, attachVars
<1>2. CASE PusherTake
  <2>1. /\ head \in Nat /\ head' = head + 1 /\ pusherPc \in {"lock", "woken"} /\ pusherPc' = "cache"
        /\ UNCHANGED <<todo, players, plays, feed, seam>>
    BY <1>2 DEF PusherTake, TypeOK, PusherTypeOK, attachVars, playerVars
  <2>2. todo = {}
    BY <2>1 DEF AttachInv
  <2>3. QED
    BY <2>1, <2>2
<1>3. CASE PusherCache
  BY <1>3 DEF PusherCache, attachVars, playerVars, TypeOK, PusherTypeOK, PlayerTypeOK
<1>4. CASE PusherSnapshot
  BY <1>4 DEF PusherSnapshot, BroadcastPc, AttachInv, attachVars, playerVars
<1>5. ASSUME NEW p \in Player, PusherBroadcast(p)
      PROVE  LiveInv'
  <2>1. /\ UNCHANGED <<head, players, plays, seam>> /\ todo' = todo \ {p}
        /\ pusherPc = "bcast" /\ pusherPc' \in {"bcast", "loop"}
    BY <1>5 DEF PusherBroadcast, BroadcastPc, attachVars
  <2>2. /\ head \in Nat /\ head > 0 /\ feed[p] \in Seq(Nat) /\ feed'[p] = Append(feed[p], head)
    BY <1>5, Broadcast
  <2>3. \A i \in 1..Len(feed[p]) : feed[p][i] \in 1..head
    BY <2>1
  <2>4. \A i \in 1..Len(feed'[p]) : feed'[p][i] \in 1..head
    BY <2>2, <2>3, AppendedIn
  <2>5. feed'[p][Len(feed'[p])] = head
    BY <2>2, Appended
  <2>6. QED
    BY <1>5, <2>1, <2>4, <2>5, Broadcast
<1>6. ASSUME NEW p \in Player, Describe(p) \/ Play(p)
      PROVE  LiveInv'
  <2>1. /\ UNCHANGED <<head, pusherPc, todo, players, feed, seam>>
        /\ \A q \in Player : plays'[q] <= 1 => plays[q] <= 1
    <3>1. CASE Describe(p)
      BY <3>1 DEF Describe, pusherVars, playerVars
    <3>2. CASE Play(p)
      <4>1. plays' = [plays EXCEPT ![p] = @ + 1] /\ plays \in [Player -> Nat]
        BY <3>2 DEF Play, TypeOK, AttachTypeOK
      <4>2. QED
        BY <3>2, <4>1 DEF Play, pusherVars, playerVars
    <3>3. QED
      BY <1>6, <3>1, <3>2
  <2>2. QED
    BY <2>1
<1>7. ASSUME NEW p \in Player, ReplayPack(p)
      PROVE  LiveInv'
  <2>1. /\ UNCHANGED <<head, pusherPc, todo, players, plays, seam>>
        /\ plays[p] <= 1 => p \notin players /\ p \notin todo
    BY <1>7, Replayed DEF ReplayPack, pusherVars, AttachInv
  <2>2. gopCache[cursor[p]] \in 1..Cached
    BY <1>7, Replayed DEF CacheInv
  <2>3. \A i \in 1..Len(feed'[p]) : feed'[p][i] \in 1..Cached
    <3>1. /\ feed[p] \in Seq(Nat) /\ gopCache[cursor[p]] \in Nat
          /\ feed'[p] = Append(feed[p], gopCache[cursor[p]])
      BY <1>7, Replayed
    <3>2. \A i \in 1..Len(feed[p]) : feed[p][i] \in 1..Cached
      OBVIOUS
    <3> HIDE DEF LiveInv, LastLive, Cached
    <3>3. QED
      BY <2>2, <3>1, <3>2, AppendedIn
  <2>4. QED
    BY <1>7, <2>1, <2>3, Replayed
<1>8. ASSUME NEW p \in Player, Register(p)
      PROVE  LiveInv'
  BY <1>8 DEF Register, AttachInv, OnePlayInv, pusherVars, TypeOK, AttachTypeOK
<1>9. QED
  BY <1>1, <1>2, <1>3, <1>4, <1>5, <1>6, <1>7, <1>8, QuietOrFeed DEF FeedStep

\* The order and the contiguity are kept because the pack fed next is known.
LEMMA OrderStep ==
    ASSUME TypeOK, FeedInv, [Next]_vars
    PROVE  FeedOrdered'
<1> USE DEF FeedOrdered
<1>1. CASE Quiet
  BY <1>1 DEF Quiet, FeedInv, attachVars
<1>2. CASE PusherTake \/ PusherCache \/ PusherSnapshot
  BY <1>2 DEF PusherTake, PusherCache, PusherSnapshot, FeedInv, attachVars, playerVars
<1>3. ASSUME NEW p \in Player, PusherBroadcast(p)
      PROVE  FeedOrdered'
  <2>1. p \in todo /\ pusherPc = "bcast" /\ UNCHANGED <<seam, plays>>
    BY <1>3 DEF PusherBroadcast, attachVars
  <2> SUFFICES ASSUME plays[p] <= 1
               PROVE  InOrder(feed'[p], seam[p]) /\ NoGapAfter(feed'[p], seam[p])
    BY <1>3, <2>1, Broadcast DEF FeedInv
  <2>2. /\ \A i \in 1..Len(feed[p]) : feed[p][i] \in 1..head
        /\ Len(feed[p]) > seam[p] => feed[p][Len(feed[p])] = head - 1
    BY <1>3, <2>1 DEF FeedInv, LiveInv, LastLive, Cached
  <2>3. \A i \in 1..Len(feed[p]) :
            feed[p][i] < head \/ (feed[p][i] = head /\ i = Len(feed[p]) /\ i = seam[p])
    <3>1. InOrder(feed[p], seam[p])
      BY DEF FeedInv
    <3>2. /\ seam[p] \in Nat /\ seam[p] <= Len(feed[p]) /\ head \in Nat
          /\ feed[p] \in Seq(Nat)
      BY <1>3, Broadcast DEF FeedInv
    <3>3. QED
      BY <2>2, <3>1, <3>2 DEF InOrder
  <2>4. InOrder(feed'[p], seam[p])
    BY <1>3, <2>3, Broadcast, InOrderAppend DEF FeedInv
  <2>5. NoGapAfter(feed'[p], seam[p])
    BY <1>3, <2>2, Broadcast, NoGapAppend DEF FeedInv
  <2>6. QED
    BY <2>4, <2>5
<1>4. ASSUME NEW p \in Player, Describe(p) \/ Play(p)
      PROVE  FeedOrdered'
  BY <1>4 DEF Describe, Play, FeedInv, playerVars, TypeOK, AttachTypeOK
<1>5. ASSUME NEW p \in Player, ReplayPack(p)
      PROVE  FeedOrdered'
  <2>1. UNCHANGED <<seam, plays>> /\ seam[p] \in Nat /\ handler[p] = "copy"
    BY <1>5 DEF ReplayPack, TypeOK, AttachTypeOK
  <2> SUFFICES ASSUME plays[p] <= 1
               PROVE  InOrder(feed'[p], seam[p])
    BY <1>5, <2>1, Replayed DEF FeedInv
  <2>2. \A i \in 1..Len(feed[p]) : feed[p][i] < gopCache[cursor[p]]
    <3>1. \A i \in 1..Len(feed[p]) : feed[p][i] = gopCache[i]
      BY <2>1 DEF FeedInv, ReplayInv
    <3>2. \A i \in 1..Len(feed[p]) : i \in 1..Len(gopCache) /\ i < cursor[p]
      BY <1>5, Replayed DEF FeedInv
    <3>3. cursor[p] \in 1..Len(gopCache)
      BY <1>5, Replayed DEF FeedInv
    <3>4. QED
      BY <3>1, <3>2, <3>3 DEF FeedInv, CacheInv
  <2>3. InOrder(feed'[p], seam[p])
    BY <1>5, <2>1, <2>2, Replayed, InOrderAppend DEF FeedInv
  <2>4. QED
    BY <2>3
<1>6. ASSUME NEW p \in Player, Register(p)
      PROVE  FeedOrdered'
  <2>1. /\ UNCHANGED <<feed, plays>>
        /\ \A q \in Player : q # p => seam'[q] = seam[q] /\ playerPc'[q] = playerPc[q]
    BY <1>6 DEF Register, TypeOK, AttachTypeOK, PlayerTypeOK
  <2> SUFFICES ASSUME plays[p] <= 1
               PROVE  InOrder(feed[p], seam'[p]) /\ NoGapAfter(feed[p], seam'[p])
    BY <1>6, <2>1 DEF FeedInv
  <2>2. playerPc[p] = "none" /\ p \notin players /\ seam[p] = 0 /\ feed[p] \in Seq(Nat)
    BY <1>6 DEF Register, FeedInv, OnePlayInv, AttachInv, TypeOK, PlayerTypeOK
  <2>3. seam'[p] = Len(feed[p])
    BY <1>6, <2>2 DEF Register, TypeOK, AttachTypeOK
  <2>4. InOrder(feed[p], Len(feed[p])) /\ NoGapAfter(feed[p], Len(feed[p]))
    BY <2>2 DEF FeedInv, InOrder, NoGapAfter
  <2>5. QED
    BY <2>3, <2>4
<1>7. QED
  BY <1>1, <1>2, <1>3, <1>4, <1>5, <1>6, QuietOrFeed DEF FeedStep

LEMMA InitFeedInv == Init => FeedInv
<1> SUFFICES ASSUME Init PROVE FeedInv
  OBVIOUS
<1>1. ReplayInBounds /\ AttachInv /\ OnePlayInv /\ ReplayInv
  BY RelayAssumption DEF Init, ReplayInBounds, AttachInv, OnePlayInv, ReplayInv
<1>2. CacheInv
  BY DEF Init, CacheInv
<1>3. \A p \in Player : feed[p] = <<>>
  BY DEF Init
<1>4. LiveInv
  <2> SUFFICES ASSUME NEW p \in Player
               PROVE  /\ \A i \in 1..Len(feed[p]) : feed[p][i] \in 1..Cached
                      /\ p \notin players /\ p \notin todo
    BY DEF LiveInv
  <2>1. Len(feed[p]) = 0
    BY <1>3
  <2>2. players = {} /\ todo = {}
    BY DEF Init
  <2> QED BY <2>1, <2>2
<1>5. FeedOrdered
  BY <1>3 DEF FeedOrdered, InOrder, NoGapAfter
<1>6. QED
  BY <1>1, <1>2, <1>4, <1>5 DEF FeedInv

\* FeedInv holds, whatever the players send.
LEMMA FeedInvariant == Spec => []FeedInv
<1>1. Init => FeedInv
  BY InitFeedInv
<1>2. TypeOK /\ FeedInv /\ [Next]_vars => FeedInv'
  BY ReplayStep, AttachStep, OnePlayStep, CacheStep, ReplayInvStep, LiveStep, OrderStep DEF FeedInv
<1>3. QED
  BY <1>1, <1>2, TypeCorrect, PTL DEF Spec

\* For any number of players, any stream and any interleaving: what a player that has
\* sent one PLAY is fed is in stream order, repeats at most the pack at the seam of
\* replay and live feed, and has no hole from there on, also while others play again.
THEOREM FeedsInOrder == Spec => []FeedOrdered
<1>1. FeedInv => FeedOrdered
  BY DEF FeedInv
<1>2. QED
  BY <1>1, FeedInvariant, PTL

-----------------------------------------------------------------------------
(* What holds for any number of PLAYs.                                     *)

\* The property is inductive with the types: who enters the map is in it, who
\* leaves it has a caller of Session.Stop at work, and no caller starts over.
LEMMA DropStep ==
    ASSUME TypeOK, NoPlayerDroppedSilently, [Next]_vars
    PROVE  NoPlayerDroppedSilently'
<1> SUFFICES ASSUME NEW q \in Player, playerPc'[q] # "none", q \notin players'
             PROVE  \E s \in Stopper : playerStop'[q][s] # "idle"
  BY DEF NoPlayerDroppedSilently
<1> USE DEF NoPlayerDroppedSilently, TypeOK, StopTypeOK, PlayerTypeOK, Stopper
<1>1. ASSUME playerPc[q] # "none", players \subseteq players',
             \A s \in Stopper : playerStop[q][s] # "idle" => playerStop'[q][s] # "idle"
      PROVE  \E s \in Stopper : playerStop'[q][s] # "idle"
  BY <1>1
<1>2. CASE ClearPlayer
  BY <1>2 DEF ClearPlayer, playerVars
<1>3. ASSUME NEW p \in Player, Register(p)
      PROVE  \E s \in Stopper : playerStop'[q][s] # "idle"
  BY <1>3 DEF Register, stopVars
<1>4. ASSUME NEW p \in Player, NEW s \in Stopper, SessionStop(p, s)
      PROVE  \E t \in Stopper : playerStop'[q][t] # "idle"
  <2>1. CASE StopSet(p, s)
    BY <2>1 DEF StopSet, playerVars
  <2>2. CASE RemovePlayer(p, s)
    BY <2>2 DEF RemovePlayer, playerVars
  <2>3. CASE StopWake(p, s)
    BY <2>3 DEF StopWake, Wake
  <2>4. QED
    BY <1>4, <2>1, <2>2, <2>3 DEF SessionStop
<1>5. ASSUME NEW p \in Player, ReaderEnds(p) \/ ClearedStop(p)
      PROVE  \E s \in Stopper : playerStop'[q][s] # "idle"
  <2>1. CASE ReaderEnds(p)
    BY <2>1 DEF ReaderEnds, StopTest, playerVars
  <2>2. CASE ClearedStop(p)
    BY <2>2 DEF ClearedStop, StopTest, playerVars
  <2>3. QED
    BY <1>5, <2>1, <2>2
<1>6. ASSUME NEW p \in Player, PlayerGoroutine(p)
      PROVE  \E s \in Stopper : playerStop'[q][s] # "idle"
  BY <1>6 DEF PlayerGoroutine, PlayerCheck, PlayerTake, PlayerPark, stopVars
<1>7. ASSUME NEW p \in Player, PusherBroadcast(p) \/ ReplayPack(p)
      PROVE  \E s \in Stopper : playerStop'[q][s] # "idle"
  BY <1>7 DEF PusherBroadcast, ReplayPack, QueueRTP, Wake, stopVars
<1>8. CASE UNCHANGED <<playerPc, players, playerStop>>
  BY <1>8
<1>9. QED
  BY <1>2, <1>3, <1>4, <1>5, <1>6, <1>7, <1>8
     DEF Next, vars, stopVars, playerVars, Arrive, SourceStop, SourceHalt, Unregister, SourceWake,
         PusherGoroutine, PusherCheck, PusherTake, PusherPark, PusherCache, PusherSnapshot,
         Describe, Play, AddPlayer

\* Whatever the number of players and PLAYs, a player whose goroutine was started
\* is in the map or is being stopped: neither the swap of the map in ClearPlayer
\* nor a removal racing AddPlayer leaves a viewer that nobody will ever stop.
THEOREM NobodyDropped == Spec => []NoPlayerDroppedSilently
<1>1. Init => NoPlayerDroppedSilently
  BY DEF Init, NoPlayerDroppedSilently
<1>2. TypeOK /\ NoPlayerDroppedSilently /\ [Next]_vars => NoPlayerDroppedSilently'
  BY DropStep
<1>3. QED
  BY <1>1, <1>2, TypeCorrect, PTL DEF Spec

\* What has arrived stays what it is.
LEMMA ArrivedStays ==
    ASSUME TypeOK, [Next]_vars
    PROVE  \A n \in 1..head : arrived'[n] = arrived[n]
<1> USE DEF TypeOK, SourceTypeOK, PusherTypeOK, sourceVars
<1>1. ASSUME NEW k \in SourceKinds, Arrive(k)
      PROVE  \A n \in 1..head : arrived'[n] = arrived[n]
  <2>1. arrived \in Seq(Kind) /\ k \in Kind /\ arrived' = Append(arrived, k)
    BY <1>1, RelayAssumption DEF Arrive
  <2>2. QED
    BY <2>1
<1>2. CASE UNCHANGED arrived
  BY <1>2
<1>3. QED
  BY <1>1, <1>2
     DEF Next, vars, SourceStop, SourceHalt, ClearPlayer, Unregister, SourceWake,
         PusherGoroutine, PusherCheck, PusherTake, PusherPark, PusherCache, PusherSnapshot,
         PusherBroadcast, Describe, Play, AddPlayer, ReplayPack, Register,
         PlayerGoroutine, PlayerCheck, PlayerTake, PlayerPark, ReaderEnds, ClearedStop,
         SessionStop, StopSet, RemovePlayer, StopWake

\* A step that leaves the cache alone and puts nothing past it keeps the property.
LEMMA GopKept ==
    ASSUME TypeOK, GopCacheIsCurrentGop, Cached \in Nat, Cached <= head,
           Cached' = Cached, gopCache' = gopCache,
           \A n \in 1..head : arrived'[n] = arrived[n]
    PROVE  GopCacheIsCurrentGop'
<1>1. \A n \in 1..Cached : arrived'[n] = arrived[n]
  BY DEF TypeOK, PusherTypeOK
<1>2. \A n \in 1..Cached : InGopOf(n, Cached)' <=> InGopOf(n, Cached)
  BY <1>1 DEF InGopOf, IsVideo
<1>3. QED
  BY <1>2 DEF GopCacheIsCurrentGop, TypeOK, PusherTypeOK

\* The pusher goroutine takes the pack to the cache: the group of pictures goes
\* on with a delta, starts over with a key frame and ignores anything else.
LEMMA GopNext ==
    ASSUME NEW m \in Nat, m > 0
    PROVE  /\ arrived[m] = "key" => \A n \in 1..m : InGopOf(n, m) <=> n = m
           /\ arrived[m] # "key" => \A n \in 1..(m - 1) : InGopOf(n, m) <=> InGopOf(n, m - 1)
           /\ InGopOf(m, m) <=> arrived[m] # "other"
<1>1. arrived[m] = "key" => \A n \in 1..(m - 1) : ~InGopOf(n, m)
  BY DEF InGopOf
<1>2. InGopOf(m, m) <=> arrived[m] # "other"
  BY DEF InGopOf, IsVideo
<1>3. ASSUME arrived[m] # "key", NEW n \in 1..(m - 1)
      PROVE  InGopOf(n, m) <=> InGopOf(n, m - 1)
  <2>1. \A k \in (n + 1)..m : k \in (n + 1)..(m - 1) \/ k = m
    OBVIOUS
  <2>2. \A k \in (n + 1)..(m - 1) : k \in (n + 1)..m
    OBVIOUS
  <2>3. QED
    BY <1>3, <2>1, <2>2 DEF InGopOf
<1>4. \A n \in 1..m : n \in 1..(m - 1) \/ n = m
  OBVIOUS
<1>5. QED
  BY <1>1, <1>2, <1>3, <1>4

LEMMA GopCacheStep ==
    ASSUME TypeOK, CacheInv, GopCacheIsCurrentGop, PusherCache
    PROVE  GopCacheIsCurrentGop'
<1>1. /\ pusherPc = "cache" /\ head \in Nat /\ head > 0
      /\ Cached = head - 1 /\ Cached' = head /\ gopCache \in Seq(Nat)
      /\ arrived' = arrived
  BY DEF PusherCache, CacheInv, Cached, TypeOK, PusherTypeOK, sourceVars
<1>2. \A n \in 1..head : InGopOf(n, Cached)' <=> InGopOf(n, head)
  BY <1>1 DEF InGopOf, IsVideo
<1>3. CASE ~(GopCacheEnable /\ VideoCodecKnown)
  <2>1. gopCache = <<>> /\ gopCache' = <<>>
    BY <1>3 DEF GopCacheIsCurrentGop, PusherCache
  <2>2. QED
    BY <1>3, <2>1 DEF GopCacheIsCurrentGop
<1>4. CASE GopCacheEnable /\ VideoCodecKnown /\ arrived[head] = "key"
  <2>1. gopCache' = <<head>>
    BY <1>4 DEF PusherCache, NextGop
  <2>2. \A n \in 1..head : InGopOf(n, head) <=> n = head
    BY <1>1, <1>4, GopNext
  <2>3. QED
    BY <1>1, <1>2, <1>4, <2>1, <2>2 DEF GopCacheIsCurrentGop
<1>5. CASE GopCacheEnable /\ VideoCodecKnown /\ arrived[head] \notin {"key", "other"}
  <2>1. gopCache' = Append(gopCache, head)
    BY <1>5 DEF PusherCache, NextGop
  <2>2. /\ Len(gopCache') = Len(gopCache) + 1 /\ Len(gopCache) \in Nat
        /\ \A i \in 1..Len(gopCache) : gopCache'[i] = gopCache[i]
        /\ gopCache'[Len(gopCache) + 1] = head
    BY <1>1, <2>1, Appended
  <2>3. InGopOf(head, head) /\ \A n \in 1..(head - 1) : InGopOf(n, head) <=> InGopOf(n, head - 1)
    BY <1>1, <1>5, GopNext
  <2>4. \A i \in 1..Len(gopCache) : gopCache[i] \in 1..(head - 1) /\ InGopOf(gopCache[i], head - 1)
    BY <1>1 DEF GopCacheIsCurrentGop
  <2>5. \A i \in 1..Len(gopCache') : i \in 1..Len(gopCache) \/ i = Len(gopCache) + 1
    BY <2>2
  <2>6. \A i, j \in 1..Len(gopCache') : i < j => gopCache'[i] < gopCache'[j]
    <3>1. \A i, j \in 1..Len(gopCache) : i < j => gopCache[i] < gopCache[j]
      BY DEF GopCacheIsCurrentGop
    <3>2. \A i \in 1..Len(gopCache) : gopCache[i] < head
      BY <1>1, <2>4
    <3>3. QED
      BY <2>2, <2>5, <3>1, <3>2
  <2>7. \A i \in 1..Len(gopCache') : gopCache'[i] \in 1..head /\ InGopOf(gopCache'[i], head)
    BY <1>1, <2>2, <2>3, <2>4, <2>5
  <2>8. ASSUME NEW n \in 1..head, InGopOf(n, head)
        PROVE  \E i \in 1..Len(gopCache') : gopCache'[i] = n
    <3>1. CASE n = head
      BY <2>2, <3>1
    <3>2. CASE n # head
      <4>1. n \in 1..(head - 1) /\ InGopOf(n, head - 1)
        BY <1>1, <2>3, <2>8, <3>2
      <4>2. PICK i \in 1..Len(gopCache) : gopCache[i] = n
        BY <1>1, <1>5, <4>1 DEF GopCacheIsCurrentGop
      <4>3. QED
        BY <2>2, <4>2
    <3>3. QED
      BY <3>1, <3>2
  <2>9. QED
    BY <1>1, <1>2, <1>5, <2>6, <2>7, <2>8 DEF GopCacheIsCurrentGop
<1>6. CASE GopCacheEnable /\ VideoCodecKnown /\ arrived[head] = "other"
  <2>1. gopCache' = gopCache
    BY <1>6 DEF PusherCache
  <2>2. ~InGopOf(head, head) /\ \A n \in 1..(head - 1) : InGopOf(n, head) <=> InGopOf(n, head - 1)
    BY <1>1, <1>6, GopNext
  <2>3. \A n \in 1..head : n \in 1..(head - 1) \/ n = head
    BY <1>1
  <2>4. \A i \in 1..Len(gopCache) : gopCache[i] \in 1..(head - 1) /\ InGopOf(gopCache[i], head - 1)
    BY <1>1 DEF GopCacheIsCurrentGop
  <2>5. \A i \in 1..Len(gopCache) : gopCache[i] \in 1..head /\ InGopOf(gopCache[i], head)
    BY <1>1, <2>2, <2>4
  <2>6. \A n \in 1..head : InGopOf(n, head) => \E i \in 1..Len(gopCache) : gopCache[i] = n
    BY <1>1, <1>6, <2>2, <2>3 DEF GopCacheIsCurrentGop
  <2>7. QED
    BY <1>1, <1>2, <1>6, <2>1, <2>5, <2>6 DEF GopCacheIsCurrentGop
<1>7. QED
  BY <1>3, <1>4, <1>5, <1>6

LEMMA GopStep ==
    ASSUME TypeOK, CacheInv, GopCacheIsCurrentGop, [Next]_vars
    PROVE  GopCacheIsCurrentGop'
<1>1. Cached \in Nat /\ Cached <= head
  BY DEF Cached, CacheInv, TypeOK, PusherTypeOK
<1>2. CASE PusherCache
  BY <1>2, GopCacheStep
<1>3. CASE ~PusherCache
  <2>1. Cached' = Cached /\ gopCache' = gopCache
    <3>1. CASE Quiet
      BY <3>1 DEF Quiet, Cached, LoopPc
    <3>2. CASE PusherTake \/ PusherSnapshot
      BY <3>2 DEF PusherTake, PusherSnapshot, BroadcastPc, Cached, TypeOK, PusherTypeOK
    <3>3. ASSUME NEW p \in Player,
                 PusherBroadcast(p) \/ Describe(p) \/ Play(p) \/ ReplayPack(p) \/ Register(p)
          PROVE  Cached' = Cached /\ gopCache' = gopCache
      BY <3>3 DEF PusherBroadcast, BroadcastPc, Describe, Play, ReplayPack, Register, Cached,
                  pusherVars
    <3>4. QED
      BY <1>3, <3>1, <3>2, <3>3, QuietOrFeed DEF FeedStep
  <2>2. QED
    BY <1>1, <2>1, ArrivedStays, GopKept
<1>4. QED
  BY <1>2, <1>3

\* For any stream and any setting of the options: the cache that AddPlayer replays
\* is exactly the video of the current group of pictures, in order and complete,
\* whatever the pusher goroutine and the replays do in between.
THEOREM CacheIsCurrentGop == Spec => []GopCacheIsCurrentGop
<1>1. Init => CacheInv /\ GopCacheIsCurrentGop
  BY DEF Init, CacheInv, GopCacheIsCurrentGop, Cached
<1>2. TypeOK /\ CacheInv /\ GopCacheIsCurrentGop /\ [Next]_vars
        => (CacheInv /\ GopCacheIsCurrentGop)'
  BY CacheStep, GopStep
<1>3. QED
  BY <1>1, <1>2, TypeCorrect, PTL DEF Spec

-----------------------------------------------------------------------------
(* The contract: what the connections of the players see is a LiveFeed.    *)

\* Pack n of the stream is the next of the same group of pictures after pack m.
Follows(stream, m, n) ==
    /\ m < n
    /\ stream[n] = "delta"
    /\ \A k \in (m + 1)..(n - 1) : stream[k] = "other"

\* The first packs of a feed are a piece of one group of pictures without a hole.
IsPiece(stream, f, len) ==
    \A i \in 1..len :
        /\ stream[f[i]] # "other"
        /\ i > 1 => Follows(stream, f[i - 1], f[i])

\* the length of the replayed part of a feed
ReplayedLen(p) == IF playerPc[p] = "none" THEN Len(feed[p]) ELSE seam[p]

PieceInv == \A p \in Player : IsPiece(arrived, feed[p], ReplayedLen(p))

TakenInv == \A p \in Player : taken[p] <= Len(feed[p])

\* The cache holds video, each pack following the one before.
LEMMA CacheIsPiece ==
    ASSUME TypeOK, CacheInv, GopCacheIsCurrentGop, NEW j \in 1..Len(gopCache)
    PROVE  /\ arrived[gopCache[j]] # "other"
           /\ j > 1 => Follows(arrived, gopCache[j - 1], gopCache[j])
<1>1. /\ Cached \in Nat /\ Cached <= Len(arrived) /\ arrived \in Seq(Kind) /\ gopCache \in Seq(Nat)
  <2>1. /\ arrived \in Seq(Kind) /\ gopCache \in Seq(Nat)
        /\ head \in Nat /\ head <= Len(arrived)
    BY DEF TypeOK, PusherTypeOK, SourceTypeOK
  <2>2. Len(arrived) \in Nat
    BY <2>1
  <2>3. QED
    BY <2>1, <2>2 DEF Cached, CacheInv
<1>2. \A i \in 1..Len(gopCache) : gopCache[i] \in 1..Cached /\ InGopOf(gopCache[i], Cached)
  BY DEF GopCacheIsCurrentGop
<1>3. arrived[gopCache[j]] # "other"
  BY <1>2 DEF InGopOf, IsVideo
<1>4. ASSUME j > 1
      PROVE  Follows(arrived, gopCache[j - 1], gopCache[j])
  <2> DEFINE m == gopCache[j - 1]
             n == gopCache[j]
  <2>1. j - 1 \in 1..Len(gopCache) /\ j - 1 < j
    BY <1>1, <1>4
  <2>2. m < n
    BY <2>1 DEF GopCacheIsCurrentGop
  <2>3. m \in 1..Cached /\ n \in 1..Cached /\ \A k \in (m + 1)..Cached : arrived[k] # "key"
    BY <1>2, <2>1 DEF InGopOf
  <2>4. arrived[n] = "delta"
    BY <1>1, <1>3, <2>2, <2>3 DEF Kind
  <2>5. ASSUME NEW k \in (m + 1)..(n - 1)
        PROVE  arrived[k] = "other"
    <3>1. k \in 1..Cached /\ k \in (m + 1)..Cached /\ m < k /\ k < n
      BY <1>1, <2>3
    <3>2. arrived[k] \in {"delta", "other"}
      BY <1>1, <2>3, <3>1 DEF Kind
    <3>3. CASE arrived[k] = "delta"
      <4>1. InGopOf(k, Cached)
        BY <1>1, <2>3, <3>1, <3>3 DEF InGopOf, IsVideo
      <4>2. GopCacheEnable /\ VideoCodecKnown
        BY DEF GopCacheIsCurrentGop
      <4>3. PICK i \in 1..Len(gopCache) : gopCache[i] = k
        BY <3>1, <4>1, <4>2 DEF GopCacheIsCurrentGop
      <4>4. i < j - 1 \/ i = j - 1 \/ i = j \/ j < i
        BY <1>1
      <4>5. i < j - 1 => k < m
        BY <2>1, <4>3 DEF GopCacheIsCurrentGop
      <4>6. j < i => n < k
        BY <4>3 DEF GopCacheIsCurrentGop
      <4>7. m \in Nat /\ n \in Nat /\ k \in Nat
        BY <1>1, <2>3, <3>1, SMTT(30)
      <4>8. QED
        BY <3>1, <4>3, <4>4, <4>5, <4>6, <4>7
    <3>4. QED
      BY <3>2, <3>3
  <2>6. QED
    BY <2>2, <2>4, <2>5 DEF Follows
<1>5. QED
  BY <1>3, <1>4

\* A piece stays one when more arrives, ...
LEMMA PieceStays ==
    ASSUME NEW a, NEW b, NEW f \in Seq(Nat), NEW len \in Nat, len <= Len(f), NEW h \in Nat,
           \A i \in 1..Len(f) : f[i] \in 1..h,
           \A n \in 1..h : b[n] = a[n],
           IsPiece(a, f, len)
    PROVE  IsPiece(b, f, len)
<1>1. ASSUME NEW i \in 1..len
      PROVE  /\ b[f[i]] # "other"
             /\ i > 1 => Follows(b, f[i - 1], f[i])
  <2>1. f[i] \in 1..h /\ a[f[i]] # "other"
    BY DEF IsPiece
  <2>2. ASSUME i > 1
        PROVE  Follows(b, f[i - 1], f[i])
    <3>1. i - 1 \in 1..Len(f)
      BY <2>2
    <3>2. f[i - 1] \in 1..h /\ Follows(a, f[i - 1], f[i])
      BY <2>2, <3>1 DEF IsPiece
    <3>3. \A k \in (f[i - 1] + 1)..(f[i] - 1) : k \in 1..h
      BY <2>1, <3>2
    <3>4. QED
      BY <2>1, <3>2, <3>3 DEF Follows
  <2>3. QED
    BY <2>1, <2>2
<1>2. QED
  BY <1>1 DEF IsPiece

\* ... when a later pack is fed, ...
LEMMA PiecePrefix ==
    ASSUME NEW a, NEW f \in Seq(Nat), NEW len \in Nat, len <= Len(f), NEW n \in Nat,
           IsPiece(a, f, len)
    PROVE  IsPiece(a, Append(f, n), len)
<1> DEFINE g == Append(f, n)
<1>1. \A i \in 1..len : g[i] = f[i] /\ (i > 1 => g[i - 1] = f[i - 1])
  BY Appended
<1>2. QED
  BY <1>1 DEF IsPiece

\* ... and when the next pack of the same group of pictures is fed.
LEMMA PieceAppend ==
    ASSUME NEW a, NEW f \in Seq(Nat), NEW n \in Nat,
           IsPiece(a, f, Len(f)), a[n] # "other",
           Len(f) > 0 => Follows(a, f[Len(f)], n)
    PROVE  IsPiece(a, Append(f, n), Len(f) + 1)
<1> DEFINE g == Append(f, n)
<1>1. /\ Len(f) \in Nat /\ g[Len(f) + 1] = n
      /\ \A i \in 1..Len(f) : g[i] = f[i] /\ (i > 1 => g[i - 1] = f[i - 1])
  BY Appended
<1>2. \A i \in 1..(Len(f) + 1) : i \in 1..Len(f) \/ i = Len(f) + 1
  BY <1>1
<1>3. Len(f) > 0 => g[Len(f)] = f[Len(f)]
  BY <1>1
<1>4. Len(f) + 1 > 1 <=> Len(f) > 0
  BY <1>1
<1>5. \A i \in 1..Len(f) : a[g[i]] # "other" /\ (i > 1 => Follows(a, g[i - 1], g[i]))
  BY <1>1 DEF IsPiece
<1>6. a[g[Len(f) + 1]] # "other"
      /\ (Len(f) + 1 > 1 => Follows(a, g[Len(f) + 1 - 1], g[Len(f) + 1]))
  BY <1>1, <1>3, <1>4
<1>7. QED
  BY <1>2, <1>5, <1>6 DEF IsPiece

LEMMA PieceStep ==
    ASSUME MaxPlay = 1, TypeOK, FeedInv, GopCacheIsCurrentGop, PieceInv, [Next]_vars
    PROVE  PieceInv'
<1> USE DEF FeedInv
<1>1. \A p \in Player :
        /\ feed[p] \in Seq(Nat) /\ Len(feed[p]) \in Nat
        /\ ReplayedLen(p) \in Nat /\ ReplayedLen(p) <= Len(feed[p])
        /\ IsPiece(arrived, feed[p], ReplayedLen(p))
  BY DEF PieceInv, ReplayedLen, AttachInv, TypeOK, AttachTypeOK, PlayerTypeOK
<1>2. CASE Quiet
  <2>1. head \in Nat /\ \A p \in Player : \A i \in 1..Len(feed[p]) : feed[p][i] \in 1..head
    BY DEF LiveInv, Cached, TypeOK, PusherTypeOK
  <2>2. \A p \in Player : IsPiece(arrived', feed[p], ReplayedLen(p))
    BY <1>1, <2>1, ArrivedStays, PieceStays
  <2>3. \A p \in Player : feed'[p] = feed[p] /\ ReplayedLen(p)' = ReplayedLen(p)
    BY <1>2 DEF Quiet, attachVars, ReplayedLen
  <2>4. QED
    BY <2>2, <2>3 DEF PieceInv
<1>3. CASE \/ PusherTake \/ PusherCache \/ PusherSnapshot
           \/ \E p \in Player : Describe(p) \/ Play(p)
  BY <1>3 DEF PusherTake, PusherCache, PusherSnapshot, Describe, Play, PieceInv, ReplayedLen,
              sourceVars, attachVars, playerVars
<1>4. ASSUME NEW p \in Player, PusherBroadcast(p)
      PROVE  PieceInv'
  <2>1. arrived' = arrived /\ seam' = seam
    BY <1>4 DEF PusherBroadcast, sourceVars, attachVars
  <2>2. /\ head \in Nat /\ playerPc[p] # "none" /\ feed'[p] = Append(feed[p], head)
        /\ \A q \in Player : q # p => feed'[q] = feed[q]
        /\ \A q \in Player : playerPc'[q] = "none" <=> playerPc[q] = "none"
    BY <1>4, Broadcast
  <2>3. \A q \in Player : ReplayedLen(q)' = ReplayedLen(q)
    BY <2>1, <2>2 DEF ReplayedLen
  <2>4. IsPiece(arrived, feed'[p], ReplayedLen(p))
    BY <1>1, <2>2, PiecePrefix
  <2>5. QED
    BY <1>1, <2>1, <2>2, <2>3, <2>4 DEF PieceInv
<1>5. ASSUME NEW p \in Player, ReplayPack(p)
      PROVE  PieceInv'
  <2> DEFINE n == gopCache[cursor[p]]
  <2>1. arrived' = arrived /\ seam' = seam /\ handler[p] = "copy"
    BY <1>5 DEF ReplayPack, sourceVars
  <2>2. /\ n \in Nat /\ playerPc[p] = "none" /\ feed'[p] = Append(feed[p], n)
        /\ cursor[p] = Len(feed[p]) + 1 /\ cursor[p] \in 1..Len(gopCache)
        /\ \A q \in Player : q # p => feed'[q] = feed[q]
        /\ \A q \in Player : playerPc'[q] = "none" <=> playerPc[q] = "none"
    BY <1>5, Replayed DEF AttachInv
  <2>3. /\ arrived[n] # "other"
        /\ cursor[p] > 1 => Follows(arrived, gopCache[cursor[p] - 1], n)
    BY <2>2, CacheIsPiece
  <2>4. Len(feed[p]) > 0 => Follows(arrived, feed[p][Len(feed[p])], n)
    <3>1. \A i \in 1..Len(feed[p]) : feed[p][i] = gopCache[i]
      BY <2>1 DEF ReplayInv, AttachInv
    <3>2. QED
      BY <1>1, <2>2, <2>3, <3>1, SMTT(30)
  <2>5. IsPiece(arrived, feed'[p], Len(feed[p]) + 1)
    BY <1>1, <2>2, <2>3, <2>4, PieceAppend DEF ReplayedLen
  <2>6. ReplayedLen(p)' = Len(feed[p]) + 1
    BY <1>1, <2>2, Appended DEF ReplayedLen
  <2>7. \A q \in Player : q # p => ReplayedLen(q)' = ReplayedLen(q)
    BY <2>1, <2>2 DEF ReplayedLen
  <2>8. QED
    BY <1>1, <2>1, <2>2, <2>5, <2>6, <2>7 DEF PieceInv
<1>6. ASSUME NEW p \in Player, Register(p)
      PROVE  PieceInv'
  <2>1. playerPc[p] = "none" /\ p \notin players
    BY <1>6 DEF Register, OnePlayInv, AttachInv
  <2>2. /\ UNCHANGED <<arrived, feed>>
        /\ seam' = [seam EXCEPT ![p] = Len(feed[p])] /\ playerPc' = [playerPc EXCEPT ![p] = "loop"]
    BY <1>6, <2>1 DEF Register, sourceVars
  <2>3. \A q \in Player : ReplayedLen(q)' = ReplayedLen(q)
    BY <2>1, <2>2 DEF ReplayedLen, TypeOK, AttachTypeOK, PlayerTypeOK
  <2>4. QED
    BY <1>1, <2>2, <2>3 DEF PieceInv
<1>7. QED
  BY <1>2, <1>3, <1>4, <1>5, <1>6, QuietOrFeed DEF FeedStep

\* Only the player's goroutine takes from its queue, which else only grows.
LEMMA UntakenStep ==
    ASSUME TypeOK, ReplayInBounds, [Next]_vars, \A p \in Player : ~PlayerTake(p)
    PROVE  /\ taken' = taken
           /\ \A q \in Player :
                feed'[q] = feed[q] \/ \E n \in Nat : feed'[q] = Append(feed[q], n)
<1>1. CASE UNCHANGED <<feed, taken>>
  BY <1>1
<1>2. ASSUME NEW p \in Player, NEW n \in Nat, QueueRTP(p, n)
      PROVE  /\ taken' = taken
             /\ \A q \in Player :
                  feed'[q] = feed[q] \/ \E m \in Nat : feed'[q] = Append(feed[q], m)
  BY <1>2, Fed DEF QueueRTP, TypeOK
<1>3. ASSUME NEW p \in Player, PusherBroadcast(p)
      PROVE  head \in Nat /\ QueueRTP(p, head)
  BY <1>3 DEF PusherBroadcast, TypeOK, PusherTypeOK
<1>4. ASSUME NEW p \in Player, ReplayPack(p)
      PROVE  gopCache[cursor[p]] \in Nat /\ QueueRTP(p, gopCache[cursor[p]])
  BY <1>4, ReplayedPack DEF ReplayPack
<1>5. QED
  BY <1>1, <1>2, <1>3, <1>4
     DEF Next, vars, playerVars, Arrive, SourceStop, SourceHalt, ClearPlayer, Unregister, SourceWake,
         PusherGoroutine, PusherCheck, PusherTake, PusherPark, PusherCache, PusherSnapshot,
         Describe, Play, AddPlayer, Register, PlayerGoroutine, PlayerCheck, PlayerPark,
         ReaderEnds, ClearedStop, SessionStop, StopSet, RemovePlayer, StopWake

LEMMA TakenStep ==
    ASSUME TypeOK, ReplayInBounds, TakenInv, [Next]_vars
    PROVE  TakenInv'
<1> USE DEF TakenInv, TypeOK, PlayerTypeOK
<1>1. ASSUME NEW p \in Player, PlayerTake(p)
      PROVE  TakenInv'
  BY <1>1 DEF PlayerTake
<1>2. CASE \A p \in Player : ~PlayerTake(p)
  <2>1. \A q \in Player : Len(feed'[q]) >= Len(feed[q])
    <3>1. \A q \in Player : feed[q] \in Seq(Nat)
      OBVIOUS
    <3>2. QED
      BY <1>2, <3>1, UntakenStep, Appended
  <2>2. taken' = taken
    BY <1>2, UntakenStep
  <2>3. \A q \in Player : Len(feed[q]) \in Nat /\ Len(feed'[q]) \in Nat
    <3>1. TypeOK'
      BY SourceTypes, PusherTypes, AttachTypes, PlayerTypes, StopTypes
    <3>2. QED
      BY <3>1
  <2>4. QED
    BY <2>1, <2>2, <2>3
<1>3. QED
  BY <1>1, <1>2

\* What was taken is not changed by what is fed later, ...
LEMMA PrefixKept ==
    ASSUME NEW f \in Seq(Nat), NEW n \in Nat, NEW k \in Nat, k <= Len(f)
    PROVE  SubSeq(Append(f, n), 1, k) = SubSeq(f, 1, k)
  OBVIOUS

\* ... and grows by what is taken.
LEMMA PrefixGrows ==
    ASSUME NEW f \in Seq(Nat), NEW k \in Nat, k < Len(f)
    PROVE  /\ SubSeq(f, 1, k + 1) = Append(SubSeq(f, 1, k), f[k + 1])
           /\ SubSeq(f, 1, k) \in Seq(Nat) /\ Len(SubSeq(f, 1, k)) = k
           /\ \A i \in 1..k : SubSeq(f, 1, k)[i] = f[i]
  OBVIOUS

\* what p's connection was written, and whether p is past the replay
Out(p) == SubSeq(feed[p], 1, taken[p])
Live(p) == playerPc[p] # "none" /\ taken[p] > seam[p]

\* A player that is not taking a pack sees nothing.
LEMMA NothingSeen ==
    ASSUME MaxPlay = 1, TypeOK, FeedInv, TakenInv, [Next]_vars, \A p \in Player : ~PlayerTake(p),
           NEW q \in Player
    PROVE  Out(q)' = Out(q) /\ Live(q)' = Live(q)
<1> USE DEF FeedInv
<1>1. feed[q] \in Seq(Nat) /\ taken[q] \in Nat /\ taken[q] <= Len(feed[q])
  BY DEF TakenInv, TypeOK, PlayerTypeOK
<1>2. taken'[q] = taken[q] /\ (feed'[q] = feed[q] \/ \E n \in Nat : feed'[q] = Append(feed[q], n))
  BY UntakenStep
<1>3. Out(q)' = Out(q)
  BY <1>1, <1>2, PrefixKept DEF Out
<1>4. Live(q)' = Live(q)
  <2>1. CASE \E p \in Player : Register(p)
    <3>1. PICK p \in Player : Register(p)
      BY <2>1
    <3>2. /\ playerPc[p] = "none"
          /\ seam' = [seam EXCEPT ![p] = Len(feed[p])] /\ playerPc' = [playerPc EXCEPT ![p] = "loop"]
      BY <3>1 DEF Register, OnePlayInv, AttachInv
    <3>3. CASE q = p
      <4>1. Live(q) = FALSE
        BY <3>2, <3>3 DEF Live
      <4>2. Live(q)' = FALSE
        <5>1. seam'[q] = Len(feed[q]) /\ Len(feed[q]) \in Nat
          BY <1>1, <3>2, <3>3 DEF TypeOK, AttachTypeOK
        <5>2. QED
          BY <1>1, <1>2, <5>1 DEF Live
      <4>3. QED
        BY <4>1, <4>2
    <3>4. CASE q # p
      <4>1. seam'[q] = seam[q] /\ playerPc'[q] = playerPc[q]
        BY <3>2, <3>4 DEF TypeOK, AttachTypeOK, PlayerTypeOK
      <4>2. QED
        BY <1>2, <4>1 DEF Live
    <3>5. QED
      BY <3>3, <3>4
  <2>2. CASE \A p \in Player : ~Register(p)
    <3>1. seam'[q] = seam[q] /\ (playerPc'[q] = "none" <=> playerPc[q] = "none")
      <4>1. CASE Quiet
        BY <4>1 DEF Quiet, attachVars
      <4>2. CASE \/ PusherTake \/ PusherCache \/ PusherSnapshot
                 \/ \E p \in Player : Describe(p) \/ Play(p)
        BY <4>2 DEF PusherTake, PusherCache, PusherSnapshot, Describe, Play, attachVars, playerVars
      <4>3. ASSUME NEW p \in Player, PusherBroadcast(p)
            PROVE  seam'[q] = seam[q] /\ (playerPc'[q] = "none" <=> playerPc[q] = "none")
        BY <4>3, Broadcast DEF PusherBroadcast, attachVars
      <4>4. ASSUME NEW p \in Player, ReplayPack(p)
            PROVE  seam'[q] = seam[q] /\ (playerPc'[q] = "none" <=> playerPc[q] = "none")
        BY <4>4, Replayed DEF ReplayPack
      <4>5. QED
        BY <2>2, <4>1, <4>2, <4>3, <4>4, QuietOrFeed DEF FeedStep
    <3>2. QED
      BY <1>2, <3>1 DEF Live
  <2>3. QED
    BY <2>1, <2>2
<1>5. QED
  BY <1>3, <1>4

\* Only the source adds to the stream.
LEMMA ArrivesOrStays ==
    ASSUME [Next]_vars
    PROVE  arrived' = arrived \/ \E k \in SourceKinds : Arrive(k)
  BY DEF Next, vars, sourceVars, SourceStop, SourceHalt, ClearPlayer, Unregister, SourceWake,
         PusherGoroutine, PusherCheck, PusherTake, PusherPark, PusherCache, PusherSnapshot,
         PusherBroadcast, Describe, Play, AddPlayer, ReplayPack, Register,
         PlayerGoroutine, PlayerCheck, PlayerTake, PlayerPark, ReaderEnds, ClearedStop,
         SessionStop, StopSet, RemovePlayer, StopWake

\* The pack a player takes: it comes from the stream, and is what the contract asks for.
LEMMA TakenPack ==
    ASSUME MaxPlay = 1, TypeOK, FeedInv, PieceInv, TakenInv, NEW p \in Player, PlayerTake(p)
    PROVE  LET n    == feed[p][taken[p] + 1]
               last == feed[p][taken[p]]
           IN  /\ n \in 1..Len(arrived)
               /\ playerPc[p] # "none" /\ seam[p] \in Nat /\ taken[p] \in Nat
               /\ taken[p] + 1 <= seam[p] =>
                      /\ arrived[n] # "other"
                      /\ taken[p] > 0 => Follows(arrived, last, n)
               /\ taken[p] = seam[p] /\ taken[p] > 0 => last <= n
               /\ taken[p] > seam[p] => n = last + 1
<1> DEFINE k == taken[p]
           n == feed[p][k + 1]
           last == feed[p][k]
<1>1. /\ feed[p] \in Seq(Nat) /\ Len(feed[p]) \in Nat /\ k \in Nat /\ k + 1 \in 1..Len(feed[p])
      /\ seam[p] \in Nat /\ playerPc[p] # "none"
  BY DEF PlayerTake, TypeOK, PlayerTypeOK, AttachTypeOK
<1>2. n \in 1..Len(arrived)
  <2>1. n \in 1..Cached
    BY <1>1 DEF FeedInv, LiveInv
  <2>2. head \in Nat /\ head <= Len(arrived) /\ Len(arrived) \in Nat
    BY DEF TypeOK, PusherTypeOK, SourceTypeOK
  <2>3. QED
    BY <2>1, <2>2 DEF Cached
<1>3. ASSUME k + 1 <= seam[p]
      PROVE  arrived[n] # "other" /\ (k > 0 => Follows(arrived, last, n))
  <2>1. IsPiece(arrived, feed[p], seam[p])
    BY <1>1 DEF PieceInv, ReplayedLen
  <2>2. k + 1 \in 1..seam[p] /\ (k + 1) - 1 = k
    BY <1>1, <1>3
  <2>3. arrived[n] # "other" /\ (k + 1 > 1 => Follows(arrived, feed[p][(k + 1) - 1], n))
    BY <2>1, <2>2 DEF IsPiece
  <2>4. k > 0 => k + 1 > 1
    BY <1>1
  <2>5. QED
    BY <2>2, <2>3, <2>4
<1>4. ASSUME k > 0
      PROVE  last <= n
  <2>1. k \in 1..Len(feed[p]) /\ k < k + 1 /\ last \in Nat /\ n \in Nat
    BY <1>1, <1>4, SMTT(30)
  <2>2. InOrder(feed[p], seam[p])
    BY DEF FeedInv, FeedOrdered, AttachInv
  <2>3. last < n \/ last = n
    BY <1>1, <2>1, <2>2 DEF InOrder
  <2>4. QED
    BY <2>1, <2>3
<1>5. ASSUME k > seam[p]
      PROVE  n = last + 1
  <2>1. NoGapAfter(feed[p], seam[p])
    BY <1>1 DEF FeedInv, FeedOrdered, AttachInv
  <2>2. k + 1 > seam[p] + 1 /\ (k + 1) - 1 = k
    BY <1>1, <1>5, SMTT(30)
  <2>3. QED
    BY <1>1, <2>1, <2>2 DEF NoGapAfter
<1>6. QED
  BY <1>1, <1>2, <1>3, <1>4, <1>5

\* Every step of the relay is one of the contract, or changes nothing a viewer sees.
LEMMA RefineStep ==
    ASSUME MaxPlay = 1, TypeOK, FeedInv, PieceInv, TakenInv, [Next]_vars
    PROVE  [Contract!Next]_(Contract!vars)
<1> DEFINE out == [q \in Player |-> SubSeq(feed[q], 1, taken[q])]
           live == [q \in Player |-> playerPc[q] # "none" /\ taken[q] > seam[q]]
<1>1. CASE \A p \in Player : ~PlayerTake(p)
  <2>1. out' = out /\ live' = live
    BY <1>1, NothingSeen DEF Out, Live
  <2>2. CASE arrived' = arrived
    BY <2>1, <2>2 DEF Contract!vars
  <2>3. CASE \E k \in SourceKinds : Arrive(k)
    <3>1. \E k \in SourceKinds : arrived' = Append(arrived, k)
      BY <2>3 DEF Arrive
    <3>2. QED
      BY <2>1, <3>1 DEF Contract!Next, Contract!Emit
  <2>4. QED
    BY <2>2, <2>3, ArrivesOrStays
<1>2. ASSUME NEW p \in Player, PlayerTake(p)
      PROVE  Contract!Next
  <2> DEFINE k == taken[p]
             n == feed[p][k + 1]
  <2>1. /\ arrived' = arrived /\ UNCHANGED <<feed, seam>>
        /\ \A q \in Player : q # p => taken'[q] = taken[q] /\ playerPc'[q] = playerPc[q]
        /\ taken'[p] = k + 1 /\ playerPc'[p] = "loop"
        /\ feed[p] \in Seq(Nat) /\ k \in Nat /\ k < Len(feed[p])
    BY <1>2 DEF PlayerTake, sourceVars, attachVars, TypeOK, PlayerTypeOK
  <2>2. /\ n \in 1..Len(arrived)
        /\ playerPc[p] # "none" /\ seam[p] \in Nat
        /\ k + 1 <= seam[p] =>
              arrived[n] # "other" /\ (k > 0 => Follows(arrived, feed[p][k], n))
        /\ k = seam[p] /\ k > 0 => feed[p][k] <= n
        /\ k > seam[p] => n = feed[p][k] + 1
    BY <1>2, TakenPack
  <2>3. /\ out[p] \in Seq(Nat) /\ Len(out[p]) = k
        /\ \A i \in 1..k : out[p][i] = feed[p][i]
        /\ out'[p] = Append(out[p], n)
    <3>1. out[p] = SubSeq(feed[p], 1, k) /\ out'[p] = SubSeq(feed[p], 1, k + 1)
      BY <2>1
    <3>2. /\ SubSeq(feed[p], 1, k + 1) = Append(SubSeq(feed[p], 1, k), n)
          /\ SubSeq(feed[p], 1, k) \in Seq(Nat) /\ Len(SubSeq(feed[p], 1, k)) = k
          /\ \A i \in 1..k : SubSeq(feed[p], 1, k)[i] = feed[p][i]
      BY <2>1, PrefixGrows
    <3> HIDE DEF out
    <3>3. QED
      BY <3>1, <3>2
  <2>4. out' = [out EXCEPT ![p] = Append(@, n)]
    BY <2>1, <2>3
  <2>5. out[p] # <<>> <=> k > 0
    BY <2>1, <2>3
  <2>6. k > 0 => k \in 1..Len(feed[p]) /\ feed[p][k] \in Nat /\ out[p][Len(out[p])] = feed[p][k]
    <3>1. k > 0 => k \in 1..k /\ k \in 1..Len(feed[p])
      BY <2>1
    <3>2. k > 0 => feed[p][k] \in Nat
      BY <2>1, <3>1
    <3> HIDE DEF out
    <3>3. QED
      BY <2>3, <3>1, <3>2
  <2>7. \A q \in Player : q # p => Live(q)' = Live(q)
    BY <2>1 DEF Live
  <2>8. (Live(p)' <=> k + 1 > seam[p]) /\ (Live(p) <=> k > seam[p])
    BY <2>1, <2>2 DEF Live
  <2>9. CASE k + 1 <= seam[p]
    <3>1. ~Live(p) /\ ~Live(p)'
      BY <2>1, <2>2, <2>8, <2>9
    <3>2. \A q \in Player : Live(q)' = Live(q)
      BY <2>7, <3>1 DEF Live
    <3>3. ~live[p] /\ live' = live
      BY <3>1, <3>2 DEF Live
    <3>4. out[p] # <<>> => Contract!Continues(p, n)
      BY <2>2, <2>5, <2>6, <2>9 DEF Follows, Contract!Continues, Contract!LastOut
    <3>5. Contract!Replay(p)
      BY <2>1, <2>2, <2>4, <2>9, <3>3, <3>4 DEF Contract!Replay, Contract!Started
    <3>6. QED
      BY <3>5 DEF Contract!Next
  <2>10. CASE k = seam[p]
    <3>1. ~Live(p) /\ Live(p)'
      BY <2>1, <2>2, <2>8, <2>10
    <3>2. Live(p)' = TRUE
      BY <3>1 DEF Live
    <3>3. ~live[p] /\ live' = [live EXCEPT ![p] = TRUE]
      BY <2>7, <3>1, <3>2 DEF Live
    <3>4. out[p] # <<>> => n >= Contract!LastOut(p)
      BY <2>1, <2>2, <2>5, <2>6, <2>10 DEF Contract!LastOut
    <3>5. Contract!Join(p)
      BY <2>1, <2>2, <2>4, <3>3, <3>4 DEF Contract!Join, Contract!Started
    <3>6. QED
      BY <3>5 DEF Contract!Next
  <2>11. CASE k > seam[p]
    <3>1. Live(p) /\ Live(p)' /\ k > 0
      BY <2>1, <2>2, <2>8, <2>11
    <3>2. \A q \in Player : Live(q)' = Live(q)
      BY <2>7, <3>1 DEF Live
    <3>3. live[p] /\ live' = live
      BY <3>1, <3>2 DEF Live
    <3>4. n = Contract!LastOut(p) + 1 /\ Contract!LastOut(p) \in Nat
      BY <2>2, <2>6, <2>11, <3>1 DEF Contract!LastOut
    <3>5. Contract!LastOut(p) < Len(arrived)
      <4>1. Len(arrived) \in Nat
        BY DEF TypeOK, SourceTypeOK
      <4>2. QED
        BY <2>2, <3>4, <4>1
    <3>6. Contract!Follow(p)
      BY <2>1, <2>4, <3>3, <3>4, <3>5 DEF Contract!Follow
    <3>7. QED
      BY <3>6 DEF Contract!Next
  <2>12. QED
    BY <2>1, <2>2, <2>9, <2>10, <2>11
<1>3. QED
  BY <1>1, <1>2

\* For any number of viewers that send one PLAY each and any interleaving of broadcasts,
\* replays, restarts of a group of pictures and stops: what the connections are
\* written is a LiveFeed of the source, step by step (Pusher.Start, AddPlayer, Player.Start).
THEOREM RelayImplementsLiveFeed ==
    ASSUME MaxPlay = 1
    PROVE  Spec => ImplementsLiveFeed
<1>1. Init => Contract!Init
  <2> SUFFICES ASSUME Init
               PROVE  Contract!Init
    OBVIOUS
  <2>1. \A p \in Player : Out(p) = <<>> /\ Live(p) = FALSE
    <3>1. \A p \in Player : feed[p] = <<>> /\ taken[p] = 0 /\ playerPc[p] = "none"
      BY DEF Init
    <3>2. SubSeq(<<>>, 1, 0) = <<>>
      BY Z3
    <3> QED BY <3>1, <3>2 DEF Out, Live
  <2>2. QED
    BY <2>1 DEF Init, Contract!Init, Out, Live
<1>2. Init => PieceInv /\ TakenInv
  BY DEF Init, PieceInv, IsPiece, ReplayedLen, TakenInv
<1>3. TypeOK /\ FeedInv /\ GopCacheIsCurrentGop /\ PieceInv /\ TakenInv /\ [Next]_vars
        => (PieceInv /\ TakenInv)'
  BY PieceStep, TakenStep DEF FeedInv
<1>4. TypeOK /\ FeedInv /\ PieceInv /\ TakenInv /\ [Next]_vars => [Contract!Next]_(Contract!vars)
  BY RefineStep
<1>5. QED
  BY <1>1, <1>2, <1>3, <1>4, TypeCorrect, FeedInvariant, CacheIsCurrentGop, PTL
     DEF Spec, ImplementsLiveFeed, Contract!Spec

-----------------------------------------------------------------------------
(* A second PLAY loses nothing.                                            *)

\* A player that is in AddPlayer again is in the map: its reader, the only one who stops the
\* players of a publishing session, is the one who is in AddPlayer.
LEMMA AgainInMap ==
    ASSUME TypeOK, AttachInv, OnePlayInv, BusyInv, NoPlayerDroppedSilently,
           NEW p \in Player, handler[p] \in {"copy", "register"}, playerPc[p] # "none"
    PROVE  p \in players
<1>1. plays[p] \in Nat /\ plays[p] > 1 /\ plays[p] <= MaxPlay
  BY DEF TypeOK, AttachTypeOK, OnePlayInv, AttachInv
<1>2. ~Pulled
  BY <1>1, RelayAssumption
<1>3. \A s \in Stopper : playerStop[p][s] = "idle"
  BY <1>2 DEF BusyInv, Stopper
<1> QED BY <1>3 DEF NoPlayerDroppedSilently

\* Who is in AddPlayer is not at the end of its reader.
LEMMA BusyStep ==
    ASSUME TypeOK, BusyInv, [Next]_vars
    PROVE  BusyInv'
<1> USE DEF BusyInv, TypeOK, StopTypeOK, AttachTypeOK, Stopper, sourceVars, attachVars, stopVars
<1>1. CASE UNCHANGED <<stopPc, playerStop, handler>>
  BY <1>1
<1>2. CASE SourceStop
  BY <1>2 DEF SourceStop
<1>3. CASE ClearPlayer
  <2>1. Pulled /\ stopPc' = "remove" /\ UNCHANGED handler
    BY <1>3 DEF ClearPlayer
  <2>2. \A p \in Player : playerStop'[p]["reader"] = playerStop[p]["reader"]
    BY <1>3 DEF ClearPlayer
  <2> QED BY <2>1, <2>2
<1>4. CASE Unregister \/ SourceWake
  BY <1>4 DEF Unregister, SourceWake
<1>5. ASSUME NEW p \in Player, Describe(p) \/ Play(p) \/ ReplayPack(p) \/ Register(p)
      PROVE  BusyInv'
  <2>1. UNCHANGED <<stopPc, playerStop>>
    BY <1>5 DEF Describe, Play, ReplayPack, Register
  <2>2. \A q \in Player : handler'[q] \in {"copy", "register"} =>
            handler[q] \in {"copy", "register"} \/ playerStop[q]["reader"] = "idle"
    BY <1>5 DEF Describe, Play, ReplayPack, Register
  <2> QED BY <2>1, <2>2
<1>6. ASSUME NEW p \in Player, ReaderEnds(p)
      PROVE  BusyInv'
  <2>1. UNCHANGED <<stopPc, handler>> /\ handler[p] = "ready"
    BY <1>6 DEF ReaderEnds
  <2>2. \A q \in Player : /\ playerStop'[q]["clear"] = playerStop[q]["clear"]
                          /\ q # p => playerStop'[q] = playerStop[q]
    BY <1>6 DEF ReaderEnds
  <2> QED BY <2>1, <2>2
<1>7. ASSUME NEW p \in Player, ClearedStop(p)
      PROVE  BusyInv'
  <2>1. UNCHANGED <<stopPc, handler>> /\ Pulled
    BY <1>7 DEF ClearedStop
  <2>2. \A q \in Player : playerStop'[q]["reader"] = playerStop[q]["reader"]
    BY <1>7 DEF ClearedStop
  <2> QED BY <2>1, <2>2
<1>8. ASSUME NEW p \in Player, NEW s \in Stopper, SessionStop(p, s)
      PROVE  BusyInv'
  <2>1. UNCHANGED <<stopPc, handler>> /\ playerStop[p][s] # "idle"
    BY <1>8 DEF SessionStop, StopSet, RemovePlayer, StopWake
  <2>2. \A q \in Player : \A t \in Stopper : q # p \/ t # s => playerStop'[q][t] = playerStop[q][t]
    BY <1>8 DEF SessionStop, StopSet, RemovePlayer, StopWake
  <2> QED BY <2>1, <2>2
<1>9. QED
  BY <1>1, <1>2, <1>3, <1>4, <1>5, <1>6, <1>7, <1>8
     DEF Next, vars, Arrive, SourceHalt, PusherGoroutine, PusherCheck, PusherTake, PusherPark,
         PusherCache, PusherSnapshot, PusherBroadcast, AddPlayer, PlayerGoroutine, PlayerCheck,
         PlayerTake, PlayerPark

\* pack n is in the feed behind the join
Fed1(f, join, n) == \E j \in (join + 1)..Len(f) : f[j] = n

\* Appending a pack loses none if the one before it is there.
LEMMA NoneLostAppend ==
    ASSUME NEW f \in Seq(Nat), NEW n \in Nat, NEW join \in Nat, join <= Len(f), NEW first \in Nat,
           NoneLost(f, join, first), n > first => Fed1(f, join, n - 1)
    PROVE  /\ NoneLost(Append(f, n), join, first)
           /\ Fed1(Append(f, n), join, n)
           /\ \A m : Fed1(f, join, m) => Fed1(Append(f, n), join, m)
<1> DEFINE g == Append(f, n)
<1>1. /\ Len(f) \in Nat /\ Len(g) = Len(f) + 1
      /\ \A i \in 1..Len(f) : g[i] = f[i]
      /\ g[Len(f) + 1] = n
  BY Appended
<1> HIDE DEF g
<1>2. ASSUME NEW i \in (join + 1)..Len(g), g[i] > first
      PROVE  \E j \in (join + 1)..(i - 1) : g[j] = g[i] - 1
  <2>1. CASE i <= Len(f)
    <3>1. i \in (join + 1)..Len(f) /\ g[i] = f[i]
      BY <1>1, <2>1
    <3>2. PICK j \in (join + 1)..(i - 1) : f[j] = f[i] - 1
      BY <1>2, <3>1 DEF NoneLost
    <3>3. j \in 1..Len(f)
      BY <1>1, <3>1, <3>2
    <3> QED BY <1>1, <3>1, <3>2, <3>3
  <2>2. CASE i = Len(f) + 1
    <3>1. PICK j \in (join + 1)..Len(f) : f[j] = n - 1
      BY <1>1, <1>2, <2>2 DEF Fed1
    <3>2. j \in 1..Len(f) /\ j \in (join + 1)..(i - 1)
      BY <1>1, <2>2, <3>1
    <3> QED BY <1>1, <2>2, <3>1, <3>2
  <2> QED BY <1>1, <1>2, <2>1, <2>2
<1>3. NoneLost(g, join, first)
  BY <1>2 DEF NoneLost
<1>4. Fed1(g, join, n)
  BY <1>1 DEF Fed1
<1>5. ASSUME NEW m, Fed1(f, join, m)
      PROVE  Fed1(g, join, m)
  <2>1. PICK j \in (join + 1)..Len(f) : f[j] = m
    BY <1>5 DEF Fed1
  <2>2. j \in 1..Len(f) /\ j \in (join + 1)..Len(g)
    BY <1>1, <2>1
  <2> QED BY <1>1, <2>1, <2>2 DEF Fed1
<1> QED BY <1>3, <1>4, <1>5 DEF g

\* The two parts for one player, with what it is behind.
AgainOk(p) ==
    playerPc[p] # "none" =>
        /\ NoneLost(feed[p], seam[p], entry[p])
        /\ p \in players \/ p \in todo =>
            /\ entry[p] <= LastLive(p) + 1
            /\ \A n \in entry[p]..LastLive(p) : Fed1(feed[p], seam[p], n)

LEMMA AgainOks == (AgainInv /\ PlayAgainLosesNothing) <=> \A p \in Player : AgainOk(p)
  BY DEF AgainInv, PlayAgainLosesNothing, AgainOk, Fed1

\* A player to whom nothing comes is as far as before.
LEMMA AgainKept ==
    ASSUME NEW p \in Player, AgainOk(p), feed'[p] = feed[p], seam'[p] = seam[p], entry'[p] = entry[p],
           playerPc'[p] # "none" => playerPc[p] # "none",
           p \in players' \/ p \in todo' => (p \in players \/ p \in todo) /\ LastLive(p)' = LastLive(p)
    PROVE  AgainOk(p)'
  BY DEF AgainOk

LEMMA AgainStep ==
    ASSUME TypeOK, FeedInv, BusyInv, NoPlayerDroppedSilently, NEW q \in Player, AgainOk(q), [Next]_vars
    PROVE  AgainOk(q)'
<1> USE DEF FeedInv
<1>0. /\ head \in Nat /\ entry[q] \in Nat /\ seam[q] \in Nat /\ feed[q] \in Seq(Nat)
      /\ pusherPc # "bcast" => todo = {}
  BY DEF TypeOK, PusherTypeOK, AttachTypeOK, PlayerTypeOK, AttachInv
<1>1. CASE Quiet
  BY <1>1, AgainKept DEF Quiet, LastLive, LoopPc, attachVars
<1>2. CASE PusherTake
  BY <1>0, <1>2, AgainKept DEF PusherTake, LastLive, attachVars, playerVars
<1>3. CASE PusherCache
  BY <1>3, AgainKept DEF PusherCache, LastLive, attachVars, playerVars
<1>4. CASE PusherSnapshot
  BY <1>0, <1>4, AgainKept DEF PusherSnapshot, BroadcastPc, LastLive, attachVars, playerVars
<1>5. ASSUME NEW p \in Player, PusherBroadcast(p)
      PROVE  AgainOk(q)'
  <2>1. /\ UNCHANGED <<head, players, seam, entry>> /\ todo' = todo \ {p} /\ p \in todo
        /\ pusherPc = "bcast" /\ pusherPc' \in {"bcast", "loop"}
    BY <1>5 DEF PusherBroadcast, BroadcastPc, attachVars
  <2>2. CASE q # p
    <3>1. feed'[q] = feed[q] /\ (playerPc'[q] = "none" <=> playerPc[q] = "none")
      BY <1>5, <2>2, Broadcast
    <3>2. LastLive(q)' = LastLive(q)
      BY <2>1, <2>2 DEF LastLive
    <3> QED BY <2>1, <2>2, <3>1, <3>2, AgainKept
  <2>3. CASE q = p
    <3>1. /\ head > 0 /\ playerPc[q] # "none" /\ seam[q] <= Len(feed[q])
          /\ feed'[q] = Append(feed[q], head)
      BY <1>5, <2>3, Broadcast
    <3>2. LastLive(q) = head - 1 /\ LastLive(q)' = head
      BY <2>1, <2>3 DEF LastLive
    <3>3. /\ NoneLost(feed[q], seam[q], entry[q]) /\ entry[q] <= head
          /\ \A n \in entry[q]..(head - 1) : Fed1(feed[q], seam[q], n)
      BY <1>0, <2>1, <2>3, <3>1, <3>2 DEF AgainOk
    <3>4. head > entry[q] => Fed1(feed[q], seam[q], head - 1)
      BY <1>0, <3>1, <3>3
    <3>5. /\ NoneLost(feed'[q], seam[q], entry[q]) /\ Fed1(feed'[q], seam[q], head)
          /\ \A m : Fed1(feed[q], seam[q], m) => Fed1(feed'[q], seam[q], m)
      BY <1>0, <3>1, <3>3, <3>4, NoneLostAppend
    <3>6. \A n \in entry[q]..head : n = head \/ n \in entry[q]..(head - 1)
      BY <1>0
    <3>7. \A n \in entry[q]..head : Fed1(feed'[q], seam[q], n)
      BY <3>3, <3>5, <3>6
    <3> QED BY <1>0, <2>1, <3>2, <3>3, <3>5, <3>7 DEF AgainOk
  <2> QED BY <2>2, <2>3
<1>6. ASSUME NEW p \in Player, Describe(p) \/ Play(p)
      PROVE  AgainOk(q)'
  BY <1>6, AgainKept DEF Describe, Play, LastLive, pusherVars, playerVars
<1>7. ASSUME NEW p \in Player, ReplayPack(p)
      PROVE  AgainOk(q)'
  <2>1. UNCHANGED <<head, pusherPc, players, todo, seam, entry>>
    BY <1>7 DEF ReplayPack, pusherVars
  <2>2. LastLive(q)' = LastLive(q)
    BY <2>1 DEF LastLive
  <2>3. playerPc'[q] = "none" <=> playerPc[q] = "none"
    BY <1>7, Replayed
  <2>4. CASE q # p
    <3>1. feed'[q] = feed[q]
      BY <1>7, <2>4, Replayed
    <3> QED BY <2>1, <2>2, <2>3, <3>1, AgainKept
  <2>5. CASE q = p /\ playerPc[q] # "none"
    <3> DEFINE n == gopCache[cursor[q]]
    <3>1. n \in Nat /\ cursor[q] \in 1..Len(gopCache) /\ feed'[q] = Append(feed[q], n)
      BY <1>7, <2>5, Replayed
    <3>2. q \in players /\ seam[q] <= Len(feed[q])
      BY <1>7, <2>5, AgainInMap DEF ReplayPack, AttachInv
    <3>3. n <= Cached
      BY <3>1 DEF CacheInv
    <3> HIDE DEF n
    <3>4. n - 1 <= LastLive(q)
      BY <1>0, <3>1, <3>3 DEF Cached, LastLive
    <3>5. n > entry[q] => Fed1(feed[q], seam[q], n - 1)
      <4>1. n > entry[q] => n - 1 \in entry[q]..LastLive(q)
        BY <1>0, <3>1, <3>4 DEF LastLive
      <4> QED BY <2>5, <3>2, <4>1 DEF AgainOk
    <3>6. /\ NoneLost(feed'[q], seam[q], entry[q])
          /\ \A m : Fed1(feed[q], seam[q], m) => Fed1(feed'[q], seam[q], m)
      BY <1>0, <2>5, <3>1, <3>2, <3>5, NoneLostAppend DEF AgainOk
    <3> QED BY <2>1, <2>2, <2>5, <3>6 DEF AgainOk
  <2>6. CASE playerPc[q] = "none"
    BY <2>3, <2>6 DEF AgainOk
  <2> QED BY <2>4, <2>5, <2>6
<1>8. ASSUME NEW p \in Player, Register(p)
      PROVE  AgainOk(q)'
  <2>1. UNCHANGED <<head, pusherPc, todo, feed>> /\ players' = players \cup {p} /\ handler[p] = "register"
    BY <1>8 DEF Register, pusherVars
  <2>2. LastLive(q)' = LastLive(q)
    BY <2>1 DEF LastLive
  <2>3. CASE q # p \/ p \in players
    <3>1. seam'[q] = seam[q] /\ entry'[q] = entry[q] /\ playerPc'[q] = playerPc[q]
      BY <1>8, <2>3 DEF Register, TypeOK, AttachTypeOK, PlayerTypeOK
    <3> QED BY <2>1, <2>2, <2>3, <3>1, AgainKept
  <2>4. CASE q = p /\ p \notin players
    <3>1. q \notin todo
      BY <2>1, <2>4, AgainInMap DEF AttachInv
    <3>2. seam'[q] = Len(feed[q]) /\ entry'[q] = Upcoming
      BY <1>8, <2>4 DEF Register, TypeOK, AttachTypeOK
    <3>3. LastLive(q) = Upcoming - 1 /\ Upcoming \in Nat
      BY <1>0, <3>1 DEF LastLive, Upcoming
    <3>4. NoneLost(feed[q], Len(feed[q]), Upcoming)
      BY <1>0 DEF NoneLost
    <3>5. entry'[q] <= LastLive(q)' + 1 /\ \A n \in entry'[q]..LastLive(q)' : FALSE
      BY <2>2, <3>2, <3>3
    <3> QED BY <2>1, <3>2, <3>4, <3>5 DEF AgainOk
  <2> QED BY <2>3, <2>4
<1>9. QED
  BY <1>1, <1>2, <1>3, <1>4, <1>5, <1>6, <1>7, <1>8, QuietOrFeed DEF FeedStep

\* For any number of PLAYs of any number of players: the replays of AddPlayer, which are
\* mixed with the broadcasts, lose no pack of a player that is in the map.
THEOREM SecondPlayLosesNothing == Spec => []PlayAgainLosesNothing
<1>1. Init => BusyInv /\ AgainInv /\ PlayAgainLosesNothing
  BY DEF Init, BusyInv, AgainInv, PlayAgainLosesNothing, Stopper
<1>2. TypeOK /\ BusyInv /\ [Next]_vars => BusyInv'
  BY BusyStep
<1>3. TypeOK /\ FeedInv /\ BusyInv /\ NoPlayerDroppedSilently /\ AgainInv /\ PlayAgainLosesNothing /\ [Next]_vars
        => (AgainInv /\ PlayAgainLosesNothing)'
  <2> SUFFICES ASSUME TypeOK, FeedInv, BusyInv, NoPlayerDroppedSilently, AgainInv, PlayAgainLosesNothing,
                      [Next]_vars
               PROVE  (AgainInv /\ PlayAgainLosesNothing)'
    OBVIOUS
  <2>1. \A p \in Player : AgainOk(p)
    BY AgainOks
  <2>2. \A p \in Player : AgainOk(p)'
    BY <2>1, AgainStep
  <2>3. QED
    BY <2>2 DEF AgainInv, PlayAgainLosesNothing, AgainOk, Fed1
<1>4. QED
  BY <1>1, <1>2, <1>3, TypeCorrect, FeedInvariant, NobodyDropped, PTL DEF Spec

=============================================================================
