------------------------------ MODULE RtspRelay ------------------------------
(***************************************************************************)
(* The relay of one published stream (rtsp/pusher.go, rtsp/player.go): the *)
(* source queues packs on the Pusher, the pusher goroutine takes them one  *)
(* by one, keeps the GOP cache and broadcasts them to a copy of the player *)
(* map; every Player has a queue and a goroutine of its own.  AddPlayer    *)
(* replays the GOP cache under one lock and enters the map under another,  *)
(* so the broadcast interleaves with it; the stop handles interleave with  *)
(* everything.                                                             *)
(*                                                                         *)
(* A pack is its position in the stream; arrived[n] says what pack n is.   *)
(* A queue is kept whole with the number of packs taken from it, so that   *)
(* "q = q[1:]" is an increment and the history stays visible.              *)
(***************************************************************************)
EXTENDS Naturals, Sequences

CONSTANTS
    Player,          \* the player sessions that may attach
    SourceKinds,     \* the kinds of pack this source sends
    MaxPack,         \* bound: packs the source sends
    MaxPlay,         \* bound: PLAY requests of one player session
    GopCacheEnable,  \* rtsp/gop_cache_enable
    VideoCodecKnown, \* VCodec is h264 or h265, the two the cache understands
    Pulled           \* the source is an RTSPClient (a pull), not an ANNOUNCE

\* key: video whose payload starts a key frame; delta: any other video;
\* other: audio and RTCP, which the cache ignores
Kind == {"key", "delta", "other"}

\* A second PLAY racing ClearPlayer could start a second goroutine for one
\* player, which playerPc cannot represent: pulled streams take one PLAY.
ASSUME RelayAssumption ==
    /\ SourceKinds \subseteq Kind
    /\ MaxPack \in Nat
    /\ MaxPlay \in Nat
    /\ GopCacheEnable \in BOOLEAN
    /\ VideoCodecKnown \in BOOLEAN
    /\ Pulled \in BOOLEAN
    /\ Pulled => MaxPlay <= 1

VARIABLES
    arrived,      \* kind of every pack QueueRTP put on the pusher's queue
    head,         \* packs the pusher goroutine took from it
    pusherPc,     \* where the pusher goroutine is in Pusher.Start
    gopCache,     \* Pusher.gopCache
    todo,         \* players the running BroadcastRTP has still to serve
    players,      \* Pusher.players
    pusherStoped, \* Session.Stoped of the pusher
    registered,   \* the server's map holds the pusher (DESCRIBE finds it)
    stopPc,       \* where the stop of the source is
    handler,      \* where the player session's request handler is
    cursor,       \* next entry of the GOP cache AddPlayer replays
    plays,        \* PLAY requests handled
    feed,         \* packs ever put on the player's queue
    taken,        \* packs the player goroutine took from it
    playerPc,     \* where the player goroutine is in Player.Start
    playerStoped, \* Session.Stoped of the player session
    playerStop,   \* where each caller of the player's Session.Stop is
    seam,         \* history: Len(feed) when the player entered the map
    entry         \* history: the pack of the next broadcast when it did

sourceVars == <<arrived, registered, stopPc, pusherStoped>>
pusherVars == <<head, pusherPc, gopCache, todo>>
attachVars == <<handler, cursor, plays, seam, entry>>
playerVars == <<feed, taken, playerPc>>
stopVars   == <<playerStoped, playerStop>>
vars == <<sourceVars, pusherVars, players, attachVars, playerVars, stopVars>>

\* Session.Stop of a player runs in its own reader and in ClearPlayer's goroutine
Stopper == {"reader", "clear"}

Init ==
    /\ arrived = <<>>
    /\ head = 0
    /\ pusherPc = "loop"
    /\ gopCache = <<>>
    /\ todo = {}
    /\ players = {}
    /\ pusherStoped = FALSE
    /\ registered = TRUE
    /\ stopPc = "run"
    /\ handler = [p \in Player |-> "new"]
    /\ cursor = [p \in Player |-> 1]
    /\ plays = [p \in Player |-> 0]
    /\ feed = [p \in Player |-> <<>>]
    /\ taken = [p \in Player |-> 0]
    /\ playerPc = [p \in Player |-> "none"]
    /\ playerStoped = [p \in Player |-> FALSE]
    /\ playerStop = [p \in Player |-> [s \in Stopper |-> "idle"]]
    /\ seam = [p \in Player |-> 0]
    /\ entry = [p \in Player |-> 0]

-----------------------------------------------------------------------------
(* The source: the session reader, the UDP server or the RTSP client.      *)

\* mutant of Wake: the queue grows without a Signal
MissedSignal(pc) == pc

\* Signal and Broadcast have the same effect on a condition with one waiter
Wake(pc) == IF pc = "wait" THEN "woken" ELSE pc

\* Pusher.QueueRTP
Arrive(k) ==
    /\ Len(arrived) < MaxPack
    /\ arrived' = Append(arrived, k)
    /\ pusherPc' = Wake(pusherPc)
    /\ UNCHANGED <<registered, stopPc, pusherStoped, head, gopCache, todo, players>>
    /\ UNCHANGED <<attachVars, playerVars, stopVars>>

\* Session.Stop of a publishing session; of a pulled stream the client's Stop when the
\* source ends, or the Session.Stop of StreamStop, whose handles remove and wake the
\* pusher before the puller comes to the client's Stop
SourceStop ==
    /\ stopPc = "run"
    /\ pusherStoped' = TRUE
    /\ stopPc' \in IF Pulled THEN {"clear", "firstRemove"} ELSE {"remove"}
    /\ UNCHANGED <<arrived, registered, pusherVars, players>>
    /\ UNCHANGED <<attachVars, playerVars, stopVars>>

\* mutant of ClearPlayer: the old map is dropped without stopping its players
ClearPlayerOnly ==
    /\ stopPc = "clear"
    /\ stopPc' = "remove"
    /\ players' = {}
    /\ UNCHANGED <<arrived, registered, pusherStoped, pusherVars>>
    /\ UNCHANGED <<attachVars, playerVars, stopVars>>

\* ClearPlayer: swap the map, then stop the old players in a new goroutine
ClearPlayer ==
    /\ stopPc = "clear"
    /\ stopPc' = "remove"
    /\ players' = {}
    /\ playerStop' = [p \in Player |->
                        IF p \in players
                        THEN [playerStop[p] EXCEPT !["clear"] = "called"]
                        ELSE playerStop[p]]
    /\ UNCHANGED <<arrived, registered, pusherStoped, pusherVars>>
    /\ UNCHANGED <<attachVars, playerVars, playerStoped>>

\* Server.RemovePusher, as far as this stream can see
Unregister ==
    /\ stopPc \in {"firstRemove", "remove"}
    /\ stopPc' = IF stopPc = "remove" THEN "wake" ELSE "firstWake"
    /\ registered' = FALSE
    /\ UNCHANGED <<arrived, pusherStoped, pusherVars, players>>
    /\ UNCHANGED <<attachVars, playerVars, stopVars>>

\* cond.Broadcast, without the lock
SourceWake ==
    /\ stopPc \in {"firstWake", "wake"}
    /\ stopPc' = IF stopPc = "wake" THEN "done" ELSE "clear"
    /\ pusherPc' = Wake(pusherPc)
    /\ UNCHANGED <<arrived, registered, pusherStoped, head, gopCache, todo, players>>
    /\ UNCHANGED <<attachVars, playerVars, stopVars>>

-----------------------------------------------------------------------------
(* The pusher goroutine, Pusher.Start.                                     *)

PusherCheck ==
    /\ pusherPc = "loop"
    /\ pusherPc' = IF pusherStoped THEN "done" ELSE "lock"
    /\ UNCHANGED <<sourceVars, head, gopCache, todo, players>>
    /\ UNCHANGED <<attachVars, playerVars, stopVars>>

PusherTake ==
    /\ pusherPc \in {"lock", "woken"}
    /\ head < Len(arrived)
    /\ head' = head + 1
    /\ pusherPc' = "cache"
    /\ UNCHANGED <<sourceVars, gopCache, todo, players>>
    /\ UNCHANGED <<attachVars, playerVars, stopVars>>

\* an empty queue: wait once, and go back to the loop's condition when woken for nothing
PusherPark ==
    /\ pusherPc \in {"lock", "woken"}
    /\ head = Len(arrived)
    /\ pusherPc' = IF pusherPc = "lock" THEN "wait" ELSE "loop"
    /\ UNCHANGED <<sourceVars, head, gopCache, todo, players>>
    /\ UNCHANGED <<attachVars, playerVars, stopVars>>

\* the cache's write lock is free: no AddPlayer is replaying
CacheLockFree == \A p \in Player : handler[p] # "copy"

\* mutant of NextGop: a key frame does not reset the cache
NextGopNoReset(gop, n) == Append(gop, n)

NextGop(gop, n) == IF arrived[n] = "key" THEN <<n>> ELSE Append(gop, n)

PusherCache ==
    /\ pusherPc = "cache"
    /\ pusherPc' = "snap"
    /\ IF GopCacheEnable /\ arrived[head] # "other"
       THEN /\ CacheLockFree
            /\ gopCache' = IF VideoCodecKnown THEN NextGop(gopCache, head) ELSE gopCache
       ELSE gopCache' = gopCache
    /\ UNCHANGED <<sourceVars, head, todo, players>>
    /\ UNCHANGED <<attachVars, playerVars, stopVars>>

\* the loop of BroadcastRTP goes on while somebody is left to serve
BroadcastPc(left) == IF left = {} THEN "loop" ELSE "bcast"

\* mutant of PusherSnapshot: the players that are being replayed are left out
PusherSnapshotReady ==
    /\ pusherPc = "snap"
    /\ todo' = {p \in players : handler[p] = "ready"}
    /\ pusherPc' = BroadcastPc(todo')
    /\ UNCHANGED <<sourceVars, head, gopCache, players>>
    /\ UNCHANGED <<attachVars, playerVars, stopVars>>

\* GetPlayers: a copy of the map under the read lock
PusherSnapshot ==
    /\ pusherPc = "snap"
    /\ todo' = players
    /\ pusherPc' = BroadcastPc(players)
    /\ UNCHANGED <<sourceVars, head, gopCache, players>>
    /\ UNCHANGED <<attachVars, playerVars, stopVars>>

\* Player.QueueRTP
QueueRTP(p, n) ==
    /\ feed' = [feed EXCEPT ![p] = Append(@, n)]
    /\ playerPc' = [playerPc EXCEPT ![p] = Wake(@)]
    /\ UNCHANGED taken

PusherBroadcast(p) ==
    /\ pusherPc = "bcast"
    /\ p \in todo
    /\ todo' = todo \ {p}
    /\ pusherPc' = BroadcastPc(todo \ {p})
    /\ QueueRTP(p, head)
    /\ UNCHANGED <<sourceVars, head, gopCache, players, attachVars, stopVars>>

-----------------------------------------------------------------------------
(* The player session's request handler: DESCRIBE, then PLAY -> AddPlayer. *)

Describe(p) ==
    /\ handler[p] = "new"
    /\ registered
    /\ handler' = [handler EXCEPT ![p] = "ready"]
    /\ UNCHANGED <<sourceVars, pusherVars, players, cursor, plays, seam, entry>>
    /\ UNCHANGED <<playerVars, stopVars>>

\* AddPlayer holds gopCacheLock for reading while entries are left to replay
ReplayPc(next) == IF next <= Len(gopCache) THEN "copy" ELSE "register"

\* mutant of Play: the player enters the map before the replay
PlayAttachFirst(p) ==
    /\ handler[p] = "ready"
    /\ plays[p] < MaxPlay
    /\ playerStop[p]["reader"] = "idle"
    /\ plays' = [plays EXCEPT ![p] = @ + 1]
    /\ cursor' = [cursor EXCEPT ![p] = 1]
    /\ handler' = [handler EXCEPT ![p] = IF GopCacheEnable THEN ReplayPc(1) ELSE "register"]
    /\ players' = players \cup {p}
    /\ UNCHANGED <<sourceVars, pusherVars, seam, entry, playerVars, stopVars>>

Play(p) ==
    /\ handler[p] = "ready"
    /\ plays[p] < MaxPlay
    /\ playerStop[p]["reader"] = "idle"
    /\ plays' = [plays EXCEPT ![p] = @ + 1]
    /\ cursor' = [cursor EXCEPT ![p] = 1]
    /\ handler' = [handler EXCEPT ![p] = IF GopCacheEnable THEN ReplayPc(1) ELSE "register"]
    /\ UNCHANGED <<sourceVars, pusherVars, players, seam, entry, playerVars, stopVars>>

ReplayPack(p) ==
    /\ handler[p] = "copy"
    /\ QueueRTP(p, gopCache[cursor[p]])
    /\ cursor' = [cursor EXCEPT ![p] = @ + 1]
    /\ handler' = [handler EXCEPT ![p] = ReplayPc(cursor[p] + 1)]
    /\ UNCHANGED <<sourceVars, pusherVars, players, plays, seam, entry, stopVars>>

\* the pack that the next copy of the map is made for
Upcoming == IF pusherPc \in {"cache", "snap"} THEN head ELSE head + 1

\* the second critical section: enter the map and start the goroutine, once
Register(p) ==
    /\ handler[p] = "register"
    /\ handler' = [handler EXCEPT ![p] = "ready"]
    /\ players' = players \cup {p}
    /\ IF p \in players
       THEN UNCHANGED <<playerPc, seam, entry>>
       ELSE /\ playerPc' = [playerPc EXCEPT ![p] = "loop"]
            /\ seam' = [seam EXCEPT ![p] = Len(feed[p])]
            /\ entry' = [entry EXCEPT ![p] = Upcoming]
    /\ UNCHANGED <<sourceVars, pusherVars, cursor, plays, feed, taken, stopVars>>

-----------------------------------------------------------------------------
(* The player goroutine, Player.Start.                                     *)

PlayerCheck(p) ==
    /\ playerPc[p] = "loop"
    /\ playerPc' = [playerPc EXCEPT ![p] = IF playerStoped[p] THEN "done" ELSE "lock"]
    /\ UNCHANGED <<sourceVars, pusherVars, players, attachVars, feed, taken, stopVars>>

\* the pack is taken and written to the player's connection (SessionSendRTP);
\* the write changes nothing here, it only keeps the goroutine away for a while
PlayerTake(p) ==
    /\ playerPc[p] \in {"lock", "woken"}
    /\ taken[p] < Len(feed[p])
    /\ taken' = [taken EXCEPT ![p] = @ + 1]
    /\ playerPc' = [playerPc EXCEPT ![p] = "loop"]
    /\ UNCHANGED <<sourceVars, pusherVars, players, attachVars, feed, stopVars>>

PlayerPark(p) ==
    /\ playerPc[p] \in {"lock", "woken"}
    /\ taken[p] = Len(feed[p])
    /\ playerPc' = [playerPc EXCEPT ![p] = IF @ = "lock" THEN "wait" ELSE "loop"]
    /\ UNCHANGED <<sourceVars, pusherVars, players, attachVars, feed, taken, stopVars>>

-----------------------------------------------------------------------------
(* Session.Stop of a player: check, set, RemovePlayer, Broadcast.          *)

\* the test of Stoped that Session.Stop begins with
StopTest(p) == IF playerStoped[p] THEN "done" ELSE "set"

\* the connection ends, or the client sends TEARDOWN
ReaderEnds(p) ==
    /\ handler[p] = "ready"
    /\ playerStop[p]["reader"] = "idle"
    /\ playerStop' = [playerStop EXCEPT ![p]["reader"] = StopTest(p)]
    /\ UNCHANGED <<sourceVars, pusherVars, players, attachVars, playerVars, playerStoped>>

\* ClearPlayer's goroutine gets to this player: one after the other
ClearedStop(p) ==
    /\ playerStop[p]["clear"] = "called"
    /\ \A q \in Player : playerStop[q]["clear"] \in {"idle", "called", "done"}
    /\ playerStop' = [playerStop EXCEPT ![p]["clear"] = StopTest(p)]
    /\ UNCHANGED <<sourceVars, pusherVars, players, attachVars, playerVars, playerStoped>>

StopSet(p, s) ==
    /\ playerStop[p][s] = "set"
    /\ playerStop' = [playerStop EXCEPT ![p][s] = "remove"]
    /\ playerStoped' = [playerStoped EXCEPT ![p] = TRUE]
    /\ UNCHANGED <<sourceVars, pusherVars, players, attachVars, playerVars>>

RemovePlayer(p, s) ==
    /\ playerStop[p][s] = "remove"
    /\ playerStop' = [playerStop EXCEPT ![p][s] = "wake"]
    /\ players' = players \ {p}
    /\ UNCHANGED <<sourceVars, pusherVars, attachVars, playerVars, playerStoped>>

\* mutant of StopWake: the stop handle does not broadcast
StopNoWake(p, s) ==
    /\ playerStop[p][s] = "wake"
    /\ playerStop' = [playerStop EXCEPT ![p][s] = "done"]
    /\ UNCHANGED <<sourceVars, pusherVars, players, attachVars, playerVars, playerStoped>>

StopWake(p, s) ==
    /\ playerStop[p][s] = "wake"
    /\ playerStop' = [playerStop EXCEPT ![p][s] = "done"]
    /\ playerPc' = [playerPc EXCEPT ![p] = Wake(@)]
    /\ UNCHANGED <<sourceVars, pusherVars, players, attachVars, feed, taken, playerStoped>>

-----------------------------------------------------------------------------
SourceHalt == ClearPlayer \/ Unregister \/ SourceWake

PusherGoroutine ==
    \/ PusherCheck \/ PusherTake \/ PusherPark \/ PusherCache \/ PusherSnapshot
    \/ \E p \in Player : PusherBroadcast(p)

AddPlayer(p) == ReplayPack(p) \/ Register(p)

PlayerGoroutine(p) ==
    PlayerCheck(p) \/ PlayerTake(p) \/ PlayerPark(p)

SessionStop(p, s) == StopSet(p, s) \/ RemovePlayer(p, s) \/ StopWake(p, s)

Next ==
    \/ \E k \in SourceKinds : Arrive(k)
    \/ SourceStop
    \/ SourceHalt
    \/ PusherGoroutine
    \/ \E p \in Player :
        \/ Describe(p) \/ Play(p) \/ AddPlayer(p) \/ PlayerGoroutine(p)
        \/ ReaderEnds(p) \/ ClearedStop(p)
        \/ \E s \in Stopper : SessionStop(p, s)

Spec == Init /\ [][Next]_vars

\* The scheduler runs every goroutine that can go on; nothing makes a source
\* send, a viewer ask or a connection end.
Fairness ==
    /\ WF_vars(PusherGoroutine)
    /\ WF_vars(SourceHalt)
    /\ \A p \in Player :
        /\ WF_vars(AddPlayer(p))
        /\ WF_vars(PlayerGoroutine(p))
        /\ WF_vars(ClearedStop(p))
        /\ \A s \in Stopper : WF_vars(SessionStop(p, s))

FairSpec == Spec /\ Fairness

-----------------------------------------------------------------------------
(* Properties.                                                             *)

LoopPc == {"loop", "lock", "wait", "woken", "done"}

SourceTypeOK ==
    /\ arrived \in Seq(Kind)
    /\ pusherStoped \in BOOLEAN
    /\ registered \in BOOLEAN
    /\ stopPc \in {"run", "firstRemove", "firstWake", "clear", "remove", "wake", "done"}

PusherTypeOK ==
    /\ head \in Nat /\ head <= Len(arrived)
    /\ pusherPc \in LoopPc \cup {"cache", "snap", "bcast"}
    /\ gopCache \in Seq(Nat)
    /\ todo \in SUBSET Player
    /\ players \in SUBSET Player

AttachTypeOK ==
    /\ handler \in [Player -> {"new", "ready", "copy", "register"}]
    /\ cursor \in [Player -> Nat \ {0}]
    /\ plays \in [Player -> Nat]
    /\ seam \in [Player -> Nat]
    /\ entry \in [Player -> Nat]

PlayerTypeOK ==
    /\ feed \in [Player -> Seq(Nat)]
    /\ taken \in [Player -> Nat]
    /\ playerPc \in [Player -> LoopPc \cup {"none"}]

StopTypeOK ==
    /\ playerStoped \in [Player -> BOOLEAN]
    /\ playerStop \in [Player -> [Stopper -> {"idle", "called", "set", "remove", "wake", "done"}]]

\* Every variable stays in its type (one per module).
TypeOK == SourceTypeOK /\ PusherTypeOK /\ AttachTypeOK /\ PlayerTypeOK /\ StopTypeOK

\* packs the pusher goroutine has been past the cache with
Cached == IF pusherPc = "cache" THEN head - 1 ELSE head

IsVideo(n) == arrived[n] # "other"

\* The pack belongs to the group of pictures that pack m is in: video, and no
\* key frame started after it.
InGopOf(n, m) == IsVideo(n) /\ \A k \in (n + 1)..m : arrived[k] # "key"

\* The GOP cache is, in stream order and with nothing missing, exactly the
\* video since the last key frame started (since the beginning before the first
\* one), and empty when caching is off or the codec is not understood: the
\* append and the reset of Pusher.Start never lose or misplace a pack.
GopCacheIsCurrentGop ==
    /\ \A i, j \in 1..Len(gopCache) : i < j => gopCache[i] < gopCache[j]
    /\ \A i \in 1..Len(gopCache) : gopCache[i] \in 1..Cached /\ InGopOf(gopCache[i], Cached)
    /\ GopCacheEnable /\ VideoCodecKnown =>
        \A n \in 1..Cached : InGopOf(n, Cached) => \E i \in 1..Len(gopCache) : gopCache[i] = n
    /\ ~(GopCacheEnable /\ VideoCodecKnown) => gopCache = <<>>

\* Stream order, except that the first live pack may repeat the last replayed one
InOrder(f, join) ==
    \A i, j \in 1..Len(f) : i < j =>
        f[i] < f[j] \/ (f[i] = f[j] /\ i = join /\ j = join + 1)

\* From the second live pack on each is the successor of the one before
NoGapAfter(f, join) == \A i \in 1..Len(f) : i > join + 1 => f[i] = f[i - 1] + 1

\* What a player that has sent one PLAY is fed never goes backwards: although
\* AddPlayer replays the cache and enters the map under different locks, a pack
\* is fed at most twice, and twice only as the last replayed and first live one.
\* Once the player is in the map nothing is skipped, whatever the broadcasts,
\* replays and stops of others do.
FeedOrdered ==
    \A p \in Player : plays[p] <= 1 =>
        /\ InOrder(feed[p], seam[p])
        /\ playerPc[p] # "none" => NoGapAfter(feed[p], seam[p])

\* Nobody is dropped silently: a player whose goroutine was started is in the
\* map, or one of the two callers of its Session.Stop is at work or has finished;
\* ClearPlayer's swap of the map and the removals by others lose no player.
NoPlayerDroppedSilently ==
    \A p \in Player : playerPc[p] # "none" /\ p \notin players =>
        \E s \in Stopper : playerStop[p][s] # "idle"

\* behind the join, a pack later than first comes only after the one before it
NoneLost(f, join, first) ==
    \A i \in (join + 1)..Len(f) : f[i] > first => \E j \in (join + 1)..(i - 1) : f[j] = f[i] - 1

\* A player that sends PLAY again is replayed the cache while it is being fed, so packs
\* come twice and older ones behind newer ones; but it loses none.  From the first
\* broadcast after it entered the map on, no pack is fed that was not preceded by the one
\* before it, live or replayed, whatever the replays and broadcasts of all do meanwhile.
PlayAgainLosesNothing ==
    \A p \in Player : playerPc[p] # "none" => NoneLost(feed[p], seam[p], entry[p])

\* Handed(p, n): pack n was taken from p's queue by its goroutine
Handed(p, n) == \E i \in 1..taken[p] : feed[p][i] = n

\* No Signal is lost: a pack that arrives when a player is in the map and the
\* pusher has not taken it yet reaches the player's goroutine, unless the
\* source or the player is stopped.
PacksReachPlayers ==
    \A p \in Player : \A n \in 1..MaxPack :
        p \in players /\ head < n /\ n <= Len(arrived)
            ~> Handed(p, n) \/ pusherStoped \/ playerStoped[p]

\* The stop ends every goroutine it finds parked: if the goroutine waits when
\* the handles begin, their Broadcast gets it out of its loop; and a pulled stream
\* that ends stops every player of its map.
ParkedGoroutinesEnd ==
    /\ pusherPc = "wait" /\ pusherStoped /\ stopPc # "done" ~> pusherPc = "done"
    /\ \A p \in Player : \A s \in Stopper :
        playerPc[p] = "wait" /\ playerStop[p][s] \in {"remove", "wake"} ~> playerPc[p] = "done"
    /\ \A p \in Player : playerStop[p]["clear"] = "called" ~> playerStoped[p] /\ p \notin players

-----------------------------------------------------------------------------
(* Why the properties hold: invariants that no single step can break.      *)

\* the cache's lock keeps the cache still under a replay
ReplayInBounds ==
    \A p \in Player : handler[p] = "copy" => cursor[p] <= Len(gopCache)

\* how far a session is: it is fed from its PLAY on, its goroutine exists from
\* the moment it enters the map, and only such players are in the map or served
AttachInv ==
    /\ pusherPc # "bcast" => todo = {}
    /\ \A p \in Player :
        /\ plays[p] <= MaxPlay
        /\ plays[p] = 0 => handler[p] \in {"new", "ready"} /\ feed[p] = <<>> /\ playerPc[p] = "none"
        /\ playerPc[p] = "none" => p \notin players /\ p \notin todo /\ seam[p] = 0
        /\ playerPc[p] # "none" => seam[p] <= Len(feed[p])

\* up to its second PLAY a player's goroutine exists exactly from the end of AddPlayer on
OnePlayInv ==
    \A p \in Player :
        /\ plays[p] <= 1 /\ handler[p] \in {"copy", "register"} => playerPc[p] = "none"
        /\ plays[p] = 1 /\ handler[p] = "ready" => playerPc[p] # "none"
        /\ handler[p] = "new" => plays[p] = 0

\* the cache is in stream order and holds only what went past it
CacheInv ==
    /\ \A i, j \in 1..Len(gopCache) : i < j => gopCache[i] < gopCache[j]
    /\ \A i \in 1..Len(gopCache) : gopCache[i] \in 1..Cached
    /\ pusherPc \in {"cache", "snap", "bcast"} => head > 0

\* during the first replay the feed is the beginning of the cache
ReplayInv ==
    \A p \in Player : plays[p] <= 1 /\ handler[p] = "copy" =>
        /\ Len(feed[p]) = cursor[p] - 1
        /\ \A i \in 1..Len(feed[p]) : feed[p][i] = gopCache[i]

\* the pack the player's last live one must be: the current one, once served
LastLive(p) == IF pusherPc \in {"cache", "snap"} \/ p \in todo THEN head - 1 ELSE head

\* fed packs have been past the cache, and a player being served is up to date, as long as no
\* second replay comes behind its live packs
LiveInv ==
    \A p \in Player :
        /\ \A i \in 1..Len(feed[p]) : feed[p][i] \in 1..Cached
        /\ plays[p] <= 1 /\ (p \in players \/ p \in todo) /\ Len(feed[p]) > seam[p] =>
                feed[p][Len(feed[p])] = LastLive(p)

FeedInv ==
    /\ ReplayInBounds /\ AttachInv /\ OnePlayInv /\ CacheInv /\ ReplayInv /\ LiveInv
    /\ FeedOrdered

\* while a session is in AddPlayer its reader is not stopping it, and nobody else stops the
\* players of a publishing session
BusyInv ==
    /\ stopPc \in {"firstRemove", "firstWake", "clear"} => Pulled
    /\ \A p \in Player :
        /\ playerStop[p]["clear"] # "idle" => Pulled
        /\ handler[p] \in {"copy", "register"} => playerStop[p]["reader"] = "idle"

\* a player of the map has been fed every pack broadcast since it entered
AgainInv ==
    \A p \in Player : playerPc[p] # "none" /\ (p \in players \/ p \in todo) =>
        /\ entry[p] <= LastLive(p) + 1
        /\ \A n \in entry[p]..LastLive(p) : \E j \in (seam[p] + 1)..Len(feed[p]) : feed[p][j] = n

-----------------------------------------------------------------------------
(* The contract: what the players' connections see is a LiveFeed.           *)

Contract == INSTANCE LiveFeed WITH
    out  <- [p \in Player |-> SubSeq(feed[p], 1, taken[p])],
    live <- [p \in Player |-> playerPc[p] # "none" /\ taken[p] > seam[p]]

\* With one PLAY per player, whatever the interleaving of broadcasts, replays
\* and stops, every connection is written a LiveFeed of the source: a piece of
\* one group of pictures in order, then the stream without a hole.
ImplementsLiveFeed == Contract!Spec
=============================================================================
