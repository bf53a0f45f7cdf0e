-------------------------- MODULE MultiWatcherProofs --------------------------
(* What MultiWatcher.tla states of the watcher of several pools, proved for    *)
(* any number of pools and connections and any MinAlivePeers.                  *)
EXTENDS MultiWatcher, FiniteSetTheorems, TLAPS

USE WatcherAssumption

-----------------------------------------------------------------------------
(* The inductive invariant *)

\* What MultiWatcher says of the connections of a pool, for one connection.
IsTold(k) == init[k] \in {"listen", "ready"} /\ (fin[k] # "gone" \/ "c" \notin heard[k])
IsGone(k) == fin[k] = "gone" /\ "c" \in heard[k]

WatcherRec ==
    [ready : SUBSET Peers, alive : [Peers -> Nat], graceful : [Peers -> Nat],
     broken : SUBSET Peers, uninit : SUBSET Peers, attached : BOOLEAN,
     peerAlive : Int, peerBroken : Int, peerUninit : Int]

Messages == [peer : Peers, conn : {1, -1}]

AliveOf(s) == {p \in Peers : s.alive[p] > 0}

\* The counters agree with the maps, which have nothing of a peer that is not
\* watched.
MapsOK(s) ==
    /\ s \in WatcherRec
    /\ s.peerAlive = Cardinality(AliveOf(s))
    /\ s.peerBroken = Cardinality(s.broken)
    /\ s.peerUninit = Cardinality(s.uninit)
    /\ \A p \in Peers \ s.ready : s.alive[p] = 0 /\ p \notin s.broken /\ p \notin s.uninit

AttachedOK(s) ==
    s.attached => /\ s.peerAlive >= MinAlivePeers
                  /\ s.uninit = {}
                  /\ StrictGraceful => \A p \in s.broken : s.alive[p] > 0

\* Where a connection can be, and what its hooks have done by then.
ConnsOK ==
    /\ peer \in [Conns -> Peers \cup {None}]
    /\ init \in [Conns -> {"none", "hook", "look", "send", "listen", "ready", "failed"}]
    /\ shut \in [Conns -> {"none", "lock", "signal", "wait"}]
    /\ fin \in [Conns -> {"none", "lock", "send", "gone"}]
    /\ heard \in [Conns -> SUBSET {"s", "c"}]
    /\ unmarked \subseteq Conns /\ marked \subseteq Conns
    /\ \A k \in Conns : peer[k] # None => peer[k] \in wrapped
    /\ \A k \in Conns : peer[k] = None => init[k] = "none" /\ shut[k] = "none" /\ k \notin marked
    /\ \A k \in Conns : "c" \in heard[k] <=> init[k] = "ready"
    /\ \A k \in Conns : fin[k] \in {"lock", "send"} => "c" \in heard[k]
    /\ \A k \in Conns : fin[k] = "send" \/ (fin[k] = "gone" /\ "c" \in heard[k])
                            => k \in marked \cup unmarked

ChangeOK ==
    \/ change = << >>
    \/ \E m \in Messages : change = <<m>> /\ m.peer \in wrapped

\* What the watcher knows of a peer, and what is on its way, make the connections;
\* and every mark that it counted is there for a closure that is still to come.
PeerOK(p) ==
    /\ w.alive[p] + InFlight(p) = Cardinality(Told(p))
    /\ w.graceful[p] + Cardinality(Gone(p)) >= Cardinality(MarkedOf(p)) + Unhandled(p)

WatcherInv ==
    /\ MapsOK(w) /\ w.ready \subseteq wrapped /\ wrapped \subseteq Peers
    /\ running \in BOOLEAN /\ stopped = ~running
    /\ ConnsOK /\ ChangeOK
    /\ running => \A p \in w.ready : PeerOK(p)
    /\ AttachedOK(w)
    /\ BrokenIsRude

-----------------------------------------------------------------------------
(* Sets of pools and of connections *)

\* Sets of peers are finite: their sizes, with one peer more or less.
LEMMA PeersFinite ==
    ASSUME NEW S \in SUBSET Peers
    PROVE  /\ IsFiniteSet(S) /\ Cardinality(S) \in Nat
           /\ \A p \in Peers : Cardinality(S \cup {p})
                                  = IF p \in S THEN Cardinality(S) ELSE Cardinality(S) + 1
           /\ \A p \in Peers : Cardinality(S \ {p})
                                  = IF p \in S THEN Cardinality(S) - 1 ELSE Cardinality(S)
<1>1. IsFiniteSet(S)
  BY FS_Subset, WatcherAssumption, Zenon
<1> QED BY <1>1, FS_CardinalityType, FS_AddElement, FS_RemoveElement

\* Sets of connections are finite: their sizes, with one more or less.
LEMMA ConnsFinite ==
    ASSUME NEW S \in SUBSET Conns
    PROVE  /\ IsFiniteSet(S) /\ Cardinality(S) \in Nat
           /\ \A k \in Conns : Cardinality(S \cup {k})
                                  = IF k \in S THEN Cardinality(S) ELSE Cardinality(S) + 1
           /\ \A k \in Conns : Cardinality(S \ {k})
                                  = IF k \in S THEN Cardinality(S) - 1 ELSE Cardinality(S)
<1>1. IsFiniteSet(S)
  BY FS_Subset, WatcherAssumption, Zenon
<1> QED BY <1>1, FS_CardinalityType, FS_AddElement, FS_RemoveElement

-----------------------------------------------------------------------------
(* The handlers *)

\* The maps and counters after a connection was opened.
LEMMA OpenedMaps ==
    ASSUME NEW s, MapsOK(s), NEW p \in Peers, p \in s.ready, NEW t, t = Opened(s, p)
    PROVE  /\ MapsOK(t)
           /\ t.ready = s.ready /\ t.graceful = s.graceful
           /\ t.alive = [s.alive EXCEPT ![p] = @ + 1]
           /\ t.broken = s.broken \ {p} /\ t.uninit = s.uninit
           /\ t.attached = s.attached /\ t.peerAlive >= s.peerAlive
<1>1. s \in WatcherRec
  BY DEF MapsOK
<1>2. /\ t \in WatcherRec
      /\ t.ready = s.ready /\ t.graceful = s.graceful
      /\ t.alive = [s.alive EXCEPT ![p] = @ + 1]
      /\ t.broken = s.broken \ {p} /\ t.uninit = s.uninit /\ t.attached = s.attached
      /\ t.peerAlive = IF s.alive[p] = 0 THEN s.peerAlive + 1 ELSE s.peerAlive
      /\ t.peerBroken = IF p \in s.broken THEN s.peerBroken - 1 ELSE s.peerBroken
      /\ t.peerUninit = s.peerUninit
  <2>1. t = [s EXCEPT !.alive      = [s.alive EXCEPT ![p] = @ + 1],
                      !.peerAlive  = IF s.alive[p] = 0 THEN s.peerAlive + 1 ELSE s.peerAlive,
                      !.broken     = s.broken \ {p},
                      !.peerBroken = IF p \in s.broken THEN s.peerBroken - 1 ELSE s.peerBroken]
    BY <1>1 DEF Opened, WatcherRec
  <2> DEFINE al == [s.alive EXCEPT ![p] = @ + 1]
             pa == IF s.alive[p] = 0 THEN s.peerAlive + 1 ELSE s.peerAlive
             pb == IF p \in s.broken THEN s.peerBroken - 1 ELSE s.peerBroken
  <2>2. al \in [Peers -> Nat] /\ pa \in Int /\ pb \in Int
    BY <1>1 DEF WatcherRec
  <2>3. t = [s EXCEPT !.alive = al, !.peerAlive = pa, !.broken = s.broken \ {p}, !.peerBroken = pb]
    BY <2>1, Zenon
  <2> HIDE DEF al, pa, pb
  <2>4. /\ t \in WatcherRec
        /\ t.ready = s.ready /\ t.graceful = s.graceful /\ t.alive = al
        /\ t.broken = s.broken \ {p} /\ t.uninit = s.uninit /\ t.attached = s.attached
        /\ t.peerAlive = pa /\ t.peerBroken = pb /\ t.peerUninit = s.peerUninit
    BY <1>1, <2>2, <2>3 DEF WatcherRec
  <2> QED BY <2>4, Zenon DEF al, pa, pb
<1>3. t.peerAlive = Cardinality(AliveOf(t))
  <2>1. AliveOf(t) = AliveOf(s) \cup {p} /\ AliveOf(s) \in SUBSET Peers
        /\ (p \in AliveOf(s) <=> s.alive[p] # 0)
    BY <1>1, <1>2 DEF AliveOf, WatcherRec
  <2>2. Cardinality(AliveOf(s) \cup {p})
           = IF p \in AliveOf(s) THEN Cardinality(AliveOf(s)) ELSE Cardinality(AliveOf(s)) + 1
    BY <2>1, PeersFinite, Zenon
  <2> QED BY <1>2, <2>1, <2>2 DEF MapsOK
<1>4. t.peerBroken = Cardinality(t.broken)
  <2>1. s.broken \in SUBSET Peers
    BY <1>1 DEF WatcherRec
  <2>2. Cardinality(s.broken \ {p})
           = IF p \in s.broken THEN Cardinality(s.broken) - 1 ELSE Cardinality(s.broken)
    BY <2>1, PeersFinite, Zenon
  <2> QED BY <1>2, <2>2 DEF MapsOK
<1>5. \A q \in Peers \ t.ready : t.alive[q] = 0 /\ q \notin t.broken /\ q \notin t.uninit
  BY <1>1, <1>2 DEF MapsOK, WatcherRec
<1>6. t.peerAlive >= s.peerAlive
  BY <1>1, <1>2 DEF WatcherRec
<1> QED BY <1>2, <1>3, <1>4, <1>5, <1>6 DEF MapsOK

\* The end of a handler: the decision about the attachment.
LEMMA Decided ==
    ASSUME NEW u, MapsOK(u), NEW b \in BOOLEAN, NEW t, t = [u EXCEPT !.attached = b]
    PROVE  /\ MapsOK(t)
           /\ t.ready = u.ready /\ t.graceful = u.graceful /\ t.alive = u.alive
           /\ t.broken = u.broken /\ t.uninit = u.uninit /\ t.peerAlive = u.peerAlive
           /\ t.attached = b
<1>1. /\ t \in WatcherRec
      /\ t.ready = u.ready /\ t.graceful = u.graceful /\ t.alive = u.alive
      /\ t.broken = u.broken /\ t.uninit = u.uninit
      /\ t.peerAlive = u.peerAlive /\ t.peerBroken = u.peerBroken
      /\ t.peerUninit = u.peerUninit /\ t.attached = b
  BY DEF MapsOK, WatcherRec
<1>2. AliveOf(t) = AliveOf(u)
  BY <1>1 DEF AliveOf
<1> QED BY <1>1, <1>2, Zenon DEF MapsOK

\* What the counters say when the cluster is healthy.
LEMMA HealthyMeans ==
    ASSUME NEW u, MapsOK(u), Healthy(u)
    PROVE  u.peerAlive >= MinAlivePeers /\ u.uninit = {} /\ (StrictGraceful => u.broken = {})
<1>1. /\ u.peerAlive >= MinAlivePeers /\ (StrictGraceful => u.peerBroken = 0) /\ u.peerUninit = 0
  BY Zenon DEF Healthy
<1>2. /\ u.broken \in SUBSET Peers /\ u.uninit \in SUBSET Peers
      /\ u.peerBroken = Cardinality(u.broken) /\ u.peerUninit = Cardinality(u.uninit)
  BY DEF MapsOK, WatcherRec
<1>3. IsFiniteSet(u.broken) /\ IsFiniteSet(u.uninit)
  BY <1>2, PeersFinite
<1>4. u.uninit = {}
  BY <1>1, <1>2, <1>3, FS_EmptySet, Zenon
<1>5. u.peerBroken = 0 => u.broken = {}
  BY <1>2, <1>3, FS_EmptySet, Zenon
<1> QED BY <1>1, <1>4, <1>5, Zenon

\* The decision to attach, after a connection was opened.
LEMMA AfterOpenOK ==
    ASSUME NEW s, MapsOK(s), AttachedOK(s), NEW p \in Peers, p \in s.ready,
           NEW t, t = AfterOpen(Opened(s, p), p)
    PROVE  /\ MapsOK(t) /\ AttachedOK(t)
           /\ t.ready = s.ready /\ t.graceful = s.graceful
           /\ t.alive = [s.alive EXCEPT ![p] = @ + 1]
           /\ t.broken = s.broken \ {p}
<1> DEFINE u == Opened(s, p)
           b == u.attached \/ (u.alive[p] = 1 /\ Healthy(u))
<1>1. /\ MapsOK(u)
      /\ u.ready = s.ready /\ u.graceful = s.graceful
      /\ u.alive = [s.alive EXCEPT ![p] = @ + 1]
      /\ u.broken = s.broken \ {p} /\ u.uninit = s.uninit
      /\ u.attached = s.attached /\ u.peerAlive >= s.peerAlive
  BY OpenedMaps
<1> HIDE DEF u
<1>2. t = [u EXCEPT !.attached = u.attached \/ (u.alive[p] = 1 /\ Healthy(u))]
  BY DEF AfterOpen, u
<1>3. /\ MapsOK(t)
      /\ t.ready = u.ready /\ t.graceful = u.graceful /\ t.alive = u.alive
      /\ t.broken = u.broken /\ t.uninit = u.uninit /\ t.peerAlive = u.peerAlive
      /\ t.attached = b
  <2>1. b \in BOOLEAN
    OBVIOUS
  <2>2. t = [u EXCEPT !.attached = b]
    BY <1>2, Zenon
  <2> HIDE DEF b
  <2> QED BY <1>1, <2>1, <2>2, Decided
<1>4. CASE u.attached
  <2>1. /\ s.peerAlive >= MinAlivePeers /\ s.uninit = {}
        /\ StrictGraceful => \A q \in s.broken : s.alive[q] > 0
    BY <1>1, <1>4, Zenon DEF AttachedOK
  <2>2. s.alive \in [Peers -> Nat] /\ s.broken \subseteq Peers /\ s.peerAlive \in Int
        /\ t.peerAlive \in Int
    BY <1>3 DEF MapsOK, WatcherRec
  <2>3. t.peerAlive >= MinAlivePeers
    BY <1>1, <1>3, <2>1, <2>2
  <2>4. StrictGraceful => \A q \in t.broken : t.alive[q] > 0
    BY <1>1, <1>3, <2>1, <2>2
  <2>5. t.uninit = {}
    BY <1>1, <1>3, <2>1, Zenon
  <2>6. AttachedOK(t)
    BY <2>3, <2>4, <2>5, Zenon DEF AttachedOK
  <2> QED BY <1>1, <1>3, <2>6, Zenon
<1>5. CASE ~u.attached
  <2>1. t.attached => Healthy(u)
    BY <1>3, <1>5, Zenon
  <2>2. Healthy(u) => u.peerAlive >= MinAlivePeers /\ u.uninit = {}
                      /\ (StrictGraceful => u.broken = {})
    BY <1>1, HealthyMeans, Zenon
  <2>3. AttachedOK(t)
    BY <1>3, <2>1, <2>2, Zenon DEF AttachedOK
  <2> QED BY <1>1, <1>3, <2>3, Zenon
<1> QED BY <1>4, <1>5

\* The maps and counters after a connection was closed.
LEMMA ClosedMaps ==
    ASSUME NEW s, MapsOK(s), NEW p \in Peers, p \in s.ready, s.alive[p] # 0,
           NEW t, t = Closed(s, p)
    PROVE  /\ MapsOK(t)
           /\ t.ready = s.ready /\ t.uninit = s.uninit /\ t.attached = s.attached
           /\ t.alive = [s.alive EXCEPT ![p] = @ - 1]
           /\ t.graceful = [s.graceful EXCEPT ![p] = IF @ = 0 THEN 0 ELSE @ - 1]
           /\ t.broken = IF s.graceful[p] = 0 THEN s.broken \cup {p} ELSE s.broken
           /\ t.peerAlive = IF s.alive[p] = 1 THEN s.peerAlive - 1 ELSE s.peerAlive
<1> DEFINE al == [s.alive EXCEPT ![p] = @ - 1]
           gr == [s.graceful EXCEPT ![p] = IF @ = 0 THEN 0 ELSE @ - 1]
           br == IF s.graceful[p] = 0 THEN s.broken \cup {p} ELSE s.broken
           pa == IF s.alive[p] = 1 THEN s.peerAlive - 1 ELSE s.peerAlive
           pb == IF s.graceful[p] = 0 /\ p \notin s.broken THEN s.peerBroken + 1 ELSE s.peerBroken
<1>1. s \in WatcherRec
  BY DEF MapsOK
<1>2. al \in [Peers -> Nat] /\ gr \in [Peers -> Nat] /\ br \in SUBSET Peers
      /\ pa \in Int /\ pb \in Int
  <2>1. s.alive \in [Peers -> Nat] /\ s.graceful \in [Peers -> Nat] /\ s.broken \in SUBSET Peers
        /\ s.peerAlive \in Int /\ s.peerBroken \in Int
    BY <1>1 DEF WatcherRec
  <2>2. al \in [Peers -> Nat]
    BY <2>1
  <2>3. gr \in [Peers -> Nat]
    BY <2>1
  <2> QED BY <2>1, <2>2, <2>3
<1>3. t = [s EXCEPT !.alive = al, !.peerAlive = pa, !.graceful = gr, !.broken = br,
                    !.peerBroken = pb]
  BY <1>1 DEF Closed, WatcherRec
<1>4. /\ t \in WatcherRec
      /\ t.ready = s.ready /\ t.uninit = s.uninit /\ t.attached = s.attached
      /\ t.alive = al /\ t.graceful = gr /\ t.broken = br
      /\ t.peerAlive = pa /\ t.peerBroken = pb /\ t.peerUninit = s.peerUninit
  <2> HIDE DEF al, gr, br, pa, pb
  <2> QED BY <1>1, <1>2, <1>3 DEF WatcherRec
<1>5. t.peerAlive = Cardinality(AliveOf(t))
  <2>1. s.alive \in [Peers -> Nat] /\ t.alive = al
    BY <1>1, <1>4 DEF WatcherRec
  <2>2. AliveOf(s) \in SUBSET Peers /\ p \in AliveOf(s)
    BY <2>1 DEF AliveOf
  <2>3. AliveOf(t) = IF s.alive[p] = 1 THEN AliveOf(s) \ {p} ELSE AliveOf(s)
    <3>1. ASSUME NEW q \in Peers PROVE t.alive[q] = IF q = p THEN s.alive[q] - 1 ELSE s.alive[q]
      BY <2>1
    <3> QED BY <2>1, <3>1 DEF AliveOf
  <2>4. Cardinality(AliveOf(s) \ {p}) = Cardinality(AliveOf(s)) - 1
    BY <2>2, PeersFinite, Zenon
  <2> QED BY <1>4, <2>3, <2>4 DEF MapsOK
<1>6. t.peerBroken = Cardinality(t.broken)
  <2>1. s.broken \in SUBSET Peers
    BY <1>1 DEF WatcherRec
  <2>2. Cardinality(s.broken \cup {p})
           = IF p \in s.broken THEN Cardinality(s.broken) ELSE Cardinality(s.broken) + 1
    BY <2>1, PeersFinite, Zenon
  <2> QED BY <1>4, <2>2 DEF MapsOK
<1>7. \A q \in Peers \ t.ready : t.alive[q] = 0 /\ q \notin t.broken /\ q \notin t.uninit
  <2>1. s.alive \in [Peers -> Nat]
    BY <1>1 DEF WatcherRec
  <2>2. ASSUME NEW q \in Peers \ t.ready PROVE t.alive[q] = s.alive[q] /\ q # p
    BY <1>4, <2>1, <2>2
  <2> QED BY <1>4, <2>2 DEF MapsOK
<1> QED BY <1>4, <1>5, <1>6, <1>7 DEF MapsOK

ClosedTo(s, t, p) ==
    /\ MapsOK(t) /\ AttachedOK(t)
    /\ t.ready = s.ready
    /\ t.graceful = [s.graceful EXCEPT ![p] = IF @ = 0 THEN 0 ELSE @ - 1]
    /\ t.alive = [s.alive EXCEPT ![p] = @ - 1]
    /\ t.broken = IF s.graceful[p] = 0 THEN s.broken \cup {p} ELSE s.broken

\* The decision to detach, after a connection was closed.
LEMMA AfterCloseOK ==
    ASSUME NEW s, MapsOK(s), AttachedOK(s), NEW p \in Peers, p \in s.ready, s.alive[p] # 0,
           NEW t, t = AfterClose(Closed(s, p), p)
    PROVE  ClosedTo(s, t, p)
<1> DEFINE u == Closed(s, p)
           b == u.attached /\ (u.alive[p] = 0 => /\ ~(StrictGraceful /\ p \in u.broken)
                                                  /\ u.peerAlive >= MinAlivePeers)
<1>1. /\ MapsOK(u)
      /\ u.ready = s.ready /\ u.uninit = s.uninit /\ u.attached = s.attached
      /\ u.alive = [s.alive EXCEPT ![p] = @ - 1]
      /\ u.graceful = [s.graceful EXCEPT ![p] = IF @ = 0 THEN 0 ELSE @ - 1]
      /\ u.broken = IF s.graceful[p] = 0 THEN s.broken \cup {p} ELSE s.broken
      /\ u.peerAlive = IF s.alive[p] = 1 THEN s.peerAlive - 1 ELSE s.peerAlive
  BY ClosedMaps
<1> HIDE DEF u
<1>2. t = [u EXCEPT !.attached =
             u.attached /\ (u.alive[p] = 0 => /\ ~(StrictGraceful /\ p \in u.broken)
                                               /\ u.peerAlive >= MinAlivePeers)]
  BY DEF AfterClose, u
<1>3. /\ MapsOK(t)
      /\ t.ready = u.ready /\ t.graceful = u.graceful /\ t.alive = u.alive
      /\ t.broken = u.broken /\ t.uninit = u.uninit /\ t.peerAlive = u.peerAlive
      /\ t.attached = b
  <2>1. b \in BOOLEAN
    OBVIOUS
  <2>2. t = [u EXCEPT !.attached = b]
    BY <1>2, Zenon
  <2> HIDE DEF b
  <2> QED BY <1>1, <2>1, <2>2, Decided
<1>4. ASSUME t.attached
      PROVE  /\ t.peerAlive >= MinAlivePeers /\ t.uninit = {}
             /\ StrictGraceful => \A q \in t.broken : t.alive[q] > 0
  <2>1. /\ u.attached
        /\ u.alive[p] = 0 => ~(StrictGraceful /\ p \in u.broken) /\ u.peerAlive >= MinAlivePeers
    BY <1>3, <1>4, Zenon
  <2>2. /\ s.peerAlive >= MinAlivePeers /\ s.uninit = {}
        /\ StrictGraceful => \A q \in s.broken : s.alive[q] > 0
    BY <1>1, <2>1, Zenon DEF AttachedOK
  <2>3. s.alive \in [Peers -> Nat] /\ s.broken \subseteq Peers /\ s.peerAlive \in Int
    BY DEF MapsOK, WatcherRec
  <2>4. u.alive[p] = s.alive[p] - 1 /\ \A q \in Peers : q # p => u.alive[q] = s.alive[q]
    BY <1>1, <2>3
  <2>5. t.peerAlive >= MinAlivePeers
    BY <1>1, <1>3, <2>1, <2>2, <2>3, <2>4
  <2>6. ASSUME StrictGraceful, NEW q \in t.broken PROVE t.alive[q] > 0
    <3>1. CASE q = p
      BY <1>3, <2>1, <2>3, <2>4, <2>6, <3>1
    <3>2. CASE q # p
      <4>1. q \in s.broken
        BY <1>1, <1>3, <2>6, <3>2
      <4> QED BY <1>3, <2>2, <2>3, <2>4, <2>6, <3>2, <4>1
    <3> QED BY <3>1, <3>2
  <2> QED BY <1>1, <1>3, <2>2, <2>5, <2>6
<1>5. AttachedOK(t)
  BY <1>4, Zenon DEF AttachedOK
<1> QED BY <1>1, <1>3, <1>5, Zenon DEF ClosedTo

\* A mark, and the start of the watch of a pool.
LEMMA MarkOK ==
    ASSUME NEW s, MapsOK(s), AttachedOK(s), NEW p \in Peers, NEW t, t = OnShutdownMark(s, p)
    PROVE  /\ MapsOK(t) /\ AttachedOK(t)
           /\ t.ready = s.ready /\ t.alive = s.alive /\ t.broken = s.broken
           /\ t.graceful = [s.graceful EXCEPT ![p] = @ + 1]
<1> DEFINE gr == [s.graceful EXCEPT ![p] = @ + 1]
<1>1. s \in WatcherRec
  BY DEF MapsOK
<1>2. gr \in [Peers -> Nat] /\ t = [s EXCEPT !.graceful = gr]
  BY <1>1 DEF WatcherRec, OnShutdownMark
<1>3. /\ t \in WatcherRec
      /\ t.ready = s.ready /\ t.alive = s.alive /\ t.graceful = gr
      /\ t.broken = s.broken /\ t.uninit = s.uninit /\ t.attached = s.attached
      /\ t.peerAlive = s.peerAlive /\ t.peerBroken = s.peerBroken /\ t.peerUninit = s.peerUninit
  <2> HIDE DEF gr
  <2> QED BY <1>1, <1>2 DEF WatcherRec
<1>4. AliveOf(t) = AliveOf(s)
  BY <1>3 DEF AliveOf
<1>5. MapsOK(t)
  BY <1>3, <1>4, Zenon DEF MapsOK
<1>6. AttachedOK(t)
  BY <1>3, Zenon DEF AttachedOK
<1> QED BY <1>3, <1>5, <1>6

\* OnInit makes the pool ready and leaves the counts alone.
LEMMA InitOK ==
    ASSUME NEW s, MapsOK(s), AttachedOK(s), NEW p \in Peers, NEW t, t = OnInit(s, p)
    PROVE  /\ MapsOK(t) /\ AttachedOK(t)
           /\ t.ready = s.ready \cup {p} /\ t.alive = s.alive /\ t.broken = s.broken
           /\ t.graceful = s.graceful
<1>1. s \in WatcherRec /\ t = [s EXCEPT !.ready = s.ready \cup {p}]
  BY DEF MapsOK, OnInit
<1>2. /\ t \in WatcherRec
      /\ t.ready = s.ready \cup {p} /\ t.alive = s.alive /\ t.graceful = s.graceful
      /\ t.broken = s.broken /\ t.uninit = s.uninit /\ t.attached = s.attached
      /\ t.peerAlive = s.peerAlive /\ t.peerBroken = s.peerBroken /\ t.peerUninit = s.peerUninit
  BY <1>1 DEF WatcherRec
<1>3. AliveOf(t) = AliveOf(s)
  BY <1>2 DEF AliveOf
<1>4. \A q \in Peers \ t.ready : t.alive[q] = 0 /\ q \notin t.broken /\ q \notin t.uninit
  BY <1>2 DEF MapsOK
<1>5. MapsOK(t)
  BY <1>2, <1>3, <1>4, Zenon DEF MapsOK
<1>6. AttachedOK(t)
  BY <1>2, Zenon DEF AttachedOK
<1> QED BY <1>2, <1>5, <1>6

\* What the other signals do to the variables of the watcher: no pool is added,
\* no pool breaks, and of a pool that stays the counts do.
Kept(s, t) ==
    /\ MapsOK(t) /\ AttachedOK(t)
    /\ t.ready \subseteq s.ready /\ t.broken \subseteq s.broken
    /\ \A q \in t.ready : t.alive[q] = s.alive[q] /\ t.graceful[q] = s.graceful[q]

\* So do the signals for a pool: that it is uninitialized,
LEMMA UninitializedOK ==
    ASSUME NEW s, MapsOK(s), AttachedOK(s), NEW p \in Peers, NEW t, t = OnUninitialized(s, p)
    PROVE  Kept(s, t)
<1>1. CASE p \notin s.ready \/ p \in s.uninit
  BY <1>1 DEF OnUninitialized, Kept
<1>2. CASE p \in s.ready /\ p \notin s.uninit
  <2>1. s \in WatcherRec
    BY DEF MapsOK
  <2> DEFINE un == s.uninit \cup {p}
             pu == s.peerUninit + 1
  <2>2. /\ un \in SUBSET Peers /\ pu \in Int
        /\ t = [s EXCEPT !.uninit = un, !.peerUninit = pu, !.attached = FALSE]
    BY <1>2, <2>1 DEF OnUninitialized, WatcherRec
  <2>3. /\ t \in WatcherRec
        /\ t.ready = s.ready /\ t.alive = s.alive /\ t.graceful = s.graceful
        /\ t.broken = s.broken /\ t.uninit = un
        /\ t.peerAlive = s.peerAlive /\ t.peerBroken = s.peerBroken
        /\ t.peerUninit = pu /\ t.attached = FALSE
    <3> HIDE DEF un, pu
    <3> QED BY <2>1, <2>2 DEF WatcherRec
  <2>4. AliveOf(t) = AliveOf(s)
    BY <2>3 DEF AliveOf
  <2>5. t.peerUninit = Cardinality(t.uninit)
    <3>1. s.uninit \in SUBSET Peers
      BY <2>1 DEF WatcherRec
    <3>2. Cardinality(s.uninit \cup {p}) = Cardinality(s.uninit) + 1
      BY <1>2, <3>1, PeersFinite, Zenon
    <3> QED BY <2>3, <3>2 DEF MapsOK
  <2>6. \A q \in Peers \ t.ready : t.alive[q] = 0 /\ q \notin t.broken /\ q \notin t.uninit
    BY <1>2, <2>3 DEF MapsOK
  <2>7. MapsOK(t)
    BY <2>3, <2>4, <2>5, <2>6, Zenon DEF MapsOK
  <2>8. AttachedOK(t)
    <3>1. ~t.attached
      BY <2>3
    <3> QED BY <3>1, Zenon DEF AttachedOK
  <2> QED BY <2>3, <2>7, <2>8 DEF Kept
<1> QED BY <1>1, <1>2

\* that it is initialized,
LEMMA InitializedOK ==
    ASSUME NEW s, MapsOK(s), AttachedOK(s), NEW p \in Peers, NEW t, t = OnInitialized(s, p)
    PROVE  Kept(s, t)
<1>1. CASE p \notin s.uninit
  BY <1>1 DEF OnInitialized, Kept
<1>2. CASE p \in s.uninit
  <2> DEFINE un == s.uninit \ {p}
             pu == s.peerUninit - 1
             u == [s EXCEPT !.uninit = un, !.peerUninit = pu]
             b == u.attached \/ Healthy(u)
  <2>1. s \in WatcherRec
    BY DEF MapsOK
  <2>2. /\ u \in WatcherRec
        /\ u.ready = s.ready /\ u.alive = s.alive /\ u.graceful = s.graceful
        /\ u.broken = s.broken /\ u.uninit = un /\ u.attached = s.attached
        /\ u.peerAlive = s.peerAlive /\ u.peerBroken = s.peerBroken
        /\ u.peerUninit = pu
    <3>1. un \in SUBSET Peers /\ pu \in Int
      BY <2>1 DEF WatcherRec
    <3> HIDE DEF un, pu
    <3> QED BY <2>1, <3>1 DEF WatcherRec
  <2>3. t = [u EXCEPT !.attached = u.attached \/ Healthy(u)]
    BY <1>2, <2>1 DEF OnInitialized
  <2> HIDE DEF u
  <2>4. AliveOf(u) = AliveOf(s)
    BY <2>2 DEF AliveOf
  <2>5. u.peerUninit = Cardinality(u.uninit)
    <3>1. s.uninit \in SUBSET Peers
      BY <2>1 DEF WatcherRec
    <3>2. Cardinality(s.uninit \ {p}) = Cardinality(s.uninit) - 1
      BY <1>2, <3>1, PeersFinite, Zenon
    <3> QED BY <2>2, <3>2 DEF MapsOK
  <2>6. \A q \in Peers \ u.ready : u.alive[q] = 0 /\ q \notin u.broken /\ q \notin u.uninit
    BY <2>2 DEF MapsOK
  <2>7. MapsOK(u)
    BY <2>2, <2>4, <2>5, <2>6, Zenon DEF MapsOK
  <2>8. /\ MapsOK(t)
        /\ t.ready = u.ready /\ t.graceful = u.graceful /\ t.alive = u.alive
        /\ t.broken = u.broken /\ t.uninit = u.uninit /\ t.peerAlive = u.peerAlive
        /\ t.attached = b
    <3>1. b \in BOOLEAN
      OBVIOUS
    <3>2. t = [u EXCEPT !.attached = b]
      BY <2>3, Zenon
    <3> HIDE DEF b
    <3> QED BY <2>7, <3>1, <3>2, Decided
  <2>9. AttachedOK(t)
    <3>1. CASE u.attached
      <4>1. s.uninit = {}
        BY <2>2, <3>1, Zenon DEF AttachedOK
      <4> QED BY <1>2, <4>1
    <3>2. CASE ~u.attached
      <4>1. t.attached => Healthy(u)
        BY <2>8, <3>2, Zenon
      <4>2. Healthy(u) => u.peerAlive >= MinAlivePeers /\ u.uninit = {}
                          /\ (StrictGraceful => u.broken = {})
        BY <2>7, HealthyMeans, Zenon
      <4> QED BY <2>8, <4>1, <4>2, Zenon DEF AttachedOK
    <3> QED BY <3>1, <3>2
  <2>10. t.ready = s.ready /\ t.broken = s.broken /\ t.alive = s.alive /\ t.graceful = s.graceful
    BY <2>2, <2>8, Zenon
  <2> QED BY <2>8, <2>9, <2>10 DEF Kept
<1> QED BY <1>1, <1>2

\* and that it is removed.
LEMMA RemoveOK ==
    ASSUME NEW s, MapsOK(s), AttachedOK(s), NEW p \in Peers, NEW t, t = OnRemove(s, p)
    PROVE  Kept(s, t)
<1>1. CASE p \notin s.ready
  BY <1>1 DEF OnRemove, Kept
<1>2. CASE p \in s.ready
  <2> DEFINE al == [s.alive EXCEPT ![p] = 0]
             gr == [s.graceful EXCEPT ![p] = 0]
             pa == IF s.alive[p] > 0 THEN s.peerAlive - 1 ELSE s.peerAlive
             pb == IF p \in s.broken THEN s.peerBroken - 1 ELSE s.peerBroken
             pu == IF p \in s.uninit THEN s.peerUninit - 1 ELSE s.peerUninit
             u == [s EXCEPT !.peerAlive = pa, !.peerBroken = pb, !.peerUninit = pu,
                            !.ready = s.ready \ {p}, !.alive = al, !.graceful = gr,
                            !.broken = s.broken \ {p}, !.uninit = s.uninit \ {p}]
             b == IF u.attached THEN u.peerAlive >= MinAlivePeers ELSE Healthy(u)
  <2>1. /\ s \in WatcherRec
        /\ s.alive \in [Peers -> Nat] /\ s.graceful \in [Peers -> Nat]
        /\ s.ready \in SUBSET Peers /\ s.broken \in SUBSET Peers /\ s.uninit \in SUBSET Peers
        /\ s.peerAlive \in Int /\ s.peerBroken \in Int /\ s.peerUninit \in Int
    BY DEF MapsOK, WatcherRec
  <2>2. /\ al \in [Peers -> Nat] /\ gr \in [Peers -> Nat]
        /\ pa \in Int /\ pb \in Int /\ pu \in Int
    BY <2>1
  <2>3. t = [u EXCEPT !.attached = IF u.attached THEN u.peerAlive >= MinAlivePeers ELSE Healthy(u)]
    <3> HIDE DEF b
    <3> QED BY <1>2, <2>1 DEF OnRemove, WatcherRec
  <2>4. /\ u \in WatcherRec
        /\ u.ready = s.ready \ {p} /\ u.alive = al /\ u.graceful = gr
        /\ u.broken = s.broken \ {p} /\ u.uninit = s.uninit \ {p} /\ u.attached = s.attached
        /\ u.peerAlive = pa /\ u.peerBroken = pb /\ u.peerUninit = pu
    <3> HIDE DEF al, gr, pa, pb, pu
    <3> QED BY <2>1, <2>2 DEF WatcherRec
  <2> HIDE DEF u
  <2>5. u.peerAlive = Cardinality(AliveOf(u))
    <3>1. AliveOf(s) \in SUBSET Peers /\ (p \in AliveOf(s) <=> s.alive[p] > 0)
      BY <2>1 DEF AliveOf
    <3>2. AliveOf(u) = AliveOf(s) \ {p}
      BY <2>1, <2>4 DEF AliveOf
    <3>3. Cardinality(AliveOf(s) \ {p})
             = IF p \in AliveOf(s) THEN Cardinality(AliveOf(s)) - 1 ELSE Cardinality(AliveOf(s))
      BY <3>1, PeersFinite, Zenon
    <3> QED BY <2>4, <3>1, <3>2, <3>3 DEF MapsOK
  <2>6. u.peerBroken = Cardinality(u.broken)
    <3>1. Cardinality(s.broken \ {p})
             = IF p \in s.broken THEN Cardinality(s.broken) - 1 ELSE Cardinality(s.broken)
      BY <2>1, PeersFinite, Zenon
    <3> QED BY <2>4, <3>1 DEF MapsOK
  <2>7. u.peerUninit = Cardinality(u.uninit)
    <3>1. Cardinality(s.uninit \ {p})
             = IF p \in s.uninit THEN Cardinality(s.uninit) - 1 ELSE Cardinality(s.uninit)
      BY <2>1, PeersFinite, Zenon
    <3> QED BY <2>4, <3>1 DEF MapsOK
  <2>8. \A q \in Peers : q # p => u.alive[q] = s.alive[q] /\ u.graceful[q] = s.graceful[q]
    BY <2>1, <2>4
  <2>9. \A q \in Peers \ u.ready : u.alive[q] = 0 /\ q \notin u.broken /\ q \notin u.uninit
    <3>1. u.alive[p] = 0
      BY <2>1, <2>4
    <3> QED BY <2>4, <2>8, <3>1 DEF MapsOK
  <2>10. MapsOK(u)
    BY <2>4, <2>5, <2>6, <2>7, <2>9, Zenon DEF MapsOK
  <2>11. /\ MapsOK(t)
         /\ t.ready = u.ready /\ t.graceful = u.graceful /\ t.alive = u.alive
         /\ t.broken = u.broken /\ t.uninit = u.uninit /\ t.peerAlive = u.peerAlive
         /\ t.attached = b
    <3>1. b \in BOOLEAN
      <4>1. CASE u.attached
        BY <4>1
      <4>2. CASE ~u.attached
        BY <4>2, Zenon DEF Healthy
      <4> QED BY <4>1, <4>2
    <3>2. t = [u EXCEPT !.attached = b]
      BY <2>3, Zenon
    <3> HIDE DEF b
    <3> QED BY <2>10, <3>1, <3>2, Decided
  <2>12. AttachedOK(t)
    <3>1. CASE u.attached
      <4>1. s.uninit = {} /\ (StrictGraceful => \A q \in s.broken : s.alive[q] > 0)
        BY <2>4, <3>1, Zenon DEF AttachedOK
      <4>2. t.uninit = {} /\ (StrictGraceful => \A q \in t.broken : t.alive[q] > 0)
        BY <2>1, <2>4, <2>8, <2>11, <4>1
      <4>3. t.attached => t.peerAlive >= MinAlivePeers
        BY <2>11, <3>1, Zenon
      <4> QED BY <4>2, <4>3, Zenon DEF AttachedOK
    <3>2. CASE ~u.attached
      <4>1. t.attached => Healthy(u)
        BY <2>11, <3>2, Zenon
      <4>2. Healthy(u) => u.peerAlive >= MinAlivePeers /\ u.uninit = {}
                          /\ (StrictGraceful => u.broken = {})
        BY <2>10, HealthyMeans, Zenon
      <4> QED BY <2>11, <4>1, <4>2, Zenon DEF AttachedOK
    <3> QED BY <3>1, <3>2
  <2>13. t.ready \subseteq s.ready /\ t.broken \subseteq s.broken
         /\ \A q \in t.ready : t.alive[q] = s.alive[q] /\ t.graceful[q] = s.graceful[q]
    BY <2>1, <2>4, <2>8, <2>11
  <2> QED BY <2>11, <2>12, <2>13, Zenon DEF Kept
<1> QED BY <1>1, <1>2

-----------------------------------------------------------------------------
(* The steps of the connections *)

\* A step that the watcher does not notice: nothing is told, marked or handled.
LEMMA Unnoticed ==
    ASSUME WatcherInv, UNCHANGED <<w, running, stopped, change, wrapped, marked>>,
           ConnsOK', unmarked \subseteq unmarked',
           \A k \in Conns : peer[k] # None => peer'[k] = peer[k],
           running => \A k \in Conns : IsTold(k)' = IsTold(k) /\ IsGone(k)' = IsGone(k)
    PROVE  WatcherInv'
<1>1. /\ w' = w /\ running' = running /\ stopped' = stopped /\ change' = change
      /\ wrapped' = wrapped /\ marked' = marked
  OBVIOUS
<1>2. ChangeOK'
  BY <1>1 DEF WatcherInv, ChangeOK
<1>3. BrokenIsRude'
  <2>1. ASSUME NEW p \in w.broken PROVE \E k \in unmarked' : peer'[k] = p
    <3>1. PICK k \in unmarked : peer[k] = p
      BY DEF WatcherInv, BrokenIsRude
    <3>2. p \in Peers /\ k \in Conns
      BY DEF WatcherInv, MapsOK, WatcherRec, ConnsOK
    <3> QED BY <3>1, <3>2
  <2> QED BY <1>1, <2>1 DEF BrokenIsRude
<1>4. ASSUME running, NEW p \in w.ready PROVE PeerOK(p)'
  <2>1. p \in Peers /\ PeerOK(p)
    BY <1>4 DEF WatcherInv, MapsOK, WatcherRec
  <2>2. ASSUME NEW k \in Conns, peer[k] = None PROVE ~IsTold(k) /\ ~IsGone(k) /\ k \notin marked
    BY <2>2 DEF WatcherInv, ConnsOK, IsTold, IsGone
  <2>3. Told(p)' = Told(p)
    BY <1>4, <2>1, <2>2 DEF Told, IsTold
  <2>4. Gone(p)' = Gone(p)
    BY <1>4, <2>1, <2>2 DEF Gone, IsGone
  <2>5. MarkedOf(p)' = MarkedOf(p)
    <3>1. marked \subseteq Conns
      BY DEF WatcherInv, ConnsOK
    <3> QED BY <1>1, <2>1, <2>2, <3>1 DEF MarkedOf
  <2>6. InFlight(p)' = InFlight(p) /\ Unhandled(p)' = Unhandled(p)
    BY <1>1 DEF InFlight, Unhandled
  <2> QED BY <1>1, <2>1, <2>3, <2>4, <2>5, <2>6 DEF PeerOK
<1> QED BY <1>1, <1>2, <1>3, <1>4 DEF WatcherInv

\* The invariant across each action: a pool dials a connection,
LEMMA DialOK ==
    ASSUME WatcherInv, NEW p \in Peers, NEW k \in Conns, Dial(p, k)
    PROVE  WatcherInv'
<1>1. /\ p \in wrapped /\ peer[k] = None
      /\ peer' = [peer EXCEPT ![k] = p] /\ init' = [init EXCEPT ![k] = "hook"]
      /\ UNCHANGED <<w, running, stopped, change, wrapped, shut, fin, heard, unmarked, marked>>
  BY Zenon DEF Dial, ghost
<1>2. ConnsOK
  BY DEF WatcherInv
<1>3. ConnsOK'
  BY <1>1, <1>2 DEF ConnsOK
<1>4. \A j \in Conns : peer[j] # None => peer'[j] = peer[j]
  BY <1>1, <1>2 DEF ConnsOK
<1>5. \A j \in Conns : IsTold(j)' = IsTold(j) /\ IsGone(j)' = IsGone(j)
  BY <1>1, <1>2 DEF ConnsOK, IsTold, IsGone
<1> QED BY <1>1, <1>3, <1>4, <1>5, Unnoticed

\* its init hook registers the shutdown callback, or fails,
LEMMA InitHookOK ==
    ASSUME WatcherInv, NEW k \in Conns, InitHook(k)
    PROVE  WatcherInv'
<1>1. /\ init[k] = "hook"
      /\ heard' = [heard EXCEPT ![k] = IF Stopped(k) THEN heard[k] ELSE heard[k] \cup {"s"}]
      /\ \/ init' = [init EXCEPT ![k] = "look"] /\ fin' = fin
         \/ /\ init' = [init EXCEPT ![k] = "failed"]
            /\ fin' = [fin EXCEPT ![k] = IF fin[k] = "none" THEN "gone" ELSE fin[k]]
      /\ UNCHANGED <<w, running, stopped, change, wrapped, peer, shut, unmarked, marked>>
  BY DEF InitHook, ghost
<1>2. ConnsOK
  BY DEF WatcherInv
<1>3. ConnsOK'
  BY <1>1, <1>2 DEF ConnsOK
<1>4. \A j \in Conns : peer[j] # None => peer'[j] = peer[j]
  BY <1>1
<1>5. \A j \in Conns : IsTold(j)' = IsTold(j) /\ IsGone(j)' = IsGone(j)
  BY <1>1, <1>2 DEF ConnsOK, IsTold, IsGone
<1> QED BY <1>1, <1>3, <1>4, <1>5, Unnoticed

\* it looks whether the watcher has stopped,
LEMMA InitLookOK ==
    ASSUME WatcherInv, NEW k \in Conns, InitLook(k)
    PROVE  WatcherInv'
<1>1. /\ init[k] = "look"
      /\ init' = [init EXCEPT ![k] = IF stopped THEN "listen" ELSE "send"]
      /\ UNCHANGED <<w, running, stopped, change, wrapped, peer, shut, fin, heard, unmarked, marked>>
  BY Zenon DEF InitLook, ghost
<1>2. ConnsOK /\ stopped = ~running
  BY DEF WatcherInv
<1>3. ConnsOK'
  BY <1>1, <1>2 DEF ConnsOK
<1>4. \A j \in Conns : peer[j] # None => peer'[j] = peer[j]
  BY <1>1
<1>5. running => \A j \in Conns : IsTold(j)' = IsTold(j) /\ IsGone(j)' = IsGone(j)
  BY <1>1, <1>2 DEF ConnsOK, IsTold, IsGone
<1> QED BY <1>1, <1>3, <1>4, <1>5, Unnoticed

\* and registers the close callback;
LEMMA InitListenOK ==
    ASSUME WatcherInv, NEW k \in Conns, InitListen(k)
    PROVE  WatcherInv'
<1>1. /\ init[k] = "listen"
      /\ init' = [init EXCEPT ![k] = "ready"]
      /\ heard' = [heard EXCEPT ![k] = heard[k] \cup {"c"}]
      /\ fin' = [fin EXCEPT ![k] = IF fin[k] = "none" THEN fin[k] ELSE "lock"]
      /\ UNCHANGED <<w, running, stopped, change, wrapped, peer, shut, unmarked, marked>>
  BY DEF InitListen, ghost
<1>2. ConnsOK
  BY DEF WatcherInv
<1>3. ConnsOK'
  BY <1>1, <1>2 DEF ConnsOK
<1>4. \A j \in Conns : peer[j] # None => peer'[j] = peer[j]
  BY <1>1
<1>5. \A j \in Conns : IsTold(j)' = IsTold(j) /\ IsGone(j)' = IsGone(j)
  BY <1>1, <1>2 DEF ConnsOK, IsTold, IsGone
<1> QED BY <1>1, <1>3, <1>4, <1>5, Unnoticed

\* The steps of Channel.Shutdown outside the watcher.
LEMMA ShutdownOK ==
    ASSUME WatcherInv, NEW k \in Conns, Shutdown(k) \/ ShutdownLock(k) \/ ShutdownSkipped(k)
    PROVE  WatcherInv'
<1>1. /\ peer[k] # None \/ shut[k] # "none"
      /\ \E l \in {"lock", "wait", "signal"} : shut' = [shut EXCEPT ![k] = l]
      /\ UNCHANGED <<w, running, stopped, change, wrapped, peer, init, fin, heard, unmarked, marked>>
  BY DEF Shutdown, ShutdownLock, ShutdownSkipped, ghost
<1>2. ConnsOK
  BY DEF WatcherInv
<1>3. ConnsOK'
  BY <1>1, <1>2 DEF ConnsOK
<1>4. \A j \in Conns : peer[j] # None => peer'[j] = peer[j]
  BY <1>1
<1>5. \A j \in Conns : IsTold(j)' = IsTold(j) /\ IsGone(j)' = IsGone(j)
  BY <1>1 DEF IsTold, IsGone
<1> QED BY <1>1, <1>3, <1>4, <1>5, Unnoticed

\* the connection is dropped,
LEMMA DropOK ==
    ASSUME WatcherInv, NEW k \in Conns, Drop(k)
    PROVE  WatcherInv'
<1>1. /\ peer[k] # None /\ fin[k] = "none"
      /\ fin' = [fin EXCEPT ![k] = IF "c" \in heard[k] THEN "lock" ELSE "gone"]
      /\ UNCHANGED <<w, running, stopped, change, wrapped, peer, init, shut, heard, unmarked, marked>>
  BY Zenon DEF Drop, Dropped, ghost
<1>2. ConnsOK
  BY DEF WatcherInv
<1>3. ConnsOK'
  BY <1>1, <1>2 DEF ConnsOK
<1>4. \A j \in Conns : peer[j] # None => peer'[j] = peer[j]
  BY <1>1
<1>5. \A j \in Conns : IsTold(j)' = IsTold(j) /\ IsGone(j)' = IsGone(j)
  BY <1>1, <1>2 DEF ConnsOK, IsTold, IsGone
<1> QED BY <1>1, <1>3, <1>4, <1>5, Unnoticed

\* its closure looks whether the watcher has stopped,
LEMMA DropLookOK ==
    ASSUME WatcherInv, NEW k \in Conns, DropLook(k)
    PROVE  WatcherInv'
<1>1. /\ fin[k] = "lock"
      /\ fin' = [fin EXCEPT ![k] = IF stopped THEN "gone" ELSE "send"]
      /\ unmarked' = IF k \in marked THEN unmarked ELSE unmarked \cup {k}
      /\ UNCHANGED <<w, running, stopped, change, wrapped, peer, init, shut, heard, marked>>
  BY Zenon DEF DropLook
<1>2. ConnsOK /\ stopped = ~running
  BY DEF WatcherInv
<1>3. ConnsOK'
  BY <1>1, <1>2 DEF ConnsOK
<1>4. \A j \in Conns : peer[j] # None => peer'[j] = peer[j]
  BY <1>1
<1>5. running => \A j \in Conns : IsTold(j)' = IsTold(j) /\ IsGone(j)' = IsGone(j)
  BY <1>1, <1>2 DEF ConnsOK, IsTold, IsGone
<1> QED BY <1>1, <1>3, <1>4, <1>5, Unnoticed

\* notify(1) and notify(-1) of a connection: the news is on its way.
LEMMA InitSendOK ==
    ASSUME WatcherInv, NEW k \in Conns, InitSend(k)
    PROVE  WatcherInv'
<1> DEFINE p == peer[k]
<1>1. /\ init[k] = "send" /\ change = << >>
      /\ change' = <<[peer |-> peer[k], conn |-> 1]>>
      /\ init' = [init EXCEPT ![k] = "listen"]
      /\ UNCHANGED <<w, running, stopped, wrapped, peer, shut, fin, heard, unmarked, marked>>
  BY Zenon DEF InitSend, ghost
<1>2. ConnsOK
  BY DEF WatcherInv
<1>3. ConnsOK'
  BY <1>1, <1>2 DEF ConnsOK
<1>4. p \in Peers /\ p \in wrapped /\ "c" \notin heard[k]
  BY <1>1, <1>2 DEF ConnsOK
<1>5. ChangeOK'
  BY <1>1, <1>4 DEF ChangeOK, Messages
<1>6. BrokenIsRude'
  BY <1>1 DEF WatcherInv, BrokenIsRude
<1>7. ASSUME running, NEW q \in w.ready PROVE PeerOK(q)'
  <2>1. q \in Peers /\ PeerOK(q) /\ w.alive[q] \in Nat /\ w.graceful[q] \in Nat
    BY <1>7 DEF WatcherInv, MapsOK, WatcherRec
  <2>2. InFlight(q) = 0 /\ Unhandled(q) = 0
    BY <1>1 DEF InFlight, Unhandled
  <2>3. InFlight(q)' = (IF q = p THEN 1 ELSE 0) /\ Unhandled(q)' = 0
    BY <1>1 DEF InFlight, Unhandled
  <2>4. Gone(q)' = Gone(q) /\ MarkedOf(q)' = MarkedOf(q)
    BY <1>1 DEF Gone, MarkedOf
  <2>5. Told(q)' = IF q = p THEN Told(q) \cup {k} ELSE Told(q)
    BY <1>1, <1>2, <1>4 DEF Told, ConnsOK
  <2>6. Told(q) \in SUBSET Conns /\ k \notin Told(q)
    BY <1>1 DEF Told
  <2>7. Cardinality(Told(q) \cup {k}) = Cardinality(Told(q)) + 1 /\ Cardinality(Told(q)) \in Nat
    BY <2>6, ConnsFinite, Zenon
  <2> QED BY <1>1, <2>1, <2>2, <2>3, <2>4, <2>5, <2>7 DEF PeerOK
<1> QED BY <1>1, <1>3, <1>5, <1>6, <1>7 DEF WatcherInv

\* and sends the change;
LEMMA DropSendOK ==
    ASSUME WatcherInv, NEW k \in Conns, DropSend(k)
    PROVE  WatcherInv'
<1> DEFINE p == peer[k]
<1>1. /\ fin[k] = "send" /\ change = << >>
      /\ change' = <<[peer |-> peer[k], conn |-> -1]>>
      /\ fin' = [fin EXCEPT ![k] = "gone"]
      /\ UNCHANGED <<w, running, stopped, wrapped, peer, init, shut, heard, unmarked, marked>>
  BY Zenon DEF DropSend, ghost
<1>2. ConnsOK
  BY DEF WatcherInv
<1>3. ConnsOK'
  BY <1>1, <1>2 DEF ConnsOK
<1>4. p \in Peers /\ p \in wrapped /\ "c" \in heard[k] /\ init[k] = "ready"
  BY <1>1, <1>2 DEF ConnsOK
<1>5. ChangeOK'
  BY <1>1, <1>4 DEF ChangeOK, Messages
<1>6. BrokenIsRude'
  BY <1>1 DEF WatcherInv, BrokenIsRude
<1>7. ASSUME running, NEW q \in w.ready PROVE PeerOK(q)'
  <2>1. q \in Peers /\ PeerOK(q) /\ w.alive[q] \in Nat /\ w.graceful[q] \in Nat
    BY <1>7 DEF WatcherInv, MapsOK, WatcherRec
  <2>2. InFlight(q) = 0 /\ Unhandled(q) = 0
    BY <1>1 DEF InFlight, Unhandled
  <2>3. InFlight(q)' = (IF q = p THEN -1 ELSE 0) /\ Unhandled(q)' = (IF q = p THEN 1 ELSE 0)
    BY <1>1 DEF InFlight, Unhandled
  <2>4. MarkedOf(q)' = MarkedOf(q) /\ MarkedOf(q) \in SUBSET Conns
    BY <1>1, <1>2 DEF MarkedOf, ConnsOK
  <2>5. Told(q)' = (IF q = p THEN Told(q) \ {k} ELSE Told(q)) /\ (q = p => k \in Told(q))
    BY <1>1, <1>2, <1>4 DEF Told, ConnsOK
  <2>6. Gone(q)' = (IF q = p THEN Gone(q) \cup {k} ELSE Gone(q)) /\ k \notin Gone(q)
    BY <1>1, <1>2, <1>4 DEF Gone, ConnsOK
  <2>7. Told(q) \in SUBSET Conns /\ Gone(q) \in SUBSET Conns
    BY DEF Told, Gone
  <2>8. /\ Cardinality(Told(q)) \in Nat
        /\ q = p => Cardinality(Told(q) \ {k}) = Cardinality(Told(q)) - 1
    BY <2>5, <2>7, ConnsFinite, Zenon
  <2>9. Cardinality(Gone(q)) \in Nat /\ Cardinality(Gone(q) \cup {k}) = Cardinality(Gone(q)) + 1
    BY <2>6, <2>7, ConnsFinite, Zenon
  <2>10. Cardinality(MarkedOf(q)) \in Nat
    BY <2>4, ConnsFinite, Zenon
  <2>11. w.alive[q] + InFlight(q)' = Cardinality(Told(q)')
    BY <2>1, <2>2, <2>3, <2>5, <2>8 DEF PeerOK
  <2>12. w.graceful[q] + Cardinality(Gone(q)') >= Cardinality(MarkedOf(q)') + Unhandled(q)'
    BY <2>1, <2>2, <2>3, <2>4, <2>6, <2>9, <2>10 DEF PeerOK
  <2> QED BY <1>1, <2>11, <2>12 DEF PeerOK
<1> QED BY <1>1, <1>3, <1>5, <1>6, <1>7 DEF WatcherInv

-----------------------------------------------------------------------------
(* The steps of the watcher *)

\* the watcher takes a change,
LEMMA HandleChangeOK ==
    ASSUME WatcherInv, HandleChange
    PROVE  WatcherInv'
<1>1. /\ running /\ change # << >> /\ w' = OnChange(w, Head(change)) /\ change' = Tail(change)
      /\ UNCHANGED <<running, stopped, wrapped, peer, init, shut, fin, heard, unmarked, marked>>
  BY Zenon DEF HandleChange, conns, ghost
<1>2. PICK m \in Messages : change = <<m>> /\ m.peer \in wrapped
  BY <1>1 DEF WatcherInv, ChangeOK
<1>3. Head(change) = m /\ change' = << >>
  BY <1>1, <1>2
<1>4. MapsOK(w) /\ AttachedOK(w) /\ ConnsOK /\ w.alive \in [Peers -> Nat]
      /\ w.graceful \in [Peers -> Nat] /\ w.ready \subseteq Peers /\ w.broken \subseteq Peers
  BY DEF WatcherInv, MapsOK, WatcherRec
<1>5. ConnsOK' /\ ChangeOK'
  BY <1>1, <1>3, <1>4 DEF ConnsOK, ChangeOK
<1>6. \A q \in Peers : /\ Told(q)' = Told(q) /\ Gone(q)' = Gone(q) /\ MarkedOf(q)' = MarkedOf(q)
                       /\ InFlight(q)' = 0 /\ Unhandled(q)' = 0
                       /\ InFlight(q) = IF q = m.peer THEN m.conn ELSE 0
                       /\ Unhandled(q) = IF q = m.peer /\ m.conn = -1 THEN 1 ELSE 0
  BY <1>1, <1>2, <1>3 DEF Told, Gone, MarkedOf, InFlight, Unhandled, Messages
<1>7. \A q \in w.ready : PeerOK(q)
  BY <1>1 DEF WatcherInv
<1>8. \A q \in Peers : /\ Cardinality(Told(q)) \in Nat /\ Cardinality(Gone(q)) \in Nat
                       /\ Cardinality(MarkedOf(q)) \in Nat
  <2>1. ASSUME NEW q \in Peers
        PROVE  Told(q) \in SUBSET Conns /\ Gone(q) \in SUBSET Conns /\ MarkedOf(q) \in SUBSET Conns
    BY <1>4 DEF Told, Gone, MarkedOf, ConnsOK
  <2> QED BY <2>1, ConnsFinite, Zenon
<1>9. m.peer \in Peers /\ m.conn \in {1, -1}
  BY DEF Messages
<1>10. CASE m.peer \notin w.ready
  <2>1. w' = w
    BY <1>1, <1>3, <1>10 DEF OnChange
  <2>2. BrokenIsRude'
    BY <1>1, <2>1 DEF WatcherInv, BrokenIsRude
  <2>3. ASSUME NEW q \in w.ready PROVE PeerOK(q)'
    BY <1>4, <1>6, <1>7, <1>10, <2>1, <2>3 DEF PeerOK
  <2> QED BY <1>1, <1>4, <1>5, <2>1, <2>2, <2>3 DEF WatcherInv
<1>11. CASE m.peer \in w.ready /\ m.conn = 1
  <2>1. w' = AfterOpen(Opened(w, m.peer), m.peer)
    BY <1>1, <1>3, <1>11 DEF OnChange
  <2>2. /\ MapsOK(w') /\ AttachedOK(w')
        /\ w'.ready = w.ready /\ w'.graceful = w.graceful
        /\ w'.alive = [w.alive EXCEPT ![m.peer] = @ + 1]
        /\ w'.broken = w.broken \ {m.peer}
    <3>1. PICK t : t = AfterOpen(Opened(w, m.peer), m.peer)
      OBVIOUS
    <3>2. /\ MapsOK(t) /\ AttachedOK(t)
          /\ t.ready = w.ready /\ t.graceful = w.graceful
          /\ t.alive = [w.alive EXCEPT ![m.peer] = @ + 1]
          /\ t.broken = w.broken \ {m.peer}
      BY <1>4, <1>9, <1>11, <3>1, AfterOpenOK
    <3>3. w' = t
      BY <2>1, <3>1
    <3> QED BY <3>2, <3>3
  <2>3. BrokenIsRude'
    BY <1>1, <2>2 DEF WatcherInv, BrokenIsRude
  <2>4. ASSUME NEW q \in w.ready PROVE PeerOK(q)'
    <3>1. q \in Peers /\ w'.alive[q] = (IF q = m.peer THEN w.alive[q] + 1 ELSE w.alive[q])
          /\ w'.graceful[q] = w.graceful[q] /\ w.alive[q] \in Nat /\ w.graceful[q] \in Nat
      BY <1>4, <2>2, <2>4
    <3> QED BY <1>6, <1>7, <1>8, <1>11, <2>4, <3>1 DEF PeerOK
  <2> QED BY <1>1, <1>4, <1>5, <2>2, <2>3, <2>4 DEF WatcherInv
<1>12. CASE m.peer \in w.ready /\ m.conn = -1
  <2> DEFINE p == m.peer
  <2>1. w' = AfterClose(Closed(w, p), p)
    BY <1>1, <1>3, <1>12 DEF OnChange
  <2>2. w.alive[p] # 0
    BY <1>4, <1>6, <1>7, <1>8, <1>9, <1>12 DEF PeerOK
  <2>3. /\ MapsOK(w') /\ AttachedOK(w')
        /\ w'.ready = w.ready
        /\ w'.graceful = [w.graceful EXCEPT ![p] = IF @ = 0 THEN 0 ELSE @ - 1]
        /\ w'.alive = [w.alive EXCEPT ![p] = @ - 1]
        /\ w'.broken = IF w.graceful[p] = 0 THEN w.broken \cup {p} ELSE w.broken
    <3>1. PICK t : t = AfterClose(Closed(w, p), p)
      OBVIOUS
    <3>2. ClosedTo(w, t, p)
      BY <1>4, <1>9, <1>12, <2>2, <3>1, AfterCloseOK, Zenon
    <3>3. w' = t
      BY <2>1, <3>1
    <3> QED BY <3>2, <3>3, Zenon DEF ClosedTo
  <2>4. w.graceful[p] = 0 => \E k \in unmarked : peer[k] = p
    <3>1. ASSUME w.graceful[p] = 0 PROVE \E k \in Gone(p) : k \notin MarkedOf(p)
      <4>1. Cardinality(Gone(p)) >= Cardinality(MarkedOf(p)) + 1
        BY <1>4, <1>6, <1>7, <1>8, <1>9, <1>12, <3>1 DEF PeerOK
      <4>2. Gone(p) \subseteq MarkedOf(p) => Cardinality(Gone(p)) <= Cardinality(MarkedOf(p))
        <5>1. MarkedOf(p) \in SUBSET Conns
          BY <1>4 DEF MarkedOf, ConnsOK
        <5>2. IsFiniteSet(MarkedOf(p))
          BY <5>1, ConnsFinite, Zenon
        <5> QED BY <5>2, FS_Subset
      <4> QED BY <1>8, <1>9, <4>1, <4>2
    <3>2. ASSUME NEW k \in Gone(p), k \notin MarkedOf(p) PROVE k \in unmarked /\ peer[k] = p
      BY <1>4, <3>2 DEF Gone, MarkedOf, ConnsOK
    <3> QED BY <3>1, <3>2
  <2>5. BrokenIsRude'
    BY <1>1, <2>3, <2>4 DEF WatcherInv, BrokenIsRude
  <2>6. ASSUME NEW q \in w.ready PROVE PeerOK(q)'
    <3>1. /\ q \in Peers /\ w.alive[q] \in Nat /\ w.graceful[q] \in Nat
          /\ w'.alive[q] = (IF q = p THEN w.alive[q] - 1 ELSE w.alive[q])
          /\ w'.graceful[q] = IF q = p THEN (IF w.graceful[q] = 0 THEN 0 ELSE w.graceful[q] - 1)
                                      ELSE w.graceful[q]
      BY <1>4, <2>3, <2>6
    <3> QED BY <1>6, <1>7, <1>8, <1>12, <2>6, <3>1 DEF PeerOK
  <2> QED BY <1>1, <1>4, <1>5, <2>3, <2>5, <2>6 DEF WatcherInv
<1> QED BY <1>9, <1>10, <1>11, <1>12

\* the shutdown of a connection,
LEMMA HandleShutdownOK ==
    ASSUME WatcherInv, NEW k \in Conns, HandleShutdown(k)
    PROVE  WatcherInv'
<1> DEFINE p == peer[k]
<1>1. /\ running /\ shut[k] = "signal" /\ w' = OnShutdownMark(w, p)
      /\ shut' = [shut EXCEPT ![k] = "wait"] /\ marked' = marked \cup {k}
      /\ UNCHANGED <<running, stopped, change, wrapped, peer, init, fin, heard, unmarked>>
  BY Zenon DEF HandleShutdown
<1>2. MapsOK(w) /\ AttachedOK(w) /\ ConnsOK /\ w.alive \in [Peers -> Nat]
      /\ w.graceful \in [Peers -> Nat] /\ w.ready \subseteq Peers
  BY DEF WatcherInv, MapsOK, WatcherRec
<1>3. p \in Peers
  BY <1>1, <1>2 DEF ConnsOK
<1>4. /\ MapsOK(w') /\ AttachedOK(w')
      /\ w'.ready = w.ready /\ w'.alive = w.alive /\ w'.broken = w.broken
      /\ w'.graceful = [w.graceful EXCEPT ![p] = @ + 1]
  <2>1. PICK t : t = OnShutdownMark(w, p)
    OBVIOUS
  <2>2. /\ MapsOK(t) /\ AttachedOK(t)
        /\ t.ready = w.ready /\ t.alive = w.alive /\ t.broken = w.broken
        /\ t.graceful = [w.graceful EXCEPT ![p] = @ + 1]
    BY <1>2, <1>3, <2>1, MarkOK
  <2>3. w' = t
    BY <1>1, <2>1
  <2> QED BY <2>2, <2>3
<1>5. ConnsOK' /\ ChangeOK'
  BY <1>1, <1>2, <1>3 DEF ConnsOK, ChangeOK, WatcherInv
<1>6. BrokenIsRude'
  BY <1>1, <1>4 DEF WatcherInv, BrokenIsRude
<1>7. ASSUME NEW q \in w.ready PROVE PeerOK(q)'
  <2>1. /\ q \in Peers /\ PeerOK(q) /\ w.alive[q] \in Nat /\ w.graceful[q] \in Nat
        /\ w'.alive[q] = w.alive[q]
        /\ w'.graceful[q] = IF q = p THEN w.graceful[q] + 1 ELSE w.graceful[q]
    BY <1>1, <1>2, <1>4, <1>7 DEF WatcherInv
  <2>2. /\ Told(q)' = Told(q) /\ Gone(q)' = Gone(q)
        /\ InFlight(q)' = InFlight(q) /\ Unhandled(q)' = Unhandled(q)
    BY <1>1 DEF Told, Gone, InFlight, Unhandled
  <2>3. MarkedOf(q)' = (IF q = p THEN MarkedOf(q) \cup {k} ELSE MarkedOf(q))
        /\ MarkedOf(q) \in SUBSET Conns /\ Gone(q) \in SUBSET Conns
    BY <1>1, <1>2 DEF MarkedOf, Gone, ConnsOK
  <2>4. /\ Cardinality(MarkedOf(q)) \in Nat /\ Cardinality(Gone(q)) \in Nat
        /\ Cardinality(MarkedOf(q) \cup {k}) = IF k \in MarkedOf(q) THEN Cardinality(MarkedOf(q))
                                               ELSE Cardinality(MarkedOf(q)) + 1
    BY <2>3, ConnsFinite, Zenon
  <2>5. Unhandled(q) \in {0, 1}
    BY DEF Unhandled
  <2> QED BY <2>1, <2>2, <2>3, <2>4, <2>5 DEF PeerOK
<1> QED BY <1>1, <1>4, <1>5, <1>6, <1>7 DEF WatcherInv

\* A pool whose Watch begins has no connection that the hooks could tell of.
LEMMA SignalInitOK ==
    ASSUME WatcherInv, NEW p \in Peers, HandleSignal("init", p)
    PROVE  WatcherInv'
<1>1. /\ running /\ p \notin wrapped /\ w' = OnInit(w, p) /\ wrapped' = wrapped \cup {p}
      /\ running' = TRUE /\ stopped' = FALSE
      /\ UNCHANGED <<change, peer, init, shut, fin, heard, unmarked, marked>>
  BY DEF HandleSignal, MayAsk, Wrap, OnSignal, conns, ghost
<1>2. MapsOK(w) /\ AttachedOK(w) /\ ConnsOK /\ w.alive \in [Peers -> Nat]
      /\ w.graceful \in [Peers -> Nat] /\ w.ready \subseteq Peers /\ w.ready \subseteq wrapped
  BY DEF WatcherInv, MapsOK, WatcherRec
<1>3. /\ MapsOK(w') /\ AttachedOK(w')
      /\ w'.ready = w.ready \cup {p} /\ w'.alive = w.alive /\ w'.broken = w.broken
      /\ w'.graceful = w.graceful
  <2>1. PICK t : t = OnInit(w, p)
    OBVIOUS
  <2>2. /\ MapsOK(t) /\ AttachedOK(t)
        /\ t.ready = w.ready \cup {p} /\ t.alive = w.alive /\ t.broken = w.broken
        /\ t.graceful = w.graceful
    BY <1>2, <2>1, InitOK
  <2>3. w' = t
    BY <1>1, <2>1
  <2> QED BY <2>2, <2>3
<1>4. ConnsOK' /\ ChangeOK'
  BY <1>1, <1>2 DEF ConnsOK, ChangeOK, WatcherInv
<1>5. BrokenIsRude'
  BY <1>1, <1>3 DEF WatcherInv, BrokenIsRude
<1>6. ASSUME NEW q \in Peers
      PROVE  /\ Told(q)' = Told(q) /\ Gone(q)' = Gone(q) /\ MarkedOf(q)' = MarkedOf(q)
             /\ InFlight(q)' = InFlight(q) /\ Unhandled(q)' = Unhandled(q)
  BY <1>1 DEF Told, Gone, MarkedOf, InFlight, Unhandled
<1>7. ASSUME NEW q \in w.ready PROVE PeerOK(q)'
  BY <1>1, <1>2, <1>3, <1>6, <1>7 DEF WatcherInv, PeerOK
<1>8. PeerOK(p)'
  <2>1. Told(p) = {} /\ Gone(p) = {} /\ MarkedOf(p) = {}
    BY <1>1, <1>2 DEF Told, Gone, MarkedOf, ConnsOK
  <2>2. InFlight(p) = 0
    <3>1. CASE change = << >>
      BY <3>1 DEF InFlight
    <3>2. CASE change # << >>
      <4>1. PICK m \in Messages : change = <<m>> /\ m.peer \in wrapped
        BY <3>2 DEF WatcherInv, ChangeOK
      <4> QED BY <1>1, <4>1 DEF InFlight
    <3> QED BY <3>1, <3>2
  <2>3. w.alive[p] = 0 /\ w.graceful[p] \in Nat
    BY <1>1, <1>2 DEF MapsOK
  <2>4. Cardinality({}) = 0
    BY FS_EmptySet
  <2>5. /\ Told(p)' = {} /\ Gone(p)' = {} /\ MarkedOf(p)' = {}
        /\ InFlight(p)' = 0 /\ Unhandled(p)' = 0
    BY <1>6, <2>1, <2>2 DEF Unhandled
  <2>6. w'.alive[p] + InFlight(p)' = Cardinality(Told(p)')
    BY <1>3, <2>3, <2>4, <2>5
  <2>7. w'.graceful[p] + Cardinality(Gone(p)') >= Cardinality(MarkedOf(p)') + Unhandled(p)'
    BY <1>3, <2>3, <2>4, <2>5
  <2> QED BY <2>6, <2>7 DEF PeerOK
<1>9. w'.ready \subseteq wrapped' /\ wrapped' \subseteq Peers
  BY <1>1, <1>2, <1>3 DEF WatcherInv
<1> QED BY <1>1, <1>3, <1>4, <1>5, <1>7, <1>8, <1>9 DEF WatcherInv

\* The other signals take pools off the list at most.
LEMMA SignalOK ==
    ASSUME WatcherInv, NEW kind \in Signals, kind # "init", NEW p \in Peers,
           HandleSignal(kind, p)
    PROVE  WatcherInv'
<1>1. /\ running /\ w' = OnSignal(w, kind, p) /\ wrapped' = wrapped
      /\ running' = (kind # "stop") /\ stopped' = (kind = "stop")
  BY Zenon DEF HandleSignal, Wrap
<1>2. UNCHANGED <<change, peer, init, shut, fin, heard, unmarked, marked>>
  BY Zenon DEF HandleSignal, conns, ghost
<1>3. MapsOK(w) /\ AttachedOK(w) /\ ConnsOK /\ w.alive \in [Peers -> Nat]
      /\ w.graceful \in [Peers -> Nat] /\ w.ready \subseteq Peers /\ w.ready \subseteq wrapped
  BY DEF WatcherInv, MapsOK, WatcherRec
<1>4. /\ MapsOK(w') /\ AttachedOK(w')
      /\ w'.ready \subseteq w.ready /\ w'.broken \subseteq w.broken
      /\ \A q \in w'.ready : w'.alive[q] = w.alive[q] /\ w'.graceful[q] = w.graceful[q]
  <2>1. PICK t : t = OnSignal(w, kind, p)
    OBVIOUS
  <2>2. ASSUME kind = "uninitialized" PROVE Kept(w, t)
    <3>1. t = OnUninitialized(w, p)
      BY <2>1, <2>2 DEF OnSignal
    <3> QED BY <1>3, <3>1, UninitializedOK, Zenon
  <2>3. ASSUME kind = "initialized" PROVE Kept(w, t)
    <3>1. t = OnInitialized(w, p)
      BY <2>1, <2>3 DEF OnSignal
    <3> QED BY <1>3, <3>1, InitializedOK, Zenon
  <2>4. ASSUME kind = "remove" PROVE Kept(w, t)
    <3>1. t = OnRemove(w, p)
      BY <2>1, <2>4 DEF OnSignal
    <3> QED BY <1>3, <3>1, RemoveOK, Zenon
  <2>5. ASSUME kind = "stop" PROVE Kept(w, t)
    <3>1. t = w
      BY <2>1, <2>5 DEF OnSignal
    <3> QED BY <1>3, <3>1 DEF Kept
  <2>6. Kept(w, t)
    BY <2>2, <2>3, <2>4, <2>5 DEF Signals
  <2>7. w' = t
    BY <1>1, <2>1
  <2> QED BY <2>6, <2>7 DEF Kept
<1>5. ConnsOK' /\ ChangeOK'
  BY <1>1, <1>2, <1>3 DEF ConnsOK, ChangeOK, WatcherInv
<1>6. BrokenIsRude'
  BY <1>2, <1>4 DEF WatcherInv, BrokenIsRude
<1>7. ASSUME NEW q \in w'.ready PROVE PeerOK(q)'
  <2>1. q \in w.ready /\ PeerOK(q)
    BY <1>1, <1>4, <1>7 DEF WatcherInv
  <2>2. /\ Told(q)' = Told(q) /\ Gone(q)' = Gone(q) /\ MarkedOf(q)' = MarkedOf(q)
        /\ InFlight(q)' = InFlight(q) /\ Unhandled(q)' = Unhandled(q)
    BY <1>2 DEF Told, Gone, MarkedOf, InFlight, Unhandled
  <2> QED BY <1>4, <1>7, <2>1, <2>2 DEF PeerOK
<1>8. running' \in BOOLEAN /\ stopped' = ~running'
  BY <1>1, Zenon
<1>9. w'.ready \subseteq wrapped' /\ wrapped' \subseteq Peers
  BY <1>1, <1>3, <1>4 DEF WatcherInv
<1> QED BY <1>4, <1>5, <1>6, <1>7, <1>8, <1>9, Zenon DEF WatcherInv

\* or, once stopped, answers a signal without a look.
LEMMA SkippedOK ==
    ASSUME WatcherInv, NEW kind \in Signals, NEW p \in Peers, SignalSkipped(kind, p)
    PROVE  WatcherInv'
<1>1. /\ stopped /\ wrapped' = (IF kind = "init" THEN wrapped \cup {p} ELSE wrapped)
      /\ UNCHANGED <<w, running, stopped, change, peer, init, shut, fin, heard, unmarked, marked>>
  BY Zenon DEF SignalSkipped, Wrap, conns, ghost
<1>2. wrapped \subseteq wrapped' /\ wrapped' \subseteq Peers
  BY <1>1 DEF WatcherInv
<1>3. ConnsOK'
  BY <1>1, <1>2 DEF WatcherInv, ConnsOK
<1>4. ChangeOK'
  BY <1>1, <1>2 DEF WatcherInv, ChangeOK
<1>5. ~running' /\ BrokenIsRude'
  BY <1>1 DEF WatcherInv, BrokenIsRude
<1> QED BY <1>1, <1>2, <1>3, <1>4, <1>5 DEF WatcherInv

-----------------------------------------------------------------------------

\* The invariant holds in the beginning,
LEMMA WatcherInit == Init => WatcherInv
<1> SUFFICES ASSUME Init PROVE WatcherInv
  OBVIOUS
<1>1. /\ w = [ready |-> {}, alive |-> [p \in Peers |-> 0],
              graceful |-> [p \in Peers |-> 0], broken |-> {}, uninit |-> {},
              attached |-> MinAlivePeers = 0,
              peerAlive |-> 0, peerBroken |-> 0, peerUninit |-> 0]
      /\ running = TRUE /\ stopped = FALSE /\ change = << >> /\ wrapped = {}
      /\ peer = [k \in Conns |-> None] /\ init = [k \in Conns |-> "none"]
      /\ shut = [k \in Conns |-> "none"] /\ fin = [k \in Conns |-> "none"]
      /\ heard = [k \in Conns |-> {}] /\ unmarked = {} /\ marked = {}
  BY Zenon DEF Init
<1>2. Cardinality({}) = 0
  BY FS_EmptySet
<1>3. /\ w \in WatcherRec /\ w.ready = {} /\ w.broken = {} /\ w.uninit = {}
      /\ w.alive = [p \in Peers |-> 0]
      /\ w.peerAlive = 0 /\ w.peerBroken = 0 /\ w.peerUninit = 0
  <2> DEFINE b == MinAlivePeers = 0
             z == [p \in Peers |-> 0]
  <2>1. b \in BOOLEAN /\ z \in [Peers -> Nat]
    OBVIOUS
  <2>2. w = [ready |-> {}, alive |-> z, graceful |-> z, broken |-> {}, uninit |-> {},
             attached |-> b, peerAlive |-> 0, peerBroken |-> 0, peerUninit |-> 0]
    BY <1>1, Zenon
  <2> HIDE DEF b, z
  <2>3. /\ w \in WatcherRec /\ w.ready = {} /\ w.broken = {} /\ w.uninit = {}
        /\ w.alive = z
        /\ w.peerAlive = 0 /\ w.peerBroken = 0 /\ w.peerUninit = 0
    BY <2>1, <2>2 DEF WatcherRec
  <2> QED BY <2>3 DEF z
<1>4. MapsOK(w)
  <2>1. AliveOf(w) = {}
    BY <1>3 DEF AliveOf
  <2> QED BY <1>2, <1>3, <2>1 DEF MapsOK
<1>5. AttachedOK(w)
  <2>1. w.attached => MinAlivePeers = 0
    BY <1>1, Zenon
  <2> QED BY <1>3, <2>1 DEF AttachedOK
<1>6. ConnsOK /\ ChangeOK /\ BrokenIsRude
  BY <1>1, <1>3 DEF ConnsOK, ChangeOK, BrokenIsRude
<1> QED BY <1>1, <1>3, <1>4, <1>5, <1>6 DEF WatcherInv

\* is kept by each step,
LEMMA WatcherStep == WatcherInv /\ [Next]_vars => WatcherInv'
<1> SUFFICES ASSUME WatcherInv, [Next]_vars PROVE WatcherInv'
  OBVIOUS
<1>1. CASE HandleChange
  BY <1>1, HandleChangeOK
<1>2. ASSUME NEW kind \in Signals, NEW p \in Peers, HandleSignal(kind, p) PROVE WatcherInv'
  <2>1. CASE kind = "init"
    BY <1>2, <2>1, SignalInitOK
  <2>2. CASE kind # "init"
    BY <1>2, <2>2, SignalOK
  <2> QED BY <2>1, <2>2
<1>3. ASSUME NEW kind \in Signals, NEW p \in Peers, SignalSkipped(kind, p) PROVE WatcherInv'
  BY <1>3, SkippedOK
<1>4. ASSUME NEW p \in Peers, NEW k \in Conns, Dial(p, k) PROVE WatcherInv'
  BY <1>4, DialOK
<1>5. ASSUME NEW k \in Conns, Calling(k) PROVE WatcherInv'
  BY <1>5, InitHookOK, InitLookOK, InitSendOK, InitListenOK, ShutdownOK, DropLookOK, DropSendOK,
     Zenon DEF Calling
<1>6. ASSUME NEW k \in Conns, HandleShutdown(k) PROVE WatcherInv'
  BY <1>6, HandleShutdownOK
<1>7. ASSUME NEW k \in Conns, Shutdown(k) PROVE WatcherInv'
  BY <1>7, ShutdownOK
<1>8. ASSUME NEW k \in Conns, Drop(k) PROVE WatcherInv'
  BY <1>8, DropOK
<1>9. CASE UNCHANGED vars
  <2>1. UNCHANGED <<w, running, stopped, change, wrapped, peer, init, shut, fin, heard,
                    unmarked, marked>>
    BY <1>9, Zenon DEF vars, conns, ghost
  <2>2. ConnsOK'
    BY <2>1 DEF WatcherInv, ConnsOK
  <2>3. \A k \in Conns : /\ peer'[k] = peer[k] /\ IsTold(k)' = IsTold(k)
                         /\ IsGone(k)' = IsGone(k)
    BY <2>1 DEF IsTold, IsGone
  <2> QED BY <2>1, <2>2, <2>3, Unnoticed
<1> QED BY <1>1, <1>2, <1>3, <1>4, <1>5, <1>6, <1>7, <1>8, <1>9, Zenon DEF Next

\* and so holds always.
LEMMA WatcherInvariant == Spec => []WatcherInv
  BY WatcherInit, WatcherStep, PTL DEF Spec

-----------------------------------------------------------------------------
(* What the watcher promises *)

\* The counters of the watcher agree with its maps, and until it stops the map of
\* alive connections agrees with the connections whose hooks told of themselves,
\* but for the one whose news is on its way (watch.go:241-243).
THEOREM CountersAgreeHolds == Spec => []CountersAgree
<1>1. WatcherInv => CountersAgree
  BY DEF WatcherInv, MapsOK, AliveOf, PeerOK, CountersAgree
<1> QED BY <1>1, WatcherInvariant, PTL

\* A cluster is attached only with enough alive peers, none of them uninitialized
\* and, under StrictGraceful, none that lost its last connection rudely, in any
\* order of connections, closures, marks and calls of the owner.
THEOREM AttachedIsHealthyHolds == Spec => []AttachedIsHealthy
<1>1. WatcherInv => AttachedIsHealthy
  BY Zenon DEF WatcherInv, AttachedOK, AttachedIsHealthy
<1> QED BY <1>1, WatcherInvariant, PTL

\* The marks cover the announced closures but for those that unannounced closures of
\* the same pool have used up: |Gone| and |MarkedOf| have their meet in common.
LEMMA MarksKeptOK == WatcherInv => MarksKept
<1> SUFFICES ASSUME WatcherInv, running, NEW p \in w.ready
             PROVE  w.graceful[p] + Cardinality(Gone(p) \ marked)
                        >= Cardinality(MarkedOf(p) \ Gone(p)) + Unhandled(p)
  BY DEF MarksKept
<1>1. PeerOK(p) /\ w.graceful[p] \in Nat
  BY DEF WatcherInv, MapsOK, WatcherRec
<1>2. Gone(p) \in SUBSET Conns /\ MarkedOf(p) \in SUBSET Conns
  BY DEF WatcherInv, ConnsOK, Gone, MarkedOf
<1>3. IsFiniteSet(Gone(p)) /\ IsFiniteSet(MarkedOf(p))
  BY <1>2, ConnsFinite, Zenon
<1>4. /\ Cardinality(Gone(p)) \in Nat /\ Cardinality(MarkedOf(p)) \in Nat
      /\ Cardinality(Gone(p) \cap MarkedOf(p)) \in Nat
  BY <1>3, FS_CardinalityType, FS_Intersection
<1>5. /\ Cardinality(Gone(p) \ MarkedOf(p))
            = Cardinality(Gone(p)) - Cardinality(Gone(p) \cap MarkedOf(p))
      /\ Cardinality(MarkedOf(p) \ Gone(p))
            = Cardinality(MarkedOf(p)) - Cardinality(MarkedOf(p) \cap Gone(p))
  BY <1>3, FS_Difference
<1>6. Gone(p) \ marked = Gone(p) \ MarkedOf(p) /\ MarkedOf(p) \cap Gone(p) = Gone(p) \cap MarkedOf(p)
  BY DEF Gone, MarkedOf
<1>7. Unhandled(p) \in {0, 1}
  BY DEF Unhandled
<1>8. w.graceful[p] + Cardinality(Gone(p)) >= Cardinality(MarkedOf(p)) + Unhandled(p)
  BY <1>1, Zenon DEF PeerOK
<1>9. w.graceful[p] + Cardinality(Gone(p) \ MarkedOf(p))
          >= Cardinality(MarkedOf(p) \ Gone(p)) + Unhandled(p)
  <2>1. Cardinality(MarkedOf(p) \cap Gone(p)) = Cardinality(Gone(p) \cap MarkedOf(p))
    BY <1>6, Zenon
  <2> QED BY <1>1, <1>4, <1>5, <1>7, <1>8, <2>1
<1> QED BY <1>6, <1>9, Zenon

\* A pool all of whose closures were announced by Shutdown is never broken; and a mark
\* that the watcher has counted waits for a closure of its pool, unless an unannounced
\* closure of the same pool has used it up (watch.go:352-359, 418-427).
THEOREM BrokenHasCauseHolds == Spec => []BrokenHasCause
<1>1. WatcherInv => BrokenHasCause
  BY MarksKeptOK DEF WatcherInv, BrokenHasCause
<1> QED BY <1>1, WatcherInvariant, PTL
=============================================================================
