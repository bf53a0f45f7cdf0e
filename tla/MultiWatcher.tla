---------------------------- MODULE MultiWatcher ----------------------------
(***************************************************************************)
(* The watcher of several pools of pkg/iproto/iproto/watch.go: one         *)
(* goroutine that counts the connections of its peers and calls OnAttached *)
(* and OnDetached, and the functions that tell it of changes: the hooks    *)
(* that Watch and NotifyPoolChangeWith put into Channel.Init, the          *)
(* callbacks of Shutdown and of the close of a channel, and the owner.     *)
(*                                                                         *)
(* The watcher takes every message but those of w.change by a rendezvous;  *)
(* w.change has room for one.  Channel.cb, which Init, Shutdown and the    *)
(* close hold while they run their callbacks, orders the goroutines of one *)
(* connection.                                                             *)
(***************************************************************************)
EXTENDS Integers, Sequences, FiniteSets

CONSTANTS
    Peers,          \* the pools
    Conns,          \* bound: the connections that the pools establish
    MinAlivePeers,
    StrictGraceful,
    None

ASSUME WatcherAssumption ==
    /\ IsFiniteSet(Peers) /\ IsFiniteSet(Conns)
    /\ MinAlivePeers \in Nat
    /\ StrictGraceful \in BOOLEAN
    /\ None \notin Peers

VARIABLES
    w,        \* the local variables of the goroutine watcher()
    running,  \* whether watcher() is in its loop
    stopped,  \* whether the handle's stop channel is closed
    change,   \* w.change
    wrapped,  \* peers whose config.Init NotifyPoolChangeWith has wrapped
    peer,     \* connections: the pool, None before it is dialed
    init,     \* connections: where Channel.Init is
    shut,     \* connections: where Channel.Shutdown is
    fin,      \* connections: where the goroutine of Drop is
    heard,    \* connections: OnShutdown ("s") and OnClose ("c") registered
    unmarked, \* history: connections closed before a handled mark of their own
    marked    \* history: connections whose Shutdown callback was handled

conns == <<peer, init, shut, fin, heard>>
ghost == <<unmarked, marked>>
vars  == <<w, running, stopped, change, wrapped, conns, ghost>>

Signals == {"init", "uninitialized", "initialized", "remove", "stop"}

-----------------------------------------------------------------------------
(* The handlers of watcher(), as functions of its local variables *)

Healthy(s) ==
    /\ s.peerAlive >= MinAlivePeers
    /\ StrictGraceful => s.peerBroken = 0
    /\ s.peerUninit = 0

\* handleChange, Conn = 1: a new connection takes the broken mark away.
Opened(s, p) ==
    [s EXCEPT !.alive[p]   = @ + 1,
              !.peerAlive  = IF s.alive[p] = 0 THEN @ + 1 ELSE @,
              !.broken     = @ \ {p},
              !.peerBroken = IF p \in s.broken THEN @ - 1 ELSE @]

\* handleChange, Conn = -1: a closure nobody announced breaks the peer.
Closed(s, p) ==
    [s EXCEPT !.alive[p]    = @ - 1,
              !.peerAlive   = IF s.alive[p] = 1 THEN @ - 1 ELSE @,
              !.graceful[p] = IF @ = 0 THEN 0 ELSE @ - 1,
              !.broken      = IF s.graceful[p] = 0 THEN @ \cup {p} ELSE @,
              !.peerBroken  = IF s.graceful[p] = 0 /\ p \notin s.broken
                              THEN @ + 1 ELSE @]

\* Mutant of AfterOpen: the peers marked as not initialized are forgotten.
AfterOpenUninit(s, p) ==
    [s EXCEPT !.attached =
        @ \/ /\ s.alive[p] = 1 /\ s.peerAlive >= MinAlivePeers
             /\ StrictGraceful => s.peerBroken = 0]

\* The last switch of handleChange.  Only the first connection of a peer
\* attaches, only its last one detaches.
AfterOpen(s, p) == [s EXCEPT !.attached = @ \/ (s.alive[p] = 1 /\ Healthy(s))]

AfterClose(s, p) ==
    [s EXCEPT !.attached =
        @ /\ (s.alive[p] = 0 => /\ ~(StrictGraceful /\ p \in s.broken)
                                /\ s.peerAlive >= MinAlivePeers)]

OnChange(s, c) ==
    IF c.peer \notin s.ready THEN s
    ELSE IF c.conn = 1 THEN AfterOpen(Opened(s, c.peer), c.peer)
    ELSE AfterClose(Closed(s, c.peer), c.peer)

OnShutdownMark(s, p) == [s EXCEPT !.graceful[p] = @ + 1]

OnInit(s, p) == [s EXCEPT !.ready = @ \cup {p}]

\* Mutant of OnRemove: the broken peer stays counted.
OnRemoveKeepsBroken(s, p) ==
    IF p \notin s.ready THEN s ELSE
    LET t == [s EXCEPT !.peerAlive   = IF s.alive[p] > 0 THEN @ - 1 ELSE @,
                       !.peerUninit  = IF p \in s.uninit THEN @ - 1 ELSE @,
                       !.ready       = @ \ {p},
                       !.alive[p]    = 0,
                       !.graceful[p] = 0,
                       !.broken      = @ \ {p},
                       !.uninit      = @ \ {p}]
    IN [t EXCEPT !.attached = IF @ THEN t.peerAlive >= MinAlivePeers
                                   ELSE Healthy(t)]

\* handleRemove: the peer leaves every map and every counter.
OnRemove(s, p) ==
    IF p \notin s.ready THEN s ELSE
    LET t == [s EXCEPT !.peerAlive   = IF s.alive[p] > 0 THEN @ - 1 ELSE @,
                       !.peerBroken  = IF p \in s.broken THEN @ - 1 ELSE @,
                       !.peerUninit  = IF p \in s.uninit THEN @ - 1 ELSE @,
                       !.ready       = @ \ {p},
                       !.alive[p]    = 0,
                       !.graceful[p] = 0,
                       !.broken      = @ \ {p},
                       !.uninit      = @ \ {p}]
    IN [t EXCEPT !.attached = IF @ THEN t.peerAlive >= MinAlivePeers
                                   ELSE Healthy(t)]

OnUninitialized(s, p) ==
    IF p \notin s.ready \/ p \in s.uninit THEN s
    ELSE [s EXCEPT !.uninit     = @ \cup {p},
                   !.peerUninit = @ + 1,
                   !.attached   = FALSE]

\* handleInitialized does not look at ready, nor at attached.
OnInitialized(s, p) ==
    IF p \notin s.uninit THEN s ELSE
    LET t == [s EXCEPT !.uninit = @ \ {p}, !.peerUninit = @ - 1]
    IN [t EXCEPT !.attached = @ \/ Healthy(t)]

OnSignal(s, kind, p) ==
    CASE kind = "init"          -> OnInit(s, p)
      [] kind = "uninitialized" -> OnUninitialized(s, p)
      [] kind = "initialized"   -> OnInitialized(s, p)
      [] kind = "remove"        -> OnRemove(s, p)
      [] kind = "stop"          -> s

-----------------------------------------------------------------------------
(* The owner: Watch, MarkNotInitialized, MarkInitialized, Remove, Stop *)

\* Each of them is a signalAndWait, which returns once the watcher has handled
\* the signal or the handle is stopped: a call is one step.  Watch goes on with
\* NotifyPoolChangeWith.  A pool is watched once, not initialized (watch.go:47);
\* pools are watched in the order of their names, which are theirs to choose.
MayAsk(kind, p) ==
    CASE kind = "init" -> p \notin wrapped /\ p = CHOOSE q \in Peers : q \notin wrapped
      [] kind = "stop" -> TRUE
      [] OTHER         -> p \in wrapped

Wrap(kind, p) ==
    wrapped' = IF kind = "init" THEN wrapped \cup {p} ELSE wrapped

\* One iteration of watcher() with a signal of the owner.
HandleSignal(kind, p) ==
    /\ running /\ MayAsk(kind, p)
    /\ w' = OnSignal(w, kind, p)
    /\ running' = (kind # "stop")
    /\ stopped' = (kind = "stop")
    /\ Wrap(kind, p)
    /\ UNCHANGED <<change, conns, ghost>>

SignalSkipped(kind, p) ==
    /\ stopped /\ MayAsk(kind, p)
    /\ Wrap(kind, p)
    /\ UNCHANGED <<w, running, stopped, change, conns, ghost>>

\* handleChange.
HandleChange ==
    /\ running /\ change # << >>
    /\ w' = OnChange(w, Head(change))
    /\ change' = Tail(change)
    /\ UNCHANGED <<running, stopped, wrapped, conns, ghost>>

-----------------------------------------------------------------------------
(* A connection: Init, Shutdown and Drop of its channel, with the hooks *)

\* Whether Channel.cb is free.
CbFree(k) ==
    /\ init[k] \notin {"hook", "look", "send", "listen"}
    /\ shut[k] # "signal"
    /\ fin[k] # "send"

\* Channel.stopped and Channel.dropped.
Stopped(k) == shut[k] # "none" \/ fin[k] # "none"
Dropped(k) == fin[k] # "none"

\* A dial of pool p succeeds and Channel.Init begins; names are taken in turn.
Dial(p, k) ==
    /\ p \in wrapped /\ peer[k] = None
    /\ k = CHOOSE j \in Conns : peer[j] = None
    /\ peer' = [peer EXCEPT ![k] = p]
    /\ init' = [init EXCEPT ![k] = "hook"]
    /\ UNCHANGED <<w, running, stopped, change, wrapped, shut, fin, heard, ghost>>

\* The hook of Watch: OnShutdown, which a stopped channel ignores.  The user's
\* own Init may fail: then nothing is told of the connection.
InitHook(k) ==
    /\ init[k] = "hook"
    /\ heard' = [heard EXCEPT ![k] = IF Stopped(k) THEN @ ELSE @ \cup {"s"}]
    /\ \/ init' = [init EXCEPT ![k] = "look"] /\ UNCHANGED fin
       \/ /\ init' = [init EXCEPT ![k] = "failed"]
          /\ fin' = [fin EXCEPT ![k] = IF @ = "none" THEN "gone" ELSE @]
    /\ UNCHANGED <<w, running, stopped, change, wrapped, peer, shut, ghost>>

\* notify(1) looks at Stopped, then sends.
InitLook(k) ==
    /\ init[k] = "look"
    /\ init' = [init EXCEPT ![k] = IF stopped THEN "listen" ELSE "send"]
    /\ UNCHANGED <<w, running, stopped, change, wrapped, peer, shut, fin, heard, ghost>>

InitSend(k) ==
    /\ init[k] = "send" /\ change = << >>
    /\ change' = <<[peer |-> peer[k], conn |-> 1]>>
    /\ init' = [init EXCEPT ![k] = "listen"]
    /\ UNCHANGED <<w, running, stopped, wrapped, peer, shut, fin, heard, ghost>>

\* Mutant of InitListen: a channel dropped meanwhile does not call it.
InitListenLate(k) ==
    /\ init[k] = "listen"
    /\ init' = [init EXCEPT ![k] = "ready"]
    /\ heard' = [heard EXCEPT ![k] = @ \cup {"c"}]
    /\ UNCHANGED <<w, running, stopped, change, wrapped, peer, shut, fin, ghost>>

\* conn.OnClose: a dropped channel calls it as soon as cb is free.
InitListen(k) ==
    /\ init[k] = "listen"
    /\ init' = [init EXCEPT ![k] = "ready"]
    /\ heard' = [heard EXCEPT ![k] = @ \cup {"c"}]
    /\ fin' = [fin EXCEPT ![k] = IF @ = "none" THEN @ ELSE "lock"]
    /\ UNCHANGED <<w, running, stopped, change, wrapped, peer, shut, ghost>>

\* Mutant of ShutdownLock: the callback does not wait for an answer.
ShutdownLockOnly(k) ==
    /\ shut[k] = "lock" /\ CbFree(k)
    /\ shut' = [shut EXCEPT ![k] = "wait"]
    /\ marked' = marked \cup {k}
    /\ UNCHANGED <<w, running, stopped, change, wrapped, peer, init, fin, heard, unmarked>>

\* Channel.Shutdown takes the callbacks.
Shutdown(k) ==
    /\ peer[k] # None /\ ~Stopped(k)
    /\ shut' = [shut EXCEPT ![k] = IF "s" \in heard[k] THEN "lock" ELSE "wait"]
    /\ UNCHANGED <<w, running, stopped, change, wrapped, peer, init, fin, heard, ghost>>

ShutdownLock(k) ==
    /\ shut[k] = "lock" /\ CbFree(k)
    /\ shut' = [shut EXCEPT ![k] = "signal"]
    /\ UNCHANGED <<w, running, stopped, change, wrapped, peer, init, fin, heard, ghost>>

\* Mutant of HandleShutdown: the answer is not given.
HandleShutdownMute(k) ==
    /\ running /\ shut[k] = "signal" /\ k \notin marked
    /\ w' = OnShutdownMark(w, peer[k])
    /\ marked' = marked \cup {k}
    /\ UNCHANGED <<running, stopped, change, wrapped, conns, unmarked>>

\* handleShutdown, and signalAndWait returns.
HandleShutdown(k) ==
    /\ running /\ shut[k] = "signal"
    /\ w' = OnShutdownMark(w, peer[k])
    /\ shut' = [shut EXCEPT ![k] = "wait"]
    /\ marked' = marked \cup {k}
    /\ UNCHANGED <<running, stopped, change, wrapped, peer, init, fin, heard, unmarked>>

ShutdownSkipped(k) ==
    /\ stopped /\ shut[k] = "signal"
    /\ shut' = [shut EXCEPT ![k] = "wait"]
    /\ UNCHANGED <<w, running, stopped, change, wrapped, peer, init, fin, heard, ghost>>

\* Drop, by Close or by a failure at any time, and at the end of Shutdown.
Drop(k) ==
    /\ peer[k] # None /\ ~Dropped(k)
    /\ fin' = [fin EXCEPT ![k] = IF "c" \in heard[k] THEN "lock" ELSE "gone"]
    /\ UNCHANGED <<w, running, stopped, change, wrapped, peer, init, shut, heard, ghost>>

\* notify(-1) under cb: it looks at Stopped, then sends.
DropLook(k) ==
    /\ fin[k] = "lock" /\ CbFree(k)
    /\ fin' = [fin EXCEPT ![k] = IF stopped THEN "gone" ELSE "send"]
    /\ unmarked' = IF k \in marked THEN unmarked ELSE unmarked \cup {k}
    /\ UNCHANGED <<w, running, stopped, change, wrapped, peer, init, shut, heard, marked>>

DropSend(k) ==
    /\ fin[k] = "send" /\ change = << >>
    /\ change' = <<[peer |-> peer[k], conn |-> -1]>>
    /\ fin' = [fin EXCEPT ![k] = "gone"]
    /\ UNCHANGED <<w, running, stopped, wrapped, peer, init, shut, heard, ghost>>

-----------------------------------------------------------------------------
Init ==
    /\ w = [ready |-> {}, alive |-> [p \in Peers |-> 0],
            graceful |-> [p \in Peers |-> 0], broken |-> {}, uninit |-> {},
            attached |-> MinAlivePeers = 0,
            peerAlive |-> 0, peerBroken |-> 0, peerUninit |-> 0]
    /\ running = TRUE /\ stopped = FALSE
    /\ change = << >>
    /\ wrapped = {}
    /\ peer = [k \in Conns |-> None]
    /\ init = [k \in Conns |-> "none"]
    /\ shut = [k \in Conns |-> "none"]
    /\ fin = [k \in Conns |-> "none"]
    /\ heard = [k \in Conns |-> {}]
    /\ unmarked = {} /\ marked = {}

Calling(k) ==
    \/ InitHook(k) \/ InitLook(k) \/ InitSend(k) \/ InitListen(k)
    \/ ShutdownLock(k) \/ ShutdownSkipped(k)
    \/ DropLook(k) \/ DropSend(k)

Next ==
    \/ HandleChange
    \/ \E kind \in Signals, p \in Peers : HandleSignal(kind, p) \/ SignalSkipped(kind, p)
    \/ \E p \in Peers, k \in Conns : Dial(p, k)
    \/ \E k \in Conns : Calling(k) \/ HandleShutdown(k) \/ Shutdown(k) \/ Drop(k)

Spec == Init /\ [][Next]_vars

-----------------------------------------------------------------------------
(* Properties *)

TypeOK ==
    /\ w \in [ready : SUBSET Peers, alive : [Peers -> Nat],
              graceful : [Peers -> Nat], broken : SUBSET Peers,
              uninit : SUBSET Peers, attached : BOOLEAN,
              peerAlive : Int, peerBroken : Int, peerUninit : Int]
    /\ running \in BOOLEAN /\ stopped = ~running
    /\ change \in Seq([peer : Peers, conn : {1, -1}]) /\ Len(change) <= 1
    /\ wrapped \subseteq Peers
    /\ peer \in [Conns -> Peers \cup {None}]
    /\ init \in [Conns -> {"none", "hook", "look", "send", "listen", "ready", "failed"}]
    /\ shut \in [Conns -> {"none", "lock", "signal", "wait"}]
    /\ fin \in [Conns -> {"none", "lock", "send", "gone"}]
    /\ heard \in [Conns -> SUBSET {"s", "c"}]
    /\ unmarked \subseteq Conns /\ marked \subseteq Conns

\* What the watcher itself keeps: a cluster is attached only with enough alive
\* peers, no uninitialized one and, under StrictGraceful, no peer that lost its
\* LAST connection rudely (handleChange detaches at the last closure only,
\* watch.go:361-376; "some peer is still has no alive connections and some of its
\* connections were not closed gracefully", watch.go:404-406).
AttachedIsHealthy ==
    w.attached => /\ w.peerAlive >= MinAlivePeers
                  /\ w.uninit = {}
                  /\ StrictGraceful => \A p \in w.broken : w.alive[p] > 0

\* What the doc of MultiWatcher says of StrictGraceful: "Non-graceful closure of the
\* connection leads to OnDetached() call.  After non-graceful peer reestablished
\* connection, OnAttached will be called" (watch.go:143-146).
RudeClosureDetaches ==
    w.attached /\ StrictGraceful => w.broken = {}

\* Connections that notify(1) has told of and notify(-1) has not.
Told(p) ==
    {k \in Conns : /\ peer[k] = p
                   /\ init[k] \in {"listen", "ready"}
                   /\ fin[k] # "gone" \/ "c" \notin heard[k]}

InFlight(p) ==
    IF change = << >> \/ Head(change).peer # p THEN 0 ELSE Head(change).conn

\* The connections whose closure notify(-1) has told of, those whose mark
\* handleShutdown has counted, and the closure that is still to be handled.
Gone(p) == {k \in Conns : peer[k] = p /\ fin[k] = "gone" /\ "c" \in heard[k]}
MarkedOf(p) == {k \in marked : peer[k] = p}
Unhandled(p) == IF InFlight(p) = -1 THEN 1 ELSE 0

\* Only a pool with a closure that was told before a mark of its own is broken.
BrokenIsRude ==
    \A p \in w.broken : \E k \in unmarked : peer[k] = p

\* The marks of a pool are not lost: each marked connection that the watcher has not
\* seen closed has a mark of its pool waiting for it, except for one that each
\* unmarked closure of the same pool may have used up (watch.go:352-359).
MarksKept ==
    running => \A p \in w.ready :
        w.graceful[p] + Cardinality(Gone(p) \ marked)
            >= Cardinality(MarkedOf(p) \ Gone(p)) + Unhandled(p)

\* Closures that Shutdown announced are told apart from rude ones, as far as one
\* count for each pool can do it (watch.go:418-427): a pool all of whose closures
\* were announced is never broken, and of a pool with rude ones as many announced
\* closures at most count as rude.
BrokenHasCause == BrokenIsRude /\ MarksKept

\* What the comment at watch.go:418-427 wants of each closure: a connection that
\* was marked finds a mark when it closes.
MarksWait ==
    running => \A k \in marked :
        peer[k] \in w.ready /\ fin[k] # "gone" => w.graceful[peer[k]] > 0

\* The three counters agree with the maps they summarize (watch.go:241-243), and
\* the map of alive connections with the channels: until the watcher stops, the
\* count of a watched peer and what is on its way make the connections that were
\* told of, so that none is counted twice or forgotten.
CountersAgree ==
    /\ w.peerAlive = Cardinality({p \in Peers : w.alive[p] > 0})
    /\ w.peerBroken = Cardinality(w.broken)
    /\ w.peerUninit = Cardinality(w.uninit)
    /\ running => \A p \in w.ready :
          w.alive[p] + InFlight(p) = Cardinality(Told(p))

\* "OnAttached is called when cluster get enough alive peers with no any
\* broken or uninitialized peer" (watch.go:165-166).
HealthyIsAttached ==
    running /\ Healthy(w) => w.attached

LiveSpec ==
    /\ Spec
    /\ WF_vars(HandleChange)
    /\ \A k \in Conns : WF_vars(HandleShutdown(k)) /\ WF_vars(Calling(k))

\* Until Stop, the hooks get rid of their news, so that Init and the close of a
\* channel return, and no Shutdown is held up by its callback or by theirs
\* (watch.go:186-187, 276-287).
NewsGoOn ==
    \A k \in Conns :
        /\ "send" \in {init[k], fin[k]} ~> "send" \notin {init[k], fin[k]} \/ stopped
        /\ shut[k] # "none" ~> shut[k] = "wait" \/ stopped

\* What watch.go:186-187 says of a stopped watcher, of Shutdown as a whole: "avoid
\* deadlocks on signalAndWait() calls on stopped watcher".
ShutdownGoesOn == \A k \in Conns : shut[k] # "none" ~> shut[k] = "wait"
=============================================================================
