------------------------------ MODULE ConnPool ------------------------------
(***************************************************************************)
(* The pool of connections of pkg/iproto/iproto/pool.go: callers that look *)
(* for a channel, the background dial (netutil/dialer.go glued by          *)
(* syncutil/taskrunner.go), StoreConn, the removal of channels that end,   *)
(* Shutdown and Close.                                                     *)
(*                                                                         *)
(* Of a channel the pool sees what ChannelLife says; Channel is shown to   *)
(* implement it.  A connection and the channel made of it have one name.   *)
(* A step ends where another goroutine can see or change what the next one *)
(* uses: a section of p.mu, of the TaskRunner or of the channel, a wait.   *)
(***************************************************************************)
EXTENDS Integers, FiniteSets

CONSTANTS
    Conns,     \* bound: the connections that dials establish
    Provided,  \* those of Pool.connect and of the owner, not of the task
    Callers,   \* goroutines that run Call, Notify or Send once
    Closers,   \* goroutines that run Shutdown or Close once
    Shutters,  \* those of them that run Shutdown
    Size,      \* PoolConfig.Size
    Configs,   \* what the rest of the PoolConfig may be
    None

ASSUME ConnPoolAssumption ==
    /\ IsFiniteSet(Conns)
    /\ Size \in Nat \ {0}
    /\ Provided \subseteq Conns /\ Shutters \subseteq Closers
    /\ Configs \subseteq [FailOnCutoff : BOOLEAN, DisablePreDial : BOOLEAN]
    /\ None \notin Conns \cup {"answer", "ErrStopped"}

VARIABLES
    config,       \* p.config, that no step changes
    stopped, closed, done, \* p.stopped, p.closed, whether p.done is closed
    online,       \* p.online (the round robin may pick any member)
    ch,           \* channels: their life, "none" before NewChannel
    store,        \* connections: where StoreConn is
    cb,           \* channels: the callback that removes it from the pool
    task,         \* the task of the TaskRunner: "none" when rcvrs is nil
    held,         \* the connection that the task stores
    cancelled,    \* whether the context of the task is cancelled while it dials
    rcvrs,        \* the callers subscribed to the task
    pc, res,      \* callers: program counter, result ("answer" or "ErrStopped")
    got, full,    \* callers: the channel picked, its local poolFull
    dialed,       \* the callers that a result has been sent to
    sent,         \* history: on how many channels the packet was sent
    cpc, list     \* closers: program counter, the channels it has taken and stops

pool   == <<config, stopped, closed, done, online>>
chans  == <<ch, store, cb>>
dial   == <<task, held, cancelled, rcvrs>>
caller == <<pc, res, got, full, dialed, sent>>
closer == <<cpc, list>>
vars   == <<pool, chans, dial, caller, closer>>

Ended(k) == ch[k] \notin {"none", "open"}

-----------------------------------------------------------------------------
(* The background dial *)

\* BackgroundDialer.Dial through TaskRunner.Do: it starts a task or joins the
\* one that runs.  (The throttle may refuse: then nothing changes.)
DialTask(join) ==
    /\ task' = IF task = "none" THEN "dialing" ELSE task
    /\ rcvrs' = rcvrs \cup join
    /\ UNCHANGED <<held, cancelled>>

DialBackground == DialTask({}) \/ UNCHANGED dial

\* StoreConn begins: NewChannel, OnClose, OnShutdown and the goroutines of
\* Channel.Init.
StoreInit(k) ==
    /\ store[k] = "none"
    /\ store' = [store EXCEPT ![k] = "init"]
    /\ ch' = [ch EXCEPT ![k] = "open"]
    /\ cb' = [cb EXCEPT ![k] = "set"]

\* Dialer.Dial gets a connection, cancelled meanwhile or not.
DialOK(k) ==
    /\ k \notin Provided /\ task = "dialing"
    /\ StoreInit(k)
    /\ task' = "storing"
    /\ held' = k
    /\ cancelled' = FALSE
    /\ UNCHANGED <<pool, rcvrs, caller, closer>>

\* An attempt fails and the loop of Dialer.Dial ends.
DialFails ==
    /\ task = "dialing"
    /\ cancelled \/ done
    /\ task' = "result"
    /\ cancelled' = FALSE
    /\ UNCHANGED <<pool, chans, held, rcvrs, caller, closer>>

\* The callback of Pool.dial has returned from StoreConn.
DialStored ==
    /\ task = "storing" /\ store[held] = "over"
    /\ task' = "result"
    /\ held' = None
    /\ UNCHANGED <<pool, chans, cancelled, rcvrs, caller, closer>>

\* Mutant of Broadcast: the list is reset before it is read.
BroadcastEmpty ==
    /\ task = "result"
    /\ task' = "none"
    /\ rcvrs' = {}
    /\ UNCHANGED <<pool, chans, held, cancelled, caller, closer>>

\* broadcastErr: rcvrs is nil again, and each subscriber gets the result.
Broadcast ==
    /\ task = "result"
    /\ task' = "none"
    /\ rcvrs' = {}
    /\ dialed' = dialed \cup rcvrs
    /\ UNCHANGED <<pool, chans, held, cancelled, pc, res, got, full, sent, closer>>

\* The timer of BackgroundDialer.deadline, or CancelDial.
CancelDial ==
    /\ task = "dialing" /\ ~cancelled
    /\ cancelled' = TRUE
    /\ UNCHANGED <<pool, chans, task, held, rcvrs, caller, closer>>

-----------------------------------------------------------------------------
(* StoreConn, for the task, for connect or for the owner *)

\* Pool.connect has dialed, or the owner calls StoreConn.
Provide(k) ==
    /\ k \in Provided
    /\ StoreInit(k)
    /\ UNCHANGED <<pool, dial, caller, closer>>

\* Channel.Init returns; it may fail by itself, and fails when the channel was
\* stopped meanwhile.
StoreReady(k) ==
    /\ store[k] = "init"
    /\ \/ store' = [store EXCEPT ![k] = "refused"]
       \/ ~Ended(k) /\ store' = [store EXCEPT ![k] = "ready"]
    /\ UNCHANGED <<pool, ch, cb, dial, caller, closer>>

\* Mutant of StoreAppend: the limit is off by one.
StoreOverfull(k) ==
    /\ store[k] = "ready"
    /\ IF stopped \/ Cardinality(online) > Size
       THEN store' = [store EXCEPT ![k] = "refused"] /\ UNCHANGED online
       ELSE store' = [store EXCEPT ![k] = "over"] /\ online' = online \cup {k}
    /\ UNCHANGED <<config, stopped, closed, done, ch, cb, dial, caller, closer>>

\* Mutant of StoreAppend: the section does not look at p.stopped.
StoreAlways(k) ==
    /\ store[k] = "ready"
    /\ IF Cardinality(online) = Size
       THEN store' = [store EXCEPT ![k] = "refused"] /\ UNCHANGED online
       ELSE store' = [store EXCEPT ![k] = "over"] /\ online' = online \cup {k}
    /\ UNCHANGED <<config, stopped, closed, done, ch, cb, dial, caller, closer>>

\* The section of p.mu in StoreConn.
StoreAppend(k) ==
    /\ store[k] = "ready"
    /\ IF stopped \/ Cardinality(online) = Size
       THEN store' = [store EXCEPT ![k] = "refused"] /\ UNCHANGED online
       ELSE store' = [store EXCEPT ![k] = "over"] /\ online' = online \cup {k}
    /\ UNCHANGED <<config, stopped, closed, done, ch, cb, dial, caller, closer>>

\* StoreConn fails: ch.Close, that is Drop and a wait for Done.
StoreClosed(k) ==
    /\ store[k] = "refused" /\ ch[k] = "done"
    /\ store' = [store EXCEPT ![k] = "over"]
    /\ UNCHANGED <<pool, ch, cb, dial, caller, closer>>

StoreConn(k) == StoreReady(k) \/ StoreAppend(k) \/ StoreClosed(k)

-----------------------------------------------------------------------------
(* The channels *)

\* Channel.Shutdown begins: the peer's shutdown packet, ShutdownConnections,
\* Hijack.  Its OnShutdown callback is due.
Drain(k) ==
    /\ ch[k] = "open"
    /\ ch' = [ch EXCEPT ![k] = "draining"]
    /\ cb' = [cb EXCEPT ![k] = "due"]
    /\ UNCHANGED <<pool, store, dial, caller, closer>>

\* An error, a timeout, the end of Shutdown, CloseConnections, DropConnections.
Drop(k) ==
    /\ ch[k] \in {"open", "draining"}
    /\ ch' = [ch EXCEPT ![k] = "dropped"]
    /\ UNCHANGED <<pool, store, cb, dial, caller, closer>>

\* Channel.Done is closed and the OnClose callback due, unless the OnShutdown
\* callback, that is the same, was.
ChannelDone(k) ==
    /\ ch[k] = "dropped"
    /\ ch' = [ch EXCEPT ![k] = "done"]
    /\ cb' = [cb EXCEPT ![k] = IF @ = "set" THEN "due" ELSE @]
    /\ UNCHANGED <<pool, store, dial, caller, closer>>

Redials(k) == k \in online /\ ~config.DisablePreDial /\ ~stopped

\* removeChannel called by the callback.
CallbackRemove(k) ==
    /\ cb[k] = "due"
    /\ online' = online \ {k}
    /\ cb' = [cb EXCEPT ![k] = IF Redials(k) THEN "redial" ELSE "over"]
    /\ UNCHANGED <<config, stopped, closed, done, ch, store, dial, caller, closer>>

CallbackRedial(k) ==
    /\ cb[k] = "redial"
    /\ cb' = [cb EXCEPT ![k] = "over"]
    /\ DialBackground
    /\ UNCHANGED <<pool, ch, store, caller, closer>>

Callback(k) == CallbackRemove(k) \/ CallbackRedial(k)

-----------------------------------------------------------------------------
(* Call, Notify, Send: the loop of NextChannel inside the loop of the caller *)

Goto(a, from, to) == pc[a] = from /\ pc' = [pc EXCEPT ![a] = to]

\* The loop begins again or ends: its local variables are of no use any more.
Forget(a) == got' = [got EXCEPT ![a] = None] /\ full' = [full EXCEPT ![a] = FALSE]

Again(a, from) == Goto(a, from, "next") /\ Forget(a) /\ UNCHANGED res

Return(a, from, r) ==
    /\ Goto(a, from, "returned")
    /\ res' = [res EXCEPT ![a] = r]
    /\ Forget(a)

\* The section of p.mu that reads p.stopped and p.online, and the switch.
Look(a) ==
    /\ \/ stopped /\ Return(a, "next", "ErrStopped")
       \/ /\ ~stopped /\ online = {}
          /\ Goto(a, "next", IF config.FailOnCutoff THEN "cutoff" ELSE "dial")
          /\ UNCHANGED <<res, got, full>>
       \/ /\ ~stopped
          /\ \E k \in online : got' = [got EXCEPT ![a] = k]
          /\ full' = [full EXCEPT ![a] = (Cardinality(online) = Size)]
          /\ Goto(a, "next", "picked")
          /\ UNCHANGED res
    /\ UNCHANGED <<pool, chans, dial, dialed, sent, closer>>

\* WriteClosed of the channel picked.
Picked(a) ==
    /\ Goto(a, "picked", IF Ended(got[a]) THEN "remove"
                         ELSE IF full[a] THEN "call" ELSE "more")
    /\ UNCHANGED <<pool, chans, dial, res, got, full, dialed, sent, closer>>

\* Mutant of Remove: only the callback takes the channel from the list.
RemoveNothing(a) ==
    /\ \/ Goto(a, "remove", "again") /\ Redials(got[a]) /\ UNCHANGED <<res, got, full>>
       \/ Again(a, "remove") /\ ~Redials(got[a])
    /\ UNCHANGED <<pool, chans, dial, dialed, sent, closer>>

\* removeChannel called by NextChannel.
Remove(a) ==
    /\ \/ Goto(a, "remove", "again") /\ Redials(got[a]) /\ UNCHANGED <<res, got, full>>
       \/ Again(a, "remove") /\ ~Redials(got[a])
    /\ online' = online \ {got[a]}
    /\ UNCHANGED <<config, stopped, closed, done, chans, dial, dialed, sent, closer>>

\* The three calls of DialBackground: for a pool that is not full, in
\* removeChannel, and before ErrCutoff.
Redial(a) ==
    /\ \/ Goto(a, "more", "call") /\ UNCHANGED <<res, got, full>>
       \/ Again(a, "again")
       \/ Return(a, "cutoff", "answer")
    /\ DialBackground
    /\ UNCHANGED <<pool, chans, dialed, sent, closer>>

\* DialForeground; its deadline or the throttle may refuse.
DialForeground(a) ==
    /\ \/ Goto(a, "dial", "wait") /\ DialTask({a}) /\ UNCHANGED <<res, got, full>>
       \/ Return(a, "dial", "answer") /\ UNCHANGED dial
    /\ UNCHANGED <<pool, chans, dialed, sent, closer>>

WaitDialed(a) ==
    /\ Again(a, "wait")
    /\ a \in dialed
    /\ dialed' = dialed \ {a}
    /\ UNCHANGED <<pool, chans, dial, sent, closer>>

\* The timer of ConnectTimeout, that runs on over the loop, or the context.
\* The result of the dial, before or after, is for nobody.
WaitExpire(a) ==
    /\ Return(a, "wait", "answer")
    /\ dialed' = dialed \ {a}
    /\ rcvrs' = rcvrs \ {a}
    /\ UNCHANGED <<pool, chans, task, held, cancelled, sent, closer>>

\* The channel refuses with ErrStopped: the caller looks for another one.
CallRefused(a) ==
    /\ pc[a] = "call" /\ Ended(got[a])
    /\ Again(a, "call")
    /\ UNCHANGED <<pool, chans, dial, dialed, sent, closer>>

\* The packet is queued.  (A Send may be although the channel has ended.)
CallSend(a) ==
    /\ Goto(a, "call", "sent")
    /\ sent' = [sent EXCEPT ![a] = @ + 1]
    /\ UNCHANGED <<pool, chans, dial, res, got, full, dialed, closer>>

\* Mutant of CallReturn: ErrDroppedConn is taken for ErrStopped.
CallReturnRetries(a) ==
    /\ \/ Return(a, "call", "answer")
       \/ pc[a] = "sent" /\ Ended(got[a]) /\ Again(a, "sent")
       \/ Return(a, "sent", "answer")
    /\ UNCHANGED <<pool, chans, dial, dialed, sent, closer>>

\* The channel's Call, Notify or Send returns with a result that isNoConnError
\* does not retry: ErrTimeout, ErrHijacked or a context's error with the packet
\* not queued, or the response, nil, ErrDroppedConn and the others.
CallReturn(a) ==
    /\ Return(a, "call", "answer") \/ Return(a, "sent", "answer")
    /\ UNCHANGED <<pool, chans, dial, dialed, sent, closer>>

Calling(a) ==
    \/ Look(a) \/ Picked(a) \/ Remove(a) \/ Redial(a) \/ DialForeground(a)
    \/ WaitDialed(a) \/ WaitExpire(a) \/ CallRefused(a) \/ CallSend(a) \/ CallReturn(a)

-----------------------------------------------------------------------------
(* Shutdown and Close *)

Take(x) == list' = [list EXCEPT ![x] = online] /\ online' = {}

ShutdownStart(x) ==
    /\ x \in Shutters /\ cpc[x] = "idle"
    /\ IF stopped
       THEN cpc' = [cpc EXCEPT ![x] = "await"] /\ UNCHANGED <<pool, list>>
       ELSE /\ cpc' = [cpc EXCEPT ![x] = "shutdown"]
            /\ stopped' = TRUE
            /\ Take(x)
            /\ UNCHANGED <<config, closed, done>>
    /\ UNCHANGED <<chans, dial, caller>>

AllDone(x) == \A k \in list[x] : ch[k] = "done"

ShutdownAwait(x) ==
    /\ \/ cpc[x] = "await" /\ done /\ cpc' = [cpc EXCEPT ![x] = "returned"]
       \/ cpc[x] = "shutdown" /\ AllDone(x) /\ cpc' = [cpc EXCEPT ![x] = "close"]
    /\ list' = [list EXCEPT ![x] = {}]
    /\ UNCHANGED <<pool, chans, dial, caller>>

\* Mutant of CloseStart: a pool that is shut down already is not closed.
CloseStartStopped(x) ==
    /\ cpc[x] = IF x \in Shutters THEN "close" ELSE "idle"
    /\ IF stopped
       THEN cpc' = [cpc EXCEPT ![x] = "returned"] /\ UNCHANGED <<pool, list>>
       ELSE /\ cpc' = [cpc EXCEPT ![x] = "cancel"]
            /\ stopped' = TRUE /\ closed' = TRUE
            /\ Take(x)
            /\ UNCHANGED <<config, done>>
    /\ UNCHANGED <<chans, dial, caller>>

\* The section of p.mu in Close, called by the owner or at the end of Shutdown.
CloseStart(x) ==
    /\ cpc[x] = IF x \in Shutters THEN "close" ELSE "idle"
    /\ IF closed
       THEN cpc' = [cpc EXCEPT ![x] = "returned"] /\ UNCHANGED <<pool, list>>
       ELSE /\ cpc' = [cpc EXCEPT ![x] = "cancel"]
            /\ stopped' = TRUE /\ closed' = TRUE
            /\ Take(x)
            /\ UNCHANGED <<config, done>>
    /\ UNCHANGED <<chans, dial, caller>>

CloseCancel(x) ==
    /\ cpc[x] = "cancel"
    /\ cpc' = [cpc EXCEPT ![x] = "closing"]
    /\ cancelled' = (task = "dialing")
    /\ UNCHANGED <<pool, chans, task, held, rcvrs, caller, list>>

CloseDone(x) ==
    /\ cpc[x] = "closing" /\ AllDone(x)
    /\ cpc' = [cpc EXCEPT ![x] = "returned"]
    /\ done' = TRUE
    /\ list' = [list EXCEPT ![x] = {}]
    /\ UNCHANGED <<config, stopped, closed, online, chans, dial, caller>>

Closing(x) ==
    ShutdownStart(x) \/ ShutdownAwait(x) \/ CloseStart(x) \/ CloseCancel(x) \/ CloseDone(x)

\* The goroutines of stopChannels.
ToDrain(k) == \E x \in Closers : cpc[x] = "shutdown" /\ k \in list[x]
ToDrop(k) ==
    \/ ch[k] = "draining" \/ store[k] = "refused"
    \/ \E x \in Closers : cpc[x] = "closing" /\ k \in list[x]

-----------------------------------------------------------------------------
Init ==
    /\ config \in Configs
    /\ stopped = FALSE /\ closed = FALSE /\ done = FALSE /\ online = {}
    /\ ch = [k \in Conns |-> "none"]
    /\ store = [k \in Conns |-> "none"]
    /\ cb = [k \in Conns |-> "none"]
    /\ task = "none" /\ held = None /\ cancelled = FALSE /\ rcvrs = {}
    /\ pc = [a \in Callers |-> "next"]
    /\ res = [a \in Callers |-> None]
    /\ got = [a \in Callers |-> None]
    /\ full = [a \in Callers |-> FALSE]
    /\ dialed = {}
    /\ sent = [a \in Callers |-> 0]
    /\ cpc = [x \in Closers |-> "idle"]
    /\ list = [x \in Closers |-> {}]

Dialing == DialFails \/ DialStored \/ Broadcast

Next ==
    \/ \E k \in Conns : DialOK(k) \/ Provide(k) \/ StoreConn(k)
    \/ \E k \in Conns : Drain(k) \/ Drop(k) \/ ChannelDone(k) \/ Callback(k)
    \/ Dialing \/ CancelDial
    \/ \E a \in Callers : Calling(a)
    \/ \E x \in Closers : Closing(x)

Spec == Init /\ [][Next]_vars

\* The steps of one connection that nobody may put off for ever, finitely many.
Serve(k) ==
    \/ StoreConn(k) \/ Callback(k) \/ ChannelDone(k)
    \/ (ToDrain(k) /\ Drain(k)) \/ (ToDrop(k) /\ Drop(k))

\* Goroutines run; a channel that drains is dropped and done in the end
\* (ChannelLife); a dial may fail for ever.  A caller's timer runs on over its
\* loop and select takes each of its ready cases again and again, so WaitExpire
\* is strongly fair.  Nobody is obliged to call Shutdown or Close.
Fairness ==
    /\ \A k \in Conns : WF_vars(Serve(k))
    /\ WF_vars(Dialing)
    /\ \A a \in Callers : WF_vars(Calling(a)) /\ SF_vars(WaitExpire(a))
    /\ WF_vars(\E x \in Closers : cpc[x] # "idle" /\ Closing(x))

LiveSpec == Spec /\ Fairness

-----------------------------------------------------------------------------
(* Properties *)

\* Every variable has its type; the pool never holds more than Size channels,
\* though dials of connect, of the task and the owner's connections end at once.
TypeOK ==
    /\ config \in Configs
    /\ stopped \in BOOLEAN /\ closed \in BOOLEAN /\ done \in BOOLEAN
    /\ cancelled \in BOOLEAN
    /\ online \subseteq Conns /\ Cardinality(online) <= Size
    /\ ch \in [Conns -> {"none", "open", "draining", "dropped", "done"}]
    /\ store \in [Conns -> {"none", "init", "ready", "refused", "over"}]
    /\ cb \in [Conns -> {"none", "set", "due", "redial", "over"}]
    /\ task \in {"none", "dialing", "storing", "result"}
    /\ held \in Conns \cup {None} /\ rcvrs \subseteq Callers
    /\ pc \in [Callers -> {"next", "picked", "remove", "again", "more", "cutoff", "dial",
                           "wait", "call", "sent", "returned"}]
    /\ res \in [Callers -> {"answer", "ErrStopped", None}]
    /\ got \in [Callers -> Conns \cup {None}]
    /\ full \in [Callers -> BOOLEAN] /\ dialed \subseteq Callers
    /\ sent \in [Callers -> Nat]
    /\ cpc \in [Closers -> {"idle", "await", "shutdown", "close", "cancel", "closing", "returned"}]
    /\ list \in [Closers -> SUBSET Conns]

\* A stopped pool holds no channel, and never again: StoreConn, whose channel
\* Shutdown and Close cannot see, finds the pool stopped.
StoppedIsEmpty == stopped => online = {}

\* The loop over channels never sends a request twice, and a request that ends
\* with ErrStopped was never sent.
SentOnce ==
    \A a \in Callers : sent[a] <= 1 /\ (res[a] = "ErrStopped" => sent[a] = 0)

\* No wake-up is lost: whoever waits in the foreground for a dial, its own or one
\* that it joined at any moment of its life, is on the list of a task that runs,
\* or has been sent the result.
WaitersAreKnown ==
    /\ \A a \in Callers : pc[a] = "wait" => a \in rcvrs \cup dialed
    /\ rcvrs # {} => task # "none"

\* Call, Notify and Send return, though channels end, dials fail and are
\* cancelled under them for ever.
CallsReturn == \A a \in Callers : pc[a] = "next" ~> pc[a] = "returned"

\* Shutdown and Close return, in whatever order they are called, p.done is closed,
\* and nothing leaks: every connection that the stopped pool had, or gets from
\* a dial that was under way, is closed.
StoppedEnds ==
    stopped ~> /\ done
               /\ \A x \in Closers : cpc[x] \in {"idle", "returned"}
               /\ \A k \in Conns : ch[k] \in {"none", "done"}
=============================================================================
