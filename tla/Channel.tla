------------------------------- MODULE Channel -------------------------------
(***************************************************************************)
(* One iproto Channel (pkg/iproto/iproto/channel.go) with the store of     *)
(* pending calls (pending.go): its reader and writer goroutines, the       *)
(* goroutines of its Call, Notify and Send callers, Init, Shutdown, Close, *)
(* Drop and Hijack, and a peer at the other end of the connection.         *)
(*                                                                         *)
(* A step is what one goroutine does between two points at which another   *)
(* one can observe or change what it uses: a mutex section, a channel      *)
(* operation, a read or a write of the connection.  A packet is named by   *)
(* the caller it belongs to: the outgoing packet of sender s is s, the     *)
(* incoming packet c \in Calls is the response to c, the incoming packet   *)
(* r \in Replies is the request that the handler answers with Send.        *)
(***************************************************************************)
EXTENDS Integers, Sequences, FiniteSets

CONSTANTS
    Calls,            \* goroutines that run Channel.Call once
    Notices,          \* goroutines that run Channel.Notify once
    Replies,          \* requests of the peer, each answered with one Send
    Inline,           \* replies sent by the reader itself: ping acks, short handlers
    Watchers,         \* callbacks registered with OnClose
    SHUTDOWN,         \* the packet with the code MessageShutdown
    None,             \* no result, no packet
    WriteQueueSize,   \* ChannelConfig.WriteQueueSize, the capacity of c.out
    DisableShutdown,  \* ChannelConfig.DisableShutdown
    MayHijack,        \* whether somebody calls Hijack
    HasDeadline,      \* whether the connection supports read deadlines
    HasOnShutdown,    \* whether an OnShutdown callback is registered
    PeerShutdowns     \* bound: shutdown packets the peer sends

Senders == Calls \cup Notices \cup Replies

\* What a call or a send ends with; every error but ErrStopped is alike here
\* (ErrTimeout, ErrHijacked, ErrDroppedConn, the context's error).
Results == {"ok", "ErrStopped", "error"}

ASSUME ChannelAssumption ==
    /\ WriteQueueSize \in Nat \ {0}
    /\ PeerShutdowns \in Nat
    /\ DisableShutdown \in BOOLEAN /\ MayHijack \in BOOLEAN
    /\ HasDeadline \in BOOLEAN /\ HasOnShutdown \in BOOLEAN
    /\ Inline \subseteq Replies
    /\ Calls \cap Notices = {} /\ Calls \cap Replies = {} /\ Notices \cap Replies = {}
    /\ {SHUTDOWN, None} \cap Senders = {} /\ SHUTDOWN # None
    /\ None \notin Results

VARIABLES
    stopped, dropped, hijacked, \* c.stopped, c.dropped, c.hijacked
    err,            \* whether c.err is set
    pending,        \* store.hash: the calls that wait for a result
    emptied,        \* the channel that empty() gave to Shutdown
    pc,             \* program counters of the senders
    owed,           \* results taken from the store whose callback has not run yet
    res,            \* results in the callers' channels, or returned
    out,            \* c.out
    accepted,       \* history: packets that entered c.out
    wr, wstop, buf, \* the writer: program counter, its local stopped, its buffers
    wire,           \* calls written to the connection
    stopper,        \* how many times c.stopper was closed
    rd, pkt,        \* the reader: program counter, packet in hand
    hbuf, saved,    \* the reader's hijackBuffer, c.hijackReadBuffer
    in,             \* bytes of the connection not read yet
    ackd,           \* whether c.shutdown holds its one token
    conn,           \* our end of the connection
    peer, shut,     \* the peer's end, shutdown packets it has sent
    answered,       \* requests and responses the peer has sent
    sd, sdHijacked, \* Shutdown: program counter, its local hijacked
    spawned,        \* whether a goroutine is about to call Shutdown
    ini,            \* Init: program counter; "init" while it holds c.cb
    hj,             \* Hijack: program counter
    done,           \* whether c.done is closed
    watch           \* the OnClose callbacks

flags  == <<stopped, dropped, hijacked, err>>
store  == <<pending, emptied>>
caller == <<pc, owed, res>>
queue  == <<out, accepted>>
writer == <<wr, wstop, buf, wire>>
reader == <<rd, pkt, hbuf, saved>>
net    == <<in, peer, shut, answered>>
life   == <<sd, sdHijacked, spawned, ini, hj, done, watch>>
vars   == <<flags, store, caller, queue, writer, stopper, reader, ackd, conn, net, life>>

-----------------------------------------------------------------------------
(* pending.go *)

\* Mutant of Resolve: an entry that is resolved with an error is only deleted.
ResolveForgetsCallback(c, v) ==
    IF c \in pending
    THEN /\ pending' = pending \ {c}
         /\ owed' = [owed EXCEPT ![c] = IF v = "ok" THEN v ELSE None]
         /\ emptied' = IF pending = {c} /\ emptied = "open" THEN "closed" ELSE emptied
    ELSE UNCHANGED <<pending, owed, emptied>>

\* Mutant of Resolve: nobody tells Shutdown that the hash is empty.
ResolveKeepsEmptied(c, v) ==
    /\ pending' = pending \ {c}
    /\ owed' = IF c \in pending THEN [owed EXCEPT ![c] = v] ELSE owed
    /\ UNCHANGED emptied

\* store.resolve up to its Unlock: the entry leaves the hash and its callback
\* is owed to the caller; the first time the hash empties, empty()'s channel
\* is closed.
Resolve(c, v) ==
    IF c \in pending
    THEN /\ pending' = pending \ {c}
         /\ owed' = [owed EXCEPT ![c] = v]
         /\ emptied' = IF pending = {c} /\ emptied = "open" THEN "closed" ELSE emptied
    ELSE UNCHANGED <<pending, owed, emptied>>

\* Mutant of RejectAll: the callbacks are called but the hash is not replaced.
RejectAllKeepsHash(v) ==
    /\ owed' = [c \in Calls |-> IF c \in pending THEN v ELSE owed[c]]
    /\ UNCHANGED <<pending, emptied>>

\* store.rejectAll up to its Unlock.
RejectAll(v) ==
    /\ pending' = {}
    /\ owed' = [c \in Calls |-> IF c \in pending THEN v ELSE owed[c]]
    /\ emptied' = IF pending # {} /\ emptied = "open" THEN "closed" ELSE emptied

\* The callback of a call, run after the store's mutex is released: it puts
\* the result into the caller's channel.
Deliver(c) ==
    /\ owed[c] # None
    /\ res' = [res EXCEPT ![c] = owed[c]]
    /\ owed' = [owed EXCEPT ![c] = None]
    /\ UNCHANGED <<pc, flags, store, queue, writer, stopper, reader, ackd, conn, net, life>>

-----------------------------------------------------------------------------
(* Drop and fatal: one section of c.mu.  e says whether there is a cause to  *)
(* save in c.err.                                                            *)

\* Mutant of DropWith: c.stopper is closed whoever has stopped the channel.
DropClosesStopper(e) ==
    IF dropped
    THEN UNCHANGED <<flags, store, owed, stopper, conn>>
    ELSE /\ dropped' = TRUE
         /\ stopped' = TRUE
         /\ stopper' = stopper + 1
         /\ conn' = IF hijacked /\ HasDeadline THEN "deadline" ELSE "closed"
         /\ err' = (err \/ e \/ (hijacked /\ ~HasDeadline))
         /\ RejectAll("error")
         /\ UNCHANGED hijacked

DropWith(e) ==
    IF dropped
    THEN UNCHANGED <<flags, store, owed, stopper, conn>>
    ELSE /\ dropped' = TRUE
         /\ stopped' = TRUE
         /\ stopper' = IF stopped THEN stopper ELSE stopper + 1
         /\ conn' = IF hijacked /\ HasDeadline THEN "deadline" ELSE "closed"
         /\ err' = (err \/ e \/ (hijacked /\ ~HasDeadline))
         /\ RejectAll("error")
         /\ UNCHANGED hijacked

\* Close or Drop called by the owner of the channel.
Drop ==
    /\ ~dropped
    /\ DropWith(FALSE)
    /\ UNCHANGED <<pc, res, queue, writer, reader, ackd, net, life>>

\* The idle timer or the ping timer finds the connection dead.
TimerFatal ==
    /\ ini = "armed" /\ ~dropped
    /\ DropWith(TRUE)
    /\ UNCHANGED <<pc, res, queue, writer, reader, ackd, net, life>>

\* The goroutine started by Drop closes c.done once both loops have exited.
CloseDone ==
    /\ dropped /\ ~done
    /\ wr = "exited" /\ rd = "exited"
    /\ done' = TRUE
    /\ UNCHANGED <<flags, store, caller, queue, writer, stopper, reader, ackd, conn, net,
                   sd, sdHijacked, spawned, ini, hj, watch>>

\* Mutant of OnClose: a callback added to the list that Drop has taken already.
OnCloseAlwaysLists(w) ==
    /\ watch[w] = "none"
    /\ ini = "init" \/ dropped
    /\ watch' = [watch EXCEPT ![w] = IF dropped THEN "lost" ELSE "listed"]
    /\ UNCHANGED <<flags, store, caller, queue, writer, stopper, reader, ackd, conn, net,
                   sd, sdHijacked, spawned, ini, hj, done>>

\* OnClose: a callback registered after Drop gets a goroutine of its own.  (The
\* moments before Drop are all alike to it: the first ones stand for them.)
OnClose(w) ==
    /\ watch[w] = "none"
    /\ ini = "init" \/ dropped
    /\ watch' = [watch EXCEPT ![w] = IF dropped THEN "late" ELSE "listed"]
    /\ UNCHANGED <<flags, store, caller, queue, writer, stopper, reader, ackd, conn, net,
                   sd, sdHijacked, spawned, ini, hj, done>>

\* execCallbacks for an OnClose callback: after c.done, under c.cb.
CallOnClose(w) ==
    /\ done /\ ini # "init"
    /\ watch[w] \in {"listed", "late"}
    /\ watch' = [watch EXCEPT ![w] = "called"]
    /\ UNCHANGED <<flags, store, caller, queue, writer, stopper, reader, ackd, conn, net,
                   sd, sdHijacked, spawned, ini, hj, done>>

-----------------------------------------------------------------------------
(* Call, Notify, Send *)

\* Call pushes its callback into the store before it asks whether it may send.
CallPush(c) ==
    /\ pc[c] = "idle"
    /\ pc' = [pc EXCEPT ![c] = "check"]
    /\ pending' = pending \cup {c}
    /\ UNCHANGED <<flags, emptied, owed, res, queue, writer, stopper, reader, ackd, conn, net, life>>

\* Notify: the ping timer is one of its callers.
NotifyStart(n) ==
    /\ pc[n] = "idle"
    /\ pc' = [pc EXCEPT ![n] = "check"]
    /\ UNCHANGED <<flags, store, owed, res, queue, writer, stopper, reader, ackd, conn, net, life>>

\* A send of s ends with error v.  Call hands v to its own callback, unless
\* somebody else has taken it from the store, and waits for what that one got.
GiveUp(s, v) ==
    IF s \in Calls
    THEN /\ Resolve(s, v)
         /\ pc' = [pc EXCEPT ![s] = "wait"]
         /\ UNCHANGED res
    ELSE /\ pc' = [pc EXCEPT ![s] = "returned"]
         /\ res' = [res EXCEPT ![s] = v]
         /\ UNCHANGED <<store, owed>>

\* Mutant of SendCheck: only a hijacked channel refuses.
SendCheckHijackedOnly(s) ==
    /\ pc[s] = "check"
    /\ IF hijacked
       THEN GiveUp(s, "error")
       ELSE /\ pc' = [pc EXCEPT ![s] = "enqueue"]
            /\ UNCHANGED <<store, owed, res>>
    /\ UNCHANGED <<flags, queue, writer, stopper, reader, ackd, conn, net, life>>

\* send without force: the section that reads c.stopped and c.hijacked.
SendCheck(s) ==
    /\ pc[s] = "check"
    /\ IF stopped \/ hijacked
       THEN GiveUp(s, IF stopped THEN "ErrStopped" ELSE "error")
       ELSE /\ pc' = [pc EXCEPT ![s] = "enqueue"]
            /\ UNCHANGED <<store, owed, res>>
    /\ UNCHANGED <<flags, queue, writer, stopper, reader, ackd, conn, net, life>>

HasRoom == Len(out) < WriteQueueSize

\* Mutant of Enqueue: the writer is looked at after the packet is queued.
EnqueueThenLook(s) ==
    /\ pc[s] \in {"enqueue", "blocked"}
    /\ HasRoom
    /\ out' = Append(out, s)
    /\ accepted' = accepted \cup {s}
    /\ GiveUp(s, IF wr = "exited" THEN "ErrStopped" ELSE "ok")
    /\ UNCHANGED <<flags, writer, stopper, reader, ackd, conn, net, life>>

\* send: the packet of s enters c.out, at once or after s was blocked.
Enqueue(s) ==
    /\ pc[s] \in {"enqueue", "blocked"}
    /\ HasRoom
    /\ out' = Append(out, s)
    /\ accepted' = accepted \cup {s}
    /\ IF s \in Calls
       THEN /\ pc' = [pc EXCEPT ![s] = "wait"]
            /\ UNCHANGED res
       ELSE /\ pc' = [pc EXCEPT ![s] = "returned"]
            /\ res' = [res EXCEPT ![s] = "ok"]
    /\ UNCHANGED <<flags, store, owed, writer, stopper, reader, ackd, conn, net, life>>

\* send: c.out is full, the second select begins.
Block(s) ==
    /\ pc[s] = "enqueue"
    /\ ~HasRoom
    /\ pc' = [pc EXCEPT ![s] = "blocked"]
    /\ UNCHANGED <<flags, store, owed, res, queue, writer, stopper, reader, ackd, conn, net, life>>

\* Mutant of BlockedGiveUp: the second select does not watch c.writeDone.
BlockedWaitsForRoom(s) ==
    /\ pc[s] = "blocked"
    /\ s \notin Replies /\ GiveUp(s, "error")
    /\ UNCHANGED <<flags, queue, writer, stopper, reader, ackd, conn, net, life>>

\* The second select ends without room: the writer is gone, or the timer or
\* the context of a Call or a Notify has ended.
BlockedGiveUp(s) ==
    /\ pc[s] = "blocked"
    /\ \/ wr = "exited" /\ GiveUp(s, "ErrStopped")
       \/ s \notin Replies /\ GiveUp(s, "error")
    /\ UNCHANGED <<flags, queue, writer, stopper, reader, ackd, conn, net, life>>

\* Call's select: its timer or its context ends first; it goes on waiting for
\* the result that it, or somebody before it, has taken from the store.
CallExpire(c) ==
    /\ pc[c] = "wait"
    /\ c \in pending
    /\ Resolve(c, "error")
    /\ UNCHANGED <<pc, flags, res, queue, writer, stopper, reader, ackd, conn, net, life>>

CallReturn(c) ==
    /\ pc[c] = "wait"
    /\ res[c] # None
    /\ pc' = [pc EXCEPT ![c] = "returned"]
    /\ UNCHANGED <<flags, store, owed, res, queue, writer, stopper, reader, ackd, conn, net, life>>

-----------------------------------------------------------------------------
(* reader *)

\* ReadPacket and pending.resolve.  What bufio has buffered is read even when
\* the connection is closed already.
ReadPacket ==
    /\ rd = "read"
    /\ in # <<>>
    /\ in' = Tail(in)
    /\ IF Head(in) \in pending
       THEN /\ Resolve(Head(in), "ok")
            /\ UNCHANGED <<rd, pkt>>
       ELSE /\ rd' = "dispatch"
            /\ pkt' = Head(in)
            /\ UNCHANGED <<store, owed>>
    /\ UNCHANGED <<flags, pc, res, queue, writer, stopper, hbuf, saved, ackd, conn,
                   peer, shut, answered, life>>

\* A packet that is no response.  The handler of a late response changes
\* nothing; the ack of a ping may be skipped (it answers a ping of ours).
Dispatch ==
    /\ rd = "dispatch"
    /\ pkt' = None
    /\ \/ /\ hijacked
          /\ hbuf' = Append(hbuf, pkt)
          /\ rd' = "read"
          /\ UNCHANGED <<pc, ackd, spawned>>
       \/ /\ ~hijacked /\ pkt = SHUTDOWN
          /\ ackd' = 1
          /\ spawned' = IF ackd = 0 /\ ~stopped THEN TRUE ELSE spawned
          /\ rd' = "read"
          /\ UNCHANGED <<pc, hbuf>>
       \/ /\ ~hijacked /\ pkt \in Replies /\ pc[pkt] = "idle"
          /\ pkt \in Inline \/ ~dropped
          /\ pc' = [pc EXCEPT ![pkt] = "enqueue"]
          /\ rd' = IF pkt \in Inline THEN "serving" ELSE "read"
          /\ UNCHANGED <<ackd, spawned, hbuf>>
       \/ /\ ~hijacked
          /\ pkt \in Calls \cup Inline \/ (pkt \in Replies /\ dropped)
          /\ rd' = "read"
          /\ UNCHANGED <<pc, ackd, spawned, hbuf>>
    /\ UNCHANGED <<flags, store, owed, res, queue, writer, stopper, saved, conn, net,
                   sd, sdHijacked, ini, hj, done, watch>>

\* The Send that the reader made itself has returned.
ServeReturn ==
    /\ rd = "serving"
    /\ \A r \in Inline : pc[r] \in {"idle", "returned"}
    /\ rd' = "read"
    /\ UNCHANGED <<flags, store, caller, queue, writer, stopper, pkt, hbuf, saved, ackd,
                   conn, net, life>>

\* ReadPacket fails.  The deadline that Drop has set for Hijack ends the
\* reader; any other error drops the channel, EOF without pending calls as a
\* normal end.
ReaderError ==
    /\ rd = "read"
    /\ \/ /\ conn = "deadline"
          /\ saved' = hbuf
          /\ rd' = "exited"
       \/ /\ conn = "closed" \/ peer = "reset"
          /\ rd' = "failing"
          /\ UNCHANGED saved
       \/ /\ in = <<>> /\ peer = "eof" /\ conn = "open"
          /\ rd' = IF pending = {} THEN "ending" ELSE "failing"
          /\ UNCHANGED saved
    /\ UNCHANGED <<flags, store, caller, queue, writer, stopper, pkt, hbuf, ackd, conn, net, life>>

\* The reader drops the channel and exits, which closes c.shutdown too.
ReaderDrop ==
    /\ rd \in {"failing", "ending"}
    /\ IF rd = "failing" THEN DropWith(TRUE) ELSE DropWith(FALSE)
    /\ rd' = "exited"
    /\ UNCHANGED <<pc, res, queue, writer, pkt, hbuf, saved, ackd, net, life>>

-----------------------------------------------------------------------------
(* writer *)

\* k packets reach the connection.
Written(s, k) ==
    /\ wire' = wire \cup ({s[i] : i \in 1..k} \cap Calls)
    /\ buf' = SubSeq(s, k + 1, Len(s))

Writable == conn # "closed" /\ peer # "reset"

\* The select takes a packet of c.out, and then the ones behind it; a buffer
\* that grows over WriteBufferSize is flushed on the way.
Take(k) ==
    /\ k = 0 \/ Writable
    /\ Written(buf \o out, k)
    /\ out' = <<>>
    /\ wr' = "flush"

WriterTake ==
    /\ wr = "select"
    /\ out # <<>>
    /\ \E k \in {0} \cup (Len(buf) + 1)..Len(buf \o out) : Take(k)
    /\ UNCHANGED <<flags, store, caller, accepted, wstop, stopper, reader, ackd, conn, net, life>>

\* The select sees c.stopper closed; the last packets are taken from c.out.
WriterStop ==
    /\ wr = "select"
    /\ stopper > 0
    /\ wstop' = TRUE
    /\ IF out = <<>>
       THEN wr' = "exited" /\ UNCHANGED <<out, buf, wire>>
       ELSE \E k \in {0} \cup (Len(buf) + 1)..Len(buf \o out) : Take(k)
    /\ UNCHANGED <<flags, store, caller, accepted, stopper, reader, ackd, conn, net, life>>

\* The select sees the context of SetContext cancelled and starts Shutdown
\* (which returns at once when the channel is stopped).
WriterCtxDone ==
    /\ wr = "select"
    /\ ~stopped /\ ~spawned
    /\ spawned' = TRUE
    /\ UNCHANGED <<flags, store, caller, queue, writer, stopper, reader, ackd, conn, net,
                   sd, sdHijacked, ini, hj, done, watch>>

\* The test of len(c.out) and then the flush.  When the writer was told to
\* stop, both ways leave the loop: the first one without a flush.
WriterFlush ==
    /\ wr = "flush"
    /\ wr' = IF wstop THEN "exited" ELSE "select"
    /\ IF out # <<>>
       THEN UNCHANGED <<buf, wire>>
       ELSE (buf = <<>> \/ Writable) /\ Written(buf, Len(buf))
    /\ UNCHANGED <<flags, store, caller, queue, wstop, stopper, reader, ackd, conn, net, life>>

\* A write fails or times out, here or in buf.Append.
WriterFatal ==
    /\ wr = "flush"
    /\ buf # <<>>
    /\ DropWith(TRUE)
    /\ wr' = "exited"
    /\ UNCHANGED <<pc, res, queue, wstop, buf, wire, reader, ackd, net, life>>

-----------------------------------------------------------------------------
(* Shutdown *)

\* The first section of Shutdown; a later call only waits for c.done.
ShutdownStart ==
    /\ ~stopped
    /\ stopped' = TRUE
    /\ sdHijacked' = hijacked
    /\ sd' = "callbacks"
    /\ spawned' = FALSE
    /\ UNCHANGED <<dropped, hijacked, err, store, caller, queue, writer, stopper, reader,
                   ackd, conn, net, ini, hj, done, watch>>

ShutdownTo(from, to) ==
    /\ sd = from
    /\ sd' = to
    /\ UNCHANGED <<flags, caller, writer, reader, conn, net, sdHijacked, spawned, ini, hj, done,
                   watch>>

\* execCallbacks under c.cb, which Init holds while config.Init runs.
ShutdownCallbacks ==
    /\ HasOnShutdown => ini # "init"
    /\ ShutdownTo("callbacks", "empty")
    /\ UNCHANGED <<store, queue, stopper, ackd>>

\* Mutant of ShutdownEmpty: Shutdown does not wait for the pending calls.
ShutdownSkipsPending ==
    /\ emptied' = "closed"
    /\ ShutdownTo("empty", "drain")
    /\ UNCHANGED <<pending, queue, stopper, ackd>>

\* pending.empty(): a channel that is closed already, or the next time the
\* store is empty.
ShutdownEmpty ==
    /\ emptied' = IF pending = {} THEN "closed" ELSE "open"
    /\ ShutdownTo("empty", "drain")
    /\ UNCHANGED <<pending, queue, stopper, ackd>>

ShutdownDrained ==
    /\ emptied = "closed"
    /\ ShutdownTo("drain", IF sdHijacked THEN "stop"
                           ELSE IF DisableShutdown THEN "ack" ELSE "send")
    /\ UNCHANGED <<store, queue, stopper, ackd>>

\* sendShutdownPacket.
ShutdownSend ==
    /\ ShutdownTo("send", "ack")
    /\ \/ /\ HasRoom
          /\ out' = Append(out, SHUTDOWN)
          /\ accepted' = accepted \cup {SHUTDOWN}
       \/ wr = "exited" /\ UNCHANGED queue
    /\ UNCHANGED <<store, stopper, ackd>>

\* Mutant of ShutdownAck: a counter in the place of the channel.
ShutdownAckCounts ==
    /\ ShutdownTo("ack", "stop")
    /\ ackd' = ackd - 1
    /\ UNCHANGED <<store, queue, stopper>>

\* <-c.shutdown: the token of the peer's packet, or the reader has exited.
ShutdownAck ==
    /\ ShutdownTo("ack", "stop")
    /\ \/ ackd = 1 /\ ackd' = 0
       \/ ackd = 0 /\ rd = "exited" /\ UNCHANGED ackd
    /\ UNCHANGED <<store, queue, stopper>>

ShutdownStop ==
    /\ stopper' = stopper + 1
    /\ ShutdownTo("stop", "flush")
    /\ UNCHANGED <<store, queue, ackd>>

ShutdownFlushed ==
    /\ wr = "exited"
    /\ ShutdownTo("flush", "close")
    /\ UNCHANGED <<store, queue, stopper, ackd>>

\* The deferred Close.
ShutdownClose ==
    /\ sd = "close"
    /\ sd' = "finish"
    /\ DropWith(FALSE)
    /\ UNCHANGED <<pc, res, queue, writer, reader, ackd, net,
                   sdHijacked, spawned, ini, hj, done, watch>>

\* The timer of ShutdownTimeout closes the channel.
ShutdownTimeout ==
    /\ sd \in {"empty", "drain", "send", "ack", "stop", "flush"}
    /\ ~dropped
    /\ DropWith(FALSE)
    /\ UNCHANGED <<pc, res, queue, writer, reader, ackd, net, life>>

-----------------------------------------------------------------------------
(* Init and Hijack *)

\* config.Init has returned without an error and c.cb is free again: the idle
\* and the ping timer are armed unless the channel was stopped or hijacked.
InitArm ==
    /\ ini = "init"
    /\ ini' = IF stopped \/ hijacked THEN "refused" ELSE "armed"
    /\ UNCHANGED <<flags, store, caller, queue, writer, stopper, reader, ackd, conn, net,
                   sd, sdHijacked, spawned, hj, done, watch>>

\* config.Init has failed: Close.
InitFail ==
    /\ ini = "init"
    /\ ini' = "failed"
    /\ DropWith(FALSE)
    /\ UNCHANGED <<pc, res, queue, writer, reader, ackd, net,
                   sd, sdHijacked, spawned, hj, done, watch>>

\* The first section of Hijack; then it calls Shutdown.
HijackStart ==
    /\ MayHijack
    /\ hj = "idle"
    /\ ~stopped /\ ~hijacked
    /\ hijacked' = TRUE
    /\ hj' = "shutdown"
    /\ spawned' = TRUE
    /\ UNCHANGED <<stopped, dropped, err, store, caller, queue, writer, stopper, reader,
                   ackd, conn, net, sd, sdHijacked, ini, done, watch>>

\* Mutant of HijackFinish: Hijack waits for the drop only.
HijackFinishEarly ==
    /\ hj = "shutdown"
    /\ dropped
    /\ hj' = IF err THEN "failed" ELSE "taken"
    /\ UNCHANGED <<flags, store, caller, queue, writer, stopper, reader, ackd, conn, net,
                   sd, sdHijacked, spawned, ini, done, watch>>

\* Shutdown has returned: Hijack returns c.err, or the connection and
\* c.hijackReadBuffer.
HijackFinish ==
    /\ hj = "shutdown"
    /\ done
    /\ hj' = IF err THEN "failed" ELSE "taken"
    /\ UNCHANGED <<flags, store, caller, queue, writer, stopper, reader, ackd, conn, net,
                   sd, sdHijacked, spawned, ini, done, watch>>

-----------------------------------------------------------------------------
(* The peer *)

\* The peer answers a call once, sends each request once, and sends shutdown
\* packets.  What comes after the reader has exited is not modelled.
PeerSend(p) ==
    /\ peer = "open" /\ rd # "exited"
    /\ in' = Append(in, p)
    /\ \/ p \in wire \cup Replies /\ p \notin answered
          /\ answered' = answered \cup {p} /\ UNCHANGED shut
       \/ p = SHUTDOWN /\ shut < PeerShutdowns
          /\ shut' = shut + 1 /\ UNCHANGED answered
    /\ UNCHANGED <<flags, store, caller, queue, writer, stopper, reader, ackd, conn, peer, life>>

\* The peer closes its end, or the connection breaks.
PeerClose ==
    /\ peer = "open" /\ conn # "closed"
    /\ peer' \in {"eof", "reset"}
    /\ UNCHANGED <<flags, store, caller, queue, writer, stopper, reader, ackd, conn,
                   in, shut, answered, life>>

-----------------------------------------------------------------------------
Init ==
    /\ stopped = FALSE /\ dropped = FALSE /\ hijacked = FALSE /\ err = FALSE
    /\ pending = {} /\ emptied = "none"
    /\ pc = [s \in Senders |-> "idle"]
    /\ owed = [c \in Calls |-> None]
    /\ res = [s \in Senders |-> None]
    /\ out = <<>> /\ accepted = {}
    /\ wr = "select" /\ wstop = FALSE /\ buf = <<>> /\ wire = {}
    /\ stopper = 0
    /\ rd = "read" /\ pkt = None /\ hbuf = <<>> /\ saved = <<>>
    /\ ackd = 0
    /\ conn = "open"
    /\ in = <<>> /\ peer = "open" /\ shut = 0 /\ answered = {}
    /\ sd = "idle" /\ sdHijacked = FALSE /\ spawned = FALSE
    /\ ini = "init" /\ hj = "idle" /\ done = FALSE
    /\ watch = [w \in Watchers |-> "none"]

SendNext(s) == SendCheck(s) \/ Enqueue(s) \/ Block(s) \/ BlockedGiveUp(s)

CallNext(c) == SendNext(c) \/ CallExpire(c) \/ CallReturn(c)

ReaderNext == ReadPacket \/ Dispatch \/ ServeReturn \/ ReaderError \/ ReaderDrop

WriterNext == WriterTake \/ WriterStop \/ WriterFlush \/ WriterFatal

ShutdownNext ==
    \/ ShutdownCallbacks \/ ShutdownEmpty \/ ShutdownDrained \/ ShutdownSend
    \/ ShutdownAck \/ ShutdownStop \/ ShutdownFlushed \/ ShutdownClose

Next ==
    \/ \E c \in Calls : CallPush(c) \/ Deliver(c) \/ CallExpire(c) \/ CallReturn(c)
    \/ \E n \in Notices : NotifyStart(n)
    \/ \E s \in Senders : SendNext(s)
    \/ ReaderNext \/ WriterNext \/ WriterCtxDone
    \/ ShutdownStart \/ ShutdownNext \/ ShutdownTimeout
    \/ Drop \/ TimerFatal \/ CloseDone
    \/ \E w \in Watchers : OnClose(w) \/ CallOnClose(w)
    \/ InitArm \/ InitFail \/ HijackStart \/ HijackFinish
    \/ \E p \in Senders \cup {SHUTDOWN} : PeerSend(p)
    \/ PeerClose

\* Every goroutine that can run does, timers end, config.Init, the callbacks
\* and the writes to the connection return (a write has WriteTimeout).  The
\* owner is not obliged to call, to close or to shut down.
Fairness ==
    /\ \A c \in Calls : WF_vars(CallNext(c)) /\ WF_vars(Deliver(c)) /\ WF_vars(CallExpire(c))
    /\ \A s \in Notices \cup Replies : WF_vars(SendNext(s))
    /\ WF_vars(ReaderNext) /\ WF_vars(WriterNext)
    /\ WF_vars(ShutdownNext) /\ WF_vars(ShutdownTimeout)
    /\ WF_vars(spawned /\ ShutdownStart)
    /\ WF_vars(InitArm \/ InitFail)
    /\ WF_vars(CloseDone) /\ WF_vars(HijackFinish)
    /\ \A w \in Watchers : WF_vars(CallOnClose(w))

Spec == Init /\ [][Next]_vars

LiveSpec == Spec /\ Fairness

-----------------------------------------------------------------------------
(* What the channel promises *)

PacketSeq == Seq(Senders \cup {SHUTDOWN})

TypeOK ==
    /\ stopped \in BOOLEAN /\ dropped \in BOOLEAN /\ hijacked \in BOOLEAN /\ err \in BOOLEAN
    /\ pending \subseteq Calls /\ emptied \in {"none", "open", "closed"}
    /\ pc \in [Senders -> {"idle", "check", "enqueue", "blocked", "wait", "returned"}]
    /\ owed \in [Calls -> Results \cup {None}]
    /\ res \in [Senders -> Results \cup {None}]
    /\ out \in PacketSeq /\ accepted \subseteq Senders \cup {SHUTDOWN}
    /\ wr \in {"select", "flush", "exited"} /\ wstop \in BOOLEAN
    /\ buf \in PacketSeq /\ wire \subseteq Calls
    /\ stopper \in Nat
    /\ rd \in {"read", "dispatch", "serving", "failing", "ending", "exited"}
    /\ pkt \in IF rd = "dispatch" THEN Senders \cup {SHUTDOWN} ELSE {None}
    /\ hbuf \in PacketSeq /\ saved \in PacketSeq
    /\ ackd \in {0, 1}
    /\ conn \in {"open", "closed", "deadline"}
    /\ in \in PacketSeq /\ peer \in {"open", "eof", "reset"} /\ shut \in Nat
    /\ answered \subseteq Senders
    /\ sd \in {"idle", "callbacks", "empty", "drain", "send", "ack", "stop", "flush", "close",
               "finish"}
    /\ sdHijacked \in BOOLEAN /\ spawned \in BOOLEAN /\ done \in BOOLEAN
    /\ ini \in {"init", "armed", "refused", "failed"}
    /\ hj \in {"idle", "shutdown", "failed", "taken"}
    /\ watch \in [Watchers -> {"none", "listed", "late", "called"}]

\* From its push on, exactly one party owes a call its result: the store, the
\* goroutine that has taken its callback, or the channel of capacity one the
\* callback writes to.  So Call can always return, no callback blocks on that
\* channel, and none runs after Call has put it back into its pool.
OneResultPerCall ==
    \A c \in Calls :
        /\ pc[c] = "idle" => c \notin pending /\ owed[c] = None /\ res[c] = None
        /\ pc[c] # "idle" =>
              \/ c \in pending /\ owed[c] = None /\ res[c] = None
              \/ c \notin pending /\ owed[c] # None /\ res[c] = None
              \/ c \notin pending /\ owed[c] = None /\ res[c] # None
        /\ pc[c] = "returned" => res[c] # None

\* A call or a notice that ends with ErrStopped has never entered c.out.
\* Pool.CallNext sends such a call again on another channel.
RefusedNotSent ==
    \A s \in Senders : "ErrStopped" \in {res[s]} \cup (IF s \in Calls THEN {owed[s]} ELSE {})
                           => s \notin accepted

\* Shutdown and Drop never both close c.stopper: the second close would panic.
StopperClosedOnce == stopper <= 1

\* A call that pushes itself into the store after rejectAll has emptied it has
\* still to read c.stopped, so it takes itself out again.
StrandedOnlyBeforeCheck ==
    dropped => \A c \in pending : pc[c] = "check"

\* While the channel is not dropped no call is on its way into c.out when the
\* shutdown packet is queued, so no request follows that packet.
ShutdownPacketIsLast ==
    SHUTDOWN \in accepted /\ ~dropped =>
        \A c \in Calls : pc[c] \notin {"enqueue", "blocked"}

\* Hijack without an error hands over a connection that nobody has closed,
\* and, unless the peer has closed its end, every byte read since Hijack.
HijackTakesLiveConn ==
    hj = "taken" => /\ conn = "deadline"
                    /\ peer = "open" => saved = hbuf

\* "Draining the c.out above guarantees us that c.out is zero here when
\* stopped is true": a writer that exits without an error has written all
\* the packets it took from c.out (comment in writer).
LastPacketsFlushed == wr = "exited" /\ ~dropped => buf = <<>>

\* "Do not loose the buffered bytes": what was read between Hijack and its
\* return is in the buffer that Hijack returns (doc of Hijack).
HijackKeepsBytes == hj = "taken" => saved = hbuf

\* Every Call returns: a response, a timeout or the end of the channel.
CallsReturn == \A c \in Calls : pc[c] = "check" ~> pc[c] = "returned"

\* Send and Notify return although nobody may read from the channel's queue.
SendsReturn ==
    \A s \in Notices \cup Replies : pc[s] \in {"check", "enqueue"} ~> pc[s] = "returned"

\* What the pool of connections sees of a channel.
Life ==
    INSTANCE ChannelLife WITH
        life <- IF done THEN "done" ELSE IF dropped THEN "dropped"
                ELSE IF stopped THEN "draining" ELSE "open",
        refused <- \/ \E s \in Senders : res[s] = "ErrStopped"
                   \/ \E c \in Calls : owed[c] = "ErrStopped"

\* The pool may rely on this: ErrStopped comes from a stopped channel only, and
\* a channel stopped by Shutdown, Close, Drop, an error or a failed Init is
\* closed completely in the end, whatever the peer does.
ImplementsLife == Life!LifeSpec

\* An OnClose callback is called in the end, registered before Drop or after.
OnCloseIsCalled ==
    \A w \in Watchers : watch[w] # "none" /\ dropped ~> watch[w] = "called"

=============================================================================
