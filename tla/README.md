# TLA+ models and proofs for activerecord

This directory holds the formal models of `mailru/activerecord`: TLA+ modules
translated from the Go source, TLC configurations that check them on small
instances, and proofs that TLAPS checks. `PROJECT.json` lists the components,
the runs, the mutants that show what each property catches, the source lines
that each definition stands for, the findings, the hazards and the theorems.

Run `tlc -workers 2 -config X.cfg M` for a run and `tlapm M.tla` for the proofs of a
module `M` whose name ends with `Proofs`.

## 1. Inventory of the system

The repository is an active-record library for Go over the iproto protocol: a
code generator (`argen`), a run-time part (`pkg/activerecord`,
`pkg/octopus`), and an iproto client and server (`pkg/iproto`). The generator
is sequential; the hard logic is in `pkg/iproto` and in the caches of
`pkg/activerecord`, and the packing of `pkg/octopus` is where the boundaries are.

| component | state it keeps | operations | interacts with |
|---|---|---|---|
| channel (`iproto/channel.go`, `pending.go`, `writer.go`) | flags stopped, dropped, hijacked; the error; the queue `out`; the store of pending calls; timers; callbacks; five Go channels for signals | Init, Call, Notify, Send, Shutdown, Close, Drop, Hijack, OnClose, OnShutdown; goroutines reader and writer | the connection, its callers, the pool of connections (callbacks), handlers |
| worker pool (`util/pool/pool.go`) | work queue, semaphore, list of workers, kill and done | New, Schedule*, Wait*, Barrier*, Close; goroutines of the workers | handlers of a server run their requests in it |
| cluster (`iproto/cluster.go`) | list of peers, disabled peers, terminated | Reset, ResetAndDisableInserted, Insert, Remove, Disable, Enable, Shutdown, Close; Unicast on top | pools of connections, watchers |
| pool of connections (`iproto/pool.go`) | online channels, stopped, closed, the dialer's task, statistics | Init, Call, Notify, Send, NextChannel, StoreConn, Shutdown, Close, Hijack | channels, dialer, TaskGroup, TaskRunner, Throttle |
| watchers (`iproto/watch.go`) | counts of online peers, detached peers, a goroutine with a signal channel | Init, Stop, MarkInited, callbacks of pools | pools, cluster |
| packet server (`iproto/dgram.go`) | a queue and two loops as in the channel | Init, Send, Shutdown, Close | handlers |
| stream server, handlers (`listen.go`, `handler.go`, `reader.go`, `stream.go`) | none beyond channels | Serve, ListenAndServe, ParallelHandler and others | channel, worker pool |
| codec (`iproto/pack.go`) | none | Pack, Unpack | users of the client |
| syncutil (`taskgroup.go`, `multitask.go`, `taskrunner.go`, `throttle.go`) | running tasks and their subscribers | Do, Cancel, Next | pool of connections |
| dialer (`netutil/dialer.go`) | the deadline of the background dial | Dial, SetDeadlineAtLeast, Cancel | pool of connections |
| config cache, shards (`activerecord/cluster.go`, `config.go`) | cached cluster per config path, update time, round-robin counters | Get, Actualize, NextMaster, NextReplica | configuration, octopus box |
| connection cache (`activerecord/connection.go`) | connections by server | GetOrAdd, CloseConnection | octopus box, pinger |
| registry, pinger, options, logger, metrics (`activerecord/*.go`) | one process-wide instance | InitActiveRecord, accessors | everything above |
| octopus (`octopus/*.go`) | none, but a mock server for tests | Box, CallLua, packing of tuples, fixtures | connection cache |
| serializers (`serializer/*.go`) | none | Marshal, Unmarshal | generated code |
| argen (`cmd`, `internal`) | parsed declarations | parse, check, generate | files |

What is hard in it:

* *Concurrency.* A channel has a reader, a writer, two timers, and any number
  of callers; `Shutdown`, `Drop`, `Hijack` and errors end it from any of them.
  Flags are read under a lock and used after it.
* *Ordering.* The shutdown packets of both ends, the last packets of the
  writer, callbacks that are registered while others run.
* *Failure.* EOF, a broken connection, a failed write, a failed `Init`, a peer
  that never answers.
* *Timeouts.* A call's timer against a late answer; one tick of a timer that
  two goroutines wait for; the timer of `Shutdown`.
* *Limits.* Queues that are full, semaphores, workers that leave and arrive.
* *Index arithmetic.* The in-place merge of `cluster.reset`.

What makes the components correct, in a sentence each: every call gets exactly
one result and returns; a stopped channel ends completely; a refused packet
was not sent; a closed worker pool has executed what it accepted and stops all
its workers; waits wait for what they promise and return; the peers of a
cluster are unique by address and what a reset reports is true; a pool of
connections holds only live channels up to its size and closes all it has;
a watcher's detached state follows its peers; a configuration that changed is
seen, and an older one never replaces it. The list of hazards in
`PROJECT.json` ties these to source lines.

## 2. Plan

1. `Channel` with `ChannelLife` (done): the connection, first because all else
   uses it.
2. `WorkerPool` (done).
3. `PeerCluster` with its abstract specification `PeerRegistry` (done).
4. `ConnPool` (done): the pool of connections with its background dial, on top
   of `ChannelLife`, the abstract channel that `Channel` is shown to implement.
5. `TaskGroup` (done): the other way a pool dials, with `Pool.connect`.
6. `MultiWatcher` (done), over the hooks of channels.
7. `ConfigCache` (done): the config cacher, the connection cache and Box.
8. `Wire`, `Octopus` and `Codec` (done): the formats, as operators; `BoxSession`
   (done) composes them with the stream and the mock server.
9. `PacketServer` (done).
10. Proofs: `Channel` with the safety of its refinement, `ConnPool`, `TaskGroup`,
    `MultiWatcher`, `WorkerPool`, `ConfigCache`, `PacketServer`, `BoxSession` with its
    formats, and `PeerCluster` with the refinement of `PeerRegistry` (done).

Left of the system: Unicast, two channels end to end with their own numbering of
requests, the throttle, the pinger's loop.

The abstract specifications: the registry of peers by address and a channel as
seen from a pool, each checked as a refinement. Twelve runs of a few minutes
together are what this project repeats on each change; the promises of the code's
comments that do not hold, beyond the two findings, are definitions of their
modules without a run (section 4).

## 3. Modules

Every action is one step of one goroutine: what it does between two points at
which another goroutine can observe or change what it uses (a mutex section, a
channel operation, a read or write of the connection). Local computation
before and after such a point belongs to the step. Bytes, logging and
statistics are left out; a packet is named by the call or request that it
belongs to.

### Channel

| variables | code |
|---|---|
| `stopped dropped hijacked err` | fields of `Channel` under `c.mu` |
| `pending emptied` | `store.hash`, and the channel `store.empty` has returned |
| `pc owed res` | where a caller is; results taken from the store whose callback has not run; results in the caller's channel |
| `out accepted` | `c.out`; history of packets that entered it |
| `wr wstop buf wire` | writer goroutine, its local `stopped`, its buffers, calls on the wire |
| `stopper` | how often `c.stopper` was closed |
| `rd pkt hbuf saved` | reader goroutine, the packet it holds, its `hijackBuffer`, `c.hijackReadBuffer` |
| `ackd` | the token in `c.shutdown` |
| `conn in peer shut answered` | the connection, unread input, the other end |
| `sd sdHijacked spawned ini hj done watch` | Shutdown, goroutines about to call it, Init, Hijack, `c.done`, OnClose callbacks |

*Callers.* `CallPush`, `SendCheck`, `Enqueue`, `Block`, `BlockedGiveUp`,
`CallExpire`, `CallReturn`, `Deliver` are `Call` and `send` cut where the code
releases a lock or waits. `Deliver` is separate from `Resolve` and `RejectAll`
because the store runs callbacks after its unlock. *Loops.* `ReadPacket`,
`Dispatch`, `ServeReturn`, `ReaderError`, `ReaderDrop`; `WriterTake`,
`WriterStop`, `WriterCtxDone`, `WriterFlush`, `WriterFatal`. *Life cycle.*
`Shutdown*`, `Drop` (Close is Drop followed by a wait), `TimerFatal`,
`CloseDone`, `Init*`, `Hijack*`. *Environment.* `PeerSend` and `PeerClose`:
the peer answers a call at most once, may send its own requests and shutdown
packets, may close or break the connection, or do nothing for ever.

Abstractions: errors other than ErrStopped are alike; a flush writes any
number of packets or all; the reader's handler either answers inline (`Inline`)
or from another goroutine; the ping timer's Notify is one of `Notices`.

### ChannelLife

What a pool may rely on when it uses a channel: it is open, draining, dropped
or done, only a channel that is not open answers ErrStopped, and a channel
that is not open is done in the end. `Life` in `Channel` is the refinement
mapping (`stopped`, `dropped`, `done`; a result `ErrStopped` owed or given);
`ImplementsLife` is checked as a property.

### ConnPool

| variables | code |
|---|---|
| `config stopped closed done online` | `p.config` (FailOnCutoff and DisablePreDial, chosen at the start), `p.stopped`, `p.closed`, `p.done`, `p.online` (a set: the round robin may pick any) |
| `ch store cb` | the life of each channel as in `ChannelLife`, where its StoreConn is, its `once` callback |
| `task held cancelled rcvrs` | the task of the TaskRunner (`"none"` when `rcvrs` is nil), its connection, its context, its subscribers |
| `pc res got full dialed` | a Call, Notify or Send in NextChannel: its place, result, channel, `poolFull`, the result of the dial it waits for |
| `sent` | history: on how many channels the packet was sent |
| `cpc list` | a Shutdown or Close and the channels it took |

`DialTask`, `DialBackground`, `DialForeground`, `DialOK`, `DialFails`,
`DialStored`, `Broadcast`, `CancelDial` are the dial, glued by TaskRunner: a
dial that is asked for while a task runs joins it, also when the task is over
but has not broadcast its result. `Provide`, `StoreReady`, `StoreAppend`,
`StoreClosed` are StoreConn, called by the task, by `connect` or by the owner.
`Drain`, `Drop`, `ChannelDone` are the steps of `ChannelLife` for each channel,
and `CallbackRemove`, `CallbackRedial` its callback. `Look`, `Picked`,
`Remove`, `Redial`, `WaitDialed`, `WaitExpire` are NextChannel; `CallRefused`
(ErrStopped, by `ChannelLife` from an ended channel only), `CallSend`,
`CallReturn` the loop around it. io.EOF, the other error that is repeated, is
returned by no channel. `Shutdown*` and `Close*` are the two ends.

Left out: the rate limiter, statistics, callbacks of Pool.OnClose, the wait of
`connect` for its own results, panics in a task. The throttle and a deadline
that has passed are refusals that may happen at any dial.

### WorkerPool

| variables | code |
|---|---|
| `work sem list` | `p.work`, `p.sem`, `p.list` |
| `mode cur direct` | a worker's place in `run`, the task it runs, `w.direct` |
| `spc ret` | a `schedule` call and its result |
| `cpc count` | Close and the loops of `cork`; `killed` and `done` are derived from it |
| `xpc xret crossed todo need snap expired` | `wait` or `barrier` of a waiter, its timer or context |
| `before finished` | history: tasks a wait is for; tasks executed |

`ScheduleTry`, `ScheduleSelect`, `ScheduleCancel`, `Start`, `Spawn` are
`schedule` and `spawn`; `TakeDirect`, `TakeWork`, `Expire`, `SeeKill`,
`Drained`, `CorkDirect`, `Release`, `Unlist` are `run`; `CloseKill`,
`CloseWait`, `CloseFill`, `CloseDrain` are `Close`; `Wait*`, `BarrierStart`,
`Multicast`, `Collect`, `TimerFires` are the waits. An extra worker is named by
the task it was spawned with. A timer gives one tick: `expired` is `"taken"`
once somebody has received it. A context stays ended.

### PeerCluster and PeerRegistry

`PeerCluster` has the peers as the sequence that `storePeers` publishes, and
`Merge`, the loop of `reset` over the array `ps` with its bounds `i j dp cr rm`
(`Start`, `Drop`, `Create`, `Dedup`, `Keep`, `Turn`). Every operation holds
`c.mu`, so it is one action; `Stop` are the goroutines of `terminate`.
`PeerRegistry` is the promise: sets of peers, each with at most one pool for an
address, and what a reset reports. A disabled pool that a Reset names is listed and
stays disabled, so a pool may be in both sets; the next Reset that succeeds takes it
out of the second one and reports it as removed, while it stays listed.
`Registry == INSTANCE PeerRegistry WITH enabled <- ToSet(peers)` is the refinement,
checked as a property. Slices are values: that the append of the disabled peers
(cluster.go:176) may write into an array which a slice returned earlier shares is not
in the model.

### TaskGroup

| variables | code |
|---|---|
| `pending n chain` | `t.pending`, `t.n`, `t.cancel` as the sub contexts that it cancels |
| `exec cancelled` | the variable `exec` that the tasks of one Do share; sub contexts that were cancelled |
| `task result` | the goroutines, and the channel of capacity one of each |
| `pc ret` | calls of `Pool.connect` and the channels that they still have to read |

`Do` and `Cancel` hold `t.mu` and are one action each. A task sends first
(`TaskSend`) and takes the mutex afterwards (`TaskLeave`). `Receive` and `Expire`
are the loop of `connect`. `Goer` may refuse any task (`GoerFails`).

### MultiWatcher

| variables | code |
|---|---|
| `w` | the local variables of `watcher()`; a map is a set or a function with a default |
| `running stopped change` | the loop; the handle's `stop`; `w.change`, of capacity one |
| `wrapped` | pools whose `config.Init` has the hook of `NotifyPoolChangeWith` |
| `peer init shut fin heard` | connections: their pool, the places of Init, Shutdown and the goroutine of Drop, the callbacks registered |
| `unmarked marked` | history: closures told before a mark of their own; marks handled |

The handlers are operators on `w` (`OnChange`, `OnRemove`, ...). The unbuffered
signals are a rendezvous, so `HandleSignal` and `HandleShutdown` are the send, the
handler and the answer. A connection holds `Channel.cb` (`CbFree`) in its hooks,
as `Channel` has it: `InitHook`, `InitLook`, `InitSend`, `InitListen`;
`ShutdownLock`, `ShutdownSkipped`; `DropLook`, `DropSend`. `notify` is two steps,
the look at Stopped and the send.

The marks of a peer are one count, `w.graceful`, whatever connection they came from.
So a rude closure of one connection takes the mark of another one of the same peer
(watch.go:352-359), and the announced closure that follows breaks the peer.

### ConfigCache

| variables | code |
|---|---|
| `cfg cfgTime version updates now` | the program's config behind `ConfigInterface`, and the clock |
| `clusters container updateTime lock` | the Cluster objects, the fields of `DefaultConfigCacher` |
| `conns dials connLock` | `connectionPool` |
| `pc call calls` | goroutines in Box |

`GetRead`, `GetTest`, `GetLock`, `GetLoad` (once for each shard), `GetStore` are
`Get`: the config is read key by key while `Update` changes it. `Pick` chooses an
instance, `GetOrAdd`, `Connector` find or make its connection.
`CloseConnection` and `CloseDone` are the owner's.

A cluster keeps the hash of the time it was built; `SetShardInstances`, with which a
program's pinger takes an instance out, changes the instances and leaves the hash. `edited` is
the history of it. `Hash` stands for the CRC32 of the instances' names put together
(cluster.go:192-197, 243) and has no collisions. The shard count of a config is not
negative: for a negative `max-shard` NewCluster panics with the mutex held
(cluster.go:277).

### Wire, Octopus, Codec and BoxSession

The formats are operators, in three modules. `Wire` has the integers of both modes,
strings, and the packets of a stream (`Packet`, `TakePacket`). `Octopus` has `Body` and
`ReadRequest`, the capacity of a request's buffer, `PackResponse` and `ProcessResp`.
A reader is a function of the position in the bytes. `Codec` has Pack and Unpack by
reflection, with records for the types; `PackOne` and `TakeOne` are recursive, so that
this module is for TLC only.

A byte has `Byte = 2 * Radix` values, of which BER gives `Radix` to the number: 256 and
128 in the code. `Radix` is a constant; 32 in the run keeps an uint32 within TLC's
integers and keeps the number of groups (five for an uint32, three for an uint16), and
so every boundary. The theorems are for any `Radix` from 16 on, the code's included.

`BoxSession` sends bytes: `Ask` appends a packet, `ServerRead` reads one as soon as
`MayRead` says that ReadPacket returns, matches the fixtures, runs the trigger
and answers, `ClientRead` takes the answer apart, `Break` cuts a direction
between two bytes. A fixture remembers the tuples that its response was made of and
whether the test cut it. A response of one to four bytes is none of the cut ones: the
code reads an empty answer there (`UnpackResopnseStatus` takes a short integer for a
status and finds no count behind it). How a user's own packet is packed is a parameter
of the module, `PackUser` and `UnpackUser`; the run gives it `Codec`.

### PacketServer

| variables | code |
|---|---|
| `out want accepted sends` | `p.out`; senders in the second select of `send`; history |
| `w wpc held exit` | the bufio.Writer with `writerTo` (address, buffer, error, datagrams written); the writer's place, `ba` and `q`, `exit` |
| `rpc from rest known` | the reader, its datagram; addresses that a handler knows |
| `opc closed stopped connClosed stopper writeDone readDone done` | owners and the fields of `PacketServer` |

The writer is cut at each test of `p.out`: `WriterTakes`, `WriterStops`,
`WriterCounts`, `WriterPuts`, `WriterFlushes`, `WriterExits`. `Flush`, `Write` and
`Available` are bufio.Writer; a write fails on a closed connection and may fail
on an open one. The bufio.Writer comes from a pool that is keyed by the size rounded
up to a power of two (util/bufio/bufio.go:36-53), so what is taken may be a writer of
another size, made by some other user of the pool: `w.cap` is any of `WriterSizes`, the
MTU and the sizes of `PoolSizes` that round up to the same power. dgram.go sets no
deadline for a write (WriteTimeout gets a default at 54-55 and is not used), so `MayBlock`
says when a write may last for ever, and `ShutdownTimesOut` is the timer of
Shutdown, whose Close ends such a write.

## 4. Runs

| run | instance | shows |
|---|---|---|
| `channel_calls` | one Call, Hijack, deadline, OnShutdown, queue of one, one shutdown packet of the peer | six invariants, CallsReturn, ImplementsLife; 300 thousand states |
| `channel_replies` | one Notify, one inline reply, one OnClose callback | RefusedNotSent, SendsReturn, OnCloseIsCalled; 420 thousand states |
| `worker_pool` | one task, two waiters (one with a context), one permanent worker, at most two, queue of one | TokensAccounted, DoneMeansDone, WaitMeansFinished, CallsReturn, AcceptedFinish |
| `conn_pool` | one caller, one Shutdown and one Close, a connection of the owner and one of the dial task, Size 1, a pool with FailOnCutoff and DisablePreDial and one with neither | TypeOK, StoppedIsEmpty, SentOnce, WaitersAreKnown, StoppedEnds, CallsReturn; 475 thousand states |
| `task_group` | three connects (symmetric), N 2, four tasks, two Cancels, Goer may refuse | AtMostN, CancelReachesAll; 4.7 million states |
| `task_join` (violation) | the same, Goer never refuses | EndIsSeen fails |
| `watcher` | two pools, two connections, MinAlivePeers 1, StrictGraceful | CountersAgree, AttachedIsHealthy, BrokenHasCause, NewsGoOn; 680 thousand states |
| `cluster_registry` | five pools on three addresses, all slices of distinct addresses, those that name disabled peers included | UniquePeers, RemovedIsGone and the refinement; 4 thousand states |
| `cluster_repeats` (violation) | slices that repeat an address | UniquePeers fails |
| `config_cache` | two goroutines, two paths, three lists of shards over two instances, two updates, two calls | ReloadSeesConfig, OneConnPerId, NeverOlder, BoxReturns |
| `box_session` | nine requests, two lists of fixtures, two calls, a cut in the first 60 bytes | RequestsReadBack, AnswersReadBack; 160 thousand states |
| `packet_server` | datagrams of two packets, one goroutine that answers, Shutdown and Close, queue of one, two datagrams, three answers, a writer of the MTU (3) or a larger one of the pool (4) | DatagramsWhole, AcceptedAccounted, CallsReturn |

*Channel.* `OneResultPerCall`: whoever races for a call (response, timer,
context, failed send, rejectAll), exactly one party owes its result.
`RefusedNotSent`: a caller told ErrStopped may send again on another channel,
so its packet must not be in the queue. `StopperClosedOnce`: no double close.
`StrandedOnlyBeforeCheck`: a call pushed after the store was emptied cannot stay
there. `ShutdownPacketIsLast`: no packet of a Call enters the queue behind the
shutdown packet. (A Notify, or a reply of a handler, that is past its check may.)
`HijackTakesLiveConn`: the connection handed over is open, and no read byte is
missing while the peer is open.

*ConnPool.* `SentOnce`: the loops repeat a packet only if no channel has taken
it. `CallsReturn`: the loops end although channels end and dials fail for ever.
`WaitersAreKnown`: a caller that joins a dial, at whatever moment of its end, is
on the list that will be told, or has been told. `StoppedIsEmpty`: a connection that was dialed while the pool stopped is not
stored behind the back of Shutdown or Close. `StoppedEnds`: then everything is
closed and both return. `TypeOK` has the limit of the pool's size.

*WorkerPool.* `DoneMeansDone`: a closed pool has no worker, and no stub of `cork`
was run as a task. `CallsReturn`: schedules, waits, barriers and Close.

*TaskGroup.* `AtMostN` and `CancelReachesAll` are about tasks that outlive the
Cancel that forgot them while others take their slots.

*MultiWatcher.* `CountersAgree` ties the counters to the maps and the maps to the
channels that exist. `AttachedIsHealthy`: while attached under StrictGraceful no peer
has lost its last connection rudely; one that lost another is broken and the cluster
stays attached, against the doc (`RudeClosureDetaches`, below). `BrokenHasCause`: a peer all of whose closures were
announced is never broken, and of another one as many announced closures count as rude
at most as there were rude ones, since a mark is lost to a rude closure only. `NewsGoOn`:
no lock of callbacks and no buffer of one keeps a connection from ending.

*PeerCluster.* `RemovedIsGone`: what a Reset returned as removed cannot be enabled any
more, and is listed only if it was listed and disabled before. That it is not listed at
all is the doc's word, and fails (`RemovedFromList`, below).

*ConfigCache.* `NeverOlder` is a property of steps: what replaces a cached cluster
was read after all of it. `ReloadSeesConfig`: a reload during which the config does not
change returns a cluster that was built from it: its hash is the config's, and so are
its instances unless SetShardInstances has edited them since. With such an edit Equal,
which compares the hashes, keeps the cluster (`ReloadGivesInstances`, below). Equal
does not see how instances are divided into shards, and the property does not either.

*BoxSession.* Both properties compare what one end reads with what the other had
packed, so that packing, the stream, the capacity of buffers and the way back are
checked against one another at the boundaries of BER (lengths 31, 32, 1023, 1024
with five bits in a group). `RequestsReadBack` has two exceptions: the
largest limit of a select is read as none (`AsRead`), and it says nothing of the mode
of an insert (`ButMode`), which the server reads as another one (`InsertModeReadBack`, below).

*PacketServer.* `DatagramsWhole`: the packets of a datagram are for one address, and
several of them fit the buffer of the writer, whatever its size; they may be more than
the MTU. `CallsReturn`: Shutdown and Close return although a write may block, and no
sender waits for ever once the server is stopped. `AcceptedAccounted` is an equation between what `send` took and
what is on the wire, in the buffer, in the writer's hand and in the queue, in
order.

*Bounds.* One call and one notice with a queue of one already meet the full
queue, the blocked sender and the race behind the check. Two calls would add
pairs of calls that do not share state except the queue and the store's size;
the theorems cover any number. The peer's input is bounded by one answer per
call and `PeerShutdowns` shutdown packets. In `worker_pool` a queue of one and
at most two workers meet the full queue, an extra worker and its end, and two
barriers that cross. In the pool Size 1 makes the second connection find the
pool full; each connection lives once, so a caller can lose a channel, redial
and lose the next one. One connection comes from the owner or `connect`, the
other from the dial task (`Provided`), so both kinds of StoreConn meet. Larger instances were checked while the modules were
written, without a run of their own: one Call and one Notify together (3.0
million states), two tasks with two waiters (7.1 million), two places in the
pool. Three addresses, two of them shared, meet every branch of the
merge but Dedup, which only slices that repeat an address reach (`cluster_repeats`). N 2
and three connects let a forgotten task end while its slot is taken again and
two live sub contexts are chained. Two connections of one pool or of two
pools give the watcher a mark that comes late, a closure after a removal, and a
peer that loses one of two. In `config_cache` two updates are enough for a reload
that reads an old and a new key, and two goroutines for a slow one. Mtu 3 with packets of
2 fills a writer of the MTU with one packet, and the larger one, of 4, with two: it
glues them, finds no room for the third and meets a change of address. The size 8 of
the pool is rounded to another power and never taken.

*Deadlock* is checked where the system never stops (the cluster); elsewhere it may
stop, and the liveness properties say who must go on.

### Assumptions on the environment

* A channel's `config.Init`, its callbacks and handlers return; `OnShutdown`
  callbacks are not run from inside `config.Init` by the same goroutine.
* The context of `SetContext` and of callers may end or not.
* `WriteQueueSize` is at least one (the default is 50).
* A pool's channels behave as `ChannelLife` says, which `channel_calls` checks.
* WorkerPool with `SetNoCork` is not asked for its promises (`NoCork = FALSE`);
  tasks do not themselves schedule, wait for or close their pool.
* A task of a TaskGroup may run for ever; a Goer that refuses starts nothing.
* The user's Init of a watched pool may fail; a pool is watched once, before it
  has connections (watch.go:45-47), and a connection belongs to one pool.
* The config of a program changes at any time, also between two keys of one
  path; a new value is later than the old one in `GetLastUpdateTime`.
* The datagram socket delivers what it likes; addresses are objects, as they are
  compared in the code.
* The cluster's passing run has no slice that repeats an address (`Given`): outside
  of that `cluster_repeats` shows the promise broken.
* The checksum of a cluster has no collisions, and `max-shard` is not negative.

### Fairness

Weak fairness for each goroutine's next step, since Go's scheduler runs every
goroutine that can run, and for timers, which fire. In `ConnPool` a connection
that somebody has to serve is served (`Serve`: the callbacks, the goroutines of
stopChannels, the end of a drain), and `WaitExpire` is strongly fair: the timer
of NextChannel is acquired once and runs on while the loop goes round, so its
channel is ready at every later select, and select chooses among ready cases at
random. No other property needs a select to choose a case in the end. In `MultiWatcher`
the watcher handles a change and, for each connection, its mark (the select of
`watcher()` is fair to ready cases at random, and each sender has its own
rendezvous); the goroutines of connections run on. In `ConfigCache` a released
mutex is given to a waiter and a dial ends, by its timeout. In `PacketServer` the
reader, the writer outside of writes that may block, blocked senders, owners and the
timers of Shutdown run on; datagrams need not come, and the close of the socket ends
a blocked write. In
`TaskGroup` and `BoxSession` only safety is checked. The owner is never obliged
to call, shut down or close, the peer never to answer. A write of a channel ends
because writer.go:89 sets a deadline, by WriteTimeout, as dgram.go does not; Shutdown's wait ends because it
has ShutdownTimeout (its default is not zero).

### Findings

The violation runs are disagreements of the code with its own documentation,
quoted in `PROJECT.json`: two connects that join one task, of which one never
learns that it has ended (`task_join`), and repeated addresses in a reset
(`cluster_repeats`).

### What else the comments say and the code does not keep

Each of these is a definition that TLC refutes when it is added to a cfg of its
module. They have no run of their own.

| definition | says | why it fails |
|---|---|---|
| `Channel!LastPacketsFlushed` | channel.go:770-773: `len(c.out)` is zero once stopped | a sender past its check queues after the writer's last drain; the writer exits without a flush |
| `Channel!HijackKeepsBytes` | channel.go:315, :843: buffered bytes are returned | the reader of a hijacked channel that meets EOF stores nothing |
| `WorkerPool!CallsReturn` with a waiter in `Timed` | pool.go:287-288: BarrierTimeout returns after its timeout | its barrier task may receive the only tick |
| `PeerCluster!RemovedFromList` | cluster.go:40-41: what a reset reports was removed from the list | a disabled peer that a Reset names is listed and stays disabled; the next Reset finds it twice, keeps one and reports the other: ResetAndDisableInserted([1]), Reset([1]), Reset([1]) |
| `MultiWatcher!RudeClosureDetaches` | watch.go:143-146, 153-154: a non-graceful closure detaches, attached means no broken peer | with another connection of the peer alive it breaks the peer and the cluster stays attached |
| `MultiWatcher!HealthyIsAttached` | watch.go:165-166: attached when there are enough alive peers | only a peer's first connection attaches |
| `MultiWatcher!ShutdownGoesOn` | watch.go:186-187: no deadlock on a stopped watcher | `notify` looked before the stop and sends after it, with the callbacks locked |
| `MultiWatcher!MarksWait` | watch.go:418-427: a connection that was marked is told apart when it closes | a rude closure of another connection of the peer has taken the mark |
| `PacketServer!FitsMtu` | dgram.go:25, 52-53: MaxTransmissionUnit | the pooled writer may be larger |
| `PacketServer!SendsReturn` | dgram.go:28, 54-55: WriteTimeout | it is not used: a write to a peer that does not read blocks, and with it each send |
| `PacketServer!LastDatagramFlushed` | dgram.go:236-239: `p.out` is zero once stopped | as in the channel |
| `ConfigCache!GetSeesConfig` | cluster.go:418: a config that was updated is reloaded | one `updateTime` for all paths: a reload of another path hides the update |
| `ConfigCache!ReloadGivesInstances` | cluster.go:233, 428: a config that differs from the instances replaces them | the hash is the one of the build, SetShardInstances leaves it |
| `BoxSession!InsertModeReadBack` | types.go:81-85, 207-219 and mock_server_b_test.go:155-161: the server is told the mode that was packed | `1 << mode` is packed (pack.go:235-237) and the flags are read as the mode (250-254): 1, an insert, is read as 2, a replace, and 2 as 4, no mode |
| `BoxSession!UniqMeansOne` | box.go:141-143: more than one tuple is an error | the test is for more than two |

## 5. Proofs

Eight modules hold the theorems, one for each component that is proved about; the
packet server and the sessions of octopus share `WireProofs`, since both rest on its
lemmas about sequences that are joined. Each theorem is for every value of the
constants (callers, connections, workers, tasks, queue sizes, configs, requests) that
the named assumption of its module allows, and each safety property that a passing
run checks is the statement of one. Each module has one lemma per action, or per helper
operator that several actions share, then `Init => IInv`, `IInv /\ [Next]_vars =>
IInv'` and `IInv => Inv`, and combines the three with PTL.

`ChannelProofs` (from `ChannelAssumption`):

* `TypeCorrect` comes first; the other invariants rest on it.
* `StopInv`: `c.stopper` is closed by Shutdown at one place of its program or by
  Drop if nobody had stopped the channel before; it relates the count to the
  place and to the flags. `StopperClosedOnce` follows.
* `CallInv`: for each call, the place of the caller and the three places where
  its result can be; `OneResultPerCall`, `RefusedNotSent` and
  `StrandedOnlyBeforeCheck` follow. The invariants alone are not inductive: a
  refused call must be known not to have entered the queue at the time of its
  check, and a blocked one to give up only with an exited writer or its own
  timer.
* `OrderInv`: once Shutdown has seen the store empty, each call is out of it, so
  a call between its check and the queue contradicts the closed `emptied`;
  `ShutdownPacketIsLast` follows.
* `HijackInv`: who may touch the connection at each place of Hijack, and where the
  bytes are that the reader holds: `hbuf` alone does not say whether the reader has
  still to hand it over. `HijackTakesLiveConn` follows.
* `LifeSafeHolds` is the refinement of `ChannelLife` step by step, without its
  fairness: `LifeInv` says that a result ErrStopped, given or owed, comes from a
  channel that is not open; with it each action is a step of the abstract channel
  or a stutter.

`ConnPoolProofs` (from `ConnPoolAssumption`): `TypeCorrect`, where the limit of
Size channels rests on lemmas about cardinality (`OnlineBound`); `SentOnceHolds`
from `CallerInv`, which ties the count of sends to the caller's place, since
SentOnce by itself does not say that a caller who looks for a channel has sent
nothing; and `StoppedIsEmptyHolds` and `WaitersAreKnownHolds`, which are inductive
(the latter given the types).

`TaskGroupProofs`: `SlotInv` ties each running task to the slot that names it or to
the cancelled sub context that forgot it, keeps two heeded tasks out of one slot,
and has `t.n` as the number of taken slots. The slots that one `Do` fills are given
by ranks among the free ones; the lemmas on `Rank` (monotone, injective, onto) are
by the least counterexample (`Least`), since the library's induction cannot be used.

`MultiWatcherProofs`: `WatcherInv` has, per peer, the count of the watcher plus the
message on its way against the connections that were told of (`PeerOK`); the maps
and the three counters (`MapsOK`); and per connection what its callbacks have still
to do (`ConnsOK`). `AttachedIsHealthy` needs all of it: the decision to attach reads
the counters, not the maps. `BrokenHasCause` needs that a closure in flight belongs
to a connection without a handled mark, and the count of marks that rude closures took.

`WorkerPoolProofs`: `PoolInv`. `ClosingOK` follows `cork`: the number of stubs in
the queue, the place of Close, and that a closed pool has no worker; `AcceptedOK`:
an accepted task is finished, in a worker or in the queue; `WaitOK`: for each kind
of wait, what is still ahead of it, and for a barrier that `need` covers the tokens
sent, held and yet to send (`NeedOK`). None of the three properties is inductive:
that Close returns with every task finished depends on the queue being full of
stubs, which depends on who may still take and put.

`ConfigCacheProofs`: `CacheInv`: the interval in which each cluster was read,
against the clock and the version of its path, and for a caller in `Get` what it
has read so far. `NeverOlder` is an action property from it. `ReloadSeesConfig` rests on
the hash of a cluster being that of its instances until it is edited. `OneConnPerId` has its
own `DialInv`: who holds the mutex of the connection cache while it dials.

`WireProofs`, the packet server: the sizes of packets and the concatenation of the datagrams are
recursive functions, and the module first proves that such a function exists and
what it gives for a sequence with one more element (`Recursion`, `SizeOfAppend`,
`FlattenAppend`, by `Least`). Then `FlushMeans`, `WriteMeans` and `PutMeans` say what
bufio.Writer does to the sequence on the wire and in the buffer, and `WriterInv` adds
that what is buffered is for one address and fits. A failed write is sticky, so both
properties speak of what was written before it. `TypeCorrect` includes that the
stopper is closed at most once (`StopInv`).

`WireProofs`, the formats: that what is read is what was packed, for numbers, strings
and lists of any length that an uint32 holds. A predicate, `Reads(take, x, v, d)`, says
that a reader finds v wherever the bytes x are in d. The remainders that `LE` and `BER`
write are the ones from which `TakeLE` and `Groups` build the number up again
(`LEReads`, `BERReads`; `BERIs` also says that no number takes a group too many).
`EachReads` carries `Reads` from items to lists, and so to fields, tuples, operations
and the five requests (`InsertRead` to `UpdateRead`). `CapacityHolds`: the buffer that
is made for a request holds it, which rests on `FieldFits`, where the powers of
`ByteLen` meet the groups of BER. `PacketTaken`: a packet that is taken from the
beginning of a stream is the one that was written, wherever the stream was cut.
`ResponseReads` and `ResponseCut`: ProcessResp gives the tuples that a response was
made of, and fails on one that is cut behind its status or is empty. For the latter,
the tuples before the cut are read and the one that it hits fails, at its size, its
count or its length (`RespTupleCut`).

`WireProofs`, the sessions (from `SessionAssumption` and `WireAssumption`): the bytes on
their way are not determined by the other variables once the connection is broken. So
`SessionInv` says of each direction that something, which was lost, would complete them
to the packets that remain, and that nothing is lost while the connection holds
(`Came`). With it each packet that is read is the next one (`CamePacket`), and each
request that is handled and each answer that is read is what was packed at its index:
`RequestsReadBackHolds` and `AnswersReadBackHolds`. One lemma per action
(`AskStep`, `ServerReadStep`, `ClientReadStep`, `BreakStep`) keeps the invariant.

`SessionAssumption` has what the code takes for granted: lengths of bodies, tuples and
responses are below 2^32, as are the calls (each has a sync of its own); a fixture's
response is one of CreateFixture or is cut as above; and the Unpack of a user's own
packet reads its Pack. TLC evaluates it in `box_session`, where it takes the last part
from `Codec`.

`PeerClusterProofs` (from `ClusterAssumption`, and for the theorems `GivenAssumption`:
no slice given to Reset repeats an address; `cluster_registry` is run in the same
situation, and outside it the properties fail, as `cluster_repeats` shows; slices that
name disabled peers are included). `Recursion` proves that the function of the turns of the merge exists. The
merge has an invariant over its turns, `Progress`: the pieces keep their length, what
is left of each half rises, none of it was already taken from the other half, and
what was taken is parted into created, kept and removed. A pool may be at two places of
the merged list, when it is listed and disabled; the lemmas carry the set of such pools
(`IsMixOf`, `ListIsMix`), of which one place is kept and the other removed. Each kind of
turn keeps the invariant (`DropKeeps`, `CreateKeeps`, `KeepKeeps`), and at the end of the
merge it is what Reset returns as equations between sets (`MergeMeans`). The sequences of Insert,
RemovePool, Disable and Enable get lemmas of the same form (`AppendIs`, `ConcatIs`,
`RemoveAtIs`). `ClusterInv`, that neither the list nor the disabled peers have an address
twice, and that two pools of one address are the same pool across both, is inductive;
`RemovedIsGone` follows for each step. `ImplementsRegistryHolds` is
the whole refinement of `PeerRegistry`, which states no fairness.

What the proofs assume beyond the runs is only that values that stand for nothing
are no values (`None` is no caller, task or packet, `"owner"` no caller). For their
sake three definitions choose an element where they used to filter or recur:
`WorkerPool!Unlist` and `PeerCluster!RemovePeer` remove the element at an index, as
the code does, and `PacketServer!SizeOf` is a recursive function. The readers of `Wire` and `Octopus` are
functions of the position, so that lists are read without a recursive operator.

Only model-checked:

* the liveness properties, and with them the fairness of ChannelLife: TLAPS does not
  reason about ENABLED;
* `PeerCluster` with slices that repeat an address;
* that Unpack reads what Pack has written of a user's own type, which `Codec` has as
  recursive operators (a struct of slices of integers, in `box_session`).

## 6. Not modelled

See the components with status `not_modelled` in `PROJECT.json`.

* The stream server and its handlers: an accept loop and wrappers without state;
  what the channel's reader runs inline is in `Channel`.
* The registry and the pinger: the repository has a singleton, options and the
  parameters of a pinger whose loop is the program's.
* Of modelled components: Cluster.Unicast, WatchPoolConnCount and Multitask
  (unused), the throttle's clock, the retry interval of the dialer, Start and
  Stop of the mock server, CheckShardInstance, the default config.
* Logging, metrics, the serializers (calls of libraries), the generated mocks and
  the text generation of argen.
