---------------------------- MODULE ConfigCache -----------------------------
(***************************************************************************)
(* How octopus.Box finds a connection: the config cacher and the cluster   *)
(* it loads (pkg/activerecord/cluster.go over an external config that      *)
(* changes), the instance picked (octopus/box.go), and the cache of        *)
(* connections (pkg/activerecord/connection.go).                           *)
(*                                                                         *)
(* Callers run Box.  A step ends where another goroutine can see or change *)
(* what the next one uses: a section of a lock, a key of the config that   *)
(* is read, the dial.  An instance is its ParamsID; a shard is the list of *)
(* its masters; a cluster is the list of its shards.                       *)
(***************************************************************************)
EXTENDS Integers, Sequences, SequencesExt

CONSTANTS
    Callers,    \* goroutines that run Box
    Paths,      \* the config paths of the models
    Clusters,   \* bound: the lists of shards that the config may give a path
    First,      \* the one that every path begins with
    Ids,        \* the ParamsIDs in them
    MaxUpdates, \* bound: the updates of the config and of the instances
    MaxCalls,   \* bound: the calls of Box
    None

ASSUME ConfigCacheAssumption ==
    /\ First \in Clusters /\ Clusters \subseteq Seq(Seq(Ids))
    /\ MaxUpdates \in Nat /\ MaxCalls \in Nat
    /\ None \notin Callers \cup Ids \cup {"owner"} /\ "owner" \notin Callers

VARIABLES
    now,        \* the clock
    cfg,        \* the config: the shards of each path
    cfgTime,    \* Config().GetLastUpdateTime()
    version,    \* history: how often each path of the config was updated
    updates,    \* the updates so far
    clusters,   \* the Cluster objects that were stored
    container,  \* DefaultConfigCacher.container: an index of clusters, or 0
    updateTime, \* DefaultConfigCacher.updateTime
    lock,       \* who holds DefaultConfigCacher.lock for writing
    conns,      \* connectionPool.container: "none", "open" or "closed"
    dials,      \* history: the connections made for each ParamsID
    connLock,   \* who holds connectionPool.lock
    pc,         \* callers: program counter
    call,       \* callers: the local variables of Box and Get, None outside
    calls       \* the calls so far

config == <<cfg, cfgTime, version, updates>>
cacher == <<clusters, container, updateTime, lock>>
pool   == <<conns, dials, connLock>>
caller == <<pc, call, calls>>
vars   == <<now, config, cacher, pool, caller>>

Goto(a, l) == pc' = [pc EXCEPT ![a] = l]
Return(a) == Goto(a, "idle") /\ call' = [call EXCEPT ![a] = None]

\* Cluster.Append writes every ParamsID into one checksum: Equal compares the
\* lists of all instances, whatever shards they are in.  (The checksum stands for
\* the list: that CRC32 and the concatenation of the ParamsIDs tell two lists apart
\* is assumed.)
Hash(shards) == FlattenSeq(shards)

-----------------------------------------------------------------------------
(* The config, outside of the code: another source of it is read under the
   same interface, one key at a time.  time.Now() is later at each call.     *)

Tick == now' = now + 1

Update(p, c) ==
    /\ updates < MaxUpdates
    /\ c # cfg[p]
    /\ Tick
    /\ cfg' = [cfg EXCEPT ![p] = c]
    /\ cfgTime' = now'
    /\ version' = [version EXCEPT ![p] = @ + 1]
    /\ updates' = updates + 1
    /\ UNCHANGED <<cacher, pool, caller>>

-----------------------------------------------------------------------------
(* DefaultConfigCacher.Get *)

\* Box begins; Get's section under RLock.  (conf 0 is nil; since is a history.)
GetRead(a, p) ==
    /\ pc[a] = "idle" /\ calls < MaxCalls
    /\ lock = None
    /\ call' = [call EXCEPT ![a] =
           [path |-> p, conf |-> container[p], seen |-> updateTime,
            new |-> None, inst |-> None, since |-> version[p]]]
    /\ calls' = calls + 1
    /\ Goto(a, "get")
    /\ UNCHANGED <<now, config, cacher, pool>>

\* Mutant of GetTest: the lock is taken and the keys read at once.
GetTestLoads(a) ==
    /\ pc[a] = "get"
    /\ IF call[a].conf = 0 \/ call[a].seen < cfgTime
       THEN /\ Goto(a, "lock")
            /\ call' = [call EXCEPT ![a].new =
                   [shards |-> cfg[call[a].path], max |-> Len(cfg[call[a].path]),
                    from |-> version[call[a].path], upto |-> version[call[a].path]]]
       ELSE Goto(a, "pick") /\ UNCHANGED call
    /\ UNCHANGED <<now, config, cacher, pool, calls>>

\* The test of GetLastUpdateTime, after RUnlock.
GetTest(a) ==
    /\ pc[a] = "get"
    /\ Goto(a, IF call[a].conf = 0 \/ call[a].seen < cfgTime THEN "lock" ELSE "pick")
    /\ UNCHANGED <<now, config, cacher, pool, call, calls>>

\* cc.lock.Lock(), and GetClusterInfoFromCfg reads max-shard.  (It is not negative:
\* NewCluster would panic, with the lock held.)
GetLock(a) ==
    /\ pc[a] = "lock" /\ lock = None
    /\ lock' = a
    /\ call' = [call EXCEPT ![a].new =
           IF @ # None THEN @ ELSE
           [shards |-> << >>, max |-> Len(cfg[call[a].path]),
            from |-> version[call[a].path], upto |-> version[call[a].path]]]
    /\ Goto(a, "load")
    /\ UNCHANGED <<now, config, clusters, container, updateTime, pool, calls>>

Loaded(a) == pc[a] = "load" /\ Len(call[a].new.shards) = call[a].new.max

\* Mutant of GetLoad: an error returns without Unlock.
GetLoadKeepsLock(a) ==
    LET shards == cfg[call[a].path]
        i      == Len(call[a].new.shards) + 1
    IN  /\ pc[a] = "load" /\ ~Loaded(a)
        /\ IF i <= Len(shards)
           THEN /\ call' = [call EXCEPT ![a].new.shards = Append(@, shards[i]),
                                        ![a].new.upto = version[call[a].path]]
                /\ UNCHANGED pc
           ELSE Return(a)
        /\ UNCHANGED <<now, config, cacher, pool, calls>>

\* getShardInfoFromCfg of the next shard, its keys in one step.  They may be gone:
\* an error.
GetLoad(a) ==
    LET shards == cfg[call[a].path]
        i      == Len(call[a].new.shards) + 1
    IN  /\ pc[a] = "load" /\ ~Loaded(a)
        /\ IF i <= Len(shards)
           THEN /\ call' = [call EXCEPT ![a].new.shards = Append(@, shards[i]),
                                        ![a].new.upto = version[call[a].path]]
                /\ UNCHANGED <<pc, lock>>
           ELSE Return(a) /\ lock' = None
        /\ UNCHANGED <<now, config, clusters, container, updateTime, pool, calls>>

\* Mutant of SameAs: whatever was found before the lock will do.
SameAsAny(c, shards) == c # 0

\* newConf.Equal(conf): false for nil.
SameAs(c, shards) == c # 0 /\ clusters[c].hash = Hash(shards)

\* The end of the section: a cluster that differs from the one found before the
\* lock is stored, with the time of now for every path.
GetStore(a) ==
    LET new == call[a].new
    IN  /\ Loaded(a)
        /\ IF SameAs(call[a].conf, new.shards)
           THEN UNCHANGED <<now, clusters, container, updateTime, call>>
           ELSE /\ Tick
                /\ clusters' = Append(clusters,
                       [shards |-> new.shards, hash |-> Hash(new.shards),
                        edited |-> FALSE, from |-> new.from, upto |-> new.upto])
                /\ container' = [container EXCEPT ![call[a].path] = Len(clusters')]
                /\ call' = [call EXCEPT ![a].conf = Len(clusters')]
                /\ updateTime' = now'
        /\ lock' = None
        /\ Goto(a, "pick")
        /\ UNCHANGED <<config, pool, calls>>

\* Cluster.SetShardInstances, for a pinger of the program that takes an instance
\* out: the checksum stays.  (edited is a history.)
SetShardInstances(c, s) ==
    /\ c \in 1..Len(clusters) /\ s \in 1..Len(clusters[c].shards)
    /\ clusters[c].shards[s] # << >>
    /\ updates < MaxUpdates
    /\ clusters' = [clusters EXCEPT ![c].shards[s] = Tail(@), ![c].edited = TRUE]
    /\ updates' = updates + 1
    /\ UNCHANGED <<now, cfg, cfgTime, version, container, updateTime, lock, pool, caller>>

-----------------------------------------------------------------------------
(* Box: an instance of the shard, and its connection *)

\* NextMaster and NextReplica: an atomic counter that all callers turn, so that
\* any instance may be the next one.  (One that is offline is not in the list.)
NextOf(shard) == Range(shard)

\* The number s of the shard is tested with < only: one too many is an index out
\* of range, and a shard with nobody in it panics.
Pick(a) ==
    LET shards == clusters[call[a].conf].shards
    IN  /\ pc[a] = "pick"
        /\ \E s \in 0..Len(shards) + 1 :
               \/ s > Len(shards) /\ Return(a)
               \/ /\ s = Len(shards) \/ (s < Len(shards) /\ shards[s + 1] = << >>)
                  /\ Goto(a, "panic") /\ call' = [call EXCEPT ![a] = None]
               \/ /\ s < Len(shards)
                  /\ \E i \in NextOf(shards[s + 1]) :
                        call' = [call EXCEPT ![a].inst = i]
                  /\ Goto(a, "conn")
        /\ UNCHANGED <<now, config, cacher, pool, calls>>

\* Mutant of GetOrAdd: the dial goes on without the lock.
GetOrAddUnlocked(a) ==
    /\ pc[a] = "conn" /\ connLock = None
    /\ IF conns[call[a].inst] = "none" THEN Goto(a, "dial") /\ UNCHANGED call
                                       ELSE Return(a)
    /\ UNCHANGED <<now, config, cacher, pool, calls>>

\* connectionPool.GetOrAdd finds the connection, closed or not, or dials with
\* the lock held.
GetOrAdd(a) ==
    /\ pc[a] = "conn" /\ connLock = None
    /\ IF conns[call[a].inst] = "none"
       THEN connLock' = a /\ Goto(a, "dial") /\ UNCHANGED call
       ELSE Return(a) /\ UNCHANGED connLock
    /\ UNCHANGED <<now, config, cacher, conns, dials, calls>>

\* The connector (octopus.GetConnection) ends: an error stores nothing.
Connector(a) ==
    LET i == call[a].inst
    IN  /\ pc[a] = "dial"
        /\ \/ /\ conns' = [conns EXCEPT ![i] = "open"]
              /\ dials' = [dials EXCEPT ![i] = @ + 1]
           \/ UNCHANGED <<conns, dials>>
        /\ connLock' = None
        /\ Return(a)
        /\ UNCHANGED <<now, config, cacher, calls>>

\* CloseConnection closes every connection and waits for them under the lock;
\* they stay in the container.
CloseConnection ==
    /\ connLock = None /\ \E i \in Ids : conns[i] = "open"
    /\ connLock' = "owner"
    /\ conns' = [i \in Ids |-> IF conns[i] = "open" THEN "closed" ELSE conns[i]]
    /\ UNCHANGED <<now, config, cacher, dials, caller>>

CloseDone ==
    /\ connLock = "owner"
    /\ connLock' = None
    /\ UNCHANGED <<now, config, cacher, conns, dials, caller>>

-----------------------------------------------------------------------------
Init ==
    /\ now = 0 /\ cfgTime = 0 /\ updateTime = 0 /\ updates = 0 /\ calls = 0
    /\ cfg = [p \in Paths |-> First]
    /\ version = [p \in Paths |-> 0]
    /\ clusters = << >>
    /\ container = [p \in Paths |-> 0]
    /\ lock = None /\ connLock = None
    /\ conns = [i \in Ids |-> "none"]
    /\ dials = [i \in Ids |-> 0]
    /\ pc = [a \in Callers |-> "idle"]
    /\ call = [a \in Callers |-> None]

Getting(a) == GetTest(a) \/ GetLock(a) \/ GetLoad(a) \/ GetStore(a)
Boxing(a) == Getting(a) \/ Pick(a) \/ GetOrAdd(a) \/ Connector(a)

Next ==
    \/ \E p \in Paths, c \in Clusters : Update(p, c)
    \/ \E a \in Callers, p \in Paths : GetRead(a, p)
    \/ \E a \in Callers : Boxing(a)
    \/ \E c \in 1..Len(clusters), s \in 1..2 : SetShardInstances(c, s)
    \/ CloseConnection \/ CloseDone

Spec == Init /\ [][Next]_vars

\* Goroutines run, a locked mutex is given to a waiter, a dial ends (it has a
\* timeout) and a closed pool is done (ConnPool).
LiveSpec ==
    /\ Spec /\ WF_vars(CloseDone)
    /\ \A a \in Callers : WF_vars(Boxing(a))

-----------------------------------------------------------------------------
(* Properties *)

TypeOK ==
    /\ now \in Nat /\ cfgTime \in 0..now /\ updateTime \in 0..now
    /\ cfg \in [Paths -> Clusters]
    /\ version \in [Paths -> 0..MaxUpdates]
    /\ container \in [Paths -> 0..Len(clusters)]
    /\ lock \in Callers \cup {None} /\ connLock \in Callers \cup {None, "owner"}
    /\ conns \in [Ids -> {"none", "open", "closed"}]
    /\ pc \in [Callers -> {"idle", "get", "lock", "load", "pick", "conn", "dial", "panic"}]

\* What the cache holds for a path is replaced only by what was read later: no
\* part of the new cluster was read before a part of the old one, although the
\* decision to reload was taken before the lock (cluster.go:413-437).
NeverOlder ==
    [][\A p \in Paths :
         container[p] # 0 /\ container'[p] # container[p] =>
             clusters'[container'[p]].from >= clusters[container[p]].upto]_vars

\* A Get that reloads while its path is not updated returns a cluster that was built
\* from the instances of the config, be it the new one or one that it found equal,
\* and it has them still unless the program has replaced instances of this very
\* cluster.  How they are divided into shards may be older: Equal does not see it.
ReloadSeesConfig ==
    \A a \in Callers :
        pc[a] = "pick" /\ call[a].new # None
            /\ call[a].new.from = version[call[a].path] =>
            LET c    == clusters[call[a].conf]
                want == Hash(cfg[call[a].path])
            IN  c.hash = want /\ (c.edited \/ Hash(c.shards) = want)

\* What the comments make of a reload (in Russian): Equal compares "the checksum of all
\* instances of the cluster" (cluster.go:233) and, "if the configuration has changed",
\* it is replaced in the cache (428): Get ends with the instances of the config.
ReloadGivesInstances ==
    [][\A a \in Callers :
         pc[a] = "load" /\ pc'[a] = "pick" /\ call[a].new.from = version[call[a].path] =>
             Hash(clusters'[call'[a].conf].shards) = Hash(cfg[call[a].path])]_vars

\* However many callers ask at once, and whatever the config and CloseConnection
\* do, a ParamsID is connected once (connection.go:57-69).
OneConnPerId == \A i \in Ids : dials[i] <= 1

\* Box returns, with an error or not, or panics: no way out keeps a lock.
BoxReturns ==
    \A a \in Callers : (pc[a] # "idle") ~> (pc[a] \in {"idle", "panic"})

\* "If the configuration is not in the cache or was updated, reload it"
\* (cluster.go:421): a Get during which its path is not updated returns the
\* instances of the config.
GetSeesConfig ==
    \A a \in Callers :
        pc[a] = "pick" /\ call[a].since = version[call[a].path] =>
            clusters[call[a].conf].hash = Hash(cfg[call[a].path])
=============================================================================
