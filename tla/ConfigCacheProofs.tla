-------------------------- MODULE ConfigCacheProofs --------------------------
(* What ConfigCache.tla states of the cache of clusters and of the cache of    *)
(* connections, proved for any callers, paths, clusters and bounds.            *)
EXTENDS ConfigCache, SequenceTheorems, TLAPS

USE ConfigCacheAssumption

-----------------------------------------------------------------------------
(* The cache of connections *)

Labels == {"idle", "get", "lock", "load", "pick", "conn", "dial", "panic"}

\* A caller that dials holds connLock, and the ParamsID it dials has no
\* connection until it stores one.
DialInv ==
    /\ conns \in [Ids -> {"none", "open", "closed"}]
    /\ dials \in [Ids -> Nat]
    /\ pc \in [Callers -> Labels]
    /\ DOMAIN call = Callers
    /\ \A i \in Ids : dials[i] <= 1 /\ (conns[i] = "none" => dials[i] = 0)
    /\ \A a \in Callers : pc[a] = "dial" =>
           connLock = a /\ (call[a].inst \in Ids => conns[call[a].inst] = "none")

\* Steps outside of GetOrAdd and of the connector: their caller does not dial.
LEMMA QuietDial ==
    ASSUME DialInv, NEW a \in Callers, pc[a] # "dial",
           NEW l \in Labels \ {"dial"}, pc' = pc \/ Goto(a, l),
           DOMAIN call' = Callers, \A b \in Callers \ {a} : call'[b] = call[b],
           UNCHANGED pool
    PROVE  DialInv'
<1>1. \A b \in Callers : pc'[b] = "dial" => b # a /\ pc[b] = "dial"
  BY DEF DialInv, Goto
<1>2. pc' \in [Callers -> Labels]
  BY DEF DialInv, Goto
<1>3. UNCHANGED <<conns, dials, connLock>>
  BY DEF pool
<1> QED BY <1>1, <1>2, <1>3 DEF DialInv

\* Every step keeps DialInv.
LEMMA DialStep ==
    ASSUME DialInv, [Next]_vars
    PROVE  DialInv'
<1> USE DEF Labels
<1>1. CASE UNCHANGED <<pool, pc, call>>
  BY <1>1 DEF DialInv, pool
<1>2. ASSUME NEW a \in Callers, NEW p \in Paths, GetRead(a, p) PROVE DialInv'
  <2>1. pc[a] # "dial" /\ Goto(a, "get") /\ UNCHANGED pool
    BY <1>2 DEF GetRead
  <2>2. PICK r : call' = [call EXCEPT ![a] = r]
    BY <1>2, Zenon DEF GetRead
  <2>3. DOMAIN call' = Callers /\ \A b \in Callers \ {a} : call'[b] = call[b]
    BY <2>2 DEF DialInv
  <2> QED BY <2>1, <2>3, QuietDial
<1>3. ASSUME NEW a \in Callers, GetTest(a) PROVE DialInv'
  <2>1. pc[a] # "dial" /\ (Goto(a, "lock") \/ Goto(a, "pick")) /\ UNCHANGED <<pool, call>>
    BY <1>3 DEF GetTest
  <2> QED BY <2>1, QuietDial DEF DialInv
<1>4. ASSUME NEW a \in Callers, GetLock(a) PROVE DialInv'
  <2>1. pc[a] # "dial" /\ Goto(a, "load") /\ UNCHANGED pool
    BY <1>4 DEF GetLock
  <2>2. PICK r : call' = [call EXCEPT ![a] = r]
    BY <1>4, Zenon DEF GetLock
  <2>3. DOMAIN call' = Callers /\ \A b \in Callers \ {a} : call'[b] = call[b]
    BY <2>2 DEF DialInv
  <2> QED BY <2>1, <2>3, QuietDial
<1>5. ASSUME NEW a \in Callers, GetLoad(a) PROVE DialInv'
  <2>1. pc[a] # "dial" /\ (pc' = pc \/ Goto(a, "idle")) /\ UNCHANGED pool
    BY <1>5 DEF GetLoad, Return
  <2>2. PICK r : call' = [call EXCEPT ![a] = r]
    BY <1>5, Zenon DEF GetLoad, Return
  <2>3. DOMAIN call' = Callers /\ \A b \in Callers \ {a} : call'[b] = call[b]
    BY <2>2 DEF DialInv
  <2> QED BY <2>1, <2>3, QuietDial
<1>6. ASSUME NEW a \in Callers, GetStore(a) PROVE DialInv'
  <2>1. pc[a] # "dial" /\ Goto(a, "pick") /\ UNCHANGED pool
    BY <1>6 DEF GetStore, Loaded
  <2>2. call' = call \/ \E r : call' = [call EXCEPT ![a] = r]
    BY <1>6, Zenon DEF GetStore
  <2>3. DOMAIN call' = Callers /\ \A b \in Callers \ {a} : call'[b] = call[b]
    BY <2>2 DEF DialInv
  <2> QED BY <2>1, <2>3, QuietDial
<1>7. ASSUME NEW a \in Callers, Pick(a) PROVE DialInv'
  <2>1. pc[a] = "pick" /\ UNCHANGED pool
        /\ (Goto(a, "idle") \/ Goto(a, "panic") \/ Goto(a, "conn"))
    BY <1>7, Zenon DEF Pick, Return
  <2>2. PICK r : call' = [call EXCEPT ![a] = r]
    BY <1>7, Zenon DEF Pick, Return
  <2>3. DOMAIN call' = Callers /\ \A b \in Callers \ {a} : call'[b] = call[b]
    BY <2>2 DEF DialInv
  <2> QED BY <2>1, <2>3, QuietDial
<1>8. ASSUME NEW a \in Callers, GetOrAdd(a) PROVE DialInv'
  <2>1. pc[a] = "conn" /\ connLock = None /\ UNCHANGED <<conns, dials>>
    BY <1>8 DEF GetOrAdd
  <2>2. \A b \in Callers : pc[b] # "dial"
    BY <2>1 DEF DialInv
  <2>3. CASE conns[call[a].inst] = "none"
    <3>1. connLock' = a /\ Goto(a, "dial") /\ UNCHANGED call
      BY <1>8, <2>3, Zenon DEF GetOrAdd
    <3> QED BY <2>1, <2>2, <2>3, <3>1 DEF DialInv, Goto
  <2>4. CASE conns[call[a].inst] # "none"
    <3>1. Return(a) /\ UNCHANGED connLock
      BY <1>8, <2>4, Zenon DEF GetOrAdd
    <3> QED BY <2>1, <2>2, <3>1 DEF DialInv, Return, Goto
  <2> QED BY <2>3, <2>4
<1>9. ASSUME NEW a \in Callers, Connector(a) PROVE DialInv'
  <2>1. pc[a] = "dial" /\ connLock' = None /\ Return(a)
    BY <1>9 DEF Connector
  <2>2. /\ connLock = a
        /\ call[a].inst \in Ids => conns[call[a].inst] = "none"
        /\ \A b \in Callers \ {a} : pc[b] # "dial"
    BY <2>1 DEF DialInv
  <2>3. /\ conns' \in [Ids -> {"none", "open", "closed"}] /\ dials' \in [Ids -> Nat]
        /\ \A i \in Ids : dials'[i] <= 1 /\ (conns'[i] = "none" => dials'[i] = 0)
    <3>1. CASE UNCHANGED <<conns, dials>>
      BY <3>1 DEF DialInv
    <3>2. CASE /\ conns' = [conns EXCEPT ![call[a].inst] = "open"]
               /\ dials' = [dials EXCEPT ![call[a].inst] = @ + 1]
      <4> DEFINE i == call[a].inst
      <4>1. CASE i \in Ids
        <5>1. dials[i] = 0
          BY <2>2, <4>1 DEF DialInv
        <5> HIDE DEF i
        <5>2. dials'[i] = 1 /\ conns'[i] = "open"
          BY <3>2, <4>1, <5>1 DEF i, DialInv
        <5>3. \A j \in Ids \ {i} : dials'[j] = dials[j] /\ conns'[j] = conns[j]
          BY <3>2 DEF i, DialInv
        <5>4. dials' = [dials EXCEPT ![i] = 1]
          BY <3>2, <5>1 DEF i
        <5>5. dials' \in [Ids -> Nat]
          BY <5>4 DEF DialInv
        <5>6. conns' = [conns EXCEPT ![i] = "open"]
          BY <3>2 DEF i
        <5>7. conns' \in [Ids -> {"none", "open", "closed"}]
          BY <5>6 DEF DialInv
        <5> QED BY <5>2, <5>3, <5>5, <5>7 DEF DialInv
      <4>2. CASE i \notin Ids
        <5>1. conns' = conns /\ dials' = dials
          BY <3>2, <4>2 DEF DialInv
        <5> QED BY <5>1 DEF DialInv
      <4> QED BY <4>1, <4>2
    <3> QED BY <1>9, <3>1, <3>2, Zenon DEF Connector
  <2>4. \A b \in Callers : pc'[b] # "dial"
    BY <2>1, <2>2 DEF DialInv, Return, Goto
  <2>5. /\ pc' \in [Callers -> Labels]
        /\ DOMAIN call' = Callers
    BY <2>1 DEF DialInv, Return, Goto
  <2> QED BY <2>3, <2>4, <2>5 DEF DialInv
<1>10. ASSUME CloseConnection PROVE DialInv'
  <2>1. /\ connLock = None
        /\ conns' = [i \in Ids |-> IF conns[i] = "open" THEN "closed" ELSE conns[i]]
        /\ UNCHANGED <<dials, pc, call>>
    BY <1>10 DEF CloseConnection, caller
  <2>2. \A b \in Callers : pc[b] # "dial"
    BY <2>1 DEF DialInv
  <2> QED BY <2>1, <2>2 DEF DialInv
<1>11. ASSUME CloseDone PROVE DialInv'
  <2>1. connLock = "owner" /\ UNCHANGED <<conns, dials, pc, call>>
    BY <1>11 DEF CloseDone, caller
  <2>2. \A b \in Callers : pc[b] # "dial"
    BY <2>1 DEF DialInv
  <2> QED BY <2>1, <2>2 DEF DialInv
<1>12. ASSUME NEW p \in Paths, NEW c \in Clusters, Update(p, c) PROVE DialInv'
  BY <1>1, <1>12, Zenon DEF Update, caller
<1>13. ASSUME NEW c \in 1..Len(clusters), NEW s \in 1..2, SetShardInstances(c, s) PROVE DialInv'
  BY <1>1, <1>13, Zenon DEF SetShardInstances, caller
<1>14. CASE UNCHANGED vars
  BY <1>1, <1>14, Zenon DEF vars, caller
<1> QED
  BY <1>2, <1>3, <1>4, <1>5, <1>6, <1>7, <1>8, <1>9, <1>10, <1>11, <1>12, <1>13, <1>14
     DEF Next, Boxing, Getting

\* Whatever the callers, the config and CloseConnection do, no ParamsID is
\* connected twice.
THEOREM OneConnPerIdHolds == Spec => []OneConnPerId
<1>1. Init => DialInv
  BY DEF Init, DialInv, Labels
<1>2. DialInv /\ [Next]_vars => DialInv'
  BY DialStep
<1>3. DialInv => OneConnPerId
  BY DEF DialInv, OneConnPerId
<1> QED BY <1>1, <1>2, <1>3, PTL DEF Spec

-----------------------------------------------------------------------------
(* The cache of clusters *)

Shards == Seq(Seq(Ids))
Stored == [shards : Shards, hash : {Hash(s) : s \in Shards}, edited : BOOLEAN,
           from : Nat, upto : Nat]
\* The checksum is the one of the shards until the program replaces instances.
ClusterRec == {r \in Stored : r.edited \/ r.hash = Hash(r.shards)}
NewRec == [shards : Shards, max : Nat, from : Nat, upto : Nat]
CallRec == [path : Paths, conf : Nat, seen : Nat, new : NewRec \cup {None},
            inst : Ids \cup {None}, since : Nat]

\* A cluster in the cache was read of versions of its path that there were.
CacheType ==
    /\ clusters \in Seq(ClusterRec)
    /\ cfg \in [Paths -> Clusters]
    /\ version \in [Paths -> Nat]
    /\ container \in [Paths -> Nat]
    /\ \A p \in Paths : container[p] <= Len(clusters)
    /\ \A p \in Paths : container[p] # 0 => clusters[container[p]].upto <= version[p]
    /\ updateTime \in Nat /\ now \in Nat
    /\ pc \in [Callers -> Labels]
    /\ DOMAIN call = Callers

\* A caller that loads holds the lock.  Its list of shards begins as the one of
\* the config, unless the path was updated since, and no part of it was read
\* before a part of the cluster that it may replace.
Loading(a) ==
    LET path == call[a].path
        new  == call[a].new
    IN  /\ lock = a
        /\ new \in NewRec
        /\ new.from <= new.upto /\ new.upto <= version[path]
        /\ container[path] # 0 => clusters[container[path]].upto <= new.from
        /\ new.from = version[path] =>
              /\ new.max = Len(cfg[path])
              /\ \A i \in 1..Len(new.shards) : i <= new.max => new.shards[i] = cfg[path][i]

\* A caller that has loaded, whatever has been updated since.
Reloaded(a) ==
    LET path == call[a].path
        new  == call[a].new
    IN  /\ new \in NewRec
        /\ new.from <= version[path]
        /\ new.from = version[path] => clusters[call[a].conf].hash = Hash(cfg[path])

CallerOK(a) ==
    /\ pc[a] \notin {"idle", "panic"} => call[a] \in CallRec /\ call[a].conf <= Len(clusters)
    /\ pc[a] \in {"get", "lock"} => call[a].new = None
    /\ pc[a] = "load" => Loading(a)
    /\ pc[a] = "pick" => call[a].conf # 0
    /\ pc[a] = "pick" /\ call[a].new # None => Reloaded(a)

CacheInv == CacheType /\ \A a \in Callers : CallerOK(a)

\* The clusters that are stored stay, with their checksum and their versions.
Grows ==
    /\ Len(clusters') \in Nat /\ Len(clusters) <= Len(clusters')
    /\ \A c \in 1..Len(clusters) :
          clusters'[c].hash = clusters[c].hash /\ clusters'[c].upto = clusters[c].upto

\* A caller is not disturbed by a step of another one.
LEMMA CallerFrame ==
    ASSUME CacheInv, Grows, NEW b \in Callers, pc'[b] = pc[b], call'[b] = call[b],
           UNCHANGED <<cfg, version>>, pc[b] = "load" => UNCHANGED <<lock, container>>
    PROVE  CallerOK(b)'
<1>1. CallerOK(b) /\ Len(clusters) \in Nat /\ container \in [Paths -> Nat]
      /\ \A p \in Paths : container[p] <= Len(clusters)
  BY LenProperties DEF CacheInv, CacheType
<1>2. (pc[b] \notin {"idle", "panic"} => call[b] \in CallRec /\ call[b].conf <= Len(clusters))'
  BY <1>1 DEF CallerOK, Grows, CallRec
<1>3. ASSUME pc[b] = "load" PROVE Loading(b)'
  <2>1. Loading(b) /\ call[b].path \in Paths
    BY <1>1, <1>3 DEF CallerOK, CallRec
  <2>2. container[call[b].path] # 0 => container[call[b].path] \in 1..Len(clusters)
    BY <1>1, <2>1
  <2> QED BY <1>3, <2>1, <2>2 DEF Loading, Grows
<1>4. ASSUME pc[b] = "pick" PROVE call[b].conf \in 1..Len(clusters)
  BY <1>1, <1>4 DEF CallerOK, CallRec
<1>5. ASSUME pc[b] = "pick", call[b].new # None PROVE Reloaded(b)'
  BY <1>1, <1>4, <1>5 DEF CallerOK, Reloaded, Grows
<1> QED BY <1>1, <1>2, <1>3, <1>5 DEF CallerOK

\* A step that leaves the clusters and the config alone: what remains is its caller.
LEMMA CallerMove ==
    ASSUME CacheInv, NEW a \in Callers, NEW l \in Labels, pc' = [pc EXCEPT ![a] = l],
           UNCHANGED <<clusters, cfg, version, container, updateTime, now>>,
           DOMAIN call' = Callers, \A b \in Callers \ {a} : call'[b] = call[b],
           \A b \in Callers \ {a} : pc[b] = "load" => UNCHANGED lock,
           CallerOK(a)'
    PROVE  CacheInv'
<1>1. CacheType'
  BY DEF CacheInv, CacheType
<1>2. Grows
  BY LenProperties DEF Grows, CacheInv, CacheType
<1>3. \A b \in Callers \ {a} : pc'[b] = pc[b]
  BY DEF CacheInv, CacheType
<1>4. \A b \in Callers \ {a} : CallerOK(b)'
  BY <1>2, <1>3, CallerFrame
<1> QED BY <1>1, <1>4 DEF CacheInv

\* Every step keeps CacheInv, one lemma for each step of Get that loads.
LEMMA LockCache ==
    ASSUME CacheInv, NEW a \in Callers, GetLock(a)
    PROVE  CacheInv'
<1> DEFINE path == call[a].path
           new  == [shards |-> << >>, max |-> Len(cfg[path]), from |-> version[path],
                    upto |-> version[path]]
<1>1. pc[a] = "lock" /\ lock = None /\ lock' = a /\ pc' = [pc EXCEPT ![a] = "load"]
  BY DEF GetLock, Goto
<1>2. call[a] \in CallRec /\ call[a].new = None /\ call[a].conf <= Len(clusters)
  BY <1>1 DEF CacheInv, CallerOK
<1>3. UNCHANGED <<clusters, cfg, version, container, updateTime, now>>
  BY Zenon DEF GetLock, config
<1>4. path \in Paths /\ cfg[path] \in Shards /\ version[path] \in Nat
  BY <1>2 DEF CallRec, CacheInv, CacheType, Shards
<1>5. new \in NewRec
  BY <1>4, EmptySeq, LenProperties DEF NewRec, Shards
<1>6. call' = [call EXCEPT ![a].new = new]
  BY <1>2 DEF GetLock
<1>7. /\ call'[a] = [call[a] EXCEPT !.new = new]
      /\ DOMAIN call' = Callers
      /\ \A b \in Callers \ {a} : call'[b] = call[b]
  BY <1>6 DEF CacheInv, CacheType
<1>8. /\ call'[a] \in CallRec
      /\ call'[a].conf = call[a].conf /\ call'[a].new = new /\ call'[a].path = path
  <2> HIDE DEF new
  <2> QED BY <1>2, <1>5, <1>7 DEF CallRec
<1>9. \A b \in Callers : pc[b] # "load"
  BY <1>1 DEF CacheInv, CallerOK, Loading
<1>10. Loading(a)'
  <2>1. container[path] # 0 => clusters[container[path]].upto <= version[path]
    BY <1>4 DEF CacheInv, CacheType
  <2> QED BY <1>1, <1>3, <1>4, <1>5, <1>8, <2>1, EmptySeq DEF Loading
<1>11. pc'[a] = "load"
  BY <1>1 DEF CacheInv, CacheType
<1>12. CallerOK(a)'
  BY <1>2, <1>3, <1>8, <1>10, <1>11 DEF CallerOK
<1> QED BY <1>1, <1>3, <1>7, <1>9, <1>12, CallerMove DEF Labels

\* The next shard is read, or its key is gone and Get ends with an error.
LEMMA LoadCache ==
    ASSUME CacheInv, NEW a \in Callers, GetLoad(a)
    PROVE  CacheInv'
<1> DEFINE path == call[a].path
           old  == call[a].new
           k    == Len(old.shards) + 1
<1>1. pc[a] = "load" /\ Len(old.shards) # old.max
  BY DEF GetLoad, Loaded
<1>2. call[a] \in CallRec /\ Loading(a) /\ call[a].conf <= Len(clusters)
  BY <1>1 DEF CacheInv, CallerOK
<1>3. UNCHANGED <<clusters, cfg, version, container, updateTime, now>>
  BY Zenon DEF GetLoad, config
<1>4. path \in Paths /\ cfg[path] \in Shards /\ version[path] \in Nat
  BY <1>2 DEF CallRec, CacheInv, CacheType, Shards
<1>5. old \in NewRec /\ lock = a
  BY <1>2 DEF Loading
<1>6. old.shards \in Shards /\ Len(old.shards) \in Nat /\ Len(cfg[path]) \in Nat
  BY <1>4, <1>5, LenProperties DEF NewRec, Shards
<1>7. \A b \in Callers \ {a} : pc[b] # "load"
  BY <1>5 DEF CacheInv, CallerOK, Loading
<1>8. CASE k <= Len(cfg[path])
  <2>1. UNCHANGED <<pc, lock>>
    BY <1>8, Zenon DEF GetLoad
  <2>2. call' = [call EXCEPT ![a].new.shards = Append(@, cfg[path][k]),
                             ![a].new.upto = version[path]]
    BY <1>8, Zenon DEF GetLoad
  <2>3. /\ DOMAIN call' = Callers
        /\ \A b \in Callers \ {a} : call'[b] = call[b]
        /\ call'[a] = [call[a] EXCEPT !.new.shards = Append(@, cfg[path][k]),
                                      !.new.upto = version[path]]
    BY <2>2 DEF CacheInv, CacheType
  <2>4. cfg[path][k] \in Seq(Ids)
    BY <1>4, <1>6, <1>8, ElementOfSeq DEF Shards
  <2>5. /\ Append(old.shards, cfg[path][k]) \in Shards
        /\ Len(Append(old.shards, cfg[path][k])) = k
        /\ \A i \in 1..k : Append(old.shards, cfg[path][k])[i] =
                              IF i = k THEN cfg[path][k] ELSE old.shards[i]
    BY <1>6, <2>4, AppendProperties DEF Shards
  <2> DEFINE longer == Append(old.shards, cfg[path][k])
  <2> HIDE DEF longer
  <2>6. /\ call'[a] \in CallRec
        /\ call'[a].conf = call[a].conf /\ call'[a].path = path
        /\ call'[a].new \in NewRec
        /\ call'[a].new.shards = longer /\ call'[a].new.max = old.max
        /\ call'[a].new.from = old.from /\ call'[a].new.upto = version[path]
    <3>1. call'[a] = [call[a] EXCEPT !.new = [old EXCEPT !.shards = longer,
                                                         !.upto = version[path]]]
      BY <1>2, <2>3 DEF CallRec, longer
    <3>2. longer \in Shards
      BY <2>5 DEF longer
    <3>3. ASSUME NEW r, r = [old EXCEPT !.shards = longer, !.upto = version[path]]
          PROVE  /\ r \in NewRec
                 /\ r.shards = longer /\ r.max = old.max
                 /\ r.from = old.from /\ r.upto = version[path]
      BY <1>4, <1>5, <3>2, <3>3 DEF NewRec
    <3>4. PICK r \in NewRec : /\ call'[a] = [call[a] EXCEPT !.new = r]
                              /\ r.shards = longer /\ r.max = old.max
                              /\ r.from = old.from /\ r.upto = version[path]
      BY <3>1, <3>3
    <3> QED BY <1>2, <3>4 DEF CallRec
  <2>7. Loading(a)'
    <3>1. /\ old.from <= old.upto /\ old.upto <= version[path]
          /\ container[path] # 0 => clusters[container[path]].upto <= old.from
          /\ old.from \in Nat /\ old.upto \in Nat
      BY <1>2, <1>5 DEF Loading, NewRec
    <3>2. old.from = version[path] =>
             /\ old.max = Len(cfg[path])
             /\ \A i \in 1..Len(old.shards) : i <= old.max => old.shards[i] = cfg[path][i]
      BY <1>2 DEF Loading
    <3>3. old.from = version[path] =>
             \A i \in 1..Len(longer) : i <= old.max => longer[i] = cfg[path][i]
      BY <1>6, <2>5, <3>2 DEF longer
    <3> QED BY <1>3, <1>4, <1>5, <2>1, <2>6, <3>1, <3>2, <3>3 DEF Loading
  <2>8. pc' = [pc EXCEPT ![a] = "load"] /\ pc'[a] = "load"
    BY <1>1, <2>1 DEF CacheInv, CacheType
  <2>9. CallerOK(a)'
    BY <1>2, <1>3, <2>6, <2>7, <2>8 DEF CallerOK
  <2> QED BY <1>3, <1>7, <2>3, <2>8, <2>9, CallerMove DEF Labels
<1>9. CASE ~(k <= Len(cfg[path]))
  <2>1. Return(a)
    BY <1>9, Zenon DEF GetLoad
  <2>2. /\ pc' = [pc EXCEPT ![a] = "idle"] /\ pc'[a] = "idle"
        /\ DOMAIN call' = Callers
        /\ \A b \in Callers \ {a} : call'[b] = call[b]
    BY <2>1 DEF Return, Goto, CacheInv, CacheType
  <2>3. CallerOK(a)'
    BY <2>2 DEF CallerOK
  <2> QED BY <1>3, <1>7, <2>2, <2>3, CallerMove DEF Labels
<1> QED BY <1>8, <1>9

\* A caller that has loaded every shard while its path was not updated has
\* the list of the config.
LEMMA LoadedIsConfig ==
    ASSUME CacheInv, NEW a \in Callers, Loaded(a),
           call[a].new.from = version[call[a].path]
    PROVE  call[a].new.shards = cfg[call[a].path]
<1>1. call[a] \in CallRec /\ Loading(a) /\ Len(call[a].new.shards) = call[a].new.max
  BY DEF CacheInv, CallerOK, Loaded
<1>2. call[a].new.shards \in Shards /\ cfg[call[a].path] \in Shards
  BY <1>1 DEF Loading, NewRec, CallRec, CacheInv, CacheType, Shards
<1>3. Len(call[a].new.shards) = Len(cfg[call[a].path])
  BY <1>1 DEF Loading
<1>4. \A i \in 1..Len(call[a].new.shards) : call[a].new.shards[i] = cfg[call[a].path][i]
  <2>1. Len(call[a].new.shards) \in Nat
    BY <1>2, LenProperties DEF Shards
  <2> QED BY <1>1, <2>1 DEF Loading
<1> QED BY <1>2, <1>3, <1>4, SeqEqual DEF Shards

\* The end of the section: the cluster that was found before the lock, when it
\* has the same instances, or a new one.
LEMMA StoreCache ==
    ASSUME CacheInv, NEW a \in Callers, GetStore(a)
    PROVE  CacheInv'
<1> DEFINE path == call[a].path
           new  == call[a].new
           conf == call[a].conf
           rec  == [shards |-> new.shards, hash |-> Hash(new.shards), edited |-> FALSE,
                    from |-> new.from, upto |-> new.upto]
<1>1. Loaded(a) /\ pc[a] = "load" /\ pc' = [pc EXCEPT ![a] = "pick"]
  BY DEF GetStore, Loaded, Goto
<1>2. call[a] \in CallRec /\ Loading(a) /\ conf <= Len(clusters)
  BY <1>1 DEF CacheInv, CallerOK
<1>3. UNCHANGED <<cfg, version>>
  BY Zenon DEF GetStore, config
<1>4. \A b \in Callers \ {a} : pc[b] # "load" /\ pc'[b] = pc[b]
  BY <1>1, <1>2 DEF CacheInv, CacheType, CallerOK, Loading
<1>5. path \in Paths /\ new \in NewRec /\ version[path] \in Nat
  BY <1>2 DEF CallRec, Loading, CacheInv, CacheType
<1>6. new.from = version[path] => Hash(new.shards) = Hash(cfg[path])
  BY <1>1, LoadedIsConfig
<1>7. pc'[a] = "pick"
  BY <1>1 DEF CacheInv, CacheType
<1>8. CASE SameAs(conf, new.shards)
  <2>1. UNCHANGED <<now, clusters, container, updateTime, call>>
    BY <1>8, Zenon DEF GetStore
  <2>2. conf # 0 /\ clusters[conf].hash = Hash(new.shards)
    BY <1>8 DEF SameAs
  <2>3. Reloaded(a)'
    BY <1>2, <1>3, <1>5, <1>6, <2>1, <2>2 DEF Reloaded, Loading, NewRec
  <2>4. CallerOK(a)'
    BY <1>2, <1>7, <2>1, <2>2, <2>3 DEF CallerOK
  <2>5. DOMAIN call' = Callers
    BY <2>1 DEF CacheInv, CacheType
  <2> QED BY <1>1, <1>3, <1>4, <2>1, <2>4, <2>5, CallerMove DEF Labels
<1>9. CASE ~SameAs(conf, new.shards)
  <2>1. /\ now' = now + 1 /\ updateTime' = now'
        /\ clusters' = Append(clusters, rec)
        /\ container' = [container EXCEPT ![path] = Len(clusters')]
        /\ call' = [call EXCEPT ![a].conf = Len(clusters')]
    BY <1>9, Zenon DEF GetStore, Tick
  <2>2. rec \in ClusterRec
    BY <1>5 DEF ClusterRec, Stored, NewRec
  <2>3. rec.hash = Hash(new.shards) /\ rec.upto = new.upto
    OBVIOUS
  <2> HIDE DEF rec
  <2>4. /\ clusters' \in Seq(ClusterRec)
        /\ Len(clusters) \in Nat /\ Len(clusters') = Len(clusters) + 1
        /\ \A c \in 1..Len(clusters) : clusters'[c] = clusters[c]
        /\ clusters'[Len(clusters')] = rec
    BY <2>1, <2>2, AppendProperties, LenProperties DEF CacheInv, CacheType
  <2>5. Grows
    BY <2>4 DEF Grows
  <2>6. container' \in [Paths -> Nat]
    <3>1. Len(clusters') \in Nat /\ container \in [Paths -> Nat]
      BY <2>4 DEF CacheInv, CacheType
    <3> QED BY <2>1, <3>1
  <2>7. /\ container'[path] = Len(clusters')
        /\ \A p \in Paths \ {path} : container'[p] = container[p]
    BY <1>5, <2>1 DEF CacheInv, CacheType
  <2>8. \A p \in Paths : container'[p] <= Len(clusters')
    <3>1. ASSUME NEW p \in Paths \ {path} PROVE container'[p] <= Len(clusters')
      <4>1. container[p] \in Nat /\ container[p] <= Len(clusters)
        BY DEF CacheInv, CacheType
      <4> QED BY <2>4, <2>7, <4>1
    <3> QED BY <2>4, <2>7, <3>1
  <2>9. new.upto <= version[path]
    BY <1>2 DEF Loading
  <2>10. \A p \in Paths : container'[p] # 0 => clusters'[container'[p]].upto <= version'[p]
    <3>1. clusters'[container'[path]].upto <= version'[path]
      BY <1>3, <2>3, <2>4, <2>7, <2>9
    <3>2. ASSUME NEW p \in Paths \ {path}, container[p] # 0
          PROVE clusters'[container[p]].upto <= version[p]
      BY <2>4, <3>2 DEF CacheInv, CacheType
    <3> QED BY <1>3, <2>7, <3>1, <3>2
  <2>11. pc' \in [Callers -> Labels] /\ updateTime' \in Nat /\ now' \in Nat
    BY <1>1, <2>1 DEF CacheInv, CacheType, Labels
  <2>12. /\ DOMAIN call' = Callers
         /\ \A b \in Callers \ {a} : call'[b] = call[b]
         /\ call'[a] = [call[a] EXCEPT !.conf = Len(clusters')]
    BY <2>1 DEF CacheInv, CacheType
  <2>13. CacheType'
    BY <1>3, <2>4, <2>6, <2>8, <2>10, <2>11, <2>12 DEF CacheInv, CacheType
  <2>14. /\ call'[a] \in CallRec
         /\ call'[a].conf = Len(clusters') /\ call'[a].path = path /\ call'[a].new = new
    <3>1. Len(clusters') \in Nat
      BY <2>4
    <3> QED BY <1>2, <2>12, <3>1 DEF CallRec
  <2>15. Reloaded(a)'
    BY <1>2, <1>3, <1>5, <1>6, <2>3, <2>4, <2>14 DEF Reloaded, Loading, NewRec
  <2>16. CallerOK(a)'
    BY <1>7, <2>4, <2>14, <2>15 DEF CallerOK
  <2>17. \A b \in Callers \ {a} : CallerOK(b)'
    BY <1>3, <1>4, <2>5, <2>12, CallerFrame
  <2> QED BY <2>13, <2>16, <2>17 DEF CacheInv
<1> QED BY <1>8, <1>9

\* An update of the config: what was read of its path before is outdated.
LEMMA UpdateCache ==
    ASSUME CacheInv, NEW p \in Paths, NEW c \in Clusters, Update(p, c)
    PROVE  CacheInv'
<1>1. /\ UNCHANGED <<clusters, container, updateTime, lock, pc, call>>
      /\ now' = now + 1
      /\ cfg' = [cfg EXCEPT ![p] = c]
      /\ version' = [version EXCEPT ![p] = @ + 1]
  BY Zenon DEF Update, Tick, cacher, caller
<1>2. /\ version' \in [Paths -> Nat] /\ cfg' \in [Paths -> Clusters]
      /\ version[p] \in Nat /\ version'[p] = version[p] + 1
      /\ \A q \in Paths \ {p} : version'[q] = version[q] /\ cfg'[q] = cfg[q]
  BY <1>1 DEF CacheInv, CacheType
<1>3. \A q \in Paths : version[q] \in Nat /\ version'[q] \in Nat /\ version[q] <= version'[q]
  <2>1. ASSUME NEW q \in Paths PROVE version[q] \in Nat /\ version'[q] \in Nat
    BY <1>2 DEF CacheInv, CacheType
  <2>2. ASSUME NEW q \in Paths \ {p} PROVE version[q] <= version'[q]
    BY <1>2, <2>1
  <2> QED BY <1>2, <2>1, <2>2
<1>4. \A q \in Paths : container[q] # 0 => clusters[container[q]].upto \in Nat
  <2>1. clusters \in Seq(ClusterRec) /\ Len(clusters) \in Nat
    BY LenProperties DEF CacheInv, CacheType
  <2>2. ASSUME NEW q \in Paths, container[q] # 0 PROVE clusters[container[q]].upto \in Nat
    <3>1. container[q] \in Nat /\ container[q] <= Len(clusters)
      BY DEF CacheInv, CacheType
    <3>2. clusters[container[q]] \in ClusterRec
      BY <2>1, <2>2, <3>1, ElementOfSeq
    <3> QED BY <3>2 DEF ClusterRec, Stored
  <2> QED BY <2>2
<1>5. CacheType'
  BY <1>1, <1>2, <1>3, <1>4 DEF CacheInv, CacheType
<1>6. ASSUME NEW a \in Callers PROVE CallerOK(a)'
  <2>1. CallerOK(a)
    BY DEF CacheInv
  <2>2. ASSUME pc[a] = "load" PROVE Loading(a)'
    <3>1. Loading(a) /\ call[a].path \in Paths /\ call[a].new \in NewRec
      BY <2>1, <2>2 DEF CallerOK, CallRec, Loading
    <3>2. call[a].new.upto <= version'[call[a].path]
      <4>1. call[a].new.upto \in Nat /\ call[a].new.upto <= version[call[a].path]
        BY <3>1 DEF Loading, NewRec
      <4> QED BY <1>3, <3>1, <4>1
    <3>3. call[a].path = p => call[a].new.from # version'[p]
      BY <1>2, <3>1 DEF Loading, NewRec
    <3> QED BY <1>1, <1>2, <3>1, <3>2, <3>3 DEF Loading
  <2>3. ASSUME pc[a] = "pick", call[a].new # None PROVE Reloaded(a)'
    <3>1. Reloaded(a) /\ call[a].path \in Paths /\ call[a].new \in NewRec
      BY <2>1, <2>3 DEF CallerOK, CallRec, Reloaded
    <3>2. call[a].new.from <= version'[call[a].path]
      <4>1. call[a].new.from \in Nat /\ call[a].new.from <= version[call[a].path]
        BY <3>1 DEF Reloaded, NewRec
      <4> QED BY <1>3, <3>1, <4>1
    <3>3. call[a].path = p => call[a].new.from # version'[p]
      BY <1>2, <3>1 DEF Reloaded, NewRec
    <3> QED BY <1>1, <1>2, <3>1, <3>2, <3>3 DEF Reloaded
  <2> QED BY <1>1, <2>1, <2>2, <2>3 DEF CallerOK
<1> QED BY <1>5, <1>6 DEF CacheInv

\* A pinger that takes an instance out leaves the checksum as it is.
LEMMA InstancesCache ==
    ASSUME CacheInv, NEW c \in 1..Len(clusters), NEW s \in 1..2, SetShardInstances(c, s)
    PROVE  CacheInv'
<1> DEFINE old  == clusters[c]
           list == [old.shards EXCEPT ![s] = Tail(@)]
<1>1. /\ clusters' = [clusters EXCEPT ![c].shards[s] = Tail(@), ![c].edited = TRUE]
      /\ s \in 1..Len(old.shards) /\ old.shards[s] # << >>
  BY DEF SetShardInstances
<1>2. UNCHANGED <<cfg, version, container, updateTime, now, lock, pc, call>>
  BY Zenon DEF SetShardInstances, caller
<1>3. clusters \in Seq(ClusterRec) /\ Len(clusters) \in Nat /\ old \in ClusterRec
  BY ElementOfSeq, LenProperties DEF CacheInv, CacheType
<1>4. old.shards \in Seq(Seq(Ids)) /\ old.shards[s] \in Seq(Ids)
  BY <1>1, <1>3, ElementOfSeq DEF ClusterRec, Stored, Shards
<1>5. Tail(old.shards[s]) \in Seq(Ids)
  BY <1>1, <1>4, HeadTailProperties
<1>6. list \in Shards
  BY <1>1, <1>4, <1>5, ExceptSeq DEF Shards
<1>7. clusters' = [clusters EXCEPT ![c] = [old EXCEPT !.shards = list, !.edited = TRUE]]
  BY <1>1, <1>3 DEF ClusterRec, Stored
<1> HIDE DEF list
<1>8. ASSUME NEW r, r = [old EXCEPT !.shards = list, !.edited = TRUE]
      PROVE  r \in ClusterRec /\ r.hash = old.hash /\ r.upto = old.upto
  BY <1>3, <1>6, <1>8 DEF ClusterRec, Stored
<1>9. PICK r \in ClusterRec : /\ clusters' = [clusters EXCEPT ![c] = r]
                              /\ r.hash = old.hash /\ r.upto = old.upto
  BY <1>7, <1>8
<1>10. /\ clusters' \in Seq(ClusterRec) /\ Len(clusters') = Len(clusters)
       /\ \A d \in 1..Len(clusters) : clusters'[d] = IF d = c THEN r ELSE clusters[d]
  BY <1>3, <1>9, ExceptSeq
<1>11. Grows
  BY <1>3, <1>9, <1>10 DEF Grows
<1>12. \A p \in Paths : container[p] # 0 => clusters'[container[p]].upto <= version[p]
  <2>1. ASSUME NEW p \in Paths, container[p] # 0
        PROVE  clusters'[container[p]].upto <= version[p]
    <3>1. container[p] \in Nat /\ container[p] <= Len(clusters)
          /\ clusters[container[p]].upto <= version[p]
      BY <2>1 DEF CacheInv, CacheType
    <3>2. clusters'[container[p]].upto = clusters[container[p]].upto
      BY <1>3, <1>11, <2>1, <3>1 DEF Grows
    <3> QED BY <3>1, <3>2
  <2> QED BY <2>1
<1>13. CacheType'
  BY <1>2, <1>10, <1>12 DEF CacheInv, CacheType
<1>14. \A b \in Callers : CallerOK(b)'
  BY <1>2, <1>11, CallerFrame
<1> QED BY <1>13, <1>14 DEF CacheInv

\* Every step keeps CacheInv.
LEMMA CacheStep ==
    ASSUME CacheInv, [Next]_vars
    PROVE  CacheInv'
<1>1. ASSUME UNCHANGED <<now, clusters, cfg, version, container, updateTime, lock, pc, call>>
      PROVE  CacheInv'
  <2>1. CacheType'
    BY <1>1 DEF CacheInv, CacheType
  <2>2. \A a \in Callers : CallerOK(a)'
    BY <1>1 DEF CacheInv, CallerOK, Loading, Reloaded
  <2> QED BY <2>1, <2>2 DEF CacheInv
<1>2. ASSUME NEW a \in Callers, NEW p \in Paths, GetRead(a, p) PROVE CacheInv'
  <2> DEFINE r == [path |-> p, conf |-> container[p], seen |-> updateTime,
                   new |-> None, inst |-> None, since |-> version[p]]
  <2>1. UNCHANGED <<now, clusters, cfg, version, container, updateTime, lock>>
    BY <1>2, Zenon DEF GetRead, config, cacher
  <2>2. call' = [call EXCEPT ![a] = r] /\ pc' = [pc EXCEPT ![a] = "get"]
    BY <1>2 DEF GetRead, Goto
  <2>3. r \in CallRec /\ r.conf <= Len(clusters) /\ r.new = None
    BY DEF CallRec, CacheInv, CacheType
  <2> HIDE DEF r
  <2>4. /\ DOMAIN call' = Callers /\ \A b \in Callers \ {a} : call'[b] = call[b]
        /\ call'[a] = r /\ pc'[a] = "get"
    BY <2>2 DEF CacheInv, CacheType
  <2>5. CallerOK(a)'
    BY <2>1, <2>3, <2>4 DEF CallerOK
  <2> QED BY <2>1, <2>2, <2>4, <2>5, CallerMove DEF Labels
<1>3. ASSUME NEW a \in Callers, GetTest(a) PROVE CacheInv'
  <2>1. UNCHANGED <<now, clusters, cfg, version, container, updateTime, lock, call>>
    BY <1>3, Zenon DEF GetTest, config, cacher
  <2>2. pc[a] = "get"
        /\ (pc' = [pc EXCEPT ![a] = "lock"]
               \/ (call[a].conf # 0 /\ pc' = [pc EXCEPT ![a] = "pick"]))
    BY <1>3 DEF GetTest, Goto
  <2>3. pc'[a] = "lock" \/ (call[a].conf # 0 /\ pc'[a] = "pick")
    BY <2>2 DEF CacheInv, CacheType
  <2>4. CallerOK(a) /\ DOMAIN call' = Callers
    BY <2>1 DEF CacheInv, CacheType
  <2>5. CallerOK(a)'
    BY <2>1, <2>2, <2>3, <2>4 DEF CallerOK
  <2> QED BY <2>1, <2>2, <2>4, <2>5, CallerMove DEF Labels
<1>4. ASSUME NEW a \in Callers, Pick(a) \/ GetOrAdd(a) \/ Connector(a) PROVE CacheInv'
  <2>1. UNCHANGED <<now, clusters, cfg, version, container, updateTime, lock>>
    BY <1>4, Zenon DEF Pick, GetOrAdd, Connector, config, cacher
  <2>2. CASE Return(a) \/ (Goto(a, "panic") /\ call' = [call EXCEPT ![a] = None])
    <3>1. PICK l \in {"idle", "panic"} : /\ pc' = [pc EXCEPT ![a] = l]
                                         /\ call' = [call EXCEPT ![a] = None]
      BY <2>2 DEF Return, Goto
    <3>2. /\ pc'[a] \in {"idle", "panic"}
          /\ DOMAIN call' = Callers /\ \A b \in Callers \ {a} : call'[b] = call[b]
      BY <3>1 DEF CacheInv, CacheType
    <3>3. CallerOK(a)'
      BY <3>2 DEF CallerOK
    <3> QED BY <2>1, <3>1, <3>2, <3>3, CallerMove DEF Labels
  <2>3. CASE pc[a] = "conn" /\ Goto(a, "dial") /\ UNCHANGED call
    <3>1. pc' = [pc EXCEPT ![a] = "dial"] /\ pc'[a] = "dial" /\ DOMAIN call' = Callers
      BY <2>3 DEF Goto, CacheInv, CacheType
    <3>2. CallerOK(a)'
      BY <2>1, <2>3, <3>1 DEF CacheInv, CallerOK
    <3> QED BY <2>1, <2>3, <3>1, <3>2, CallerMove DEF Labels
  <2>4. ASSUME NEW s \in 0..Len(clusters[call[a].conf].shards) + 1,
               s < Len(clusters[call[a].conf].shards), pc[a] = "pick",
               NEW i \in NextOf(clusters[call[a].conf].shards[s + 1]),
               call' = [call EXCEPT ![a].inst = i], Goto(a, "conn")
        PROVE  CacheInv'
    <3>1. call[a] \in CallRec /\ call[a].conf <= Len(clusters) /\ call[a].conf # 0
      BY <2>4 DEF CacheInv, CallerOK
    <3>2. clusters[call[a].conf] \in ClusterRec
      BY <3>1, ElementOfSeq, LenProperties DEF CacheInv, CacheType, CallRec
    <3>3. clusters[call[a].conf].shards \in Seq(Seq(Ids))
      BY <3>2 DEF ClusterRec, Stored, Shards
    <3>4. clusters[call[a].conf].shards[s + 1] \in Seq(Ids)
      BY <2>4, <3>3, ElementOfSeq, LenProperties
    <3>5. i \in Ids
      BY <2>4, <3>4, LenProperties DEF NextOf, Range
    <3>6. /\ call'[a] = [call[a] EXCEPT !.inst = i]
          /\ DOMAIN call' = Callers /\ \A b \in Callers \ {a} : call'[b] = call[b]
          /\ pc' = [pc EXCEPT ![a] = "conn"] /\ pc'[a] = "conn"
      BY <2>4 DEF Goto, CacheInv, CacheType
    <3>7. call'[a] \in CallRec /\ call'[a].conf = call[a].conf
      BY <3>1, <3>5, <3>6 DEF CallRec
    <3>8. CallerOK(a)'
      BY <2>1, <3>1, <3>6, <3>7 DEF CallerOK
    <3> QED BY <2>1, <3>6, <3>8, CallerMove DEF Labels
  <2>5. ASSUME Pick(a) PROVE CacheInv'
    BY <2>2, <2>4, <2>5, Zenon DEF Pick
  <2>6. ASSUME GetOrAdd(a) PROVE CacheInv'
    BY <2>2, <2>3, <2>6, Zenon DEF GetOrAdd
  <2>7. ASSUME Connector(a) PROVE CacheInv'
    BY <2>2, <2>7, Zenon DEF Connector
  <2> QED BY <1>4, <2>5, <2>6, <2>7
<1>5. CASE CloseConnection \/ CloseDone
  BY <1>1, <1>5, Zenon DEF CloseConnection, CloseDone, config, cacher, caller
<1>6. CASE UNCHANGED vars
  BY <1>1, <1>6, Zenon DEF vars, config, cacher, caller
<1> QED
  BY <1>2, <1>3, <1>4, <1>5, <1>6, LockCache, LoadCache, StoreCache, UpdateCache,
     InstancesCache DEF Next, Boxing, Getting

\* CacheInv holds in every behaviour.
LEMMA CacheInvariant == Spec => []CacheInv
<1>1. Init => CacheInv
  <2> SUFFICES ASSUME Init PROVE CacheInv
    OBVIOUS
  <2>1. clusters \in Seq(ClusterRec) /\ Len(clusters) = 0
    BY EmptySeq DEF Init
  <2>2. pc \in [Callers -> Labels] /\ \A a \in Callers : pc[a] = "idle"
    BY DEF Init, Labels
  <2>3. CacheType
    BY <2>1, <2>2 DEF Init, CacheType
  <2> QED BY <2>2, <2>3 DEF CacheInv, CallerOK
<1> QED BY <1>1, CacheStep, PTL DEF Spec

\* A Get that reloads while its path is not updated returns a cluster built from the
\* instances of the config, whoever loads and stores meanwhile; it has them still,
\* unless SetShardInstances has replaced instances of that cluster.
THEOREM ReloadSeesConfigHolds == Spec => []ReloadSeesConfig
<1>1. ASSUME CacheInv PROVE ReloadSeesConfig
  <2> SUFFICES ASSUME NEW a \in Callers, pc[a] = "pick", call[a].new # None,
                      call[a].new.from = version[call[a].path]
               PROVE  LET c    == clusters[call[a].conf]
                          want == Hash(cfg[call[a].path])
                      IN  c.hash = want /\ (c.edited \/ Hash(c.shards) = want)
    BY DEF ReloadSeesConfig
  <2>1. clusters[call[a].conf].hash = Hash(cfg[call[a].path])
    BY <1>1 DEF CacheInv, CallerOK, Reloaded
  <2>2. call[a].conf \in 1..Len(clusters)
    <3>1. Len(clusters) \in Nat
      BY <1>1, LenProperties DEF CacheInv, CacheType
    <3>2. CallerOK(a)
      BY <1>1 DEF CacheInv
    <3>3. call[a] \in CallRec /\ call[a].conf <= Len(clusters) /\ call[a].conf # 0
      BY <3>2 DEF CallerOK
    <3> QED BY <3>1, <3>3 DEF CallRec
  <2>3. clusters[call[a].conf] \in ClusterRec
    BY <1>1, <2>2, ElementOfSeq DEF CacheInv, CacheType
  <2> QED BY <2>1, <2>3 DEF ClusterRec
<1> QED BY <1>1, CacheInvariant, PTL

\* A stored cluster is replaced only by one that was read later.
THEOREM NeverOlderHolds == Spec => NeverOlder
<1> DEFINE Later == \A p \in Paths :
               container[p] # 0 /\ container'[p] # container[p] =>
                   clusters'[container'[p]].from >= clusters[container[p]].upto
<1>1. ASSUME CacheInv, NEW a \in Callers, GetStore(a) PROVE Later
  <2> DEFINE path == call[a].path
             new  == call[a].new
             rec  == [shards |-> new.shards, hash |-> Hash(new.shards), edited |-> FALSE,
                      from |-> new.from, upto |-> new.upto]
  <2>1. Loading(a) /\ path \in Paths
    BY <1>1 DEF CacheInv, CallerOK, CallRec, GetStore, Loaded
  <2>2. CASE UNCHANGED container
    BY <2>2
  <2>3. CASE /\ clusters' = Append(clusters, rec)
             /\ container' = [container EXCEPT ![path] = Len(clusters')]
    <3>1. clusters'[Len(clusters')].from = new.from
      <4>1. rec \in ClusterRec /\ rec.from = new.from
        BY <2>1 DEF Loading, ClusterRec, Stored, NewRec
      <4> HIDE DEF rec
      <4>2. clusters'[Len(clusters')] = rec
        BY <1>1, <2>3, <4>1, AppendProperties, LenProperties DEF CacheInv, CacheType
      <4> QED BY <4>1, <4>2
    <3>2. /\ container'[path] = Len(clusters')
          /\ \A p \in Paths \ {path} : container'[p] = container[p]
      BY <1>1, <2>1, <2>3 DEF CacheInv, CacheType
    <3>3. container[path] # 0 => clusters[container[path]].upto <= new.from
      BY <2>1 DEF Loading
    <3> QED BY <3>1, <3>2, <3>3
  <2> QED BY <1>1, <2>2, <2>3, Zenon DEF GetStore
<1>2. ASSUME Next, \A a \in Callers : ~GetStore(a) PROVE UNCHANGED container
  BY <1>2, Zenon DEF Next, Boxing, Getting, Update, GetRead, GetTest, GetLock, GetLoad, Pick,
                     GetOrAdd, Connector, SetShardInstances, CloseConnection, CloseDone, cacher
<1>3. CacheInv /\ [Next]_vars => [Later]_vars
  BY <1>1, <1>2, Zenon
<1> QED BY <1>3, CacheInvariant, PTL DEF Spec, NeverOlder
=============================================================================
