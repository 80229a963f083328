---------------------------- MODULE ConfigMerge -----------------------------
(* The config merger (pkg/merger): in every cycle, MergeAndUpdate reads the*)
(* shards through the cache of ReadGCS (config/cache.go), one goroutine    *)
(* for each, drops the invalid ones and writes what Converge makes of the  *)
(* others.  The cache hands out the configuration itself, so Converge      *)
(* renames what is cached.                                                 *)
EXTENDS ConfigSnapshot

CONSTANTS
    Keys,                   \* the names of the sources, in order
    Files,                  \* per source, the YAML files that it has in turn
    Overall,                \* the overall defaults
    Refresh,                \* cacheRefreshInterval
    MaxNow, MaxCycles       \* bounds: time and cycles of the merger

VARIABLES
    version,                \* which of its files a source has
    shard,                  \* the object of a source: [state, cfg]
    cache,                  \* [at, cfg] per source; at is -1 if it is not cached
    read,                   \* what the goroutine of a source came to
    cycle,                  \* how many cycles were started; merging or not
    now,
    origin,                 \* history: what was read as cache[k].cfg
    sources                 \* history: of what target was made: [from, to] per source

mergeVars == <<version, shard, cache, read, cycle, now, origin, sources>>

Sources == DOMAIN Keys

Unread == [state |-> "none"]

MergeInit ==
    /\ version = [k \in Sources |-> 1]
    /\ shard = [k \in Sources |-> ReadConfig(Files[k][1], Overall)]
    /\ cache = [k \in Sources |-> [at |-> -1, cfg |-> EmptyConfig]]
    /\ read = [k \in Sources |-> Unread]
    /\ cycle = [n |-> 0, on |-> FALSE]
    /\ now = 0
    /\ origin = [k \in Sources |-> EmptyConfig] /\ sources = <<>>

(* The owner of a source changes its files and has them read and written.  *)
Edit(k) == /\ version[k] < Len(Files[k])
           /\ version' = [version EXCEPT ![k] = @ + 1]
           /\ LET c == ReadConfig(Files[k][version[k] + 1], Overall)
              IN shard' = IF c.state = "read" THEN [shard EXCEPT ![k] = c] ELSE shard
           /\ UNCHANGED <<cache, read, cycle, now, origin, sources>>

Pass == /\ now < MaxNow /\ now' = now + 1
        /\ UNCHANGED <<version, shard, cache, read, cycle, origin, sources>>

StartCycle == /\ ~cycle.on /\ cycle.n < MaxCycles
              /\ cycle' = [n |-> cycle.n + 1, on |-> TRUE]
              /\ read' = [k \in Sources |-> [state |-> "reading"]]
              /\ UNCHANGED <<version, shard, cache, now, origin, sources>>

Checked(c) == IF Validate(c) THEN [state |-> "read", cfg |-> c] ELSE [state |-> "invalid"]

(* ReadGCS, under the lock of the cache.                                   *)
ReadGCS(k) ==
    /\ cycle.on /\ read[k].state = "reading"
    /\ \/ /\ cache[k].at >= 0 /\ now - cache[k].at < Refresh
          /\ read' = [read EXCEPT ![k] = Checked(cache[k].cfg)]
          /\ UNCHANGED <<cache, origin>>
       \/ /\ ~(cache[k].at >= 0 /\ now - cache[k].at < Refresh)
          /\ \/ /\ shard[k].state = "read"
                /\ read' = [read EXCEPT ![k] = Checked(shard[k].cfg)]
                /\ cache' = [cache EXCEPT ![k] = [at |-> now, cfg |-> shard[k].cfg]]
                /\ origin' = [origin EXCEPT ![k] = shard[k].cfg]
             \/ /\ read' = [read EXCEPT ![k] = [state |-> "failed"]]
                /\ UNCHANGED <<cache, origin>>
    /\ UNCHANGED <<version, shard, cycle, now, sources>>

States == { read[k].state : k \in Sources }

(* wg.Wait, and the end of MergeAndUpdate.  Nothing is written if a source *)
(* could not be read; Upload may fail as well.                             *)
Finish ==
    /\ cycle.on /\ "reading" \notin States
    /\ LET merging == { k \in Sources : read[k].state = "read" }
           result == Converge([k \in merging |-> read[k].cfg], Keys)
       IN IF "failed" \in States \/ merging = {} THEN UNCHANGED <<target, cache, sources>>
          ELSE /\ cache' = [k \in Sources |-> IF k \in merging THEN [cache[k] EXCEPT !.cfg = result.shards[k]]
                                              ELSE cache[k]]
               /\ \/ /\ Put(result.merged)
                     /\ sources' = [k \in merging |-> [from |-> origin[k], to |-> result.shards[k]]]
                  \/ UNCHANGED <<target, sources>>
    /\ cycle' = [cycle EXCEPT !.on = FALSE]
    /\ read' = [k \in Sources |-> Unread]
    /\ UNCHANGED <<version, shard, now, origin, obs, done>>

MergeNext == \/ /\ \/ Pass \/ StartCycle
                   \/ \E k \in Sources : Edit(k) \/ ReadGCS(k)
                /\ UNCHANGED snapVars
             \/ Finish
=============================================================================
