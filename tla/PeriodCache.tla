------------------------------ MODULE PeriodCache ------------------------------
(***************************************************************************)
(* The caches of a budget period: the response cache and the table of      *)
(* loads in flight of BudgetHuService, the memory of perf-cache.ts below   *)
(* them, both in each process, and the Redis that the processes share.     *)
(* One key is modelled, of a user and a period.  The loaders of the        *)
(* service (page bundle, period, structure, counts) differ in their key,   *)
(* their query and in whether a save of the period reaches the key: it     *)
(* drops those of Dropped, which the network shell's is none of.           *)
(*                                                                         *)
(* A clock unit is long against a load: the clock does not pass a load     *)
(* that holds a value it has yet to store.  Redis always answers.          *)
(***************************************************************************)
EXTENDS Naturals, FiniteSets

CONSTANTS
    Processes,      \* backend processes
    Loads,          \* slots for loads
    Ttl,            \* CACHE_TTL_MS.TABLE
    Refill,         \* how long perfCacheGet keeps what it got from Redis
    MaxSaves,       \* bound on the saves
    MaxDrops,       \* bound on the removals of a load in flight
    MaxClock,       \* bound on the clock
    Nothing         \* no entry, no load

ASSUME PeriodCacheAssumption ==
    /\ IsFiniteSet(Loads)
    /\ Ttl \in Nat \ {0} /\ Refill \in Nat \ {0}
    /\ MaxSaves \in Nat /\ MaxDrops \in Nat /\ MaxClock \in Nat
    /\ Nothing \notin Loads

VARIABLES
    prefix,     \* of the key, from budget-hu: on
    version,    \* of the rows in the database
    response,   \* responseCache of each process
    memory,     \* memoryCache of each process
    redis,
    inflight,   \* the load that others of the process join, or Nothing
    loads,
    saving,     \* the save between its write and its answer, if there is one
    seen,       \* version that the loads of the process have to see
    drops,      \* how often a process removed a load from its inflight
    clock

cacheVars == << prefix, version, response, memory, redis, inflight, loads, saving, seen,
                drops, clock >>

\* The prefixes whose entries invalidateCachesForPeriod deletes from memory and
\* from Redis; page, period-network, period-structure and asset-counts are four more
\* and like the period's.
Dropped == {"period:"}
KeyPrefixes == {"period:", "period-network-shell:"}

Versions == 0..MaxSaves
Clock == 0..MaxClock
Value == [version : Versions, read : Clock]
Entry == [value : Value, expires : 0..MaxClock + Ttl + Refill]

\* at: which caches are dropped next.  quiet: no load was in flight so far.
Save == [at : {"none", "response", "memory", "shared"}, process : Processes, quiet : BOOLEAN]

\* at: what the load does next.
Load == [at : {"deleteShared", "getShared", "keepShared", "readDb", "store",
               "setShared", "joined"},
         process : Processes, value : Value \cup {Nothing}, joins : Loads \cup {Nothing}]

Idle == [at |-> "idle"]

CacheTypeOK ==
    /\ prefix \in KeyPrefixes
    /\ version \in Versions
    /\ response \in [Processes -> Entry \cup {Nothing}]
    /\ memory \in [Processes -> Entry \cup {Nothing}]
    /\ redis \in Entry \cup {Nothing}
    /\ inflight \in [Processes -> Loads \cup {Nothing}]
    /\ loads \in [Loads -> Load \cup {Idle}]
    /\ saving \in Save
    /\ seen \in [Processes -> Versions]
    /\ drops \in [Processes -> 0..MaxDrops]
    /\ clock \in Clock

CacheInit ==
    /\ prefix \in KeyPrefixes
    /\ version = 0
    /\ response = [p \in Processes |-> Nothing]
    /\ memory = [p \in Processes |-> Nothing]
    /\ redis = Nothing
    /\ inflight = [p \in Processes |-> Nothing]
    /\ loads = [l \in Loads |-> Idle]
    /\ saving \in [at : {"none"}, process : Processes, quiet : {TRUE}]
    /\ seen = [p \in Processes |-> 0]
    /\ drops = [p \in Processes |-> 0]
    /\ clock = 0

-------------------------------------------------------------------------------
Live(e) == IF e = Nothing THEN FALSE ELSE e.expires > clock
Kept(v, ttl) == [value |-> v, expires |-> clock + ttl]

Busy(l) == loads[l].at # "idle"
Loading(p) == {l \in Loads : loads[l].at \in {"readDb", "store", "setShared"}
                             /\ loads[l].process = p}

Then(l, at) == loads' = [loads EXCEPT ![l].at = at]
Answered(l) == loads' = [loads EXCEPT ![l] = Idle]

NewLoad(at, p) == [at |-> at, process |-> p, value |-> Nothing, joins |-> Nothing]
AsksRedis(l, p) == loads' = [loads EXCEPT ![l] = NewLoad("getShared", p)]

\* Mutant: a hit prolongs the entry.
LookupProlongs(l, p, held, kept) ==
    IF Live(held) THEN
        /\ Answered(l)
        /\ response' = [response EXCEPT ![p] = Kept(held.value, Ttl)]
        /\ memory' = [memory EXCEPT ![p] = kept]
    ELSE
        /\ AsksRedis(l, p)
        /\ UNCHANGED << response, memory >>

\* getFromProcessCache, then the half of perfCacheGet that asks no one: an answer
\* or the question to Redis.  What has expired is pruned on the way.
Lookup(l, p, held, kept) ==
    IF Live(held) THEN
        /\ Answered(l)
        /\ response' = [response EXCEPT ![p] = held]
        /\ memory' = [memory EXCEPT ![p] = kept]
    ELSE IF Live(kept) THEN
        /\ Answered(l)
        /\ response' = [response EXCEPT ![p] = Kept(kept.value, Ttl)]
        /\ memory' = [memory EXCEPT ![p] = kept]
    ELSE
        /\ AsksRedis(l, p)
        /\ response' = [response EXCEPT ![p] = Nothing]
        /\ memory' = [memory EXCEPT ![p] = Nothing]

Arrives == saving' = [saving EXCEPT !.quiet = @ /\ saving.at = "none"]

\* A load, e.g. loadBudgetPeriodOnly.
Ask(l, p) ==
    /\ ~Busy(l)
    /\ Lookup(l, p, response[p], memory[p])
    /\ Arrives
    /\ UNCHANGED << version, redis, inflight, seen, drops, clock >>

Drop(p) ==
    /\ drops[p] < MaxDrops
    /\ drops' = [drops EXCEPT ![p] = @ + 1]
    /\ inflight' = [inflight EXCEPT ![p] = Nothing]

\* A load with skipCache empties the caches first.
AskSkipping(l, p) ==
    /\ ~Busy(l)
    /\ Drop(p)
    /\ response' = [response EXCEPT ![p] = Nothing]
    /\ memory' = [memory EXCEPT ![p] = Nothing]
    /\ loads' = [loads EXCEPT ![l] = NewLoad("deleteShared", p)]
    /\ Arrives
    /\ UNCHANGED << version, redis, seen, clock >>

DeleteShared(l) ==
    LET p == loads[l].process IN
    /\ loads[l].at = "deleteShared"
    /\ redis' = Nothing
    /\ Lookup(l, p, response[p], memory[p])
    /\ UNCHANGED << version, inflight, saving, seen, drops, clock >>

\* Mutant: every load queries for itself.
GetSharedAlone(l) ==
    /\ loads[l].at = "getShared"
    /\ ~Live(redis)
    /\ Then(l, "readDb")
    /\ inflight' = [inflight EXCEPT ![loads[l].process] = l]
    /\ UNCHANGED << version, response, memory, redis, saving, seen, drops, clock >>

\* perfCacheGet asks Redis; without an answer there, the load joins the one in
\* flight or becomes it (dedupe).
GetShared(l) ==
    LET p == loads[l].process IN
    /\ loads[l].at = "getShared"
    /\ IF Live(redis) THEN
           /\ loads' = [loads EXCEPT ![l].at = "keepShared", ![l].value = redis.value]
           /\ UNCHANGED inflight
       ELSE IF inflight[p] # Nothing THEN
           /\ loads' = [loads EXCEPT ![l].at = "joined", ![l].joins = inflight[p]]
           /\ UNCHANGED inflight
       ELSE
           /\ Then(l, "readDb")
           /\ inflight' = [inflight EXCEPT ![p] = l]
    /\ UNCHANGED << version, response, memory, redis, saving, seen, drops, clock >>

\* What Redis had is kept in memory for a while, and in the process for the whole
\* of its time to live.
KeepShared(l) ==
    LET p == loads[l].process IN
    /\ loads[l].at = "keepShared"
    /\ memory' = [memory EXCEPT ![p] = Kept(loads[l].value, Refill)]
    /\ response' = [response EXCEPT ![p] = Kept(loads[l].value, Ttl)]
    /\ Answered(l)
    /\ UNCHANGED << version, redis, inflight, saving, seen, drops, clock >>

ReadDb(l) ==
    /\ loads[l].at = "readDb"
    /\ loads' = [loads EXCEPT ![l].at = "store",
                              ![l].value = [version |-> version, read |-> clock]]
    /\ UNCHANGED << version, response, memory, redis, inflight, saving, seen,
                    drops, clock >>

\* setProcessCache, and the half of perfCacheSet that asks no one.
Store(l) ==
    LET p == loads[l].process IN
    /\ loads[l].at = "store"
    /\ response' = [response EXCEPT ![p] = Kept(loads[l].value, Ttl)]
    /\ memory' = [memory EXCEPT ![p] = Kept(loads[l].value, Ttl)]
    /\ Then(l, "setShared")
    /\ UNCHANGED << version, redis, inflight, saving, seen, drops, clock >>

Joins(m, l) == loads[m].at = "joined" /\ loads[m].joins = l

\* The load ends: whoever joined it is answered, and the finally of dedupe removes
\* the entry in flight, whosever it is by now.
SetShared(l) ==
    LET p == loads[l].process IN
    /\ loads[l].at = "setShared"
    /\ redis' = Kept(loads[l].value, Ttl)
    /\ inflight' = [inflight EXCEPT ![p] = Nothing]
    /\ loads' = [m \in Loads |-> IF m = l \/ Joins(m, l) THEN Idle ELSE loads[m]]
    /\ UNCHANGED << version, response, memory, saving, seen, drops, clock >>

-------------------------------------------------------------------------------
\* The last write of a save (any of those that end in invalidateCachesForPeriod).
Write(p) ==
    /\ saving.at = "none"
    /\ version < MaxSaves
    /\ version' = version + 1
    /\ saving' = [at |-> "response", process |-> p, quiet |-> \A l \in Loads : ~Busy(l)]
    /\ UNCHANGED << response, memory, redis, inflight, loads, seen, drops, clock >>

\* invalidateCachesForPeriod: the response cache of this process, whatever the key
\* of the period; a load in flight is removed if the response cache has an entry of
\* its key.
DropResponse ==
    LET p == saving.process IN
    /\ saving.at = "response"
    /\ IF response[p] # Nothing THEN Drop(p) ELSE UNCHANGED << inflight, drops >>
    /\ response' = [response EXCEPT ![p] = Nothing]
    /\ saving' = [saving EXCEPT !.at = "memory"]
    /\ UNCHANGED << version, memory, redis, loads, seen, clock >>

\* Mutant: the memory is taken for part of Redis.
DropMemoryNot ==
    /\ saving.at = "memory"
    /\ saving' = [saving EXCEPT !.at = "shared"]
    /\ UNCHANGED << version, response, memory, redis, inflight, loads, seen, drops, clock >>

\* The memory below it, where a prefix to drop matches, once Redis has answered for
\* the prefixes before (page bundles): until then a load still finds its entry here,
\* and keeps it.
DropMemory ==
    /\ saving.at = "memory"
    /\ memory' = IF prefix \in Dropped THEN [memory EXCEPT ![saving.process] = Nothing]
                                     ELSE memory
    /\ saving' = [saving EXCEPT !.at = "shared"]
    /\ UNCHANGED << version, response, redis, inflight, loads, seen, drops, clock >>

\* Then those in Redis, and the save is answered.
DropShared ==
    /\ saving.at = "shared"
    /\ redis' = IF prefix \in Dropped THEN Nothing ELSE redis
    /\ saving' = [saving EXCEPT !.at = "none"]
    /\ seen' = IF saving.quiet THEN [seen EXCEPT ![saving.process] = version] ELSE seen
    /\ UNCHANGED << version, response, memory, inflight, loads, drops, clock >>

\* The clock stands while an answer is on its way into the caches.
Prompt == \A l \in Loads : loads[l].at \notin {"keepShared", "store", "setShared"}

CacheTick ==
    /\ clock < MaxClock
    /\ Prompt
    /\ clock' = clock + 1
    /\ UNCHANGED << version, response, memory, redis, inflight, loads, saving, seen, drops >>

LoadStep(l) == \/ DeleteShared(l) \/ GetShared(l) \/ KeepShared(l)
               \/ ReadDb(l) \/ Store(l) \/ SetShared(l)

CacheNext ==
    /\ UNCHANGED prefix
    /\ \/ \E l \in Loads, p \in Processes : Ask(l, p) \/ AskSkipping(l, p)
       \/ \E l \in Loads : LoadStep(l)
       \/ \E p \in Processes : Write(p)
       \/ DropResponse \/ DropMemory \/ DropShared
       \/ CacheTick

CacheSpec == CacheInit /\ [][CacheNext]_cacheVars
-------------------------------------------------------------------------------
(* Properties *)

\* A client that saved and was answered sees his save in every load he asks of the
\* same process from then on, unless a load was in flight while he saved, or he
\* loads the network shell, whose key the save leaves: nothing older is in the
\* caches it answers from, nor on its way to them, neither from Redis nor from what
\* other processes keep (invalidateCachesForPeriod).
OwnSavesSeen ==
    prefix \in Dropped =>
        \A p \in Processes :
            /\ \A e \in {response[p], memory[p], redis} \ {Nothing} :
                  e.value.version >= seen[p]
            /\ \A l \in Loads \ {m \in Loads : loads[m] = Idle} :
                  loads[l].process = p /\ loads[l].value # Nothing
                      => loads[l].value.version >= seen[p]

\* What is served was read from the database less than two times to live and a
\* refill ago, however often it went from Redis to memory to the process, each of
\* which counts from when it got it.
StalenessBounded ==
    \A p \in Processes :
        response[p] # Nothing
            => response[p].expires < response[p].value.read + 2 * Ttl + Refill

\* Loads are shared: in a process no more of them query the database at once than
\* have been removed from its inflight, and one.
LoadsBounded == \A p \in Processes : Cardinality(Loading(p)) <= 1 + drops[p]

===============================================================================
