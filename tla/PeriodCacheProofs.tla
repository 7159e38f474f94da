--------------------------- MODULE PeriodCacheProofs ---------------------------
(***************************************************************************)
(* Theorems about what is kept in memory and goes stale: PeriodCache, for  *)
(* any number of processes and loads and every time to live; HuPage, for   *)
(* all projects and assets and any number of edits, saves and refreshes;   *)
(* and RateLimiter, for every limit, window and number of keys.            *)
(*                                                                         *)
(* The invariant of PeriodCache has three parts besides the types.         *)
(* AgesHold bounds the age of an entry in each cache, from Redis up, and   *)
(* of a value on its way.  SeenHolds says that nothing older than what a   *)
(* client has to see is in a cache or on its way there, and SavingHolds    *)
(* what a save that met no load has dropped so far, for a key whose        *)
(* entries a save drops everywhere.  LoadsHold counts the queries in       *)
(* flight.                                                                 *)
(*                                                                         *)
(* That of HuPage bounds every row by the writes so far (PageUpto) and     *)
(* says how old a fingerprint is (PrintsHold) and that what differs from a *)
(* copy has been touched after the fingerprint that came with it           *)
(* (CopiesHold), be it the copy that a save sends (SentIs).  OwnHold is    *)
(* EditsStay, with the base copy that the diff is made against.            *)
(*                                                                         *)
(* No property of RateLimiter mentions a bucket.  BucketHolds says what a  *)
(* bucket tells of the hits that were let through: which of them it        *)
(* counts, and how old the others are.                                     *)
(***************************************************************************)
EXTENDS PeriodCache, HuPage, RateLimiter, FiniteSetTheorems, NaturalsInduction,
        WellFoundedInduction, TLAPS

Carries(l) == loads[l].at \in {"keepShared", "store", "setShared"}

AgesHold ==
    /\ redis # Nothing => redis.expires <= redis.value.read + Ttl
    /\ \A p \in Processes : memory[p] # Nothing =>
            memory[p].expires < memory[p].value.read + Ttl + Refill
    /\ StalenessBounded
    /\ \A l \in Loads : loads[l].at \in {"store", "setShared"} => loads[l].value.read = clock
    /\ \A l \in Loads : loads[l].at = "keepShared" => clock < loads[l].value.read + Ttl

SeenHolds ==
    /\ \A p \in Processes : seen[p] <= version
    /\ \A p \in Processes : response[p] # Nothing => response[p].value.version >= seen[p]
    /\ \A p \in Processes : memory[p] # Nothing => memory[p].value.version >= seen[p]
    /\ \A p \in Processes : redis # Nothing => redis.value.version >= seen[p]
    /\ \A l \in Loads, p \in Processes : Carries(l) => loads[l].value.version >= seen[p]

\* What a save that no load met has done so far.
SavingHolds ==
    saving.at # "none" /\ saving.quiet =>
        /\ \A l \in Loads : ~Busy(l)
        /\ saving.at # "response" => response[saving.process] = Nothing
        /\ saving.at = "shared" => memory[saving.process] = Nothing

\* A load carries a value exactly from its query, or from Redis, on.
ValuesHold ==
    \A l \in Loads : Busy(l) => IF Carries(l) THEN loads[l].value \in Value
                                ELSE loads[l].value = Nothing

LoadsHold ==
    \A p \in Processes :
        Cardinality(Loading(p)) <= drops[p] + (IF inflight[p] = Nothing THEN 0 ELSE 1)

USE PeriodCacheAssumption

\* A load under way has the fields of one.
LEMMA BusyLoad ==
    ASSUME CacheTypeOK, NEW l \in Loads, Busy(l)
    PROVE  loads[l] \in Load
BY DEF CacheTypeOK, Busy, Idle, Load

\* Entries made now have the type of entries.
LEMMA KeptTyped ==
    ASSUME CacheTypeOK, NEW v \in Value, NEW ttl \in {Ttl, Refill}
    PROVE  Kept(v, ttl) \in Entry
BY DEF CacheTypeOK, Clock, Kept, Entry

-------------------------------------------------------------------------------
(* Types *)

LEMMA TypesInit == CacheInit => CacheTypeOK /\ ValuesHold
PROOF
<1> SUFFICES ASSUME CacheInit  PROVE CacheTypeOK /\ ValuesHold
  OBVIOUS
<1>1. prefix \in KeyPrefixes /\ version \in Versions /\ clock \in Clock /\ seen \in [Processes -> Versions]
  BY DEF CacheInit, Versions, Clock
<1>2. drops \in [Processes -> 0..MaxDrops]
  BY DEF CacheInit
<1>5. saving \in Save
  BY DEF CacheInit, Save
<1>3. /\ response \in [Processes -> Entry \cup {Nothing}]
      /\ memory \in [Processes -> Entry \cup {Nothing}]
      /\ redis \in Entry \cup {Nothing}
      /\ inflight \in [Processes -> Loads \cup {Nothing}]
  BY DEF CacheInit
<1>4. loads \in [Loads -> Load \cup {Idle}] /\ ValuesHold
  BY DEF CacheInit, ValuesHold, Busy, Idle
<1> QED  BY <1>1, <1>2, <1>3, <1>4, <1>5 DEF CacheTypeOK

\* A load that is answered or asks Redis.
LEMMA LookupTyped ==
    ASSUME CacheTypeOK, NEW l \in Loads, NEW p \in Processes,
           Lookup(l, p, response[p], memory[p])
    PROVE  /\ response' \in [Processes -> Entry \cup {Nothing}]
           /\ memory' \in [Processes -> Entry \cup {Nothing}]
           /\ loads' \in [Loads -> Load \cup {Idle}]
           /\ loads' = [loads EXCEPT ![l] = Idle]
              \/ loads' = [loads EXCEPT ![l] = NewLoad("getShared", p)]
PROOF
<1>1. NewLoad("getShared", p) \in Load
  BY DEF NewLoad, Load
<1>2. memory[p] # Nothing => Kept(memory[p].value, Ttl) \in Entry
  <2> HAVE memory[p] # Nothing
  <2>1. memory[p].value \in Value
    BY DEF CacheTypeOK, Entry
  <2> QED  BY <2>1, KeptTyped
<1>3. CASE Live(response[p])
  <2>1. response' = [response EXCEPT ![p] = response[p]]
    BY <1>3 DEF Lookup
  <2>2. memory' = [memory EXCEPT ![p] = memory[p]]
    BY <1>3 DEF Lookup
  <2>3. loads' = [loads EXCEPT ![l] = Idle]
    BY <1>3 DEF Lookup, Answered
  <2> QED  BY <2>1, <2>2, <2>3 DEF CacheTypeOK
<1>4. CASE ~Live(response[p]) /\ Live(memory[p])
  BY <1>2, <1>4 DEF Lookup, Answered, CacheTypeOK, Live
<1>5. CASE ~Live(response[p]) /\ ~Live(memory[p])
  BY <1>1, <1>5 DEF Lookup, AsksRedis, CacheTypeOK
<1> QED  BY <1>3, <1>4, <1>5

LEMMA TypesStep ==
    ASSUME CacheTypeOK, ValuesHold, [CacheNext]_cacheVars
    PROVE  CacheTypeOK'
PROOF
<1>0. prefix' \in KeyPrefixes
  BY DEF CacheNext, cacheVars, CacheTypeOK
<1> USE <1>0 DEF Versions, Clock
<1>1. ASSUME NEW l \in Loads, NEW p \in Processes, Ask(l, p)
      PROVE  CacheTypeOK'
  BY <1>1, LookupTyped DEF Ask, Arrives, CacheTypeOK, Save
<1>2. ASSUME NEW l \in Loads, NEW p \in Processes, AskSkipping(l, p)
      PROVE  CacheTypeOK'
  <2>1. saving' \in Save
    BY <1>2 DEF AskSkipping, Arrives, CacheTypeOK, Save
  <2>2. NewLoad("deleteShared", p) \in Load
    BY DEF NewLoad, Load
  <2>3. loads' \in [Loads -> Load \cup {Idle}]
    BY <1>2, <2>2 DEF AskSkipping, CacheTypeOK
  <2>4. /\ response' \in [Processes -> Entry \cup {Nothing}]
        /\ memory' \in [Processes -> Entry \cup {Nothing}]
    BY <1>2 DEF AskSkipping, CacheTypeOK
  <2>5. /\ inflight' \in [Processes -> Loads \cup {Nothing}]
        /\ drops' \in [Processes -> 0..MaxDrops]
    BY <1>2 DEF AskSkipping, Drop, CacheTypeOK
  <2> QED  BY <1>2, <2>1, <2>3, <2>4, <2>5 DEF AskSkipping, CacheTypeOK
<1>3. ASSUME NEW l \in Loads, DeleteShared(l)
      PROVE  CacheTypeOK'
  <2>1. loads[l].process \in Processes
    BY <1>3, BusyLoad DEF DeleteShared, Busy, Load
  <2> QED  BY <1>3, <2>1, LookupTyped DEF DeleteShared, CacheTypeOK
<1>4. ASSUME NEW l \in Loads, GetShared(l)
      PROVE  CacheTypeOK'
  <2>1. loads[l] \in Load
    BY <1>4, BusyLoad DEF GetShared, Busy
  <2>2. loads' \in [Loads -> Load \cup {Idle}]
    <3>1. CASE Live(redis)
      <4>1. redis.value \in Value
        BY <3>1 DEF Live, CacheTypeOK, Entry
      <4> QED  BY <1>4, <2>1, <3>1, <4>1 DEF GetShared, CacheTypeOK, Load
    <3>2. CASE ~Live(redis) /\ inflight[loads[l].process] # Nothing
      <4>1. inflight[loads[l].process] \in Loads
        BY <2>1, <3>2 DEF CacheTypeOK, Load
      <4> QED  BY <1>4, <2>1, <3>2, <4>1 DEF GetShared, CacheTypeOK, Load
    <3>3. CASE ~Live(redis) /\ inflight[loads[l].process] = Nothing
      BY <1>4, <2>1, <3>3 DEF GetShared, Then, CacheTypeOK, Load
    <3> QED  BY <3>1, <3>2, <3>3
  <2>3. inflight' \in [Processes -> Loads \cup {Nothing}]
    BY <1>4, <2>1 DEF GetShared, CacheTypeOK, Load
  <2> QED  BY <1>4, <2>2, <2>3 DEF GetShared, CacheTypeOK
<1>5. ASSUME NEW l \in Loads, KeepShared(l)
      PROVE  CacheTypeOK'
  <2>1. loads[l] \in Load /\ loads[l].value \in Value
    BY <1>5, BusyLoad DEF KeepShared, Busy, ValuesHold, Carries
  <2>2. Kept(loads[l].value, Refill) \in Entry /\ Kept(loads[l].value, Ttl) \in Entry
    BY <2>1, KeptTyped
  <2> QED  BY <1>5, <2>2 DEF KeepShared, Answered, CacheTypeOK
<1>6. ASSUME NEW l \in Loads, ReadDb(l)
      PROVE  CacheTypeOK'
  <2>1. loads[l] \in Load
    BY <1>6, BusyLoad DEF ReadDb, Busy
  <2>2. [version |-> version, read |-> clock] \in Value
    BY DEF CacheTypeOK, Value
  <2> QED  BY <1>6, <2>1, <2>2 DEF ReadDb, CacheTypeOK, Load
<1>7. ASSUME NEW l \in Loads, Store(l)
      PROVE  CacheTypeOK'
  <2>1. loads[l] \in Load /\ loads[l].value \in Value
    BY <1>7, BusyLoad DEF Store, Busy, ValuesHold, Carries
  <2>2. Kept(loads[l].value, Ttl) \in Entry
    BY <2>1, KeptTyped
  <2> QED  BY <1>7, <2>1, <2>2 DEF Store, Then, CacheTypeOK, Load
<1>8. ASSUME NEW l \in Loads, SetShared(l)
      PROVE  CacheTypeOK'
  <2>1. loads[l].value \in Value
    BY <1>8 DEF SetShared, Busy, ValuesHold, Carries
  <2>2. Kept(loads[l].value, Ttl) \in Entry
    BY <2>1, KeptTyped
  <2> QED  BY <1>8, <2>2 DEF SetShared, CacheTypeOK
<1>9. ASSUME NEW p \in Processes, Write(p)
      PROVE  CacheTypeOK'
  BY <1>9 DEF Write, CacheTypeOK, Save
<1>10. ASSUME DropResponse
       PROVE  CacheTypeOK'
  BY <1>10 DEF DropResponse, Drop, CacheTypeOK, Save
<1>11. ASSUME DropMemory \/ DropShared \/ CacheTick
       PROVE  CacheTypeOK'
  BY <1>11 DEF DropMemory, DropShared, CacheTick, CacheTypeOK, Save
<1>12. ASSUME UNCHANGED cacheVars
       PROVE  CacheTypeOK'
  BY <1>12 DEF cacheVars, CacheTypeOK
<1> QED  BY <1>1, <1>2, <1>3, <1>4, <1>5, <1>6, <1>7, <1>8, <1>9, <1>10, <1>11, <1>12
         DEF CacheNext, LoadStep


-------------------------------------------------------------------------------
(* The values on their way *)

\* A step that leaves the load with what it had, or sends it off.
LEMMA LookupValues ==
    ASSUME CacheTypeOK, ValuesHold, NEW l \in Loads, NEW p \in Processes,
           Lookup(l, p, response[p], memory[p])
    PROVE  ValuesHold'
PROOF
<1>1. \A m \in Loads \ {l} : loads'[m] = loads[m]
  BY LookupTyped DEF CacheTypeOK
<1>2. loads'[l] = Idle \/ loads'[l] = NewLoad("getShared", p)
  BY LookupTyped DEF CacheTypeOK
<1> QED  BY <1>1, <1>2 DEF ValuesHold, Busy, Carries, Idle, NewLoad

LEMMA ValuesStep ==
    ASSUME CacheTypeOK, ValuesHold, [CacheNext]_cacheVars
    PROVE  ValuesHold'
PROOF
<1>1. ASSUME NEW l \in Loads, NEW p \in Processes, Ask(l, p)
      PROVE  ValuesHold'
  BY <1>1, LookupValues DEF Ask
<1>2. ASSUME NEW l \in Loads, NEW p \in Processes, AskSkipping(l, p)
      PROVE  ValuesHold'
  BY <1>2 DEF AskSkipping, NewLoad, CacheTypeOK, ValuesHold, Busy, Carries
<1>3. ASSUME NEW l \in Loads, DeleteShared(l)
      PROVE  ValuesHold'
  <2>1. loads[l].process \in Processes
    BY <1>3, BusyLoad DEF DeleteShared, Busy, Load
  <2> QED  BY <1>3, <2>1, LookupValues DEF DeleteShared
<1>4. ASSUME NEW l \in Loads, GetShared(l)
      PROVE  ValuesHold'
  <2>1. loads[l] \in Load /\ loads[l].value = Nothing
    BY <1>4, BusyLoad DEF GetShared, Busy, ValuesHold, Carries
  <2>2. \A m \in Loads \ {l} : loads'[m] = loads[m]
    BY <1>4, <2>1 DEF GetShared, Then, CacheTypeOK
  <2>3. CASE Live(redis)
    <3>1. redis.value \in Value
      BY <2>3 DEF Live, CacheTypeOK, Entry
    <3>2. loads'[l] = [loads[l] EXCEPT !.at = "keepShared", !.value = redis.value]
      BY <1>4, <2>3 DEF GetShared, CacheTypeOK
    <3> QED  BY <2>1, <2>2, <3>1, <3>2, ZenonT(60) DEF ValuesHold, Busy, Carries, Load
  <2>4. CASE ~Live(redis)
    <3>1. loads'[l].at \in {"joined", "readDb"} /\ loads'[l].value = Nothing
      BY <1>4, <2>1, <2>4 DEF GetShared, Then, CacheTypeOK, Load
    <3> QED  BY <2>2, <3>1 DEF ValuesHold, Busy, Carries
  <2> QED  BY <2>3, <2>4
<1>5. ASSUME NEW l \in Loads, KeepShared(l)
      PROVE  ValuesHold'
  BY <1>5 DEF KeepShared, Answered, Idle, CacheTypeOK, ValuesHold, Busy, Carries
<1>6. ASSUME NEW l \in Loads, ReadDb(l)
      PROVE  ValuesHold'
  <2>1. loads[l] \in Load
    BY <1>6, BusyLoad DEF ReadDb, Busy
  <2>2. \A m \in Loads \ {l} : loads'[m] = loads[m]
    BY <1>6 DEF ReadDb, CacheTypeOK
  <2>3. loads'[l].at = "store" /\ loads'[l].value = [version |-> version, read |-> clock]
    BY <1>6, <2>1 DEF ReadDb, CacheTypeOK, Load
  <2>4. [version |-> version, read |-> clock] \in Value
    BY DEF CacheTypeOK, Value
  <2> QED  BY <2>2, <2>3, <2>4 DEF ValuesHold, Busy, Carries
<1>7. ASSUME NEW l \in Loads, Store(l)
      PROVE  ValuesHold'
  <2>1. loads[l] \in Load /\ loads[l].value \in Value
    BY <1>7, BusyLoad DEF Store, Busy, ValuesHold, Carries
  <2>2. \A m \in Loads \ {l} : loads'[m] = loads[m]
    BY <1>7 DEF Store, Then, CacheTypeOK
  <2>3. loads'[l].at = "setShared" /\ loads'[l].value = loads[l].value
    BY <1>7, <2>1 DEF Store, Then, CacheTypeOK, Load
  <2> QED  BY <2>1, <2>2, <2>3 DEF ValuesHold, Busy, Carries
<1>8. ASSUME NEW l \in Loads, SetShared(l)
      PROVE  ValuesHold'
  BY <1>8 DEF SetShared, Idle, ValuesHold, Busy, Carries
<1>9. ASSUME UNCHANGED loads
      PROVE  ValuesHold'
  BY <1>9 DEF ValuesHold, Busy, Carries
<1> QED  BY <1>1, <1>2, <1>3, <1>4, <1>5, <1>6, <1>7, <1>8, <1>9
         DEF CacheNext, LoadStep, Write, DropResponse, DropMemory, DropShared, CacheTick,
             cacheVars

-------------------------------------------------------------------------------
(* Ages *)

LEMMA LookupAges ==
    ASSUME CacheTypeOK, AgesHold, NEW l \in Loads, NEW p \in Processes,
           Lookup(l, p, response[p], memory[p]), clock' = clock,
           redis' \in {redis, Nothing}
    PROVE  AgesHold'
PROOF
<1>1. \A m \in Loads \ {l} : loads'[m] = loads[m]
  BY LookupTyped DEF CacheTypeOK
<1>2. loads'[l] = Idle \/ loads'[l] = NewLoad("getShared", p)
  BY LookupTyped DEF CacheTypeOK
<1>3. \A q \in Processes \ {p} : response'[q] = response[q] /\ memory'[q] = memory[q]
  BY DEF Lookup, CacheTypeOK
<1>4. memory'[p] \in {memory[p], Nothing}
  BY DEF Lookup, CacheTypeOK
<1>5. \/ response'[p] \in {response[p], Nothing}
      \/ /\ Live(memory[p])
         /\ response'[p] = Kept(memory[p].value, Ttl)
  <2>1. CASE Live(response[p])
    BY <2>1 DEF Lookup, CacheTypeOK
  <2>2. CASE ~Live(response[p]) /\ Live(memory[p])
    BY <2>2 DEF Lookup, CacheTypeOK
  <2>3. CASE ~Live(response[p]) /\ ~Live(memory[p])
    BY <2>3 DEF Lookup, CacheTypeOK
  <2> QED  BY <2>1, <2>2, <2>3
<1>6. ASSUME Live(memory[p])
      PROVE  Kept(memory[p].value, Ttl).expires < memory[p].value.read + 2 * Ttl + Refill
  <2>1. memory[p] # Nothing /\ memory[p].expires > clock
    BY <1>6 DEF Live
  <2>2. memory[p] \in Entry
    BY <2>1 DEF CacheTypeOK
  <2>3. memory[p].expires \in Nat /\ memory[p].value.read \in Nat /\ clock \in Nat
    BY <2>2 DEF Entry, Value, Clock, CacheTypeOK
  <2>4. memory[p].expires < memory[p].value.read + Ttl + Refill
    BY <2>1 DEF AgesHold
  <2> QED  BY <2>1, <2>3, <2>4 DEF Kept
<1>7. Kept(memory[p].value, Ttl).value = memory[p].value
  BY DEF Kept
<1>8. StalenessBounded'
  BY <1>3, <1>5, <1>6, <1>7 DEF AgesHold, StalenessBounded
<1>9. \A q \in Processes : memory'[q] # Nothing =>
            memory'[q].expires < memory'[q].value.read + Ttl + Refill
  BY <1>3, <1>4 DEF AgesHold
<1>10. \A m \in Loads :
          /\ loads'[m].at \in {"store", "setShared"} => loads'[m].value.read = clock'
          /\ loads'[m].at = "keepShared" => clock' < loads'[m].value.read + Ttl
  BY <1>1, <1>2 DEF AgesHold, Idle, NewLoad
<1> QED  BY <1>8, <1>9, <1>10 DEF AgesHold

LEMMA AgesStep ==
    ASSUME CacheTypeOK, ValuesHold, AgesHold, [CacheNext]_cacheVars
    PROVE  AgesHold'
PROOF
<1> USE DEF StalenessBounded
<1>1. ASSUME NEW l \in Loads, NEW p \in Processes, Ask(l, p)
      PROVE  AgesHold'
  BY <1>1, LookupAges DEF Ask
<1>2. ASSUME NEW l \in Loads, NEW p \in Processes, AskSkipping(l, p)
      PROVE  AgesHold'
  BY <1>2 DEF AskSkipping, NewLoad, CacheTypeOK, AgesHold
<1>3. ASSUME NEW l \in Loads, DeleteShared(l)
      PROVE  AgesHold'
  <2>1. loads[l].process \in Processes
    BY <1>3, BusyLoad DEF DeleteShared, Busy, Load
  <2> QED  BY <1>3, <2>1, LookupAges DEF DeleteShared
<1>4. ASSUME NEW l \in Loads, GetShared(l)
      PROVE  AgesHold'
  <2>1. loads[l] \in Load
    BY <1>4, BusyLoad DEF GetShared, Busy
  <2>2. \A m \in Loads \ {l} : loads'[m] = loads[m]
    BY <1>4, <2>1 DEF GetShared, Then, CacheTypeOK
  <2>3. CASE Live(redis)
    <3>1. redis # Nothing /\ redis.expires > clock /\ redis \in Entry
      BY <2>3 DEF Live, CacheTypeOK
    <3>2. clock < redis.value.read + Ttl
      BY <3>1 DEF AgesHold, CacheTypeOK, Entry, Value, Clock
    <3>3. loads'[l].at = "keepShared" /\ loads'[l].value = redis.value
      BY <1>4, <2>1, <2>3 DEF GetShared, CacheTypeOK, Load
    <3> QED  BY <1>4, <2>2, <3>2, <3>3 DEF GetShared, AgesHold
  <2>4. CASE ~Live(redis)
    <3>1. loads'[l].at \in {"joined", "readDb"}
      BY <1>4, <2>1, <2>4 DEF GetShared, Then, CacheTypeOK, Load
    <3> QED  BY <1>4, <2>2, <3>1 DEF GetShared, AgesHold
  <2> QED  BY <2>3, <2>4
<1>5. ASSUME NEW l \in Loads, KeepShared(l)
      PROVE  AgesHold'
  <2> DEFINE p == loads[l].process
  <2>1. loads[l] \in Load /\ p \in Processes /\ loads[l].value \in Value
    BY <1>5, BusyLoad DEF KeepShared, Busy, ValuesHold, Carries, Load
  <2>2. /\ loads[l].value.read \in Nat /\ clock \in Nat
        /\ clock < loads[l].value.read + Ttl
    BY <1>5, <2>1 DEF KeepShared, AgesHold, Value, Clock, CacheTypeOK
  <2>3. /\ memory'[p] = Kept(loads[l].value, Refill)
        /\ response'[p] = Kept(loads[l].value, Ttl)
        /\ \A q \in Processes \ {p} : memory'[q] = memory[q] /\ response'[q] = response[q]
    BY <1>5, <2>1 DEF KeepShared, CacheTypeOK
  <2>4. /\ Kept(loads[l].value, Refill).expires < loads[l].value.read + Ttl + Refill
        /\ Kept(loads[l].value, Ttl).expires < loads[l].value.read + 2 * Ttl + Refill
        /\ Kept(loads[l].value, Refill).value = loads[l].value
        /\ Kept(loads[l].value, Ttl).value = loads[l].value
    BY <2>2 DEF Kept
  <2>5. loads'[l] = Idle /\ \A m \in Loads \ {l} : loads'[m] = loads[m]
    BY <1>5 DEF KeepShared, Answered, CacheTypeOK
  <2>6. redis' = redis /\ clock' = clock
    BY <1>5 DEF KeepShared
  <2>7. StalenessBounded'
    BY <2>3, <2>4 DEF AgesHold
  <2>8. \A q \in Processes : memory'[q] # Nothing =>
            memory'[q].expires < memory'[q].value.read + Ttl + Refill
    BY <2>3, <2>4 DEF AgesHold
  <2> HIDE DEF p
  <2> QED  BY <2>5, <2>6, <2>7, <2>8 DEF AgesHold, Idle
<1>6. ASSUME NEW l \in Loads, ReadDb(l)
      PROVE  AgesHold'
  <2>1. loads[l] \in Load
    BY <1>6, BusyLoad DEF ReadDb, Busy
  <2>2. \A m \in Loads \ {l} : loads'[m] = loads[m]
    BY <1>6 DEF ReadDb, CacheTypeOK
  <2>3. loads'[l].at = "store" /\ loads'[l].value.read = clock
    BY <1>6, <2>1 DEF ReadDb, CacheTypeOK, Load
  <2> QED  BY <1>6, <2>2, <2>3 DEF ReadDb, AgesHold
<1>7. ASSUME NEW l \in Loads, Store(l)
      PROVE  AgesHold'
  <2> DEFINE p == loads[l].process
  <2>1. loads[l] \in Load /\ p \in Processes /\ loads[l].value \in Value
    BY <1>7, BusyLoad DEF Store, Busy, ValuesHold, Carries, Load
  <2>2. loads[l].value.read = clock /\ clock \in Nat
    BY <1>7 DEF Store, AgesHold, Clock, CacheTypeOK
  <2>3. /\ memory'[p] = Kept(loads[l].value, Ttl)
        /\ response'[p] = Kept(loads[l].value, Ttl)
        /\ \A q \in Processes \ {p} : memory'[q] = memory[q] /\ response'[q] = response[q]
    BY <1>7, <2>1 DEF Store, CacheTypeOK
  <2>4. /\ Kept(loads[l].value, Ttl).expires < loads[l].value.read + Ttl + Refill
        /\ Kept(loads[l].value, Ttl).expires < loads[l].value.read + 2 * Ttl + Refill
        /\ Kept(loads[l].value, Ttl).value = loads[l].value
    BY <2>2 DEF Kept
  <2>5. /\ loads'[l].at = "setShared" /\ loads'[l].value = loads[l].value
        /\ \A m \in Loads \ {l} : loads'[m] = loads[m]
    BY <1>7, <2>1 DEF Store, Then, CacheTypeOK, Load
  <2>6. redis' = redis /\ clock' = clock
    BY <1>7 DEF Store
  <2>7. StalenessBounded'
    BY <2>3, <2>4 DEF AgesHold
  <2>8. \A q \in Processes : memory'[q] # Nothing =>
            memory'[q].expires < memory'[q].value.read + Ttl + Refill
    BY <2>3, <2>4 DEF AgesHold
  <2> HIDE DEF p
  <2> QED  BY <2>2, <2>5, <2>6, <2>7, <2>8 DEF AgesHold
<1>8. ASSUME NEW l \in Loads, SetShared(l)
      PROVE  AgesHold'
  <2>1. loads[l].value.read = clock /\ clock \in Nat
    BY <1>8 DEF SetShared, AgesHold, Clock, CacheTypeOK
  <2>2. redis'.expires <= redis'.value.read + Ttl
    BY <1>8, <2>1 DEF SetShared, Kept
  <2>3. \A m \in Loads : loads'[m] \in {Idle, loads[m]}
    BY <1>8 DEF SetShared
  <2> QED  BY <1>8, <2>2, <2>3 DEF SetShared, AgesHold, Idle
<1>9. ASSUME NEW p \in Processes, Write(p)
      PROVE  AgesHold'
  BY <1>9 DEF Write, AgesHold
<1>10. ASSUME DropResponse
       PROVE  AgesHold'
  BY <1>10 DEF DropResponse, CacheTypeOK, AgesHold
<1>11. ASSUME DropMemory \/ DropShared
       PROVE  AgesHold'
  BY <1>11 DEF DropMemory, DropShared, CacheTypeOK, AgesHold
<1>12. ASSUME CacheTick
       PROVE  AgesHold'
  BY <1>12 DEF CacheTick, Prompt, AgesHold
<1>13. ASSUME UNCHANGED cacheVars
       PROVE  AgesHold'
  BY <1>13 DEF cacheVars, AgesHold
<1> QED  BY <1>1, <1>2, <1>3, <1>4, <1>5, <1>6, <1>7, <1>8, <1>9, <1>10, <1>11, <1>12, <1>13
         DEF CacheNext, LoadStep

-------------------------------------------------------------------------------
(* What clients have to see *)

LEMMA LookupSeen ==
    ASSUME CacheTypeOK, SeenHolds, NEW l \in Loads, NEW p \in Processes,
           Lookup(l, p, response[p], memory[p]), version' = version, seen' = seen,
           redis' \in {redis, Nothing}
    PROVE  SeenHolds'
PROOF
<1>1. \A m \in Loads : Carries(m)' => loads'[m] = loads[m] /\ Carries(m)
  BY LookupTyped DEF CacheTypeOK, Carries, Idle, NewLoad
<1>2. \A q \in Processes \ {p} : response'[q] = response[q] /\ memory'[q] = memory[q]
  BY DEF Lookup, CacheTypeOK
<1>3. memory'[p] \in {memory[p], Nothing}
  BY DEF Lookup, CacheTypeOK
<1>4. response'[p] # Nothing => response'[p].value.version >= seen[p]
  <2>1. CASE Live(response[p])
    BY <2>1 DEF Lookup, CacheTypeOK, SeenHolds
  <2>2. CASE ~Live(response[p]) /\ Live(memory[p])
    <3>1. response'[p] = Kept(memory[p].value, Ttl) /\ memory[p] # Nothing
      BY <2>2 DEF Lookup, CacheTypeOK, Live
    <3> QED  BY <3>1 DEF SeenHolds, Kept
  <2>3. CASE ~Live(response[p]) /\ ~Live(memory[p])
    BY <2>3 DEF Lookup, CacheTypeOK
  <2> QED  BY <2>1, <2>2, <2>3
<1> QED  BY <1>1, <1>2, <1>3, <1>4 DEF SeenHolds

LEMMA SeenStep ==
    ASSUME CacheTypeOK, ValuesHold, SeenHolds, SavingHolds, prefix \in Dropped,
           [CacheNext]_cacheVars
    PROVE  SeenHolds'
PROOF
<1>1. ASSUME NEW l \in Loads, NEW p \in Processes, Ask(l, p)
      PROVE  SeenHolds'
  BY <1>1, LookupSeen DEF Ask
<1>2. ASSUME NEW l \in Loads, NEW p \in Processes, AskSkipping(l, p)
      PROVE  SeenHolds'
  BY <1>2 DEF AskSkipping, NewLoad, CacheTypeOK, SeenHolds, Carries
<1>3. ASSUME NEW l \in Loads, DeleteShared(l)
      PROVE  SeenHolds'
  <2>1. loads[l].process \in Processes
    BY <1>3, BusyLoad DEF DeleteShared, Busy, Load
  <2> QED  BY <1>3, <2>1, LookupSeen DEF DeleteShared
<1>4. ASSUME NEW l \in Loads, GetShared(l)
      PROVE  SeenHolds'
  <2>1. loads[l] \in Load
    BY <1>4, BusyLoad DEF GetShared, Busy
  <2>2. \A m \in Loads \ {l} : loads'[m] = loads[m]
    BY <1>4, <2>1 DEF GetShared, Then, CacheTypeOK
  <2>3. CASE Live(redis)
    <3>1. loads'[l].value = redis.value /\ redis # Nothing
      BY <1>4, <2>1, <2>3 DEF GetShared, CacheTypeOK, Load, Live
    <3> QED  BY <1>4, <2>2, <3>1 DEF GetShared, SeenHolds, Carries
  <2>4. CASE ~Live(redis)
    <3>1. loads'[l].at \in {"joined", "readDb"}
      BY <1>4, <2>1, <2>4 DEF GetShared, Then, CacheTypeOK, Load
    <3> QED  BY <1>4, <2>2, <3>1 DEF GetShared, SeenHolds, Carries
  <2> QED  BY <2>3, <2>4
<1>5. ASSUME NEW l \in Loads, KeepShared(l)
      PROVE  SeenHolds'
  <2> DEFINE p == loads[l].process
  <2>1. p \in Processes /\ Carries(l)
    BY <1>5, BusyLoad DEF KeepShared, Busy, Carries, Load
  <2>2. /\ memory'[p].value = loads[l].value /\ response'[p].value = loads[l].value
        /\ \A q \in Processes \ {p} : memory'[q] = memory[q] /\ response'[q] = response[q]
    BY <1>5, <2>1 DEF KeepShared, Kept, CacheTypeOK
  <2>3. \A m \in Loads : loads'[m] \in {Idle, loads[m]}
    BY <1>5 DEF KeepShared, Answered, CacheTypeOK
  <2>4. seen' = seen /\ version' = version /\ redis' = redis
    BY <1>5 DEF KeepShared
  <2>5. \A q \in Processes : response'[q] # Nothing => response'[q].value.version >= seen[q]
    BY <2>1, <2>2 DEF SeenHolds
  <2>6. \A q \in Processes : memory'[q] # Nothing => memory'[q].value.version >= seen[q]
    BY <2>1, <2>2 DEF SeenHolds
  <2> HIDE DEF p
  <2> QED  BY <2>3, <2>4, <2>5, <2>6 DEF SeenHolds, Carries, Idle
<1>6. ASSUME NEW l \in Loads, ReadDb(l)
      PROVE  SeenHolds'
  <2>1. loads[l] \in Load
    BY <1>6, BusyLoad DEF ReadDb, Busy
  <2>2. \A m \in Loads \ {l} : loads'[m] = loads[m]
    BY <1>6 DEF ReadDb, CacheTypeOK
  <2>3. loads'[l].value.version = version
    BY <1>6, <2>1 DEF ReadDb, CacheTypeOK, Load
  <2>4. \A q \in Processes : version >= seen[q]
    BY DEF SeenHolds, CacheTypeOK, Versions
  <2> QED  BY <1>6, <2>2, <2>3, <2>4 DEF ReadDb, SeenHolds, Carries
<1>7. ASSUME NEW l \in Loads, Store(l)
      PROVE  SeenHolds'
  <2> DEFINE p == loads[l].process
  <2>1. loads[l] \in Load /\ p \in Processes /\ Carries(l)
    BY <1>7, BusyLoad DEF Store, Busy, Carries, Load
  <2>2. /\ memory'[p].value = loads[l].value /\ response'[p].value = loads[l].value
        /\ \A q \in Processes \ {p} : memory'[q] = memory[q] /\ response'[q] = response[q]
    BY <1>7, <2>1 DEF Store, Kept, CacheTypeOK
  <2>3. /\ loads'[l].value = loads[l].value
        /\ \A m \in Loads \ {l} : loads'[m] = loads[m]
    BY <1>7, <2>1 DEF Store, Then, CacheTypeOK, Load
  <2>4. seen' = seen /\ version' = version /\ redis' = redis
    BY <1>7 DEF Store
  <2>5. \A q \in Processes : response'[q] # Nothing => response'[q].value.version >= seen[q]
    BY <2>1, <2>2 DEF SeenHolds
  <2>6. \A q \in Processes : memory'[q] # Nothing => memory'[q].value.version >= seen[q]
    BY <2>1, <2>2 DEF SeenHolds
  <2>7. \A m \in Loads, q \in Processes : Carries(m)' => loads'[m].value.version >= seen[q]
    BY <2>1, <2>3 DEF SeenHolds, Carries
  <2> HIDE DEF p
  <2> QED  BY <2>4, <2>5, <2>6, <2>7 DEF SeenHolds
<1>8. ASSUME NEW l \in Loads, SetShared(l)
      PROVE  SeenHolds'
  <2>1. redis'.value = loads[l].value /\ Carries(l)
    BY <1>8 DEF SetShared, Kept, Carries
  <2>2. \A m \in Loads : loads'[m] \in {Idle, loads[m]}
    BY <1>8 DEF SetShared
  <2> QED  BY <1>8, <2>1, <2>2 DEF SetShared, SeenHolds, Idle, Carries
<1>9. ASSUME NEW p \in Processes, Write(p)
      PROVE  SeenHolds'
  BY <1>9 DEF Write, SeenHolds, CacheTypeOK, Versions, Carries
<1>10. ASSUME DropResponse
       PROVE  SeenHolds'
  BY <1>10 DEF DropResponse, CacheTypeOK, SeenHolds, Carries
<1>11. ASSUME DropMemory
       PROVE  SeenHolds'
  BY <1>11 DEF DropMemory, CacheTypeOK, SeenHolds, Carries
<1>12. ASSUME DropShared
       PROVE  SeenHolds'
  <2> DEFINE p == saving.process
  <2>1. CASE ~saving.quiet
    BY <1>12, <2>1 DEF DropShared, SeenHolds, Carries
  <2>2. CASE saving.quiet
    <3>1. /\ p \in Processes /\ seen'[p] = version /\ version' = version
          /\ \A q \in Processes \ {p} : seen'[q] = seen[q]
      BY <1>12, <2>2 DEF DropShared, CacheTypeOK, Save
    <3>2. response[p] = Nothing /\ memory[p] = Nothing /\ redis' = Nothing
      BY <1>12, <2>2 DEF DropShared, SavingHolds
    <3>3. \A m \in Loads : ~Carries(m)
      BY <1>12, <2>2 DEF DropShared, SavingHolds, Busy, Carries
    <3>4. \A q \in Processes : seen'[q] <= version'
      BY <3>1 DEF SeenHolds, CacheTypeOK, Versions
    <3>5. response' = response /\ memory' = memory /\ loads' = loads
      BY <1>12 DEF DropShared
    <3> HIDE DEF p
    <3> QED  BY <3>1, <3>2, <3>3, <3>4, <3>5 DEF SeenHolds, Carries
  <2> QED  BY <2>1, <2>2
<1>13. ASSUME CacheTick \/ UNCHANGED cacheVars
       PROVE  SeenHolds'
  BY <1>13 DEF CacheTick, cacheVars, SeenHolds, Carries
<1> QED  BY <1>1, <1>2, <1>3, <1>4, <1>5, <1>6, <1>7, <1>8, <1>9, <1>10, <1>11, <1>12, <1>13
         DEF CacheNext, LoadStep

\* While a quiet save is under way no load is; a load that arrives ends the quiet.
LEMMA SavingStep ==
    ASSUME CacheTypeOK, SavingHolds, prefix \in Dropped, [CacheNext]_cacheVars
    PROVE  SavingHolds'
PROOF
<1>1. ASSUME NEW l \in Loads, NEW p \in Processes, Ask(l, p) \/ AskSkipping(l, p)
      PROVE  SavingHolds'
  <2>1. saving'.at = saving.at /\ (saving'.quiet => saving.at = "none")
    BY <1>1 DEF Ask, AskSkipping, Arrives, CacheTypeOK, Save
  <2> QED  BY <2>1 DEF SavingHolds
<1>2. ASSUME NEW l \in Loads, LoadStep(l)
      PROVE  SavingHolds'
  <2>1. Busy(l) /\ saving' = saving
    BY <1>2 DEF LoadStep, DeleteShared, GetShared, KeepShared, ReadDb, Store, SetShared, Busy
  <2> QED  BY <2>1 DEF SavingHolds
<1>3. ASSUME NEW p \in Processes, Write(p)
      PROVE  SavingHolds'
  BY <1>3 DEF Write, SavingHolds, Busy
<1>4. ASSUME DropResponse
      PROVE  SavingHolds'
  BY <1>4 DEF DropResponse, SavingHolds, Busy, CacheTypeOK, Save
<1>5. ASSUME DropMemory
      PROVE  SavingHolds'
  BY <1>5 DEF DropMemory, SavingHolds, Busy, CacheTypeOK, Save
<1>6. ASSUME DropShared
      PROVE  SavingHolds'
  BY <1>6 DEF DropShared, SavingHolds, CacheTypeOK, Save
<1>7. ASSUME CacheTick \/ UNCHANGED cacheVars
      PROVE  SavingHolds'
  BY <1>7 DEF CacheTick, cacheVars, SavingHolds, Busy
<1> QED  BY <1>1, <1>2, <1>3, <1>4, <1>5, <1>6, <1>7 DEF CacheNext

-------------------------------------------------------------------------------
(* The queries in flight *)

LEMMA LoadingFinite ==
    ASSUME NEW p
    PROVE  IsFiniteSet(Loading(p)) /\ Cardinality(Loading(p)) \in Nat
BY FS_Subset, FS_CardinalityType DEF Loading

LEMMA LoadsStep ==
    ASSUME CacheTypeOK, LoadsHold, [CacheNext]_cacheVars
    PROVE  LoadsHold'
PROOF
<1> DEFINE Unmoved(q) == drops'[q] = drops[q] /\ inflight'[q] = inflight[q]
           Lost(q) == drops'[q] = drops[q] + 1 /\ inflight'[q] = Nothing
           Bound(q) == drops[q] + (IF inflight[q] = Nothing THEN 0 ELSE 1)
<1>a. ASSUME NEW q \in Processes
      PROVE  /\ drops[q] \in Nat /\ Bound(q) \in Nat
             /\ Cardinality(Loading(q)) \in Nat /\ Cardinality(Loading(q)) <= Bound(q)
             /\ IsFiniteSet(Loading(q))
  BY LoadingFinite DEF CacheTypeOK, LoadsHold
<1>b. ASSUME \A q \in Processes :
                 /\ Loading(q)' = Loading(q)
                 /\ Unmoved(q) \/ Lost(q)
      PROVE  LoadsHold'
  BY <1>a, <1>b DEF LoadsHold
<1>1. ASSUME NEW l \in Loads, NEW p \in Processes, Ask(l, p) \/ AskSkipping(l, p)
      PROVE  LoadsHold'
  <2>1. \A m \in Loads \ {l} : loads'[m] = loads[m]
    BY <1>1, LookupTyped DEF Ask, AskSkipping, CacheTypeOK
  <2>2. loads[l].at = "idle" /\ loads'[l].at \in {"idle", "getShared", "deleteShared"}
    BY <1>1, LookupTyped DEF Ask, AskSkipping, NewLoad, Idle, Busy, CacheTypeOK
  <2>3. \A q \in Processes : Loading(q)' = Loading(q)
    BY <2>1, <2>2 DEF Loading
  <2>4. \A q \in Processes : Unmoved(q) \/ Lost(q)
    <3>1. CASE Ask(l, p)
      BY <3>1 DEF Ask
    <3>2. CASE AskSkipping(l, p)
      BY <3>2 DEF AskSkipping, Drop, CacheTypeOK
    <3> QED  BY <1>1, <3>1, <3>2
  <2> QED  BY <1>b, <2>3, <2>4
<1>2. ASSUME NEW l \in Loads, DeleteShared(l) \/ KeepShared(l)
      PROVE  LoadsHold'
  <2>1. loads[l].process \in Processes
    BY <1>2, BusyLoad DEF DeleteShared, KeepShared, Busy, Load
  <2>2. \A m \in Loads \ {l} : loads'[m] = loads[m]
    BY <1>2, <2>1, LookupTyped DEF DeleteShared, KeepShared, Answered, CacheTypeOK
  <2>3. /\ loads[l].at \in {"deleteShared", "keepShared"}
        /\ loads'[l].at \in {"idle", "getShared"}
    BY <1>2, <2>1, LookupTyped
       DEF DeleteShared, KeepShared, Answered, NewLoad, Idle, CacheTypeOK
  <2>4. \A q \in Processes : Loading(q)' = Loading(q)
    BY <2>2, <2>3 DEF Loading
  <2> QED  BY <1>2, <1>b, <2>4 DEF DeleteShared, KeepShared
<1>3. ASSUME NEW l \in Loads, GetShared(l)
      PROVE  LoadsHold'
  <2>1. loads[l] \in Load
    BY <1>3, BusyLoad DEF GetShared, Busy
  <2>p. PICK p \in Processes : p = loads[l].process
    BY <2>1 DEF Load
  <2>2. \A m \in Loads \ {l} : loads'[m] = loads[m]
    BY <1>3, <2>1 DEF GetShared, Then, CacheTypeOK
  <2>3. loads[l].at = "getShared" /\ drops' = drops
    BY <1>3 DEF GetShared
  <2>4. CASE Live(redis) \/ inflight[p] # Nothing
    <3>1. loads'[l].at \in {"keepShared", "joined"} /\ inflight' = inflight
      BY <1>3, <2>1, <2>p, <2>4 DEF GetShared, CacheTypeOK, Load
    <3>2. \A q \in Processes : Loading(q)' = Loading(q)
      BY <2>2, <2>3, <3>1 DEF Loading
    <3> QED  BY <1>b, <2>3, <3>1, <3>2
  <2>5. CASE ~Live(redis) /\ inflight[p] = Nothing
    <3>1. loads'[l].at = "readDb" /\ loads'[l].process = p
      BY <1>3, <2>1, <2>p, <2>5 DEF GetShared, Then, CacheTypeOK, Load
    <3>2. inflight' = [inflight EXCEPT ![p] = l] /\ l # Nothing
      BY <1>3, <2>p, <2>5 DEF GetShared
    <3>3. Loading(p)' = Loading(p) \cup {l}
      BY <2>2, <2>3, <3>1 DEF Loading
    <3>4. \A q \in Processes \ {p} : Loading(q)' = Loading(q)
      BY <2>2, <2>3, <3>1 DEF Loading
    <3>5. /\ IsFiniteSet(Loading(p)) /\ Cardinality(Loading(p)) \in Nat
          /\ l \notin Loading(p)
      BY <1>a, <2>3 DEF Loading
    <3>6. Cardinality(Loading(p) \cup {l}) = Cardinality(Loading(p)) + 1
      BY <3>5, FS_AddElement
    <3>7. Cardinality(Loading(p)) <= drops[p]
      BY <1>a, <2>5
    <3>8. inflight'[p] = l /\ \A q \in Processes \ {p} : inflight'[q] = inflight[q]
      BY <3>2 DEF CacheTypeOK
    <3>9. Cardinality(Loading(p)') <= drops'[p] + 1
      BY <1>a, <2>3, <3>3, <3>5, <3>6, <3>7
    <3>10. \A q \in Processes : Cardinality(Loading(q)') <=
                  drops'[q] + (IF inflight'[q] = Nothing THEN 0 ELSE 1)
      BY <1>a, <2>3, <3>2, <3>4, <3>8, <3>9
    <3> QED  BY <3>10 DEF LoadsHold
  <2> QED  BY <2>4, <2>5
<1>4. ASSUME NEW l \in Loads, ReadDb(l) \/ Store(l)
      PROVE  LoadsHold'
  <2>1. loads[l] \in Load
    BY <1>4, BusyLoad DEF ReadDb, Store, Busy
  <2>2. \A m \in Loads \ {l} : loads'[m] = loads[m]
    BY <1>4 DEF ReadDb, Store, Then, CacheTypeOK
  <2>3. /\ loads[l].at \in {"readDb", "store"} /\ loads'[l].at \in {"store", "setShared"}
        /\ loads'[l].process = loads[l].process
    BY <1>4, <2>1 DEF ReadDb, Store, Then, CacheTypeOK, Load
  <2>4. \A q \in Processes : Loading(q)' = Loading(q)
    BY <2>2, <2>3 DEF Loading
  <2> QED  BY <1>4, <1>b, <2>4 DEF ReadDb, Store
<1>5. ASSUME NEW l \in Loads, SetShared(l)
      PROVE  LoadsHold'
  <2>1. PICK p \in Processes : p = loads[l].process
    BY <1>5, BusyLoad DEF SetShared, Busy, Load
  <2>2. loads[l].at = "setShared" /\ l \in Loading(p) /\ drops' = drops
    BY <1>5, <2>1 DEF SetShared, Loading
  <2>3. \A m \in Loads \ {l} : loads'[m] = IF Joins(m, l) THEN Idle ELSE loads[m]
    BY <1>5 DEF SetShared
  <2>4. loads'[l] = Idle
    BY <1>5 DEF SetShared
  <2>5. Loading(p)' = Loading(p) \ {l}
    BY <2>1, <2>2, <2>3, <2>4 DEF Loading, Joins, Idle
  <2>6. \A q \in Processes \ {p} : Loading(q)' = Loading(q)
    BY <2>1, <2>2, <2>3, <2>4 DEF Loading, Joins, Idle
  <2>7. Cardinality(Loading(p)') = Cardinality(Loading(p)) - 1
    BY <1>a, <2>2, <2>5, FS_RemoveElement, ZenonT(60)
  <2>8. inflight'[p] = Nothing /\ \A q \in Processes \ {p} : inflight'[q] = inflight[q]
    BY <1>5, <2>1 DEF SetShared, CacheTypeOK
  <2>9. Cardinality(Loading(p)') <= drops'[p]
    BY <1>a, <2>2, <2>7
  <2>10. \A q \in Processes : Cardinality(Loading(q)') <=
                drops'[q] + (IF inflight'[q] = Nothing THEN 0 ELSE 1)
    BY <1>a, <2>2, <2>6, <2>8, <2>9
  <2> QED  BY <2>10 DEF LoadsHold
<1>6. ASSUME DropResponse
      PROVE  LoadsHold'
  <2>1. \A q \in Processes : Unmoved(q) \/ Lost(q)
    <3>1. CASE UNCHANGED << inflight, drops >>
      BY <3>1
    <3>2. CASE Drop(saving.process)
      BY <3>2 DEF Drop, CacheTypeOK
    <3> QED  BY <1>6, <3>1, <3>2 DEF DropResponse
  <2>2. \A q \in Processes : Loading(q)' = Loading(q)
    BY <1>6 DEF DropResponse, Loading
  <2> QED  BY <1>b, <2>1, <2>2
<1>7. ASSUME UNCHANGED << loads, inflight, drops >>
      PROVE  LoadsHold'
  BY <1>7, <1>b DEF Loading
<1> QED  BY <1>1, <1>2, <1>3, <1>4, <1>5, <1>6, <1>7
         DEF CacheNext, LoadStep, Write, DropMemory, DropShared, CacheTick, cacheVars

-------------------------------------------------------------------------------
(* The theorems *)

CacheInv == /\ CacheTypeOK /\ ValuesHold /\ AgesHold /\ LoadsHold
            /\ prefix \in Dropped => SeenHolds /\ SavingHolds

LEMMA CacheInvInit == CacheInit => CacheInv
PROOF
<1> SUFFICES ASSUME CacheInit  PROVE CacheInv
  OBVIOUS
<1>1. CacheTypeOK /\ ValuesHold
  BY TypesInit
<1>2. \A l \in Loads : loads[l] = Idle
  BY DEF CacheInit
<1>3. AgesHold
  BY <1>2 DEF CacheInit, AgesHold, StalenessBounded, Idle
<1>4. SeenHolds
  BY <1>2 DEF CacheInit, SeenHolds, Idle, Carries
<1>5. SavingHolds
  BY DEF CacheInit, SavingHolds
<1>6. \A p \in Processes : Loading(p) = {}
  BY <1>2 DEF Loading, Idle
<1>7. LoadsHold
  BY <1>6, FS_EmptySet DEF CacheInit, LoadsHold
<1> QED  BY <1>1, <1>3, <1>4, <1>5, <1>7 DEF CacheInv

LEMMA CacheInvHolds == CacheSpec => []CacheInv
PROOF
<1>1. CacheInv /\ [CacheNext]_cacheVars => CacheInv'
  <2> SUFFICES ASSUME CacheInv, [CacheNext]_cacheVars  PROVE CacheInv'
    OBVIOUS
  <2>1. CacheTypeOK' /\ ValuesHold' /\ AgesHold' /\ LoadsHold'
    BY TypesStep, ValuesStep, AgesStep, LoadsStep DEF CacheInv
  <2>2. prefix' = prefix
    BY DEF CacheNext, cacheVars
  <2>3. prefix \in Dropped => SeenHolds' /\ SavingHolds'
    BY SeenStep, SavingStep DEF CacheInv
  <2> QED  BY <2>1, <2>2, <2>3 DEF CacheInv
<1> QED  BY CacheInvInit, <1>1, PTL DEF CacheSpec

\* The caches hold entries, loads and saves are in one of their states.
THEOREM CachesTyped == CacheSpec => []CacheTypeOK
BY CacheInvHolds, PTL DEF CacheInv

\* No cache serves an answer older than two times to live and a refill, whatever the
\* processes do to each other (perf-cache.ts, getFromProcessCache).
THEOREM AnswersAge == CacheSpec => []StalenessBounded
PROOF
<1>1. CacheInv => StalenessBounded
  BY DEF CacheInv, AgesHold
<1> QED  BY CacheInvHolds, <1>1, PTL

\* After a save that met no load its client never reads anything older from the keys
\* the save drops (invalidateCachesForPeriod), with any number of processes saving
\* and loading.
THEOREM SavesAreSeen == CacheSpec => []OwnSavesSeen
PROOF
<1>1. CacheInv => OwnSavesSeen
  <2> SUFFICES ASSUME CacheInv, prefix \in Dropped, NEW p \in Processes
               PROVE  /\ \A e \in {response[p], memory[p], redis} \ {Nothing} :
                             e.value.version >= seen[p]
                      /\ \A l \in Loads \ {m \in Loads : loads[m] = Idle} :
                            loads[l].process = p /\ loads[l].value # Nothing
                                => loads[l].value.version >= seen[p]
    BY DEF OwnSavesSeen
  <2>1. \A e \in {response[p], memory[p], redis} \ {Nothing} : e.value.version >= seen[p]
    BY DEF CacheInv, SeenHolds
  <2>2. ASSUME NEW l \in Loads, loads[l] # Idle, loads[l].value # Nothing
        PROVE  loads[l].value.version >= seen[p]
    <3>1. Busy(l)
      BY <2>2 DEF CacheInv, CacheTypeOK, Load, Busy
    <3>2. Carries(l)
      BY <2>2, <3>1 DEF CacheInv, ValuesHold
    <3> QED  BY <3>2 DEF CacheInv, SeenHolds
  <2> QED  BY <2>1, <2>2
<1> QED  BY CacheInvHolds, <1>1, PTL

\* However many loads are asked at once, a process queries the database at most
\* once more often than loads were removed from its inflight (dedupe).
THEOREM LoadsShared == CacheSpec => []LoadsBounded
PROOF
<1>1. CacheInv => LoadsBounded
  <2> SUFFICES ASSUME CacheInv, NEW p \in Processes
               PROVE  Cardinality(Loading(p)) <= 1 + drops[p]
    BY DEF LoadsBounded
  <2>1. drops[p] \in Nat /\ Cardinality(Loading(p)) \in Nat
    BY LoadingFinite DEF CacheInv, CacheTypeOK
  <2> QED  BY <2>1 DEF CacheInv, LoadsHold
<1> QED  BY CacheInvHolds, <1>1, PTL

-------------------------------------------------------------------------------
(* The page that edits the budget of a hospital unit *)

\* Rows and pages of them, whose fields were written up to the n-th.
RowUpto(n) == [fields : 0..n, assets : SUBSET HuAssets]
TreeUpto(n) == [HuProjects -> RowUpto(n) \cup {Gone}]

PollUpto(n) == [at : {"idle", "fetch", "apply"}, print : Fingerprint, tree : TreeUpto(n),
                seen : BOOLEAN]
HandlerUpto(n) == [does : {"idle", "newProject", "newAsset", "saveProject", "massUpdate"},
                   project : HuProjects \cup {Gone}, drops : HuProjects \cup {Gone},
                   asset : HuAssets \cup {Gone}, tree : TreeUpto(n)]
SavingUpto(n) == [at : {"idle", "post", "answer"}, tree : TreeUpto(n),
                  changed : SUBSET HuProjects, deleted : SUBSET HuProjects,
                  touched : [HuProjects -> SUBSET HuAssets]]
Counts == [writes : Writes, starts : 0..MaxStarts, peers : 0..MaxPeerSaves]

PageUpto(n) ==
    /\ server \in TreeUpto(n) /\ edited \in TreeUpto(n) /\ base \in TreeUpto(n)
    /\ touchedAt \in [HuProjects -> Times]
    /\ dirty \in BOOLEAN /\ folded \in BOOLEAN /\ straight \in BOOLEAN
    /\ known \in Fingerprint
    /\ poll \in PollUpto(n) /\ handler \in HandlerUpto(n) /\ save \in SavingUpto(n)
    /\ used \subseteq HuProjects
    /\ counts \in Counts
    /\ mine \in [HuProjects -> 0..n \cup {Gone, AsIs}]

\* A handler that changes a row has read one.
HandlerHolds ==
    /\ handler.does \in {"newAsset", "saveProject"} =>
          handler.project \in HuProjects /\ handler.tree[handler.project] # Gone
    /\ handler.does = "newAsset" => handler.asset \in HuAssets
    /\ handler.does = "saveProject" => handler.drops = Gone

\* Every write of the database was one of a save begun here, or of others.
TimesHold ==
    /\ \A p \in HuProjects : touchedAt[p] <= counts.peers + counts.starts
    /\ save.at = "post" => \A p \in HuProjects : touchedAt[p] < counts.peers + counts.starts

\* A clean page has one copy.
CleanPage ==
    /\ ~ dirty => edited = base /\ \A p \in HuProjects : mine[p] = AsIs
    /\ save.at # "idle" => dirty

\* A fingerprint is of a time that was.
OfAnEdit(ta, k) == k = 0 \/ \E q \in HuProjects : k <= ta[q]

PrintsHold ==
    /\ known # Gone => OfAnEdit(touchedAt, known.latest)
    /\ poll.at # "idle" => /\ poll.print # Gone /\ OfAnEdit(touchedAt, poll.print.latest)
                           /\ poll.seen => known = poll.print

\* What has changed since a copy was made was touched after its fingerprint.
Fresh(sv, ta, tree, k) ==
    \A p \in HuProjects : tree[p] # Gone /\ sv[p] # Gone =>
        tree[p].fields = sv[p].fields \/ ta[p] > k

\* The page knows a fingerprint, and nothing newer that it is about to show.
Noticed == known # Gone /\ ~ (poll.at # "idle" /\ poll.seen)

CopiesHold ==
    /\ poll.at = "apply" => Fresh(server, touchedAt, poll.tree, poll.print.latest)
    /\ straight /\ Noticed => Fresh(server, touchedAt, base, known.latest)

\* What a save sends is the page's base copy but for what it changes.
SentIs ==
    /\ save.at # "idle" => /\ \A p \in save.changed \ save.deleted : save.tree[p] # Gone
                           /\ \A p \in save.deleted : save.tree[p] = Gone
    /\ save.at # "idle" /\ straight =>
          \A p \in HuProjects \ save.changed : save.tree[p] = base[p]
    /\ save.at = "answer" /\ straight /\ Noticed =>
          Fresh(server, touchedAt, save.tree, known.latest)
    /\ save.at = "answer" /\ straight /\ known = Gone =>
          \A p \in save.changed \ save.deleted :
              server[p] # Gone => \/ server[p].fields = save.tree[p].fields
                                  \/ base[p] = Gone \/ server[p].fields # base[p].fields

\* The page has the changes of the user, and what it lacks of the base copy he deleted.
OwnKept(new, old, own) ==
    \A p \in HuProjects :
        /\ own[p] = Gone => new[p] = Gone
        /\ own[p] \notin {AsIs, Gone} => new[p] # Gone /\ new[p].fields = own[p]
        /\ old[p] # Gone /\ new[p] = Gone => own[p] = Gone

\* What differs from the base copy is his.
OnlyOwn(new, old, own) ==
    \A p \in HuProjects : old[p] # new[p] /\ own[p] = AsIs =>
        new[p] # Gone /\ old[p] # Gone /\ new[p].fields = old[p].fields

OwnHold ==
    straight => /\ OwnKept(edited, base, mine)
                /\ ~ folded => OnlyOwn(edited, base, mine)

HuPageInv ==
    /\ PageUpto(counts.writes) /\ HandlerHolds /\ TimesHold /\ CleanPage /\ PrintsHold
    /\ CopiesHold /\ SentIs /\ OwnHold

-------------------------------------------------------------------------------
(* Fingerprints and times *)

LEMMA BoundedMaximum ==
    ASSUME NEW b \in Nat, NEW S \in SUBSET (0..b), S # {}
    PROVE  Max(S) \in S /\ \A k \in S : k <= Max(S)
PROOF
    <1> DEFINE D == {n \in Nat : \A k \in S : k <= n}
    <1>1. b \in D  OBVIOUS
    <1>2. PICK n \in D : \A k \in D : ~ (<< k, n >> \in OpToRel(<, Nat))
        <2>1. D \subseteq Nat /\ D # {}  BY <1>1
        <2> QED  BY <2>1, WFMin, NatLessThanWellFounded, Zenon
    <1>3. n \in Nat /\ \A k \in D : n <= k
        <2>1. \A k \in D : ~ (k < n)  BY <1>2 DEF OpToRel
        <2> QED  BY <2>1
    <1>4. n \in S
        <2>1. SUFFICES ASSUME n \notin S PROVE FALSE  OBVIOUS
        <2>2. \A k \in S : k \in Nat /\ k < n  BY <2>1
        <2>3. PICK x \in S : TRUE  OBVIOUS
        <2>4. n > 0  BY <1>3, <2>2, <2>3
        <2>5. n - 1 \in D  BY <1>3, <2>2, <2>4
        <2> QED  BY <1>3, <2>4, <2>5
    <1> QED  BY <1>4 DEF Max

LEMMA TimesAre == Times \subseteq Nat
                  /\ \E b \in Nat : Times = 0..b
PROOF
    <1>1. MaxPeerSaves + MaxStarts + 1 \in Nat  BY HuPageAssumption
    <1> QED  BY <1>1 DEF Times

LEMMA NowIsNew ==
    ASSUME touchedAt \in [HuProjects -> Times], NEW p \in HuProjects
    PROVE  /\ Now \in Nat
           /\ \A q \in HuProjects : touchedAt[q] < Now
           /\ \E q \in HuProjects : Now = touchedAt[q] + 1
PROOF
    <1>1. PICK b \in Nat : Times = 0..b  BY TimesAre
    <1>2. PICK S : S = {touchedAt[q] : q \in HuProjects}  OBVIOUS
    <1>3. S \in SUBSET (0..b)  BY <1>1, <1>2
    <1>4. touchedAt[p] \in S  BY <1>2
    <1>5. Max(S) \in S /\ \A k \in S : k <= Max(S)  BY <1>3, <1>4, BoundedMaximum
    <1>6. Now = 1 + Max(S)  BY <1>2 DEF Now
    <1>7. \A q \in HuProjects : touchedAt[q] \in S /\ touchedAt[q] \in Nat  BY <1>2, <1>3
    <1>8. PICK top \in 0..b : top = Max(S)  BY <1>3, <1>5
    <1>9. PICK q \in HuProjects : top = touchedAt[q]  BY <1>2, <1>5, <1>8
    <1> QED  BY <1>5, <1>6, <1>7, <1>8, <1>9

LEMMA PrintIs ==
    ASSUME touchedAt \in [HuProjects -> Times]
    PROVE  /\ ServerPrint \in Prints /\ ServerPrint # Gone
           /\ ServerPrint.latest \in Nat
           /\ \A p \in Listed(server) : touchedAt[p] <= ServerPrint.latest
           /\ OfAnEdit(touchedAt, ServerPrint.latest)
PROOF
    <1>1. PICK b \in Nat : Times = 0..b  BY TimesAre
    <1>2. PICK S : S = {0} \cup {touchedAt[p] : p \in Listed(server)}  OBVIOUS
    <1>3. Listed(server) \subseteq HuProjects  BY DEF Listed
    <1>4. S \in SUBSET (0..b)  BY <1>1, <1>2, <1>3
    <1>5. 0 \in S /\ \A p \in Listed(server) : touchedAt[p] \in S  BY <1>2
    <1>6. Max(S) \in S /\ \A k \in S : k <= Max(S)  BY <1>4, <1>5, BoundedMaximum
    <1>7. PICK top \in 0..b : top = Max(S)  BY <1>4, <1>6
    <1>8. ServerPrint = [ids |-> Listed(server), latest |-> top]  BY <1>2, <1>7 DEF ServerPrint
    <1>9. ServerPrint \in Prints  BY <1>1, <1>3, <1>8 DEF Prints
    <1>10. top = 0 \/ \E q \in HuProjects : top = touchedAt[q]  BY <1>2, <1>3, <1>6, <1>7
    <1>11. OfAnEdit(touchedAt, top)  BY <1>1, <1>10 DEF OfAnEdit
    <1> QED  BY <1>5, <1>6, <1>7, <1>8, <1>9, <1>11, HuPageAssumption

LEMMA BelowNow ==
    ASSUME touchedAt \in [HuProjects -> Times], NEW p \in HuProjects, NEW k \in Nat,
           OfAnEdit(touchedAt, k)
    PROVE  k < Now
PROOF
    <1>1. Now \in Nat /\ \A q \in HuProjects : touchedAt[q] < Now /\ touchedAt[q] \in Nat
        BY NowIsNew, TimesAre
    <1>2. Now > 0  BY <1>1
    <1>3. CASE k = 0  BY <1>2, <1>3
    <1>4. CASE \E q \in HuProjects : k <= touchedAt[q]  BY <1>1, <1>4
    <1> QED  BY <1>3, <1>4 DEF OfAnEdit

-------------------------------------------------------------------------------
(* Types *)

LEMMA RowsAreRows ==
    ASSUME NEW n \in Writes
    PROVE  /\ Gone \notin RowUpto(n) /\ Gone \notin 0..n /\ AsIs \notin 0..n /\ AsIs # Gone
           /\ 0..n \subseteq Writes /\ RowUpto(n) \subseteq ProjectRow
PROOF
    <1>1. 0..n \subseteq Writes  BY HuPageAssumption DEF Writes
    <1>2. RowUpto(n) \subseteq ProjectRow
        <2>1. SUFFICES ASSUME NEW r \in RowUpto(n) PROVE r \in ProjectRow  OBVIOUS
        <2> QED  BY <1>1 DEF RowUpto, ProjectRow
    <1> QED  BY <1>1, <1>2, HuPageAssumption

LEMMA TreesGrow ==
    ASSUME NEW n \in Nat, NEW m \in Nat, n <= m
    PROVE  TreeUpto(n) \subseteq TreeUpto(m) /\ 0..n \subseteq 0..m
PROOF
    <1>1. 0..n \subseteq 0..m  OBVIOUS
    <1>2. RowUpto(n) \subseteq RowUpto(m)
        <2>1. SUFFICES ASSUME NEW r \in RowUpto(n) PROVE r \in RowUpto(m)  OBVIOUS
        <2> QED  BY <1>1 DEF RowUpto
    <1> QED  BY <1>1, <1>2 DEF TreeUpto

LEMMA PageGrows ==
    ASSUME NEW n \in Nat, NEW m \in Nat, n <= m, PageUpto(n)
    PROVE  PageUpto(m)
PROOF
    <1>1. TreeUpto(n) \subseteq TreeUpto(m) /\ 0..n \subseteq 0..m  BY TreesGrow
    <1>2. server \in TreeUpto(m) /\ edited \in TreeUpto(m) /\ base \in TreeUpto(m)
        BY <1>1 DEF PageUpto
    <1>3. poll \in PollUpto(m)  BY <1>1 DEF PageUpto, PollUpto
    <1>4. handler \in HandlerUpto(m)  BY <1>1 DEF PageUpto, HandlerUpto
    <1>5. save \in SavingUpto(m)  BY <1>1 DEF PageUpto, SavingUpto
    <1>6. mine \in [HuProjects -> 0..m \cup {Gone, AsIs}]  BY <1>1 DEF PageUpto
    <1> QED  BY <1>2, <1>3, <1>4, <1>5, <1>6 DEF PageUpto

LEMMA RowOf ==
    ASSUME NEW n \in Nat, NEW tree \in TreeUpto(n), NEW p \in HuProjects
    PROVE  /\ tree[p] \in RowUpto(n) \cup {Gone}
           /\ tree[p] # Gone => tree[p].fields \in 0..n /\ tree[p].assets \subseteq HuAssets
           /\ AssetsOf(tree, p) \subseteq HuAssets
BY DEF TreeUpto, RowUpto, AssetsOf

LEMMA TreeSet ==
    ASSUME NEW n \in Nat, NEW tree \in TreeUpto(n), NEW p \in HuProjects,
           NEW row \in RowUpto(n) \cup {Gone}
    PROVE  [tree EXCEPT ![p] = row] \in TreeUpto(n)
BY DEF TreeUpto

LEMMA NobodyIsATree == ASSUME NEW n \in Nat PROVE Nobody \in TreeUpto(n)
BY DEF Nobody, TreeUpto

LEMMA RestTypes ==
    ASSUME NEW n \in Nat
    PROVE  NoPoll \in PollUpto(n) /\ NoHandler \in HandlerUpto(n) /\ NoSave \in SavingUpto(n)
BY NobodyIsATree DEF NoPoll, NoHandler, NoSave, PollUpto, HandlerUpto, SavingUpto, Fingerprint

LEMMA CountsCount ==
    ASSUME counts \in Counts
    PROVE  /\ CanWrite /\ Wrote => counts' \in Counts /\ counts'.writes = counts.writes + 1
           /\ Starts => counts' \in Counts /\ counts'.writes = counts.writes
BY HuPageAssumption DEF Counts, CanWrite, Wrote, Starts, Writes

LEMMA UserTypes ==
    ASSUME NEW n \in Nat, counts.writes = n, PageUpto(n), HandlerHolds, UserStep
    PROVE  PageUpto(n)' \/ (counts.writes' = n + 1 /\ PageUpto(n + 1)')
PROOF
    <1>1. PageUpto(n + 1) /\ n + 1 \in Nat  BY PageGrows
    <1>2. ASSUME NEW p \in HuProjects, EditProject(p)
          PROVE  counts.writes' = n + 1 /\ PageUpto(n + 1)'
        <2>1. edited \in TreeUpto(n + 1) /\ edited[p] # Gone
            BY <1>1, <1>2 DEF EditProject, PageUpto
        <2>2. edited[p] \in RowUpto(n + 1)  BY <1>1, <2>1, RowOf
        <2>3. PICK row \in RowUpto(n + 1) : row = [edited[p] EXCEPT !.fields = n + 1]
            <3>1. n + 1 \in 0..(n + 1)  OBVIOUS
            <3> QED  BY <2>2, <3>1 DEF RowUpto
        <2>4. edited' = [edited EXCEPT ![p] = row]
            BY <1>2, <2>3 DEF EditProject, Edited, Stamp
        <2>5. edited' \in TreeUpto(n + 1)  BY <1>1, <2>1, <2>4, TreeSet
        <2>6. mine' \in [HuProjects -> 0..(n + 1) \cup {Gone, AsIs}]
            BY <1>1, <1>2 DEF EditProject, Intends, Stamp, PageUpto
        <2>7. counts' \in Counts /\ counts.writes' = n + 1
            BY <1>2, CountsCount DEF EditProject, PageUpto
        <2> QED  BY <1>1, <1>2, <2>5, <2>6, <2>7 DEF PageUpto, EditProject, Edited, pageOnly
    <1>3. ASSUME NEW p \in HuProjects, DeleteProject(p) PROVE PageUpto(n)'
        <2>1. edited' \in TreeUpto(n)  BY <1>3, TreeSet DEF DeleteProject, Edited, PageUpto
        <2> QED  BY <1>3, <2>1 DEF PageUpto, DeleteProject, Edited, Intends, pageOnly
    <1>4. ASSUME NEW p \in HuProjects, Asks(p) PROVE PageUpto(n)'
        <2>1. ASSUME NEW h, h \in HandlerUpto(n), Await(h), used' \subseteq HuProjects
              PROVE  PageUpto(n)'
            <3>1. handler' \in HandlerUpto(n)  BY <2>1 DEF Await, PageUpto, HandlerUpto
            <3>2. counts' \in Counts  BY <2>1, CountsCount DEF Await, PageUpto
            <3> QED  BY <2>1, <3>1, <3>2 DEF PageUpto, Await
        <2>2. used \subseteq HuProjects /\ NoHandler \in HandlerUpto(n)
            BY RestTypes DEF PageUpto
        <2>3. CASE AskNewProject(p)
            <3>1. [NoHandler EXCEPT !.does = "newProject", !.project = p] \in HandlerUpto(n)
                BY <2>2 DEF HandlerUpto
            <3> QED  BY <2>1, <2>2, <2>3, <3>1 DEF AskNewProject
        <2>4. ASSUME NEW a \in HuAssets, AskNewAsset(p, a) PROVE PageUpto(n)'
            <3>1. [NoHandler EXCEPT !.does = "newAsset", !.project = p, !.asset = a]
                    \in HandlerUpto(n)
                BY <2>2 DEF HandlerUpto
            <3> QED  BY <2>1, <2>2, <2>4, <3>1 DEF AskNewAsset
        <2>5. ASSUME NEW a \in HuAssets \cup {Gone}, AskSaveProject(p, a) PROVE PageUpto(n)'
            <3>1. [NoHandler EXCEPT !.does = "saveProject", !.project = p, !.asset = a]
                    \in HandlerUpto(n)
                BY <2>2 DEF HandlerUpto
            <3> QED  BY <2>1, <2>2, <2>5, <3>1 DEF AskSaveProject
        <2>6. ASSUME NEW d \in HuProjects, AskMassUpdate(p, d) PROVE PageUpto(n)'
            <3>1. [NoHandler EXCEPT !.does = "massUpdate", !.project = p, !.drops = d]
                    \in HandlerUpto(n)
                BY <2>2 DEF HandlerUpto
            <3> QED  BY <2>1, <2>2, <2>6, <3>1 DEF AskMassUpdate
        <2> QED  BY <1>4, <2>3, <2>4, <2>5, <2>6 DEF Asks
    <1>5. ASSUME Cancel PROVE PageUpto(n)'
        <2>1. mine' \in [HuProjects -> 0..n \cup {Gone, AsIs}]  BY <1>5 DEF Cancel, Untouched
        <2> QED  BY <1>5, <2>1 DEF Cancel, PageUpto
    <1>6. ASSUME Finish PROVE PageUpto(n)' \/ (counts.writes' = n + 1 /\ PageUpto(n + 1)')
        <2>1. handler \in HandlerUpto(n) /\ NoHandler \in HandlerUpto(n)
              /\ NoHandler \in HandlerUpto(n + 1)
            BY <1>1, RestTypes DEF PageUpto
        <2>2. PICK h \in HandlerUpto(n) : h = handler  BY <2>1
        <2>3. h.tree \in TreeUpto(n) /\ h.tree \in TreeUpto(n + 1)
            BY <1>1, TreesGrow DEF HandlerUpto
        <2>4. CASE h.does = "newAsset"
            <3>1. h.project \in HuProjects /\ h.tree[h.project] # Gone /\ h.asset \in HuAssets
                BY <2>2, <2>4 DEF HandlerHolds
            <3>2. h.tree[h.project] \in RowUpto(n)  BY <2>3, <3>1, RowOf
            <3>3. PICK row \in RowUpto(n) : row = [h.tree[h.project] EXCEPT
                                                     !.assets = @ \cup {h.asset}]
                BY <3>1, <3>2 DEF RowUpto
            <3>4. edited' = [h.tree EXCEPT ![h.project] = row]
                BY <1>6, <2>2, <2>4, <3>3 DEF Finish, Edited, Made
            <3>5. edited' \in TreeUpto(n)  BY <2>3, <3>1, <3>4, TreeSet
            <3>6. PageUpto(n)'
                BY <1>6, <2>1, <2>2, <2>4, <3>5 DEF PageUpto, Finish, Edited, pageOnly
            <3> QED  BY <3>6
        <2>5. CASE h.does # "newAsset"
            <3>1. edited' \in TreeUpto(n + 1)
                <4>1. CASE h.does = "saveProject"
                    <5>1. h.project \in HuProjects /\ h.tree[h.project] # Gone
                        BY <2>2, <4>1 DEF HandlerHolds
                    <5>2. h.tree[h.project].assets \subseteq HuAssets  BY <2>3, <5>1, RowOf
                    <5>3. PICK row \in RowUpto(n + 1) :
                            row = [fields |-> n + 1,
                                   assets |-> h.tree[h.project].assets \ {h.asset}]
                        <6>1. n + 1 \in 0..(n + 1)  OBVIOUS
                        <6> QED  BY <5>2, <6>1 DEF RowUpto
                    <5>4. edited' = [h.tree EXCEPT ![h.project] = row]
                        BY <1>6, <2>2, <4>1, <5>3 DEF Finish, Edited, Made, Stamp
                    <5> QED  BY <1>1, <2>3, <5>1, <5>4, TreeSet
                <4>2. CASE h.does # "saveProject"
                    <5>1. edited' = [p \in HuProjects |->
                                        IF p = h.project THEN [fields |-> n + 1, assets |-> {}]
                                        ELSE IF p = h.drops THEN Gone ELSE h.tree[p]]
                        BY <1>6, <2>2, <2>5, <4>2 DEF Finish, Edited, Made, Stamp
                    <5>2. [fields |-> n + 1, assets |-> {}] \in RowUpto(n + 1)  BY DEF RowUpto
                    <5> QED  BY <2>3, <5>1, <5>2 DEF TreeUpto
                <4> QED  BY <4>1, <4>2
            <3>2. mine' \in [HuProjects -> 0..(n + 1) \cup {Gone, AsIs}]
                BY <1>1, <1>6, <2>2, <2>5 DEF Finish, Stamp, PageUpto
            <3>3. counts' \in Counts /\ counts.writes' = n + 1
                BY <1>6, <2>2, <2>5, CountsCount DEF Finish, PageUpto
            <3>4. PageUpto(n + 1)'
                BY <1>1, <1>6, <2>1, <3>1, <3>2, <3>3 DEF PageUpto, Finish, Edited, pageOnly
            <3> QED  BY <3>3, <3>4
        <2> QED  BY <2>4, <2>5
    <1>7. ASSUME FinishFails PROVE PageUpto(n)'
        BY <1>7, RestTypes DEF FinishFails, PageUpto, pageOnly
    <1> QED  BY <1>2, <1>3, <1>4, <1>5, <1>6, <1>7 DEF UserStep

LEMMA SaveTypes ==
    ASSUME NEW n \in Nat, counts.writes = n, PageUpto(n), TimesHold, SentIs, SaveStep
    PROVE  PageUpto(n)'
PROOF
    <1>1. save \in SavingUpto(n) /\ NoSave \in SavingUpto(n)  BY RestTypes DEF PageUpto
    <1>2. PICK s \in SavingUpto(n) : s = save  BY <1>1
    <1>3. s.tree \in TreeUpto(n)  BY DEF SavingUpto
    <1>4. CASE SaveChanges
        <2>1. CASE Changed(base, edited) = {}
            <3>1. mine' \in {mine, Untouched}  BY <1>4, <2>1 DEF SaveChanges
            <3>2. mine' \in [HuProjects -> 0..n \cup {Gone, AsIs}]
                BY <3>1 DEF PageUpto, Untouched
            <3> QED  BY <1>4, <2>1, <3>2 DEF SaveChanges, PageUpto
        <2>2. CASE Changed(base, edited) # {}
            <3>1. Changed(base, edited) \subseteq HuProjects
                  /\ Deleted(base, edited) \subseteq HuProjects
                BY DEF Changed, Deleted, Listed
            <3>2. TouchedAssets(base, edited) \in [HuProjects -> SUBSET HuAssets]
                <4>1. \A p \in HuProjects : AssetsOf(base, p) \subseteq HuAssets
                                            /\ AssetsOf(edited, p) \subseteq HuAssets
                    BY RowOf DEF PageUpto
                <4>2. \A p \in HuProjects :
                        SymDiff(AssetsOf(base, p), AssetsOf(edited, p)) \subseteq HuAssets
                    BY <4>1 DEF SymDiff
                <4> QED  BY <4>2 DEF TouchedAssets
            <3>3. save' = [at |-> "post", tree |-> edited, changed |-> Changed(base, edited),
                           deleted |-> Deleted(base, edited),
                           touched |-> TouchedAssets(base, edited)]
                BY <1>4, <2>2 DEF SaveChanges
            <3>4. save' \in SavingUpto(n)  BY <3>1, <3>2, <3>3 DEF PageUpto, SavingUpto
            <3>5. counts' \in Counts  BY <1>4, <2>2, CountsCount DEF SaveChanges, PageUpto
            <3> QED  BY <1>4, <2>2, <3>4, <3>5 DEF SaveChanges, PageUpto
        <2> QED  BY <2>1, <2>2
    <1>5. CASE PostSave
        <2>1. server' \in TreeUpto(n)
            <3>1. ASSUME NEW p \in s.changed PROVE Stored(p) \in RowUpto(n) \cup {Gone}
                <4>1. p \in HuProjects  BY <3>1 DEF SavingUpto
                <4>2. CASE p \in s.deleted  BY <1>2, <4>2 DEF Stored
                <4>3. CASE p \notin s.deleted
                    <5>1. s.tree[p] # Gone  BY <1>2, <1>5, <3>1, <4>3 DEF PostSave, SentIs
                    <5>2. s.tree[p].fields \in 0..n /\ s.tree[p].assets \subseteq HuAssets
                        BY <1>3, <4>1, <5>1, RowOf
                    <5>3. AssetsOf(server, p) \subseteq HuAssets  BY <4>1, RowOf DEF PageUpto
                    <5>4. Stored(p) = [fields |-> s.tree[p].fields,
                                       assets |-> (AssetsOf(server, p) \ s.touched[p])
                                                     \cup (s.tree[p].assets \cap s.touched[p])]
                        BY <1>2, <4>3 DEF Stored
                    <5> QED  BY <5>2, <5>3, <5>4 DEF RowUpto
                <4> QED  BY <4>2, <4>3
            <3> QED  BY <1>2, <1>5, <3>1 DEF PostSave, PageUpto, TreeUpto
        <2>2. touchedAt' \in [HuProjects -> Times]
            <3>1. ASSUME NEW p \in HuProjects PROVE Now \in Times
                <4>1. Now \in Nat /\ \E q \in HuProjects : Now = touchedAt[q] + 1
                    BY NowIsNew DEF PageUpto
                <4>2. PICK q \in HuProjects : Now = touchedAt[q] + 1  BY <4>1
                <4>3. touchedAt[q] < counts.peers + counts.starts /\ touchedAt[q] \in Nat
                    BY <1>5, <4>2, TimesAre DEF PostSave, TimesHold, PageUpto
                <4>4. counts.peers \in 0..MaxPeerSaves /\ counts.starts \in 0..MaxStarts
                    BY DEF PageUpto, Counts
                <4> QED  BY <4>1, <4>2, <4>3, <4>4, HuPageAssumption DEF Times
            <3> QED  BY <1>5, <3>1 DEF PostSave, PageUpto
        <2>3. save' \in SavingUpto(n)
            BY <1>1, <1>5 DEF PostSave, SavingUpto
        <2> QED  BY <1>5, <2>1, <2>2, <2>3 DEF PostSave, PageUpto
    <1>6. CASE SaveAnswered
        <2>1. mine' \in [HuProjects -> 0..n \cup {Gone, AsIs}]
            BY <1>6 DEF SaveAnswered, Untouched
        <2> QED  BY <1>1, <1>2, <1>3, <1>6, <2>1 DEF SaveAnswered, PageUpto
    <1>7. CASE SaveFails
        BY <1>1, <1>7 DEF SaveFails, PageUpto, pageOnly
    <1> QED  BY <1>4, <1>5, <1>6, <1>7 DEF SaveStep

LEMMA PollTypes ==
    ASSUME NEW n \in Nat, counts.writes = n, PageUpto(n), PollStep
    PROVE  PageUpto(n)'
PROOF
    <1>1. ServerPrint \in Fingerprint  BY PrintIs DEF PageUpto, Fingerprint
    <1>2. NoPoll \in PollUpto(n) /\ poll \in PollUpto(n)  BY RestTypes DEF PageUpto
    <1>3. poll.tree \in TreeUpto(n) /\ poll.print \in Fingerprint /\ poll.seen \in BOOLEAN
        BY <1>2 DEF PollUpto
    <1>4. Noted => known' \in Fingerprint  BY <1>3 DEF Noted, PageUpto
    <1>5. CASE Tick
        <2>1. known' \in Fingerprint  BY <1>1, <1>5 DEF Tick, PageUpto
        <2>2. [NoPoll EXCEPT !.at = "fetch", !.print = ServerPrint, !.seen = dirty]
                \in PollUpto(n)
            BY <1>1, <1>2 DEF PollUpto, PageUpto
        <2>3. poll' \in PollUpto(n)  BY <1>2, <1>5, <2>2 DEF Tick
        <2>4. straight' \in BOOLEAN  BY <1>5 DEF Tick
        <2> QED  BY <1>5, <2>1, <2>3, <2>4 DEF Tick, PageUpto
    <1>6. CASE Fetch
        <2>1. poll' \in PollUpto(n)  BY <1>2, <1>6 DEF Fetch, PageUpto, PollUpto
        <2> QED  BY <1>6, <2>1 DEF Fetch, PageUpto
    <1>7. CASE FetchMisses  BY <1>2, <1>4, <1>7 DEF FetchMisses, PageUpto
    <1>8. CASE Apply
        <2>1. FoldIn(edited, poll.tree) \in TreeUpto(n)
            <3>1. PICK local, remote \in TreeUpto(n) : local = edited /\ remote = poll.tree
                BY <1>3 DEF PageUpto
            <3>2. ASSUME NEW p \in HuProjects, local[p] # Gone, remote[p] # Gone
                  PROVE  [local[p] EXCEPT !.assets = remote[p].assets] \in RowUpto(n)
                BY <3>2, RowOf DEF RowUpto
            <3>3. FoldIn(local, remote) \in TreeUpto(n)
                BY <3>1, <3>2 DEF FoldIn, TreeUpto
            <3> QED  BY <3>1, <3>3
        <2>2. edited' \in TreeUpto(n)  BY <1>3, <1>8, <2>1 DEF Apply
        <2>3. mine' \in [HuProjects -> 0..n \cup {Gone, AsIs}]  BY <1>8 DEF Apply, PageUpto
        <2>4. straight' \in BOOLEAN  BY <1>8 DEF Apply, PageUpto
        <2> QED  BY <1>2, <1>3, <1>4, <1>8, <2>2, <2>3, <2>4 DEF Apply, PageUpto
    <1> QED  BY <1>5, <1>6, <1>7, <1>8 DEF PollStep

LEMMA PeerTypes ==
    ASSUME NEW n \in Nat, counts.writes = n, PageUpto(n), TimesHold, PeerStep
    PROVE  PageUpto(n)' \/ (counts.writes' = n + 1 /\ PageUpto(n + 1)')
PROOF
    <1>1. PageUpto(n + 1) /\ n + 1 \in Nat  BY PageGrows
    <1>2. counts.peers \in 0..MaxPeerSaves /\ counts.starts \in 0..MaxStarts
        BY DEF PageUpto, Counts
    <1>3. ASSUME NEW p \in HuProjects, PeerWrites(p)
          PROVE  counts.writes' = n + 1 /\ PageUpto(n + 1)'
        <2>1. PICK assets \in SUBSET HuAssets :
                server' = [server EXCEPT ![p] = [fields |-> n + 1, assets |-> assets]]
            BY <1>3 DEF PeerWrites, Stamp
        <2>2. [fields |-> n + 1, assets |-> assets] \in RowUpto(n + 1)  BY DEF RowUpto
        <2>3. server' \in TreeUpto(n + 1)  BY <1>1, <2>1, <2>2, TreeSet DEF PageUpto
        <2>4. Now \in Times
            <3>1. Now \in Nat /\ \E q \in HuProjects : Now = touchedAt[q] + 1
                BY NowIsNew DEF PageUpto
            <3>2. PICK q \in HuProjects : Now = touchedAt[q] + 1  BY <3>1
            <3>3. touchedAt[q] <= counts.peers + counts.starts /\ touchedAt[q] \in Nat
                BY <3>2, TimesAre DEF TimesHold, PageUpto
            <3> QED  BY <1>2, <3>1, <3>2, <3>3, HuPageAssumption DEF Times
        <2>5. touchedAt' \in [HuProjects -> Times]  BY <1>3, <2>4 DEF PeerWrites, PageUpto
        <2>6. counts' \in Counts /\ counts.writes' = n + 1
            <3>1. counts \in Counts  BY DEF PageUpto
            <3>2. counts.peers + 1 \in 0..MaxPeerSaves
                BY <1>2, <1>3, HuPageAssumption DEF PeerWrites, PeerSaves
            <3>3. n + 1 \in Writes
                BY <1>3, HuPageAssumption DEF PeerWrites, CanWrite, Writes
            <3>4. counts' = [counts EXCEPT !.writes = n + 1, !.peers = counts.peers + 1]
                BY <1>3 DEF PeerWrites
            <3> QED  BY <3>1, <3>2, <3>3, <3>4 DEF Counts
        <2>7. used' \subseteq HuProjects  BY <1>3 DEF PeerWrites, PageUpto
        <2> QED  BY <1>1, <1>3, <2>3, <2>5, <2>6, <2>7 DEF PageUpto, PeerWrites, PeerSaves
    <1>4. ASSUME NEW p \in HuProjects, PeerDeletes(p) PROVE PageUpto(n)'
        <2>1. server' \in TreeUpto(n)  BY <1>4, TreeSet DEF PeerDeletes, PageUpto
        <2>2. counts' \in Counts
            BY <1>2, <1>4, HuPageAssumption DEF PeerDeletes, PeerSaves, Counts, PageUpto
        <2> QED  BY <1>4, <2>1, <2>2 DEF PageUpto, PeerDeletes, PeerSaves
    <1> QED  BY <1>3, <1>4 DEF PeerStep

LEMMA StartTypes == PageInit => PageUpto(0) /\ counts.writes = 0
PROOF
    <1> SUFFICES ASSUME PageInit PROVE PageUpto(0) /\ counts.writes = 0  OBVIOUS
    <1>1. PICK assets \in SUBSET HuAssets :
            server = [p \in HuProjects |->
                         IF p \in AtFirst THEN [fields |-> 0, assets |-> assets] ELSE Gone]
        BY DEF PageInit
    <1>2. [fields |-> 0, assets |-> assets] \in RowUpto(0)  BY DEF RowUpto
    <1>3. server \in TreeUpto(0)  BY <1>1, <1>2 DEF TreeUpto
    <1>4. touchedAt \in [HuProjects -> Times]
        <2>1. 0 \in Times  BY HuPageAssumption DEF Times
        <2> QED  BY <2>1 DEF PageInit
    <1>5. known \in Fingerprint  BY <1>4, PrintIs DEF PageInit, Fingerprint
    <1>6. counts \in Counts /\ counts.writes = 0
        BY HuPageAssumption DEF PageInit, Counts, Writes
    <1>7. mine \in [HuProjects -> 0..0 \cup {Gone, AsIs}]  BY DEF PageInit, Untouched
    <1> QED  BY <1>3, <1>4, <1>5, <1>6, <1>7, RestTypes, HuPageAssumption DEF PageInit, PageUpto

-------------------------------------------------------------------------------
(* Handlers, times, prints, clean pages *)

LEMMA TimesOnlyGrow ==
    ASSUME NEW n \in Nat, PageUpto(n), PageNext
    PROVE  \A p \in HuProjects : touchedAt'[p] >= touchedAt[p]
PROOF
    <1>1. \A p \in HuProjects : touchedAt[p] \in Nat  BY TimesAre DEF PageUpto
    <1>2. \A p \in HuProjects : Now \in Nat /\ touchedAt[p] < Now  BY NowIsNew DEF PageUpto
    <1>3. CASE UNCHANGED touchedAt  BY <1>1, <1>3
    <1>4. CASE PostSave  BY <1>1, <1>2, <1>4 DEF PostSave, PageUpto
    <1>5. ASSUME NEW p \in HuProjects, PeerWrites(p)
          PROVE  \A q \in HuProjects : touchedAt'[q] >= touchedAt[q]
        BY <1>1, <1>2, <1>5 DEF PeerWrites, PageUpto
    <1>6. UserStep => UNCHANGED touchedAt
        BY DEF UserStep, EditProject, DeleteProject, Asks, AskNewProject, AskNewAsset,
               AskSaveProject, AskMassUpdate, Await, Cancel, Finish, FinishFails, pageOnly
    <1>7. SaveChanges \/ SaveAnswered \/ SaveFails => UNCHANGED touchedAt
        BY DEF SaveChanges, SaveAnswered, SaveFails, pageOnly
    <1>8. PollStep => UNCHANGED touchedAt  BY DEF PollStep, Tick, Fetch, FetchMisses, Apply
    <1>9. \A p \in HuProjects : PeerDeletes(p) => UNCHANGED touchedAt  BY DEF PeerDeletes
    <1> QED  BY <1>3, <1>4, <1>5, <1>6, <1>7, <1>8, <1>9 DEF PageNext, SaveStep, PeerStep

LEMMA StillBelow ==
    ASSUME NEW n \in Nat, PageUpto(n), PageNext, touchedAt' \in [HuProjects -> Times],
           NEW k \in Nat, OfAnEdit(touchedAt, k)
    PROVE  OfAnEdit(touchedAt', k)
PROOF
    <1>1. \A p \in HuProjects : touchedAt'[p] >= touchedAt[p]  BY TimesOnlyGrow
    <1>2. \A p \in HuProjects : touchedAt[p] \in Nat /\ touchedAt'[p] \in Nat
        BY TimesAre DEF PageUpto
    <1> QED  BY <1>1, <1>2 DEF OfAnEdit

LEMMA HandlersHold ==
    ASSUME NEW n \in Nat, PageUpto(n), HandlerHolds, PageNext
    PROVE  HandlerHolds'
PROOF
    <1>1. CASE UNCHANGED handler  BY <1>1 DEF HandlerHolds
    <1>2. handler' = NoHandler => HandlerHolds'  BY DEF HandlerHolds, NoHandler
    <1>3. ASSUME NEW p \in HuProjects, Asks(p) PROVE HandlerHolds'
        <2>1. CASE AskNewProject(p)
            BY <2>1 DEF AskNewProject, Await, HandlerHolds, NoHandler
        <2>2. ASSUME NEW a \in HuAssets, AskNewAsset(p, a) PROVE HandlerHolds'
            BY <2>2 DEF AskNewAsset, Await, HandlerHolds, NoHandler
        <2>3. ASSUME NEW a \in HuAssets \cup {Gone}, AskSaveProject(p, a) PROVE HandlerHolds'
            BY <2>3 DEF AskSaveProject, Await, HandlerHolds, NoHandler
        <2>4. ASSUME NEW d \in HuProjects, AskMassUpdate(p, d) PROVE HandlerHolds'
            BY <2>4 DEF AskMassUpdate, Await, HandlerHolds, NoHandler
        <2> QED  BY <1>3, <2>1, <2>2, <2>3, <2>4 DEF Asks
    <1>4. Finish \/ FinishFails => handler' = NoHandler  BY DEF Finish, FinishFails
    <1>5. Cancel => UNCHANGED handler  BY DEF Cancel
    <1>6. \A p \in HuProjects : EditProject(p) \/ DeleteProject(p) => UNCHANGED handler
        BY DEF EditProject, DeleteProject
    <1>7. SaveStep \/ PollStep \/ PeerStep => UNCHANGED handler
        BY DEF SaveStep, SaveChanges, PostSave, SaveAnswered, SaveFails, PollStep, Tick, Fetch,
               FetchMisses, Apply, PeerStep, PeerWrites, PeerDeletes, PeerSaves
    <1> QED  BY <1>1, <1>2, <1>3, <1>4, <1>5, <1>6, <1>7 DEF PageNext, UserStep

LEMMA TimesStillHold ==
    ASSUME NEW n \in Nat, PageUpto(n), TimesHold, PageNext,
           touchedAt' \in [HuProjects -> Times]
    PROVE  TimesHold'
PROOF
    <1> DEFINE c == counts.peers + counts.starts
    <1>1. counts.peers \in Nat /\ counts.starts \in Nat
        BY HuPageAssumption DEF PageUpto, Counts
    <1>2. \A p \in HuProjects : touchedAt[p] \in Nat /\ touchedAt[p] <= c
        BY TimesAre DEF PageUpto, TimesHold
    <1>3. ASSUME NEW q \in HuProjects
          PROVE  /\ Now \in Nat /\ Now <= c + 1
                 /\ save.at = "post" => Now <= c
        <2>1. Now \in Nat /\ \E p \in HuProjects : Now = touchedAt[p] + 1
            BY NowIsNew DEF PageUpto
        <2> QED  BY <1>1, <1>2, <2>1 DEF TimesHold
    <1>4. CASE UNCHANGED << touchedAt, counts >> /\ (save' = save \/ save'.at # "post")
        BY <1>4 DEF TimesHold
    <1>5. CASE UNCHANGED << touchedAt, save >> /\ counts' = [counts EXCEPT !.writes = @ + 1]
        <2>1. counts.peers' = counts.peers /\ counts.starts' = counts.starts
            BY <1>5 DEF PageUpto, Counts
        <2> QED  BY <1>5, <2>1 DEF TimesHold
    <1>6. CASE touchedAt' = touchedAt /\ Starts
        <2>1. counts.peers' + counts.starts' = c + 1
            BY <1>1, <1>6 DEF Starts, PageUpto, Counts
        <2> QED  BY <1>1, <1>2, <1>6, <2>1 DEF TimesHold
    <1>7. CASE PostSave
        <2>1. \A p \in HuProjects : touchedAt'[p] <= c
            BY <1>2, <1>3, <1>7 DEF PostSave, PageUpto
        <2>2. counts' = counts /\ save.at' # "post"  BY <1>7 DEF PostSave, PageUpto, SavingUpto
        <2> QED  BY <2>1, <2>2 DEF TimesHold
    <1>8. ASSUME NEW p \in HuProjects, PeerWrites(p) PROVE TimesHold'
        <2>1. counts.peers' + counts.starts' = c + 1
            BY <1>1, <1>8 DEF PeerWrites, PageUpto, Counts
        <2>2. \A q \in HuProjects : touchedAt'[q] \in {touchedAt[q], Now}
            BY <1>8 DEF PeerWrites, PageUpto
        <2>3. save' = save  BY <1>8 DEF PeerWrites, PeerSaves
        <2>4. ASSUME NEW q \in HuProjects
              PROVE  touchedAt'[q] <= c + 1 /\ (save.at = "post" => touchedAt'[q] < c + 1)
            BY <1>1, <1>2, <1>3, <2>2
        <2> QED  BY <2>1, <2>3, <2>4 DEF TimesHold
    <1>9. ASSUME NEW p \in HuProjects, PeerDeletes(p) PROVE TimesHold'
        <2>1. counts.peers' + counts.starts' = c + 1
            BY <1>1, <1>9 DEF PeerDeletes, PeerSaves, PageUpto, Counts
        <2>2. touchedAt' = touchedAt /\ save' = save  BY <1>9 DEF PeerDeletes, PeerSaves
        <2> QED  BY <1>1, <1>2, <2>1, <2>2 DEF TimesHold
    <1>10. ASSUME NEW p \in HuProjects, Asks(p) PROVE touchedAt' = touchedAt /\ Starts
        BY <1>10 DEF Asks, AskNewProject, AskNewAsset, AskSaveProject, AskMassUpdate, Await
    <1>11. UserStep => TimesHold'
        <2>1. ASSUME NEW p \in HuProjects, EditProject(p) PROVE TimesHold'
            BY <1>5, <2>1 DEF EditProject, Wrote, pageOnly
        <2>2. ASSUME NEW p \in HuProjects, DeleteProject(p) PROVE TimesHold'
            BY <1>4, <2>2 DEF DeleteProject, pageOnly
        <2>3. CASE Cancel \/ FinishFails  BY <1>4, <2>3 DEF Cancel, FinishFails, pageOnly
        <2>4. CASE Finish  BY <1>4, <1>5, <2>4 DEF Finish, Wrote, pageOnly
        <2> QED  BY <1>6, <1>10, <2>1, <2>2, <2>3, <2>4 DEF UserStep
    <1>12. SaveStep => TimesHold'
        <2>1. CASE SaveChanges  BY <1>4, <1>6, <2>1 DEF SaveChanges
        <2>2. CASE SaveAnswered \/ SaveFails
            BY <1>4, <2>2 DEF SaveAnswered, SaveFails, pageOnly, NoSave
        <2> QED  BY <1>7, <2>1, <2>2 DEF SaveStep
    <1>13. PollStep => TimesHold'
        BY <1>4 DEF PollStep, Tick, Fetch, FetchMisses, Apply
    <1> QED  BY <1>8, <1>9, <1>11, <1>12, <1>13 DEF PageNext, PeerStep

LEMMA PrintsStillHold ==
    ASSUME NEW n \in Nat, PageUpto(n), PrintsHold, PageNext,
           touchedAt' \in [HuProjects -> Times]
    PROVE  PrintsHold'
PROOF
    <1>1. \A f \in Prints : f.latest \in Nat /\ f # Gone
        BY TimesAre, HuPageAssumption DEF Prints
    <1>2. \A f \in Fingerprint : f # Gone => f.latest \in Nat  BY <1>1 DEF Fingerprint
    <1>3. known \in Fingerprint /\ poll.print \in Fingerprint  BY DEF PageUpto, PollUpto
    <1>4. ASSUME known' = known, poll' = poll PROVE PrintsHold'
        BY <1>2, <1>3, <1>4, StillBelow DEF PrintsHold
    <1>5. CASE UserStep \/ SaveStep \/ PeerStep
        <2>1. known' = known /\ poll' = poll
            BY <1>5 DEF UserStep, EditProject, DeleteProject, Asks, AskNewProject, AskNewAsset,
               AskSaveProject, AskMassUpdate, Await, Cancel, Finish, FinishFails, pageOnly,
               SaveStep, SaveChanges, PostSave, SaveAnswered, SaveFails, PeerStep, PeerWrites,
               PeerDeletes, PeerSaves
        <2> QED  BY <1>4, <2>1
    <1>6. CASE Tick
        <2>1. touchedAt' = touchedAt  BY <1>6 DEF Tick
        <2>2. PICK s \in Prints : s = ServerPrint  BY PrintIs DEF PageUpto
        <2>3. s # Gone /\ OfAnEdit(touchedAt, s.latest)  BY <2>2, PrintIs DEF PageUpto
        <2>4. known' = s \/ known' = known  BY <1>6, <2>2 DEF Tick
        <2>5. /\ poll'.at # "idle" => poll'.print = s
              /\ poll'.at # "idle" /\ poll'.seen => known' = s
            BY <1>6, <2>2 DEF Tick, NoPoll
        <2> QED  BY <2>1, <2>3, <2>4, <2>5 DEF PrintsHold
    <1>7. CASE Fetch
        BY <1>7 DEF Fetch, PrintsHold, PageUpto, PollUpto
    <1>8. CASE FetchMisses \/ Apply
        <2>1. poll.at # "idle" /\ poll' = NoPoll /\ Noted /\ touchedAt' = touchedAt
            BY <1>8 DEF FetchMisses, Apply
        <2>2. NoPoll.at = "idle"  BY DEF NoPoll
        <2>3. known' = known \/ known' = poll.print  BY <2>1 DEF Noted
        <2> QED  BY <2>1, <2>2, <2>3 DEF PrintsHold
    <1> QED  BY <1>5, <1>6, <1>7, <1>8 DEF PageNext, PollStep

LEMMA CleanStaysClean ==
    ASSUME NEW n \in Nat, PageUpto(n), CleanPage, PageNext
    PROVE  CleanPage'
PROOF
    <1>1. CASE UNCHANGED << edited, base, dirty, mine >> /\ (save' = save \/ save'.at = "idle")
        BY <1>1 DEF CleanPage
    <1>2. CASE dirty'  BY <1>2 DEF CleanPage
    <1>3. Untouched \in [HuProjects -> {AsIs}] /\ NoSave.at = "idle"  BY DEF Untouched, NoSave
    <1>4. CASE UserStep
        <2>1. ASSUME NEW p \in HuProjects, Asks(p) PROVE CleanPage'
            BY <1>1, <2>1 DEF Asks, AskNewProject, AskNewAsset, AskSaveProject, AskMassUpdate,
                             Await
        <2>2. ASSUME NEW p \in HuProjects, EditProject(p) \/ DeleteProject(p) PROVE CleanPage'
            BY <1>2, <2>2 DEF EditProject, DeleteProject, Edited
        <2>3. CASE Finish  BY <1>2, <2>3 DEF Finish, Edited
        <2>4. CASE FinishFails  BY <1>1, <2>4 DEF FinishFails, pageOnly
        <2>5. CASE Cancel
            <3>1. \A p \in HuProjects : Untouched[p] = AsIs  BY DEF Untouched
            <3> QED  BY <2>5, <3>1 DEF Cancel, CleanPage
        <2> QED  BY <1>4, <2>1, <2>2, <2>3, <2>4, <2>5 DEF UserStep
    <1>5. CASE SaveStep
        <2>1. \A p \in HuProjects : Untouched[p] = AsIs  BY DEF Untouched
        <2>2. CASE SaveChanges
            <3>1. CASE Changed(base, edited) = {}
                <4>1. \A p \in HuProjects : base[p] = edited[p]  BY <3>1 DEF Changed
                <4>2. edited = base  BY <4>1 DEF PageUpto, TreeUpto
                <4>3. /\ edited' = edited /\ base' = base /\ mine' = Untouched
                      /\ save' = save /\ save.at = "idle"
                    BY <2>2, <3>1 DEF SaveChanges
                <4> QED  BY <2>1, <4>2, <4>3 DEF CleanPage
            <3>2. CASE Changed(base, edited) # {}
                <4>1. dirty /\ dirty' = dirty  BY <2>2, <3>2 DEF SaveChanges
                <4> QED  BY <1>2, <4>1
            <3> QED  BY <3>1, <3>2
        <2>3. CASE PostSave  BY <2>3 DEF PostSave, CleanPage
        <2>4. CASE SaveAnswered
            <3>1. edited' = base' /\ mine' = Untouched /\ save' = NoSave
                BY <2>4 DEF SaveAnswered
            <3> QED  BY <1>3, <2>1, <3>1 DEF CleanPage
        <2>5. CASE SaveFails  BY <1>1, <1>3, <2>5 DEF SaveFails, pageOnly
        <2> QED  BY <1>5, <2>2, <2>3, <2>4, <2>5 DEF SaveStep
    <1>6. CASE PollStep
        <2>1. CASE Tick \/ Fetch \/ FetchMisses  BY <1>1, <2>1 DEF Tick, Fetch, FetchMisses
        <2>2. CASE Apply
            <3>1. CASE ~ dirty
                <4>1. \A p \in HuProjects : mine[p] = AsIs /\ mine'[p] = AsIs
                    BY <2>2, <3>1, RowsAreRows DEF Apply, CleanPage
                <4>2. edited' = base' /\ save' = save  BY <2>2, <3>1 DEF Apply
                <4> QED  BY <2>2, <3>1, <4>1, <4>2 DEF Apply, CleanPage
            <3> QED  BY <1>2, <2>2, <3>1 DEF Apply
        <2> QED  BY <1>6, <2>1, <2>2 DEF PollStep
    <1>7. CASE PeerStep
        BY <1>1, <1>7 DEF PeerStep, PeerWrites, PeerDeletes, PeerSaves
    <1> QED  BY <1>4, <1>5, <1>6, <1>7 DEF PageNext

-------------------------------------------------------------------------------
(* What is fresher than a fingerprint *)

\* The steps that leave alone what the copies are compared by.
LEMMA UserLeaves ==
    ASSUME UserStep
    PROVE  UNCHANGED << server, touchedAt, base, known, poll, save >> /\ (straight' => straight)
PROOF
    <1>1. UNCHANGED << server, touchedAt, base, known, poll, save >>
        BY ZenonT(60) DEF UserStep, EditProject, DeleteProject, Asks, AskNewProject, AskNewAsset,
               AskSaveProject, AskMassUpdate, Await, Cancel, Finish, FinishFails, pageOnly
    <1>2. Finish \/ UNCHANGED straight
        BY DEF UserStep, EditProject, DeleteProject, Asks, AskNewProject, AskNewAsset,
               AskSaveProject, AskMassUpdate, Await, Cancel, FinishFails
    <1>3. Finish => (straight' => straight)  BY DEF Finish
    <1> QED  BY <1>1, <1>2, <1>3

LEMMA PeerLeaves ==
    ASSUME PeerStep
    PROVE  UNCHANGED << edited, base, dirty, known, poll, handler, save, mine, folded, straight >>
BY DEF PeerStep, PeerWrites, PeerDeletes, PeerSaves

LEMMA FreshStays ==
    ASSUME NEW n \in Nat, PageUpto(n), PageNext, NEW tree, NEW k \in Nat,
           OfAnEdit(touchedAt, k), Fresh(server, touchedAt, tree, k)
    PROVE  Fresh(server', touchedAt', tree, k)
PROOF
    <1>1. touchedAt \in [HuProjects -> Times] /\ server \in TreeUpto(n)  BY DEF PageUpto
    <1>2. \A p \in HuProjects : Now > k
        BY <1>1, BelowNow, NowIsNew
    <1>3. ASSUME NEW p \in HuProjects, tree[p] # Gone, server'[p] # Gone,
                 \/ server'[p] = server[p] /\ touchedAt'[p] = touchedAt[p]
                 \/ touchedAt'[p] = Now
          PROVE  tree[p].fields = server'[p].fields \/ touchedAt'[p] > k
        BY <1>2, <1>3 DEF Fresh
    <1>4. ASSUME NEW p \in HuProjects, server'[p] # Gone
          PROVE  \/ server'[p] = server[p] /\ touchedAt'[p] = touchedAt[p]
                 \/ touchedAt'[p] = Now
        <2>1. CASE UNCHANGED << server, touchedAt >>  BY <2>1
        <2>2. CASE PostSave
            <3>1. p \in save.changed \cap save.deleted => server'[p] = Gone
                BY <2>2 DEF PostSave, Stored
            <3>2. p \notin save.changed => server'[p] = server[p] /\ touchedAt'[p] = touchedAt[p]
                BY <2>2 DEF PostSave
            <3>3. p \in save.changed \ save.deleted => touchedAt'[p] = Now
                BY <2>2 DEF PostSave
            <3> QED  BY <1>4, <3>1, <3>2, <3>3
        <2>3. ASSUME NEW q \in HuProjects, PeerWrites(q)
              PROVE  \/ server'[p] = server[p] /\ touchedAt'[p] = touchedAt[p]
                     \/ touchedAt'[p] = Now
            BY <1>1, <2>3 DEF PeerWrites, TreeUpto
        <2>4. ASSUME NEW q \in HuProjects, PeerDeletes(q)
              PROVE  server'[p] = server[p] /\ touchedAt'[p] = touchedAt[p]
            BY <1>1, <1>4, <2>4 DEF PeerDeletes, TreeUpto
        <2>5. UserStep => UNCHANGED << server, touchedAt >>  BY UserLeaves
        <2>6. SaveChanges \/ SaveAnswered \/ SaveFails \/ PollStep
                => UNCHANGED << server, touchedAt >>
            BY DEF SaveChanges, SaveAnswered, SaveFails, pageOnly, PollStep, Tick, Fetch,
                   FetchMisses, Apply
        <2> QED  BY <2>1, <2>2, <2>3, <2>4, <2>5, <2>6 DEF PageNext, SaveStep, PeerStep
    <1> QED  BY <1>3, <1>4 DEF Fresh

\* What a tick does to the fingerprint that is known.
LEMMA TickNotes ==
    ASSUME NEW n \in Nat, PageUpto(n), Tick, straight', Noticed'
    PROVE  /\ straight
           /\ \/ known' = known /\ Noticed
              \/ known = Gone /\ base = server /\ known' = ServerPrint
           /\ dirty /\ known = Gone => base = server
PROOF
    <1>1. PICK s \in Prints : s = ServerPrint /\ s # Gone  BY PrintIs DEF PageUpto
    <1>2. straight /\ poll.at = "idle" /\ dirty \in BOOLEAN  BY DEF Tick, PageUpto
    <1> DEFINE fetches == known \notin {Gone, s} \/ (~dirty /\ Listed(edited) # Listed(server))
    <1>3. CASE fetches
        <2>1. poll' = [NoPoll EXCEPT !.at = "fetch", !.print = s, !.seen = dirty]
            BY <1>1, <1>3 DEF Tick
        <2>2. ~ dirty
            BY <2>1 DEF Noticed, NoPoll
        <2>3. known' = known  BY <1>1, <1>3, <2>2 DEF Tick
        <2>4. known # Gone  BY <2>3 DEF Noticed
        <2> QED  BY <1>2, <2>2, <2>3, <2>4 DEF Noticed
    <1>4. CASE ~ fetches
        <2>1. known' = s /\ (known = Gone \/ known = s)  BY <1>1, <1>4 DEF Tick
        <2>2. known = Gone => base = server  BY <1>1, <1>4 DEF Tick
        <2>3. known = s => known' = known /\ Noticed  BY <1>1, <1>2, <2>1 DEF Noticed
        <2> QED  BY <1>1, <1>2, <2>1, <2>2, <2>3
    <1> QED  BY <1>3, <1>4

LEMMA CopiesStillHold ==
    ASSUME NEW n \in Nat, PageUpto(n), PrintsHold, CopiesHold, SentIs, PageNext
    PROVE  CopiesHold'
PROOF
    <1>1. \A f \in Fingerprint : f # Gone => f.latest \in Nat
        BY TimesAre, HuPageAssumption DEF Prints, Fingerprint
    <1>2. known \in Fingerprint /\ poll \in PollUpto(n) /\ poll.print \in Fingerprint
        BY DEF PageUpto, PollUpto
    <1>3. poll.at = "apply" => Fresh(server', touchedAt', poll.tree, poll.print.latest)
        BY <1>1, <1>2, FreshStays DEF CopiesHold, PrintsHold
    <1>4. straight /\ Noticed => Fresh(server', touchedAt', base, known.latest)
        BY <1>1, <1>2, FreshStays DEF CopiesHold, PrintsHold, Noticed
    <1>5. ASSUME UNCHANGED << base, known, poll >>, straight' => straight PROVE CopiesHold'
        BY <1>3, <1>4, <1>5 DEF CopiesHold, Noticed
    <1>6. CASE UserStep  BY <1>5, <1>6, UserLeaves
    <1>7. CASE PeerStep  BY <1>5, <1>7, PeerLeaves
    <1>8. CASE SaveStep
        <2>1. CASE SaveChanges \/ PostSave \/ SaveFails
            BY <1>5, <2>1 DEF SaveChanges, PostSave, SaveFails, pageOnly
        <2>2. CASE SaveAnswered
            <3>1. save.at = "answer" /\ base' = save.tree /\ (straight' => straight)
                  /\ UNCHANGED << server, touchedAt, known, poll >>
                BY <2>2 DEF SaveAnswered
            <3> QED  BY <1>3, <3>1 DEF CopiesHold, SentIs, Noticed
        <2> QED  BY <1>8, <2>1, <2>2 DEF SaveStep
    <1>9. CASE Tick
        <2>1. UNCHANGED << server, touchedAt, base >> /\ poll'.at # "apply"
            BY <1>9 DEF Tick, NoPoll
        <2>2. ASSUME straight', Noticed' PROVE Fresh(server, touchedAt, base, known'.latest)
            <3>1. CASE known' = known /\ Noticed /\ straight
                BY <3>1 DEF CopiesHold
            <3>2. CASE base = server  BY <3>2 DEF Fresh
            <3> QED  BY <1>9, <2>2, <3>1, <3>2, TickNotes
        <2> QED  BY <2>1, <2>2 DEF CopiesHold
    <1>10. CASE Fetch
        <2>1. UNCHANGED << server, touchedAt, base, known, straight >> /\ poll.at = "fetch"
              /\ poll' = [poll EXCEPT !.at = "apply", !.tree = server]
            BY <1>10 DEF Fetch
        <2>2. poll'.tree = server /\ poll'.seen = poll.seen /\ poll'.at = "apply"
            BY <1>2, <2>1 DEF PollUpto
        <2>3. Fresh(server, touchedAt, server, poll'.print.latest)  BY DEF Fresh
        <2>4. Noticed' => Noticed  BY <2>1, <2>2 DEF Noticed
        <2> QED  BY <2>1, <2>2, <2>3, <2>4 DEF CopiesHold
    <1>11. CASE FetchMisses
        <2>1. ~ straight' /\ poll'.at = "idle"  BY <1>11 DEF FetchMisses, NoPoll
        <2> QED  BY <2>1 DEF CopiesHold
    <1>12. CASE Apply
        <2>1. poll.at = "apply" /\ base' = poll.tree /\ Noted /\ poll' = NoPoll
              /\ UNCHANGED << server, touchedAt >>
            BY <1>12 DEF Apply
        <2>2. known' = poll.print  BY <2>1 DEF Noted, PrintsHold
        <2> QED  BY <2>1, <2>2 DEF CopiesHold, NoPoll
    <1> QED  BY <1>6, <1>7, <1>8, <1>9, <1>10, <1>11, <1>12 DEF PageNext, PollStep

LEMMA SaveLeavesNone ==
    ASSUME NEW n \in Nat, PageUpto(n), CleanPage, SentIs, PageNext,
           save' = save, save.at # "idle"
    PROVE  straight' => straight /\ base' = base
PROOF
    <1>1. ~ Cancel /\ ~ SaveAnswered /\ ~ SaveFails /\ ~ SaveChanges /\ ~ PostSave
        <2>1. NoSave.at = "idle"  BY DEF NoSave
        <2>2. PostSave => save'.at = "answer" /\ save.at = "post"
            BY DEF PostSave, PageUpto, SavingUpto
        <2> QED  BY <2>1, <2>2 DEF Cancel, SaveAnswered, SaveFails, SaveChanges
    <1>2. UserStep => (straight' => straight) /\ base' = base  BY UserLeaves
    <1>3. PeerStep => (straight' => straight) /\ base' = base  BY PeerLeaves
    <1>4. Tick => (straight' => straight) /\ base' = base  BY DEF Tick
    <1>5. Fetch => (straight' => straight) /\ base' = base  BY DEF Fetch
    <1>6. FetchMisses \/ Apply => ~ straight'  BY DEF FetchMisses, Apply
    <1> QED  BY <1>1, <1>2, <1>3, <1>4, <1>5, <1>6 DEF PageNext, SaveStep, PollStep

LEMMA SentStarts ==
    ASSUME NEW n \in Nat, PageUpto(n), SaveChanges, save' # save
    PROVE  SentIs'
PROOF
    <1>1. /\ save.at = "idle" /\ base' = base
          /\ save' = [at |-> "post", tree |-> edited, changed |-> Changed(base, edited),
                      deleted |-> Deleted(base, edited),
                      touched |-> TouchedAssets(base, edited)]
        BY DEF SaveChanges
    <1>2. ASSUME NEW p \in Changed(base, edited) \ Deleted(base, edited)
          PROVE  edited[p] # Gone
        BY <1>2 DEF Changed, Deleted, Listed
    <1>3. ASSUME NEW p \in Deleted(base, edited) PROVE edited[p] = Gone
        BY <1>3 DEF Deleted, Listed
    <1>4. ASSUME NEW p \in HuProjects \ Changed(base, edited) PROVE edited[p] = base[p]
        BY <1>4 DEF Changed
    <1> QED  BY <1>1, <1>2, <1>3, <1>4 DEF SentIs

LEMMA SentIsPosted ==
    ASSUME NEW n \in Nat, PageUpto(n), PrintsHold, CopiesHold, SentIs, PostSave
    PROVE  SentIs'
PROOF
    <1>1. PICK s \in SavingUpto(n) : s = save  BY DEF PageUpto
    <1>2. save' = [s EXCEPT !.at = "answer"] /\ s.at = "post"
          /\ UNCHANGED << base, known, poll, straight >>
        BY <1>1 DEF PostSave
    <1>3. /\ save'.tree = s.tree /\ save'.changed = s.changed /\ save'.deleted = s.deleted
          /\ save'.at = "answer"
        BY <1>2 DEF SavingUpto
    <1>4. s.changed \subseteq HuProjects  BY DEF SavingUpto
    <1>5. \A p \in s.changed \ s.deleted : server'[p].fields = s.tree[p].fields
        BY <1>1, <1>4 DEF PostSave, Stored
    <1>6. \A p \in s.changed \cap s.deleted : server'[p] = Gone
        BY <1>1, <1>4 DEF PostSave, Stored
    <1>7. \A p \in HuProjects \ s.changed : server'[p] = server[p] /\ touchedAt'[p] = touchedAt[p]
        BY <1>1 DEF PostSave
    <1>8. ASSUME straight, Noticed PROVE Fresh(server', touchedAt', s.tree, known.latest)
        <2>1. Fresh(server, touchedAt, base, known.latest)  BY <1>8 DEF CopiesHold
        <2>2. \A p \in HuProjects \ s.changed : s.tree[p] = base[p]
            BY <1>1, <1>2, <1>8 DEF SentIs
        <2> QED  BY <1>5, <1>6, <1>7, <2>1, <2>2 DEF Fresh
    <1>9. /\ \A p \in s.changed \ s.deleted : s.tree[p] # Gone
          /\ \A p \in s.deleted : s.tree[p] = Gone
          /\ straight => \A p \in HuProjects \ s.changed : s.tree[p] = base[p]
        BY <1>1, <1>2 DEF SentIs
    <1>10. Noticed' => Noticed  BY <1>2 DEF Noticed
    <1> QED  BY <1>2, <1>3, <1>5, <1>8, <1>9, <1>10 DEF SentIs

LEMMA SentStays ==
    ASSUME NEW n \in Nat, counts.writes = n, PageUpto(n), CleanPage, PrintsHold, CopiesHold,
           SentIs, PageNext
    PROVE  SentIs'
PROOF
    <1>1. CASE save'.at = "idle"  BY <1>1 DEF SentIs
    <1>2. CASE save' = save /\ save.at # "idle"
        <2>1. straight' => straight /\ base' = base  BY <1>2, SaveLeavesNone
        <2>2. PICK s \in SavingUpto(n) : s = save  BY DEF PageUpto
        <2>3. /\ \A p \in s.changed \ s.deleted : s.tree[p] # Gone
              /\ \A p \in s.deleted : s.tree[p] = Gone
              /\ straight' => \A p \in HuProjects \ s.changed : s.tree[p] = base'[p]
            BY <1>2, <2>1, <2>2 DEF SentIs
        <2>4. ASSUME s.at = "answer", straight', Noticed'
              PROVE  Fresh(server', touchedAt', s.tree, known'.latest)
            <3>1. \A f \in Fingerprint : f # Gone => f.latest \in Nat
                BY TimesAre, HuPageAssumption DEF Prints, Fingerprint
            <3>2. straight /\ base' = base  BY <2>1, <2>4
            <3>3. Noticed /\ known' = known => Fresh(server', touchedAt', s.tree, known.latest)
                <4>1. SUFFICES ASSUME Noticed
                               PROVE  Fresh(server', touchedAt', s.tree, known.latest)
                    OBVIOUS
                <4>2. Fresh(server, touchedAt, s.tree, known.latest)
                    BY <2>2, <2>4, <3>2, <4>1 DEF SentIs
                <4>3. known # Gone /\ known.latest \in Nat /\ OfAnEdit(touchedAt, known.latest)
                    BY <3>1, <4>1 DEF Noticed, PrintsHold, PageUpto
                <4> QED  BY <4>2, <4>3, FreshStays
            <3>4. CASE Tick
                <4>1. UNCHANGED << server, touchedAt >>  BY <3>4 DEF Tick
                <4>2. CASE base = server /\ known = Gone
                    <5>1. ASSUME NEW p \in HuProjects, s.tree[p] # Gone, server[p] # Gone
                          PROVE  s.tree[p].fields = server[p].fields
                        <6>1. CASE p \notin s.changed
                            BY <2>3, <2>4, <3>2, <4>2, <5>1, <6>1
                        <6>2. CASE p \in s.changed
                            <7>1. p \notin s.deleted  BY <2>3, <5>1
                            <7> QED  BY <2>2, <2>4, <3>2, <4>2, <5>1, <6>2, <7>1 DEF SentIs
                        <6> QED  BY <6>1, <6>2
                    <5> QED  BY <4>1, <5>1 DEF Fresh
                <4> QED  BY <2>4, <3>3, <3>4, <4>2, TickNotes
            <3>5. CASE ~ Tick
                <4>1. ~ FetchMisses /\ ~ Apply /\ ~ SaveAnswered /\ ~ SaveFails /\ ~ SaveChanges
                      /\ ~ PostSave
                    <5>1. NoSave.at = "idle"  BY DEF NoSave
                    <5>2. PostSave => save.at = "post"  BY DEF PostSave
                    <5>3. FetchMisses => ~ straight'  BY DEF FetchMisses
                    <5>4. Apply => ~ straight'  BY <1>2 DEF Apply
                    <5> QED  BY <1>2, <2>2, <2>4, <5>1, <5>2, <5>3, <5>4
                             DEF SaveAnswered, SaveFails, SaveChanges
                <4>2. CASE UserStep  BY <2>4, <3>3, <4>2, UserLeaves DEF Noticed
                <4>3. CASE PeerStep  BY <2>4, <3>3, <4>3, PeerLeaves DEF Noticed
                <4>4. CASE Fetch
                    <5>1. known' = known /\ poll'.seen = poll.seen /\ poll'.at = "apply"
                          /\ poll.at = "fetch"
                        BY <4>4 DEF Fetch, PageUpto, PollUpto
                    <5>2. Noticed  BY <2>4, <5>1 DEF Noticed
                    <5> QED  BY <3>3, <5>1, <5>2
                <4> QED  BY <3>5, <4>1, <4>2, <4>3, <4>4 DEF PageNext, SaveStep, PollStep
            <3> QED  BY <3>4, <3>5
        <2>5. ASSUME s.at = "answer", straight', known' = Gone,
                     NEW p \in s.changed \ s.deleted, server'[p] # Gone
              PROVE  \/ server'[p].fields = s.tree[p].fields
                     \/ base'[p] = Gone \/ server'[p].fields # base'[p].fields
            <3>1. straight /\ base' = base  BY <2>1, <2>5
            <3>2. p \in HuProjects  BY <2>5 DEF SavingUpto
            <3>3. known = Gone
                <4>1. CASE Tick
                    <5>1. ServerPrint # Gone  BY PrintIs DEF PageUpto
                    <5> QED  BY <2>5, <4>1, <5>1 DEF Tick
                <4>2. CASE FetchMisses \/ Apply
                    BY <1>2, <2>5, <4>2 DEF FetchMisses, Apply
                <4>3. CASE Fetch  BY <2>5, <4>3 DEF Fetch
                <4>4. CASE SaveStep
                    BY <2>5, <4>4 DEF SaveStep, SaveChanges, PostSave, SaveAnswered, SaveFails,
                                      pageOnly
                <4> QED  BY <2>5, <4>1, <4>2, <4>3, <4>4, UserLeaves, PeerLeaves
                         DEF PageNext, PollStep
            <3>4. server[p] # Gone => \/ server[p].fields = s.tree[p].fields
                                      \/ base[p] = Gone \/ server[p].fields # base[p].fields
                BY <2>2, <2>5, <3>1, <3>3 DEF SentIs
            <3>5. CASE server'[p] = server[p]  BY <2>5, <3>1, <3>4, <3>5
            <3>6. ASSUME NEW q \in HuProjects, PeerWrites(q)
                  PROVE  \/ server'[p] = server[p]
                         \/ base[p] = Gone \/ server'[p].fields # base[p].fields
                <4>1. p # q => server'[p] = server[p]
                    BY <3>2, <3>6 DEF PeerWrites, PageUpto, TreeUpto
                <4>2. server'[q].fields = n + 1
                    BY <3>6 DEF PeerWrites, Stamp, PageUpto, TreeUpto
                <4>3. base[p] # Gone => base[p].fields \in 0..n  BY <3>2, RowOf DEF PageUpto
                <4> QED  BY <4>1, <4>2, <4>3
            <3>7. ASSUME NEW q \in HuProjects, PeerDeletes(q) PROVE server'[p] = server[p]
                BY <2>5, <3>2, <3>7 DEF PeerDeletes, PageUpto, TreeUpto
            <3>8. UserStep \/ PollStep \/ SaveChanges \/ SaveAnswered \/ SaveFails
                    => server' = server
                BY UserLeaves DEF PollStep, Tick, Fetch, FetchMisses, Apply, SaveChanges,
                                  SaveAnswered, SaveFails, pageOnly
            <3>9. ~ PostSave  BY <2>2, <2>5 DEF PostSave
            <3> QED  BY <3>1, <3>5, <3>6, <3>7, <3>8, <3>9 DEF PageNext, SaveStep, PeerStep
        <2> QED  BY <1>2, <2>2, <2>3, <2>4, <2>5 DEF SentIs
    <1>3. CASE save'.at # "idle" /\ ~ (save' = save /\ save.at # "idle")
        <2>1. NoSave.at = "idle"  BY DEF NoSave
        <2>2. SaveAnswered \/ SaveFails => save' = NoSave  BY DEF SaveAnswered, SaveFails
        <2>3. UserStep \/ PeerStep => save' = save  BY UserLeaves, PeerLeaves
        <2>4. PollStep => save' = save  BY DEF PollStep, Tick, Fetch, FetchMisses, Apply
        <2>5. CASE PostSave  BY <2>5, SentIsPosted
        <2>6. CASE SaveChanges
            <3>1. save' # save  BY <1>3, <2>6 DEF SaveChanges
            <3> QED  BY <2>6, <3>1, SentStarts
        <2> QED  BY <1>3, <2>1, <2>2, <2>3, <2>4, <2>5, <2>6 DEF PageNext, SaveStep
    <1> QED  BY <1>1, <1>2, <1>3

-------------------------------------------------------------------------------
(* The changes of the user *)

LEMMA StampIsNew ==
    ASSUME NEW n \in Nat, PageUpto(n), CanWrite
    PROVE  Stamp \notin {AsIs, Gone}
PROOF
    <1>1. Stamp \in Writes
        BY HuPageAssumption DEF CanWrite, Stamp, PageUpto, Counts, Writes
    <1> QED  BY <1>1, HuPageAssumption

\* One copy, and nothing of the user's.
LEMMA NothingOwn ==
    ASSUME NEW tree
    PROVE  /\ OwnKept(tree, tree, Untouched)
           /\ OnlyOwn(tree, tree, Untouched)
PROOF
    <1>1. \A p \in HuProjects : Untouched[p] = AsIs  BY DEF Untouched
    <1>2. AsIs # Gone  BY HuPageAssumption
    <1> QED  BY <1>1, <1>2 DEF OwnKept, OnlyOwn

\* A row of the user's, written or dropped.
LEMMA OwnChange ==
    ASSUME NEW new, NEW old, NEW own, NEW new1, NEW own1,
           OwnKept(new, old, own),
           \A p \in HuProjects :
               \/ new1[p] = new[p] /\ own1[p] = own[p]
               \/ new1[p] = Gone /\ own1[p] = Gone
               \/ new1[p] # Gone /\ new1[p].fields = own1[p] /\ own1[p] \notin {AsIs, Gone}
    PROVE  /\ OwnKept(new1, old, own1)
           /\ OnlyOwn(new, old, own) => OnlyOwn(new1, old, own1)
PROOF
    <1>1. AsIs # Gone  BY HuPageAssumption
    <1> QED  BY <1>1 DEF OwnKept, OnlyOwn

LEMMA OwnByUser ==
    ASSUME NEW n \in Nat, counts.writes = n, PageUpto(n), HandlerHolds, OwnHold, UserStep
    PROVE  OwnHold'
PROOF
    <1>1. base' = base  BY UserLeaves
    <1>2. CASE UNCHANGED << edited, mine, folded, straight >>
        BY <1>1, <1>2 DEF OwnHold
    <1>3. PICK e \in TreeUpto(n) : e = edited  BY DEF PageUpto
    <1>4. PICK own \in [HuProjects -> 0..n \cup {Gone, AsIs}] : own = mine  BY DEF PageUpto
    <1>5. ASSUME NEW p \in HuProjects, EditProject(p) PROVE OwnHold'
        <2>1. PICK w : w = Stamp /\ w \notin {AsIs, Gone}
            BY <1>5, StampIsNew DEF EditProject
        <2>2. /\ edited' = [e EXCEPT ![p].fields = w] /\ mine' = [own EXCEPT ![p] = w]
              /\ e[p] # Gone /\ UNCHANGED << folded, straight >>
            BY <1>3, <1>4, <1>5, <2>1 DEF EditProject, Edited, Intends, pageOnly
        <2>3. e[p] \in RowUpto(n)  BY <2>2, RowOf
        <2>4. PICK row : row = [e[p] EXCEPT !.fields = w]  OBVIOUS
        <2>5. row.fields = w  BY <2>3, <2>4 DEF RowUpto
        <2>6. row # Gone
            <3>1. w \in Writes
                BY <1>5, <2>1, HuPageAssumption
                   DEF EditProject, CanWrite, Stamp, PageUpto, Counts, Writes
            <3>2. row \in ProjectRow  BY <2>3, <2>4, <3>1 DEF RowUpto, ProjectRow
            <3> QED  BY <3>2, HuPageAssumption
        <2>7. \A q \in HuProjects :
                \/ edited'[q] = e[q] /\ mine'[q] = own[q]
                \/ edited'[q] # Gone /\ edited'[q].fields = mine'[q] /\ mine'[q] \notin {AsIs, Gone}
            BY <2>1, <2>2, <2>4, <2>5, <2>6 DEF TreeUpto
        <2>8. straight => /\ OwnKept(edited', base, mine')
                          /\ OnlyOwn(e, base, own) => OnlyOwn(edited', base, mine')
            BY <1>3, <1>4, <2>7, OwnChange DEF OwnHold
        <2> QED  BY <1>1, <1>3, <1>4, <2>2, <2>8 DEF OwnHold
    <1>6. ASSUME NEW p \in HuProjects, DeleteProject(p) PROVE OwnHold'
        <2>1. /\ edited' = [e EXCEPT ![p] = Gone] /\ mine' = [own EXCEPT ![p] = Gone]
              /\ UNCHANGED << folded, straight >>
            BY <1>3, <1>4, <1>6 DEF DeleteProject, Edited, Intends, pageOnly
        <2>2. \A q \in HuProjects :
                \/ edited'[q] = e[q] /\ mine'[q] = own[q]
                \/ edited'[q] = Gone /\ mine'[q] = Gone
            BY <2>1 DEF TreeUpto
        <2>3. straight => /\ OwnKept(edited', base, mine')
                          /\ OnlyOwn(e, base, own) => OnlyOwn(edited', base, mine')
            BY <1>3, <1>4, <2>2, OwnChange DEF OwnHold
        <2> QED  BY <1>1, <1>3, <1>4, <2>1, <2>3 DEF OwnHold
    <1>7. ASSUME NEW p \in HuProjects, Asks(p) PROVE OwnHold'
        BY <1>2, <1>7 DEF Asks, AskNewProject, AskNewAsset, AskSaveProject, AskMassUpdate, Await
    <1>8. CASE Cancel
        <2>1. edited' = base /\ mine' = Untouched  BY <1>8 DEF Cancel
        <2> QED  BY <1>1, <2>1, NothingOwn DEF OwnHold
    <1>9. CASE Finish
        <2>1. PICK h \in HandlerUpto(n) : h = handler  BY DEF PageUpto
        <2>2. edited' = Made(h) /\ folded' = folded /\ (straight' => straight /\ e = h.tree)
            BY <1>3, <1>9, <2>1 DEF Finish, Edited, pageOnly
        <2>3. SUFFICES ASSUME straight' PROVE OwnHold'  BY DEF OwnHold
        <2>4. straight /\ e = h.tree  BY <2>2, <2>3
        <2>5. CASE h.does = "newAsset"
            <3>1. h.project \in HuProjects /\ e[h.project] # Gone
                BY <2>1, <2>4, <2>5 DEF HandlerHolds
            <3>2. e[h.project] \in RowUpto(n)  BY <3>1, RowOf
            <3>3. PICK row : row = [e[h.project] EXCEPT !.assets = @ \cup {h.asset}]  OBVIOUS
            <3>4. row.fields = e[h.project].fields  BY <3>2, <3>3 DEF RowUpto
            <3>5. edited' = [e EXCEPT ![h.project] = row]
                BY <2>2, <2>4, <2>5, <3>3 DEF Made
            <3>6. mine' = own  BY <1>4, <1>9, <2>1, <2>5 DEF Finish
            <3>7. row # Gone
                <4>1. h.asset \in HuAssets  BY <2>1, <2>5 DEF HandlerHolds
                <4>2. e[h.project].fields \in Writes
                    <5>1. n \in Writes  BY DEF PageUpto, Counts
                    <5> QED  BY <3>2, <5>1, RowsAreRows DEF RowUpto
                <4>3. row \in ProjectRow  BY <3>2, <3>3, <4>1, <4>2 DEF RowUpto, ProjectRow
                <4> QED  BY <4>3, HuPageAssumption
            <3>8. OwnKept(e, base, own) /\ (~ folded => OnlyOwn(e, base, own))
                BY <1>3, <1>4, <2>4 DEF OwnHold
            <3>9. \A p \in HuProjects : \/ edited'[p] = e[p]
                                        \/ /\ edited'[p] # Gone /\ e[p] # Gone
                                           /\ edited'[p].fields = e[p].fields
                BY <3>1, <3>4, <3>5, <3>7 DEF TreeUpto
            <3>10. OwnKept(edited', base, own)  BY <3>8, <3>9 DEF OwnKept
            <3>11. ~ folded => OnlyOwn(edited', base, own)  BY <3>8, <3>9 DEF OnlyOwn
            <3> QED  BY <1>1, <2>2, <3>6, <3>10, <3>11 DEF OwnHold
        <2>6. CASE h.does # "newAsset"
            <3>1. PICK w : w = Stamp /\ w \notin {AsIs, Gone}
                BY <1>9, <2>1, <2>6, StampIsNew DEF Finish
            <3>2. mine' = [p \in HuProjects |-> IF p = h.project THEN w
                                                ELSE IF p = h.drops THEN Gone ELSE own[p]]
                BY <1>4, <1>9, <2>1, <2>6, <3>1 DEF Finish
            <3>3. w \in Writes
                BY <1>9, <2>1, <2>6, <3>1, HuPageAssumption
                   DEF Finish, CanWrite, Stamp, PageUpto, Counts, Writes
            <3>4. \A p \in HuProjects :
                    \/ edited'[p] = e[p] /\ mine'[p] = own[p]
                    \/ edited'[p] = Gone /\ mine'[p] = Gone
                    \/ edited'[p] # Gone /\ edited'[p].fields = mine'[p]
                       /\ mine'[p] \notin {AsIs, Gone}
                <4>1. CASE h.does = "saveProject"
                    <5>1. h.project \in HuProjects /\ e[h.project] # Gone
                        BY <2>1, <2>4, <4>1 DEF HandlerHolds
                    <5>2. PICK row : row = [fields |-> w,
                                            assets |-> e[h.project].assets \ {h.asset}]
                        OBVIOUS
                    <5>3. edited' = [e EXCEPT ![h.project] = row]
                        BY <2>2, <2>4, <3>1, <4>1, <5>2 DEF Made
                    <5>4. row \in ProjectRow
                        BY <3>3, <5>1, <5>2, RowOf DEF ProjectRow
                    <5>5. row # Gone /\ row.fields = w  BY <5>2, <5>4, HuPageAssumption
                    <5>6. h.drops = Gone
                        BY <2>1, <4>1 DEF HandlerHolds
                    <5> QED  BY <3>1, <3>2, <5>1, <5>3, <5>5, <5>6, HuPageAssumption DEF TreeUpto
                <4>2. CASE h.does # "saveProject"
                    <5>1. PICK row : row = [fields |-> w, assets |-> {}]  OBVIOUS
                    <5>2. edited' = [p \in HuProjects |->
                                        IF p = h.project THEN row
                                        ELSE IF p = h.drops THEN Gone ELSE e[p]]
                        BY <2>2, <2>4, <2>6, <3>1, <4>2, <5>1 DEF Made
                    <5>3. row \in ProjectRow  BY <3>3, <5>1 DEF ProjectRow
                    <5>4. row # Gone /\ row.fields = w  BY <5>1, <5>3, HuPageAssumption
                    <5> QED  BY <3>1, <3>2, <5>2, <5>4
                <4> QED  BY <4>1, <4>2
            <3>5. OwnKept(edited', base, mine')
                  /\ (OnlyOwn(e, base, own) => OnlyOwn(edited', base, mine'))
                BY <1>3, <1>4, <2>4, <3>4, OwnChange DEF OwnHold
            <3> QED  BY <1>1, <1>3, <1>4, <2>2, <2>4, <3>5 DEF OwnHold
        <2> QED  BY <2>5, <2>6
    <1>10. CASE FinishFails  BY <1>2, <1>10 DEF FinishFails, pageOnly
    <1> QED  BY <1>5, <1>6, <1>7, <1>8, <1>9, <1>10 DEF UserStep

LEMMA OwnByRest ==
    ASSUME NEW n \in Nat, counts.writes = n, PageUpto(n), CleanPage, OwnHold,
           SaveStep \/ PollStep \/ PeerStep
    PROVE  OwnHold'
PROOF
    <1>1. CASE UNCHANGED << edited, base, mine, folded >> /\ (straight' => straight)
        BY <1>1 DEF OwnHold
    <1>2. CASE edited' = base' /\ mine' = Untouched
        BY <1>2, NothingOwn DEF OwnHold
    <1>3. CASE SaveStep
        <2>1. CASE SaveChanges
            <3>1. CASE Changed(base, edited) = {}
                <4>1. \A p \in HuProjects : base[p] = edited[p]  BY <3>1 DEF Changed
                <4>2. edited = base  BY <4>1 DEF PageUpto, TreeUpto
                <4> QED  BY <1>2, <2>1, <3>1, <4>2 DEF SaveChanges
            <3>2. CASE Changed(base, edited) # {}  BY <1>1, <2>1, <3>2 DEF SaveChanges
            <3> QED  BY <3>1, <3>2
        <2>2. CASE PostSave \/ SaveFails  BY <1>1, <2>2 DEF PostSave, SaveFails, pageOnly
        <2>3. CASE SaveAnswered  BY <1>2, <2>3 DEF SaveAnswered
        <2> QED  BY <1>3, <2>1, <2>2, <2>3 DEF SaveStep
    <1>4. CASE Tick \/ Fetch  BY <1>1, <1>4 DEF Tick, Fetch
    <1>5. CASE FetchMisses  BY <1>5 DEF FetchMisses, OwnHold
    <1>6. CASE Apply
        <2>1. CASE ~ dirty
            <3>1. mine' = Untouched
                <4>1. \A p \in HuProjects : mine[p] = AsIs  BY <2>1 DEF CleanPage
                <4> QED  BY <1>6, <4>1, HuPageAssumption DEF Apply, Untouched
            <3> QED  BY <1>2, <1>6, <2>1, <3>1 DEF Apply
        <2>2. CASE dirty
            <3>1. PICK tree \in TreeUpto(n) : tree = poll.tree  BY DEF PageUpto, PollUpto
            <3>2. PICK e \in TreeUpto(n) : e = edited  BY DEF PageUpto
            <3>3. PICK own : own = mine  OBVIOUS
            <3>4. /\ base' = tree /\ edited' = FoldIn(e, tree) /\ folded'
                  /\ mine' = [p \in HuProjects |->
                                 IF own[p] = Gone /\ tree[p] # Gone THEN AsIs ELSE own[p]]
                BY <1>6, <2>2, <3>1, <3>2, <3>3 DEF Apply
            <3>5. straight' => straight  BY <1>6, <2>2 DEF Apply
            <3>6. SUFFICES ASSUME straight' PROVE OwnKept(edited', base', mine')
                BY <3>4 DEF OwnHold
            <3>7. OwnKept(e, base, own)  BY <3>2, <3>3, <3>5, <3>6 DEF OwnHold
            <3>8. ASSUME NEW p \in HuProjects, e[p] # Gone
                  PROVE  edited'[p] # Gone /\ edited'[p].fields = e[p].fields
                <4>1. CASE tree[p] # Gone /\ e[p].assets = {}
                    <5>1. edited'[p] = [e[p] EXCEPT !.assets = tree[p].assets]
                        BY <3>4, <3>8, <4>1 DEF FoldIn
                    <5>2. e[p] \in RowUpto(n) /\ tree[p].assets \subseteq HuAssets
                        BY <3>8, <4>1, RowOf
                    <5>3. edited'[p] \in RowUpto(n) /\ edited'[p].fields = e[p].fields
                        BY <5>1, <5>2 DEF RowUpto
                    <5>4. Gone \notin RowUpto(n)  BY RowsAreRows DEF PageUpto, Counts
                    <5> QED  BY <5>3, <5>4
                <4>2. CASE ~ (tree[p] # Gone /\ e[p].assets = {})
                    BY <3>4, <3>8, <4>2 DEF FoldIn
                <4> QED  BY <4>1, <4>2
            <3>9. ASSUME NEW p \in HuProjects, e[p] = Gone PROVE edited'[p] = tree[p]
                BY <3>4, <3>9 DEF FoldIn
            <3> QED  BY <3>4, <3>7, <3>8, <3>9, HuPageAssumption DEF OwnKept
        <2> QED  BY <2>1, <2>2
    <1>7. CASE PeerStep  BY <1>1, <1>7, PeerLeaves
    <1> QED  BY <1>3, <1>4, <1>5, <1>6, <1>7 DEF PollStep

-------------------------------------------------------------------------------
(* The theorems about the page *)

LEMMA PageStarts == PageInit => HuPageInv
PROOF
    <1> SUFFICES ASSUME PageInit PROVE HuPageInv  OBVIOUS
    <1>1. PageUpto(0) /\ counts.writes = 0  BY StartTypes
    <1>2. PageUpto(counts.writes)  BY <1>1
    <1>3. HandlerHolds  BY DEF PageInit, HandlerHolds, NoHandler
    <1>4. TimesHold  BY HuPageAssumption DEF PageInit, TimesHold, NoSave
    <1>5. CleanPage  BY DEF PageInit, CleanPage, Untouched, NoSave
    <1>6. PrintsHold  BY <1>1, PrintIs DEF PageInit, PrintsHold, NoPoll, PageUpto
    <1>7. CopiesHold  BY DEF PageInit, CopiesHold, NoPoll, Fresh
    <1>8. SentIs  BY DEF PageInit, SentIs, NoSave
    <1>9. OwnHold  BY NothingOwn DEF PageInit, OwnHold
    <1> QED  BY <1>2, <1>3, <1>4, <1>5, <1>6, <1>7, <1>8, <1>9 DEF HuPageInv

LEMMA PageGrowsByOne == \A k \in Nat : PageUpto(k) => PageUpto(k + 1)
BY PageGrows

LEMMA PageSteps == HuPageInv /\ [PageNext]_pageVars => HuPageInv'
PROOF
    <1> SUFFICES ASSUME HuPageInv, [PageNext]_pageVars PROVE HuPageInv'  OBVIOUS
    <1>1. PICK n \in Nat : n = counts.writes
        BY HuPageAssumption DEF HuPageInv, PageUpto, Counts, Writes
    <1>2. PageUpto(n) /\ counts.writes = n  BY <1>1 DEF HuPageInv
    <1>3. HandlerHolds /\ TimesHold /\ CleanPage /\ PrintsHold /\ CopiesHold /\ SentIs /\ OwnHold
        BY DEF HuPageInv
    <1>4. CASE UNCHANGED pageVars
        BY <1>3, <1>4 DEF HuPageInv, pageVars, PageUpto, HandlerHolds, TimesHold, CleanPage,
           PrintsHold, CopiesHold, Noticed, SentIs, OwnHold
    <1>5. CASE PageNext
        <2>1. PageUpto(counts.writes)'
            <3>1. UserStep \/ PeerStep
                    => PageUpto(n)' \/ (counts.writes' = n + 1 /\ PageUpto(n + 1)')
                BY <1>2, <1>3, UserTypes, PeerTypes
            <3>2. SaveStep \/ PollStep => PageUpto(n)'
                BY <1>2, <1>3, SaveTypes, PollTypes
            <3>3. counts.writes' \in {n, n + 1}
                <4>1. counts' = counts \/ Wrote \/ Starts \/ PeerStep
                    BY <1>5 DEF PageNext, UserStep, EditProject, DeleteProject, Asks,
                       AskNewProject, AskNewAsset, AskSaveProject, AskMassUpdate, Await, Cancel,
                       Finish, FinishFails, SaveStep, SaveChanges, PostSave, SaveAnswered,
                       SaveFails, PollStep, Tick, Fetch, FetchMisses, Apply
                <4>2. PeerStep => counts.writes' \in {n, n + 1}
                    BY <1>2 DEF PeerStep, PeerWrites, PeerDeletes, PeerSaves, PageUpto, Counts
                <4> QED  BY <1>2, <4>1, <4>2 DEF Wrote, Starts, PageUpto, Counts
            <3>4. (\A k \in Nat : PageUpto(k) => PageUpto(k + 1))'  BY PageGrowsByOne, PTL
            <3>5. PageUpto(n)' => PageUpto(n + 1)'  BY <3>4
            <3> QED  BY <1>5, <3>1, <3>2, <3>3, <3>5 DEF PageNext
        <2>2. touchedAt' \in [HuProjects -> Times]  BY <2>1 DEF PageUpto
        <2>3. HandlerHolds'  BY <1>2, <1>3, <1>5, HandlersHold
        <2>4. TimesHold'  BY <1>2, <1>3, <1>5, <2>2, TimesStillHold
        <2>5. CleanPage'  BY <1>2, <1>3, <1>5, CleanStaysClean
        <2>6. PrintsHold'  BY <1>2, <1>3, <1>5, <2>2, PrintsStillHold
        <2>7. CopiesHold'  BY <1>2, <1>3, <1>5, CopiesStillHold
        <2>8. SentIs'  BY <1>2, <1>3, <1>5, SentStays
        <2>9. OwnHold'  BY <1>2, <1>3, <1>5, OwnByUser, OwnByRest DEF PageNext
        <2> QED  BY <2>1, <2>3, <2>4, <2>5, <2>6, <2>7, <2>8, <2>9 DEF HuPageInv
    <1> QED  BY <1>4, <1>5

LEMMA PageHolds == PageSpec => []HuPageInv
BY PageStarts, PageSteps, PTL DEF PageSpec

\* The copies, the handlers, the save and the poll have their types: a save leaves the
\* database no row that it did not have, though it sends another copy than the page shows.
THEOREM PageTypes == PageSpec => []PageTypeOK
PROOF
    <1>1. HuPageInv => PageTypeOK
        <2>1. SUFFICES ASSUME HuPageInv PROVE PageTypeOK  OBVIOUS
        <2>2. PICK n \in Writes : n = counts.writes  BY <2>1 DEF HuPageInv, PageUpto, Counts
        <2>3. PageUpto(n)  BY <2>1, <2>2 DEF HuPageInv
        <2>4. RowUpto(n) \subseteq ProjectRow /\ 0..n \subseteq Writes  BY RowsAreRows
        <2>5. TreeUpto(n) \subseteq Tree  BY <2>4 DEF TreeUpto, Tree
        <2>6. server \in Tree /\ edited \in Tree /\ base \in Tree  BY <2>3, <2>5 DEF PageUpto
        <2>7. poll \in Poll  BY <2>3, <2>5 DEF PageUpto, PollUpto, Poll
        <2>8. handler \in Handler  BY <2>3, <2>5 DEF PageUpto, HandlerUpto, Handler
        <2>9. save \in Saving  BY <2>3, <2>5 DEF PageUpto, SavingUpto, Saving
        <2>10. mine \in [HuProjects -> Writes \cup {Gone, AsIs}]  BY <2>3, <2>4 DEF PageUpto
        <2> QED  BY <2>3, <2>6, <2>7, <2>8, <2>9, <2>10 DEF PageUpto, PageTypeOK, Counts
    <1> QED  BY <1>1, PageHolds, PTL

\* Unless a refresh or another answer came in between of a handler or save and its
\* answer, the page has every change the user made, its next save deletes nothing that
\* others created, and before a refresh is folded in it sends nothing he did not change
\* (handleSave, applyPageBundle, mergeRemotePeersPreservingLocalEdits).
THEOREM EditsKept == PageSpec => []EditsStay
PROOF
    <1>1. HuPageInv => EditsStay
        <2>1. SUFFICES ASSUME HuPageInv, straight PROVE EditsStay  BY DEF EditsStay
        <2>2. OwnKept(edited, base, mine) /\ (~ folded => OnlyOwn(edited, base, mine))
            BY <2>1 DEF HuPageInv, OwnHold
        <2>3. \A p \in Own : IF mine[p] = Gone THEN edited[p] = Gone
                             ELSE edited[p] # Gone /\ edited[p].fields = mine[p]
            BY <2>2 DEF Own, OwnKept
        <2>4. \A p \in Deleted(base, edited) : mine[p] = Gone
            BY <2>2 DEF Deleted, Listed, OwnKept
        <2>5. ~ folded => \A p \in Changed(base, edited) :
                              p \in Own \/ edited[p].fields = base[p].fields
            BY <2>2 DEF Changed, Own, OnlyOwn
        <2> QED  BY <2>3, <2>4, <2>5 DEF EditsStay
    <1> QED  BY <1>1, PageHolds, PTL

\* A clean page whose fingerprint is the server's shows the fields of every project as
\* the server has them (getHuSyncStamp, tick): the ids and the latest updated_at of the
\* rows are enough to notice what others wrote, unless a fetch missed or came in
\* between of a save.
THEOREM NotedShown == PageSpec => []NotedIsShown
PROOF
    <1>1. HuPageInv => NotedIsShown
        <2>1. SUFFICES ASSUME HuPageInv, straight, ~ dirty, poll.at = "idle",
                              known = ServerPrint, Listed(edited) = Listed(server),
                              NEW p \in Listed(server)
                       PROVE  edited[p].fields = server[p].fields
            BY DEF NotedIsShown
        <2>2. touchedAt \in [HuProjects -> Times]  BY <2>1 DEF HuPageInv, PageUpto
        <2>3. PICK k \in Nat : k = known.latest /\ touchedAt[p] <= k /\ known # Gone
            BY <2>1, <2>2, PrintIs
        <2>4. Fresh(server, touchedAt, base, k)
            BY <2>1, <2>3 DEF HuPageInv, CopiesHold, Noticed
        <2>5. edited = base  BY <2>1 DEF HuPageInv, CleanPage
        <2>6. p \in HuProjects /\ server[p] # Gone /\ edited[p] # Gone
            BY <2>1 DEF Listed
        <2>7. touchedAt[p] \in Nat  BY <2>2, <2>6, TimesAre
        <2> QED  BY <2>3, <2>4, <2>5, <2>6, <2>7 DEF Fresh
    <1> QED  BY <1>1, PageHolds, PTL

-------------------------------------------------------------------------------
(* RateLimiter *)

\* What is known of the hits a of a key, at t, when its bucket is b.  The hits
\* counted came since the window began, those before came before, and those a limit
\* further back were over a window old when it began.
BucketHolds(b, a, t) ==
    IF b = NoBucket THEN \A i \in 1..Len(a) - Limit : a[i] + Window <= t
    ELSE /\ b.count \in 1..Limit /\ b.count <= Len(a)
         /\ b.resetAt <= t + Window
         /\ \A i \in Len(a) - b.count + 1..Len(a) : a[i] + Window >= b.resetAt
         /\ \A i \in 1..Len(a) - b.count : a[i] + Window <= b.resetAt
         /\ \A i \in 1..Len(a) - b.count - Limit : a[i] + 2 * Window <= b.resetAt

Past(a, t) == \A i \in 1..Len(a) : a[i] <= t

\* TwiceTheLimit, of the hits of one key.
Spread(a) ==
    \A i \in 1..Len(a) : i + 2 * Limit <= Len(a) => a[i + 2 * Limit] >= a[i] + Window

\* RefusedForCause, of a hit refused at t after n of the hits a.
Cause(a, t, n) == /\ n \in Limit..Len(a)
                  /\ a[n - Limit + 1] + Window > t

LimiterInv ==
    /\ LimiterTypeOK
    /\ \A k \in Keys : /\ BucketHolds(buckets[k], allowed[k], time)
                       /\ Past(allowed[k], time)
                       /\ Spread(allowed[k])
    /\ refused # NoBucket => Cause(allowed[refused.key], refused.at, refused.after)

-------------------------------------------------------------------------------
(* The data. *)

\* What a bucket tells stays true as time passes.
LEMMA HoldsLater ==
    ASSUME NEW b \in Bucket \cup {NoBucket}, NEW a \in Seq(Nat), NEW t \in Nat,
           NEW u \in Nat, t <= u, BucketHolds(b, a, t)
    PROVE  BucketHolds(b, a, u)
BY RateLimiterAssumption DEF BucketHolds, Bucket

\* A bucket that has expired tells as much as none.
LEMMA HoldsWithout ==
    ASSUME NEW b \in Bucket, NEW a \in Seq(Nat), NEW t \in Nat, b.resetAt <= t,
           BucketHolds(b, a, t)
    PROVE  BucketHolds(NoBucket, a, t)
PROOF
<1>1. b # NoBucket
  BY RateLimiterAssumption DEF Bucket
<1>2. Len(a) \in Nat /\ b.count \in 1..Limit /\ b.resetAt \in Nat
  BY <1>1 DEF BucketHolds, Bucket
<1>3. ASSUME NEW i \in 1..Len(a) - Limit
      PROVE  a[i] + Window <= t
  <2>1. i \in 1..Len(a) - b.count /\ a[i] \in Nat
    BY <1>2, RateLimiterAssumption
  <2>2. a[i] + Window <= b.resetAt
    BY <1>1, <2>1 DEF BucketHolds
  <2> QED  BY <1>2, <2>1, <2>2, RateLimiterAssumption
<1> QED  BY <1>3 DEF BucketHolds

\* One hit more.
LEMMA Longer ==
    ASSUME NEW a \in Seq(Nat), NEW t \in Nat
    PROVE  /\ Append(a, t) \in Seq(Nat)
           /\ Len(a) \in Nat /\ Len(Append(a, t)) = Len(a) + 1
           /\ Append(a, t)[Len(a) + 1] = t
           /\ \A i \in 1..Len(a) : a[i] \in Nat /\ Append(a, t)[i] = a[i]
OBVIOUS

LEMMA PastLonger ==
    ASSUME NEW a \in Seq(Nat), NEW t \in Nat, Past(a, t)
    PROVE  Past(Append(a, t), t)
BY Longer DEF Past

\* The same, for c with what was known of a, in terms of its length n.
Grown(a, c, n, t) ==
    /\ n \in Nat /\ Len(a) = n /\ Len(c) = n + 1 /\ c[n + 1] = t
    /\ \A i \in 1..n : a[i] \in Nat /\ c[i] \in Nat /\ c[i] = a[i]

LEMMA AppendGrows ==
    ASSUME NEW a \in Seq(Nat), NEW t \in Nat
    PROVE  Grown(a, Append(a, t), Len(a), t)
BY Longer DEF Grown

\* The hit added keeps its distance, if those two limits back keep theirs from it.
LEMMA SpreadGrows ==
    ASSUME NEW a, NEW c, NEW n, NEW t \in Nat, Grown(a, c, n, t), Spread(a),
           \A i \in 1..n : i + 2 * Limit = n + 1 => t >= a[i] + Window
    PROVE  Spread(c)
PROOF
<1> SUFFICES ASSUME NEW i \in 1..n + 1, i + 2 * Limit <= n + 1
             PROVE  c[i + 2 * Limit] >= c[i] + Window
  BY DEF Spread, Grown
<1> DEFINE L == 2 * Limit
<1>1. /\ Limit \in Nat /\ Limit > 0 /\ Window \in Nat
      /\ L \in Nat /\ L > 0 /\ n \in Nat
  BY RateLimiterAssumption DEF Grown
<1>2. i + L <= n + 1 /\ i \in Nat
  BY <1>1
<1> HIDE DEF L
<1>3. i \in 1..n
  BY <1>1, <1>2
<1>4. CASE i + L = n + 1
  <2>1. t >= a[i] + Window
    BY <1>3, <1>4 DEF L
  <2> QED  BY <1>3, <1>4, <2>1 DEF Grown, L
<1>5. CASE i + L <= n
  <2>1. a[i + L] >= a[i] + Window
    BY <1>3, <1>5 DEF Spread, Grown, L
  <2>2. i + L \in 1..n
    BY <1>1, <1>3, <1>5
  <2> QED  BY <1>3, <2>1, <2>2 DEF Grown, L
<1> QED  BY <1>1, <1>2, <1>4, <1>5

\* A window opens: nothing is counted in it but the hit that opened it.
LEMMA HoldsOpened ==
    ASSUME NEW a, NEW c, NEW n, NEW t \in Nat, Grown(a, c, n, t), Past(a, t),
           BucketHolds(NoBucket, a, t),
           NEW b \in Bucket, b.count = 1, b.resetAt = t + Window
    PROVE  BucketHolds(b, c, t)
PROOF
<1>1. /\ b # NoBucket /\ n \in Nat
      /\ Window \in Nat /\ Limit \in Nat /\ Limit > 0
  BY RateLimiterAssumption DEF Grown, Bucket
<1>2. \A i \in 1..n : c[i] \in Nat /\ c[i] <= t
  BY DEF Past, Grown
<1>3. \A i \in 1..n - Limit : c[i] \in Nat /\ c[i] + Window <= t
  <2> TAKE i \in 1..n - Limit
  <2>1. i \in 1..n
    BY <1>1
  <2> QED  BY <1>1, <2>1 DEF BucketHolds, Grown
<1>4. Len(c) = n + 1 /\ c[n + 1] = t
  BY DEF Grown
<1>5. b.count \in 1..Limit /\ b.count <= Len(c) /\ b.resetAt <= t + Window
  BY <1>1, <1>4
<1>6. \A i \in Len(c) - b.count + 1..Len(c) : c[i] + Window >= b.resetAt
  BY <1>1, <1>4
<1>7. \A i \in 1..Len(c) - b.count : c[i] + Window <= b.resetAt
  BY <1>1, <1>2, <1>4
<1>8. \A i \in 1..Len(c) - b.count - Limit : c[i] + 2 * Window <= b.resetAt
  <2> TAKE i \in 1..Len(c) - b.count - Limit
  <2>1. i \in 1..n - Limit
    BY <1>1, <1>4
  <2> QED  BY <1>1, <1>3, <2>1
<1> QED  BY <1>1, <1>5, <1>6, <1>7, <1>8 DEF BucketHolds

\* A window that still runs counts one hit more.
LEMMA HoldsCounted ==
    ASSUME NEW a, NEW c, NEW n, NEW t \in Nat, Grown(a, c, n, t),
           NEW b \in Bucket, BucketHolds(b, a, t), b.count + 1 <= Limit, b.resetAt > t,
           NEW d \in Bucket, d.count = b.count + 1, d.resetAt = b.resetAt
    PROVE  BucketHolds(d, c, t)
PROOF
<1>1. /\ b # NoBucket /\ d # NoBucket /\ n \in Nat
      /\ b.count \in Nat /\ b.resetAt \in Nat
      /\ Window \in Nat /\ Limit \in Nat /\ Limit > 0
  BY RateLimiterAssumption DEF Grown, Bucket
<1>2. Len(a) = n /\ Len(c) = n + 1 /\ c[n + 1] = t
  BY DEF Grown
<1>3. b.count >= 1 /\ b.count <= n /\ b.resetAt <= t + Window
  BY <1>1, <1>2 DEF BucketHolds
<1>4. d.count \in 1..Limit /\ d.count <= Len(c) /\ d.resetAt <= t + Window
  BY <1>1, <1>2, <1>3
<1>5. \A i \in Len(c) - d.count + 1..Len(c) : c[i] + Window >= d.resetAt
  <2> TAKE i \in Len(c) - d.count + 1..Len(c)
  <2>1. CASE i = n + 1
    BY <1>1, <1>2, <1>3, <2>1
  <2>2. CASE i # n + 1
    <3>1. i \in n - b.count + 1..n /\ i \in 1..n
      BY <1>1, <1>2, <1>3, <2>2
    <3> QED  BY <1>1, <1>2, <3>1 DEF BucketHolds, Grown
  <2> QED  BY <2>1, <2>2
<1>6. \A i \in 1..Len(c) - d.count : c[i] + Window <= d.resetAt
  <2> TAKE i \in 1..Len(c) - d.count
  <2>1. i \in 1..n - b.count /\ i \in 1..n
    BY <1>1, <1>2, <1>3
  <2> QED  BY <1>1, <1>2, <2>1 DEF BucketHolds, Grown
<1>7. \A i \in 1..Len(c) - d.count - Limit : c[i] + 2 * Window <= d.resetAt
  <2> TAKE i \in 1..Len(c) - d.count - Limit
  <2>1. i \in 1..n - b.count - Limit /\ i \in 1..n
    BY <1>1, <1>2, <1>3
  <2> QED  BY <1>1, <1>2, <2>1 DEF BucketHolds, Grown
<1> QED  BY <1>1, <1>4, <1>5, <1>6, <1>7 DEF BucketHolds

\* The distance SpreadGrows asks for: a window that is not full began long enough
\* after the hits two limits back.
LEMMA WindowApart ==
    ASSUME NEW a, NEW n \in Nat, Len(a) = n, \A i \in 1..n : a[i] \in Nat,
           NEW t \in Nat, NEW b \in Bucket, BucketHolds(b, a, t), b.count + 1 <= Limit
    PROVE  \A i \in 1..n : i + 2 * Limit = n + 1 => t >= a[i] + Window
PROOF
<1>1. /\ b # NoBucket /\ b.count \in Nat /\ b.resetAt \in Nat
      /\ Limit \in Nat /\ Window \in Nat
  BY RateLimiterAssumption DEF Bucket
<1>2. /\ b.resetAt <= t + Window
      /\ \A i \in 1..n - b.count - Limit : a[i] + 2 * Window <= b.resetAt
  BY <1>1 DEF BucketHolds
<1> SUFFICES ASSUME NEW i \in 1..n, i + 2 * Limit = n + 1
             PROVE  t >= a[i] + Window
  OBVIOUS
<1>3. i <= n - b.count - Limit
  BY <1>1
<1>4. a[i] + 2 * Window <= b.resetAt /\ a[i] \in Nat
  BY <1>1, <1>2, <1>3
<1> QED  BY <1>1, <1>2, <1>4

\* A full window is cause to refuse.
LEMMA FullIsCause ==
    ASSUME NEW a, NEW n \in Nat, Len(a) = n, \A i \in 1..n : a[i] \in Nat,
           NEW t \in Nat, NEW b \in Bucket, BucketHolds(b, a, t),
           b.count >= Limit, b.resetAt > t
    PROVE  Cause(a, t, n)
PROOF
<1>1. /\ b # NoBucket /\ b.count \in Nat /\ b.resetAt \in Nat
      /\ Limit \in Nat /\ Limit > 0 /\ Window \in Nat
  BY RateLimiterAssumption DEF Bucket
<1>2. b.count = Limit /\ Limit <= n
  BY <1>1 DEF BucketHolds
<1>3. \A i \in n - b.count + 1..n : a[i] + Window >= b.resetAt
  BY <1>1 DEF BucketHolds
<1>4. n - Limit + 1 \in n - b.count + 1..n /\ n - Limit + 1 \in 1..n
  BY <1>1, <1>2
<1>5. a[n - Limit + 1] + Window >= b.resetAt /\ a[n - Limit + 1] \in Nat
  BY <1>3, <1>4
<1> QED  BY <1>1, <1>2, <1>5 DEF Cause

\* Why a hit was refused does not change with later hits.
LEMMA CauseStays ==
    ASSUME NEW a \in Seq(Nat), NEW t \in Nat, NEW u \in Nat, NEW n \in Nat, Cause(a, t, n)
    PROVE  Cause(Append(a, u), t, n)
PROOF
<1>1. n \in Limit..Len(a) /\ n - Limit + 1 \in 1..Len(a)
  BY RateLimiterAssumption DEF Cause
<1> QED  BY <1>1, Longer, RateLimiterAssumption DEF Cause

-------------------------------------------------------------------------------
(* The steps. *)

LEMMA PruneHolds ==
    ASSUME NEW map \in [Keys -> Bucket \cup {NoBucket}], time \in Nat,
           NEW k \in Keys, NEW a \in Seq(Nat), BucketHolds(map[k], a, time)
    PROVE  BucketHolds(Prune(map)[k], a, time)
PROOF
<1>1. Prune(map)[k] = map[k] \/ /\ Prune(map)[k] = NoBucket
                                /\ map[k] # NoBucket /\ map[k].resetAt <= time
  BY DEF Prune, Expired
<1>2. map[k] # NoBucket => map[k] \in Bucket
  OBVIOUS
<1> QED  BY <1>1, <1>2, HoldsWithout

LEMMA PruneTyped ==
    ASSUME NEW map \in [Keys -> Bucket \cup {NoBucket}]
    PROVE  Prune(map) \in [Keys -> Bucket \cup {NoBucket}]
BY DEF Prune

\* The bucket of the next hit is the one there is, or one just opened.
LEMMA CurrentCases ==
    ASSUME LimiterTypeOK, NEW k \in Keys
    PROVE  /\ Current(k) \in Bucket /\ Counted(k) \in Bucket
           /\ Counted(k).count = Current(k).count + 1
           /\ Counted(k).resetAt = Current(k).resetAt
           /\ \/ /\ buckets[k] \in Bucket /\ buckets[k].resetAt > time
                 /\ Current(k) = buckets[k]
              \/ /\ \/ buckets[k] = NoBucket
                    \/ buckets[k] \in Bucket /\ buckets[k].resetAt <= time
                 /\ Current(k).count = 0 /\ Current(k).resetAt = time + Window
PROOF
<1>1. Window \in Nat /\ time \in Nat /\ buckets[k] \in Bucket \cup {NoBucket}
  BY RateLimiterAssumption DEF LimiterTypeOK
<1>2. Opened \in Bucket /\ Opened.count = 0 /\ Opened.resetAt = time + Window
  BY <1>1 DEF Opened, Bucket
<1>3. CASE buckets[k] # NoBucket /\ buckets[k].resetAt > time
  <2>1. buckets[k] \in Bucket /\ buckets[k].resetAt \in Nat
    BY <1>1, <1>3 DEF Bucket
  <2>2. Current(k) = buckets[k]
    BY <1>1, <1>3, <2>1 DEF Current, Expired
  <2> QED  BY <1>3, <2>1, <2>2 DEF Counted, Bucket
<1>4. CASE ~(buckets[k] # NoBucket /\ buckets[k].resetAt > time)
  <2>1. \/ buckets[k] = NoBucket
        \/ buckets[k] \in Bucket /\ buckets[k].resetAt <= time
    BY <1>1, <1>4 DEF Bucket
  <2>2. Current(k) = Opened
    BY <2>1 DEF Current, Expired
  <2> QED  BY <1>2, <2>1, <2>2 DEF Counted, Bucket
<1> QED  BY <1>3, <1>4

LEMMA LimiterStart == LimiterInit => LimiterInv
PROOF
<1> SUFFICES ASSUME LimiterInit PROVE LimiterInv
  OBVIOUS
<1>1. LimiterTypeOK
  BY DEF LimiterInit, LimiterTypeOK
<1>2. ASSUME NEW k \in Keys
      PROVE  /\ BucketHolds(buckets[k], allowed[k], time)
             /\ Past(allowed[k], time) /\ Spread(allowed[k])
  <2>1. buckets[k] = NoBucket /\ allowed[k] = << >> /\ Len(allowed[k]) = 0
    BY DEF LimiterInit
  <2>2. BucketHolds(buckets[k], allowed[k], time)
    BY <2>1, RateLimiterAssumption DEF BucketHolds
  <2>3. Past(allowed[k], time) /\ Spread(allowed[k])
    BY <2>1 DEF Past, Spread
  <2> QED  BY <2>2, <2>3
<1>3. refused = NoBucket
  BY DEF LimiterInit
<1> QED  BY <1>1, <1>2, <1>3 DEF LimiterInv

\* What the invariant says of one key.
KeyHolds(k) == /\ BucketHolds(buckets[k], allowed[k], time)
               /\ Past(allowed[k], time)
               /\ Spread(allowed[k])

LEMMA AllowKeeps ==
    ASSUME LimiterInv, NEW k \in Keys, Allow(k)
    PROVE  LimiterInv'
PROOF
<1> DEFINE a == allowed[k]
           c == Append(allowed[k], time)
           n == Len(allowed[k])
           map == [buckets EXCEPT ![k] = Counted(k)]
<1>1. /\ LimiterTypeOK /\ time \in Nat /\ time' = time /\ a \in Seq(Nat) /\ n \in Nat
      /\ Window \in Nat /\ Limit \in Nat /\ Limit > 0
  BY RateLimiterAssumption DEF LimiterInv, LimiterTypeOK, Allow
<1>2. BucketHolds(buckets[k], a, time) /\ Past(a, time) /\ Spread(a)
  BY DEF LimiterInv
<1>3. Grown(a, c, n, time) /\ c \in Seq(Nat)
  BY <1>1, AppendGrows, Longer
<1>4. /\ Counted(k).count <= Limit
      /\ buckets' = Prune(map) /\ allowed' = [allowed EXCEPT ![k] = c]
      /\ atEdge' = atEdge /\ refused' = refused
  BY DEF Allow
<1>5. map \in [Keys -> Bucket \cup {NoBucket}] /\ map[k] = Counted(k)
  BY <1>1, CurrentCases DEF LimiterTypeOK
<1>6. LimiterTypeOK'
  BY <1>1, <1>3, <1>4, <1>5, PruneTyped DEF LimiterTypeOK
<1>7. BucketHolds(Counted(k), c, time) /\ Spread(c)
  <2>1. CASE /\ buckets[k] \in Bucket /\ buckets[k].resetAt > time
             /\ Current(k) = buckets[k]
    <3>1. /\ Counted(k) \in Bucket /\ Counted(k).count = buckets[k].count + 1
          /\ Counted(k).resetAt = buckets[k].resetAt
      BY <1>1, <2>1, CurrentCases
    <3>2. BucketHolds(Counted(k), c, time)
      BY <1>1, <1>2, <1>3, <1>4, <2>1, <3>1, HoldsCounted
    <3>3. \A i \in 1..n : i + 2 * Limit = n + 1 => time >= a[i] + Window
      BY <1>1, <1>2, <1>3, <1>4, <2>1, <3>1, WindowApart DEF Grown
    <3> QED  BY <1>1, <1>2, <1>3, <3>2, <3>3, SpreadGrows
  <2>2. CASE /\ \/ buckets[k] = NoBucket
                \/ buckets[k] \in Bucket /\ buckets[k].resetAt <= time
             /\ Current(k).count = 0 /\ Current(k).resetAt = time + Window
    <3>1. /\ Counted(k) \in Bucket /\ Counted(k).count = 1
          /\ Counted(k).resetAt = time + Window
      BY <1>1, <2>2, CurrentCases
    <3>2. BucketHolds(NoBucket, a, time)
      BY <1>1, <1>2, <2>2, HoldsWithout
    <3>3. BucketHolds(Counted(k), c, time)
      BY <1>1, <1>2, <1>3, <3>1, <3>2, HoldsOpened
    <3>4. ASSUME NEW i \in 1..n, i + 2 * Limit = n + 1
          PROVE  time >= a[i] + Window
      <4>1. i \in 1..n - Limit
        BY <1>1, <3>4
      <4>2. a[i] \in Nat
        BY <1>3 DEF Grown
      <4> QED  BY <1>1, <3>2, <4>1, <4>2 DEF BucketHolds
    <3> QED  BY <1>1, <1>2, <1>3, <3>3, <3>4, SpreadGrows
  <2> QED  BY <1>1, <2>1, <2>2, CurrentCases
<1>8. ASSUME NEW j \in Keys
      PROVE  KeyHolds(j)'
  <2>1. CASE j = k
    <3>1. allowed'[k] = c
      BY <1>1, <1>4 DEF LimiterTypeOK
    <3>2. BucketHolds(Prune(map)[k], c, time)
      BY <1>1, <1>3, <1>5, <1>7, PruneHolds
    <3>3. Past(c, time)
      BY <1>1, <1>2, PastLonger
    <3> QED  BY <1>1, <1>4, <1>7, <2>1, <3>1, <3>2, <3>3 DEF KeyHolds
  <2>2. CASE j # k
    <3>1. allowed'[j] = allowed[j] /\ map[j] = buckets[j] /\ allowed[j] \in Seq(Nat)
      BY <1>1, <1>4, <2>2 DEF LimiterTypeOK
    <3>2. BucketHolds(buckets[j], allowed[j], time)
      BY DEF LimiterInv
    <3>3. BucketHolds(Prune(map)[j], allowed[j], time)
      BY <1>1, <1>5, <3>1, <3>2, PruneHolds
    <3> QED  BY <1>1, <1>4, <3>1, <3>3 DEF KeyHolds, LimiterInv
  <2> QED  BY <2>1, <2>2
<1>9. ASSUME refused # NoBucket
      PROVE  Cause(allowed'[refused.key], refused.at, refused.after)
  <2>1. /\ refused \in [key : Keys, at : Nat, after : Nat]
        /\ Cause(allowed[refused.key], refused.at, refused.after)
    BY <1>1, <1>9 DEF LimiterInv, LimiterTypeOK
  <2>2. CASE refused.key = k
    <3>1. allowed'[refused.key] = c
      BY <1>1, <1>4, <2>2 DEF LimiterTypeOK
    <3> QED  BY <1>1, <2>1, <2>2, <3>1, CauseStays
  <2>3. CASE refused.key # k
    BY <1>1, <1>4, <2>1, <2>3 DEF LimiterTypeOK
  <2> QED  BY <2>2, <2>3
<1> QED  BY <1>4, <1>6, <1>8, <1>9 DEF LimiterInv, KeyHolds

LEMMA RefuseKeeps ==
    ASSUME LimiterInv, NEW k \in Keys, Refuse(k)
    PROVE  LimiterInv'
PROOF
<1> DEFINE a == allowed[k]
           n == Len(allowed[k])
<1>1. /\ LimiterTypeOK /\ time \in Nat /\ time' = time /\ a \in Seq(Nat) /\ n \in Nat
      /\ Window \in Nat /\ Limit \in Nat /\ Limit > 0
  BY RateLimiterAssumption DEF LimiterInv, LimiterTypeOK, Refuse
<1>2. /\ Counted(k).count > Limit
      /\ buckets' = Prune([buckets EXCEPT ![k] = Current(k)])
      /\ refused' = [key |-> k, at |-> time, after |-> n]
      /\ atEdge' = atEdge /\ allowed' = allowed
  BY DEF Refuse
<1>3. buckets[k] \in Bucket /\ buckets[k].resetAt > time /\ Current(k) = buckets[k]
  BY <1>1, <1>2, CurrentCases DEF Bucket
<1>4. buckets' = Prune(buckets)
  BY <1>1, <1>2, <1>3 DEF LimiterTypeOK
<1>5. LimiterTypeOK'
  BY <1>1, <1>2, <1>4, PruneTyped DEF LimiterTypeOK
<1>6. Cause(a, time, n)
  <2>1. BucketHolds(buckets[k], a, time) /\ \A i \in 1..n : a[i] \in Nat
    BY <1>1 DEF LimiterInv
  <2>2. buckets[k].count >= Limit
    BY <1>1, <1>2, <1>3, CurrentCases DEF Bucket
  <2> QED  BY <1>1, <1>3, <2>1, <2>2, FullIsCause
<1>7. ASSUME NEW j \in Keys
      PROVE  KeyHolds(j)'
  <2>1. allowed[j] \in Seq(Nat) /\ BucketHolds(buckets[j], allowed[j], time)
    BY <1>1 DEF LimiterInv, LimiterTypeOK
  <2>2. BucketHolds(Prune(buckets)[j], allowed[j], time)
    BY <1>1, <2>1, PruneHolds DEF LimiterTypeOK
  <2> QED  BY <1>1, <1>2, <1>4, <2>2 DEF KeyHolds, LimiterInv
<1>8. Cause(allowed'[refused'.key], refused'.at, refused'.after)
  BY <1>2, <1>6
<1> QED  BY <1>5, <1>7, <1>8 DEF LimiterInv, KeyHolds

LEMMA TickKeeps ==
    ASSUME LimiterInv, LimiterTick
    PROVE  LimiterInv'
PROOF
<1>1. /\ LimiterTypeOK /\ time \in Nat /\ time' = time + 1
      /\ atEdge' = atEdge /\ buckets' = buckets /\ allowed' = allowed
      /\ refused' = refused
  BY DEF LimiterInv, LimiterTypeOK, LimiterTick
<1>2. LimiterTypeOK'
  BY <1>1 DEF LimiterTypeOK
<1>3. ASSUME NEW j \in Keys
      PROVE  KeyHolds(j)'
  <2>1. /\ allowed[j] \in Seq(Nat) /\ buckets[j] \in Bucket \cup {NoBucket}
        /\ BucketHolds(buckets[j], allowed[j], time) /\ Past(allowed[j], time)
        /\ Spread(allowed[j])
    BY <1>1 DEF LimiterInv, LimiterTypeOK
  <2>2. BucketHolds(buckets[j], allowed[j], time + 1)
    BY <1>1, <2>1, HoldsLater
  <2>3. Past(allowed[j], time + 1)
    BY <1>1, <2>1 DEF Past
  <2> QED  BY <1>1, <2>1, <2>2, <2>3 DEF KeyHolds
<1> QED  BY <1>1, <1>2, <1>3 DEF LimiterInv, KeyHolds

LEMMA LimiterInvariant == LimiterSpec => []LimiterInv
PROOF
<1>1. LimiterInv /\ [LimiterNext]_limiterVars => LimiterInv'
  <2> SUFFICES ASSUME LimiterInv, [LimiterNext]_limiterVars PROVE LimiterInv'
    OBVIOUS
  <2>1. CASE \E k \in Keys : Allow(k) \/ Refuse(k)
    BY <2>1, AllowKeeps, RefuseKeeps
  <2>2. CASE LimiterTick
    BY <2>2, TickKeeps
  <2>3. CASE UNCHANGED limiterVars
    BY <2>3 DEF limiterVars, LimiterInv, LimiterTypeOK
  <2> QED  BY <2>1, <2>2, <2>3 DEF LimiterNext
<1> QED  BY LimiterStart, <1>1, PTL DEF LimiterSpec

-------------------------------------------------------------------------------
(* The theorems. *)

\* The limiters' buckets and clocks keep their types (checkEdgeRateLimit,
\* AuthRateLimiterService).
THEOREM LimiterTyped == LimiterSpec => []LimiterTypeOK
PROOF
<1>1. LimiterInv => LimiterTypeOK
  BY DEF LimiterInv
<1> QED  BY <1>1, LimiterInvariant, PTL

\* In less than a window never more than twice the limit is let through, for any
\* limit and window, at the edge with its pruning as in the backend.
THEOREM NeverMoreThanTwice == LimiterSpec => []TwiceTheLimit
PROOF
<1>1. LimiterInv => TwiceTheLimit
  <2> SUFFICES ASSUME LimiterInv, NEW k \in Keys, NEW i \in DOMAIN allowed[k],
                      i + 2 * Limit \in DOMAIN allowed[k]
               PROVE  allowed[k][i + 2 * Limit] >= allowed[k][i] + Window
    BY DEF TwiceTheLimit
  <2>1. allowed[k] \in Seq(Nat) /\ Spread(allowed[k])
    BY DEF LimiterInv, LimiterTypeOK
  <2>2. DOMAIN allowed[k] = 1..Len(allowed[k]) /\ Len(allowed[k]) \in Nat
    BY <2>1
  <2>3. i + 2 * Limit <= Len(allowed[k])
    BY <2>2
  <2> QED  BY <2>1, <2>2, <2>3 DEF Spread
<1> QED  BY <1>1, LimiterInvariant, PTL

\* No client is refused for hits that were refused: only for as many as the limit
\* let through less than a window before, and a bucket that was pruned is no cause.
THEOREM RefusedOnlyForCause == LimiterSpec => []RefusedForCause
PROOF
<1>1. LimiterInv => RefusedForCause
  <2> SUFFICES ASSUME LimiterInv, refused # NoBucket
               PROVE  /\ refused.after >= Limit
                      /\ allowed[refused.key][refused.after - Limit + 1] + Window
                            > refused.at
    BY DEF RefusedForCause
  <2>1. /\ refused \in [key : Keys, at : Nat, after : Nat]
        /\ Cause(allowed[refused.key], refused.at, refused.after)
    BY DEF LimiterInv, LimiterTypeOK
  <2>2. Limit \in Nat /\ Len(allowed[refused.key]) \in Nat
    BY <2>1, RateLimiterAssumption DEF LimiterInv, LimiterTypeOK
  <2> QED  BY <2>1, <2>2 DEF Cause
<1> QED  BY <1>1, LimiterInvariant, PTL
===============================================================================
