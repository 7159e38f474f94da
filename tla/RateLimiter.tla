------------------------------ MODULE RateLimiter ------------------------------
(***************************************************************************)
(* The in-memory rate limiters: checkEdgeRateLimit at the edge of the      *)
(* frontend and AuthRateLimiterService in the backend.  Both count the     *)
(* hits of a key in a window that begins with the first hit; the edge also *)
(* prunes what has expired when its map grows.  A check is synchronous, so *)
(* it is one step.  What is modelled is the life of one process of either: *)
(* a restart forgets the buckets.                                          *)
(***************************************************************************)
EXTENDS Naturals, FiniteSets, Sequences

CONSTANTS
    Keys,           \* action or route, with the address
    Limit,          \* max
    Window,         \* windowMs
    MaxBuckets,     \* the edge prunes a map that is larger
    MaxHits,        \* bound on the hits of a key let through
    MaxTime,        \* bound on the clock
    NoBucket

ASSUME RateLimiterAssumption ==
    /\ Limit \in Nat \ {0} /\ Window \in Nat \ {0}
    /\ NoBucket \notin [count : Nat, resetAt : Nat]

VARIABLES
    atEdge,     \* which of the two limiters this is
    buckets,    \* its map
    allowed,    \* when it let a hit of a key through, in order
    refused,    \* the last hit it refused: its key, when, after how many
    time

limiterVars == << atEdge, buckets, allowed, refused, time >>

Bucket == [count : Nat, resetAt : Nat]

LimiterTypeOK ==
    /\ atEdge \in BOOLEAN
    /\ buckets \in [Keys -> Bucket \cup {NoBucket}]
    /\ allowed \in [Keys -> Seq(Nat)]
    /\ refused \in [key : Keys, at : Nat, after : Nat] \cup {NoBucket}
    /\ time \in Nat

LimiterInit ==
    /\ atEdge \in BOOLEAN
    /\ buckets = [k \in Keys |-> NoBucket]
    /\ allowed = [k \in Keys |-> << >>]
    /\ refused = NoBucket
    /\ time = 0

-------------------------------------------------------------------------------
Expired(b) == b.resetAt <= time

Opened == [count |-> 0, resetAt |-> time + Window]

\* Mutant: every hit begins the window anew.
CurrentSliding(k) ==
    IF buckets[k] # NoBucket /\ ~Expired(buckets[k])
    THEN [buckets[k] EXCEPT !.resetAt = time + Window]
    ELSE Opened

\* The bucket that counts a hit of k.
Current(k) ==
    IF buckets[k] # NoBucket /\ ~Expired(buckets[k]) THEN buckets[k] ELSE Opened

Counted(k) == [Current(k) EXCEPT !.count = @ + 1]

Large(map) == Cardinality({k \in Keys : map[k] # NoBucket}) > MaxBuckets

\* Mutant: when the map is large, what is full goes.
PruneFull(map) ==
    IF atEdge /\ Large(map)
    THEN [k \in Keys |-> IF map[k] # NoBucket /\ map[k].count >= Limit
                         THEN NoBucket ELSE map[k]]
    ELSE map

\* The edge drops the buckets that have expired once the map is large.
Prune(map) ==
    IF atEdge /\ Large(map)
    THEN [k \in Keys |-> IF map[k] # NoBucket /\ Expired(map[k])
                         THEN NoBucket ELSE map[k]]
    ELSE map

\* A hit is counted, and let through if there were not too many.
Allow(k) ==
    /\ Counted(k).count <= Limit
    /\ Len(allowed[k]) < MaxHits
    /\ buckets' = Prune([buckets EXCEPT ![k] = Counted(k)])
    /\ allowed' = [allowed EXCEPT ![k] = Append(@, time)]
    /\ UNCHANGED << atEdge, refused, time >>

\* 429.  How far a count is beyond the limit makes no difference: it stays there.
Refuse(k) ==
    /\ Counted(k).count > Limit
    /\ buckets' = Prune([buckets EXCEPT ![k] = Current(k)])
    /\ refused' = [key |-> k, at |-> time, after |-> Len(allowed[k])]
    /\ UNCHANGED << atEdge, allowed, time >>

LimiterTick ==
    /\ time < MaxTime
    /\ time' = time + 1
    /\ UNCHANGED << atEdge, buckets, allowed, refused >>

LimiterNext ==
    \/ \E k \in Keys : Allow(k) \/ Refuse(k)
    \/ LimiterTick

LimiterSpec == LimiterInit /\ [][LimiterNext]_limiterVars

-------------------------------------------------------------------------------
(* Properties *)

\* The window is fixed and not the sliding one of the comments, so twice the limit
\* may pass around its end; but never more, pruned or not, in less than a window.
TwiceTheLimit ==
    \A k \in Keys : \A i \in DOMAIN allowed[k] :
        i + 2 * Limit \in DOMAIN allowed[k]
            => allowed[k][i + 2 * Limit] >= allowed[k][i] + Window

\* A client is refused only if as many hits as the limit were let through less
\* than a window before, however much it goes on hitting while refused.
RefusedForCause ==
    refused # NoBucket =>
        /\ refused.after >= Limit
        /\ allowed[refused.key][refused.after - Limit + 1] + Window > refused.at

===============================================================================
