------------------------------ MODULE RateLimits ------------------------------
(***************************************************************************)
(* Fixed-window request limits (packages/shared rate-limit.ts) as the hono *)
(* API, the legacy API and the console's sign-in use them.  Requests are   *)
(* counted under a key in Redis, which all instances of a service share;   *)
(* an instance that gets no answer from Redis counts in its own memory,    *)
(* which a restart empties.  A key is the service's prefix, the address,   *)
(* the path and the tenant; keys that become equal when Redis's copy is    *)
(* cleaned of unusual characters are taken to be one path.                 *)
(* Redis runs the three commands of a check in one step here: commands of  *)
(* other checks in between change neither the count read nor the expiry,   *)
(* which only the first one sets.                                          *)
(***************************************************************************)
EXTENDS Naturals, FiniteSets

CONSTANTS
    Hits,          \* requests that may come: service, address, kind of path, tenant
                   \* named, and page and sender of a webhook
    NoScope,      \* the request names no tenant, or no page
    RouteLimit,    \* kind of path -> limit
    Window,        \* the window, in ticks
    Instances,     \* instances of every service
    Checks,        \* checks that can be under way at once
    MaxTick,       \* bound: the clock
    MaxRateOps     \* bound: requests, lost answers and restarts

ASSUME RateAssumption ==
    /\ IsFiniteSet(Hits) /\ Window \in Nat \ {0} /\ MaxTick \in Nat /\ MaxRateOps \in Nat
    /\ \A h \in Hits : RouteLimit[h.path] \in Nat \ {0}
    /\ RouteLimit["webhook"] \in Nat \ {0} /\ RouteLimit["other"] \in Nat \ {0}
    \* The console's sign-in is no webhook and names no tenant.
    /\ \A h \in Hits : h.service \notin {"hono", "api"} => h.tenant = NoScope /\ h.path # "webhook"

VARIABLES
    tick,
    redis,         \* external: key -> window, when Redis is configured
    buckets,       \* instance -> key -> window
    checks,        \* the checks under way
    refusal,       \* history: the refusal of the last step, and the window that refused
    rateOps

rateVars == <<tick, redis, buckets, checks, refusal, rateOps>>

-----------------------------------------------------------------------------
\* The key.
\* Hono: the tenant of the path, of the query or of the body, and otherwise the webhook's page.
TenantScope(h) ==
    IF h.tenant # NoScope THEN [client |-> h.tenant]
    ELSE IF h.path = "webhook" /\ h.page # NoScope THEN [page |-> h.page]
    ELSE [none |-> NoScope]
HonoKey(h) == [prefix |-> h.service, ip |-> h.ip, path |-> h.path, scope |-> TenantScope(h)]
\* Legacy: the same order, the path's parameter first.
LegacyScope(h) ==
    IF h.tenant # NoScope THEN [client |-> h.tenant]
    ELSE IF h.path = "webhook" /\ h.page # NoScope THEN [page |-> h.page]
    ELSE [none |-> NoScope]
LegacyKey(h) == [prefix |-> h.service, ip |-> h.ip, path |-> h.path, scope |-> LegacyScope(h)]
\* The console's sign-in: one key for an address.
LoginKey(h) == [prefix |-> h.service, ip |-> h.ip, path |-> h.path, scope |-> [none |-> NoScope]]
Key(h) == IF h.service = "hono" THEN HonoKey(h)
          ELSE IF h.service = "api" THEN LegacyKey(h) ELSE LoginKey(h)
Keys == {Key(h) : h \in Hits}
\* The legacy API has no widget, so its limits are two of these.
HonoLimit(path) == RouteLimit[path]
LegacyLimit(path) == IF path = "webhook" THEN RouteLimit["webhook"] ELSE RouteLimit["other"]
Limit(h) == IF h.service = "api" THEN LegacyLimit(h.path) ELSE HonoLimit(h.path)

\* A window: requests counted, when it ends; history: when it began, how many it let pass,
\* what it counted.
NoWindow == [count |-> 0]
Opened(h) == [count |-> 1, until |-> tick + Window, began |-> tick, passed |-> 0, of |-> {h}]
Counted(w, h) == [w EXCEPT !.count = @ + 1, !.of = @ \union {h}]
NotChecking == [pc |-> "idle"]
NoRefusal == [none |-> TRUE]

Windows == [count : 1..MaxRateOps, until : 0..(MaxTick + Window), began : 0..MaxTick,
            passed : 0..MaxRateOps, of : SUBSET Hits]

CheckInput == [pc : {"asked", "lost"}, hit : Hits, at : Instances]
RateBuckets == Windows \cup {NoWindow}

RateTypeOK ==
    /\ tick \in 0..MaxTick /\ rateOps \in 0..MaxRateOps
    /\ \A k \in Keys : redis[k] = NoWindow \/ redis[k] \in Windows
    /\ \A i \in Instances, k \in Keys : buckets[i][k] \in RateBuckets
    /\ \A c \in Checks :
         \/ checks[c] = NotChecking
         \/ checks[c] \in CheckInput
         \/ checks[c] \in [pc : {"counted"}, hit : Hits, at : Instances, window : Windows, when : 0..MaxTick]

RateInit ==
    /\ tick = 0 /\ rateOps = 0 /\ refusal = NoRefusal
    /\ redis = [k \in Keys |-> NoWindow]
    /\ buckets = [i \in Instances |-> [k \in Keys |-> NoWindow]]
    /\ checks = [c \in Checks |-> NotChecking]

RateOp == rateOps < MaxRateOps /\ rateOps' = rateOps + 1

\* Windows that are over count no more: Redis drops them, a memory replaces them.
RateTick ==
    LET Left(w) == IF w # NoWindow /\ w.until <= tick + 1 THEN NoWindow ELSE w IN
    /\ tick < MaxTick /\ tick' = tick + 1 /\ refusal' = NoRefusal
    /\ redis' = [k \in Keys |-> Left(redis[k])]
    /\ buckets' = [i \in Instances |-> [k \in Keys |-> Left(buckets[i][k])]]
    /\ UNCHANGED <<checks, rateOps>>

-----------------------------------------------------------------------------
\* A request arrives at an instance; without Redis's address the memory is asked at once.
Ask(c, h, i) ==
    /\ RateOp /\ checks[c] = NotChecking
    /\ \E configured \in BOOLEAN :
         checks' = [checks EXCEPT ![c] =
           [pc |-> IF configured THEN "asked" ELSE "lost", hit |-> h, at |-> i]]
    /\ refusal' = NoRefusal /\ UNCHANGED <<tick, redis, buckets>>

\* INCR, EXPIRE NX and TTL.
CountInRedis(w, h) == Counted(w, h)
RedisCounts(c) ==
    LET h == checks[c].hit
        k == Key(h)
        w == IF redis[k] = NoWindow THEN Opened(h) ELSE CountInRedis(redis[k], h) IN
    /\ checks[c].pc = "asked"
    /\ redis' = [redis EXCEPT ![k] = w]
    /\ checks' = [checks EXCEPT ![c] = [pc |-> "counted", hit |-> h, at |-> @.at, window |-> w,
                                        when |-> tick]]
    /\ refusal' = NoRefusal /\ UNCHANGED <<tick, buckets, rateOps>>

\* Redis does not answer, or answers with an error, counted or not.
RedisFails(c) ==
    /\ RateOp /\ checks[c].pc \in {"asked", "counted"}
    /\ checks' = [checks EXCEPT ![c] = [pc |-> "lost", hit |-> @.hit, at |-> @.at]]
    /\ refusal' = NoRefusal /\ UNCHANGED <<tick, redis, buckets>>

Refuse(h, w, t) == refusal' = [hit |-> h, window |-> w, at |-> t]

\* Mutant: the request after the last one passes as well.
PassesOneMore(count, h) == count <= Limit(h) + 1
Passes(count, h) == count <= Limit(h)

\* The answer decides by the count it carries, whatever was counted since.
Answer(c) ==
    LET h == checks[c].hit
        k == Key(h)
        w == checks[c].window IN
    /\ checks[c].pc = "counted" /\ checks' = [checks EXCEPT ![c] = NotChecking]
    /\ IF Passes(w.count, h)
         THEN /\ redis' = IF redis[k] # NoWindow /\ redis[k].began = w.began
                            THEN [redis EXCEPT ![k].passed = @ + 1] ELSE redis
              /\ refusal' = NoRefusal
         ELSE Refuse(h, w, checks[c].when) /\ redis' = redis
    /\ UNCHANGED <<tick, buckets, rateOps>>

\* memoryCheck: count and decision are one step of the instance.
MemoryCheck(c) ==
    LET h == checks[c].hit
        k == Key(h)
        i == checks[c].at
        w == IF buckets[i][k] = NoWindow THEN Opened(h) ELSE Counted(buckets[i][k], h) IN
    /\ checks[c].pc = "lost" /\ checks' = [checks EXCEPT ![c] = NotChecking]
    /\ IF w.count = 1 \/ Passes(w.count, h)
         THEN buckets' = [buckets EXCEPT ![i][k] = [w EXCEPT !.passed = @ + 1]] /\ refusal' = NoRefusal
         ELSE buckets' = [buckets EXCEPT ![i][k] = w] /\ Refuse(h, w, tick)
    /\ UNCHANGED <<tick, redis, rateOps>>

\* The instance is replaced: its memory and its requests are gone.
Restart(i) ==
    /\ RateOp
    /\ buckets' = [buckets EXCEPT ![i] = [k \in Keys |-> NoWindow]]
    /\ checks' = [c \in Checks |->
         IF checks[c] # NotChecking /\ checks[c].at = i THEN NotChecking ELSE checks[c]]
    /\ refusal' = NoRefusal /\ UNCHANGED <<tick, redis>>

RateNext ==
    \/ RateTick
    \/ \E c \in Checks :
         \/ \E h \in Hits, i \in Instances : Ask(c, h, i)
         \/ RedisCounts(c) \/ RedisFails(c) \/ Answer(c) \/ MemoryCheck(c)
    \/ \E i \in Instances : Restart(i)

RateSpec == RateInit /\ [][RateNext]_rateVars

-----------------------------------------------------------------------------
(* However many instances a service has and in whatever order answers come, *)
(* a window of Redis lets at most the limit pass, and so does a window of    *)
(* an instance's memory, whatever Redis did meanwhile.                       *)
WindowHoldsTheLimit ==
    \A k \in Keys, h \in Hits : Key(h) = k =>
      \A w \in {redis[k]} \union {buckets[i][k] : i \in Instances} :
        w = NoWindow \/ w.passed <= Limit(h)

(* A refusal is no lock-out: the window that refused opened less than a      *)
(* window's time before, also when the caller kept trying.                   *)
RefusalIsBrief == refusal = NoRefusal \/ refusal.at - refusal.window.began < Window

(* Nobody is refused for what another tenant, address or path sent: all      *)
(* requests of the window that refused were its own.                         *)
RefusedForItsOwn ==
    refusal = NoRefusal \/ \A h \in refusal.window.of :
      /\ h.service = refusal.hit.service /\ h.ip = refusal.hit.ip /\ h.path = refusal.hit.path
      /\ h.tenant = refusal.hit.tenant
      /\ h.tenant = NoScope /\ h.path = "webhook" => h.page = refusal.hit.page
=============================================================================
