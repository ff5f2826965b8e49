--------------------------- MODULE ResponseCache ----------------------------
(***************************************************************************)
(* The response cache of patchwork/cache.py, an OrderedDict with the least *)
(* recently used entry first, and the middleware of                        *)
(* patchwork/middleware_cache.py around it, with an upstream whose content *)
(* changes.                                                                *)
(*                                                                         *)
(* The cache is "suitable for single-threaded proxy workers": a worker is  *)
(* such a process's only thread when Worker is a singleton, and calls of   *)
(* get and put are whole steps.  A key is a method and a path; it is in    *)
(* Cacheable when its method is in cacheable_methods.                      *)
(***************************************************************************)
EXTENDS Naturals, SequencesExt

CONSTANTS
    Worker,      \* threads that share the cache
    Key,         \* values of _route_id(ctx)
    Cacheable,   \* those whose method may be cached
    TTL,         \* ttl_seconds, in units of time
    MaxEntries,  \* max_entries
    MaxVersion   \* bound on the changes of the content of a key

ASSUME CacheAssumption ==
    /\ Cacheable \subseteq Key
    /\ TTL \in Nat \ {0}
    /\ MaxEntries \in Nat \ {0}
    /\ MaxVersion \in Nat

VARIABLES
    store,     \* _store, the oldest use first
    upstream,  \* the version of each key's content
    ctx,       \* the RequestContext each worker holds
    recency,   \* history: keys in the order of their last hit or put
    served     \* history: the last version of each key a client was sent

vars == <<store, upstream, ctx, recency, served>>

(* left is what is left of the time to live; age, a history field, is the  *)
(* time since the entry was put.                                           *)
Entry == [key : Key, value : 0..MaxVersion, left : 0..TTL, age : 0..TTL]

NoContext == [phase |-> "idle"]

(* s without its element at the place in S, if there is one.               *)
Dropped(s, S) == IF S = {} THEN s ELSE RemoveAt(s, CHOOSE i \in S : TRUE)

Without(k) == Dropped(store, {i \in DOMAIN store : store[i].key = k})

(* History: k becomes the key most recently used.                          *)
Touched(k) == Append(Dropped(recency, {n \in DOMAIN recency : recency[n] = k}), k)

-----------------------------------------------------------------------------
Init ==
    /\ store = <<>>
    /\ upstream = [k \in Key |-> 0]
    /\ ctx = [w \in Worker |-> NoContext]
    /\ recency = <<>>
    /\ served = [k \in Key |-> 0]

Arrive(w, k) ==
    /\ ctx[w].phase = "idle"
    /\ ctx' = [ctx EXCEPT ![w] = [phase |-> "arrived", key |-> k]]
    /\ UNCHANGED <<store, upstream, recency, served>>

Forward(w) == [phase |-> "forwarded", key |-> ctx[w].key]

(* pre_middleware, a method that is not cached: the cache is not asked.    *)
PreUncacheable(w) ==
    /\ ctx[w].phase = "arrived"
    /\ ctx[w].key \notin Cacheable
    /\ ctx' = [ctx EXCEPT ![w] = Forward(w)]
    /\ UNCHANGED <<store, upstream, recency, served>>

(* A plausible slip: a hit gives the entry a new time to live.             *)
RenewedOnHit(e) == [e EXCEPT !.left = TTL]

KeptOnHit(e) == e

(* A plausible slip: a hit does not make the entry the most recently used. *)
PreHitInPlace(w) ==
    /\ ctx[w].phase = "arrived"
    /\ ctx[w].key \in Cacheable
    /\ \E i \in DOMAIN store :
         /\ store[i].key = ctx[w].key
         /\ store[i].left > 0
         /\ ctx' = [ctx EXCEPT ![w] = [phase |-> "hit", key |-> ctx[w].key,
                                       value |-> store[i].value]]
    /\ recency' = Touched(ctx[w].key)
    /\ UNCHANGED <<store, upstream, served>>

(* A plausible slip: a key made of the method alone, the same for every path.*)
PreHitAnyPath(w) ==
    /\ ctx[w].phase = "arrived"
    /\ ctx[w].key \in Cacheable
    /\ \E i \in DOMAIN store :
         /\ store[i].left > 0
         /\ store' = Append(Without(store[i].key), store[i])
         /\ ctx' = [ctx EXCEPT ![w] = [phase |-> "hit", key |-> ctx[w].key,
                                       value |-> store[i].value]]
    /\ recency' = Touched(ctx[w].key)
    /\ UNCHANGED <<upstream, served>>

(* pre_middleware, get() finds a live entry: it becomes the most recently  *)
(* used, keeps its expiry, and is the response.                            *)
PreHit(w) ==
    /\ ctx[w].phase = "arrived"
    /\ ctx[w].key \in Cacheable
    /\ \E i \in DOMAIN store :
         /\ store[i].key = ctx[w].key
         /\ store[i].left > 0
         /\ store' = Append(Without(store[i].key), KeptOnHit(store[i]))
         /\ ctx' = [ctx EXCEPT ![w] = [phase |-> "hit", key |-> ctx[w].key,
                                       value |-> store[i].value]]
    /\ recency' = Touched(ctx[w].key)
    /\ UNCHANGED <<upstream, served>>

(* pre_middleware, get() finds nothing, or an expired entry, which it      *)
(* deletes.                                                                *)
PreMiss(w) ==
    /\ ctx[w].phase = "arrived"
    /\ ctx[w].key \in Cacheable
    /\ \A i \in DOMAIN store :
         store[i].key = ctx[w].key => store[i].left = 0
    /\ store' = Without(ctx[w].key)
    /\ ctx' = [ctx EXCEPT ![w] = Forward(w)]
    /\ UNCHANGED <<upstream, recency, served>>

(* The upstream answers a forwarded request with its content, and a status *)
(* that is in cacheable_statuses or is not.                                *)
Answer(w, cacheable) ==
    /\ ctx[w].phase = "forwarded"
    /\ ctx' = [ctx EXCEPT ![w] =
                 [phase |-> "answered", key |-> ctx[w].key,
                  value |-> upstream[ctx[w].key], cacheable |-> cacheable]]
    /\ UNCHANGED <<store, upstream, recency, served>>

(* put(): the entry goes to the end, and the least recently used ones go.  *)
Stored(e) ==
    LET s == Append(Without(e.key), e)
    IN IF Len(s) > MaxEntries
       THEN SubSeq(s, Len(s) - MaxEntries + 1, Len(s)) ELSE s

Done(w) ==
    /\ ctx' = [ctx EXCEPT ![w] = NoContext]
    /\ served' = [served EXCEPT ![ctx[w].key] = ctx[w].value]
    /\ UNCHANGED upstream

(* post_middleware: a hit is not stored again ...                          *)
PostHit(w) ==
    /\ ctx[w].phase = "hit"
    /\ Done(w)
    /\ UNCHANGED <<store, recency>>

(* ... nor is what may not be cached; anything else is put.                *)
PostNotStored(w) ==
    /\ ctx[w].phase = "answered"
    /\ ctx[w].key \notin Cacheable \/ ~ctx[w].cacheable
    /\ Done(w)
    /\ UNCHANGED <<store, recency>>

PostStored(w) ==
    /\ ctx[w].phase = "answered"
    /\ ctx[w].key \in Cacheable
    /\ ctx[w].cacheable
    /\ Done(w)
    /\ store' = Stored([key |-> ctx[w].key, value |-> ctx[w].value,
                        left |-> TTL, age |-> 0])
    /\ recency' = Touched(ctx[w].key)

(* invalidate() and clear(), which only the cache's owner calls.           *)
Invalidate(k) ==
    /\ \E i \in DOMAIN store : store[i].key = k
    /\ store' = Without(k)
    /\ UNCHANGED <<upstream, ctx, recency, served>>

Clear ==
    /\ store # <<>>
    /\ store' = <<>>
    /\ UNCHANGED <<upstream, ctx, recency, served>>

(* The content of a key changes at the upstream.                           *)
Publish(k) ==
    /\ upstream[k] < MaxVersion
    /\ upstream' = [upstream EXCEPT ![k] = @ + 1]
    /\ UNCHANGED <<store, ctx, recency, served>>

(* Time passes; an expired entry stays where it is until it is asked for.  *)
Older(e) == [key |-> e.key, value |-> e.value,
             left |-> IF e.left > 0 THEN e.left - 1 ELSE 0,
             age |-> IF e.age < TTL THEN e.age + 1 ELSE TTL]

Tick ==
    /\ store # <<>>
    /\ store' = [i \in DOMAIN store |-> Older(store[i])]
    /\ UNCHANGED <<upstream, ctx, recency, served>>

Next ==
    \/ Tick
    \/ Clear
    \/ \E k \in Key : Invalidate(k) \/ Publish(k)
    \/ \E w \in Worker :
         \/ \E k \in Key : Arrive(w, k)
         \/ PreUncacheable(w) \/ PreHit(w) \/ PreMiss(w)
         \/ \E cacheable \in BOOLEAN : Answer(w, cacheable)
         \/ PostHit(w) \/ PostNotStored(w) \/ PostStored(w)

Spec == Init /\ [][Next]_vars

-----------------------------------------------------------------------------
LastUse(k) == CHOOSE n \in DOMAIN recency : recency[n] = k

(* The entries, never more than max_entries, stand in the order of their   *)
(* last use, hit or put, so what put evicts was used before everything it  *)
(* keeps.                                                                  *)
LeastRecentFirst ==
    /\ Len(store) <= MaxEntries
    /\ \A i, j \in DOMAIN store :
         i < j => LastUse(store[i].key) < LastUse(store[j].key)

(* No response is served from the cache once its time to live since it was *)
(* put is over, however often it was hit in the meantime.                  *)
NoExpiredHit ==
    [][\A w \in Worker :
          (ctx[w].phase = "arrived" /\ ctx'[w].phase = "hit") =>
              \E i \in DOMAIN store :
                  /\ store[i].key = ctx[w].key
                  /\ store[i].value = ctx'[w].value
                  /\ store[i].age < TTL]_vars

(* With one thread, clients never see a key's content go back to an older  *)
(* version: no put is undone by an older one, no older entry survives.     *)
NeverBackInTime ==
    [][\A k \in Key : served'[k] >= served[k]]_vars
=============================================================================
