---------------------------- MODULE RequestDedup ----------------------------
(***************************************************************************)
(* The request deduplication middleware of                                 *)
(* patchwork/middleware_request_dedup.py: a registry of the keys of the    *)
(* requests in flight, shared by every server thread.  The pre hook tests  *)
(* and registers a key under one lock, the post hook releases the key that *)
(* the pre hook left in ctx.metadata.                                      *)
(*                                                                         *)
(* A worker is a server thread.  It carries one request context at a time  *)
(* through  pre -> upstream -> post,  the order in which the integration   *)
(* tests of the repository drive a MiddlewarePipeline.                     *)
(*                                                                         *)
(* A text (method, target, query, body hash) is a sequence of atoms, short *)
(* enough to show what joining texts with an unescaped "|" does.           *)
(***************************************************************************)
EXTENDS Naturals, Sequences

CONSTANTS
    Worker,    \* server threads
    Method,    \* upper-cased method names
    Target,    \* values of ctx.target
    Query,     \* query strings, the empty one among them
    Body       \* bodies, each standing for its hash; the empty one has none

VARIABLES
    cfg,       \* the RequestDedupConfig the middleware was made with
    registry,  \* _registry: the keys believed to be in flight
    ctx,       \* the RequestContext each worker holds
    leaked     \* history: keys whose context was dropped before its post hook

vars == <<cfg, registry, ctx, leaked>>

ASSUME DedupAssumption ==
    Method # {} /\ Target # {} /\ Query # {} /\ Body # {}

Config  == [enabled : BOOLEAN, include_query : BOOLEAN, include_body : BOOLEAN]
Content == [method : Method, target : Target, query : Query, body : Body]
Phase   == {"idle", "arrived", "admitted", "answered", "rejected"}

-----------------------------------------------------------------------------
(* _request_key: the parts that identify a request, joined with "|".  A    *)
(* "|" inside a part is not escaped.                                       *)
Part(t) == <<"|">> \o t

RequestKey(f, c) ==
    c.method \o Part(c.target)
        \o (IF f.include_query THEN Part(c.query) ELSE <<>>)
        \o (IF f.include_body /\ c.body # <<>> THEN Part(c.body) ELSE <<>>)

Key == {RequestKey(f, c) : f \in Config, c \in Content}

KeyOf(w)    == RequestKey(cfg, ctx[w].content)
InFlight(w) == ctx[w].phase \in {"admitted", "answered"}

(* A worker without a request: its last context is garbage.                *)
NoContext == [phase |-> "idle", content |-> CHOOSE c \in Content : TRUE,
              dedup_key |-> {}]

-----------------------------------------------------------------------------
Init ==
    /\ cfg \in Config
    /\ registry = {}
    /\ leaked = {}
    /\ ctx = [w \in Worker |-> NoContext]

(* A request reaches an idle worker: a fresh context with empty metadata.  *)
Arrive(w, c) ==
    /\ ctx[w].phase = "idle"
    /\ ctx' = [ctx EXCEPT ![w] = [phase |-> "arrived", content |-> c,
                                  dedup_key |-> {}]]
    /\ UNCHANGED <<cfg, registry, leaked>>

(* pre_middleware, disabled: nothing is recorded.                          *)
PreDisabled(w) ==
    /\ ctx[w].phase = "arrived"
    /\ ~cfg.enabled
    /\ ctx' = [ctx EXCEPT ![w].phase = "admitted"]
    /\ UNCHANGED <<cfg, registry, leaked>>

(* A plausible slip: registering without looking first.                    *)
PreRegisterUnchecked(w) ==
    /\ ctx[w].phase = "arrived"
    /\ cfg.enabled
    /\ registry' = registry \union {KeyOf(w)}
    /\ ctx' = [ctx EXCEPT ![w].phase = "admitted",
                          ![w].dedup_key = {KeyOf(w)}]
    /\ UNCHANGED <<cfg, leaked>>

(* pre_middleware, first of its key: registered under the lock, and the    *)
(* context remembers the key it owns.                                      *)
PreRegister(w) ==
    /\ ctx[w].phase = "arrived"
    /\ cfg.enabled
    /\ KeyOf(w) \notin registry
    /\ registry' = registry \union {KeyOf(w)}
    /\ ctx' = [ctx EXCEPT ![w].phase = "admitted",
                          ![w].dedup_key = {KeyOf(w)}]
    /\ UNCHANGED <<cfg, leaked>>

(* pre_middleware, key already present: reject_status and skip_upstream.   *)
PreReject(w) ==
    /\ ctx[w].phase = "arrived"
    /\ cfg.enabled
    /\ KeyOf(w) \in registry
    /\ ctx' = [ctx EXCEPT ![w].phase = "rejected"]
    /\ UNCHANGED <<cfg, registry, leaked>>

(* The upstream answers an admitted request.                               *)
Answer(w) ==
    /\ ctx[w].phase = "admitted"
    /\ ctx' = [ctx EXCEPT ![w].phase = "answered"]
    /\ UNCHANGED <<cfg, registry, leaked>>

(* Plausible slips in the post hook: computing the key again instead of    *)
(* taking the one in the metadata, forgetting to release it, and leaving   *)
(* the finished context on its worker.                                     *)
PostRecomputesKey(w) ==
    /\ ctx[w].phase \in {"answered", "rejected"}
    /\ registry' = registry \ {KeyOf(w)}
    /\ ctx' = [ctx EXCEPT ![w] = NoContext]
    /\ UNCHANGED <<cfg, leaked>>

PostForgetsKey(w) ==
    /\ ctx[w].phase \in {"answered", "rejected"}
    /\ ctx' = [ctx EXCEPT ![w] = NoContext]
    /\ UNCHANGED <<cfg, registry, leaked>>

(* post_middleware: the key is the one stored by the pre hook, not one     *)
(* computed again, so a rejected context releases nothing.  The context is *)
(* dropped afterwards.                                                     *)
Post(w) ==
    /\ ctx[w].phase \in {"answered", "rejected"}
    /\ registry' = registry \ ctx[w].dedup_key
    /\ ctx' = [ctx EXCEPT ![w] = NoContext]
    /\ UNCHANGED <<cfg, leaked>>

(* Something after the pre hook raises: a later pre middleware, the        *)
(* upstream call, or a post middleware ahead of this one.  The pipeline    *)
(* has no try/finally, so this context's post hook never runs.             *)
Raise(w) ==
    /\ InFlight(w)
    /\ ctx' = [ctx EXCEPT ![w] = NoContext]
    /\ leaked' = leaked \union ctx[w].dedup_key
    /\ UNCHANGED <<cfg, registry>>

Step(w) ==
    \/ PreDisabled(w)
    \/ PreRegister(w)
    \/ PreReject(w)
    \/ Answer(w)
    \/ Post(w)

Next ==
    \E w \in Worker :
        \/ \E c \in Content : Arrive(w, c)
        \/ Step(w)
        \/ Raise(w)

Spec == Init /\ [][Next]_vars

(* A thread that has taken a request runs on, and the upstream call ends   *)
(* (urlopen has a timeout); arrivals and exceptions are not owed.          *)
FairSpec == Spec /\ \A w \in Worker : WF_vars(Step(w))

-----------------------------------------------------------------------------
(* The type of every variable.                                             *)
TypeOK ==
    /\ cfg \in Config
    /\ registry \in SUBSET Key
    /\ leaked \in SUBSET Key
    /\ ctx \in [Worker -> [phase : Phase, content : Content,
                           dedup_key : SUBSET Key]]

(* Two requests are duplicates when they agree on everything the           *)
(* configuration says identifies a request.                                *)
Duplicate(c, d) ==
    /\ c.method = d.method
    /\ c.target = d.target
    /\ cfg.include_query => c.query = d.query
    /\ cfg.include_body => c.body = d.body

(* "instead of forwarding the same request twice"                          *)
(* (middleware_request_dedup.py:5): two workers never have duplicates      *)
(* with the upstream at the same time, whatever was rejected, released or  *)
(* aborted in between.                                                     *)
SingleFlight ==
    cfg.enabled =>
        \A v, w \in Worker :
            /\ InFlight(v)
            /\ InFlight(w)
            /\ Duplicate(ctx[v].content, ctx[w].content)
            => v = w

(* _registry holds exactly the keys of the requests in flight and those    *)
(* that an exception kept from being released: a rejected duplicate        *)
(* releases nothing, and no key is forgotten while its request is out.     *)
RegistryExact ==
    cfg.enabled =>
        registry = leaked \union {KeyOf(w) : w \in {v \in Worker : InFlight(v)}}

(* Every registered key is released in the end, unless the post hook of    *)
(* its request never ran.                                                  *)
KeysReleased ==
    \A k \in Key : k \in registry ~> (k \notin registry \/ k \in leaked)

(* "Detects duplicate in-flight requests" (middleware_request_dedup.py:3): *)
(* a request is turned away only while a duplicate of it is in flight on   *)
(* another worker.  A leaked key refutes it.                               *)
RejectedOnlyForDuplicate ==
    [][\A w \in Worker :
          (ctx[w].phase = "arrived" /\ ctx'[w].phase = "rejected") =>
              \E v \in Worker \ {w} :
                  InFlight(v) /\ Duplicate(ctx[v].content, ctx[w].content)]_vars
=============================================================================
