------------------------------ MODULE Pipeline ------------------------------
(***************************************************************************)
(* MiddlewarePipeline of patchwork/middleware.py with the hooks of Gates   *)
(* and Shaping and the metrics collector, for several requests at a time.  *)
(*                                                                         *)
(* Hooks are closures over their configuration, in the order they were     *)
(* added.  A hook changes its own request's context and, if it is the      *)
(* metrics hook, the collector under its lock: one hook is one step.       *)
(*                                                                         *)
(* The code has no caller of the pipeline.  The one here does what the     *)
(* hooks' comments ask of it: it forwards a request unless some hook has   *)
(* left a sign that it should not, and runs the post hooks on every answer.*)
(***************************************************************************)
EXTENDS Shaping

CONSTANTS
    Caller,       \* threads
    Deployment,   \* what is deployed, and the traffic it meets: its load is
                  \* the number of requests, a bound on the collector's counts
    Route         \* keys of the collector

Hook == UNION {{d.pre[i] : i \in DOMAIN d.pre} \union
               {d.post[i] : i \in DOMAIN d.post} : d \in Deployment}

(* What the constructors take.                                             *)
Accepted(h) ==
    CASE h.kind = "auth"    -> AuthConfig(h.cfg)
      [] h.kind = "jwt"     -> JWTConfig(h.cfg)
      [] h.kind = "signing" -> RequestSigningConfig(h.cfg)
      [] h.kind = "ip"      -> IPAllowlistConfig(h.cfg)
      [] h.kind = "geo"     -> GeoBlockConfig(h.cfg)
      [] h.kind = "tls"     -> TLSVerifyConfig(h.cfg)
      [] h.kind = "query"   -> QueryFilterConfig(h.cfg)
      [] h.kind = "size"    -> RequestSizeConfig(h.cfg)
      [] h.kind = "health"  -> HealthEndpointConfig(h.cfg)
      [] h.kind = "rewrite" -> PathRewriteConfig(h.cfg)
      [] h.kind = "gzip"    -> CompressionConfig(h.cfg)
      [] h.kind = "limit"   -> ResponseSizeConfig(h.cfg)
      [] h.kind \in {"rate", "metrics", "retry", "transform"} -> TRUE

(* The hooks that are made for each of the two lists.                      *)
PreKinds  == {"auth", "jwt", "signing", "ip", "geo", "tls", "query", "size",
              "rate", "health", "rewrite", "metrics", "retry", "transform"}
PostKinds == {"gzip", "limit", "metrics", "retry", "transform"}

(* The response headers that hooks read.                                   *)
HeadersRead == {"Content-Type", "Content-Encoding", "Content-Length",
                "content-length"}

(* What of a context is the request's.                                     *)
RequestFields == {"path", "request_path", "method", "keys", "scheme",
                  "headers", "params", "remote_addr", "target"}

(* What the upstream may answer: it writes the headers a hook would, and   *)
(* no body that a hook makes.                                              *)
IsAnswer(a) ==
    /\ a.status \in Nat
    /\ DOMAIN a.headers = DOMAIN NoHeaders
    /\ a.headers.length \subseteq Nat \union {None}
    /\ a.headers.small_length \subseteq Nat \union {None}
    /\ a.body \in [from : {"upstream", "nobody"}, size : DOMAIN gzip, gzips : Nat]

ASSUME PipelineAssumption ==
    /\ IsFiniteSet(Caller)
    /\ \A d \in Deployment :
         /\ d.load \in Nat /\ d.callers \subseteq Caller
         /\ d.pre \in Seq(Hook)
         /\ \A i \in DOMAIN d.pre : d.pre[i].kind \in PreKinds
         /\ d.post \in Seq(Hook)
         /\ \A i \in DOMAIN d.post : d.post[i].kind \in PostKinds
         /\ \A a \in d.answers : IsAnswer(a)
         /\ \A r \in d.requests : DOMAIN r = RequestFields
    /\ \A h \in Hook :
         Accepted(h) /\ (h.kind = "limit" => h.cfg.header_name \notin HeadersRead)

VARIABLES
    deployed,   \* the pipeline's two lists, and the traffic; never changes
    handler,    \* what each thread is doing
    stats,      \* MetricsCollector._stats
    arrived,    \* requests so far
    seen        \* history: what became of the requests the collector knows

vars == <<deployed, handler, stats, arrived, seen>>

Idle == [phase |-> "idle"]
Unanswered == [status |-> 0, headers |-> NoHeaders, body |-> NoBody]
NoStats == [requests |-> 0, errors |-> 0]

Busy(w)       == handler[w].phase # "idle"
Becomes(w, h) == handler' = [handler EXCEPT ![w] = h]

(* The hook whose turn it is.                                              *)
HooksOf(h) == IF h.phase = "pre" THEN deployed.pre ELSE deployed.post

InHooks(h)  == h.phase \in {"pre", "post"} /\ h.pos <= Len(HooksOf(h))
Through(h, phase) == h.phase = phase /\ h.pos > Len(HooksOf(h))
NextHook(h) == HooksOf(h)[h.pos]

-----------------------------------------------------------------------------
(* Which call of a hook raises: the transform hooks pass their arguments   *)
(* in the wrong order, on either side.                                     *)
Raises(h, c, phase) ==
    \/ h.kind = "transform"
    \/ h.kind = "jwt" /\ JWTRaises(h.cfg, c)
    \/ h.kind = "signing" /\ SigningRaises(h.cfg, c)
    \/ h.kind = "retry" /\ phase = "post" /\ RetryRaises(c)

(* fn(ctx).  allowed is the rate limiter's verdict, for hooks that ask it. *)
Called(h, c, allowed) ==
    CASE h.kind = "auth"    -> Auth(h.cfg, c)
      [] h.kind = "jwt"     -> JWT(h.cfg, c)
      [] h.kind = "signing" -> Signing(h.cfg, c)
      [] h.kind = "ip"      -> IPAllowlist(h.cfg, c)
      [] h.kind = "geo"     -> GeoBlock(h.cfg, c)
      [] h.kind = "tls"     -> TLSVerify(h.cfg, c)
      [] h.kind = "query"   -> QueryFilter(h.cfg, c)
      [] h.kind = "size"    -> RequestSize(h.cfg, c)
      [] h.kind = "rate"    -> RateLimit(allowed, c)
      [] h.kind = "health"  -> HealthEndpoint(h.cfg, c)
      [] h.kind = "rewrite" -> PathRewrite(h.cfg, c)
      [] h.kind = "gzip"    -> Compression(h.cfg, c)
      [] h.kind = "limit"   -> ResponseSize(h.cfg, c)
      [] h.kind \in {"metrics", "retry"} -> c

(* _route_id of the metrics hook, and one more under its key.              *)
RouteId(c) == <<Upper(Or(Get(c.headers, "X-Method"), "UNKNOWN")), Or(c.target, "/")>>

Recorded(s, route, is_error) ==
    [s EXCEPT ![route].requests = @ + 1,
              ![route].errors = IF is_error THEN @ + 1 ELSE @]

(* Signs that a request must not be forwarded.                             *)
Stopped(c) ==
    \/ c.auth_ok = "no" \/ c.ip_blocked = "yes"
    \/ c.response_status # 0 \/ c.response # NoResponse
    \/ c.skip_upstream \/ c.short_circuit

-----------------------------------------------------------------------------
Init ==
    /\ deployed \in Deployment
    /\ handler = [w \in Caller |-> Idle]
    /\ stats = [r \in Route |-> NoStats]
    /\ arrived = 0
    /\ seen = [r \in Route |-> NoStats]

(* A request reaches the pipeline.  Of the fields, request, throttled (the *)
(* rate hooks that turned it away), forwarded, answer (the upstream's) and *)
(* recorded (the collector knows it) are history.                          *)
Arrive(w, r) ==
    /\ ~Busy(w)
    /\ w \in deployed.callers
    /\ arrived < deployed.load
    /\ arrived' = arrived + 1
    /\ Becomes(w, [phase |-> "pre", pos |-> 1, request |-> r,
                   ctx |-> NewContext(r), throttled |-> {},
                   forwarded |-> FALSE, answer |-> Unanswered,
                   recorded |-> FALSE])
    /\ UNCHANGED <<deployed, stats, seen>>

(* One turn of the loops of run_pre and run_post.  What the hook returns   *)
(* is dropped, and no sign it leaves ends the loop.                        *)
RunHook(w, allowed) ==
    LET h == handler[w] IN
    /\ InHooks(h)
    /\ ~Raises(NextHook(h), h.ctx, h.phase)
    /\ ~allowed => NextHook(h).kind = "rate"
    /\ ~(NextHook(h).kind = "metrics" /\ h.phase = "post")
    /\ Becomes(w, [h EXCEPT !.pos = @ + 1,
                            !.ctx = Called(NextHook(h), @, allowed),
                            !.throttled = IF allowed THEN @
                                          ELSE @ \union {h.pos}])
    /\ UNCHANGED <<deployed, stats, arrived, seen>>

(* The metrics hook behind the call: record(), under the lock.             *)
RecordMetrics(w) ==
    LET h == handler[w] IN
    /\ InHooks(h) /\ h.phase = "post" /\ NextHook(h).kind = "metrics"
    /\ stats' = Recorded(stats, RouteId(h.ctx), IsError(h.ctx.response_status))
    /\ Becomes(w, [h EXCEPT !.pos = @ + 1, !.recorded = TRUE])
    /\ UNCHANGED <<deployed, arrived, seen>>

(* A request is over, with the status its context then has; not to have    *)
(* one, or to have one of 500 and up, is to have failed.                   *)
Ends(w) ==
    LET h == handler[w] IN
    /\ seen' = IF h.recorded
               THEN Recorded(seen, RouteId(h.ctx),
                             h.ctx.response_status \notin 1..499)
               ELSE seen
    /\ Becomes(w, Idle)
    /\ UNCHANGED <<deployed, stats, arrived>>

(* An exception ends the loop and the request: there is no try.            *)
HookRaises(w) ==
    /\ InHooks(handler[w])
    /\ Raises(NextHook(handler[w]), handler[w].ctx, handler[w].phase)
    /\ Ends(w)

(* Between the lists: a stopped request keeps the answer a hook gave it,   *)
(* and gets one if only auth_ok or ip_blocked speaks.                      *)
Decide(w) ==
    LET h == handler[w] IN
    /\ Through(h, "pre")
    /\ IF ~Stopped(h.ctx)
       THEN Becomes(w, [h EXCEPT !.phase = "calling", !.forwarded = TRUE])
       ELSE Becomes(w, [h EXCEPT
              !.phase = "post", !.pos = 1,
              !.ctx = IF \/ @.response_status # 0
                         \/ @.response # NoResponse
                      THEN @
                      ELSE Refuse(@, IF @.auth_ok = "no" THEN 401 ELSE 403,
                                  "caller")])
    /\ UNCHANGED <<deployed, stats, arrived, seen>>

Upstream(w, a) ==
    LET h == handler[w] IN
    /\ h.phase = "calling"
    /\ Becomes(w, [h EXCEPT
         !.phase = "post", !.pos = 1, !.answer = a,
         !.ctx.response = [status |-> a.status, from |-> "upstream"],
         !.ctx.response_status = a.status,
         !.ctx.response_body = a.body,
         !.ctx.response_headers = a.headers])
    /\ UNCHANGED <<deployed, stats, arrived, seen>>

UpstreamRaises(w) ==
    /\ handler[w].phase = "calling"
    /\ Ends(w)

Deliver(w) ==
    /\ Through(handler[w], "post")
    /\ Ends(w)

(* MetricsCollector.reset(), by anyone; the requests under way are no      *)
(* longer known to the collector.                                          *)
ResetMetrics ==
    /\ \E r \in Route : stats[r] # NoStats
    /\ stats' = [r \in Route |-> NoStats]
    /\ seen' = [r \in Route |-> NoStats]
    /\ handler' = [w \in Caller |->
                     IF Busy(w) THEN [handler[w] EXCEPT !.recorded = FALSE]
                     ELSE handler[w]]
    /\ UNCHANGED <<deployed, arrived>>

Next ==
    \/ ResetMetrics
    \/ \E w \in Caller :
         \/ \E r \in deployed.requests : Arrive(w, r)
         \/ \E allowed \in BOOLEAN : RunHook(w, allowed)
         \/ RecordMetrics(w) \/ HookRaises(w)
         \/ Decide(w)
         \/ \E a \in deployed.answers : Upstream(w, a)
         \/ UpstreamRaises(w) \/ Deliver(w)

Spec == Init /\ [][Next]_vars

-----------------------------------------------------------------------------
(* The verdict of each gate on a request.                                  *)
Allows(h, r) ==
    CASE h.kind = "auth"    -> IsAuthenticated(h.cfg, r)
      [] h.kind = "jwt"     -> JWTAllows(h.cfg, r)
      [] h.kind = "signing" -> SigningAllows(h.cfg, r)
      [] h.kind = "ip"      -> IPAllows(h.cfg, r)
      [] h.kind = "geo"     -> GeoAllows(h.cfg, r)
      [] h.kind = "tls"     -> TLSAllows(h.cfg, r)
      [] h.kind = "query"   -> QueryAllows(h.cfg, r)
      [] h.kind = "size"    -> SizeAllows(h.cfg, r)
      [] OTHER              -> TRUE

(* Hooks that write one sign, over and over.                               *)
Overwritten(p, i) ==
    \E j \in DOMAIN p :
        /\ j > i /\ p[j].kind = p[i].kind
        /\ p[i].kind = "auth" \/ (p[i].kind = "ip" /\ p[j].cfg.enabled)

(* What a hook makes of a request, and the request that the i-th finds:    *)
(* rewriting changes its path, the claim of a JWT its headers.             *)
Left(h, r) ==
    CASE h.kind = "rewrite" ->
           [r EXCEPT !.request_path = Rewritten(h.cfg, @)]
      [] h.kind = "jwt" /\ JWTAllows(h.cfg, r) ->
           [r EXCEPT !.headers = Claimed(h.cfg, r)]
      [] OTHER -> r

Before(p, i, r) ==
    LET request[n \in 0..Len(p)] ==
          IF n = 0 THEN r ELSE Left(p[n], request[n - 1])
    IN request[i - 1]

LetsPass(p, i, r) == Allows(p[i], Before(p, i, r))

AnswersHealth(p, i, r) ==
    /\ p[i].kind = "health"
    /\ IsHealthCheck(p[i].cfg, Before(p, i, r).request_path)

Entitled(p, r, throttled) ==
    /\ throttled = {}
    /\ \A i \in DOMAIN p :
          /\ LetsPass(p, i, r) \/ Overwritten(p, i)
          /\ ~AnswersHealth(p, i, r)

(* Whatever hooks are deployed and in whatever order, a request goes to    *)
(* the upstream if and only if every gate allows it as the hooks in front  *)
(* of the gate left it, a claim in a header the gate reads included, and   *)
(* no health endpoint answered it; of several API key hooks, or of several *)
(* address hooks, only the last one counts.                                *)
ForwardedIffEntitled ==
    \A w \in Caller :
        handler[w].phase \in {"calling", "post"} =>
            (handler[w].forwarded <=>
                Entitled(deployed.pre, handler[w].request,
                         handler[w].throttled))

RejectStatus(h) ==
    CASE h.kind = "jwt"  -> 401
      [] h.kind = "size" -> 413
      [] h.kind = "rate" -> 429
      [] h.kind \in {"signing", "geo", "tls", "query"} -> h.cfg.reject_status

StatusSaidBy(p, r, throttled) ==
    {i \in DOMAIN p :
        \/ /\ p[i].kind \in {"jwt", "signing", "geo", "tls", "size"}
           /\ ~LetsPass(p, i, r)
        \/ i \in throttled}

ResponseSaidBy(p, r) ==
    {i \in DOMAIN p : \/ p[i].kind = "query" /\ ~LetsPass(p, i, r)
                      \/ AnswersHealth(p, i, r)}

(* Before the upstream would be called, the status and the body are those  *)
(* of one hook, the last that refused the request, and ctx.response is     *)
(* that of the last hook that gave one, each judging the request as the    *)
(* hooks in front of it left it; none is there unasked.  The headers are   *)
(* not covered: the challenge of a JWT hook stays behind a later refusal.  *)
LastRefusalSpeaks ==
    \A w \in Caller :
        Through(handler[w], "pre") =>
            LET c == handler[w].ctx
                p == deployed.pre
                S == StatusSaidBy(p, handler[w].request, handler[w].throttled)
                R == ResponseSaidBy(p, handler[w].request)
            IN /\ IF S = {}
                  THEN c.response_status = 0 /\ c.response_body = NoBody
                  ELSE /\ c.response_status = RejectStatus(p[Max(S)])
                       /\ c.response_body = Note(p[Max(S)].kind)
               /\ IF R = {} THEN c.response = NoResponse
                  ELSE c.response =
                         [status |-> IF p[Max(R)].kind = "health" THEN 200
                                     ELSE RejectStatus(p[Max(R)]),
                          from |-> p[Max(R)].kind]

UnderWay(r) == {w \in Caller : /\ Busy(w) /\ handler[w].recorded
                               /\ RouteId(handler[w].ctx) = r}

(* The size limit stands behind the metrics hook.                          *)
LimitBehindMetrics ==
    \E i, j \in DOMAIN deployed.post :
        /\ i < j
        /\ deployed.post[i].kind = "metrics" /\ deployed.post[j].kind = "limit"

Counters == {i \in DOMAIN deployed.post : deployed.post[i].kind = "metrics"}

(* Of each route the collector, behind a single hook, knows the requests   *)
(* that have passed it since it was last reset, each once, and when none   *)
(* is under way, it has called an error just those whose last status was   *)
(* one; it misses the 502s of a size limit that stands behind it.          *)
ErrorsMatchAnswers ==
    Cardinality(Counters) <= 1 => \A r \in Route :
        /\ stats[r].requests = seen[r].requests + Cardinality(UnderWay(r))
        /\ UnderWay(r) = {} =>
             IF LimitBehindMetrics THEN stats[r].errors <= seen[r].errors
             ELSE stats[r].errors = seen[r].errors

Touched(h) == \/ h.ctx.response_body.gzips > h.answer.body.gzips
              \/ h.ctx.response_body.from = "limit"

Gzips == {i \in DOMAIN deployed.post : deployed.post[i].kind = "gzip"}

(* An answer whose body a hook has changed declares the length of the body *)
(* it has, or none, under the canonical name, an untouched one what the    *)
(* upstream declared; and the body is gzipped, once, just if the answer    *)
(* says so.  The last is not so for a body that was gzipped when it came,  *)
(* or was said to be, or with two compression hooks.                       *)
HonestAnswer ==
    \A w \in Caller :
        Through(handler[w], "post") =>
            LET h == handler[w]
                b == h.ctx.response_body
                d == h.ctx.response_headers
            IN /\ IF Touched(h) THEN d.length \subseteq {b.size}
                  ELSE h.forwarded => d = h.answer.headers
               /\ h.answer.body.gzips = 0 /\ h.answer.headers.encoding # "gzip"
                    /\ Cardinality(Gzips) <= 1 =>
                    b.gzips = (IF d.encoding = "gzip" THEN 1 ELSE 0)

(* A body behind an enabled size limit that no compression follows is no   *)
(* longer than the limit, unless it is the limit's own text or came from   *)
(* the upstream with a Content-Length that understated it.                 *)
LimitHeld ==
    \A w \in Caller : \A i \in DOMAIN deployed.post :
        /\ Through(handler[w], "post")
        /\ deployed.post[i].kind = "limit" /\ deployed.post[i].cfg.enabled
        /\ \A j \in Gzips : j < i
        => LET h == handler[w]
               b == h.ctx.response_body
           IN \/ b.size <= deployed.post[i].cfg.max_bytes
              \/ b.from = "limit"
              \/ ~Touched(h) /\ \E n \in ContentLength(h.ctx) : n < b.size
=============================================================================
