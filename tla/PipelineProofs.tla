--------------------------- MODULE PipelineProofs ---------------------------
(***************************************************************************)
(* Proofs about Pipeline, for any hooks in any order, any requests and any *)
(* number of threads: what is forwarded, what a refused client is told,    *)
(* what an answer says of itself and what the collector counts.            *)
(***************************************************************************)
EXTENDS Pipeline, FiniteSetTheorems, WellFoundedInduction, TLAPS

-----------------------------------------------------------------------------
(* What one pre hook does to a context.                                    *)

ContextFields ==
    {"path", "request_path", "method", "keys", "scheme", "headers", "params",
     "remote_addr", "target", "auth_ok", "ip_blocked", "skip_upstream",
     "short_circuit", "response", "response_status", "response_body",
     "response_headers"}

(* c stands for the request r.                                             *)
SameRequest(c, r) ==
    /\ DOMAIN r = RequestFields
    /\ c.path = r.path /\ c.method = r.method /\ c.keys = r.keys
    /\ c.scheme = r.scheme /\ c.headers = r.headers /\ c.params = r.params
    /\ c.remote_addr = r.remote_addr /\ c.target = r.target
    /\ c.request_path = r.request_path

(* A gate reads no more of a context than the request.                     *)
LEMMA AllowsTheRequest ==
    ASSUME NEW h, NEW c, NEW r, SameRequest(c, r)
    PROVE  Allows(h, c) <=> Allows(h, r)
<1>1. /\ c.path = r.path /\ c.method = r.method /\ c.keys = r.keys
      /\ c.scheme = r.scheme /\ c.headers = r.headers /\ c.params = r.params
      /\ c.remote_addr = r.remote_addr
  BY DEF SameRequest
<1>2. IsAuthenticated(h.cfg, c) <=> IsAuthenticated(h.cfg, r)
  BY <1>1 DEF IsAuthenticated, ExtractApiKey
<1>3. JWTAllows(h.cfg, c) <=> JWTAllows(h.cfg, r)
  BY <1>1 DEF JWTAllows, Prefixed, Decodes, Raw
<1>4. SigningAllows(h.cfg, c) <=> SigningAllows(h.cfg, r)
  BY <1>1 DEF SigningAllows, Signed, Timely
<1>5. IPAllows(h.cfg, c) <=> IPAllows(h.cfg, r)
  BY <1>1 DEF IPAllows, ClientIP
<1>6. GeoAllows(h.cfg, c) <=> GeoAllows(h.cfg, r)
  BY <1>1 DEF GeoAllows
<1>7. TLSAllows(h.cfg, c) <=> TLSAllows(h.cfg, r)
  BY <1>1 DEF TLSAllows
<1>8. QueryAllows(h.cfg, c) <=> QueryAllows(h.cfg, r)
  BY <1>1 DEF QueryAllows
<1>9. SizeAllows(h.cfg, c) <=> SizeAllows(h.cfg, r)
  BY <1>1 DEF SizeAllows
<1> QED
  BY <1>2, <1>3, <1>4, <1>5, <1>6, <1>7, <1>8, <1>9 DEF Allows

(* The hook h writes a refusal to the status and the body ...              *)
SaysStatus(h, c, allowed) ==
    \/ h.kind \in {"jwt", "signing", "geo", "tls", "size"} /\ ~Allows(h, c)
    \/ h.kind = "rate" /\ ~allowed

(* ... or to the response, or answers in it.                               *)
SaysResponse(h, c) ==
    \/ h.kind = "query" /\ ~Allows(h, c)
    \/ h.kind = "health" /\ IsHealthCheck(h.cfg, c.request_path)

ResponseOf(h) == [status |-> IF h.kind = "health" THEN 200 ELSE RejectStatus(h),
                  from |-> h.kind]

LEMMA RefuseFacts ==
    ASSUME NEW c, DOMAIN c = ContextFields, NEW status, NEW g
    PROVE  LET d == Refuse(c, status, g) IN
           /\ DOMAIN d = ContextFields
           /\ d.response_status = status /\ d.response_body = Note(g)
           /\ \A f \in ContextFields \ {"response_status", "response_body"} :
                d[f] = c[f]
  BY DEF Refuse, ContextFields

(* d is c with the fields in F written.                                    *)
Writes(d, c, F) ==
    /\ DOMAIN d = ContextFields
    /\ \A f \in ContextFields \ F : d[f] = c[f]

(* What calling the hook h with the context c makes of it, d.              *)
PreHookEffect(h, c, allowed, d) ==
    /\ h.kind = "auth" =>
         /\ Writes(d, c, {"auth_ok"})
         /\ d.auth_ok = IF Allows(h, c) THEN "yes" ELSE "no"
    /\ h.kind = "ip" /\ ~h.cfg.enabled => d = c /\ Allows(h, c)
    /\ h.kind = "ip" /\ h.cfg.enabled =>
         /\ Writes(d, c, {"ip_blocked"})
         /\ d.ip_blocked = IF Allows(h, c) THEN "no" ELSE "yes"
    /\ SaysStatus(h, c, allowed) =>
         /\ Writes(d, c, {"response_status", "response_body",
                          "response_headers", "skip_upstream",
                          "short_circuit"})
         /\ d.response_status = RejectStatus(h)
         /\ d.response_body = Note(h.kind)
         /\ d.response_headers \in {c.response_headers, TextPlain}
    /\ SaysResponse(h, c) =>
         /\ Writes(d, c, {"response"})
         /\ d.response = ResponseOf(h)
    /\ h.kind = "rewrite" =>
         /\ Writes(d, c, {"request_path"})
         /\ d.request_path = Rewritten(h.cfg, c.request_path)
    /\ h.kind = "jwt" /\ Allows(h, c) =>
         /\ Writes(d, c, {"headers"})
         /\ d.headers = Claimed(h.cfg, c)
    /\ h.kind \notin {"auth", "ip", "jwt", "rewrite"}
       /\ ~SaysStatus(h, c, allowed) /\ ~SaysResponse(h, c) => d = c

LEMMA PreHookWrites ==
    ASSUME NEW h, h.kind \in PreKinds, h.kind # "transform",
           NEW c, DOMAIN c = ContextFields, NEW allowed \in BOOLEAN
    PROVE  PreHookEffect(h, c, allowed, Called(h, c, allowed))
<1> DEFINE d == Called(h, c, allowed)
<1>1. CASE h.kind = "auth"
  <2>1. d = Auth(h.cfg, c) /\ (Allows(h, c) <=> IsAuthenticated(h.cfg, c))
    BY <1>1 DEF Called, Allows
  <2>2. /\ Writes(Auth(h.cfg, c), c, {"auth_ok"})
        /\ Auth(h.cfg, c).auth_ok =
             IF IsAuthenticated(h.cfg, c) THEN "yes" ELSE "no"
    BY DEF Auth, Writes, ContextFields
  <2>3. ~SaysStatus(h, c, allowed) /\ ~SaysResponse(h, c)
    BY <1>1 DEF SaysStatus, SaysResponse
  <2> QED  BY <1>1, <2>1, <2>2, <2>3 DEF PreHookEffect
<1> DEFINE Answering == {"response_status", "response_body",
                         "response_headers", "skip_upstream", "short_circuit"}
<1>2. CASE h.kind = "ip"
  <2>1. d = IPAllowlist(h.cfg, c) /\ (Allows(h, c) <=> IPAllows(h.cfg, c))
    BY <1>2 DEF Called, Allows
  <2>2. ~h.cfg.enabled => IPAllowlist(h.cfg, c) = c /\ IPAllows(h.cfg, c)
    BY DEF IPAllowlist, IPAllows
  <2>3. h.cfg.enabled =>
          /\ Writes(IPAllowlist(h.cfg, c), c, {"ip_blocked"})
          /\ IPAllowlist(h.cfg, c).ip_blocked =
               IF IPAllows(h.cfg, c) THEN "no" ELSE "yes"
    BY DEF IPAllowlist, Writes, ContextFields
  <2>4. ~SaysStatus(h, c, allowed) /\ ~SaysResponse(h, c)
    BY <1>2 DEF SaysStatus, SaysResponse
  <2> QED  BY <1>2, <2>1, <2>2, <2>3, <2>4 DEF PreHookEffect
<1>3. CASE h.kind = "jwt"
  <2>1. d = JWT(h.cfg, c) /\ (Allows(h, c) <=> JWTAllows(h.cfg, c))
    BY <1>3 DEF Called, Allows
  <2>2. /\ JWTAllows(h.cfg, c) =>
             /\ Writes(JWT(h.cfg, c), c, {"headers"})
             /\ JWT(h.cfg, c).headers = Claimed(h.cfg, c)
        /\ ~JWTAllows(h.cfg, c) =>
             /\ Writes(JWT(h.cfg, c), c, Answering)
             /\ JWT(h.cfg, c).response_status = RejectStatus(h)
             /\ JWT(h.cfg, c).response_body = Note(h.kind)
             /\ JWT(h.cfg, c).response_headers \in {c.response_headers, TextPlain}
    BY <1>3, RefuseFacts DEF JWT, RejectStatus, Writes, ContextFields
  <2>3. /\ SaysStatus(h, c, allowed) <=> ~Allows(h, c)
        /\ ~SaysResponse(h, c)
    BY <1>3 DEF SaysStatus, SaysResponse
  <2> QED  BY <1>3, <2>1, <2>2, <2>3 DEF PreHookEffect
<1>4. CASE h.kind = "signing"
  <2>1. d = Signing(h.cfg, c) /\ (Allows(h, c) <=> SigningAllows(h.cfg, c))
    BY <1>4 DEF Called, Allows
  <2>2. /\ SigningAllows(h.cfg, c) => Signing(h.cfg, c) = c
        /\ ~SigningAllows(h.cfg, c) =>
             /\ Writes(Signing(h.cfg, c), c, Answering)
             /\ Signing(h.cfg, c).response_status = RejectStatus(h)
             /\ Signing(h.cfg, c).response_body = Note(h.kind)
             /\ Signing(h.cfg, c).response_headers \in {c.response_headers, TextPlain}
    BY <1>4, RefuseFacts DEF Signing, RejectStatus, Writes, ContextFields
  <2>3. /\ SaysStatus(h, c, allowed) <=> ~Allows(h, c)
        /\ ~SaysResponse(h, c)
    BY <1>4 DEF SaysStatus, SaysResponse
  <2> QED  BY <1>4, <2>1, <2>2, <2>3 DEF PreHookEffect
<1>5. CASE h.kind = "geo"
  <2>1. d = GeoBlock(h.cfg, c) /\ (Allows(h, c) <=> GeoAllows(h.cfg, c))
    BY <1>5 DEF Called, Allows
  <2>2. /\ GeoAllows(h.cfg, c) => GeoBlock(h.cfg, c) = c
        /\ ~GeoAllows(h.cfg, c) =>
             /\ Writes(GeoBlock(h.cfg, c), c, Answering)
             /\ GeoBlock(h.cfg, c).response_status = RejectStatus(h)
             /\ GeoBlock(h.cfg, c).response_body = Note(h.kind)
             /\ GeoBlock(h.cfg, c).response_headers \in {c.response_headers, TextPlain}
    BY <1>5, RefuseFacts DEF GeoBlock, RejectStatus, Writes, ContextFields
  <2>3. /\ SaysStatus(h, c, allowed) <=> ~Allows(h, c)
        /\ ~SaysResponse(h, c)
    BY <1>5 DEF SaysStatus, SaysResponse
  <2> QED  BY <1>5, <2>1, <2>2, <2>3 DEF PreHookEffect
<1>6. CASE h.kind = "tls"
  <2>1. d = TLSVerify(h.cfg, c) /\ (Allows(h, c) <=> TLSAllows(h.cfg, c))
    BY <1>6 DEF Called, Allows
  <2>2. /\ TLSAllows(h.cfg, c) => TLSVerify(h.cfg, c) = c
        /\ ~TLSAllows(h.cfg, c) =>
             /\ Writes(TLSVerify(h.cfg, c), c, Answering)
             /\ TLSVerify(h.cfg, c).response_status = RejectStatus(h)
             /\ TLSVerify(h.cfg, c).response_body = Note(h.kind)
             /\ TLSVerify(h.cfg, c).response_headers \in {c.response_headers, TextPlain}
    BY <1>6, RefuseFacts DEF TLSVerify, RejectStatus, Writes, ContextFields
  <2>3. /\ SaysStatus(h, c, allowed) <=> ~Allows(h, c)
        /\ ~SaysResponse(h, c)
    BY <1>6 DEF SaysStatus, SaysResponse
  <2> QED  BY <1>6, <2>1, <2>2, <2>3 DEF PreHookEffect
<1>7. CASE h.kind = "size"
  <2>1. d = RequestSize(h.cfg, c) /\ (Allows(h, c) <=> SizeAllows(h.cfg, c))
    BY <1>7 DEF Called, Allows
  <2>2. /\ SizeAllows(h.cfg, c) => RequestSize(h.cfg, c) = c
        /\ ~SizeAllows(h.cfg, c) =>
             /\ Writes(RequestSize(h.cfg, c), c, Answering)
             /\ RequestSize(h.cfg, c).response_status = RejectStatus(h)
             /\ RequestSize(h.cfg, c).response_body = Note(h.kind)
             /\ RequestSize(h.cfg, c).response_headers \in {c.response_headers, TextPlain}
    <3> DEFINE e == Refuse(c, 413, "size")
    <3>1. /\ DOMAIN e = ContextFields
          /\ e.response_status = 413 /\ e.response_body = Note("size")
          /\ \A f \in ContextFields \ {"response_status", "response_body"} :
               e[f] = c[f]
      BY RefuseFacts
    <3>2. RequestSize(h.cfg, c) =
            IF SizeAllows(h.cfg, c) THEN c
            ELSE [e EXCEPT !.response_headers = TextPlain,
                           !.skip_upstream = TRUE]
      BY DEF RequestSize
    <3> HIDE DEF e
    <3>3. LET g == [e EXCEPT !.response_headers = TextPlain,
                             !.skip_upstream = TRUE] IN
          /\ Writes(g, c, Answering)
          /\ g.response_status = 413 /\ g.response_body = Note("size")
          /\ g.response_headers = TextPlain
      BY <3>1 DEF Writes, ContextFields
    <3> QED  BY <1>7, <3>2, <3>3 DEF RejectStatus
  <2>3. /\ SaysStatus(h, c, allowed) <=> ~Allows(h, c)
        /\ ~SaysResponse(h, c)
    BY <1>7 DEF SaysStatus, SaysResponse
  <2> QED  BY <1>7, <2>1, <2>2, <2>3 DEF PreHookEffect
<1>8. CASE h.kind = "rate"
  <2>1. d = RateLimit(allowed, c)
    BY <1>8 DEF Called
  <2>2. /\ allowed => RateLimit(allowed, c) = c
        /\ ~allowed =>
             /\ Writes(RateLimit(allowed, c), c, Answering)
             /\ RateLimit(allowed, c).response_status = RejectStatus(h)
             /\ RateLimit(allowed, c).response_body = Note(h.kind)
             /\ RateLimit(allowed, c).response_headers = c.response_headers
    BY <1>8, RefuseFacts DEF RateLimit, RejectStatus, Writes, ContextFields
  <2>3. (SaysStatus(h, c, allowed) <=> ~allowed) /\ ~SaysResponse(h, c)
    BY <1>8 DEF SaysStatus, SaysResponse
  <2> QED  BY <1>8, <2>1, <2>2, <2>3 DEF PreHookEffect
<1>9. CASE h.kind = "query"
  <2>1. d = QueryFilter(h.cfg, c) /\ (Allows(h, c) <=> QueryAllows(h.cfg, c))
    BY <1>9 DEF Called, Allows
  <2>2. /\ QueryAllows(h.cfg, c) => QueryFilter(h.cfg, c) = c
        /\ ~QueryAllows(h.cfg, c) =>
             /\ Writes(QueryFilter(h.cfg, c), c, {"response"})
             /\ QueryFilter(h.cfg, c).response = ResponseOf(h)
    BY <1>9 DEF QueryFilter, ResponseOf, RejectStatus, Writes, ContextFields
  <2>3. /\ ~SaysStatus(h, c, allowed)
        /\ SaysResponse(h, c) <=> ~Allows(h, c)
    BY <1>9 DEF SaysStatus, SaysResponse
  <2> QED  BY <1>9, <2>1, <2>2, <2>3 DEF PreHookEffect
<1>10. CASE h.kind = "health"
  <2>1. d = HealthEndpoint(h.cfg, c)
    BY <1>10 DEF Called
  <2>2. /\ ~IsHealthCheck(h.cfg, c.request_path) => HealthEndpoint(h.cfg, c) = c
        /\ IsHealthCheck(h.cfg, c.request_path) =>
             /\ Writes(HealthEndpoint(h.cfg, c), c, {"response"})
             /\ HealthEndpoint(h.cfg, c).response = ResponseOf(h)
    BY <1>10 DEF HealthEndpoint, ResponseOf, Writes, ContextFields
  <2>3. /\ ~SaysStatus(h, c, allowed)
        /\ SaysResponse(h, c) <=> IsHealthCheck(h.cfg, c.request_path)
    BY <1>10 DEF SaysStatus, SaysResponse
  <2> QED  BY <1>10, <2>1, <2>2, <2>3 DEF PreHookEffect
<1>11. CASE h.kind = "rewrite"
  <2>1. d = PathRewrite(h.cfg, c)
    BY <1>11 DEF Called
  <2>2. /\ Writes(PathRewrite(h.cfg, c), c, {"request_path"})
        /\ PathRewrite(h.cfg, c).request_path = Rewritten(h.cfg, c.request_path)
    BY DEF PathRewrite, Writes, ContextFields
  <2>3. ~SaysStatus(h, c, allowed) /\ ~SaysResponse(h, c)
    BY <1>11 DEF SaysStatus, SaysResponse
  <2> QED  BY <1>11, <2>1, <2>2, <2>3 DEF PreHookEffect
<1>12. CASE h.kind \in {"metrics", "retry"}
  <2>1. d = c
    BY <1>12 DEF Called
  <2>2. ~SaysStatus(h, c, allowed) /\ ~SaysResponse(h, c)
    BY <1>12 DEF SaysStatus, SaysResponse
  <2> QED  BY <1>12, <2>1, <2>2 DEF PreHookEffect
<1> QED
  BY <1>1, <1>2, <1>3, <1>4, <1>5, <1>6, <1>7, <1>8, <1>9, <1>10, <1>11, <1>12
  DEF PreKinds

-----------------------------------------------------------------------------
(* The request as the hooks leave it.                                      *)

LEMMA LeastNumber ==
    ASSUME NEW T \in SUBSET Nat, T # {}
    PROVE  \E n \in T : \A m \in T : n <= m
<1>1. PICK n \in T : \A m \in T : <<m, n>> \notin OpToRel(<, Nat)
  BY WFMin, NatLessThanWellFounded
<1>2. OpToRel(<, Nat) = {ss \in Nat \X Nat : ss[1] < ss[2]}
  BY DEF OpToRel
<1>3. ASSUME NEW m \in T  PROVE n <= m
  <2>1. m \in Nat /\ n \in Nat /\ ~ (m < n)
    BY <1>1, <1>2
  <2> QED  BY <2>1
<1> QED  BY <1>3

(* The request behind each of the first N hooks.                           *)
IsHistory(f, p, r, N) ==
    /\ f = [n \in 0..N |-> f[n]]
    /\ f[0] = r
    /\ \A n \in 1..N : f[n] = Left(p[n], f[n - 1])

LEMMA HistoryExists ==
    ASSUME NEW p, NEW r
    PROVE  \A N \in Nat : \E f : IsHistory(f, p, r, N)
<1> DEFINE T == {N \in Nat : ~ \E f : IsHistory(f, p, r, N)}
<1> SUFFICES ASSUME T # {}  PROVE FALSE
  OBVIOUS
<1>1. PICK N \in T : \A m \in T : N <= m
  BY LeastNumber
<1>2. CASE N = 0
  <2>1. IsHistory([n \in 0..0 |-> r], p, r, 0)
    BY DEF IsHistory
  <2> QED  BY <1>1, <1>2, <2>1
<1>3. CASE N # 0
  <2>1. N \in Nat /\ N - 1 \in Nat /\ N - 1 \notin T
    BY <1>1, <1>3
  <2>2. PICK f : IsHistory(f, p, r, N - 1)
    BY <2>1
  <2> DEFINE g == [n \in 0..N |-> IF n = N THEN Left(p[N], f[N - 1]) ELSE f[n]]
  <2>3. g[0] = r
    BY <1>3, <2>1, <2>2 DEF IsHistory
  <2>4. ASSUME NEW n \in 1..N  PROVE g[n] = Left(p[n], g[n - 1])
    <3>1. n \in 0..N /\ n - 1 \in 0..N /\ n - 1 # N
      BY <2>1
    <3>2. g[n - 1] = f[n - 1]
      BY <3>1
    <3>3. CASE n = N
      <4>1. g[n] = Left(p[n], f[n - 1])
        BY <3>1, <3>3
      <4> QED  BY <3>2, <4>1
    <3>4. CASE n # N
      <4>1. n \in 1..(N - 1)
        BY <2>1, <3>4
      <4>2. f[n] = Left(p[n], f[n - 1])
        BY <2>2, <4>1 DEF IsHistory
      <4>3. g[n] = f[n]
        BY <3>1, <3>4
      <4> QED  BY <3>2, <4>2, <4>3
    <3> QED  BY <3>3, <3>4
  <2>5. g = [n \in 0..N |-> g[n]]
    OBVIOUS
  <2> HIDE DEF g
  <2>6. IsHistory(g, p, r, N)
    BY <2>3, <2>4, <2>5 DEF IsHistory
  <2> QED  BY <1>1, <2>6
<1> QED  BY <1>2, <1>3

LEMMA BeforeFacts ==
    ASSUME NEW p, Len(p) \in Nat, NEW r
    PROVE  /\ Before(p, 1, r) = r
           /\ \A i \in 1..Len(p) :
                Before(p, i + 1, r) = Left(p[i], Before(p, i, r))
<1> DEFINE P(f) == f = [n \in 0..Len(p) |->
                          IF n = 0 THEN r ELSE Left(p[n], f[n - 1])]
           request == CHOOSE f : P(f)
<1>1. PICK g : IsHistory(g, p, r, Len(p))
  BY HistoryExists
<1>2. P(g)
  <2>1. \A n \in 0..Len(p) :
          g[n] = IF n = 0 THEN r ELSE Left(p[n], g[n - 1])
    BY <1>1 DEF IsHistory
  <2> QED  BY <1>1, <2>1 DEF IsHistory
<1>3. P(request)
  <2> HIDE DEF P
  <2> QED  BY <1>2
<1>4. \A i : Before(p, i, r) = request[i - 1]
  BY DEF Before
<1> HIDE DEF request
<1>5. request[0] = r
  BY <1>3
<1>6. ASSUME NEW i \in 1..Len(p)
      PROVE  request[i] = Left(p[i], request[i - 1])
  <2>1. i \in 0..Len(p) /\ i # 0
    OBVIOUS
  <2> QED  BY <1>3, <2>1
<1> HIDE DEF P
<1>7. \A i \in 1..Len(p) : (i + 1) - 1 = i
  OBVIOUS
<1> QED  BY <1>4, <1>5, <1>6, <1>7

-----------------------------------------------------------------------------
(* What the pre hooks before place i have left, of those p of a pipeline,  *)
(* for a request r that the rate hooks at the places T turned away.        *)

(* The last API key hook, or the last enabled address hook, refused.       *)
AuthDenied(p, i, r) ==
    \E j \in DOMAIN p :
        /\ j < i /\ p[j].kind = "auth" /\ ~LetsPass(p, j, r)
        /\ \A k \in DOMAIN p : j < k /\ k < i => p[k].kind # "auth"

IPDenied(p, i, r) ==
    \E j \in DOMAIN p :
        /\ j < i /\ p[j].kind = "ip" /\ ~LetsPass(p, j, r)
        /\ \A k \in DOMAIN p :
             j < k /\ k < i => ~(p[k].kind = "ip" /\ p[k].cfg.enabled)

Refusals(p, i, r, T) == {j \in StatusSaidBy(p, r, T) : j < i}
Responses(p, i, r)   == {j \in ResponseSaidBy(p, r) : j < i}

IsLast(m, S) == m \in S /\ \A j \in S : j <= m

StatusIsLast(c, p, S) ==
    \/ S = {} /\ c.response_status = 0 /\ c.response_body = NoBody
    \/ \E m : /\ IsLast(m, S)
              /\ c.response_status = RejectStatus(p[m])
              /\ c.response_body = Note(p[m].kind)

ResponseIsLast(c, p, R) ==
    \/ R = {} /\ c.response = NoResponse
    \/ \E m : IsLast(m, R) /\ c.response = ResponseOf(p[m])

Judged(c, p, i, r, T) ==
    /\ DOMAIN c = ContextFields
    /\ SameRequest(c, Before(p, i, r))
    /\ (c.auth_ok = "no") <=> AuthDenied(p, i, r)
    /\ (c.ip_blocked = "yes") <=> IPDenied(p, i, r)
    /\ StatusIsLast(c, p, Refusals(p, i, r, T))
    /\ ResponseIsLast(c, p, Responses(p, i, r))
    /\ c.skip_upstream \/ c.short_circuit => Refusals(p, i, r, T) # {}
    /\ c.response_headers \in {NoHeaders, TextPlain}

IsPipeline(p) == p \in Seq(Hook) /\ \A i \in DOMAIN p : p[i].kind \in PreKinds

LEMMA NewContextJudged ==
    ASSUME NEW p, IsPipeline(p), NEW r, DOMAIN r = RequestFields
    PROVE  Judged(NewContext(r), p, 1, r, {})
<1> DEFINE c == NewContext(r)
<1>1. Len(p) \in Nat /\ \A j \in DOMAIN p : j \in Nat /\ ~ (j < 1)
  BY DEF IsPipeline
<1>2. Refusals(p, 1, r, {}) = {} /\ Responses(p, 1, r) = {}
  BY <1>1 DEF Refusals, Responses, StatusSaidBy, ResponseSaidBy
<1>3. ~AuthDenied(p, 1, r) /\ ~IPDenied(p, 1, r)
  BY <1>1 DEF AuthDenied, IPDenied
<1>4. /\ DOMAIN c = ContextFields /\ SameRequest(c, r)
      /\ c.auth_ok = "unset" /\ c.ip_blocked = "unset"
      /\ c.response_status = 0 /\ c.response_body = NoBody
      /\ c.response = NoResponse /\ c.response_headers = NoHeaders
      /\ ~c.skip_upstream /\ ~c.short_circuit
  BY DEF NewContext, ContextFields, SameRequest
<1>5. Before(p, 1, r) = r
  BY <1>1, BeforeFacts
<1> HIDE DEF c
<1>6. Judged(c, p, 1, r, {})
  BY <1>2, <1>3, <1>4, <1>5 DEF Judged, StatusIsLast, ResponseIsLast
<1> QED  BY <1>6 DEF c

(* The last place of a set that place i joins or does not.                 *)
LEMMA LastFacts ==
    ASSUME NEW S, NEW i \in Nat, \A j \in S : j \in Nat /\ j < i
    PROVE  IsLast(i, S \union {i})
  BY DEF IsLast

(* One hook further, the context is that of one hook more.                 *)
LEMMA HookJudged ==
    ASSUME NEW p, IsPipeline(p), NEW i \in DOMAIN p, NEW r, NEW T, NEW c,
           \A j \in T : j \in DOMAIN p /\ j < i,
           Judged(c, p, i, r, T), p[i].kind # "transform",
           NEW allowed \in BOOLEAN, ~allowed => p[i].kind = "rate"
    PROVE  Judged(Called(p[i], c, allowed), p, i + 1, r,
                  IF allowed THEN T ELSE T \union {i})
<1> DEFINE g == p[i]
           d == Called(g, c, allowed)
           T2 == IF allowed THEN T ELSE T \union {i}
           S == Refusals(p, i, r, T)
           S2 == Refusals(p, i + 1, r, T2)
           R == Responses(p, i, r)
           R2 == Responses(p, i + 1, r)
           r2 == Before(p, i, r)
           r3 == Before(p, i + 1, r)
<1>1. /\ Len(p) \in Nat /\ DOMAIN p = 1..Len(p) /\ i \in Nat /\ g.kind \in PreKinds
      /\ \A j \in DOMAIN p : (j < i + 1 <=> j < i \/ j = i) /\ (j < i => j # i)
  BY DEF IsPipeline
<1>2. DOMAIN c = ContextFields /\ SameRequest(c, r2)
  BY DEF Judged
<1>3. Allows(g, c) <=> LetsPass(p, i, r)
  BY <1>2, AllowsTheRequest DEF LetsPass
<1>4. SaysResponse(g, c) <=>
        \/ g.kind = "query" /\ ~LetsPass(p, i, r)
        \/ AnswersHealth(p, i, r)
  BY <1>2, <1>3 DEF SaysResponse, AnswersHealth, SameRequest
<1>5. S2 = IF SaysStatus(g, c, allowed) THEN S \union {i} ELSE S
  <2>1. \A j \in DOMAIN p : j < i => (j \in S2 <=> j \in S)
    BY <1>1 DEF Refusals, StatusSaidBy
  <2>2. i \in S2 <=> SaysStatus(g, c, allowed)
    BY <1>1, <1>3 DEF Refusals, StatusSaidBy, SaysStatus
  <2>3. i \notin S
    BY <1>1 DEF Refusals
  <2>4. /\ \A j \in S : j \in DOMAIN p /\ j < i
        /\ \A j \in S2 : j \in DOMAIN p /\ (j < i \/ j = i)
    BY <1>1 DEF Refusals, StatusSaidBy
  <2> HIDE DEF S, S2
  <2> QED  BY <2>1, <2>2, <2>3, <2>4
<1>6. R2 = IF SaysResponse(g, c) THEN R \union {i} ELSE R
  <2>1. \A j \in DOMAIN p : j < i => (j \in R2 <=> j \in R)
    BY <1>1 DEF Responses
  <2>2. i \in R2 <=> SaysResponse(g, c)
    BY <1>1, <1>4 DEF Responses, ResponseSaidBy
  <2>3. i \notin R
    BY <1>1 DEF Responses
  <2>4. /\ \A j \in R : j \in DOMAIN p /\ j < i
        /\ \A j \in R2 : j \in DOMAIN p /\ (j < i \/ j = i)
    BY <1>1 DEF Responses, ResponseSaidBy
  <2> HIDE DEF R, R2
  <2> QED  BY <2>1, <2>2, <2>3, <2>4
<1>7. /\ g.kind = "auth" =>
           (AuthDenied(p, i + 1, r) <=> ~LetsPass(p, i, r))
      /\ g.kind # "auth" =>
           (AuthDenied(p, i + 1, r) <=> AuthDenied(p, i, r))
  <2>1. ASSUME g.kind = "auth"
        PROVE  AuthDenied(p, i + 1, r) <=> ~LetsPass(p, i, r)
    <3>1. ASSUME ~LetsPass(p, i, r)  PROVE AuthDenied(p, i + 1, r)
      <4>1. \A k \in DOMAIN p : ~(i < k /\ k < i + 1)
        BY <1>1
      <4> QED  BY <1>1, <2>1, <3>1, <4>1 DEF AuthDenied
    <3>2. ASSUME AuthDenied(p, i + 1, r)  PROVE ~LetsPass(p, i, r)
      <4>1. PICK j \in DOMAIN p :
              /\ j < i + 1 /\ ~LetsPass(p, j, r)
              /\ \A k \in DOMAIN p : j < k /\ k < i + 1 => p[k].kind # "auth"
        BY <3>2 DEF AuthDenied
      <4>2. ~(j < i)
        BY <1>1, <2>1, <4>1
      <4> QED  BY <1>1, <4>1, <4>2
    <3> QED  BY <3>1, <3>2
  <2>2. ASSUME g.kind # "auth"
        PROVE  AuthDenied(p, i + 1, r) <=> AuthDenied(p, i, r)
    BY <1>1, <2>2 DEF AuthDenied
  <2> QED  BY <2>1, <2>2
<1>8. /\ g.kind = "ip" /\ g.cfg.enabled =>
           (IPDenied(p, i + 1, r) <=> ~LetsPass(p, i, r))
      /\ g.kind # "ip" \/ ~g.cfg.enabled =>
           (IPDenied(p, i + 1, r) <=> IPDenied(p, i, r))
  <2>1. ASSUME g.kind = "ip", g.cfg.enabled
        PROVE  IPDenied(p, i + 1, r) <=> ~LetsPass(p, i, r)
    <3>1. ASSUME ~LetsPass(p, i, r)  PROVE IPDenied(p, i + 1, r)
      <4>1. \A k \in DOMAIN p : ~(i < k /\ k < i + 1)
        BY <1>1
      <4> QED  BY <1>1, <2>1, <3>1, <4>1 DEF IPDenied
    <3>2. ASSUME IPDenied(p, i + 1, r)  PROVE ~LetsPass(p, i, r)
      <4>1. PICK j \in DOMAIN p :
              /\ j < i + 1 /\ ~LetsPass(p, j, r)
              /\ \A k \in DOMAIN p : j < k /\ k < i + 1 =>
                   ~(p[k].kind = "ip" /\ p[k].cfg.enabled)
        BY <3>2 DEF IPDenied
      <4>2. ~(j < i)
        BY <1>1, <2>1, <4>1
      <4> QED  BY <1>1, <4>1, <4>2
    <3> QED  BY <3>1, <3>2
  <2>2. ASSUME g.kind # "ip" \/ ~g.cfg.enabled
        PROVE  IPDenied(p, i + 1, r) <=> IPDenied(p, i, r)
    <3>1. g.kind = "ip" => LetsPass(p, i, r)
      BY <2>2 DEF LetsPass, Allows, IPAllows
    <3> QED  BY <1>1, <2>2, <3>1 DEF IPDenied
  <2> QED  BY <2>1, <2>2
<1>9. r3 = Left(g, r2)
  BY <1>1, BeforeFacts
<1>10. /\ \A j \in S : j \in Nat /\ j < i
       /\ \A j \in R : j \in Nat /\ j < i
  BY <1>1 DEF Refusals, StatusSaidBy, Responses, ResponseSaidBy
<1>11. IsLast(i, S \union {i}) /\ IsLast(i, R \union {i})
  BY <1>1, <1>10, LastFacts
<1>12. /\ (c.auth_ok = "no") <=> AuthDenied(p, i, r)
       /\ (c.ip_blocked = "yes") <=> IPDenied(p, i, r)
       /\ StatusIsLast(c, p, S) /\ ResponseIsLast(c, p, R)
       /\ c.skip_upstream \/ c.short_circuit => S # {}
       /\ c.response_headers \in {NoHeaders, TextPlain}
  BY DEF Judged
<1>13. PreHookEffect(g, c, allowed, d)
  BY <1>1, <1>2, PreHookWrites
<1> HIDE DEF d, S, S2, R, R2, T2, r2, r3
<1> SUFFICES Judged(d, p, i + 1, r, T2)
  BY DEF d, T2
(* What is to be shown, by who writes it.                                  *)
<1>14. ASSUME DOMAIN d = ContextFields, SameRequest(d, r3),
              (d.auth_ok = "no") <=> AuthDenied(p, i + 1, r),
              (d.ip_blocked = "yes") <=> IPDenied(p, i + 1, r),
              StatusIsLast(d, p, S2), ResponseIsLast(d, p, R2),
              d.skip_upstream \/ d.short_circuit => S2 # {},
              d.response_headers \in {NoHeaders, TextPlain}
       PROVE  Judged(d, p, i + 1, r, T2)
  BY <1>14 DEF Judged, S2, R2, r3
<1>15. ASSUME d.response_status = c.response_status,
              d.response_body = c.response_body, S2 = S
       PROVE  StatusIsLast(d, p, S2)
  BY <1>12, <1>15 DEF StatusIsLast
<1>16. ASSUME d.response = c.response, R2 = R
       PROVE  ResponseIsLast(d, p, R2)
  BY <1>12, <1>16 DEF ResponseIsLast
<1>17. ASSUME g.kind # "rewrite", g.kind = "jwt" => ~Allows(g, c)
       PROVE  r3 = r2
  <2>1. ~(g.kind = "jwt" /\ JWTAllows(g.cfg, r2))
    BY <1>3, <1>17 DEF LetsPass, Allows, r2
  <2> QED  BY <1>9, <1>17, <2>1 DEF Left
<1>18. CASE g.kind = "auth"
  <2>1. /\ Writes(d, c, {"auth_ok"})
        /\ d.auth_ok = IF Allows(g, c) THEN "yes" ELSE "no"
        /\ ~SaysStatus(g, c, allowed) /\ ~SaysResponse(g, c)
    BY <1>13, <1>18 DEF PreHookEffect, SaysStatus, SaysResponse
  <2>2. /\ DOMAIN d = ContextFields /\ SameRequest(d, r2)
        /\ d.ip_blocked = c.ip_blocked
        /\ d.response_status = c.response_status
        /\ d.response_body = c.response_body /\ d.response = c.response
        /\ d.skip_upstream = c.skip_upstream
        /\ d.short_circuit = c.short_circuit
        /\ d.response_headers = c.response_headers
    BY <1>2, <2>1 DEF Writes, ContextFields, SameRequest
  <2>3. (d.auth_ok = "no") <=> AuthDenied(p, i + 1, r)
    BY <1>3, <1>7, <1>18, <2>1
  <2>4. (d.ip_blocked = "yes") <=> IPDenied(p, i + 1, r)
    BY <1>8, <1>12, <1>18, <2>2
  <2>5. StatusIsLast(d, p, S2)
    BY <1>5, <1>15, <2>1, <2>2
  <2>6. ResponseIsLast(d, p, R2)
    BY <1>6, <1>16, <2>1, <2>2
  <2>7. SameRequest(d, r3)
    BY <1>17, <1>18, <2>2
  <2>8. /\ d.skip_upstream \/ d.short_circuit => S2 # {}
        /\ d.response_headers \in {NoHeaders, TextPlain}
    BY <1>5, <1>12, <2>1, <2>2
  <2> QED  BY <1>14, <2>2, <2>3, <2>4, <2>5, <2>6, <2>7, <2>8
<1>19. CASE g.kind = "ip" /\ g.cfg.enabled
  <2>1. /\ Writes(d, c, {"ip_blocked"})
        /\ d.ip_blocked = IF Allows(g, c) THEN "no" ELSE "yes"
        /\ ~SaysStatus(g, c, allowed) /\ ~SaysResponse(g, c)
    BY <1>13, <1>19 DEF PreHookEffect, SaysStatus, SaysResponse
  <2>2. /\ DOMAIN d = ContextFields /\ SameRequest(d, r2)
        /\ d.auth_ok = c.auth_ok
        /\ d.response_status = c.response_status
        /\ d.response_body = c.response_body /\ d.response = c.response
        /\ d.skip_upstream = c.skip_upstream
        /\ d.short_circuit = c.short_circuit
        /\ d.response_headers = c.response_headers
    BY <1>2, <2>1 DEF Writes, ContextFields, SameRequest
  <2>3. (d.auth_ok = "no") <=> AuthDenied(p, i + 1, r)
    BY <1>7, <1>12, <1>19, <2>2
  <2>4. (d.ip_blocked = "yes") <=> IPDenied(p, i + 1, r)
    BY <1>3, <1>8, <1>19, <2>1
  <2>5. StatusIsLast(d, p, S2)
    BY <1>5, <1>15, <2>1, <2>2
  <2>6. ResponseIsLast(d, p, R2)
    BY <1>6, <1>16, <2>1, <2>2
  <2>7. SameRequest(d, r3)
    BY <1>17, <1>19, <2>2
  <2>8. /\ d.skip_upstream \/ d.short_circuit => S2 # {}
        /\ d.response_headers \in {NoHeaders, TextPlain}
    BY <1>5, <1>12, <2>1, <2>2
  <2> QED  BY <1>14, <2>2, <2>3, <2>4, <2>5, <2>6, <2>7, <2>8
<1>20. CASE SaysStatus(g, c, allowed)
  <2>1. /\ Writes(d, c, {"response_status", "response_body",
                         "response_headers", "skip_upstream",
                         "short_circuit"})
        /\ d.response_status = RejectStatus(g)
        /\ d.response_body = Note(g.kind)
        /\ d.response_headers \in {c.response_headers, TextPlain}
    BY <1>13, <1>20 DEF PreHookEffect
  <2>2. g.kind \notin {"auth", "ip", "rewrite"} /\ ~SaysResponse(g, c)
    BY <1>20 DEF SaysStatus, SaysResponse
  <2>3. /\ DOMAIN d = ContextFields /\ SameRequest(d, r2)
        /\ d.auth_ok = c.auth_ok /\ d.ip_blocked = c.ip_blocked
        /\ d.response = c.response
    BY <1>2, <2>1 DEF Writes, ContextFields, SameRequest
  <2>4. /\ (d.auth_ok = "no") <=> AuthDenied(p, i + 1, r)
        /\ (d.ip_blocked = "yes") <=> IPDenied(p, i + 1, r)
    BY <1>7, <1>8, <1>12, <2>2, <2>3
  <2>5. StatusIsLast(d, p, S2) /\ S2 # {}
    <3>1. S2 = S \union {i}
      BY <1>5, <1>20
    <3> QED  BY <1>11, <2>1, <3>1 DEF StatusIsLast
  <2>6. d.response_headers \in {NoHeaders, TextPlain}
    BY <1>12, <2>1
  <2>7. ResponseIsLast(d, p, R2)
    BY <1>6, <1>16, <2>2, <2>3
  <2>8. SameRequest(d, r3)
    BY <1>17, <1>20, <2>2, <2>3 DEF SaysStatus
  <2> QED  BY <1>14, <2>3, <2>4, <2>5, <2>6, <2>7, <2>8
<1>21. CASE SaysResponse(g, c)
  <2>1. Writes(d, c, {"response"}) /\ d.response = ResponseOf(g)
    BY <1>13, <1>21 DEF PreHookEffect
  <2>2. /\ g.kind \notin {"auth", "ip", "rewrite"}
        /\ ~SaysStatus(g, c, allowed)
    BY <1>21 DEF SaysStatus, SaysResponse
  <2>3. /\ DOMAIN d = ContextFields /\ SameRequest(d, r2)
        /\ d.auth_ok = c.auth_ok /\ d.ip_blocked = c.ip_blocked
        /\ d.response_status = c.response_status
        /\ d.response_body = c.response_body
        /\ d.skip_upstream = c.skip_upstream
        /\ d.short_circuit = c.short_circuit
        /\ d.response_headers = c.response_headers
    BY <1>2, <2>1 DEF Writes, ContextFields, SameRequest
  <2>4. /\ (d.auth_ok = "no") <=> AuthDenied(p, i + 1, r)
        /\ (d.ip_blocked = "yes") <=> IPDenied(p, i + 1, r)
    BY <1>7, <1>8, <1>12, <2>2, <2>3
  <2>5. ResponseIsLast(d, p, R2)
    <3>1. R2 = R \union {i}
      BY <1>6, <1>21
    <3> QED  BY <1>11, <2>1, <3>1 DEF ResponseIsLast
  <2>6. StatusIsLast(d, p, S2)
    BY <1>5, <1>15, <2>2, <2>3
  <2>7. SameRequest(d, r3)
    BY <1>17, <1>21, <2>2, <2>3 DEF SaysResponse
  <2>8. /\ d.skip_upstream \/ d.short_circuit => S2 # {}
        /\ d.response_headers \in {NoHeaders, TextPlain}
    BY <1>5, <1>12, <2>2, <2>3
  <2> QED  BY <1>14, <2>3, <2>4, <2>5, <2>6, <2>7, <2>8
<1>22. CASE g.kind = "rewrite"
  <2>1. /\ Writes(d, c, {"request_path"})
        /\ d.request_path = Rewritten(g.cfg, c.request_path)
        /\ ~SaysStatus(g, c, allowed) /\ ~SaysResponse(g, c)
    BY <1>13, <1>22 DEF PreHookEffect, SaysStatus, SaysResponse
  <2>2. /\ DOMAIN d = ContextFields
        /\ d.auth_ok = c.auth_ok /\ d.ip_blocked = c.ip_blocked
        /\ d.response_status = c.response_status
        /\ d.response_body = c.response_body /\ d.response = c.response
        /\ d.skip_upstream = c.skip_upstream
        /\ d.short_circuit = c.short_circuit
        /\ d.response_headers = c.response_headers
    BY <1>2, <2>1 DEF Writes, ContextFields
  <2>3. /\ (d.auth_ok = "no") <=> AuthDenied(p, i + 1, r)
        /\ (d.ip_blocked = "yes") <=> IPDenied(p, i + 1, r)
    BY <1>7, <1>8, <1>12, <1>22, <2>2
  <2>4. StatusIsLast(d, p, S2)
    BY <1>5, <1>15, <2>1, <2>2
  <2>5. ResponseIsLast(d, p, R2)
    BY <1>6, <1>16, <2>1, <2>2
  <2>6. /\ d.skip_upstream \/ d.short_circuit => S2 # {}
        /\ d.response_headers \in {NoHeaders, TextPlain}
    BY <1>5, <1>12, <2>1, <2>2
  <2>7. SameRequest(d, r3)
    <3>1. r3 = [r2 EXCEPT !.request_path = Rewritten(g.cfg, @)]
      BY <1>9, <1>22 DEF Left
    <3>2. DOMAIN r2 = RequestFields /\ c.request_path = r2.request_path
      BY <1>2 DEF SameRequest
    <3>3. /\ DOMAIN r3 = RequestFields
          /\ r3.request_path = Rewritten(g.cfg, c.request_path)
          /\ \A k \in RequestFields \ {"request_path"} : r3[k] = r2[k]
      BY <3>1, <3>2 DEF RequestFields
    <3>4. \A k \in RequestFields \ {"request_path"} : d[k] = c[k]
      BY <2>1 DEF Writes, RequestFields, ContextFields
    <3> QED  BY <1>2, <2>1, <3>3, <3>4 DEF SameRequest, RequestFields
  <2> QED  BY <1>14, <2>2, <2>3, <2>4, <2>5, <2>6, <2>7
<1>24. CASE g.kind = "jwt" /\ Allows(g, c)
  <2>1. /\ Writes(d, c, {"headers"})
        /\ d.headers = Claimed(g.cfg, c)
        /\ ~SaysStatus(g, c, allowed) /\ ~SaysResponse(g, c)
    BY <1>13, <1>24 DEF PreHookEffect, SaysStatus, SaysResponse
  <2>2. /\ DOMAIN d = ContextFields
        /\ d.auth_ok = c.auth_ok /\ d.ip_blocked = c.ip_blocked
        /\ d.response_status = c.response_status
        /\ d.response_body = c.response_body /\ d.response = c.response
        /\ d.skip_upstream = c.skip_upstream
        /\ d.short_circuit = c.short_circuit
        /\ d.response_headers = c.response_headers
    BY <1>2, <2>1 DEF Writes, ContextFields
  <2>3. /\ (d.auth_ok = "no") <=> AuthDenied(p, i + 1, r)
        /\ (d.ip_blocked = "yes") <=> IPDenied(p, i + 1, r)
    BY <1>7, <1>8, <1>12, <1>24, <2>2
  <2>4. StatusIsLast(d, p, S2)
    BY <1>5, <1>15, <2>1, <2>2
  <2>5. ResponseIsLast(d, p, R2)
    BY <1>6, <1>16, <2>1, <2>2
  <2>6. /\ d.skip_upstream \/ d.short_circuit => S2 # {}
        /\ d.response_headers \in {NoHeaders, TextPlain}
    BY <1>5, <1>12, <2>1, <2>2
  <2>7. SameRequest(d, r3)
    <3>1. r3 = [r2 EXCEPT !.headers = Claimed(g.cfg, r2)]
      BY <1>3, <1>9, <1>24 DEF Left, LetsPass, Allows, r2
    <3>2. DOMAIN r2 = RequestFields /\ c.headers = r2.headers
      BY <1>2 DEF SameRequest
    <3>3. Claimed(g.cfg, r2) = Claimed(g.cfg, c)
      BY <3>2 DEF Claimed, Raw
    <3>4. /\ DOMAIN r3 = RequestFields
          /\ r3.headers = Claimed(g.cfg, c)
          /\ \A k \in RequestFields \ {"headers"} : r3[k] = r2[k]
      BY <3>1, <3>2, <3>3 DEF RequestFields
    <3>5. \A k \in RequestFields \ {"headers"} : d[k] = c[k]
      BY <2>1 DEF Writes, RequestFields, ContextFields
    <3> QED  BY <1>2, <2>1, <3>4, <3>5 DEF SameRequest, RequestFields
  <2> QED  BY <1>14, <2>2, <2>3, <2>4, <2>5, <2>6, <2>7
<1>23. CASE /\ g.kind \notin {"auth", "rewrite"}
            /\ ~(g.kind = "jwt" /\ Allows(g, c))
            /\ ~(g.kind = "ip" /\ g.cfg.enabled)
            /\ ~SaysStatus(g, c, allowed) /\ ~SaysResponse(g, c)
  <2>1. d = c
    BY <1>13, <1>23 DEF PreHookEffect, SaysStatus
  <2>2. /\ (d.auth_ok = "no") <=> AuthDenied(p, i + 1, r)
        /\ (d.ip_blocked = "yes") <=> IPDenied(p, i + 1, r)
    BY <1>7, <1>8, <1>12, <1>23, <2>1
  <2>3. StatusIsLast(d, p, S2)
    BY <1>5, <1>15, <1>23, <2>1
  <2>4. ResponseIsLast(d, p, R2)
    BY <1>6, <1>16, <1>23, <2>1
  <2>5. SameRequest(d, r3)
    BY <1>2, <1>17, <1>23, <2>1
  <2>6. /\ d.skip_upstream \/ d.short_circuit => S2 # {}
        /\ d.response_headers \in {NoHeaders, TextPlain}
    BY <1>5, <1>12, <1>23, <2>1
  <2> QED  BY <1>14, <1>2, <2>1, <2>2, <2>3, <2>4, <2>5, <2>6
<1> QED
  BY <1>18, <1>19, <1>20, <1>21, <1>22, <1>23, <1>24

LEMMA RejectStatusFacts ==
    ASSUME NEW h \in Hook,
           h.kind \in {"jwt", "signing", "geo", "tls", "size", "rate", "query"}
    PROVE  RejectStatus(h) \in Nat /\ RejectStatus(h) # 0
<1>1. Accepted(h)
  BY PipelineAssumption
<1>2. \A n \in 400..599 : n \in Nat /\ n # 0
  OBVIOUS
<1>3. h.kind = "signing" => IsReject(h.cfg.reject_status)
  BY <1>1 DEF Accepted, RequestSigningConfig
<1>4. h.kind = "geo" => IsReject(h.cfg.reject_status)
  BY <1>1 DEF Accepted, GeoBlockConfig
<1>5. h.kind = "tls" => IsReject(h.cfg.reject_status)
  BY <1>1 DEF Accepted, TLSVerifyConfig
<1>6. h.kind = "query" => IsReject(h.cfg.reject_status)
  BY <1>1 DEF Accepted, QueryFilterConfig
<1>7. h.kind \in {"signing", "geo", "tls", "query"} =>
        h.cfg.reject_status \in Nat /\ h.cfg.reject_status # 0
  BY <1>2, <1>3, <1>4, <1>5, <1>6 DEF IsReject
<1> QED  BY <1>7 DEF RejectStatus

(* Behind the last pre hook: each sign is there if a hook left it.         *)
LEMMA SignsFacts ==
    ASSUME NEW p, IsPipeline(p), NEW r, NEW c, NEW T,
           \A j \in T : j \in DOMAIN p /\ p[j].kind = "rate",
           Judged(c, p, Len(p) + 1, r, T)
    PROVE  /\ Refusals(p, Len(p) + 1, r, T) = StatusSaidBy(p, r, T)
           /\ Responses(p, Len(p) + 1, r) = ResponseSaidBy(p, r)
           /\ c.response_status # 0 <=> StatusSaidBy(p, r, T) # {}
           /\ c.response # NoResponse <=> ResponseSaidBy(p, r) # {}
           /\ (c.auth_ok = "no") <=> AuthDenied(p, Len(p) + 1, r)
           /\ (c.ip_blocked = "yes") <=> IPDenied(p, Len(p) + 1, r)
           /\ c.skip_upstream \/ c.short_circuit => StatusSaidBy(p, r, T) # {}
<1> DEFINE S == StatusSaidBy(p, r, T)
           R == ResponseSaidBy(p, r)
<1>1. \A j \in DOMAIN p : j < Len(p) + 1 /\ p[j] \in Hook
  BY DEF IsPipeline
<1>2. Refusals(p, Len(p) + 1, r, T) = S
  BY <1>1 DEF Refusals, StatusSaidBy
<1>3. Responses(p, Len(p) + 1, r) = R
  BY <1>1 DEF Responses, ResponseSaidBy
<1>4. \A m \in S : RejectStatus(p[m]) # 0
  <2> SUFFICES ASSUME NEW m \in S  PROVE RejectStatus(p[m]) # 0
    OBVIOUS
  <2>1. m \in DOMAIN p
        /\ p[m].kind \in {"jwt", "signing", "geo", "tls", "size", "rate"}
    BY DEF StatusSaidBy
  <2> QED  BY <1>1, <2>1, RejectStatusFacts
<1>5. \A m \in R : ResponseOf(p[m]) # NoResponse
  <2> SUFFICES ASSUME NEW m \in R  PROVE ResponseOf(p[m]) # NoResponse
    OBVIOUS
  <2>1. m \in DOMAIN p /\ p[m].kind \in {"query", "health"}
    BY DEF ResponseSaidBy, AnswersHealth
  <2>2. ResponseOf(p[m]).status # 0
    <3>1. CASE p[m].kind = "health"
      <4>1. ResponseOf(p[m]).status = 200
        BY <3>1 DEF ResponseOf
      <4> QED  BY <4>1
    <3>2. CASE p[m].kind = "query"
      <4>1. RejectStatus(p[m]) # 0
        BY <1>1, <2>1, <3>2, RejectStatusFacts
      <4>2. ResponseOf(p[m]).status = RejectStatus(p[m])
        BY <3>2 DEF ResponseOf
      <4> QED  BY <4>1, <4>2
    <3> QED  BY <2>1, <3>1, <3>2
  <2> QED  BY <2>2 DEF NoResponse
<1> HIDE DEF S, R
<1>6. StatusIsLast(c, p, S) /\ ResponseIsLast(c, p, R)
  BY <1>2, <1>3 DEF Judged
<1>7. c.response_status # 0 <=> S # {}
  BY <1>4, <1>6 DEF StatusIsLast, IsLast
<1>8. c.response # NoResponse <=> R # {}
  BY <1>5, <1>6 DEF ResponseIsLast, IsLast
<1> QED  BY <1>2, <1>3, <1>7, <1>8 DEF S, R, Judged

(* The signs together are the verdict.                                     *)
LEMMA StoppedIffNotEntitled ==
    ASSUME NEW p, IsPipeline(p), NEW r, NEW c, NEW T,
           \A j \in T : j \in DOMAIN p /\ p[j].kind = "rate",
           Judged(c, p, Len(p) + 1, r, T)
    PROVE  Stopped(c) <=> ~Entitled(p, r, T)
<1> DEFINE S == StatusSaidBy(p, r, T)
           R == ResponseSaidBy(p, r)
<1>1. /\ c.response_status # 0 <=> S # {}
      /\ c.response # NoResponse <=> R # {}
      /\ (c.auth_ok = "no") <=> AuthDenied(p, Len(p) + 1, r)
      /\ (c.ip_blocked = "yes") <=> IPDenied(p, Len(p) + 1, r)
      /\ c.skip_upstream \/ c.short_circuit => S # {}
  BY SignsFacts
<1>2. \A j \in DOMAIN p : j < Len(p) + 1 /\ j \in Nat
  BY DEF IsPipeline
<1>3. ASSUME S # {}  PROVE ~Entitled(p, r, T)
  <2>1. PICK i \in DOMAIN p :
          \/ /\ p[i].kind \in {"jwt", "signing", "geo", "tls", "size"}
             /\ ~LetsPass(p, i, r)
          \/ i \in T
    BY <1>3 DEF StatusSaidBy
  <2> QED  BY <2>1 DEF Entitled, Overwritten
<1>4. ASSUME R # {}  PROVE ~Entitled(p, r, T)
  <2>1. PICK i \in DOMAIN p : \/ p[i].kind = "query" /\ ~LetsPass(p, i, r)
                              \/ AnswersHealth(p, i, r)
    BY <1>4 DEF ResponseSaidBy
  <2> QED  BY <2>1 DEF Entitled, Overwritten
<1>5. ASSUME AuthDenied(p, Len(p) + 1, r)  PROVE ~Entitled(p, r, T)
  <2>1. PICK j \in DOMAIN p :
          /\ p[j].kind = "auth" /\ ~LetsPass(p, j, r)
          /\ \A k \in DOMAIN p : j < k => p[k].kind # "auth"
    BY <1>2, <1>5 DEF AuthDenied
  <2>2. ~Overwritten(p, j)
    BY <1>2, <2>1 DEF Overwritten
  <2> QED  BY <2>1, <2>2 DEF Entitled
<1>6. ASSUME IPDenied(p, Len(p) + 1, r)  PROVE ~Entitled(p, r, T)
  <2>1. PICK j \in DOMAIN p :
          /\ p[j].kind = "ip" /\ ~LetsPass(p, j, r)
          /\ \A k \in DOMAIN p :
               j < k => ~(p[k].kind = "ip" /\ p[k].cfg.enabled)
    BY <1>2, <1>6 DEF IPDenied
  <2>2. ~Overwritten(p, j)
    BY <1>2, <2>1 DEF Overwritten
  <2> QED  BY <2>1, <2>2 DEF Entitled
<1>7. ASSUME ~Entitled(p, r, T)
      PROVE  \/ S # {} \/ R # {}
             \/ AuthDenied(p, Len(p) + 1, r) \/ IPDenied(p, Len(p) + 1, r)
  <2>1. CASE T # {}
    BY <2>1 DEF StatusSaidBy
  <2>2. ASSUME NEW i \in DOMAIN p, AnswersHealth(p, i, r)  PROVE R # {}
    BY <2>2 DEF ResponseSaidBy
  <2>3. ASSUME NEW i \in DOMAIN p, ~LetsPass(p, i, r), ~Overwritten(p, i)
        PROVE  \/ S # {} \/ R # {}
               \/ AuthDenied(p, Len(p) + 1, r) \/ IPDenied(p, Len(p) + 1, r)
    <3>1. p[i].kind \in {"auth", "jwt", "signing", "ip", "geo", "tls",
                         "query", "size"}
      BY <2>3 DEF LetsPass, Allows
    <3>2. CASE p[i].kind \in {"jwt", "signing", "geo", "tls", "size"}
      BY <2>3, <3>2 DEF StatusSaidBy
    <3>3. CASE p[i].kind = "query"
      BY <2>3, <3>3 DEF ResponseSaidBy
    <3>4. CASE p[i].kind = "auth"
      <4>1. \A k \in DOMAIN p : i < k => p[k].kind # "auth"
        BY <1>2, <2>3, <3>4 DEF Overwritten
      <4> QED  BY <1>2, <2>3, <3>4, <4>1 DEF AuthDenied
    <3>5. CASE p[i].kind = "ip"
      <4>1. \A k \in DOMAIN p :
              i < k => ~(p[k].kind = "ip" /\ p[k].cfg.enabled)
        BY <1>2, <2>3, <3>5 DEF Overwritten
      <4> QED  BY <1>2, <2>3, <3>5, <4>1 DEF IPDenied
    <3> QED  BY <3>1, <3>2, <3>3, <3>4, <3>5
  <2> QED  BY <1>7, <2>1, <2>2, <2>3 DEF Entitled
<1> HIDE DEF S, R
<1> QED  BY <1>1, <1>3, <1>4, <1>5, <1>6, <1>7 DEF Stopped

-----------------------------------------------------------------------------
(* What the post hooks before place i, of those q, have left of an answer: *)
(* a is the upstream's, f tells if the request was forwarded to it.        *)

BodyFields   == {"from", "size", "gzips"}
HeaderFields == {"type", "length", "small_length", "encoding"}

IsBody(b) ==
    DOMAIN b = BodyFields /\ b.size \in DOMAIN gzip /\ b.gzips \in Nat

AreHeaders(h) ==
    /\ DOMAIN h = HeaderFields
    /\ h.length \subseteq Nat \union {None}
    /\ h.small_length \subseteq Nat \union {None}

(* A context that can be presented to a post hook.                         *)
Presentable(c) ==
    /\ DOMAIN c = ContextFields
    /\ c.response_status \in Nat
    /\ IsBody(c.response_body) /\ AreHeaders(c.response_headers)

(* Who the body is from and how often it has been compressed tell whether  *)
(* a hook has touched it, and what the length then is.                     *)
LengthTrue(a, c, f) ==
    LET b == c.response_body
        d == c.response_headers
    IN \/ b.from = "limit" /\ d.length \subseteq {b.size}
       \/ b.from # "limit" /\ b.gzips > a.body.gzips /\ d.length = {b.size}
       \/ b.from # "limit" /\ b.gzips = a.body.gzips /\ (f => d = a.headers)

IsGzip(q, j) == j \in DOMAIN q /\ q[j].kind = "gzip"

EncodingTrue(q, i, a, c) ==
    /\ a.body.gzips = 0 /\ a.headers.encoding # "gzip"
    /\ \A j, k : IsGzip(q, j) /\ IsGzip(q, k) => j = k
    => /\ c.response_body.gzips =
            IF c.response_headers.encoding = "gzip" THEN 1 ELSE 0
       /\ (\A j : IsGzip(q, j) => i <= j) => c.response_body.gzips = 0

(* An enabled limit that no compression follows.                           *)
LastWord(q, k) ==
    /\ k \in DOMAIN q /\ q[k].kind = "limit" /\ q[k].cfg.enabled
    /\ \A j : IsGzip(q, j) => j < k

Within(max, a, c) ==
    \/ c.response_body.size <= max
    \/ c.response_body.from = "limit"
    \/ /\ c.response_body.gzips = a.body.gzips
       /\ c.response_body.from # "limit"
       /\ \E n \in ContentLength(c) : n < c.response_body.size

LimitedSoFar(q, i, a, c) ==
    \A k : LastWord(q, k) /\ k < i => Within(q[k].cfg.max_bytes, a, c)

Shaped(q, i, a, c, f) ==
    /\ Presentable(c)
    /\ LengthTrue(a, c, f)
    /\ EncodingTrue(q, i, a, c)
    /\ LimitedSoFar(q, i, a, c)

ArePostHooks(q) == q \in Seq(Hook) /\ \A i \in DOMAIN q : q[i].kind \in PostKinds

(* What is left alone, or only turned into an error.                       *)
Kept(h, c, e) ==
    /\ e.headers = c.headers /\ e.target = c.target
    /\ h.kind # "limit" => e.response_status = c.response_status
    /\ IsError(c.response_status) => IsError(e.response_status)
    /\ e.response = c.response

LEMMA NotesAreBodies ==
    /\ IsBody(NoBody) /\ \A g : IsBody(Note(g))
    /\ AreHeaders(NoHeaders) /\ AreHeaders(TextPlain)
    /\ NoBody.gzips = 0 /\ \A g : Note(g).gzips = 0
    /\ \A g : Note(g).from = g /\ NoBody.from = "nobody"
    /\ NoHeaders.length = {} /\ TextPlain.length = {}
    /\ NoHeaders.encoding = "" /\ TextPlain.encoding = ""
  BY ShapingAssumption
  DEF NoBody, Note, NoHeaders, TextPlain, IsBody, AreHeaders, BodyFields,
      HeaderFields

(* Compression of a body that is compressed.                               *)
LEMMA CompressionWrites ==
    ASSUME NEW f, NEW c, Presentable(c), Compresses(f, c)
    PROVE  LET e == Compression(f, c)
               n == gzip[c.response_body.size]
           IN /\ Presentable(e)
              /\ e.response_body.from = c.response_body.from
              /\ e.response_body.size = n
              /\ e.response_body.gzips = c.response_body.gzips + 1
              /\ e.response_headers.length = {n}
              /\ e.response_headers.encoding = "gzip"
              /\ e.headers = c.headers /\ e.target = c.target
              /\ e.response_status = c.response_status
              /\ e.response = c.response
<1> DEFINE b == c.response_body
           d == c.response_headers
           n == gzip[b.size]
<1>1. /\ DOMAIN c = ContextFields
      /\ DOMAIN b = BodyFields /\ b.size \in DOMAIN gzip /\ b.gzips \in Nat
      /\ DOMAIN d = HeaderFields /\ d.small_length \subseteq Nat \union {None}
      /\ c.response_status \in Nat
  BY DEF Presentable, IsBody, AreHeaders
<1>2. n \in DOMAIN gzip /\ n \in Nat
  BY <1>1, ShapingAssumption
<1>3. LET b2 == Compressed(b) IN
      /\ IsBody(b2) /\ b2.from = b.from /\ b2.size = n
      /\ b2.gzips = b.gzips + 1
  BY <1>1, <1>2 DEF Compressed, IsBody, BodyFields
<1> DEFINE b2 == Compressed(b)
           d2 == [d EXCEPT !.encoding = "gzip", !.length = {n}]
<1>4. /\ AreHeaders(d2) /\ d2.length = {n} /\ d2.encoding = "gzip"
  BY <1>1, <1>2 DEF AreHeaders, HeaderFields
<1> DEFINE e == Compression(f, c)
<1>5. e = [c EXCEPT !.response_body = Compressed(@),
                    !.response_headers.encoding = "gzip",
                    !.response_headers.length = {n}]
  BY DEF Compression
<1>6. /\ DOMAIN e = ContextFields
      /\ e.response_body = b2 /\ e.response_headers = d2
      /\ e.headers = c.headers /\ e.target = c.target
      /\ e.response_status = c.response_status
      /\ e.response = c.response
  BY <1>1, <1>5 DEF ContextFields
<1> HIDE DEF e, b2, d2
<1>7. Presentable(e)
  BY <1>1, <1>3, <1>4, <1>6 DEF Presentable, b2
<1> QED  BY <1>3, <1>4, <1>6, <1>7 DEF e, b2

(* The limit's answer.                                                     *)
LEMMA LimitWrites ==
    ASSUME NEW f, NEW c, Presentable(c),
           f.enabled, \E n \in Sizes(c) : n > f.max_bytes
    PROVE  LET e == ResponseSize(f, c) IN
           /\ Presentable(e)
           /\ e.response_body = Note("limit")
           /\ e.response_headers = TextPlain
           /\ e.headers = c.headers /\ e.target = c.target
           /\ e.response_status = 502
           /\ e.response = c.response
<1> DEFINE g == Refuse(c, 502, "limit")
           e == ResponseSize(f, c)
<1>1. e = [g EXCEPT !.response_headers = TextPlain]
  BY DEF ResponseSize
<1>2. /\ DOMAIN g = ContextFields
      /\ g.response_status = 502 /\ g.response_body = Note("limit")
      /\ \A k \in ContextFields \ {"response_status", "response_body"} :
           g[k] = c[k]
  BY RefuseFacts DEF Presentable
<1> HIDE DEF g, e
<1>3. /\ DOMAIN e = ContextFields
      /\ e.response_body = Note("limit") /\ e.response_headers = TextPlain
      /\ e.headers = c.headers /\ e.target = c.target
      /\ e.response_status = 502 /\ e.response = c.response
  BY <1>1, <1>2 DEF ContextFields
<1>4. /\ IsBody(e.response_body) /\ AreHeaders(e.response_headers)
      /\ e.response_status \in Nat
  <2>1. IsBody(Note("limit")) /\ AreHeaders(TextPlain)
    BY NotesAreBodies
  <2>2. 502 \in Nat
    OBVIOUS
  <2> QED  BY <1>3, <2>1, <2>2
<1>5. Presentable(e)
  BY <1>3, <1>4 DEF Presentable
<1> QED  BY <1>3, <1>5 DEF e

(* One post hook further, the answer is that of one hook more.             *)
LEMMA HookShapes ==
    ASSUME NEW q, ArePostHooks(q), NEW i \in DOMAIN q, NEW a, NEW c, NEW f,
           a.body.gzips \in Nat, Shaped(q, i, a, c, f),
           q[i].kind # "transform", NEW allowed \in BOOLEAN
    PROVE  /\ Shaped(q, i + 1, a, Called(q[i], c, allowed), f)
           /\ Kept(q[i], c, Called(q[i], c, allowed))
<1> DEFINE h == q[i]
           e == Called(h, c, allowed)
           b == c.response_body
<1>1. /\ Len(q) \in Nat /\ DOMAIN q = 1..Len(q) /\ i \in Nat
      /\ h.kind \in PostKinds /\ h \in Hook
      /\ \A j \in DOMAIN q : j \in Nat /\ (j < i + 1 <=> j < i \/ j = i)
  BY DEF ArePostHooks
<1>2. /\ Presentable(c) /\ LengthTrue(a, c, f) /\ EncodingTrue(q, i, a, c)
      /\ LimitedSoFar(q, i, a, c)
  BY DEF Shaped
<1>3. /\ DOMAIN c = ContextFields /\ c.response_status \in Nat
      /\ IsBody(b) /\ b.gzips \in Nat /\ b.size \in Nat
      /\ AreHeaders(c.response_headers)
  BY <1>2, ShapingAssumption DEF Presentable, IsBody
(* Where nothing is done, only the limit itself is to be shown.            *)
<1>4. ASSUME e = c,
             LastWord(q, i) => Within(h.cfg.max_bytes, a, c)
      PROVE  Shaped(q, i + 1, a, e, f) /\ Kept(h, c, e)
  <2>1. EncodingTrue(q, i + 1, a, c)
    <3>1. \A j : IsGzip(q, j) /\ i + 1 <= j => i <= j
      BY <1>1 DEF IsGzip
    <3> QED  BY <1>2, <3>1 DEF EncodingTrue
  <2>2. LimitedSoFar(q, i + 1, a, c)
    BY <1>1, <1>2, <1>4 DEF LimitedSoFar, LastWord
  <2> QED  BY <1>2, <1>4, <2>1, <2>2 DEF Shaped, Kept
<1>5. CASE h.kind \in {"metrics", "retry"}
  <2>1. e = c
    BY <1>5 DEF Called
  <2>2. ~LastWord(q, i)
    BY <1>5 DEF LastWord
  <2> HIDE DEF e
  <2>3. Shaped(q, i + 1, a, e, f) /\ Kept(h, c, e)
    BY <1>4, <2>1, <2>2
  <2> QED  BY <2>3 DEF e
<1>6. CASE h.kind = "gzip"
  <2>1. e = Compression(h.cfg, c) /\ ~LastWord(q, i)
    BY <1>6 DEF Called, LastWord
  <2>2. CASE ~Compresses(h.cfg, c)
    <3>1. e = c
      BY <2>1, <2>2 DEF Compression
    <3> HIDE DEF e
    <3>2. Shaped(q, i + 1, a, e, f) /\ Kept(h, c, e)
      BY <1>4, <2>1, <3>1
    <3> QED  BY <3>2 DEF e
  <2>3. CASE Compresses(h.cfg, c)
    <3> DEFINE n == gzip[b.size]
    <3>1. /\ Presentable(e)
          /\ e.response_body.from = b.from
          /\ e.response_body.size = n
          /\ e.response_body.gzips = b.gzips + 1
          /\ e.response_headers.length = {n}
          /\ e.response_headers.encoding = "gzip"
          /\ e.headers = c.headers /\ e.target = c.target
          /\ e.response_status = c.response_status
          /\ e.response = c.response
      BY <1>2, <2>1, <2>3, CompressionWrites
    <3> HIDE DEF e, n
    <3>2. LengthTrue(a, e, f)
      <4>1. b.from = "limit" \/ b.gzips >= a.body.gzips
        BY <1>2, <1>3 DEF LengthTrue
      <4> QED  BY <1>3, <3>1, <4>1 DEF LengthTrue
    <3>3. EncodingTrue(q, i + 1, a, e)
      <4>1. IsGzip(q, i) /\ ~(i + 1 <= i)
        BY <1>1, <1>6 DEF IsGzip
      <4>2. ASSUME \A j, k : IsGzip(q, j) /\ IsGzip(q, k) => j = k
            PROVE  \A j : IsGzip(q, j) => i <= j
        BY <1>1, <4>1, <4>2
      <4> QED  BY <1>2, <3>1, <4>1, <4>2 DEF EncodingTrue
    <3>4. LimitedSoFar(q, i + 1, a, e)
      <4>1. \A k : LastWord(q, k) /\ k < i + 1 => FALSE
        BY <1>1, <1>6 DEF LastWord, IsGzip
      <4> QED  BY <4>1 DEF LimitedSoFar
    <3>5. Shaped(q, i + 1, a, e, f) /\ Kept(h, c, e)
      BY <3>1, <3>2, <3>3, <3>4 DEF Shaped, Kept
    <3> QED  BY <3>5 DEF e
  <2> QED  BY <2>2, <2>3
<1>7. CASE h.kind = "limit"
  <2>1. e = ResponseSize(h.cfg, c)
    BY <1>7 DEF Called
  <2>2. h.cfg.max_bytes \in Nat
    <3>1. Accepted(h)
      BY <1>1, PipelineAssumption
    <3>2. ResponseSizeConfig(h.cfg)
      BY <1>7, <3>1 DEF Accepted
    <3> QED  BY <3>2 DEF ResponseSizeConfig
  <2>3. CASE h.cfg.enabled /\ \E n \in Sizes(c) : n > h.cfg.max_bytes
    <3>1. /\ Presentable(e)
          /\ e.response_body = Note("limit")
          /\ e.response_headers = TextPlain
          /\ e.headers = c.headers /\ e.target = c.target
          /\ e.response_status = 502
          /\ e.response = c.response
      BY <1>2, <2>1, <2>3, LimitWrites
    <3> HIDE DEF e
    <3>2. /\ e.response_body.from = "limit" /\ e.response_body.gzips = 0
          /\ e.response_headers.length = {}
          /\ e.response_headers.encoding = ""
      <4>1. Note("limit").from = "limit" /\ Note("limit").gzips = 0
        BY DEF Note
      <4>2. TextPlain.length = {} /\ TextPlain.encoding = ""
        BY DEF TextPlain, NoHeaders
      <4>3. /\ e.response_body = Note("limit")
            /\ e.response_headers = TextPlain
        BY <3>1
      <4> QED  BY <4>1, <4>2, <4>3, Zenon
    <3>3. LengthTrue(a, e, f) /\ EncodingTrue(q, i + 1, a, e)
      <4>1. LengthTrue(a, e, f)
        BY <3>2 DEF LengthTrue
      <4>2. e.response_headers.encoding # "gzip"
        BY <3>2
      <4>3. EncodingTrue(q, i + 1, a, e)
        BY <3>2, <4>2 DEF EncodingTrue
      <4> QED  BY <4>1, <4>3
    <3>4. LimitedSoFar(q, i + 1, a, e)
      BY <3>2 DEF LimitedSoFar, Within
    <3>5. Kept(h, c, e)
      BY <1>7, <3>1 DEF Kept, IsError
    <3>6. Shaped(q, i + 1, a, e, f) /\ Kept(h, c, e)
      BY <3>1, <3>3, <3>4, <3>5 DEF Shaped
    <3> QED  BY <3>6 DEF e
  <2>4. CASE ~(h.cfg.enabled /\ \E n \in Sizes(c) : n > h.cfg.max_bytes)
    <3>1. e = c
      BY <2>1, <2>4 DEF ResponseSize
    <3>2. LastWord(q, i) => Within(h.cfg.max_bytes, a, c)
      <4> SUFFICES ASSUME LastWord(q, i), b.size > h.cfg.max_bytes,
                          b.from # "limit"
                   PROVE  /\ b.gzips = a.body.gzips
                          /\ \E n \in ContentLength(c) : n < b.size
        BY <1>3, <2>2 DEF Within
      <4>1. \A n \in Sizes(c) : ~(n > h.cfg.max_bytes)
        BY <2>4 DEF LastWord
      <4>2. ContentLength(c) # {} /\ Sizes(c) = ContentLength(c)
        BY <4>1 DEF Sizes
      <4>3. ContentLength(c) \subseteq Nat
        BY <1>3 DEF ContentLength, AreHeaders
      <4>4. PICK n \in ContentLength(c) : TRUE
        BY <4>2
      <4>5. n \in Nat /\ n < b.size
        BY <1>3, <2>2, <4>1, <4>2, <4>3, <4>4
      <4>6. ASSUME b.gzips > a.body.gzips  PROVE FALSE
        <5>1. c.response_headers.length = {b.size}
          BY <1>2, <1>3, <4>6 DEF LengthTrue
        <5>2. ContentLength(c) = {b.size}
          BY <5>1 DEF ContentLength
        <5> QED  BY <1>3, <4>4, <4>5, <5>2
      <4>7. b.gzips >= a.body.gzips
        BY <1>2, <1>3 DEF LengthTrue
      <4> QED  BY <1>3, <4>4, <4>5, <4>6, <4>7
    <3> HIDE DEF e
    <3>3. Shaped(q, i + 1, a, e, f) /\ Kept(h, c, e)
      BY <1>4, <3>1, <3>2
    <3> QED  BY <3>3 DEF e
  <2> QED  BY <2>3, <2>4
<1> QED  BY <1>1, <1>5, <1>6, <1>7 DEF PostKinds

-----------------------------------------------------------------------------
(* What a thread can be doing.                                             *)

HandlerFields == {"phase", "pos", "request", "ctx", "throttled", "forwarded",
                  "answer", "recorded"}

BeforeCall(d, h) ==
    /\ h.phase = "pre" /\ h.pos \in 1..(Len(d.pre) + 1)
    /\ h.forwarded = FALSE /\ h.answer = Unanswered /\ h.recorded = FALSE
    /\ \A j \in h.throttled :
         j \in DOMAIN d.pre /\ j < h.pos /\ d.pre[j].kind = "rate"
    /\ Judged(h.ctx, d.pre, h.pos, h.request, h.throttled)

AtCall(d, h) ==
    /\ h.phase = "calling" /\ DOMAIN h.ctx = ContextFields
    /\ h.forwarded = TRUE /\ Entitled(d.pre, h.request, h.throttled)
    /\ h.recorded = FALSE

(* Only a request that is past a metrics hook is recorded.                 *)
PastCounter(d, h) ==
    \E j \in DOMAIN d.post : d.post[j].kind = "metrics" /\ j < h.pos

AfterCall(d, h) ==
    /\ h.phase = "post" /\ h.pos \in 1..(Len(d.post) + 1)
    /\ h.forwarded <=> Entitled(d.pre, h.request, h.throttled)
    /\ h.answer.body.gzips \in Nat
    /\ Shaped(d.post, h.pos, h.answer, h.ctx, h.forwarded)
    /\ h.recorded \in BOOLEAN /\ (h.recorded => PastCounter(d, h))

Fine(d, h) ==
    \/ h = Idle
    \/ DOMAIN h = HandlerFields
       /\ (BeforeCall(d, h) \/ AtCall(d, h) \/ AfterCall(d, h))

IInv ==
    /\ deployed \in Deployment
    /\ DOMAIN handler = Caller
    /\ \A w \in Caller : Fine(deployed, handler[w])

LEMMA DeploymentFacts ==
    ASSUME NEW d \in Deployment
    PROVE  /\ IsPipeline(d.pre) /\ ArePostHooks(d.post)
           /\ Len(d.pre) \in Nat /\ DOMAIN d.pre = 1..Len(d.pre)
           /\ Len(d.post) \in Nat /\ DOMAIN d.post = 1..Len(d.post)
           /\ \A a \in d.answers : IsAnswer(a)
<1>1. /\ d.pre \in Seq(Hook) /\ d.post \in Seq(Hook)
      /\ \A i \in DOMAIN d.pre : d.pre[i].kind \in PreKinds
      /\ \A i \in DOMAIN d.post : d.post[i].kind \in PostKinds
      /\ \A a \in d.answers : IsAnswer(a)
  BY PipelineAssumption
<1> QED  BY <1>1 DEF IsPipeline, ArePostHooks

(* A context that no hook in front of the call has touched but to refuse.  *)
LEMMA JudgedIsPresentable ==
    ASSUME NEW p, IsPipeline(p), NEW i, NEW r, NEW T, NEW c,
           \A j \in T : j \in DOMAIN p /\ p[j].kind = "rate",
           Judged(c, p, i, r, T)
    PROVE  /\ Presentable(c)
           /\ c.response_body.gzips = 0 /\ c.response_body.from # "limit"
           /\ c.response_headers.encoding = ""
<1>1. /\ DOMAIN c = ContextFields
      /\ StatusIsLast(c, p, Refusals(p, i, r, T))
      /\ c.response_headers \in {NoHeaders, TextPlain}
  BY DEF Judged
<1>2. /\ AreHeaders(c.response_headers)
      /\ c.response_headers.encoding = ""
  BY <1>1, NotesAreBodies
<1>3. CASE c.response_status = 0 /\ c.response_body = NoBody
  <2>1. 0 \in Nat /\ NoBody.gzips = 0 /\ NoBody.from # "limit"
    BY DEF NoBody
  <2> QED  BY <1>1, <1>2, <1>3, <2>1, NotesAreBodies DEF Presentable
<1>4. ASSUME NEW m \in Refusals(p, i, r, T),
             c.response_status = RejectStatus(p[m]),
             c.response_body = Note(p[m].kind)
      PROVE  /\ Presentable(c)
             /\ c.response_body.gzips = 0 /\ c.response_body.from # "limit"
  <2>1. /\ m \in DOMAIN p /\ p[m] \in Hook
        /\ p[m].kind \in {"jwt", "signing", "geo", "tls", "size", "rate"}
    BY DEF Refusals, StatusSaidBy, IsPipeline
  <2>2. RejectStatus(p[m]) \in Nat
    BY <2>1, RejectStatusFacts
  <2>3. /\ IsBody(Note(p[m].kind)) /\ Note(p[m].kind).gzips = 0
        /\ Note(p[m].kind).from # "limit"
    BY <2>1, NotesAreBodies
  <2> QED  BY <1>1, <1>2, <1>4, <2>2, <2>3 DEF Presentable
<1> QED  BY <1>1, <1>2, <1>3, <1>4 DEF StatusIsLast, IsLast

(* An answer as it comes to the first post hook.                           *)
LEMMA FirstShaped ==
    ASSUME NEW q, ArePostHooks(q), NEW a, NEW c, NEW f,
           Presentable(c), a.body.gzips \in Nat,
           c.response_body.from # "limit",
           c.response_body.gzips = a.body.gzips,
           f => c.response_headers = a.headers,
           a.body.gzips = 0 /\ a.headers.encoding # "gzip" =>
             c.response_headers.encoding # "gzip"
    PROVE  Shaped(q, 1, a, c, f)
<1>1. LengthTrue(a, c, f)
  BY DEF LengthTrue
<1>2. EncodingTrue(q, 1, a, c)
  BY DEF EncodingTrue
<1>3. LimitedSoFar(q, 1, a, c)
  <2>1. \A k \in DOMAIN q : ~(k < 1)
    BY DEF ArePostHooks
  <2> QED  BY <2>1 DEF LimitedSoFar, LastWord
<1> QED  BY <1>1, <1>2, <1>3 DEF Shaped

-----------------------------------------------------------------------------
(* The steps of one thread, in front of the call and behind it.            *)

Turned(h, g, allowed) ==
    [h EXCEPT !.pos = @ + 1,
              !.ctx = Called(g, @, allowed),
              !.throttled = IF allowed THEN @ ELSE @ \union {h.pos}]

LEMMA TurnedFields ==
    ASSUME NEW h, DOMAIN h = HandlerFields, NEW g, NEW allowed \in BOOLEAN
    PROVE  LET e == Turned(h, g, allowed) IN
           /\ DOMAIN e = HandlerFields
           /\ e.pos = h.pos + 1 /\ e.ctx = Called(g, h.ctx, allowed)
           /\ allowed => e.throttled = h.throttled
           /\ ~allowed => e.throttled = h.throttled \union {h.pos}
           /\ e.phase = h.phase /\ e.request = h.request
           /\ e.forwarded = h.forwarded /\ e.answer = h.answer
           /\ e.recorded = h.recorded
  BY DEF Turned, HandlerFields

LEMMA PreTurn ==
    ASSUME NEW d \in Deployment, NEW h, DOMAIN h = HandlerFields,
           BeforeCall(d, h), h.pos <= Len(d.pre),
           d.pre[h.pos].kind # "transform",
           NEW allowed \in BOOLEAN, ~allowed => d.pre[h.pos].kind = "rate"
    PROVE  BeforeCall(d, Turned(h, d.pre[h.pos], allowed))
<1> DEFINE g == d.pre[h.pos]
           e == Turned(h, g, allowed)
           T2 == IF allowed THEN h.throttled ELSE h.throttled \union {h.pos}
<1>1. /\ IsPipeline(d.pre) /\ Len(d.pre) \in Nat
      /\ DOMAIN d.pre = 1..Len(d.pre)
  BY DeploymentFacts
<1>2. h.pos \in DOMAIN d.pre /\ h.pos \in Nat
  BY <1>1 DEF BeforeCall
<1>3. /\ e.pos = h.pos + 1 /\ e.ctx = Called(g, h.ctx, allowed)
      /\ e.throttled = T2
      /\ e.phase = h.phase /\ e.request = h.request
      /\ e.forwarded = h.forwarded /\ e.answer = h.answer
      /\ e.recorded = h.recorded
  <2>1. /\ e.pos = h.pos + 1 /\ e.ctx = Called(g, h.ctx, allowed)
        /\ allowed => e.throttled = h.throttled
        /\ ~allowed => e.throttled = h.throttled \union {h.pos}
        /\ e.phase = h.phase /\ e.request = h.request
        /\ e.forwarded = h.forwarded /\ e.answer = h.answer
        /\ e.recorded = h.recorded
    <3> HIDE DEF g
    <3> QED  BY TurnedFields
  <2> HIDE DEF e
  <2> QED  BY <2>1
<1>4. /\ \A j \in h.throttled :
           j \in DOMAIN d.pre /\ j < h.pos /\ d.pre[j].kind = "rate"
      /\ Judged(h.ctx, d.pre, h.pos, h.request, h.throttled)
  BY DEF BeforeCall
<1>5. Judged(Called(g, h.ctx, allowed), d.pre, h.pos + 1,
             h.request, T2)
  BY <1>1, <1>2, <1>4, HookJudged
<1>6. \A j \in T2 : j \in DOMAIN d.pre /\ j < h.pos + 1 /\ d.pre[j].kind = "rate"
  BY <1>1, <1>2, <1>4
<1> HIDE DEF e, g, T2
<1>7. BeforeCall(d, e)
  BY <1>1, <1>2, <1>3, <1>5, <1>6 DEF BeforeCall
<1> QED  BY <1>7 DEF e, g

LEMMA PostTurn ==
    ASSUME NEW d \in Deployment, NEW h, DOMAIN h = HandlerFields,
           AfterCall(d, h), h.pos <= Len(d.post),
           d.post[h.pos].kind # "transform"
    PROVE  /\ AfterCall(d, Turned(h, d.post[h.pos], TRUE))
           /\ Kept(d.post[h.pos], h.ctx, Called(d.post[h.pos], h.ctx, TRUE))
<1> DEFINE g == d.post[h.pos]
           e == Turned(h, g, TRUE)
<1>1. /\ ArePostHooks(d.post) /\ Len(d.post) \in Nat
      /\ DOMAIN d.post = 1..Len(d.post)
  BY DeploymentFacts
<1>2. h.pos \in DOMAIN d.post /\ h.pos \in Nat
  BY <1>1 DEF AfterCall
<1>3. /\ e.pos = h.pos + 1 /\ e.ctx = Called(g, h.ctx, TRUE)
      /\ e.throttled = h.throttled
      /\ e.phase = h.phase /\ e.request = h.request
      /\ e.forwarded = h.forwarded /\ e.answer = h.answer
      /\ e.recorded = h.recorded
  BY TurnedFields
<1>4. /\ h.answer.body.gzips \in Nat
      /\ Shaped(d.post, h.pos, h.answer, h.ctx, h.forwarded)
  BY DEF AfterCall
<1>5. /\ Shaped(d.post, h.pos + 1, h.answer, Called(g, h.ctx, TRUE), h.forwarded)
      /\ Kept(g, h.ctx, Called(g, h.ctx, TRUE))
  BY <1>1, <1>2, <1>4, HookShapes
<1>6. PastCounter(d, h) => \E j \in DOMAIN d.post :
                             d.post[j].kind = "metrics" /\ j < h.pos + 1
  BY <1>1, <1>2 DEF PastCounter
<1> HIDE DEF e, g
<1>7. AfterCall(d, e)
  <2>1. /\ h.phase = "post"
        /\ h.forwarded <=> Entitled(d.pre, h.request, h.throttled)
        /\ h.recorded \in BOOLEAN /\ (h.recorded => PastCounter(d, h))
    BY DEF AfterCall
  <2>2. e.pos \in 1..(Len(d.post) + 1)
    BY <1>1, <1>2, <1>3
  <2>3. e.forwarded <=> Entitled(d.pre, e.request, e.throttled)
    BY <1>3, <2>1
  <2>4. e.recorded \in BOOLEAN /\ (e.recorded => PastCounter(d, e))
    BY <1>3, <1>6, <2>1 DEF PastCounter
  <2>5. Shaped(d.post, e.pos, e.answer, e.ctx, e.forwarded)
    BY <1>3, <1>5
  <2> QED  BY <1>3, <1>4, <2>1, <2>2, <2>3, <2>4, <2>5 DEF AfterCall
<1> QED  BY <1>5, <1>7 DEF e, g

LEMMA RecordTurn ==
    ASSUME NEW d \in Deployment, NEW h, DOMAIN h = HandlerFields,
           AfterCall(d, h), h.pos <= Len(d.post),
           d.post[h.pos].kind = "metrics"
    PROVE  LET e == [h EXCEPT !.pos = @ + 1, !.recorded = TRUE]
           IN  DOMAIN e = HandlerFields /\ AfterCall(d, e)
<1> DEFINE e == [h EXCEPT !.pos = @ + 1, !.recorded = TRUE]
<1>1. /\ ArePostHooks(d.post) /\ Len(d.post) \in Nat
      /\ DOMAIN d.post = 1..Len(d.post)
  BY DeploymentFacts
<1>2. h.pos \in DOMAIN d.post /\ h.pos \in Nat
  BY <1>1 DEF AfterCall
<1>3. /\ DOMAIN e = HandlerFields
      /\ e.pos = h.pos + 1 /\ e.ctx = h.ctx /\ e.throttled = h.throttled
      /\ e.phase = h.phase /\ e.request = h.request
      /\ e.forwarded = h.forwarded /\ e.answer = h.answer
      /\ e.recorded = TRUE
  BY DEF HandlerFields
<1>4. Shaped(d.post, h.pos + 1, h.answer, h.ctx, h.forwarded)
  <2>1. Called(d.post[h.pos], h.ctx, TRUE) = h.ctx
    BY DEF Called
  <2>2. /\ h.answer.body.gzips \in Nat
        /\ Shaped(d.post, h.pos, h.answer, h.ctx, h.forwarded)
    BY DEF AfterCall
  <2> QED  BY <1>1, <1>2, <2>1, <2>2, HookShapes
<1>5. \E j \in DOMAIN d.post : d.post[j].kind = "metrics" /\ j < h.pos + 1
  BY <1>2
<1> HIDE DEF e
<1>6. AfterCall(d, e)
  <2>1. /\ h.phase = "post" /\ h.answer.body.gzips \in Nat
        /\ h.forwarded <=> Entitled(d.pre, h.request, h.throttled)
    BY DEF AfterCall
  <2>2. e.pos \in 1..(Len(d.post) + 1)
    BY <1>1, <1>2, <1>3
  <2>3. e.forwarded <=> Entitled(d.pre, e.request, e.throttled)
    BY <1>3, <2>1
  <2>4. e.recorded \in BOOLEAN /\ PastCounter(d, e)
    BY <1>3, <1>5 DEF PastCounter
  <2>5. Shaped(d.post, e.pos, e.answer, e.ctx, e.forwarded)
    BY <1>3, <1>4
  <2> QED  BY <1>3, <2>1, <2>2, <2>3, <2>4, <2>5 DEF AfterCall
<1> QED  BY <1>3, <1>6 DEF e

(* Between the lists.                                                      *)
LEMMA DecideTurn ==
    ASSUME NEW d \in Deployment, NEW h, DOMAIN h = HandlerFields,
           BeforeCall(d, h), h.pos > Len(d.pre)
    PROVE  /\ Judged(h.ctx, d.pre, Len(d.pre) + 1, h.request, h.throttled)
           /\ Stopped(h.ctx) <=> ~Entitled(d.pre, h.request, h.throttled)
           /\ Presentable(h.ctx)
           /\ h.ctx.response_body.gzips = 0
           /\ h.ctx.response_body.from # "limit"
           /\ h.ctx.response_headers.encoding = ""
           /\ \A j \in h.throttled : j \in DOMAIN d.pre /\ d.pre[j].kind = "rate"
<1>1. IsPipeline(d.pre) /\ Len(d.pre) \in Nat
  BY DeploymentFacts
<1>2. h.pos = Len(d.pre) + 1
  BY <1>1 DEF BeforeCall
<1>3. /\ Judged(h.ctx, d.pre, Len(d.pre) + 1, h.request, h.throttled)
      /\ \A j \in h.throttled : j \in DOMAIN d.pre /\ d.pre[j].kind = "rate"
  BY <1>2 DEF BeforeCall
<1>4. Stopped(h.ctx) <=> ~Entitled(d.pre, h.request, h.throttled)
  BY <1>1, <1>3, StoppedIffNotEntitled
<1>5. /\ Presentable(h.ctx)
      /\ h.ctx.response_body.gzips = 0
      /\ h.ctx.response_body.from # "limit"
      /\ h.ctx.response_headers.encoding = ""
  <2> DEFINE c == h.ctx
             p == d.pre
             r == h.request
             T == h.throttled
             i == Len(p) + 1
  <2>1. /\ IsPipeline(p) /\ Judged(c, p, i, r, T)
        /\ \A j \in T : j \in DOMAIN p /\ p[j].kind = "rate"
    BY <1>1, <1>3
  <2> HIDE DEF c, p, r, T, i
  <2>2. /\ Presentable(c)
        /\ c.response_body.gzips = 0 /\ c.response_body.from # "limit"
        /\ c.response_headers.encoding = ""
    BY <2>1, JudgedIsPresentable
  <2> QED  BY <2>2 DEF c
<1> QED  BY <1>3, <1>4, <1>5

LEMMA RefusedIsPresentable ==
    ASSUME NEW c, Presentable(c), NEW s \in Nat, NEW g
    PROVE  /\ Presentable(Refuse(c, s, g))
           /\ Refuse(c, s, g).response_body = Note(g)
           /\ Refuse(c, s, g).response_headers = c.response_headers
<1> DEFINE d == Refuse(c, s, g)
<1>1. /\ DOMAIN c = ContextFields /\ AreHeaders(c.response_headers)
  BY DEF Presentable
<1>2. /\ DOMAIN d = ContextFields
      /\ d.response_status = s /\ d.response_body = Note(g)
      /\ d.response_headers = c.response_headers
  BY <1>1 DEF Refuse, ContextFields
<1> HIDE DEF d
<1>3. Presentable(d)
  BY <1>1, <1>2, NotesAreBodies DEF Presentable
<1> QED  BY <1>2, <1>3 DEF d

(* The answer of a stopped request, and the one it gets if no hook has     *)
(* given it any.                                                           *)
LEMMA StoppedShaped ==
    ASSUME NEW q, ArePostHooks(q), NEW c, Presentable(c),
           c.response_body.gzips = 0, c.response_body.from # "limit",
           c.response_headers.encoding = ""
    PROVE  /\ Shaped(q, 1, Unanswered, c, FALSE)
           /\ \A s \in Nat :
                Shaped(q, 1, Unanswered, Refuse(c, s, "caller"), FALSE)
<1>1. /\ Unanswered.body.gzips = 0 /\ Unanswered.headers.encoding = ""
      /\ 0 \in Nat
  BY DEF Unanswered, NoBody, NoHeaders
<1>2. ASSUME NEW e, Presentable(e),
             e.response_body.gzips = 0, e.response_body.from # "limit",
             e.response_headers.encoding = ""
      PROVE  Shaped(q, 1, Unanswered, e, FALSE)
  <2>1. e.response_headers.encoding # "gzip"
    BY <1>2
  <2> QED  BY <1>1, <1>2, <2>1, FirstShaped
<1>3. ASSUME NEW s \in Nat
      PROVE  Shaped(q, 1, Unanswered, Refuse(c, s, "caller"), FALSE)
  <2> DEFINE e == Refuse(c, s, "caller")
  <2>1. /\ Presentable(e) /\ e.response_body = Note("caller")
        /\ e.response_headers = c.response_headers
    BY RefusedIsPresentable
  <2>2. Note("caller").gzips = 0 /\ Note("caller").from # "limit"
    BY DEF Note
  <2> HIDE DEF e
  <2>3. Shaped(q, 1, Unanswered, e, FALSE)
    BY <1>2, <2>1, <2>2
  <2> QED  BY <2>3 DEF e
<1> QED  BY <1>2, <1>3

Answered(h, a) ==
    [h EXCEPT !.phase = "post", !.pos = 1, !.answer = a,
              !.ctx.response = [status |-> a.status, from |-> "upstream"],
              !.ctx.response_status = a.status,
              !.ctx.response_body = a.body,
              !.ctx.response_headers = a.headers]

(* The upstream's answer.                                                  *)
LEMMA UpstreamTurn ==
    ASSUME NEW d \in Deployment, NEW h, DOMAIN h = HandlerFields,
           AtCall(d, h), NEW a \in d.answers
    PROVE  DOMAIN Answered(h, a) = HandlerFields /\ AfterCall(d, Answered(h, a))
<1> DEFINE e == Answered(h, a)
           c == h.ctx
<1>1. /\ ArePostHooks(d.post) /\ Len(d.post) \in Nat /\ IsAnswer(a)
  BY DeploymentFacts
<1>2. /\ DOMAIN c = ContextFields /\ h.recorded = FALSE /\ h.forwarded = TRUE
      /\ Entitled(d.pre, h.request, h.throttled)
  BY DEF AtCall
<1>3. /\ DOMAIN e = HandlerFields
      /\ e.phase = "post" /\ e.pos = 1 /\ e.answer = a
      /\ DOMAIN e.ctx = ContextFields
      /\ e.ctx.response_status = a.status /\ e.ctx.response_body = a.body
      /\ e.ctx.response_headers = a.headers
      /\ e.request = h.request /\ e.throttled = h.throttled
      /\ e.forwarded = h.forwarded /\ e.recorded = h.recorded
  BY <1>2 DEF Answered, HandlerFields, ContextFields
<1>4. /\ a.status \in Nat /\ IsBody(a.body) /\ AreHeaders(a.headers)
      /\ a.body.from \in {"upstream", "nobody"} /\ a.body.gzips \in Nat
  <2>1. DOMAIN NoHeaders = HeaderFields
    BY DEF NoHeaders, HeaderFields
  <2> QED  BY <1>1, <2>1 DEF IsAnswer, IsBody, AreHeaders, BodyFields
<1> HIDE DEF e, c
<1>5. Presentable(e.ctx)
  BY <1>3, <1>4 DEF Presentable
<1>6. /\ e.ctx.response_body.from # "limit"
      /\ e.ctx.response_body.gzips = a.body.gzips
  BY <1>3, <1>4
<1>7. Shaped(d.post, 1, a, e.ctx, TRUE)
  BY <1>1, <1>3, <1>4, <1>5, <1>6, FirstShaped
<1>8. 1 \in 1..(Len(d.post) + 1)
  BY <1>1
<1>9. AfterCall(d, e)
  BY <1>2, <1>3, <1>4, <1>7, <1>8 DEF AfterCall
<1> QED  BY <1>3, <1>9 DEF e

Refused(c) ==
    IF c.response_status # 0 \/ c.response # NoResponse
    THEN c
    ELSE Refuse(c, IF c.auth_ok = "no" THEN 401 ELSE 403, "caller")

(* A request that a sign has stopped.                                      *)
LEMMA StoppedTurn ==
    ASSUME NEW d \in Deployment, NEW h, DOMAIN h = HandlerFields,
           BeforeCall(d, h), h.pos > Len(d.pre), Stopped(h.ctx)
    PROVE  LET e == [h EXCEPT !.phase = "post", !.pos = 1,
                              !.ctx = Refused(@)]
           IN  DOMAIN e = HandlerFields /\ AfterCall(d, e)
<1> DEFINE e == [h EXCEPT !.phase = "post", !.pos = 1, !.ctx = Refused(@)]
<1>1. /\ ArePostHooks(d.post) /\ Len(d.post) \in Nat
  BY DeploymentFacts
<1>2. /\ ~Entitled(d.pre, h.request, h.throttled)
      /\ Presentable(h.ctx)
      /\ h.ctx.response_body.gzips = 0
      /\ h.ctx.response_body.from # "limit"
      /\ h.ctx.response_headers.encoding = ""
  BY DecideTurn
<1>3. /\ h.forwarded = FALSE /\ h.answer = Unanswered /\ h.recorded = FALSE
  BY DEF BeforeCall
<1>4. /\ DOMAIN e = HandlerFields
      /\ e.phase = "post" /\ e.pos = 1 /\ e.answer = h.answer
      /\ e.ctx = Refused(h.ctx)
      /\ e.request = h.request /\ e.throttled = h.throttled
      /\ e.forwarded = h.forwarded /\ e.recorded = h.recorded
  BY DEF HandlerFields
<1> HIDE DEF e
<1>5. Shaped(d.post, 1, Unanswered, Refused(h.ctx), FALSE)
  <2>1. /\ Shaped(d.post, 1, Unanswered, h.ctx, FALSE)
        /\ \A s \in Nat :
             Shaped(d.post, 1, Unanswered, Refuse(h.ctx, s, "caller"), FALSE)
    BY <1>1, <1>2, StoppedShaped
  <2> DEFINE s == IF h.ctx.auth_ok = "no" THEN 401 ELSE 403
  <2>2. s \in Nat
    OBVIOUS
  <2>3. Refused(h.ctx) = h.ctx \/ Refused(h.ctx) = Refuse(h.ctx, s, "caller")
    BY DEF Refused
  <2> HIDE DEF s
  <2>4. Shaped(d.post, 1, Unanswered, Refuse(h.ctx, s, "caller"), FALSE)
    BY <2>1, <2>2
  <2> QED  BY <2>1, <2>3, <2>4
<1>6. Unanswered.body.gzips \in Nat /\ 1 \in 1..(Len(d.post) + 1)
  BY <1>1 DEF Unanswered, NoBody
<1>7. AfterCall(d, e)
  BY <1>2, <1>3, <1>4, <1>5, <1>6 DEF AfterCall
<1> QED  BY <1>4, <1>7 DEF e

-----------------------------------------------------------------------------
(* The inductive invariant.                                                *)

LEMMA Frame ==
    ASSUME IInv, UNCHANGED deployed, NEW w \in Caller, NEW h,
           Becomes(w, h), Fine(deployed, h)
    PROVE  IInv'
<1>1. /\ DOMAIN handler' = Caller /\ handler'[w] = h
      /\ \A v \in Caller : v # w => handler'[v] = handler[v]
  BY DEF Becomes, IInv
<1> QED  BY <1>1 DEF IInv

LEMMA InitInv == Init => IInv
<1> SUFFICES ASSUME Init  PROVE IInv
  OBVIOUS
<1>1. \A w \in Caller : handler[w] = Idle
  BY DEF Init
<1> QED  BY <1>1 DEF Init, IInv, Fine

LEMMA Doing ==
    ASSUME IInv, NEW w \in Caller, handler[w].phase # "idle"
    PROVE  /\ deployed \in Deployment
           /\ DOMAIN handler[w] = HandlerFields
           /\ handler[w].phase = "pre" => BeforeCall(deployed, handler[w])
           /\ handler[w].phase = "calling" => AtCall(deployed, handler[w])
           /\ handler[w].phase = "post" => AfterCall(deployed, handler[w])
<1>1. handler[w] # Idle
  BY DEF Idle
<1>2. /\ DOMAIN handler[w] = HandlerFields /\ deployed \in Deployment
      /\ \/ BeforeCall(deployed, handler[w])
         \/ AtCall(deployed, handler[w]) \/ AfterCall(deployed, handler[w])
  BY <1>1 DEF IInv, Fine
<1> QED  BY <1>2 DEF BeforeCall, AtCall, AfterCall

LEMMA NextInv == IInv /\ [Next]_vars => IInv'
<1> SUFFICES ASSUME IInv, [Next]_vars  PROVE IInv'
  OBVIOUS
<1>1. ASSUME NEW w \in Caller, NEW r \in deployed.requests, Arrive(w, r)
      PROVE  IInv'
  <2> DEFINE h == [phase |-> "pre", pos |-> 1, request |-> r,
                   ctx |-> NewContext(r), throttled |-> {},
                   forwarded |-> FALSE, answer |-> Unanswered,
                   recorded |-> FALSE]
  <2>1. /\ Becomes(w, h) /\ UNCHANGED deployed
    BY <1>1 DEF Arrive
  <2>2. /\ deployed \in Deployment
        /\ IsPipeline(deployed.pre) /\ Len(deployed.pre) \in Nat
    BY DeploymentFacts DEF IInv
  <2>3. /\ DOMAIN h = HandlerFields
        /\ h.phase = "pre" /\ h.pos = 1 /\ h.forwarded = FALSE
        /\ h.answer = Unanswered /\ h.recorded = FALSE /\ h.throttled = {}
        /\ h.ctx = NewContext(r) /\ h.request = r
    BY DEF HandlerFields
  <2> HIDE DEF h
  <2>4. Judged(NewContext(r), deployed.pre, 1, r, {})
    <3>1. DOMAIN r = RequestFields
      BY <2>2, PipelineAssumption
    <3> QED  BY <2>2, <3>1, NewContextJudged
  <2>5. BeforeCall(deployed, h)
    BY <2>2, <2>3, <2>4 DEF BeforeCall
  <2> QED  BY <2>1, <2>3, <2>5, Frame DEF Fine
<1>2. ASSUME NEW w \in Caller, NEW allowed \in BOOLEAN, RunHook(w, allowed)
      PROVE  IInv'
  <2> DEFINE h == handler[w]
             d == deployed
  <2>1. /\ InHooks(h) /\ ~Raises(NextHook(h), h.ctx, h.phase)
        /\ ~allowed => NextHook(h).kind = "rate"
        /\ Becomes(w, Turned(h, NextHook(h), allowed))
        /\ UNCHANGED deployed
    BY <1>2 DEF RunHook, Turned
  <2>2. NextHook(h).kind # "transform" /\ h.phase \in {"pre", "post"}
    BY <2>1 DEF Raises, InHooks
  <2>3. /\ d \in Deployment /\ DOMAIN h = HandlerFields
        /\ h.phase = "pre" => BeforeCall(d, h)
        /\ h.phase = "post" => AfterCall(d, h)
    BY <2>2, Doing
  <2>4. CASE h.phase = "pre"
    <3>1. /\ NextHook(h) = d.pre[h.pos] /\ h.pos <= Len(d.pre)
      BY <2>1, <2>4 DEF NextHook, HooksOf, InHooks
    <3>2. BeforeCall(d, Turned(h, d.pre[h.pos], allowed))
      BY <2>1, <2>2, <2>3, <2>4, <3>1, PreTurn
    <3>3. DOMAIN Turned(h, d.pre[h.pos], allowed) = HandlerFields
      BY <2>3, TurnedFields
    <3> QED  BY <2>1, <3>1, <3>2, <3>3, Frame DEF Fine
  <2>5. CASE h.phase = "post"
    <3>1. /\ NextHook(h) = d.post[h.pos] /\ h.pos <= Len(d.post)
      BY <2>1, <2>5 DEF NextHook, HooksOf, InHooks
    <3>2. allowed = TRUE
      <4>1. h.pos \in DOMAIN d.post
        BY <2>3, <2>5, <3>1, DeploymentFacts DEF AfterCall
      <4>2. d.post[h.pos].kind # "rate"
        BY <2>3, <4>1, DeploymentFacts DEF ArePostHooks, PostKinds
      <4> QED  BY <2>1, <3>1, <4>2
    <3>3. AfterCall(d, Turned(h, d.post[h.pos], TRUE))
      BY <2>2, <2>3, <2>5, <3>1, PostTurn
    <3>4. DOMAIN Turned(h, d.post[h.pos], TRUE) = HandlerFields
      BY <2>3, TurnedFields
    <3>5. Becomes(w, Turned(h, d.post[h.pos], TRUE))
      BY <2>1, <3>1, <3>2
    <3> QED  BY <2>1, <3>3, <3>4, <3>5, Frame DEF Fine
  <2> QED  BY <2>2, <2>4, <2>5
<1>3. ASSUME NEW w \in Caller, RecordMetrics(w)  PROVE IInv'
  <2> DEFINE h == handler[w]
             d == deployed
             e == [h EXCEPT !.pos = @ + 1, !.recorded = TRUE]
  <2>1. /\ h.phase = "post" /\ h.pos <= Len(d.post)
        /\ d.post[h.pos].kind = "metrics"
        /\ Becomes(w, e) /\ UNCHANGED deployed
    BY <1>3 DEF RecordMetrics, InHooks, NextHook, HooksOf
  <2>2. d \in Deployment /\ DOMAIN h = HandlerFields /\ AfterCall(d, h)
    BY <2>1, Doing
  <2>3. DOMAIN e = HandlerFields /\ AfterCall(d, e)
    BY <2>1, <2>2, RecordTurn
  <2> HIDE DEF e
  <2> QED  BY <2>1, <2>3, Frame DEF Fine
<1>4. ASSUME NEW w \in Caller, Ends(w)  PROVE IInv'
  BY <1>4, Frame DEF Ends, Fine
<1>5. ASSUME NEW w \in Caller, Decide(w)  PROVE IInv'
  <2> DEFINE h == handler[w]
             d == deployed
  <2>1. /\ h.phase = "pre" /\ h.pos > Len(d.pre) /\ UNCHANGED deployed
    BY <1>5 DEF Decide, Through, HooksOf
  <2>2. d \in Deployment /\ DOMAIN h = HandlerFields /\ BeforeCall(d, h)
    BY <2>1, Doing
  <2>3. CASE ~Stopped(h.ctx)
    <3> DEFINE e == [h EXCEPT !.phase = "calling", !.forwarded = TRUE]
    <3>1. Becomes(w, e)
      BY <1>5, <2>3 DEF Decide
    <3>2. /\ DOMAIN e = HandlerFields
          /\ e.phase = "calling" /\ e.forwarded = TRUE /\ e.ctx = h.ctx
          /\ e.request = h.request /\ e.throttled = h.throttled
          /\ e.recorded = h.recorded
      BY <2>2 DEF HandlerFields
    <3> HIDE DEF e
    <3>3. /\ DOMAIN h.ctx = ContextFields
          /\ Entitled(d.pre, h.request, h.throttled) /\ h.recorded = FALSE
      BY <2>1, <2>2, <2>3, DecideTurn DEF Presentable, BeforeCall
    <3>4. AtCall(d, e)
      BY <3>2, <3>3 DEF AtCall
    <3> QED  BY <2>1, <3>1, <3>2, <3>4, Frame DEF Fine
  <2>4. CASE Stopped(h.ctx)
    <3> DEFINE e == [h EXCEPT !.phase = "post", !.pos = 1, !.ctx = Refused(@)]
    <3>1. Becomes(w, e)
      BY <1>5, <2>4 DEF Decide, Refused
    <3>2. DOMAIN e = HandlerFields /\ AfterCall(d, e)
      BY <2>1, <2>2, <2>4, StoppedTurn
    <3> HIDE DEF e
    <3> QED  BY <2>1, <3>1, <3>2, Frame DEF Fine
  <2> QED  BY <2>3, <2>4
<1>6. ASSUME NEW w \in Caller, NEW a \in deployed.answers, Upstream(w, a)
      PROVE  IInv'
  <2> DEFINE h == handler[w]
             d == deployed
  <2>1. /\ h.phase = "calling" /\ Becomes(w, Answered(h, a))
        /\ UNCHANGED deployed
    BY <1>6 DEF Upstream, Answered
  <2>2. d \in Deployment /\ DOMAIN h = HandlerFields /\ AtCall(d, h)
    BY <2>1, Doing
  <2>3. /\ DOMAIN Answered(h, a) = HandlerFields
        /\ AfterCall(d, Answered(h, a))
    BY <2>2, UpstreamTurn
  <2> QED  BY <2>1, <2>3, Frame DEF Fine
<1>7. CASE ResetMetrics
  <2>1. /\ DOMAIN handler' = Caller /\ deployed' = deployed
        /\ deployed \in Deployment
    BY <1>7 DEF ResetMetrics, IInv
  <2>2. ASSUME NEW w \in Caller  PROVE Fine(deployed, handler'[w])
    <3> DEFINE h == handler[w]
               d == deployed
               e == [h EXCEPT !.recorded = FALSE]
    <3>1. CASE ~Busy(w)
      BY <1>7, <3>1 DEF ResetMetrics, IInv
    <3>2. CASE Busy(w)
      <4>1. handler'[w] = e
        BY <1>7, <3>2 DEF ResetMetrics
      <4>2. /\ DOMAIN h = HandlerFields
            /\ \/ BeforeCall(d, h) \/ AtCall(d, h) \/ AfterCall(d, h)
        BY <3>2 DEF IInv, Fine, Idle, Busy
      <4>3. /\ DOMAIN e = HandlerFields
            /\ e.phase = h.phase /\ e.pos = h.pos /\ e.ctx = h.ctx
            /\ e.request = h.request /\ e.throttled = h.throttled
            /\ e.forwarded = h.forwarded /\ e.answer = h.answer
            /\ e.recorded = FALSE
        BY <4>2 DEF HandlerFields
      <4> HIDE DEF e, h, d
      <4>4. BeforeCall(d, h) => BeforeCall(d, e)
        BY <4>3 DEF BeforeCall
      <4>5. AtCall(d, h) => AtCall(d, e)
        BY <4>3 DEF AtCall
      <4>6. AfterCall(d, h) => AfterCall(d, e)
        BY <4>3 DEF AfterCall
      <4>7. Fine(d, e)
        BY <4>2, <4>3, <4>4, <4>5, <4>6 DEF Fine
      <4> QED  BY <4>1, <4>7 DEF d
    <3> QED  BY <3>1, <3>2
  <2> QED  BY <2>1, <2>2 DEF IInv
<1>8. CASE UNCHANGED vars
  BY <1>8 DEF vars, IInv
<1>9. ASSUME NEW w \in Caller, \/ HookRaises(w) \/ UpstreamRaises(w)
                               \/ Deliver(w)
      PROVE  IInv'
  BY <1>4, <1>9 DEF HookRaises, UpstreamRaises, Deliver
<1> QED
  BY <1>1, <1>2, <1>3, <1>5, <1>6, <1>7, <1>8, <1>9 DEF Next

LEMMA Invariance == Spec => []IInv
<1> QED  BY InitInv, NextInv, PTL DEF Spec

-----------------------------------------------------------------------------
(* The theorems about one request.                                         *)

(* ForwardedIffEntitled: a request goes to the upstream if and only if     *)
(* every gate allows it as the hooks in front of it left it and no health  *)
(* endpoint answered it, whatever hooks run_pre runs, in whatever order.   *)
THEOREM ForwardsTheEntitled == Spec => []ForwardedIffEntitled
<1>1. IInv => ForwardedIffEntitled
  <2> SUFFICES ASSUME IInv, NEW w \in Caller,
                      handler[w].phase \in {"calling", "post"}
               PROVE  handler[w].forwarded <=>
                        Entitled(deployed.pre, handler[w].request,
                                 handler[w].throttled)
    BY DEF ForwardedIffEntitled
  <2> QED  BY Doing DEF AtCall, AfterCall
<1> QED  BY <1>1, Invariance, PTL

LEMMA LastIsMax ==
    ASSUME NEW S, \A j \in S : j \in Nat, NEW m, IsLast(m, S)
    PROVE  S # {} /\ Max(S) = m
<1>1. m \in S /\ m \in Nat /\ \A j \in S : m >= j
  BY DEF IsLast
<1>2. \A x \in S : (\A j \in S : x >= j) => x = m
  BY <1>1
<1> QED  BY <1>1, <1>2 DEF Max

(* LastRefusalSpeaks: what the pre hooks leave of an answer is that of the *)
(* last of them that refused, in the status and the body, and of the last  *)
(* that answered in ctx.response: run_pre never stops, and a later hook    *)
(* overwrites all that an earlier one wrote.                               *)
THEOREM TheLastRefusalSpeaks == Spec => []LastRefusalSpeaks
<1>1. IInv => LastRefusalSpeaks
  <2> SUFFICES ASSUME IInv, NEW w \in Caller, Through(handler[w], "pre")
               PROVE  LET c == handler[w].ctx
                          p == deployed.pre
                          S == StatusSaidBy(p, handler[w].request,
                                            handler[w].throttled)
                          R == ResponseSaidBy(p, handler[w].request)
                      IN /\ IF S = {}
                            THEN c.response_status = 0 /\ c.response_body = NoBody
                            ELSE /\ c.response_status = RejectStatus(p[Max(S)])
                                 /\ c.response_body = Note(p[Max(S)].kind)
                         /\ IF R = {} THEN c.response = NoResponse
                            ELSE c.response =
                                   [status |-> IF p[Max(R)].kind = "health"
                                               THEN 200
                                               ELSE RejectStatus(p[Max(R)]),
                                    from |-> p[Max(R)].kind]
    BY DEF LastRefusalSpeaks
  <2> DEFINE h == handler[w]
             c == h.ctx
             p == deployed.pre
             S == StatusSaidBy(p, h.request, h.throttled)
             R == ResponseSaidBy(p, h.request)
  <2>1. h.phase = "pre" /\ h.pos > Len(p)
    BY DEF Through, HooksOf
  <2>2. /\ deployed \in Deployment /\ DOMAIN h = HandlerFields
        /\ BeforeCall(deployed, h)
    BY <2>1, Doing
  <2>3. /\ IsPipeline(p) /\ Len(p) \in Nat /\ DOMAIN p = 1..Len(p)
    BY <2>2, DeploymentFacts
  <2>4. /\ Judged(c, p, Len(p) + 1, h.request, h.throttled)
        /\ \A j \in h.throttled : j \in DOMAIN p /\ p[j].kind = "rate"
    BY <2>1, <2>2, DecideTurn
  <2>5. /\ Refusals(p, Len(p) + 1, h.request, h.throttled) = S
        /\ Responses(p, Len(p) + 1, h.request) = R
    <3> DEFINE r == h.request
               T == h.throttled
    <3>1. /\ IsPipeline(p) /\ Judged(c, p, Len(p) + 1, r, T)
          /\ \A j \in T : j \in DOMAIN p /\ p[j].kind = "rate"
      BY <2>3, <2>4
    <3> HIDE DEF c, p, r, T
    <3>2. /\ Refusals(p, Len(p) + 1, r, T) = StatusSaidBy(p, r, T)
          /\ Responses(p, Len(p) + 1, r) = ResponseSaidBy(p, r)
      BY <3>1, SignsFacts
    <3> QED  BY <3>2 DEF c, p, r, T
  <2>6. StatusIsLast(c, p, S) /\ ResponseIsLast(c, p, R)
    BY <2>4, <2>5 DEF Judged
  <2>7. (\A j \in S : j \in Nat) /\ (\A j \in R : j \in Nat)
    BY <2>3 DEF StatusSaidBy, ResponseSaidBy
  <2> HIDE DEF c, p, S, R
  <2>8. IF S = {} THEN c.response_status = 0 /\ c.response_body = NoBody
        ELSE /\ c.response_status = RejectStatus(p[Max(S)])
             /\ c.response_body = Note(p[Max(S)].kind)
    <3>1. ASSUME NEW m, IsLast(m, S)  PROVE S # {} /\ Max(S) = m
      BY <2>7, <3>1, LastIsMax
    <3> QED  BY <2>6, <3>1 DEF StatusIsLast
  <2>9. IF R = {} THEN c.response = NoResponse
        ELSE c.response = ResponseOf(p[Max(R)])
    <3>1. ASSUME NEW m, IsLast(m, R)  PROVE R # {} /\ Max(R) = m
      BY <2>7, <3>1, LastIsMax
    <3> QED  BY <2>6, <3>1 DEF ResponseIsLast
  <2> QED  BY <2>8, <2>9 DEF c, p, S, R, ResponseOf
<1> QED  BY <1>1, Invariance, PTL

(* What is known behind the last post hook.                                *)
LEMMA Delivered ==
    ASSUME IInv, NEW w \in Caller, Through(handler[w], "post")
    PROVE  LET h == handler[w]
               q == deployed.post
           IN /\ ArePostHooks(q) /\ DOMAIN q = 1..Len(q) /\ Len(q) \in Nat
              /\ Shaped(q, Len(q) + 1, h.answer, h.ctx, h.forwarded)
              /\ h.answer.body.gzips \in Nat
<1> DEFINE h == handler[w]
           q == deployed.post
<1>1. h.phase = "post" /\ h.pos > Len(q)
  BY DEF Through, HooksOf
<1>2. deployed \in Deployment /\ AfterCall(deployed, h)
  BY <1>1, Doing
<1>3. ArePostHooks(q) /\ Len(q) \in Nat /\ DOMAIN q = 1..Len(q)
  BY <1>2, DeploymentFacts
<1>4. h.pos = Len(q) + 1
  BY <1>1, <1>2, <1>3 DEF AfterCall
<1> QED  BY <1>2, <1>3, <1>4 DEF AfterCall

LEMMA AtMostOne ==
    ASSUME NEW S, IsFiniteSet(S), Cardinality(S) <= 1
    PROVE  \A x, y \in S : x = y
<1> SUFFICES ASSUME NEW x \in S, NEW y \in S, x # y  PROVE FALSE
  OBVIOUS
<1>1. /\ IsFiniteSet(S \ {x}) /\ Cardinality(S \ {x}) = Cardinality(S) - 1
  BY FS_RemoveElement
<1>2. /\ Cardinality((S \ {x}) \ {y}) = Cardinality(S \ {x}) - 1
      /\ IsFiniteSet((S \ {x}) \ {y})
  BY <1>1, FS_RemoveElement
<1>3. Cardinality(S) \in Nat /\ Cardinality((S \ {x}) \ {y}) \in Nat
  BY <1>2, FS_CardinalityType
<1> QED  BY <1>1, <1>2, <1>3

LEMMA PlacesFinite ==
    ASSUME NEW q, Len(q) \in Nat, DOMAIN q = 1..Len(q), NEW k
    PROVE  IsFiniteSet({i \in DOMAIN q : q[i].kind = k})
<1>1. IsFiniteSet(1..Len(q))
  BY FS_Interval
<1> QED  BY <1>1, FS_Subset

(* HonestAnswer: an answer that compression or the size limit changed      *)
(* declares the length it has, one that none changed what the upstream     *)
(* declared, and Content-Encoding says if the body is gzipped.             *)
THEOREM AnswersAreHonest == Spec => []HonestAnswer
<1>1. IInv => HonestAnswer
  <2> SUFFICES ASSUME IInv, NEW w \in Caller, Through(handler[w], "post")
               PROVE  LET h == handler[w]
                          b == h.ctx.response_body
                          d == h.ctx.response_headers
                      IN /\ IF Touched(h) THEN d.length \subseteq {b.size}
                            ELSE h.forwarded => d = h.answer.headers
                         /\ h.answer.body.gzips = 0
                            /\ h.answer.headers.encoding # "gzip"
                            /\ Cardinality(Gzips) <= 1 =>
                              b.gzips = (IF d.encoding = "gzip" THEN 1 ELSE 0)
    BY DEF HonestAnswer
  <2> DEFINE h == handler[w]
             q == deployed.post
             b == h.ctx.response_body
             d == h.ctx.response_headers
  <2>1. /\ DOMAIN q = 1..Len(q) /\ Len(q) \in Nat
        /\ LengthTrue(h.answer, h.ctx, h.forwarded)
        /\ EncodingTrue(q, Len(q) + 1, h.answer, h.ctx)
        /\ b.gzips \in Nat /\ h.answer.body.gzips \in Nat
    BY Delivered DEF Shaped, Presentable, IsBody
  <2>2. IF Touched(h) THEN d.length \subseteq {b.size}
        ELSE h.forwarded => d = h.answer.headers
    BY <2>1 DEF LengthTrue, Touched
  <2>3. ASSUME h.answer.body.gzips = 0, h.answer.headers.encoding # "gzip",
               Cardinality(Gzips) <= 1
        PROVE  b.gzips = IF d.encoding = "gzip" THEN 1 ELSE 0
    <3>1. IsFiniteSet(Gzips)
      BY <2>1, PlacesFinite DEF Gzips
    <3>2. \A j, k : IsGzip(q, j) /\ IsGzip(q, k) => j = k
      BY <2>3, <3>1, AtMostOne DEF IsGzip, Gzips
    <3> QED  BY <2>1, <2>3, <3>2 DEF EncodingTrue
  <2> QED  BY <2>2, <2>3
<1> QED  BY <1>1, Invariance, PTL

(* LimitHeld: behind an enabled size limit that no compression follows a   *)
(* body is within the limit, is the limit's own, or came with a declared   *)
(* length that understated it, which is what the hook compares.            *)
THEOREM LimitHolds == Spec => []LimitHeld
<1>1. IInv => LimitHeld
  <2> SUFFICES ASSUME IInv, NEW w \in Caller, NEW i \in DOMAIN deployed.post,
                      Through(handler[w], "post"),
                      deployed.post[i].kind = "limit",
                      deployed.post[i].cfg.enabled,
                      \A j \in Gzips : j < i
               PROVE  LET h == handler[w]
                          b == h.ctx.response_body
                      IN \/ b.size <= deployed.post[i].cfg.max_bytes
                         \/ b.from = "limit"
                         \/ /\ ~Touched(h)
                            /\ \E n \in ContentLength(h.ctx) : n < b.size
    BY DEF LimitHeld
  <2> DEFINE h == handler[w]
             q == deployed.post
  <2>1. /\ DOMAIN q = 1..Len(q) /\ Len(q) \in Nat
        /\ LimitedSoFar(q, Len(q) + 1, h.answer, h.ctx)
        /\ h.answer.body.gzips \in Nat
    BY Delivered DEF Shaped
  <2>2. LastWord(q, i) /\ i < Len(q) + 1
    BY <2>1 DEF LastWord, IsGzip, Gzips
  <2>3. Within(q[i].cfg.max_bytes, h.answer, h.ctx)
    BY <2>1, <2>2 DEF LimitedSoFar
  <2> QED  BY <2>1, <2>3 DEF Within, Touched
<1> QED  BY <1>1, Invariance, PTL

-----------------------------------------------------------------------------
(* The collector.                                                          *)

IsCount(t) == /\ DOMAIN t = {"requests", "errors"}
              /\ t.requests \in Nat /\ t.errors \in Nat

AreCounts(s) == DOMAIN s = Route /\ \A r \in Route : IsCount(s[r])

(* The collector knows a request that does h to be under way on a route r, *)
(* and to have failed so far.                                              *)
Known(h, r)   == h.phase # "idle" /\ h.recorded /\ RouteId(h.ctx) = r
Failing(h, r) == Known(h, r) /\ IsError(h.ctx.response_status)

Knowns(g, r)   == {w \in Caller : Known(g[w], r)}
Failings(g, r) == {w \in Caller : Failing(g[w], r)}

OneCounter(q) ==
    \A j, k \in DOMAIN q : q[j].kind = "metrics" /\ q[k].kind = "metrics" => j = k

(* Every request that the collector counted is over, or one of those; an   *)
(* error it did not count is a 502 of a limit behind the hook.             *)
Balanced(d, st, sn, g, r) ==
    /\ st[r].requests = sn[r].requests + Cardinality(Knowns(g, r))
    /\ st[r].errors <= sn[r].errors + Cardinality(Failings(g, r))
    /\ st[r].errors = sn[r].errors + Cardinality(Failings(g, r))
       \/ \E i, j \in DOMAIN d.post : /\ i < j /\ d.post[i].kind = "metrics"
                                      /\ d.post[j].kind = "limit"

CInv ==
    /\ AreCounts(stats) /\ AreCounts(seen)
    /\ OneCounter(deployed.post) =>
         \A r \in Route : Balanced(deployed, stats, seen, handler, r)

LEMMA RecordedFacts ==
    ASSUME NEW s, AreCounts(s), NEW x, NEW b \in BOOLEAN
    PROVE  /\ AreCounts(Recorded(s, x, b))
           /\ \A r \in Route :
                /\ r # x => Recorded(s, x, b)[r] = s[r]
                /\ r = x =>
                     /\ Recorded(s, x, b)[r].requests = s[r].requests + 1
                     /\ b => Recorded(s, x, b)[r].errors = s[r].errors + 1
                     /\ ~b => Recorded(s, x, b)[r].errors = s[r].errors
<1> DEFINE t == Recorded(s, x, b)
           o == IF b THEN s[x].errors + 1 ELSE s[x].errors
<1>1. DOMAIN t = Route /\ \A r \in Route : r # x => t[r] = s[r]
  BY DEF Recorded, AreCounts
<1>2. ASSUME x \in Route
      PROVE  /\ IsCount(t[x])
             /\ t[x].requests = s[x].requests + 1 /\ t[x].errors = o
  <2>1. IsCount(s[x])
    BY <1>2 DEF AreCounts
  <2>2. o \in Nat /\ s[x].requests + 1 \in Nat
    BY <2>1 DEF IsCount
  <2>3. t[x] = [s[x] EXCEPT !.requests = @ + 1, !.errors = o]
    BY <1>2 DEF Recorded, AreCounts
  <2> DEFINE y == s[x]
             u == [y EXCEPT !.requests = @ + 1, !.errors = o]
  <2>4. /\ DOMAIN u = {"requests", "errors"}
        /\ u.requests = y.requests + 1 /\ u.errors = o
    <3> HIDE DEF y, o
    <3>1. DOMAIN y = {"requests", "errors"}
      BY <2>1 DEF IsCount, y
    <3> QED  BY <3>1
  <2> HIDE DEF u
  <2> QED  BY <2>2, <2>3, <2>4 DEF u, IsCount
<1> HIDE DEF t
<1>3. AreCounts(t)
  BY <1>1, <1>2 DEF AreCounts
<1> QED  BY <1>1, <1>2, <1>3 DEF t

LEMMA CountStep ==
    ASSUME NEW S \in SUBSET Caller, NEW T \in SUBSET Caller, NEW w \in Caller,
           \A v \in Caller : v # w => (v \in S <=> v \in T)
    PROVE  /\ Cardinality(S) \in Nat /\ Cardinality(T) \in Nat
           /\ (w \in S <=> w \in T) => Cardinality(T) = Cardinality(S)
           /\ w \notin S /\ w \in T => Cardinality(T) = Cardinality(S) + 1
           /\ w \in S /\ w \notin T => Cardinality(T) = Cardinality(S) - 1
<1>1. IsFiniteSet(S) /\ IsFiniteSet(T)
  BY PipelineAssumption, FS_Subset
<1>2. Cardinality(S) \in Nat /\ Cardinality(T) \in Nat
  BY <1>1, FS_CardinalityType
<1>3. (w \in S <=> w \in T) => S = T
  OBVIOUS
<1>4. w \notin S /\ w \in T => Cardinality(T) = Cardinality(S) + 1
  <2>1. w \notin S /\ w \in T => T = S \union {w}
    OBVIOUS
  <2> QED  BY <1>1, <2>1, FS_AddElement
<1>5. w \in S /\ w \notin T => Cardinality(T) = Cardinality(S) - 1
  <2>1. w \in S /\ w \notin T => T = S \ {w}
    OBVIOUS
  <2> QED  BY <1>1, <2>1, FS_RemoveElement
<1> QED  BY <1>2, <1>3, <1>4, <1>5

(* One thread moves.                                                       *)
LEMMA Moves ==
    ASSUME IInv, NEW w \in Caller, NEW e, Becomes(w, e), NEW r
    PROVE  LET n  == Cardinality(Knowns(handler, r))
               n2 == Cardinality(Knowns(handler', r))
               m  == Cardinality(Failings(handler, r))
               m2 == Cardinality(Failings(handler', r))
               h  == handler[w]
           IN /\ n \in Nat /\ n2 \in Nat /\ m \in Nat /\ m2 \in Nat
              /\ (Known(h, r) <=> Known(e, r)) => n2 = n
              /\ ~Known(h, r) /\ Known(e, r) => n2 = n + 1
              /\ Known(h, r) /\ ~Known(e, r) => n2 = n - 1
              /\ (Failing(h, r) <=> Failing(e, r)) => m2 = m
              /\ ~Failing(h, r) /\ Failing(e, r) => m2 = m + 1
              /\ Failing(h, r) /\ ~Failing(e, r) => m2 = m - 1
<1>1. /\ handler'[w] = e
      /\ \A v \in Caller : v # w => handler'[v] = handler[v]
  BY DEF Becomes, IInv
<1> DEFINE S == Knowns(handler, r)
           S2 == Knowns(handler', r)
           M == Failings(handler, r)
           M2 == Failings(handler', r)
<1>2. /\ S \in SUBSET Caller /\ S2 \in SUBSET Caller
      /\ \A v \in Caller : v # w => (v \in S <=> v \in S2)
      /\ w \in S <=> Known(handler[w], r)
      /\ w \in S2 <=> Known(e, r)
  BY <1>1 DEF Knowns
<1>3. /\ M \in SUBSET Caller /\ M2 \in SUBSET Caller
      /\ \A v \in Caller : v # w => (v \in M <=> v \in M2)
      /\ w \in M <=> Failing(handler[w], r)
      /\ w \in M2 <=> Failing(e, r)
  BY <1>1 DEF Failings
<1> HIDE DEF S, S2, M, M2
<1>4. /\ Cardinality(S) \in Nat /\ Cardinality(S2) \in Nat
      /\ (w \in S <=> w \in S2) => Cardinality(S2) = Cardinality(S)
      /\ w \notin S /\ w \in S2 => Cardinality(S2) = Cardinality(S) + 1
      /\ w \in S /\ w \notin S2 => Cardinality(S2) = Cardinality(S) - 1
  BY <1>2, CountStep
<1>5. /\ Cardinality(M) \in Nat /\ Cardinality(M2) \in Nat
      /\ (w \in M <=> w \in M2) => Cardinality(M2) = Cardinality(M)
      /\ w \notin M /\ w \in M2 => Cardinality(M2) = Cardinality(M) + 1
      /\ w \in M /\ w \notin M2 => Cardinality(M2) = Cardinality(M) - 1
  BY <1>3, CountStep
<1> QED  BY <1>2, <1>3, <1>4, <1>5 DEF S, S2, M, M2

(* A step that the collector does not see.                                 *)
LEMMA Unseen ==
    ASSUME IInv, CInv, UNCHANGED <<deployed, stats, seen>>,
           NEW w \in Caller, NEW e, Becomes(w, e),
           \A r : /\ Known(handler[w], r) <=> Known(e, r)
                  /\ Failing(handler[w], r) <=> Failing(e, r)
    PROVE  CInv'
<1> SUFFICES ASSUME OneCounter(deployed.post), NEW r \in Route
             PROVE  Balanced(deployed, stats, seen, handler, r)'
  BY DEF CInv
<1>1. Balanced(deployed, stats, seen, handler, r)
  BY DEF CInv
<1>2. /\ Cardinality(Knowns(handler', r)) = Cardinality(Knowns(handler, r))
      /\ Cardinality(Failings(handler', r)) = Cardinality(Failings(handler, r))
  BY Moves
<1> QED  BY <1>1, <1>2 DEF Balanced

LEMMA NotYetKnown ==
    ASSUME IInv, NEW w \in Caller, handler[w].phase # "post", NEW r
    PROVE  ~Known(handler[w], r) /\ ~Failing(handler[w], r)
<1>1. CASE handler[w].phase = "idle"
  BY <1>1 DEF Known, Failing
<1>2. CASE handler[w].phase # "idle"
  <2>1. BeforeCall(deployed, handler[w]) \/ AtCall(deployed, handler[w])
    BY <1>2 DEF IInv, Fine, Idle, AfterCall
  <2>2. handler[w].recorded = FALSE
    BY <2>1 DEF BeforeCall, AtCall
  <2> QED  BY <2>2 DEF Known, Failing
<1> QED  BY <1>1, <1>2

LEMMA CInit == Init => CInv
<1> SUFFICES ASSUME Init  PROVE CInv
  OBVIOUS
<1>1. /\ stats = [r \in Route |-> NoStats] /\ seen = [r \in Route |-> NoStats]
      /\ \A w \in Caller : handler[w] = Idle
  BY DEF Init
<1>2. /\ DOMAIN NoStats = {"requests", "errors"}
      /\ NoStats.requests = 0 /\ NoStats.errors = 0
  BY DEF NoStats
<1>3. AreCounts(stats) /\ AreCounts(seen)
  BY <1>1, <1>2 DEF AreCounts, IsCount
<1>4. ASSUME NEW r \in Route
      PROVE  Balanced(deployed, stats, seen, handler, r)
  <2>1. Knowns(handler, r) = {} /\ Failings(handler, r) = {}
    BY <1>1 DEF Knowns, Failings, Known, Failing, Idle
  <2>2. Cardinality({}) = 0
    BY FS_EmptySet
  <2>3. /\ stats[r].requests = 0 /\ stats[r].errors = 0
        /\ seen[r].requests = 0 /\ seen[r].errors = 0
    BY <1>1, <1>2
  <2> QED  BY <2>1, <2>2, <2>3 DEF Balanced
<1> QED  BY <1>3, <1>4 DEF CInv

(* A hook behind the call: a limit may turn a counted answer into an       *)
(* error that is not counted.                                              *)
LEMMA RunHookCounts ==
    ASSUME IInv, CInv, NEW w \in Caller, NEW allowed \in BOOLEAN,
           RunHook(w, allowed)
    PROVE  CInv'
<1> DEFINE h == handler[w]
           d == deployed
           g == NextHook(h)
           e == Turned(h, g, allowed)
<1>1. /\ InHooks(h) /\ ~Raises(g, h.ctx, h.phase)
      /\ Becomes(w, e) /\ UNCHANGED <<deployed, stats, seen>>
  BY DEF RunHook, Turned
<1>2. h.phase \in {"pre", "post"} /\ g.kind # "transform"
  BY <1>1 DEF InHooks, Raises
<1>3. d \in Deployment /\ DOMAIN h = HandlerFields
  BY <1>2, Doing
<1>4. /\ e.phase = h.phase /\ e.recorded = h.recorded
      /\ e.ctx = Called(g, h.ctx, allowed)
  BY <1>3, TurnedFields
<1>5. CASE h.phase = "pre"
  <2>1. h.recorded = FALSE
    BY <1>5, Doing DEF BeforeCall
  <2> HIDE DEF e, h
  <2>2. \A r : /\ ~Known(h, r) /\ ~Failing(h, r)
               /\ ~Known(e, r) /\ ~Failing(e, r)
    BY <1>4, <2>1 DEF Known, Failing
  <2> QED  BY <1>1, <2>2, Unseen DEF h
<1>6. CASE h.phase = "post"
  <2>1. /\ g = d.post[h.pos] /\ h.pos <= Len(d.post) /\ AfterCall(d, h)
    BY <1>1, <1>6, Doing DEF NextHook, HooksOf, InHooks
  <2>2. /\ h.pos \in DOMAIN d.post /\ h.pos \in Nat
        /\ ArePostHooks(d.post) /\ g.kind \in PostKinds
    BY <1>3, <2>1, DeploymentFacts DEF AfterCall, ArePostHooks
  <2>3. allowed = TRUE
    BY <2>2 DEF RunHook, PostKinds
  <2>4. Kept(g, h.ctx, e.ctx)
    BY <1>2, <1>3, <1>4, <2>1, <2>3, PostTurn
  <2> DEFINE c == h.ctx
             c2 == e.ctx
  <2>5. RouteId(c2) = RouteId(c)
    BY <2>4 DEF Kept, RouteId
  <2> SUFFICES ASSUME OneCounter(deployed.post), NEW r \in Route
               PROVE  Balanced(deployed, stats, seen, handler, r)'
    BY <1>1 DEF CInv
  <2>6. /\ Balanced(deployed, stats, seen, handler, r)
        /\ IsCount(stats[r]) /\ IsCount(seen[r])
    BY DEF CInv, AreCounts
  <2> HIDE DEF e, h, g, d
  <2>7. Known(h, r) <=> Known(e, r)
    BY <1>4, <2>5 DEF Known
  <2>8. /\ Failing(h, r) => Failing(e, r)
        /\ g.kind # "limit" => (Failing(h, r) <=> Failing(e, r))
    BY <1>4, <2>4, <2>7 DEF Failing, Kept
  <2> DEFINE n  == Cardinality(Knowns(handler, r))
             n2 == Cardinality(Knowns(handler', r))
             m  == Cardinality(Failings(handler, r))
             m2 == Cardinality(Failings(handler', r))
  <2>9. /\ n2 = n /\ m \in Nat
        /\ (Failing(h, r) <=> Failing(e, r)) => m2 = m
        /\ ~Failing(h, r) /\ Failing(e, r) => m2 = m + 1
    BY <1>1, <2>7, Moves DEF h
  <2>10. CASE Failing(h, r) <=> Failing(e, r)
    <3>1. n2 = n /\ m2 = m
      BY <2>9, <2>10
    <3> QED  BY <1>1, <2>6, <3>1 DEF Balanced
  <2>11. CASE ~Failing(h, r) /\ Failing(e, r)
    <3>1. g.kind = "limit" /\ h.recorded
      BY <1>4, <2>8, <2>11 DEF Failing, Known
    <3>2. \E i, j \in DOMAIN d.post :
            i < j /\ d.post[i].kind = "metrics" /\ d.post[j].kind = "limit"
      BY <2>1, <2>2, <3>1 DEF AfterCall, PastCounter
    <3>3. n2 = n /\ m2 = m + 1
      BY <2>9, <2>11
    <3>4. stats[r].errors <= seen[r].errors + m2
      BY <2>6, <2>9, <3>3 DEF Balanced, IsCount
    <3> QED  BY <1>1, <2>6, <3>2, <3>3, <3>4 DEF Balanced, d
  <2> QED  BY <2>8, <2>10, <2>11
<1> QED  BY <1>2, <1>5, <1>6

(* The metrics hook: the request was not known, there being one such hook. *)
LEMMA RecordCounts ==
    ASSUME IInv, CInv, NEW w \in Caller, RecordMetrics(w)
    PROVE  CInv'
<1> DEFINE h == handler[w]
           d == deployed
           e == [h EXCEPT !.pos = @ + 1, !.recorded = TRUE]
           x == RouteId(h.ctx)
           b == IsError(h.ctx.response_status)
<1>1. /\ h.phase = "post" /\ h.pos <= Len(d.post)
      /\ d.post[h.pos].kind = "metrics"
      /\ Becomes(w, e) /\ UNCHANGED <<deployed, seen>>
      /\ stats' = Recorded(stats, x, b)
  BY DEF RecordMetrics, InHooks, NextHook, HooksOf
<1>2. d \in Deployment /\ DOMAIN h = HandlerFields /\ AfterCall(d, h)
  BY <1>1, Doing
<1>3. e.phase = h.phase /\ e.ctx = h.ctx /\ e.recorded = TRUE
  BY <1>2 DEF HandlerFields
<1>4. h.pos \in DOMAIN d.post /\ h.pos \in Nat
  BY <1>1, <1>2, DeploymentFacts DEF AfterCall
<1>5. b \in BOOLEAN
  BY DEF IsError
<1>6. AreCounts(stats) /\ AreCounts(seen)
  BY DEF CInv
<1> HIDE DEF e, x, b
<1>7. /\ AreCounts(stats')
      /\ \A r \in Route :
           /\ r # x => stats'[r] = stats[r]
           /\ r = x => /\ stats'[r].requests = stats[r].requests + 1
                       /\ b => stats'[r].errors = stats[r].errors + 1
                       /\ ~b => stats'[r].errors = stats[r].errors
  BY <1>1, <1>5, <1>6, RecordedFacts
<1> SUFFICES ASSUME OneCounter(deployed.post), NEW r \in Route
             PROVE  Balanced(deployed, stats, seen, handler, r)'
  BY <1>1, <1>6, <1>7 DEF CInv
<1>8. ~h.recorded
  <2>1. ASSUME NEW j \in DOMAIN d.post, d.post[j].kind = "metrics", j < h.pos
        PROVE  FALSE
    <3>1. j = h.pos
      BY <1>1, <1>4, <2>1 DEF OneCounter
    <3> QED  BY <1>4, <2>1, <3>1
  <2> QED  BY <1>2, <2>1 DEF AfterCall, PastCounter
<1>9. /\ ~Known(h, r) /\ ~Failing(h, r)
      /\ Known(e, r) <=> r = x
      /\ Failing(e, r) <=> r = x /\ b
  BY <1>1, <1>3, <1>8 DEF Known, Failing, x, b
<1> DEFINE n  == Cardinality(Knowns(handler, r))
           n2 == Cardinality(Knowns(handler', r))
           m  == Cardinality(Failings(handler, r))
           m2 == Cardinality(Failings(handler', r))
<1>10. /\ n \in Nat /\ m \in Nat
       /\ n2 = IF r = x THEN n + 1 ELSE n
       /\ m2 = IF r = x /\ b THEN m + 1 ELSE m
  BY <1>1, <1>9, Moves
<1>11. /\ Balanced(deployed, stats, seen, handler, r)
       /\ IsCount(stats[r]) /\ IsCount(seen[r])
  BY <1>6 DEF CInv, AreCounts
<1> HIDE DEF n, n2, m, m2
<1>12. /\ stats[r].requests = seen[r].requests + n
       /\ stats[r].errors <= seen[r].errors + m
       /\ stats[r].errors = seen[r].errors + m
          \/ \E i, j \in DOMAIN d.post : /\ i < j /\ d.post[i].kind = "metrics"
                                         /\ d.post[j].kind = "limit"
       /\ stats[r].requests \in Nat /\ stats[r].errors \in Nat
       /\ seen[r].requests \in Nat /\ seen[r].errors \in Nat
  BY <1>11 DEF Balanced, IsCount, n, m
<1>13. /\ stats'[r].requests = seen[r].requests + n2
       /\ stats'[r].errors <= seen[r].errors + m2
       /\ stats'[r].errors = seen[r].errors + m2
          \/ \E i, j \in DOMAIN d.post : /\ i < j /\ d.post[i].kind = "metrics"
                                         /\ d.post[j].kind = "limit"
  <2>1. CASE r # x
    BY <1>7, <1>10, <1>12, <2>1
  <2>2. CASE r = x /\ b
    BY <1>7, <1>10, <1>12, <2>2
  <2>3. CASE r = x /\ ~b
    BY <1>7, <1>10, <1>12, <2>3
  <2> QED  BY <1>5, <2>1, <2>2, <2>3
<1> QED  BY <1>1, <1>13 DEF Balanced, n2, m2

(* A request is over: it moves from those under way to those seen.         *)
LEMMA EndCounts ==
    ASSUME IInv, CInv, NEW w \in Caller, handler[w].phase # "idle", Ends(w)
    PROVE  CInv'
<1> DEFINE h == handler[w]
           d == deployed
           x == RouteId(h.ctx)
           b == h.ctx.response_status \notin 1..499
<1>1. /\ Becomes(w, Idle) /\ UNCHANGED <<deployed, stats>>
      /\ seen' = IF h.recorded THEN Recorded(seen, x, b) ELSE seen
  BY DEF Ends
<1>2. \A r : ~Known(Idle, r) /\ ~Failing(Idle, r)
  BY DEF Known, Failing, Idle
<1>3. CASE ~h.recorded
  <2>1. \A r : /\ Known(h, r) <=> Known(Idle, r)
               /\ Failing(h, r) <=> Failing(Idle, r)
    BY <1>2, <1>3 DEF Failing, Known
  <2> QED  BY <1>1, <1>3, <2>1, Unseen
<1>4. CASE h.recorded
  <2>1. h.phase = "post"
    BY <1>4, Doing DEF IInv, Fine, Idle, BeforeCall, AtCall, AfterCall
  <2>2. h.ctx.response_status \in Nat
    BY <2>1, Doing DEF AfterCall, Shaped, Presentable
  <2>3. IsError(h.ctx.response_status) <=> b
    <3> DEFINE s == h.ctx.response_status
    <3>1. s \in Nat
      BY <2>2
    <3> HIDE DEF s
    <3>2. IsError(s) <=> s \notin 1..499
      BY <3>1 DEF IsError
    <3> QED  BY <3>2 DEF s
  <2>4. AreCounts(stats) /\ AreCounts(seen) /\ b \in BOOLEAN
    BY DEF CInv
  <2>5. \A r : /\ Known(h, r) <=> r = x
               /\ Failing(h, r) <=> r = x /\ b
    BY <1>4, <2>1, <2>3 DEF Known, Failing
  <2> HIDE DEF x, b
  <2>6. /\ AreCounts(seen')
        /\ \A r \in Route :
             /\ r # x => seen'[r] = seen[r]
             /\ r = x => /\ seen'[r].requests = seen[r].requests + 1
                         /\ b => seen'[r].errors = seen[r].errors + 1
                         /\ ~b => seen'[r].errors = seen[r].errors
    BY <1>1, <1>4, <2>4, RecordedFacts
  <2> SUFFICES ASSUME OneCounter(deployed.post), NEW r \in Route
               PROVE  Balanced(deployed, stats, seen, handler, r)'
    BY <1>1, <2>4, <2>6 DEF CInv
  <2> DEFINE n  == Cardinality(Knowns(handler, r))
             n2 == Cardinality(Knowns(handler', r))
             m  == Cardinality(Failings(handler, r))
             m2 == Cardinality(Failings(handler', r))
  <2>7. /\ n \in Nat /\ m \in Nat /\ n2 \in Nat /\ m2 \in Nat
        /\ r = x => n2 = n - 1
        /\ r # x => n2 = n
        /\ r = x /\ b => m2 = m - 1
        /\ r # x \/ ~b => m2 = m
    BY <1>1, <1>2, <2>5, Moves
  <2>8. /\ Balanced(deployed, stats, seen, handler, r)
        /\ IsCount(stats[r]) /\ IsCount(seen[r])
    BY <2>4 DEF CInv, AreCounts
  <2> HIDE DEF n, n2, m, m2
  <2>9. /\ stats[r].requests = seen[r].requests + n
        /\ stats[r].errors <= seen[r].errors + m
        /\ stats[r].errors = seen[r].errors + m
           \/ LimitBehindMetrics
        /\ stats[r].requests \in Nat /\ stats[r].errors \in Nat
        /\ seen[r].requests \in Nat /\ seen[r].errors \in Nat
    BY <2>8 DEF Balanced, IsCount, LimitBehindMetrics, n, m
  <2>10. /\ stats[r].requests = seen'[r].requests + n2
         /\ stats[r].errors <= seen'[r].errors + m2
         /\ stats[r].errors = seen'[r].errors + m2
            \/ LimitBehindMetrics
    <3>1. CASE r # x
      BY <2>6, <2>7, <2>9, <3>1
    <3>2. CASE r = x /\ b
      BY <2>6, <2>7, <2>9, <3>2
    <3>3. CASE r = x /\ ~b
      BY <2>6, <2>7, <2>9, <3>3
    <3> QED  BY <2>4, <3>1, <3>2, <3>3
  <2> QED  BY <1>1, <2>10 DEF Balanced, LimitBehindMetrics, n2, m2
<1> QED  BY <1>3, <1>4

LEMMA CNext == IInv /\ CInv /\ [Next]_vars => CInv'
<1> SUFFICES ASSUME IInv, CInv, [Next]_vars  PROVE CInv'
  OBVIOUS
(* A thread that the collector knows neither before a step nor behind it.  *)
<1>1. ASSUME NEW w \in Caller, handler[w].phase # "post", NEW e,
             Becomes(w, e), UNCHANGED <<deployed, stats, seen>>,
             e.recorded = FALSE
      PROVE  CInv'
  <2>1. \A r : /\ Known(handler[w], r) <=> Known(e, r)
               /\ Failing(handler[w], r) <=> Failing(e, r)
    BY <1>1, NotYetKnown DEF Known, Failing
  <2> QED  BY <1>1, <2>1, Unseen
<1>2. ASSUME NEW w \in Caller, NEW r \in deployed.requests, Arrive(w, r)
      PROVE  CInv'
  <2> DEFINE h == [phase |-> "pre", pos |-> 1, request |-> r,
                   ctx |-> NewContext(r), throttled |-> {},
                   forwarded |-> FALSE, answer |-> Unanswered,
                   recorded |-> FALSE]
  <2>1. /\ Becomes(w, h) /\ UNCHANGED <<deployed, stats, seen>>
        /\ handler[w].phase # "post"
    BY <1>2 DEF Arrive, Busy
  <2>2. h.recorded = FALSE
    OBVIOUS
  <2> HIDE DEF h
  <2> QED  BY <1>1, <2>1, <2>2
<1>3. ASSUME NEW w \in Caller, Decide(w)  PROVE CInv'
  <2> DEFINE h == handler[w]
             e == [h EXCEPT !.phase = "calling", !.forwarded = TRUE]
             e2 == [h EXCEPT !.phase = "post", !.pos = 1, !.ctx = Refused(@)]
  <2>1. /\ h.phase = "pre" /\ UNCHANGED <<deployed, stats, seen>>
        /\ Becomes(w, e) \/ Becomes(w, e2)
    BY <1>3 DEF Decide, Through, Refused
  <2>2. DOMAIN h = HandlerFields /\ h.recorded = FALSE
    BY <2>1, Doing DEF BeforeCall
  <2>3. e.recorded = FALSE /\ e2.recorded = FALSE
    BY <2>2 DEF HandlerFields
  <2> HIDE DEF e, e2
  <2> QED  BY <1>1, <2>1, <2>3
<1>4. ASSUME NEW w \in Caller, NEW a \in deployed.answers, Upstream(w, a)
      PROVE  CInv'
  <2> DEFINE h == handler[w]
             e == Answered(h, a)
  <2>1. /\ h.phase = "calling" /\ UNCHANGED <<deployed, stats, seen>>
        /\ Becomes(w, e)
    BY <1>4 DEF Upstream, Answered
  <2>2. DOMAIN h = HandlerFields /\ h.recorded = FALSE
    BY <2>1, Doing DEF AtCall
  <2>3. e.recorded = FALSE
    BY <2>2 DEF HandlerFields, Answered
  <2> HIDE DEF e
  <2> QED  BY <1>1, <2>1, <2>3
<1>5. CASE ResetMetrics
  <2>1. /\ stats' = [r \in Route |-> NoStats] /\ seen' = [r \in Route |-> NoStats]
        /\ \A w \in Caller : handler'[w].phase = "idle"
                             \/ ~handler'[w].recorded
    <3>1. ASSUME NEW w \in Caller
          PROVE  handler'[w].phase = "idle" \/ ~handler'[w].recorded
      <4>1. CASE ~Busy(w)
        BY <1>5, <4>1 DEF ResetMetrics, Busy
      <4>2. CASE Busy(w)
        <5>1. DOMAIN handler[w] = HandlerFields
          BY <4>2, Doing DEF Busy
        <5>2. handler'[w] = [handler[w] EXCEPT !.recorded = FALSE]
          BY <1>5, <4>2 DEF ResetMetrics
        <5> QED  BY <5>1, <5>2 DEF HandlerFields
      <4> QED  BY <4>1, <4>2
    <3> QED  BY <1>5, <3>1 DEF ResetMetrics
  <2>2. /\ DOMAIN NoStats = {"requests", "errors"}
        /\ NoStats.requests = 0 /\ NoStats.errors = 0
    BY DEF NoStats
  <2>3. AreCounts(stats') /\ AreCounts(seen')
    BY <2>1, <2>2 DEF AreCounts, IsCount
  <2>4. ASSUME NEW r \in Route
        PROVE  Balanced(deployed', stats', seen', handler', r)
    <3>1. Knowns(handler', r) = {} /\ Failings(handler', r) = {}
      BY <2>1 DEF Knowns, Failings, Known, Failing
    <3>2. Cardinality({}) = 0
      BY FS_EmptySet
    <3>3. /\ stats'[r].requests = 0 /\ stats'[r].errors = 0
          /\ seen'[r].requests = 0 /\ seen'[r].errors = 0
      BY <2>1, <2>2
    <3> QED  BY <3>1, <3>2, <3>3 DEF Balanced
  <2> QED  BY <2>3, <2>4 DEF CInv
<1>6. CASE UNCHANGED vars
  BY <1>6 DEF vars, CInv
<1>7. ASSUME NEW w \in Caller, \/ HookRaises(w) \/ UpstreamRaises(w)
                               \/ Deliver(w)
      PROVE  CInv'
  <2>1. Ends(w) /\ handler[w].phase # "idle"
    BY <1>7 DEF HookRaises, UpstreamRaises, Deliver, InHooks, Through
  <2> QED  BY <2>1, EndCounts
<1> QED
  BY <1>2, <1>3, <1>4, <1>5, <1>6, <1>7, RunHookCounts, RecordCounts DEF Next

LEMMA CInvariance == Spec => []CInv
<1> QED  BY CInit, CNext, Invariance, PTL DEF Spec

(* ErrorsMatchAnswers: behind one metrics hook and between two reset()s    *)
(* the collector counts every request once, and as errors just those that  *)
(* ended in one, however the threads interleave; a size limit behind the   *)
(* hook makes errors that it does not count.                               *)
THEOREM CountsMatchAnswers == Spec => []ErrorsMatchAnswers
<1>1. IInv /\ CInv => ErrorsMatchAnswers
  <2> SUFFICES ASSUME IInv, CInv, Cardinality(Counters) <= 1, NEW r \in Route
               PROVE  /\ stats[r].requests =
                           seen[r].requests + Cardinality(UnderWay(r))
                      /\ UnderWay(r) = {} =>
                           IF LimitBehindMetrics
                           THEN stats[r].errors <= seen[r].errors
                           ELSE stats[r].errors = seen[r].errors
    BY DEF ErrorsMatchAnswers
  <2> DEFINE q == deployed.post
  <2>1. Len(q) \in Nat /\ DOMAIN q = 1..Len(q)
    BY DeploymentFacts DEF IInv
  <2>2. IsFiniteSet(Counters)
    BY <2>1, PlacesFinite DEF Counters
  <2>3. OneCounter(q)
    BY <2>2, AtMostOne DEF OneCounter, Counters
  <2>4. /\ Balanced(deployed, stats, seen, handler, r)
        /\ IsCount(stats[r]) /\ IsCount(seen[r])
    BY <2>3 DEF CInv, AreCounts
  <2>5. UnderWay(r) = Knowns(handler, r)
    BY DEF UnderWay, Knowns, Known, Busy
  <2>6. UnderWay(r) = {} => Cardinality(Failings(handler, r)) = 0
    <3>1. Failings(handler, r) \subseteq Knowns(handler, r)
      BY DEF Failings, Knowns, Failing
    <3>2. UnderWay(r) = {} => Failings(handler, r) = {}
      BY <2>5, <3>1
    <3> QED  BY <3>2, FS_EmptySet
  <2> QED  BY <2>4, <2>5, <2>6 DEF Balanced, IsCount, LimitBehindMetrics
<1> QED  BY <1>1, Invariance, CInvariance, PTL
=============================================================================
