---------------------------- MODULE MCPipeline ------------------------------
(* Constant values for the model-checking run of Pipeline: what the texts  *)
(* mean, the hooks, the traffic and the deployments.                       *)
EXTENDS Pipeline

CONSTANTS w1, w2

-----------------------------------------------------------------------------
(* Texts.                                                                  *)
Ints   == [t \in {"2", "3", "60", "100", "170"} |->
             CASE t = "2" -> 2 [] t = "3" -> 3 [] t = "60" -> 60
               [] t = "100" -> 100 [] t = "170" -> 170]
Lowers == [t \in {"X-Api-Key", "HTTPS"} |->
             IF t = "HTTPS" THEN "https" ELSE "x-api-key"]
Uppers1 == [t \in {"de", "post"} |-> IF t = "de" THEN "DE" ELSE "POST"]
Firsts == [t \in {"in, out", "out, in"} |->
             IF t = "in, out" THEN "in" ELSE "out"]
Networks == [n \in {"inner", "outer"} |->
               IF n = "inner" THEN {"in"} ELSE {"out"}]

Token(parts, alg, secret, payload, sub) ==
    [prefix |-> "Bearer", parts |-> parts, alg |-> alg, secret |-> secret,
     payload |-> payload, sub |-> sub]

(* The subjects are texts that other gates give a meaning to.              *)
Tokens ==
    [t \in {"good", "nosub", "fr", "two", "none", "forged", "null", "five",
            "list", "sublist", "basic"} |->
        CASE t = "good"    -> Token(3, "HS256", "s", "dict", "de")
          [] t = "nosub"   -> Token(3, "HS256", "s", "dict", None)
          [] t = "fr"      -> Token(3, "HS256", "s", "dict", "FR")
          [] t = "two"     -> Token(2, "HS256", "s", "dict", "de")
          [] t = "none"    -> Token(3, "none", "s", "dict", "de")
          [] t = "forged"  -> Token(3, "HS256", "other", "dict", "FR")
          [] t = "null"    -> Token(3, "HS256", "s", "null", None)
          [] t = "five"    -> Token(3, "HS256", "s", "number", None)
          [] t = "list"    -> Token(3, "HS256", "s", "list", None)
          [] t = "sublist" -> Token(3, "HS256", "s", "list", "de")
          [] t = "basic"   -> [Token(3, "HS256", "s", "dict", "de")
                                 EXCEPT !.prefix = "Basic"]]

(* What each signature was computed from: all for POST /a.                 *)
SigOf(t, extra) ==
    [secret |-> "s", method |-> "POST", path |-> "/a", timestamp |-> t,
     extra |-> extra]
NoExtra == [h \in {} |-> ""]

Signatures ==
    [t \in {"sig100", "sig60", "sig170", "sigtype", "sigsub"} |->
        CASE t = "sig100"  -> SigOf("100", NoExtra)
          [] t = "sig60"   -> SigOf("60", NoExtra)
          [] t = "sig170"  -> SigOf("170", NoExtra)
          [] t = "sigtype" -> SigOf("100", [h \in {"Host"} |-> ""])
          [] t = "sigsub"  -> SigOf("100", [h \in {"X-JWT-Sub"} |-> "de"])]
NonAsciiTexts == {"siglatin"}

RootedTexts == {"/a", "/old", "/health"}
GzipTexts   == {"gzip", "br, gzip"}
BaseTypes   == [t \in {"Text/Plain; charset=utf-8"} |-> "text/plain"]
GzipLength  == [n \in 0..9 |-> IF n < 4 THEN n + 1 ELSE n - 2]

-----------------------------------------------------------------------------
(* Hooks.                                                                  *)
H(kind, cfg) == [kind |-> kind, cfg |-> cfg]
Plain(kind)  == H(kind, "none")

AuthCfg(on) == [enabled |-> on, header_name |-> "X-Api-Key",
                query_param |-> "api_key", valid_keys |-> {"k1"}]
AuthOn  == H("auth", AuthCfg(TRUE))
AuthOff == H("auth", AuthCfg(FALSE))
JWTCfg(claim) ==
    [enabled |-> TRUE, secret |-> "s", algorithms |-> {"HS256", "none"},
     header_name |-> "Authorization", prefix |-> "Bearer",
     claim_header |-> claim]
JWTOn   == H("jwt", JWTCfg("X-JWT-Sub"))
JWTGeo  == H("jwt", JWTCfg("X-Country-Code"))
JWTBare == H("jwt", JWTCfg(None))
JWTOff  == H("jwt", [JWTCfg("X-Country-Code") EXCEPT !.enabled = FALSE])
SigCfg(signed) ==
    [enabled |-> TRUE, secret |-> "s", header_name |-> "X-Signature",
     timestamp_header |-> "X-Timestamp", max_skew_seconds |-> 40,
     reject_status |-> 401, signed_headers |-> signed]
SigOn   == H("signing", SigCfg({}))
SigHost == H("signing", [SigCfg({"Host"}) EXCEPT !.reject_status = 403])
SigSub  == H("signing", SigCfg({"X-JWT-Sub"}))
IPCfg(on, cidrs) == [enabled |-> on, allowed_cidrs |-> cidrs,
                     header |-> "X-Forwarded-For"]
IPIn    == H("ip", IPCfg(TRUE, {"inner"}))
IPOut   == H("ip", IPCfg(TRUE, {"inner", "outer"}))
IPOff   == H("ip", IPCfg(FALSE, {}))
GeoCfg(allow, block, unknown) ==
    [enabled |-> TRUE, allowlist |-> allow, blocklist |-> block,
     country_header |-> "X-Country-Code", reject_status |-> 451,
     unknown_country_policy |-> unknown]
GeoAllow == H("geo", GeoCfg({"de"}, {}, "block"))
GeoBar   == H("geo", GeoCfg({}, {"FR"}, "allow"))
TLSOn    == H("tls", [enabled |-> TRUE, reject_status |-> 403,
                      forwarded_proto_header |-> "X-Forwarded-Proto"])
QueryOn  == H("query", [enabled |-> TRUE, blocked_params |-> {"debug"},
                        required_params |-> {"q"}, reject_status |-> 400,
                        reason_header |-> "X-Query-Filter-Reason"])
SizeOn   == H("size", [enabled |-> TRUE, max_bytes |-> 2])
RateOn   == Plain("rate")
HealthOn == H("health", [enabled |-> TRUE, path |-> "/health"])
Rule(from, to) == [p \in {from} |-> to]
RewriteOn == H("rewrite", [enabled |-> TRUE, rules |->
                <<Rule("/old", "/a"), Rule("/a", "/health")>>])

PreHooks == {AuthOn, AuthOff, JWTOn, JWTGeo, JWTBare, JWTOff, SigOn,
             SigHost, SigSub, IPIn, IPOut, IPOff,
             GeoAllow, GeoBar, TLSOn, QueryOn, SizeOn, RateOn, HealthOn,
             RewriteOn, Plain("metrics"), Plain("retry")}

Gzip(min) == H("gzip", [enabled |-> TRUE, min_bytes |-> min,
                        compressible_types |-> {"text/plain"}])
Limit(max) == H("limit", [enabled |-> TRUE, max_bytes |-> max,
                          header_name |-> "X-Response-Size-Limit"])
PostHooks == {Gzip(0), Gzip(5), Limit(4), Limit(7), Plain("metrics")}

-----------------------------------------------------------------------------
(* Requests: one that every gate allows, and what may be wrong with it.    *)
Good ==
    [path |-> "/a", request_path |-> "/a", method |-> "post", keys |-> {"q"},
     scheme |-> "http", params |-> [k \in {} |-> ""], remote_addr |-> None,
     target |-> "t",
     headers |-> [n \in {"X-Api-Key", "Authorization", "X-Signature",
                         "X-Timestamp", "X-Forwarded-For", "X-Country-Code",
                         "X-Forwarded-Proto", "Content-Length",
                         "X-Method"} |->
        CASE n = "X-Api-Key" -> "k1"          [] n = "Authorization" -> "good"
          [] n = "X-Signature" -> "sig100"    [] n = "X-Timestamp" -> "100"
          [] n = "X-Forwarded-For" -> "in, out"
          [] n = "X-Country-Code" -> "de"     [] n = "Content-Length" -> "2"
          [] n = "X-Forwarded-Proto" -> "HTTPS" [] n = "X-Method" -> "post"]]

Without(r, n) == [r EXCEPT !.headers = Restrict(@, DOMAIN @ \ {n})]
With(r, n, t) == [r EXCEPT !.headers =
                    [m \in DOMAIN @ \union {n} |-> IF m = n THEN t ELSE @[m]]]
At(r, path)   == [r EXCEPT !.path = path, !.request_path = path]

Headers == DOMAIN Good.headers

Requests ==
    {Good} \union {Without(Good, n) : n \in Headers}
    \union {With(Good, "Authorization", t) :
               t \in {"nosub", "fr", "two", "none", "forged", "null", "five",
                       "list", "sublist", "basic"}}
    \union {With(Good, "X-Signature", t) : t \in {"sigtype", "sigsub", "siglatin"}}
    \union {With(With(Good, "X-Signature", "sigsub"), "X-JWT-Sub", t) :
               t \in {"de", "FR"}}
    \union {With(With(Good, "X-Signature", "sig60"), "X-Timestamp", "60"),
            With(With(Good, "X-Signature", "sig170"), "X-Timestamp", "170"),
            With(Good, "X-Timestamp", "soon"),
            With(Good, "X-Api-Key", "k2"), With(Good, "X-Api-Key", ""),
            With(Without(Good, "X-Api-Key"), "x-api-key", "k1"),
            [Without(Good, "X-Api-Key") EXCEPT
                !.params = [k \in {"api_key"} |-> "k1"]],
            With(Good, "X-Forwarded-For", "out, in"),
            With(Good, "X-Forwarded-For", "unknown"),
            [Without(Good, "X-Forwarded-For") EXCEPT !.remote_addr = "in"],
            With(Good, "X-Country-Code", "FR"),
            With(Good, "X-Country-Code", ""),
            With(Good, "X-Forwarded-Proto", "http"),
            [Without(Good, "X-Forwarded-Proto") EXCEPT !.scheme = "HTTPS"],
            [Good EXCEPT !.keys = {}], [Good EXCEPT !.keys = {"q", "debug"}],
            With(Good, "Content-Length", "3"),
            With(Good, "content-length", "3"),
            With(Good, "Content-Length", "long"),
            At(Good, "/old"), At(Good, "/health"),
            [At(Good, "/health") EXCEPT !.keys = {}],
            With(With(Good, "X-Country-Code", "FR"),
                 "X-Forwarded-Proto", "http"),
            With(Without(Good, "Authorization"), "X-Country-Code", "FR")}

(* The upstream's answers: plain or not, as long as they say or not.       *)
Body(n, k) == [from |-> "upstream", size |-> n, gzips |-> k]
Answer(status, h, b) == [status |-> status, headers |-> h, body |-> b]
Typed(t) == [NoHeaders EXCEPT !.type = t]

Short == Answer(200, NoHeaders, NoBody)
Answers ==
    {Short, Answer(500, TextPlain, Body(3, 0))}
    \union {Answer(200, [Typed("Text/Plain; charset=utf-8") EXCEPT
                            !.length = l, !.small_length = m], Body(6, 0)) :
               l \in {{}, {6}, {3}, {None}}, m \in {{}, {6}}}
    \union {Answer(200, [TextPlain EXCEPT !.length = {9}], NoBody),
            Answer(200, [Typed("image/png") EXCEPT !.length = {9}], Body(9, 0)),
            Answer(200, [TextPlain EXCEPT !.length = {6}, !.encoding = "gzip"],
                   Body(6, 1))}

-----------------------------------------------------------------------------
(* Deployments.                                                            *)
Deploy(p, q, R, A) ==
    [pre |-> p, post |-> q, requests |-> R, answers |-> A,
     callers |-> {w1}, load |-> 1]

(* Every two pre hooks in both orders, and a hook that raises.             *)
Pairs == {Deploy(<<g, h>>, <<>>, Requests, {Short}) :
             g \in PreHooks, h \in PreHooks \union {Plain("transform")}}

(* All gates at once, in two orders.                                       *)
All == <<AuthOn, JWTOn, SigOn, IPIn, GeoBar, TLSOn, QueryOn, SizeOn, RateOn,
         RewriteOn, HealthOn>>
Long == {Deploy(p, <<Plain("metrics")>>, Requests, {Short}) :
            p \in {All, Reverse(All)}}

(* Every three post hooks but two metrics hooks.                           *)
Shaped ==
    {Deploy(<<GeoBar>>, <<g, h, i>>,
            {With(Good, "Accept-Encoding", "br, gzip"), Good,
             With(With(Good, "Accept-Encoding", "gzip"),
                  "X-Country-Code", "FR")}, Answers) :
        g \in PostHooks, h \in PostHooks, i \in PostHooks}

OneMetrics(d) ==
    Cardinality({i \in DOMAIN d.post : d.post[i].kind = "metrics"}) <= 1

(* Requests of two routes at the same time, with hooks that fail.          *)
Together ==
    {[Deploy(<<Plain("metrics"), QueryOn>>, q,
            {Good, With([Good EXCEPT !.keys = {}], "X-Method", "GET")},
            {Short, Answer(500, TextPlain, Body(6, 0))})
        EXCEPT !.callers = {w1, w2}, !.load = 3] :
        q \in {<<Plain("metrics"), Limit(4)>>, <<Limit(4), Plain("metrics")>>,
               <<Plain("metrics"), Plain("retry")>>,
               <<Plain("transform"), Plain("metrics")>>}}

Deployments ==
    Pairs \union Long \union {d \in Shaped : OneMetrics(d)} \union Together

Both == {w1, w2}
Routes == {<<"POST", "t">>, <<"GET", "t">>, <<"UNKNOWN", "t">>}
=============================================================================
