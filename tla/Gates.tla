------------------------------- MODULE Gates --------------------------------
(***************************************************************************)
(* The pre hooks that decide about a request or redirect it: API keys,     *)
(* JWTs, request signatures, addresses, countries, TLS, query parameters,  *)
(* body size, rate limit, the health endpoint and path rewriting.  Each    *)
(* hook is an operator from its configuration and the context to the       *)
(* context it leaves; what it decides on is an operator of its own.        *)
(*                                                                         *)
(* A context has the attributes the hooks' own tests give theirs, those of *)
(* the request first, so that a request can stand where a context is only  *)
(* read.  A text is a value; what a library reads in it is a constant      *)
(* function whose domain are the texts it accepts.                         *)
(***************************************************************************)
EXTENDS Integers, SequencesExt

CONSTANTS
    None,        \* None, and what get() gives for a key that is not there
    Now,         \* time.time()
    int,         \* int(text)
    lower,       \* text.lower(), where it differs from the text
    upper,       \* text.upper(), where it differs
    first,       \* the first of a comma-separated list, where there are more
    network,     \* the addresses in a CIDR block
    Rooted,      \* the texts that start with a slash
    jwt,         \* a token: its prefix, dots, algorithm, secret and payload
    signature,   \* what a signature was computed from
    NonAscii,    \* the texts with characters outside ASCII
    NoteSize     \* the length of the texts the hooks answer with

Lower(t) == IF t \in DOMAIN lower THEN lower[t] ELSE t
Upper(t) == IF t \in DOMAIN upper THEN upper[t] ELSE t
First(t) == IF t \in DOMAIN first THEN first[t] ELSE t

(* d.get(k), d.get(k, e), d with d[k] = v, and a or b.                     *)
Get(d, k) == IF k \in DOMAIN d THEN d[k] ELSE None
GetOr(d, k, e) == IF k \in DOMAIN d THEN d[k] ELSE e
Put(d, k, v) ==
    [n \in DOMAIN d \union {k} |-> IF n = k THEN v ELSE d[n]]
Truthy(t) == t \notin {None, ""}
Or(a, b) == IF Truthy(a) THEN a ELSE b

(* Response headers, as far as a hook reads them: a length is the set of   *)
(* what is given under that name, None standing for a text int() refuses.  *)
NoHeaders == [type |-> "", length |-> {}, small_length |-> {},
              encoding |-> ""]
TextPlain == [NoHeaders EXCEPT !.type = "text/plain"]

NoBody  == [from |-> "nobody", size |-> 0, gzips |-> 0]
Note(g) == [from |-> g, size |-> NoteSize, gzips |-> 0]

(* ctx.response: None, or the dict a hook or the upstream puts there.      *)
NoResponse == [status |-> 0, from |-> "nobody"]

NewContext(r) ==
    [path |-> r.path, request_path |-> r.request_path, method |-> r.method,
     keys |-> r.keys, scheme |-> r.scheme, headers |-> r.headers,
     params |-> r.params, remote_addr |-> r.remote_addr, target |-> r.target,
     auth_ok |-> "unset", ip_blocked |-> "unset",
     skip_upstream |-> FALSE, short_circuit |-> FALSE,
     response |-> NoResponse, response_status |-> 0,
     response_body |-> NoBody, response_headers |-> NoHeaders]

(* ctx.response_status and ctx.response_body, set together.                *)
Refuse(c, status, g) ==
    [c EXCEPT !.response_status = status, !.response_body = Note(g)]

IsReject(status) == status \in 400..599

-----------------------------------------------------------------------------
(* API keys.                                                               *)
AuthConfig(f) == (f.enabled => f.valid_keys # {}) /\ f.header_name # ""

ExtractApiKey(f, c) ==
    Or(Or(Get(c.headers, f.header_name), Get(c.headers, Lower(f.header_name))),
       Get(c.params, f.query_param))

IsAuthenticated(f, c) == ~f.enabled \/ ExtractApiKey(f, c) \in f.valid_keys

(* The verdict is written whichever way it goes, by a disabled hook too.   *)
Auth(f, c) ==
    [c EXCEPT !.auth_ok = IF IsAuthenticated(f, c) THEN "yes" ELSE "no"]

-----------------------------------------------------------------------------
(* JWTs.                                                                   *)
JWTConfig(f) ==
    (f.enabled => f.secret # "") /\ f.header_name # "" /\ f.prefix # ""

Raw(f, c) == GetOr(c.headers, f.header_name, "")

Prefixed(f, c) == Raw(f, c) \in DOMAIN jwt /\ jwt[Raw(f, c)].prefix = f.prefix

(* decode_jwt: a payload, of whatever type, unless something is wrong.     *)
Decodes(f, c) ==
    LET t == jwt[Raw(f, c)] IN
    /\ t.parts = 3
    /\ t.alg \in f.algorithms /\ t.alg = "HS256"
    /\ t.secret = f.secret
    /\ t.payload # "null"

JWTAllows(f, c) == ~f.enabled \/ (Prefixed(f, c) /\ Decodes(f, c))

(* A token's sub is str(payload["sub"]), or None if "sub" is not in it.    *)
(* "sub" in payload raises for what is no container, and payload["sub"]    *)
(* for a text or a list that contains it.                                  *)
JWTRaises(f, c) ==
    LET t == jwt[Raw(f, c)] IN
    /\ f.enabled /\ JWTAllows(f, c) /\ Truthy(f.claim_header)
    /\ \/ t.payload = "number"
       \/ t.payload \in {"text", "list"} /\ t.sub # None

(* The headers an accepted request is left with: the claim goes into the   *)
(* request's own, under a name that hooks behind this one may read.        *)
Claimed(f, c) ==
    IF f.enabled /\ Truthy(f.claim_header) /\ jwt[Raw(f, c)].sub # None
    THEN Put(c.headers, f.claim_header, jwt[Raw(f, c)].sub)
    ELSE c.headers

(* A plausible slip: the claim is kept in ctx.meta alone.                  *)
JWTForgetsClaim(f, c) ==
    IF JWTAllows(f, c) THEN c ELSE Refuse(c, 401, "jwt")

(* The challenge goes to a response header that no hook here reads.        *)
JWT(f, c) ==
    IF JWTAllows(f, c) THEN [c EXCEPT !.headers = Claimed(f, c)]
    ELSE Refuse(c, 401, "jwt")

-----------------------------------------------------------------------------
(* Request signatures.                                                     *)
RequestSigningConfig(f) ==
    /\ f.enabled => f.secret # ""
    /\ f.header_name # "" /\ f.timestamp_header # ""
    /\ f.max_skew_seconds >= 0
    /\ IsReject(f.reject_status)

Signed(f, c) ==
    [secret |-> f.secret, method |-> Upper(c.method), path |-> c.path,
     timestamp |-> c.headers[f.timestamp_header],
     extra |-> [h \in f.signed_headers |-> GetOr(c.headers, h, "")]]

(* Signature and timestamp are there, and the latter is near enough.       *)
Timely(f, c) ==
    LET ts == Get(c.headers, f.timestamp_header) IN
    /\ Truthy(Get(c.headers, f.header_name)) /\ Truthy(ts)
    /\ ts \in DOMAIN int
    /\ Now - int[ts] <= f.max_skew_seconds
    /\ int[ts] - Now <= f.max_skew_seconds

SigningAllows(f, c) ==
    LET sig == Get(c.headers, f.header_name) IN
    \/ ~f.enabled
    \/ Timely(f, c) /\ sig \in DOMAIN signature /\ signature[sig] = Signed(f, c)

(* compare_digest takes ASCII texts only.                                  *)
SigningRaises(f, c) ==
    f.enabled /\ Timely(f, c) /\ Get(c.headers, f.header_name) \in NonAscii

Signing(f, c) ==
    IF SigningAllows(f, c) THEN c ELSE Refuse(c, f.reject_status, "signing")

-----------------------------------------------------------------------------
(* Addresses.                                                              *)
IPAllowlistConfig(f) ==
    /\ f.enabled => f.allowed_cidrs # {}
    /\ f.allowed_cidrs \subseteq DOMAIN network
    /\ f.header # ""

ClientIP(f, c) ==
    LET raw == GetOr(c.headers, f.header, "") IN
    IF raw # "" THEN First(raw) ELSE c.remote_addr

IPAllows(f, c) ==
    ~f.enabled \/ \E n \in f.allowed_cidrs : ClientIP(f, c) \in network[n]

(* A disabled hook leaves the verdict alone; an enabled one writes it      *)
(* whichever way it goes.                                                  *)
IPAllowlist(f, c) ==
    IF ~f.enabled THEN c
    ELSE [c EXCEPT !.ip_blocked = IF IPAllows(f, c) THEN "no" ELSE "yes"]

-----------------------------------------------------------------------------
(* Countries.                                                              *)
GeoBlockConfig(f) ==
    /\ f.allowlist = {} \/ f.blocklist = {}
    /\ IsReject(f.reject_status)
    /\ f.country_header # ""
    /\ f.unknown_country_policy \in {"allow", "block"}

Uppers(S) == {Upper(t) : t \in S}

GeoAllows(f, c) ==
    LET country == Get(c.headers, f.country_header) IN
    \/ ~f.enabled
    \/ ~Truthy(country) /\ f.unknown_country_policy = "allow"
    \/ /\ Truthy(country)
       /\ f.allowlist # {} => Upper(country) \in Uppers(f.allowlist)
       /\ Upper(country) \notin Uppers(f.blocklist)

GeoBlock(f, c) ==
    IF GeoAllows(f, c) THEN c
    ELSE [Refuse(c, f.reject_status, "geo") EXCEPT
            !.response_headers = TextPlain]

-----------------------------------------------------------------------------
(* TLS.                                                                    *)
TLSVerifyConfig(f) ==
    f.forwarded_proto_header # "" /\ IsReject(f.reject_status)

TLSAllows(f, c) ==
    \/ ~f.enabled
    \/ Lower(c.scheme) = "https"
    \/ Lower(Get(c.headers, f.forwarded_proto_header)) = "https"

(* A plausible slip: the body of an earlier refusal is left.               *)
TLSVerifyKeepsBody(f, c) ==
    IF TLSAllows(f, c) THEN c
    ELSE [c EXCEPT !.response_status = f.reject_status,
                   !.short_circuit = TRUE]

TLSVerify(f, c) ==
    IF TLSAllows(f, c) THEN c
    ELSE [Refuse(c, f.reject_status, "tls") EXCEPT !.short_circuit = TRUE]

-----------------------------------------------------------------------------
(* Query parameters.                                                       *)
QueryFilterConfig(f) == IsReject(f.reject_status) /\ f.reason_header # ""

QueryAllows(f, c) ==
    \/ ~f.enabled
    \/ f.blocked_params \intersect c.keys = {} /\ f.required_params \subseteq c.keys

QueryFilter(f, c) ==
    IF QueryAllows(f, c) THEN c
    ELSE [c EXCEPT !.response = [status |-> f.reject_status, from |-> "query"]]

-----------------------------------------------------------------------------
(* Body size, by what Content-Length says; no number, no limit.            *)
RequestSizeConfig(f) == f.max_bytes > 0

SizeAllows(f, c) ==
    LET raw == Or(Get(c.headers, "content-length"),
                  Get(c.headers, "Content-Length")) IN
    ~f.enabled \/ (raw \in DOMAIN int => int[raw] <= f.max_bytes)

RequestSize(f, c) ==
    IF SizeAllows(f, c) THEN c
    ELSE [Refuse(c, 413, "size") EXCEPT !.response_headers = TextPlain,
                                        !.skip_upstream = TRUE]

-----------------------------------------------------------------------------
(* Rate limit: the verdict is the limiter's.                               *)
RateLimit(allowed, c) == IF allowed THEN c ELSE Refuse(c, 429, "rate")

-----------------------------------------------------------------------------
(* The health endpoint, which answers in ctx.response.                     *)
HealthEndpointConfig(f) == f.path \in Rooted

IsHealthCheck(f, path) == f.enabled /\ path = f.path

HealthEndpoint(f, c) ==
    IF ~IsHealthCheck(f, c.request_path) THEN c
    ELSE [c EXCEPT !.response = [status |-> 200, from |-> "health"]]

-----------------------------------------------------------------------------
(* Path rewriting: a rule is the function from the paths its pattern is    *)
(* found in to what the substitution makes of them; the first rule that    *)
(* matches is the only one applied.                                        *)
PathRewriteConfig(f) == f.enabled => f.rules # <<>>

Rewritten(f, path) ==
    LET i == SelectInSeq(f.rules, LAMBDA rule : path \in DOMAIN rule) IN
    IF f.enabled /\ i # 0 THEN f.rules[i][path] ELSE path

PathRewrite(f, c) == [c EXCEPT !.request_path = Rewritten(f, @)]
=============================================================================
