---------------------------- MODULE ProxyHandler ----------------------------
(***************************************************************************)
(* ProxyHandler.do_request of patchwork/proxy.py with the routing rules of *)
(* patchwork/config.py: one handler thread to a connection, while the      *)
(* reload thread replaces the class's configuration.  http.server speaks   *)
(* HTTP/1.0 here and closes a connection after one request, unless the     *)
(* head it relays says keep-alive.                                         *)
(*                                                                         *)
(* A path is a sequence of pieces of text.  A client that has gone makes a *)
(* write fail, or not yet; one that stalls, which stays and reads nothing, *)
(* makes it wait.  What reaches a client is a sequence of answers, each a  *)
(* head and the body that followed it.                                     *)
(***************************************************************************)
EXTENDS Naturals, SequencesExt

CONSTANTS
    Worker,     \* handler threads
    Piece,      \* pieces of text
    Path,       \* values of self.path
    Method,     \* values of self.command
    Prefix,     \* prefixes of rules, sequences of pieces too
    Target,     \* targets of rules
    BadTarget,  \* those that urllib.request.Request refuses
    Config,     \* ProxyConfigs: sequences of rules
    NoConfig,   \* None
    OkStatus,   \* statuses urlopen returns a response for
    ErrStatus   \* those it raises HTTPError for

Rule == [prefix : Prefix, target : Target, strip_prefix : BOOLEAN,
         methods : SUBSET Method]

ASSUME HandlerAssumption ==
    /\ "/" \in Piece
    /\ Path \subseteq Seq(Piece)
    /\ Prefix \subseteq Seq(Piece)
    /\ Config \subseteq Seq(Rule)
    /\ NoConfig \notin Config
    /\ BadTarget \subseteq Target /\ "none" \notin Target
    /\ OkStatus \intersect ErrStatus = {}
    /\ "none" \notin OkStatus \union ErrStatus

VARIABLES
    config,   \* ProxyHandler._config
    handler,  \* what each thread is doing
    client,   \* "sending" its body, "waiting", "stalled" or "gone"
    drips,    \* does the upstream send a byte now and then, without an end?
    out,      \* the answers written to each request
    since,    \* history: the configurations there were while the request was
              \* being routed
    upstream  \* history: the status each request's upstream answered with

vars == <<config, handler, client, drips, out, since, upstream>>

(* Content-Length: none (or zero), a number, or no number at all; a        *)
(* negative one reads to the client's end, as "some" does.                 *)
Request == [path : Path, method : Method, length : {"none", "some", "bad"}]

Status == OkStatus \union ErrStatus \union {"404", "502", "503"}

-----------------------------------------------------------------------------
(* RouteRule.matches, ProxyConfig.match_route (0 for None), and            *)
(* RouteRule.rewrite.                                                      *)
Matches(rule, r) ==
    /\ rule.methods # {} => r.method \in rule.methods
    /\ IsPrefix(rule.prefix, r.path)

MatchRoute(c, r) == SelectInSeq(c, LAMBDA rule : Matches(rule, r))

Rewrite(rule, path) ==
    LET rest == SubSeq(path, Len(rule.prefix) + 1, Len(path)) IN
    CASE ~rule.strip_prefix -> path
      [] rule.strip_prefix /\ rest = <<>> -> <<"/">>
      [] rule.strip_prefix /\ rest # <<>> -> rest

TargetUrl(rule, r) == [target |-> rule.target, path |-> Rewrite(rule, r.path)]

NoUrl == [target |-> "none", path |-> <<>>]
Idle  == [phase |-> "idle"]
Open  == [phase |-> "open"]

Phase(w)   == handler[w].phase
Becomes(w, h) == handler' = [handler EXCEPT ![w] = h]

(* do_request goes on with phase p, its locals otherwise unchanged.        *)
GoTo(w, p) == Becomes(w, [handler[w] EXCEPT !.phase = p])

(* _respond(s, ...) comes next; the handler returns after it.              *)
RespondWith(w, s) ==
    Becomes(w, [handler[w] EXCEPT !.phase = "responding", !.status = s])

(* An exception nothing catches: the thread closes the connection.         *)
Dies(w, fault) ==
    Becomes(w, [handler[w] EXCEPT !.phase = "done", !.fault = fault,
                                  !.keep = FALSE])

-----------------------------------------------------------------------------
Init ==
    /\ config = NoConfig
    /\ handler = [w \in Worker |-> Idle]
    /\ client = [w \in Worker |-> "waiting"]
    /\ drips = [w \in Worker |-> FALSE]
    /\ out = [w \in Worker |-> <<>>]
    /\ since = [w \in Worker |-> {}]
    /\ upstream = [w \in Worker |-> "none"]

Routing(w) == Phase(w) \in {"started", "configured", "routed", "reading"}

(* update_config(), by the reload thread.                                  *)
UpdateConfig(c) ==
    /\ config' = c
    /\ since' = [w \in Worker |-> IF Routing(w) THEN since[w] \union {c}
                                                ELSE since[w]]
    /\ UNCHANGED <<handler, client, drips, out, upstream>>

(* A client connects, and handle() waits for its request line ...          *)
Connect(w) ==
    /\ Phase(w) = "idle"
    /\ Becomes(w, Open)
    /\ UNCHANGED <<config, client, drips, out, since, upstream>>

(* ... which comes, with the headers ...                                   *)
Accept(w, r) ==
    /\ Phase(w) = "open"
    /\ client[w] # "gone"
    /\ Becomes(w, [phase |-> "started", request |-> r, config |-> NoConfig,
                   route |-> 0, url |-> NoUrl, status |-> "none",
                   fault |-> "none", keep |-> FALSE])
    /\ client' = [client EXCEPT ![w] =
                    IF r.length = "some" THEN "sending" ELSE "waiting"]
    /\ since' = [since EXCEPT ![w] = {config}]
    /\ UNCHANGED <<config, drips, out, upstream>>

(* ... or does not: the client has closed the connection.                  *)
HangUp(w) ==
    /\ Phase(w) = "open"
    /\ client[w] = "gone"
    /\ Becomes(w, Idle)
    /\ client' = [client EXCEPT ![w] = "waiting"]
    /\ UNCHANGED <<config, drips, out, since, upstream>>

(* The client finishes its body, stops reading or goes on, or closes the   *)
(* connection.                                                             *)
ClientSends(w) ==
    /\ client[w] = "sending"
    /\ client' = [client EXCEPT ![w] = "waiting"]
    /\ UNCHANGED <<config, handler, drips, out, since, upstream>>

ClientStalls(w) ==
    /\ Phase(w) # "idle"
    /\ client[w] \in {"waiting", "stalled"}
    /\ client' = [client EXCEPT ![w] =
                    IF @ = "waiting" THEN "stalled" ELSE "waiting"]
    /\ UNCHANGED <<config, handler, drips, out, since, upstream>>

ClientLeaves(w) ==
    /\ Phase(w) # "idle"
    /\ client[w] # "gone"
    /\ client' = [client EXCEPT ![w] = "gone"]
    /\ UNCHANGED <<config, handler, drips, out, since, upstream>>

(* The timeout of 30 seconds is one without a byte: an upstream that drips *)
(* keeps urlopen() and read() waiting for as long as it likes.             *)
UpstreamDrips(w) ==
    /\ Phase(w) \in {"calling", "streaming"}
    /\ drips' = [drips EXCEPT ![w] = ~@]
    /\ UNCHANGED <<config, handler, client, out, since, upstream>>

Peers(w) ==
    \/ Connect(w) \/ ClientSends(w) \/ ClientStalls(w) \/ ClientLeaves(w)
    \/ UpstreamDrips(w)

-----------------------------------------------------------------------------
(* _get_config(), under the lock: the request keeps what it got.           *)
GetConfig(w) ==
    /\ Phase(w) = "started"
    /\ IF config = NoConfig
       THEN RespondWith(w, "503")
       ELSE Becomes(w, [handler[w] EXCEPT !.phase = "configured",
                                          !.config = config])
    /\ UNCHANGED <<config, client, drips, out, since, upstream>>

Route(w) ==
    /\ Phase(w) = "configured"
    /\ LET i == MatchRoute(handler[w].config, handler[w].request) IN
         IF i = 0
         THEN RespondWith(w, "404")
         ELSE Becomes(w, [handler[w] EXCEPT !.phase = "routed", !.route = i])
    /\ UNCHANGED <<config, client, drips, out, since, upstream>>

(* A plausible slip: the rule is looked up again in the current config.    *)
CurrentRule(w) ==
    IF config # NoConfig /\ handler[w].route \in DOMAIN config
    THEN config[handler[w].route]
    ELSE handler[w].config[handler[w].route]

MatchedRule(w) == handler[w].config[handler[w].route]

(* target_url, and int(Content-Length), which is not in the try.           *)
BuildUrl(w) ==
    /\ Phase(w) = "routed"
    /\ IF handler[w].request.length = "bad"
       THEN Dies(w, "length")
       ELSE Becomes(w, [handler[w] EXCEPT
              !.phase = "reading",
              !.url = TargetUrl(MatchedRule(w), handler[w].request)])
    /\ UNCHANGED <<config, client, drips, out, since, upstream>>

(* A plausible slip: reading to the end of the stream.                     *)
ReadBodyToEOF(w) ==
    /\ Phase(w) = "reading"
    /\ handler[w].request.length = "none" \/ client[w] = "gone"
    /\ IF handler[w].url.target \in BadTarget
       THEN Dies(w, "target") ELSE GoTo(w, "calling")
    /\ UNCHANGED <<config, client, drips, out, since, upstream>>

(* rfile.read() waits for the whole body or the client's end; then Request *)
(* is made, which refuses a target without a scheme.                       *)
ReadBody(w) ==
    /\ Phase(w) = "reading"
    /\ client[w] # "sending"
    /\ IF handler[w].url.target \in BadTarget
       THEN Dies(w, "target") ELSE GoTo(w, "calling")
    /\ UNCHANGED <<config, client, drips, out, since, upstream>>

(* rfile.read() on a connection that was reset raises.                     *)
ReadBodyFails(w) ==
    /\ Phase(w) = "reading"
    /\ handler[w].request.length = "some"
    /\ client[w] = "gone"
    /\ Dies(w, "client")
    /\ UNCHANGED <<config, client, drips, out, since, upstream>>

-----------------------------------------------------------------------------
(* urlopen() returns a response ...                                        *)
Answered(w, s) ==
    /\ Phase(w) = "calling"
    /\ ~drips[w]
    /\ s \in OkStatus
    /\ Becomes(w, [handler[w] EXCEPT !.phase = "relaying", !.status = s])
    /\ upstream' = [upstream EXCEPT ![w] = s]
    /\ UNCHANGED <<config, client, drips, out, since>>

(* A plausible slip: HTTPError is caught with the other exceptions.        *)
RefusedAs502(w, s) ==
    /\ Phase(w) = "calling"
    /\ ~drips[w]
    /\ s \in ErrStatus
    /\ RespondWith(w, "502")
    /\ upstream' = [upstream EXCEPT ![w] = s]
    /\ UNCHANGED <<config, client, drips, out, since>>

(* ... raises HTTPError, whose body is read in the except clause ...       *)
Refused(w, s) ==
    /\ Phase(w) = "calling"
    /\ ~drips[w]
    /\ s \in ErrStatus
    /\ RespondWith(w, s)
    /\ upstream' = [upstream EXCEPT ![w] = s]
    /\ UNCHANGED <<config, client, drips, out, since>>

(* ... where an error of exc.read() is caught by nobody ...                *)
RefusedUnread(w, s) ==
    /\ Phase(w) = "calling"
    /\ ~drips[w]
    /\ s \in ErrStatus
    /\ Dies(w, "error_body")
    /\ upstream' = [upstream EXCEPT ![w] = s]
    /\ UNCHANGED <<config, client, drips, out, since>>

(* ... or fails: no connection, no answer in time, no such scheme.         *)
Unreachable(w) ==
    /\ Phase(w) = "calling"
    /\ ~drips[w]
    /\ RespondWith(w, "502")
    /\ UNCHANGED <<config, client, drips, out, since, upstream>>

-----------------------------------------------------------------------------
Wrote(w, answer) == out' = [out EXCEPT ![w] = Append(@, answer)]

(* The head is flushed by end_headers, before the upstream's body is read; *)
(* a Connection header in it decides whether the connection is kept.       *)
RelayHead(w) ==
    /\ Phase(w) = "relaying"
    /\ client[w] # "stalled"
    /\ Wrote(w, [status |-> handler[w].status, body |-> "none"])
    /\ \E k \in BOOLEAN :
         Becomes(w, [handler[w] EXCEPT !.phase = "streaming", !.keep = k])
    /\ UNCHANGED <<config, client, drips, since, upstream>>

(* resp.read() ...                                                         *)
ReadUpstream(w) ==
    /\ Phase(w) = "streaming"
    /\ ~drips[w]
    /\ GoTo(w, "writing")
    /\ UNCHANGED <<config, client, drips, out, since, upstream>>

(* ... or its failure after the head is out: the same except clause as for *)
(* a failed call.                                                          *)
UpstreamBreaks(w) ==
    /\ Phase(w) = "streaming"
    /\ ~drips[w]
    /\ Becomes(w, [handler[w] EXCEPT !.phase = "responding", !.status = "502",
                                     !.fault = "body"])
    /\ UNCHANGED <<config, client, drips, out, since, upstream>>

(* A plausible slip: no return once the body is out.                       *)
RelayBodyAndGoOn(w) ==
    /\ Phase(w) = "writing"
    /\ client[w] # "stalled"
    /\ out' = [out EXCEPT ![w][Len(out[w])].body = "whole"]
    /\ RespondWith(w, "502")
    /\ UNCHANGED <<config, client, drips, since, upstream>>

(* wfile.write(): the connection's socket has no timeout.                  *)
RelayBody(w) ==
    /\ Phase(w) = "writing"
    /\ client[w] # "stalled"
    /\ out' = [out EXCEPT ![w][Len(out[w])].body = "whole"]
    /\ GoTo(w, "done")
    /\ UNCHANGED <<config, client, drips, since, upstream>>

(* A write to a client that has gone is an "Upstream error" too.           *)
RelayFails(w) ==
    /\ Phase(w) \in {"relaying", "writing"}
    /\ client[w] = "gone"
    /\ RespondWith(w, "502")
    /\ UNCHANGED <<config, client, drips, out, since, upstream>>

(* _respond(), by now outside any try.                                     *)
Respond(w) ==
    /\ Phase(w) = "responding"
    /\ client[w] # "stalled"
    /\ Wrote(w, [status |-> handler[w].status, body |-> "whole"])
    /\ GoTo(w, "done")
    /\ UNCHANGED <<config, client, drips, since, upstream>>

RespondFails(w) ==
    /\ Phase(w) = "responding"
    /\ client[w] = "gone"
    /\ \/ UNCHANGED out
       \/ Wrote(w, [status |-> handler[w].status, body |-> "none"])
    /\ Dies(w, "client")
    /\ UNCHANGED <<config, client, drips, since, upstream>>

(* A plausible slip: what was written for one request is left to the next. *)
FinishKeepsAnswers(w) ==
    /\ Phase(w) = "done"
    /\ Becomes(w, IF handler[w].keep THEN Open ELSE Idle)
    /\ client' = [client EXCEPT ![w] = IF handler[w].keep THEN @ ELSE "waiting"]
    /\ since' = [since EXCEPT ![w] = {}]
    /\ upstream' = [upstream EXCEPT ![w] = "none"]
    /\ UNCHANGED <<config, drips, out>>

(* The connection is kept, or closed and the thread can take another.      *)
Finish(w) ==
    /\ Phase(w) = "done"
    /\ Becomes(w, IF handler[w].keep THEN Open ELSE Idle)
    /\ client' = [client EXCEPT ![w] = IF handler[w].keep THEN @ ELSE "waiting"]
    /\ out' = [out EXCEPT ![w] = <<>>]
    /\ since' = [since EXCEPT ![w] = {}]
    /\ upstream' = [upstream EXCEPT ![w] = "none"]
    /\ UNCHANGED <<config, drips>>

Step(w) ==
    \/ HangUp(w) \/ GetConfig(w) \/ Route(w) \/ BuildUrl(w)
    \/ ReadBody(w) \/ ReadBodyFails(w)
    \/ \E s \in Status : Answered(w, s) \/ Refused(w, s) \/ RefusedUnread(w, s)
    \/ Unreachable(w)
    \/ RelayHead(w) \/ ReadUpstream(w) \/ UpstreamBreaks(w)
    \/ RelayBody(w) \/ RelayFails(w)
    \/ Respond(w) \/ RespondFails(w) \/ Finish(w)

Next ==
    \/ \E c \in Config : UpdateConfig(c)
    \/ \E w \in Worker :
         \/ \E r \in Request : Accept(w, r)
         \/ Peers(w) \/ Step(w)

Spec == Init /\ [][Next]_vars

(* A thread that can go on does.  urlopen and resp.read are among what can *)
(* go on unless the upstream drips, by their timeout; a read or a write of *)
(* the client's socket has none.  Clients and upstreams owe nothing.       *)
FairSpec == Spec /\ \A w \in Worker : WF_vars(Step(w))

-----------------------------------------------------------------------------
Busy ==
    [phase : {"started", "configured", "routed", "reading", "calling",
              "relaying", "streaming", "writing", "responding", "done"},
     request : Request,
     config : Config \union {NoConfig},
     route : Nat,
     url : {NoUrl} \union [target : Target, path : Seq(Piece)],
     status : Status \union {"none"},
     fault : {"none", "length", "target", "client", "error_body", "body"},
     keep : BOOLEAN]

Answer == [status : Status, body : {"none", "whole"}]

(* The type of every variable; a request gets two answers at most.         *)
TypeOK ==
    /\ config \in Config \union {NoConfig}
    /\ handler \in [Worker -> Busy \union {Idle, Open}]
    /\ client \in [Worker -> {"sending", "waiting", "stalled", "gone"}]
    /\ drips \in [Worker -> BOOLEAN]
    /\ out \in [Worker -> Seq(Answer)]
    /\ \A w \in Worker : Len(out[w]) <= 2
    /\ since \in [Worker -> SUBSET (Config \union {NoConfig})]
    /\ upstream \in [Worker -> Status \union {"none"}]

RoutedBy(c, h) ==
    IF h.url = NoUrl
    THEN IF c = NoConfig THEN h.status = "503"
         ELSE h.status = "404" /\ MatchRoute(c, h.request) = 0
    ELSE /\ c # NoConfig
         /\ MatchRoute(c, h.request) # 0
         /\ h.url = TargetUrl(c[MatchRoute(c, h.request)], h.request)

Routed(h, S) ==
    /\ h.phase \notin {"idle", "open", "started", "configured", "routed"}
    /\ h.fault # "length"
    => \E c \in S : RoutedBy(c, h)

(* One configuration decides about a request, its match, its rewriting and *)
(* its target, however often the configuration is replaced meanwhile; and  *)
(* it is one that was in force while the request was being routed.         *)
OneConfig == \A w \in Worker : Routed(handler[w], since[w])

(* What a head may say: the upstream's own status if it gave one, 502 if   *)
(* it was asked and gave none, 404 or 503 if it was never asked.           *)
Truthful(s, h, u) ==
    /\ u # "none" => s = u
    /\ u = "none" => IF h.url = NoUrl THEN s \in {"404", "503"} ELSE s = "502"

Honest(h, cl, o, u) ==
    cl # "gone" /\ o # <<>> => Truthful(o[1].status, h, u)

(* The first head a client gets is true.                                   *)
FirstHeadHonest ==
    \A w \in Worker : Honest(handler[w], client[w], out[w], upstream[w])

(* What leaves a client that stays without any answer.                     *)
Unanswered(h, u) ==
    \/ h.fault = "length" /\ h.request.length = "bad"
    \/ h.fault = "target" /\ h.url.target \in BadTarget
    \/ h.fault = "error_body" /\ u \in ErrStatus

Once(h, cl, o, u) ==
    cl # "gone" =>
        /\ Len(o) > 1 => /\ h.fault = "body"
                         /\ o[1].body = "none"
                         /\ o[2].status = "502"
        /\ h.phase = "done" =>
             IF o = <<>> THEN Unanswered(h, u) ELSE o[Len(o)].body = "whole"

(* A client that stays gets one whole answer to its request.  There is a   *)
(* second head, of a 502 behind the first, only where the upstream broke   *)
(* off in its body; and there is none at all only where the Content-Length *)
(* is no number, the rule's target no URL, or the body of an error the     *)
(* upstream answered with could not be read.                               *)
AnsweredOnce ==
    \A w \in Worker : Once(handler[w], client[w], out[w], upstream[w])

(* Who keeps a thread waiting: a client that does not send its request, or *)
(* its body, or does not read its answer; or an upstream that drips.       *)
Held(w) ==
    \/ Phase(w) = "open" /\ client[w] # "gone"
    \/ Phase(w) = "reading" /\ client[w] = "sending"
    \/ Phase(w) \in {"relaying", "writing", "responding"} /\ client[w] = "stalled"
    \/ Phase(w) \in {"calling", "streaming"} /\ drips[w]

(* A thread that never comes back is held, over and over again, by its     *)
(* client or by an upstream that drips, where it reads from or writes to   *)
(* just that one; nothing else, and no reload, keeps a thread.             *)
Unstuck == \A w \in Worker : <>[](Phase(w) # "idle") => []<>Held(w)
=============================================================================
