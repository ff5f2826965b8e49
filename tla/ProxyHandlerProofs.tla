------------------------- MODULE ProxyHandlerProofs -------------------------
(***************************************************************************)
(* Proofs about ProxyHandler: for any number of handler threads, any       *)
(* routing configurations replaced at any step, and clients and upstreams  *)
(* that may fail at any step.                                              *)
(***************************************************************************)
EXTENDS ProxyHandler, SequenceTheorems, WellFoundedInduction, TLAPS

(* What a thread has written, o, by what it does, h, what its upstream has *)
(* answered, u, and whether its client, cl, is still there.                *)
Written(h, cl, o, u) ==
    /\ h.phase \in {"idle", "open", "started", "configured", "routed",
                    "reading", "calling"} => o = <<>> /\ u = "none"
    /\ h.phase \in {"started", "configured", "routed"} => h.url = NoUrl
    /\ h.phase \in {"reading", "calling", "relaying", "streaming", "writing"}
          => h.url # NoUrl
    /\ h.phase \notin {"idle", "open", "responding", "done"} => h.fault = "none"
    /\ h.phase = "relaying" => o = <<>> /\ u = h.status
    /\ h.phase \in {"streaming", "writing"} =>
          Len(o) = 1 /\ u = h.status /\ o[1] = [status |-> u, body |-> "none"]
    /\ h.phase \in {"relaying", "streaming", "writing"} => u # "none"
    /\ h.phase = "responding" =>
          Len(o) <= 1 /\ h.status # "none" /\ h.fault \in {"none", "body"}
    /\ h.phase = "responding" /\ cl # "gone" =>
          IF o = <<>> THEN h.fault = "none" /\ Truthful(h.status, h, u)
          ELSE h.fault = "body" /\ h.status = "502" /\ o[1].body = "none"

(* The configuration a thread works with is one of those there have been.  *)
Snapshot(h, S, c) ==
    /\ h.phase \in {"started", "configured", "routed", "reading"} => c \in S
    /\ h.phase \in {"configured", "routed"} =>
          h.config \in S /\ h.config # NoConfig
    /\ h.phase = "routed" =>
          h.route # 0 /\ h.route = MatchRoute(h.config, h.request)

Sound ==
    \A w \in Worker : /\ Written(handler[w], client[w], out[w], upstream[w])
                      /\ Snapshot(handler[w], since[w], config)

IInv == TypeOK /\ Sound /\ OneConfig /\ FirstHeadHonest /\ AnsweredOnce

-----------------------------------------------------------------------------
(* match_route gives 0 or the number of one of the configuration's rules,  *)
(* and rewriting one of these gives a path and never the missing URL.      *)
LEMMA MatchRouteInRange ==
    ASSUME NEW c \in Config, NEW r
    PROVE  MatchRoute(c, r) \in 0..Len(c)
<1> DEFINE I == {i \in 1..Len(c) : Matches(c[i], r)}
<1>1. MatchRoute(c, r) = IF I # {} THEN Min(I) ELSE 0
  BY DEF MatchRoute, SelectInSeq
<1>2. c \in Seq(Rule) /\ Len(c) \in Nat
  BY HandlerAssumption
<1>3. CASE I = {}
  BY <1>1, <1>2, <1>3
<1>4. CASE I # {}
  <2>1. PICK i \in I : \A j \in I : i <= j
    <3>1. I \subseteq Nat
      BY <1>2
    <3>2. PICK i \in I : \A j \in I : <<j, i>> \notin OpToRel(<, Nat)
      <4> HIDE DEF I
      <4> QED  BY <1>4, <3>1, WFMin, NatLessThanWellFounded
    <3>3. OpToRel(<, Nat) = {ss \in Nat \X Nat : ss[1] < ss[2]}
      BY DEF OpToRel
    <3>4. ASSUME NEW j \in I PROVE i <= j
      <4>1. j \in Nat /\ i \in Nat
        BY <3>1
      <4>2. ~ (<<j, i>>[1] < <<j, i>>[2])
        BY <3>2, <3>3, <4>1
      <4> QED  BY <4>1, <4>2
    <3> QED  BY <3>4
  <2>2. Min(I) \in I
    BY <2>1 DEF Min
  <2> QED  BY <1>1, <1>2, <1>4, <2>2
<1> QED  BY <1>3, <1>4

LEMMA TargetUrlType ==
    ASSUME NEW rule \in Rule, NEW r \in Request
    PROVE  /\ TargetUrl(rule, r) \in [target : Target, path : Seq(Piece)]
           /\ TargetUrl(rule, r) # NoUrl
<1>1. rule.prefix \in Seq(Piece) /\ rule.strip_prefix \in BOOLEAN
  BY HandlerAssumption DEF Rule
<1>2. r.path \in Seq(Piece)
  BY HandlerAssumption DEF Request
<1>3. SubSeq(r.path, Len(rule.prefix) + 1, Len(r.path)) \in Seq(Piece)
  BY <1>1, <1>2
<1>4. <<"/">> \in Seq(Piece)
  BY HandlerAssumption
<1>5. Rewrite(rule, r.path) \in Seq(Piece)
  BY <1>1, <1>2, <1>3, <1>4 DEF Rewrite
<1>6. rule.target \in Target /\ rule.target # "none"
  BY HandlerAssumption DEF Rule
<1> QED  BY <1>5, <1>6 DEF TargetUrl, NoUrl

-----------------------------------------------------------------------------
(* What IInv says of one thread.                                           *)
ThreadInv(h, cl, o, S, u) ==
    /\ h \in Busy \union {Idle, Open}
    /\ cl \in {"sending", "waiting", "stalled", "gone"}
    /\ o \in Seq(Answer) /\ Len(o) <= 2
    /\ S \subseteq Config \union {NoConfig}
    /\ u \in Status \union {"none"}
    /\ Written(h, cl, o, u) /\ Snapshot(h, S, config)
    /\ Routed(h, S) /\ Honest(h, cl, o, u) /\ Once(h, cl, o, u)

LEMMA ThreadInvHolds ==
    IInv => \A w \in Worker :
                ThreadInv(handler[w], client[w], out[w], since[w], upstream[w])
BY DEF IInv, TypeOK, Sound, OneConfig, FirstHeadHonest, AnsweredOnce, ThreadInv

(* ... and of one that has a request in hand.                              *)
LEMMA AtWork ==
    ASSUME IInv, NEW w \in Worker, Phase(w) \notin {"idle", "open"}
    PROVE  /\ handler[w] \in Busy /\ handler[w].phase = Phase(w)
           /\ ThreadInv(handler[w], client[w], out[w], since[w], upstream[w])
<1>1. ThreadInv(handler[w], client[w], out[w], since[w], upstream[w])
  BY ThreadInvHolds
<1>2. handler[w] # Idle /\ handler[w] # Open
  BY DEF Phase, Idle, Open
<1> QED  BY <1>1, <1>2 DEF ThreadInv, Phase

(* A step of one thread, or of its client, leaves the others as they are:  *)
(* it is enough to look at the values it gives to that thread's variables. *)
Moves(w, h, cl, o, S, u) ==
    /\ config' = config
    /\ handler' = [handler EXCEPT ![w] = h]
    /\ client' = [client EXCEPT ![w] = cl]
    /\ out' = [out EXCEPT ![w] = o]
    /\ since' = [since EXCEPT ![w] = S]
    /\ upstream' = [upstream EXCEPT ![w] = u]
    /\ drips' \in [Worker -> BOOLEAN]

LEMMA OneThreadMoves ==
    ASSUME NEW w \in Worker, IInv,
           NEW h, NEW cl, NEW o, NEW S, NEW u, ThreadInv(h, cl, o, S, u),
           Moves(w, h, cl, o, S, u)
    PROVE  IInv'
<1>1. TypeOK'
  BY DEF IInv, TypeOK, ThreadInv, Moves
<1>2. ASSUME NEW v \in Worker
      PROVE  ThreadInv(handler[v], client[v], out[v], since[v], upstream[v])'
  <2>1. CASE v = w
    BY <2>1 DEF IInv, TypeOK, ThreadInv, Moves
  <2>2. CASE v # w
    BY <2>2, ThreadInvHolds DEF IInv, TypeOK, ThreadInv, Moves
  <2> QED  BY <2>1, <2>2
<1> QED  BY <1>1, <1>2 DEF IInv, Sound, OneConfig, FirstHeadHonest,
                           AnsweredOnce, ThreadInv

LEMMA Untouched ==
    ASSUME NEW w \in Worker, TypeOK
    PROVE  /\ handler = [handler EXCEPT ![w] = handler[w]]
           /\ client = [client EXCEPT ![w] = client[w]]
           /\ out = [out EXCEPT ![w] = out[w]]
           /\ since = [since EXCEPT ![w] = since[w]]
           /\ upstream = [upstream EXCEPT ![w] = upstream[w]]
           /\ drips \in [Worker -> BOOLEAN]
BY DEF TypeOK

SameRequest(g, h) ==
    /\ g.request = h.request /\ g.config = h.config
    /\ g.route = h.route /\ g.url = h.url

-----------------------------------------------------------------------------
(* The steps up to the call of the upstream change only what the thread is *)
(* doing.                                                                  *)
LEMMA OnlyHandlerMoves ==
    ASSUME NEW w \in Worker, IInv, NEW g, Becomes(w, g),
           ThreadInv(g, client[w], out[w], since[w], upstream[w]),
           UNCHANGED <<config, client, drips, out, since, upstream>>
    PROVE  IInv'
<1>1. Moves(w, g, client[w], out[w], since[w], upstream[w])
  BY Untouched DEF IInv, Becomes, Moves
<1> QED  BY <1>1, OneThreadMoves

LEMMA GetConfigStep ==
    ASSUME NEW w \in Worker, IInv, GetConfig(w)
    PROVE  IInv'
<1> DEFINE h == handler[w]
           Inv(g) == ThreadInv(g, client[w], out[w], since[w], upstream[w])
<1>1. h \in Busy /\ h.phase = "started" /\ Inv(h)
  <2>1. Phase(w) = "started"
    BY DEF GetConfig
  <2> QED  BY <2>1, AtWork
<1>2. CASE config = NoConfig
  <2> DEFINE g == [h EXCEPT !.phase = "responding", !.status = "503"]
  <2>1. /\ g \in Busy /\ SameRequest(g, h) /\ g.phase = "responding"
        /\ g.status = "503" /\ g.fault = h.fault
    BY <1>1 DEF Busy, Status, SameRequest
  <2>2. Becomes(w, g)
    BY <1>2 DEF GetConfig, RespondWith
  <2> HIDE DEF g
  <2>3. Inv(g)
    <3>1. Written(g, client[w], out[w], upstream[w])
      BY <1>1, <2>1 DEF ThreadInv, Written, Truthful, SameRequest
    <3>2. Snapshot(g, since[w], config) /\ RoutedBy(config, g) /\ config \in since[w]
      BY <1>1, <1>2, <2>1 DEF ThreadInv, Written, Snapshot, RoutedBy, SameRequest
    <3>3. Routed(g, since[w])
      BY <3>2 DEF Routed
    <3>4. Honest(g, client[w], out[w], upstream[w]) /\ Once(g, client[w], out[w], upstream[w])
      BY <1>1, <2>1 DEF ThreadInv, Written, Honest, Once, Unanswered
    <3> QED  BY <1>1, <2>1, <3>1, <3>2, <3>3, <3>4 DEF ThreadInv
  <2> QED  BY <2>2, <2>3, OnlyHandlerMoves DEF GetConfig
<1>3. CASE config # NoConfig
  <2> DEFINE g == [h EXCEPT !.phase = "configured", !.config = config]
  <2>1. /\ g \in Busy /\ g.url = h.url /\ g.phase = "configured"
        /\ g.config = config /\ g.fault = h.fault
    BY <1>1 DEF Busy, IInv, TypeOK
  <2>2. Becomes(w, g)
    BY <1>3 DEF GetConfig
  <2> HIDE DEF g
  <2>3. Inv(g)
    BY <1>1, <1>3, <2>1
       DEF ThreadInv, Written, Snapshot, Routed, Honest, Once, Unanswered
  <2> QED  BY <2>2, <2>3, OnlyHandlerMoves DEF GetConfig
<1> QED  BY <1>2, <1>3

LEMMA RouteStep ==
    ASSUME NEW w \in Worker, IInv, Route(w)
    PROVE  IInv'
<1> DEFINE h == handler[w]
           Inv(g) == ThreadInv(g, client[w], out[w], since[w], upstream[w])
           i == MatchRoute(h.config, h.request)
<1>1. h \in Busy /\ h.phase = "configured" /\ Inv(h)
  <2>1. Phase(w) = "configured"
    BY DEF Route
  <2> QED  BY <2>1, AtWork
<1>2. h.config \in since[w] /\ h.config \in Config /\ i \in Nat
  <2>1. h.config \in since[w] /\ h.config # NoConfig /\ h.config \in Config
    BY <1>1 DEF ThreadInv, Snapshot, Busy
  <2> QED  BY <2>1, MatchRouteInRange, HandlerAssumption
<1>3. CASE i = 0
  <2> DEFINE g == [h EXCEPT !.phase = "responding", !.status = "404"]
  <2>1. /\ g \in Busy /\ SameRequest(g, h) /\ g.phase = "responding"
        /\ g.status = "404" /\ g.fault = h.fault
    BY <1>1 DEF Busy, Status, SameRequest
  <2>2. Becomes(w, g)
    BY <1>3 DEF Route, RespondWith
  <2>3. RoutedBy(h.config, g)
    BY <1>1, <1>2, <1>3, <2>1, HandlerAssumption
       DEF ThreadInv, Written, RoutedBy, SameRequest
  <2> HIDE DEF g, i
  <2>4. Inv(g)
    <3>1. Written(g, client[w], out[w], upstream[w])
      BY <1>1, <2>1 DEF ThreadInv, Written, Truthful, SameRequest
    <3>2. Snapshot(g, since[w], config) /\ Routed(g, since[w])
      BY <1>2, <2>1, <2>3 DEF Snapshot, Routed
    <3>3. Honest(g, client[w], out[w], upstream[w]) /\ Once(g, client[w], out[w], upstream[w])
      BY <1>1, <2>1 DEF ThreadInv, Written, Honest, Once, Unanswered
    <3> QED  BY <1>1, <2>1, <3>1, <3>2, <3>3 DEF ThreadInv
  <2> QED  BY <2>2, <2>4, OnlyHandlerMoves DEF Route
<1>4. CASE i # 0
  <2> DEFINE g == [h EXCEPT !.phase = "routed", !.route = i]
  <2> HIDE DEF i
  <2>1. /\ g \in Busy /\ g.phase = "routed" /\ g.url = h.url /\ g.route = i
        /\ g.config = h.config /\ g.request = h.request /\ g.fault = h.fault
    BY <1>1, <1>2 DEF Busy
  <2>2. Becomes(w, g)
    BY <1>4 DEF Route, i
  <2> HIDE DEF g
  <2>3. Inv(g)
    BY <1>1, <1>4, <2>1
       DEF ThreadInv, Written, Snapshot, Routed, Honest, Once, Unanswered, i
  <2> QED  BY <2>2, <2>3, OnlyHandlerMoves DEF Route
<1> QED  BY <1>3, <1>4

LEMMA BuildUrlStep ==
    ASSUME NEW w \in Worker, IInv, BuildUrl(w)
    PROVE  IInv'
<1> DEFINE h == handler[w]
           Inv(g) == ThreadInv(g, client[w], out[w], since[w], upstream[w])
           u == TargetUrl(MatchedRule(w), h.request)
<1>1. h \in Busy /\ h.phase = "routed" /\ Inv(h)
  <2>1. Phase(w) = "routed"
    BY DEF BuildUrl
  <2> QED  BY <2>1, AtWork
<1>2. /\ h.config \in since[w] /\ h.config # NoConfig /\ h.config \in Config
      /\ h.route = MatchRoute(h.config, h.request) /\ h.route # 0
  BY <1>1 DEF ThreadInv, Snapshot, Busy
<1>3. MatchedRule(w) = h.config[h.route] /\ MatchedRule(w) \in Rule
  <2>1. h.route \in 1..Len(h.config)
    BY <1>2, MatchRouteInRange, HandlerAssumption
  <2> QED  BY <1>2, <2>1, HandlerAssumption DEF MatchedRule
<1>4. u \in [target : Target, path : Seq(Piece)] /\ u # NoUrl
  BY <1>1, <1>3, TargetUrlType DEF Busy
<1>5. CASE h.request.length = "bad"
  <2> DEFINE g == [h EXCEPT !.phase = "done", !.fault = "length", !.keep = FALSE]
  <2>1. /\ g \in Busy /\ SameRequest(g, h) /\ g.phase = "done"
        /\ g.fault = "length"
    BY <1>1 DEF Busy, SameRequest
  <2>2. Becomes(w, g)
    BY <1>5 DEF BuildUrl, Dies
  <2> HIDE DEF g
  <2>3. Inv(g)
    BY <1>1, <1>5, <2>1
       DEF ThreadInv, Written, Snapshot, Routed, Honest, Once, Unanswered, SameRequest
  <2> QED  BY <2>2, <2>3, OnlyHandlerMoves DEF BuildUrl
<1>6. CASE h.request.length # "bad"
  <2> DEFINE g == [h EXCEPT !.phase = "reading", !.url = u]
  <2>1. RoutedBy(h.config, g) /\ g.url = u
    BY <1>1, <1>2, <1>3, <1>4 DEF Busy, RoutedBy
  <2>2. Becomes(w, g)
    BY <1>6 DEF BuildUrl
  <2> HIDE DEF u
  <2>3. g \in Busy /\ g.phase = "reading" /\ g.fault = h.fault
    BY <1>1, <1>4 DEF Busy
  <2> HIDE DEF g
  <2>4. Inv(g)
    <3>1. Written(g, client[w], out[w], upstream[w])
      BY <1>1, <1>4, <2>1, <2>3 DEF ThreadInv, Written
    <3>2. Snapshot(g, since[w], config) /\ Routed(g, since[w])
      BY <1>1, <1>2, <2>1, <2>3 DEF ThreadInv, Snapshot, Routed
    <3>3. Honest(g, client[w], out[w], upstream[w]) /\ Once(g, client[w], out[w], upstream[w])
      BY <1>1, <2>3 DEF ThreadInv, Written, Honest, Once, Unanswered
    <3> QED  BY <1>1, <2>3, <3>1, <3>2, <3>3 DEF ThreadInv
  <2> QED  BY <2>2, <2>4, OnlyHandlerMoves DEF BuildUrl
<1> QED  BY <1>5, <1>6

(* Once the URL is built, or the status is kept, the request stays routed. *)
LEMMA RoutedKept ==
    ASSUME NEW h, NEW g, NEW S, Routed(h, S), SameRequest(g, h),
           h.phase \notin {"idle", "open", "started", "configured", "routed"},
           h.fault # "length", g.status = h.status \/ h.url # NoUrl
    PROVE  Routed(g, S)
<1>1. PICK c \in S : RoutedBy(c, h)
  BY DEF Routed
<1>2. RoutedBy(c, g)
  BY <1>1 DEF RoutedBy, SameRequest
<1> QED  BY <1>2 DEF Routed

LEMMA ReadBodySteps ==
    ASSUME NEW w \in Worker, IInv, ReadBody(w) \/ ReadBodyFails(w)
    PROVE  IInv'
<1> DEFINE h == handler[w]
           Inv(g) == ThreadInv(g, client[w], out[w], since[w], upstream[w])
<1>1. h \in Busy /\ h.phase = "reading" /\ Inv(h)
  <2>1. Phase(w) = "reading"
    BY DEF ReadBody, ReadBodyFails
  <2> QED  BY <2>1, AtWork
<1>2. ASSUME NEW f \in {"target", "client"}, Dies(w, f),
             IF f = "target" THEN h.url.target \in BadTarget
                             ELSE client[w] = "gone",
             UNCHANGED <<config, client, drips, out, since, upstream>>
      PROVE  IInv'
  <2> DEFINE g == [h EXCEPT !.phase = "done", !.fault = f, !.keep = FALSE]
  <2>1. /\ g \in Busy /\ SameRequest(g, h) /\ g.phase = "done"
        /\ g.fault = f /\ g.status = h.status
    BY <1>1 DEF Busy, SameRequest
  <2>2. Becomes(w, g)
    BY <1>2 DEF Dies
  <2> HIDE DEF g
  <2>3. Routed(g, since[w])
    BY <1>1, <2>1, RoutedKept DEF ThreadInv, Written
  <2>4. Inv(g)
    BY <1>1, <1>2, <2>1, <2>3
       DEF ThreadInv, Written, Snapshot, Honest, Once, Unanswered, SameRequest
  <2> QED  BY <1>2, <2>2, <2>4, OnlyHandlerMoves
<1>3. ASSUME GoTo(w, "calling"),
             UNCHANGED <<config, client, drips, out, since, upstream>>
      PROVE  IInv'
  <2> DEFINE g == [h EXCEPT !.phase = "calling"]
  <2>1. /\ g \in Busy /\ SameRequest(g, h) /\ g.phase = "calling"
        /\ g.fault = h.fault /\ g.status = h.status
    BY <1>1 DEF Busy, SameRequest
  <2>2. Becomes(w, g)
    BY <1>3 DEF GoTo
  <2> HIDE DEF g
  <2>3. Routed(g, since[w])
    BY <1>1, <2>1, RoutedKept DEF ThreadInv, Written
  <2>4. Inv(g)
    BY <1>1, <2>1, <2>3
       DEF ThreadInv, Written, Snapshot, Honest, Once, Unanswered, SameRequest
  <2> QED  BY <1>3, <2>2, <2>4, OnlyHandlerMoves
<1> QED  BY <1>2, <1>3 DEF ReadBody, ReadBodyFails

-----------------------------------------------------------------------------
LEMMA CallSteps ==
    ASSUME NEW w \in Worker, IInv,
           \/ Unreachable(w)
           \/ \E s \in Status :
                 Answered(w, s) \/ Refused(w, s) \/ RefusedUnread(w, s)
    PROVE  IInv'
<1> DEFINE h == handler[w]
<1>1. /\ h \in Busy /\ h.phase = "calling"
      /\ ThreadInv(h, client[w], out[w], since[w], upstream[w])
  <2>1. Phase(w) = "calling"
    BY DEF Unreachable, Answered, Refused, RefusedUnread
  <2> QED  BY <2>1, AtWork
<1>2. h.fault = "none" /\ h.url # NoUrl /\ out[w] = <<>> /\ upstream[w] = "none"
  BY <1>1 DEF ThreadInv, Written
<1>3. ASSUME NEW g \in Busy, SameRequest(g, h), NEW u \in Status \union {"none"},
             \/ /\ g.phase = "relaying" /\ g.fault = "none"
                /\ g.status = u /\ u # "none"
             \/ /\ g.phase = "responding" /\ g.fault = "none"
                /\ g.status = IF u = "none" THEN "502" ELSE u
             \/ g.phase = "done" /\ g.fault = "error_body" /\ u \in ErrStatus,
             Moves(w, g, client[w], out[w], since[w], u)
      PROVE  IInv'
  <2>1. Routed(g, since[w])
    BY <1>1, <1>2, <1>3, RoutedKept DEF ThreadInv
  <2>2. Written(g, client[w], out[w], u)
    BY <1>2, <1>3 DEF Written, Truthful, SameRequest
  <2>3. ThreadInv(g, client[w], out[w], since[w], u)
    BY <1>1, <1>2, <1>3, <2>1, <2>2 DEF ThreadInv, Snapshot, Honest, Once, Unanswered
  <2> QED  BY <1>3, <2>3, OneThreadMoves
<1>4. CASE Unreachable(w)
  <2> DEFINE g == [h EXCEPT !.phase = "responding", !.status = "502"]
  <2>1. /\ g \in Busy /\ SameRequest(g, h) /\ g.phase = "responding"
        /\ g.status = "502" /\ g.fault = "none"
    BY <1>1, <1>2 DEF Busy, Status, SameRequest
  <2>2. Moves(w, g, client[w], out[w], since[w], "none")
    BY <1>2, <1>4, Untouched DEF IInv, Unreachable, RespondWith, Becomes, Moves
  <2> HIDE DEF g
  <2> QED  BY <1>3, <2>1, <2>2
<1>5. ASSUME NEW s \in Status, Answered(w, s) PROVE IInv'
  <2> DEFINE g == [h EXCEPT !.phase = "relaying", !.status = s]
  <2>1. /\ g \in Busy /\ SameRequest(g, h) /\ g.phase = "relaying"
        /\ g.status = s /\ g.fault = "none"
    BY <1>1, <1>2 DEF Busy, SameRequest
  <2>2. Moves(w, g, client[w], out[w], since[w], s) /\ s # "none"
    BY <1>5, Untouched, HandlerAssumption DEF IInv, Answered, Becomes, Moves
  <2> HIDE DEF g
  <2> QED  BY <1>3, <2>1, <2>2
<1>6. ASSUME NEW s \in Status, Refused(w, s) PROVE IInv'
  <2> DEFINE g == [h EXCEPT !.phase = "responding", !.status = s]
  <2>1. /\ g \in Busy /\ SameRequest(g, h) /\ g.phase = "responding"
        /\ g.status = s /\ g.fault = "none"
    BY <1>1, <1>2 DEF Busy, SameRequest
  <2>2. Moves(w, g, client[w], out[w], since[w], s) /\ s # "none"
    BY <1>6, Untouched, HandlerAssumption
       DEF IInv, Refused, RespondWith, Becomes, Moves
  <2> HIDE DEF g
  <2> QED  BY <1>3, <2>1, <2>2
<1>7. ASSUME NEW s \in Status, RefusedUnread(w, s) PROVE IInv'
  <2> DEFINE g == [h EXCEPT !.phase = "done", !.fault = "error_body",
                            !.keep = FALSE]
  <2>1. /\ g \in Busy /\ SameRequest(g, h) /\ g.phase = "done"
        /\ g.fault = "error_body"
    BY <1>1 DEF Busy, SameRequest
  <2>2. Moves(w, g, client[w], out[w], since[w], s)
    BY <1>7, Untouched DEF IInv, RefusedUnread, Dies, Becomes, Moves
  <2>3. s \in ErrStatus
    BY <1>7 DEF RefusedUnread
  <2> HIDE DEF g
  <2> QED  BY <1>3, <2>1, <2>2, <2>3
<1> QED  BY <1>4, <1>5, <1>6, <1>7

-----------------------------------------------------------------------------
LEMMA RelaySteps ==
    ASSUME NEW w \in Worker, IInv,
           \/ RelayHead(w) \/ ReadUpstream(w) \/ UpstreamBreaks(w)
           \/ RelayBody(w) \/ RelayFails(w)
    PROVE  IInv'
<1> DEFINE h == handler[w]
           u == upstream[w]
<1>1. /\ h \in Busy /\ h.phase \in {"relaying", "streaming", "writing"}
      /\ ThreadInv(h, client[w], out[w], since[w], u)
  <2>1. Phase(w) \in {"relaying", "streaming", "writing"}
    BY DEF RelayHead, ReadUpstream, RelayBody, UpstreamBreaks, RelayFails
  <2> QED  BY <2>1, AtWork
<1>2. /\ h.fault = "none" /\ h.url # NoUrl /\ u # "none" /\ u = h.status
      /\ out[w] \in Seq(Answer) /\ u \in Status
  BY <1>1 DEF ThreadInv, Written
<1>3. CASE RelayHead(w)
  <2>0. PICK k \in BOOLEAN :
             Becomes(w, [h EXCEPT !.phase = "streaming", !.keep = k])
    BY <1>3 DEF RelayHead
  <2> DEFINE g == [h EXCEPT !.phase = "streaming", !.keep = k]
             a == [status |-> h.status, body |-> "none"]
             o == Append(out[w], a)
  <2>1. /\ g \in Busy /\ SameRequest(g, h) /\ g.phase = "streaming"
        /\ g.status = h.status /\ g.fault = "none"
    BY <1>1, <1>2 DEF Busy, SameRequest
  <2>2. Moves(w, g, client[w], o, since[w], u)
    BY <1>3, <2>0, Untouched DEF IInv, RelayHead, Wrote, Becomes, Moves
  <2>3. out[w] = <<>>
    BY <1>1, <1>3 DEF RelayHead, Phase, ThreadInv, Written
  <2>4. a \in Answer
    BY <1>2 DEF Answer
  <2>5. o \in Seq(Answer) /\ Len(o) = 1 /\ o[1] = a
    BY <2>3, <2>4
  <2>6. Routed(g, since[w])
    BY <1>1, <1>2, <2>1, RoutedKept DEF ThreadInv
  <2> HIDE DEF g, o
  <2>7. ThreadInv(g, client[w], o, since[w], u)
    BY <1>1, <1>2, <2>1, <2>5, <2>6
       DEF ThreadInv, Written, Snapshot, Honest, Once, Unanswered, Truthful, SameRequest
  <2> QED  BY <2>2, <2>7, OneThreadMoves
<1>4. CASE RelayBody(w)
  <2> DEFINE g == [h EXCEPT !.phase = "done"]
             o == [out[w] EXCEPT ![Len(out[w])].body = "whole"]
  <2>1. /\ g \in Busy /\ SameRequest(g, h) /\ g.phase = "done"
        /\ g.status = h.status /\ g.fault = "none"
    BY <1>1, <1>2 DEF Busy, SameRequest
  <2>2. Moves(w, g, client[w], o, since[w], u)
    <3>1. out' = [out EXCEPT ![w] = o]
      BY <1>4 DEF RelayBody
    <3> QED  BY <1>4, <3>1, Untouched DEF IInv, RelayBody, GoTo, Becomes, Moves
  <2>3. Len(out[w]) = 1 /\ out[w][1] = [status |-> u, body |-> "none"]
    BY <1>1, <1>4 DEF RelayBody, Phase, ThreadInv, Written
  <2>4. /\ o \in Seq(Answer) /\ Len(o) = 1
        /\ o[1].status = u /\ o[1].body = "whole"
    BY <1>2, <2>3 DEF Answer
  <2>5. Routed(g, since[w])
    BY <1>1, <1>2, <2>1, RoutedKept DEF ThreadInv
  <2> HIDE DEF g, o
  <2>6. ThreadInv(g, client[w], o, since[w], u)
    BY <1>1, <1>2, <2>1, <2>4, <2>5
       DEF ThreadInv, Written, Snapshot, Honest, Once, Unanswered, Truthful
  <2> QED  BY <2>2, <2>6, OneThreadMoves
<1>5. CASE UpstreamBreaks(w)
  <2> DEFINE g == [h EXCEPT !.phase = "responding", !.status = "502",
                            !.fault = "body"]
  <2>1. /\ g \in Busy /\ SameRequest(g, h) /\ g.phase = "responding"
        /\ g.status = "502" /\ g.fault = "body"
    BY <1>1 DEF Busy, Status, SameRequest
  <2>2. Becomes(w, g)
    BY <1>5 DEF UpstreamBreaks
  <2>3. Len(out[w]) = 1 /\ out[w][1] = [status |-> u, body |-> "none"]
    BY <1>1, <1>5 DEF UpstreamBreaks, Phase, ThreadInv, Written
  <2>4. Routed(g, since[w])
    BY <1>1, <1>2, <2>1, RoutedKept DEF ThreadInv
  <2> HIDE DEF g
  <2>5. ThreadInv(g, client[w], out[w], since[w], u)
    BY <1>1, <1>2, <2>1, <2>3, <2>4
       DEF ThreadInv, Written, Snapshot, Honest, Once, Unanswered, Truthful
  <2> QED  BY <1>5, <2>2, <2>5, OnlyHandlerMoves DEF UpstreamBreaks
<1>6. CASE RelayFails(w)
  <2> DEFINE g == [h EXCEPT !.phase = "responding", !.status = "502"]
  <2>1. /\ g \in Busy /\ SameRequest(g, h) /\ g.phase = "responding"
        /\ g.status = "502" /\ g.fault = "none"
    BY <1>1, <1>2 DEF Busy, Status, SameRequest
  <2>2. Becomes(w, g)
    BY <1>6 DEF RelayFails, RespondWith
  <2>3. client[w] = "gone" /\ (out[w] = <<>> \/ Len(out[w]) = 1)
    BY <1>1, <1>6 DEF RelayFails, ThreadInv, Written
  <2>4. Routed(g, since[w])
    BY <1>1, <1>2, <2>1, RoutedKept DEF ThreadInv
  <2> HIDE DEF g
  <2>5. Written(g, client[w], out[w], u)
    <3> DEFINE n == Len(out[w])
    <3>1. n \in {0, 1}
      BY <1>2, <2>3, EmptySeq
    <3> HIDE DEF n
    <3>2. n <= 1
      BY <3>1
    <3> QED  BY <2>1, <2>3, <3>2 DEF Written, n
  <2>6. ThreadInv(g, client[w], out[w], since[w], u)
    BY <1>1, <2>1, <2>3, <2>4, <2>5 DEF ThreadInv, Snapshot, Honest, Once, Unanswered
  <2> QED  BY <1>6, <2>2, <2>6, OnlyHandlerMoves DEF RelayFails
<1>7. CASE ReadUpstream(w)
  <2> DEFINE g == [h EXCEPT !.phase = "writing"]
  <2>1. /\ g \in Busy /\ SameRequest(g, h) /\ g.phase = "writing"
        /\ g.status = h.status /\ g.fault = "none"
    BY <1>1, <1>2 DEF Busy, SameRequest
  <2>2. Becomes(w, g)
    BY <1>7 DEF ReadUpstream, GoTo
  <2>3. Routed(g, since[w])
    BY <1>1, <1>2, <2>1, RoutedKept DEF ThreadInv
  <2>4. h.phase = "streaming"
    BY <1>7 DEF ReadUpstream, Phase
  <2> HIDE DEF g
  <2>5. ThreadInv(g, client[w], out[w], since[w], u)
    BY <1>1, <1>2, <2>1, <2>3, <2>4
       DEF ThreadInv, Written, Snapshot, Honest, Once, Unanswered, Truthful,
           SameRequest
  <2> QED  BY <1>7, <2>2, <2>5, OnlyHandlerMoves DEF ReadUpstream
<1> QED  BY <1>3, <1>4, <1>5, <1>6, <1>7

-----------------------------------------------------------------------------
LEMMA AppendToShort ==
    ASSUME NEW s \in Seq(Answer), Len(s) <= 1, NEW x \in Answer
    PROVE  LET t == Append(s, x) IN
           /\ t \in Seq(Answer) /\ t # <<>> /\ Len(t) = Len(s) + 1
           /\ s = <<>> => t[1] = x
           /\ s # <<>> => Len(s) = 1 /\ t[1] = s[1] /\ t[2] = x
<1>1. ASSUME s # <<>> PROVE Len(s) = 1
  <2> DEFINE n == Len(s)
  <2>1. n \in Nat \ {0} /\ n <= 1
    BY <1>1, EmptySeq
  <2> HIDE DEF n
  <2>2. n = 1
    BY <2>1
  <2> QED  BY <2>2 DEF n
<1>2. /\ Append(s, x) \in Seq(Answer) /\ Len(Append(s, x)) = Len(s) + 1
      /\ \A i \in 1..Len(s) : Append(s, x)[i] = s[i]
      /\ Append(s, x)[Len(s) + 1] = x
  OBVIOUS
<1>3. s = <<>> => Len(s) = 0
  BY EmptySeq
<1>4. Append(s, x) # <<>>
  <2>1. Len(s) \in Nat /\ Len(<<>>) = 0
    BY EmptySeq
  <2> QED  BY <1>2, <2>1
<1> HIDE DEF Answer
<1> QED  BY <1>1, <1>2, <1>3, <1>4

LEMMA RespondSteps ==
    ASSUME NEW w \in Worker, IInv, Respond(w) \/ RespondFails(w)
    PROVE  IInv'
<1> DEFINE h == handler[w]
           u == upstream[w]
           a(b) == [status |-> h.status, body |-> b]
           o(b) == Append(out[w], a(b))
<1>1. /\ h \in Busy /\ h.phase = "responding"
      /\ ThreadInv(h, client[w], out[w], since[w], u)
  <2>1. Phase(w) = "responding"
    BY DEF Respond, RespondFails
  <2> QED  BY <2>1, AtWork
<1>2. /\ out[w] \in Seq(Answer) /\ Len(out[w]) <= 1
      /\ h.status \in Status
  BY <1>1 DEF ThreadInv, Written, Busy
<1>3. ASSUME NEW b \in {"none", "whole"}
      PROVE  /\ o(b) \in Seq(Answer) /\ o(b) # <<>>
             /\ Len(o(b)) = Len(out[w]) + 1
             /\ out[w] = <<>> => o(b)[1] = a(b)
             /\ out[w] # <<>> => Len(out[w]) = 1 /\ o(b)[1] = out[w][1]
                                 /\ o(b)[2] = a(b)
  <2>1. a(b) \in Answer
    BY <1>2 DEF Answer
  <2> HIDE DEF a
  <2> QED  BY <1>2, <2>1, AppendToShort
<1>4. CASE Respond(w)
  <2> DEFINE g == [h EXCEPT !.phase = "done"]
             q == o("whole")
  <2>1. /\ g \in Busy /\ SameRequest(g, h) /\ g.phase = "done"
        /\ g.status = h.status /\ g.fault = h.fault
    BY <1>1 DEF Busy, SameRequest
  <2>2. Moves(w, g, client[w], q, since[w], u)
    BY <1>4, Untouched DEF IInv, Respond, Wrote, GoTo, Becomes, Moves
  <2>3. /\ q \in Seq(Answer) /\ Len(q) = Len(out[w]) + 1 /\ q # <<>>
        /\ out[w] = <<>> => q[1].status = h.status /\ q[1].body = "whole"
        /\ out[w] # <<>> => Len(out[w]) = 1 /\ q[1] = out[w][1]
                            /\ q[2].status = h.status /\ q[2].body = "whole"
    BY <1>3
  <2>4. Routed(g, since[w])
    <3>1. CASE h.fault = "length"
      BY <2>1, <3>1 DEF Routed
    <3>2. CASE h.fault # "length"
      BY <1>1, <2>1, <3>2, RoutedKept DEF ThreadInv
    <3> QED  BY <3>1, <3>2
  <2> HIDE DEF g, q
  <2>5. Honest(g, client[w], q, u)
    BY <1>1, <2>1, <2>3 DEF ThreadInv, Written, Honest, Truthful, SameRequest
  <2>6. Once(g, client[w], q, u)
    BY <1>1, <1>2, <2>1, <2>3 DEF ThreadInv, Written, Once, Unanswered
  <2>7. ThreadInv(g, client[w], q, since[w], u)
    BY <1>1, <1>2, <2>1, <2>3, <2>4, <2>5, <2>6
       DEF ThreadInv, Written, Snapshot
  <2> QED  BY <2>2, <2>7, OneThreadMoves
<1>5. CASE RespondFails(w)
  <2> DEFINE g == [h EXCEPT !.phase = "done", !.fault = "client", !.keep = FALSE]
  <2>1. /\ g \in Busy /\ SameRequest(g, h) /\ g.phase = "done"
        /\ g.status = h.status /\ g.fault = "client"
    BY <1>1 DEF Busy, SameRequest
  <2>2. PICK q \in {out[w], o("none")} :
               Moves(w, g, client[w], q, since[w], u)
    BY <1>5, Untouched DEF IInv, RespondFails, Wrote, Dies, Becomes, Moves
  <2>3. q \in Seq(Answer) /\ Len(q) <= 2
    BY <1>2, <1>3
  <2>4. client[w] = "gone"
    BY <1>5 DEF RespondFails
  <2>5. Routed(g, since[w])
    <3>1. Routed(h, since[w]) /\ h.fault # "length"
      BY <1>1 DEF ThreadInv, Written
    <3> QED  BY <1>1, <2>1, <3>1, RoutedKept
  <2> HIDE DEF g
  <2>6. ThreadInv(g, client[w], q, since[w], u)
    BY <1>1, <2>1, <2>3, <2>4, <2>5
       DEF ThreadInv, Written, Snapshot, Honest, Once, Unanswered
  <2> QED  BY <2>2, <2>6, OneThreadMoves
<1> QED  BY <1>4, <1>5

-----------------------------------------------------------------------------
(* A thread without a request: nothing is written and nothing known.       *)
LEMMA Resting ==
    ASSUME NEW h \in {Idle, Open},
           NEW cl \in {"sending", "waiting", "stalled", "gone"}
    PROVE  ThreadInv(h, cl, <<>>, {}, "none")
BY DEF ThreadInv, Idle, Open, Written, Snapshot, Routed, Honest, Once, Unanswered

LEMMA FinishStep ==
    ASSUME NEW w \in Worker, IInv, Finish(w)
    PROVE  IInv'
<1>1. PICK h \in {Idle, Open}, cl \in {"sending", "waiting", "stalled", "gone"} :
              Moves(w, h, cl, <<>>, {}, "none")
  BY DEF Finish, Becomes, Moves, IInv, TypeOK
<1> QED  BY <1>1, Resting, OneThreadMoves

(* Between two requests, a thread has nothing of the last one.             *)
LEMMA ConnectionSteps ==
    ASSUME NEW w \in Worker, IInv, Connect(w) \/ HangUp(w)
    PROVE  IInv'
<1>0. ThreadInv(handler[w], client[w], out[w], since[w], upstream[w])
  BY ThreadInvHolds
<1>1. handler[w].phase \in {"idle", "open"}
  BY DEF Connect, HangUp, Phase
<1>2. out[w] = <<>> /\ upstream[w] = "none" /\ since[w] \subseteq Config \union {NoConfig}
  BY <1>0, <1>1 DEF ThreadInv, Written
<1>3. PICK h \in {Idle, Open}, cl \in {"sending", "waiting", "stalled", "gone"} :
              Moves(w, h, cl, out[w], since[w], upstream[w])
  BY Untouched DEF Connect, HangUp, Becomes, Moves, IInv, TypeOK
<1>4. ThreadInv(h, cl, <<>>, since[w], "none")
  BY <1>2 DEF ThreadInv, Idle, Open, Written, Snapshot, Routed, Honest, Once
<1> QED  BY <1>2, <1>3, <1>4, OneThreadMoves

LEMMA AcceptStep ==
    ASSUME NEW w \in Worker, NEW r \in Request, IInv, Accept(w, r)
    PROVE  IInv'
<1> DEFINE g == [phase |-> "started", request |-> r, config |-> NoConfig,
                 route |-> 0, url |-> NoUrl, status |-> "none",
                 fault |-> "none", keep |-> FALSE]
           cl == IF r.length = "some" THEN "sending" ELSE "waiting"
<1>1. g \in Busy /\ g.phase = "started" /\ g.url = NoUrl /\ g.fault = "none"
  BY DEF Busy
<1>2. Moves(w, g, cl, out[w], {config}, upstream[w])
  BY Untouched DEF IInv, Accept, Becomes, Moves
<1>3. out[w] = <<>> /\ upstream[w] = "none"
  BY ThreadInvHolds DEF Accept, Phase, ThreadInv, Written
<1>4. config \in Config \union {NoConfig} /\ cl \in {"sending", "waiting"}
  BY DEF IInv, TypeOK
<1> HIDE DEF g, cl
<1>5. ThreadInv(g, cl, out[w], {config}, upstream[w])
  BY <1>1, <1>3, <1>4
     DEF ThreadInv, Written, Snapshot, Routed, Honest, Once, Unanswered
<1> QED  BY <1>2, <1>5, OneThreadMoves

LEMMA PeerSteps ==
    ASSUME NEW w \in Worker, IInv,
           \/ ClientSends(w) \/ ClientStalls(w) \/ ClientLeaves(w)
           \/ UpstreamDrips(w)
    PROVE  IInv'
<1>1. client[w] \in {"sending", "waiting", "stalled", "gone"}
  BY DEF IInv, TypeOK
<1>2. PICK cl \in {"sending", "waiting", "stalled", "gone"} :
              /\ Moves(w, handler[w], cl, out[w], since[w], upstream[w])
              /\ client[w] = "gone" => cl = "gone"
  BY <1>1, Untouched
     DEF IInv, TypeOK, ClientSends, ClientStalls, ClientLeaves, UpstreamDrips, Moves
<1>3. ThreadInv(handler[w], client[w], out[w], since[w], upstream[w])
  BY ThreadInvHolds
<1>4. ThreadInv(handler[w], cl, out[w], since[w], upstream[w])
  BY <1>2, <1>3 DEF ThreadInv, Written, Honest, Once, Unanswered
<1> QED  BY <1>2, <1>4, OneThreadMoves

LEMMA UpdateConfigStep ==
    ASSUME NEW c \in Config, IInv, UpdateConfig(c)
    PROVE  IInv'
<1> DEFINE S(w) == IF Routing(w) THEN since[w] \union {c} ELSE since[w]
<1>1. TypeOK'
  BY DEF IInv, TypeOK, UpdateConfig
<1>2. ASSUME NEW w \in Worker
      PROVE  /\ Snapshot(handler[w], since[w], config)'
             /\ Routed(handler[w], since[w])'
  <2>1. since'[w] = S(w) /\ handler'[w] = handler[w] /\ config' = c
    BY <1>2 DEF UpdateConfig, IInv, TypeOK
  <2>2. Snapshot(handler[w], since[w], config) /\ Routed(handler[w], since[w])
    BY DEF IInv, Sound, OneConfig
  <2>3. Snapshot(handler[w], S(w), c)
    BY <2>2 DEF Snapshot, Routing, Phase
  <2>4. Routed(handler[w], S(w))
    BY <2>2 DEF Routed
  <2> QED  BY <2>1, <2>3, <2>4
<1>3. UNCHANGED <<handler, client, drips, out, upstream>>
  BY DEF UpdateConfig
<1> QED  BY <1>1, <1>2, <1>3
         DEF IInv, Sound, OneConfig, FirstHeadHonest, AnsweredOnce

-----------------------------------------------------------------------------
LEMMA InvariantInitially == Init => IInv
<1> SUFFICES ASSUME Init PROVE IInv
  OBVIOUS
<1>1. TypeOK
  BY EmptySeq DEF Init, TypeOK
<1>2. ASSUME NEW w \in Worker
      PROVE  /\ handler[w] = Idle /\ out[w] = <<>>
             /\ client[w] = "waiting" /\ upstream[w] = "none"
  BY DEF Init
<1> QED
  BY <1>1, <1>2 DEF IInv, Sound, OneConfig, FirstHeadHonest, AnsweredOnce,
     Idle, Written, Snapshot, Routed, Honest, Once, Unanswered

LEMMA InvariantInductive == IInv /\ [Next]_vars => IInv'
<1> SUFFICES ASSUME IInv, [Next]_vars PROVE IInv'
  OBVIOUS
<1>1. ASSUME NEW c \in Config, UpdateConfig(c) PROVE IInv'
  BY <1>1, UpdateConfigStep
<1>2. ASSUME NEW w \in Worker, NEW r \in Request, Accept(w, r) PROVE IInv'
  BY <1>2, AcceptStep
<1>3. ASSUME NEW w \in Worker, Peers(w) PROVE IInv'
  BY <1>3, ConnectionSteps, PeerSteps DEF Peers
<1>4. ASSUME NEW w \in Worker, Step(w) PROVE IInv'
  BY <1>4, GetConfigStep, RouteStep, BuildUrlStep, ReadBodySteps, CallSteps,
     RelaySteps, RespondSteps, FinishStep, ConnectionSteps DEF Step
<1>5. CASE UNCHANGED vars
  BY <1>5 DEF vars, IInv, TypeOK, Sound, OneConfig, FirstHeadHonest, AnsweredOnce
<1> QED  BY <1>1, <1>2, <1>3, <1>4, <1>5 DEF Next

THEOREM Invariant == Spec => []IInv
BY InvariantInitially, InvariantInductive, PTL DEF Spec

(* Every variable of the handler threads keeps its type.                   *)
THEOREM TypeCorrect == Spec => []TypeOK
<1>1. IInv => TypeOK
  BY DEF IInv
<1> QED  BY <1>1, Invariant, PTL

(* However often the routes are replaced, one of the configurations there  *)
(* were while a request was routed has decided everything about it.        *)
THEOREM DecidedByOneConfig == Spec => []OneConfig
<1>1. IInv => OneConfig
  BY DEF IInv
<1> QED  BY <1>1, Invariant, PTL

(* The first head that reaches a client is never made up.                  *)
THEOREM FirstHeadIsHonest == Spec => []FirstHeadHonest
<1>1. IInv => FirstHeadHonest
  BY DEF IInv
<1> QED  BY <1>1, Invariant, PTL

(* Two heads to one request mean an upstream that broke off, and a client  *)
(* that stays is left without an answer in three cases only.               *)
THEOREM ClientsAreAnsweredOnce == Spec => []AnsweredOnce
<1>1. IInv => AnsweredOnce
  BY DEF IInv
<1> QED  BY <1>1, Invariant, PTL
=============================================================================
