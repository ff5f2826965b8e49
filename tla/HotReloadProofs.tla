--------------------------- MODULE HotReloadProofs ---------------------------
(***************************************************************************)
(* Proofs about hot reload: first of ConfigReload, the file and its        *)
(* watcher, then of HotReload, these two with the handler threads.         *)
(***************************************************************************)
EXTENDS HotReload, Sequences, TLAPS

(***************************************************************************)
(* ConfigReload, for any number of edits.  What is said about types,       *)
(* monotonicity and stop() holds whatever the file system's mtimes are;    *)
(* that a quiet watcher is right needs them to be distinct.                *)
(***************************************************************************)

(* What is served and what was loaded were in the file at some time, and   *)
(* the mtime remembered is not ahead of the file's.                        *)
Order ==
    /\ config <= file.version
    /\ loaded <= file.version
    /\ pc = "updating" => config <= loaded
    /\ last_mtime <= file.mtime
    /\ file.mtime > 0

(* A reload in progress is the only one that can still be installed after  *)
(* stop().                                                                 *)
LateBudget ==
    /\ ~stop_event => late = 0
    /\ pc \notin {"waiting", "dead"} => late = 0
    /\ late <= 1

IInv == TypeOK /\ Order /\ LateBudget

-----------------------------------------------------------------------------
LEMMA InvariantInductive == IInv /\ [Next]_vars => IInv'
<1> SUFFICES ASSUME IInv, [Next]_vars PROVE IInv'
  OBVIOUS
<1> USE ReloadAssumption
<1> USE DEF IInv, TypeOK, Order, LateBudget, Form
<1>1. ASSUME NEW v \in 0..MaxWrites, NEW f \in Form, v >= file.version,
             Written(v, f)
      PROVE  IInv'
  <2>1. PICK t \in Stamps : file' = [version |-> v, form |-> f, mtime |-> t]
    BY <1>1 DEF Written
  <2>2. t \in Nat /\ t >= file.mtime
    BY DEF Stamps
  <2> QED  BY <1>1, <2>1, <2>2 DEF Written
<1>2. CASE BeginWrite \/ FinishWrite \/ Replace
  <2>1. PICK v \in 0..MaxWrites, f \in Form : v >= file.version /\ Written(v, f)
    BY <1>2 DEF BeginWrite, FinishWrite, Replace
  <2> QED  BY <1>1, <2>1
<1>3. CASE Delete
  BY <1>3 DEF Delete
<1>4. CASE WaitTimesOut
  BY <1>4 DEF WaitTimesOut
<1>5. CASE Quit
  BY <1>5 DEF Quit
<1>6. CASE PollChanged
  <2>1. missed' \in BOOLEAN
    BY <1>6, Zenon DEF PollChanged
  <2>2. /\ UNCHANGED <<file, config, loaded, stop_event, stopper, late>>
        /\ pc = "polling" /\ pc' = "loading" /\ last_mtime' = GetMtime
    BY <1>6 DEF PollChanged
  <2> QED  BY <2>1, <2>2 DEF GetMtime
<1>7. CASE PollUnchanged
  BY <1>7 DEF PollUnchanged
<1>8. CASE Load
  BY <1>8 DEF Load
<1>9. CASE LoadFails
  <2>1. missed' = TRUE \/ missed' = FALSE
    BY <1>9, Zenon DEF LoadFails
  <2>2. /\ UNCHANGED <<file, config, last_mtime, loaded, stop_event, stopper, late>>
        /\ pc' = "waiting" /\ pc = "loading"
    BY <1>9 DEF LoadFails
  <2> QED  BY <2>1, <2>2
<1>10. CASE UpdateConfig
  BY <1>10 DEF UpdateConfig
<1>11. CASE Stop
  BY <1>11 DEF Stop
<1>12. CASE JoinReturns
  BY <1>12 DEF JoinReturns
<1>13. CASE UNCHANGED vars
  BY <1>13 DEF vars
<1> QED
  BY <1>2, <1>3, <1>4, <1>5, <1>6, <1>7, <1>8, <1>9, <1>10, <1>11, <1>12, <1>13
  DEF Next, Editor, Watcher

LEMMA InvariantInit == Init => IInv
<1> SUFFICES ASSUME Init PROVE IInv
  OBVIOUS
<1>1. 0 \in 0..MaxWrites
  BY ReloadAssumption
<1>2. TypeOK
  BY <1>1 DEF Init, TypeOK, Form
<1>3. Order /\ LateBudget
  BY DEF Init, Order, LateBudget
<1> QED  BY <1>2, <1>3 DEF IInv

THEOREM Invariance == Spec => []IInv
BY InvariantInit, InvariantInductive, PTL DEF Spec

(* Every variable keeps its type.                                          *)
THEOREM TypeCorrect == Spec => []TypeOK
<1>1. IInv => TypeOK
  BY DEF IInv
<1> QED  BY <1>1, Invariance, PTL

(* At most one configuration is installed after stop() was called.         *)
THEOREM StopIsNearlyFinal == Spec => []AtMostOneLateUpdate
<1>1. IInv => AtMostOneLateUpdate
  BY DEF IInv, LateBudget, AtMostOneLateUpdate
<1> QED  BY <1>1, Invariance, PTL

(* The proxy never goes back to an older version.                          *)
THEOREM ReloadsMoveForward == Spec => NeverOlder
<1>1. IInv /\ [Next]_vars => config' >= config
  BY ReloadAssumption
  DEF IInv, TypeOK, Order, Next, Editor, Watcher, vars, Written, BeginWrite,
      FinishWrite, Replace, Delete, WaitTimesOut, Quit, PollChanged,
      PollUnchanged, Load, LoadFails, UpdateConfig, Stop, JoinReturns
<1> QED  BY <1>1, Invariance, PTL DEF Spec, NeverOlder

-----------------------------------------------------------------------------
(* The strengthening of QuietMeansCurrent: a load that finished since the  *)
(* last write of the file loaded what the file holds.                      *)
LoadedIsCurrent ==
    /\ pc = "updating"
    /\ file.mtime = last_mtime
    /\ file.form = "whole"
    => loaded = file.version

QInv == IInv /\ QuietMeansCurrent /\ LoadedIsCurrent

LEMMA QuietInductive ==
    ASSUME ~CoarseMtime, QInv, [Next]_vars
    PROVE  QuietMeansCurrent' /\ LoadedIsCurrent'
<1> USE DEF QInv, QuietMeansCurrent, LoadedIsCurrent, GetMtime
<1>1. ASSUME NEW v, NEW f, Written(v, f)
      PROVE  QuietMeansCurrent' /\ LoadedIsCurrent'
  <2>1. file' = [version |-> v, form |-> f, mtime |-> file.mtime + 1]
    BY <1>1 DEF Written, Stamps
  <2>2. last_mtime' < file'.mtime
    BY <1>1, <2>1 DEF Written, IInv, TypeOK, Order
  <2> QED  BY <2>1, <2>2 DEF IInv, TypeOK
<1>2. CASE BeginWrite \/ FinishWrite \/ Replace
  BY <1>1, <1>2 DEF BeginWrite, FinishWrite, Replace
<1>3. CASE Delete
  BY <1>3 DEF Delete, IInv, TypeOK, Form
<1>4. CASE WaitTimesOut \/ Quit \/ PollUnchanged \/ Stop \/ JoinReturns
  BY <1>4 DEF WaitTimesOut, Quit, PollUnchanged, Stop, JoinReturns
<1>5. CASE PollChanged
  BY <1>5 DEF PollChanged
<1>6. CASE Load \/ LoadFails
  BY <1>6 DEF Load, LoadFails
<1>7. CASE UpdateConfig
  BY <1>7 DEF UpdateConfig
<1>8. CASE UNCHANGED vars
  BY <1>8 DEF vars
<1> QED
  BY <1>2, <1>3, <1>4, <1>5, <1>6, <1>7, <1>8 DEF Next, Editor, Watcher

(* Where mtimes are distinct, a watcher that sees nothing to do is right.  *)
THEOREM QuietIsCurrent == ~CoarseMtime => (Spec => []QuietMeansCurrent)
<1> SUFFICES ASSUME ~CoarseMtime PROVE Spec => []QuietMeansCurrent
  OBVIOUS
<1>1. Init => QInv
  BY InvariantInit
  DEF Init, QInv, QuietMeansCurrent, LoadedIsCurrent, GetMtime
<1>2. QInv /\ [Next]_vars => QInv'
  BY QuietInductive, InvariantInductive DEF QInv
<1>3. QInv => QuietMeansCurrent
  BY DEF QInv
<1> QED  BY <1>1, <1>2, <1>3, PTL DEF Spec

-----------------------------------------------------------------------------
(***************************************************************************)
(* HotReload, for any rules a version may hold.  The composition behaves,  *)
(* seen from either half, as that half alone, so the invariants of both    *)
(* carry over; what is left to show is that the configurations a request   *)
(* has seen are versions between the one it could count on and the one     *)
(* served now.                                                             *)
(***************************************************************************)
Alone == INSTANCE ProxyHandlerProofs WITH config <- Served

LEMMA HandlerAssumed == Alone!HandlerAssumption
BY HotReloadAssumption
DEF Proxy!HandlerAssumption, Alone!HandlerAssumption, Proxy!Rule, Alone!Rule

LEMMA InitAlone == HotInit => Alone!Init
BY DEF HotInit, Served, Proxy!Init, Alone!Init, Proxy!Idle, Alone!Idle

LEMMA UpdateAlone ==
    ASSUME NEW c \in Config, Proxy!UpdateConfig(c)
    PROVE  Alone!Next
<1>1. Alone!UpdateConfig(c)
  BY DEF Proxy!UpdateConfig, Alone!UpdateConfig, Proxy!Routing, Alone!Routing,
         Proxy!Phase, Alone!Phase
<1> QED  BY <1>1 DEF Alone!Next

LEMMA AcceptAlone ==
    ASSUME NEW w \in Worker, NEW r \in Proxy!Request, Proxy!Accept(w, r)
    PROVE  Alone!Next
<1>1. r \in Alone!Request /\ Alone!Accept(w, r)
  BY DEF Proxy!Accept, Alone!Accept, Proxy!Phase, Alone!Phase, Proxy!Becomes,
         Alone!Becomes, Proxy!NoUrl, Alone!NoUrl, Proxy!Request, Alone!Request
<1> QED  BY <1>1 DEF Alone!Next

(* The routing rules do not depend on any variable.                        *)
LEMMA MatchAlone ==
    ASSUME NEW c, NEW r
    PROVE  Proxy!MatchRoute(c, r) = Alone!MatchRoute(c, r)
<1>1. \A rule : Proxy!Matches(rule, r) <=> Alone!Matches(rule, r)
  BY DEF Proxy!Matches, Alone!Matches, Proxy!IsPrefix, Alone!IsPrefix
<1> DEFINE I == {i \in 1..Len(c) : Proxy!Matches(c[i], r)}
           J == {i \in 1..Len(c) : Alone!Matches(c[i], r)}
<1>2. I = J
  BY <1>1
<1>3. Proxy!MatchRoute(c, r) = IF I # {} THEN Proxy!Min(I) ELSE 0
  BY DEF Proxy!MatchRoute, Proxy!SelectInSeq
<1>4. Alone!MatchRoute(c, r) = IF J # {} THEN Alone!Min(J) ELSE 0
  BY DEF Alone!MatchRoute, Alone!SelectInSeq
<1>5. Proxy!Min(I) = Alone!Min(I)
  BY DEF Proxy!Min, Alone!Min
<1> QED
  <2> HIDE DEF I, J
  <2> QED  BY <1>2, <1>3, <1>4, <1>5

LEMMA StepAlone ==
    ASSUME NEW w \in Worker, Proxy!Peers(w) \/ Proxy!Step(w)
    PROVE  Alone!Next
<1> USE DEF Proxy!Phase, Alone!Phase, Proxy!Becomes, Alone!Becomes,
        Proxy!GoTo, Alone!GoTo, Proxy!RespondWith, Alone!RespondWith,
        Proxy!Dies, Alone!Dies, Proxy!Wrote, Alone!Wrote,
        Proxy!Idle, Alone!Idle, Proxy!Open, Alone!Open
<1>1. CASE Proxy!Peers(w)
  <2>1. /\ Proxy!Connect(w) => Alone!Connect(w)
        /\ Proxy!ClientSends(w) => Alone!ClientSends(w)
        /\ Proxy!ClientStalls(w) => Alone!ClientStalls(w)
        /\ Proxy!ClientLeaves(w) => Alone!ClientLeaves(w)
        /\ Proxy!UpstreamDrips(w) => Alone!UpstreamDrips(w)
    BY DEF Proxy!Connect, Alone!Connect, Proxy!ClientSends, Alone!ClientSends,
           Proxy!ClientStalls, Alone!ClientStalls, Proxy!ClientLeaves,
           Alone!ClientLeaves, Proxy!UpstreamDrips, Alone!UpstreamDrips
  <2> QED  BY <1>1, <2>1 DEF Proxy!Peers, Alone!Peers, Alone!Next
<1>2. ASSUME Proxy!Step(w) PROVE Alone!Step(w)
  <2>1. /\ Proxy!HangUp(w) => Alone!HangUp(w)
        /\ Proxy!GetConfig(w) => Alone!GetConfig(w)
    BY DEF Proxy!HangUp, Alone!HangUp, Proxy!GetConfig, Alone!GetConfig
  <2>2. Proxy!Route(w) => Alone!Route(w)
    BY MatchAlone DEF Proxy!Route, Alone!Route
  <2>3. Proxy!BuildUrl(w) => Alone!BuildUrl(w)
    BY DEF Proxy!BuildUrl, Alone!BuildUrl, Proxy!TargetUrl, Alone!TargetUrl,
           Proxy!Rewrite, Alone!Rewrite, Proxy!MatchedRule, Alone!MatchedRule
  <2>4. /\ Proxy!ReadBody(w) => Alone!ReadBody(w)
        /\ Proxy!ReadBodyFails(w) => Alone!ReadBodyFails(w)
    BY DEF Proxy!ReadBody, Alone!ReadBody, Proxy!ReadBodyFails,
           Alone!ReadBodyFails
  <2>5. Proxy!Status = Alone!Status
    BY DEF Proxy!Status, Alone!Status
  <2>6. ASSUME NEW s
        PROVE  /\ Proxy!Answered(w, s) => Alone!Answered(w, s)
               /\ Proxy!Refused(w, s) => Alone!Refused(w, s)
               /\ Proxy!RefusedUnread(w, s) => Alone!RefusedUnread(w, s)
    BY DEF Proxy!Answered, Alone!Answered, Proxy!Refused, Alone!Refused,
           Proxy!RefusedUnread, Alone!RefusedUnread
  <2>7. Proxy!Unreachable(w) => Alone!Unreachable(w)
    BY DEF Proxy!Unreachable, Alone!Unreachable
  <2>8. /\ Proxy!RelayHead(w) => Alone!RelayHead(w)
        /\ Proxy!ReadUpstream(w) => Alone!ReadUpstream(w)
        /\ Proxy!RelayBody(w) => Alone!RelayBody(w)
        /\ Proxy!UpstreamBreaks(w) => Alone!UpstreamBreaks(w)
        /\ Proxy!RelayFails(w) => Alone!RelayFails(w)
    BY DEF Proxy!RelayHead, Alone!RelayHead, Proxy!RelayBody, Alone!RelayBody,
           Proxy!ReadUpstream, Alone!ReadUpstream, Proxy!UpstreamBreaks,
           Alone!UpstreamBreaks, Proxy!RelayFails, Alone!RelayFails
  <2>9. /\ Proxy!Respond(w) => Alone!Respond(w)
        /\ Proxy!RespondFails(w) => Alone!RespondFails(w)
        /\ Proxy!Finish(w) => Alone!Finish(w)
    BY DEF Proxy!Respond, Alone!Respond, Proxy!RespondFails,
           Alone!RespondFails, Proxy!Finish, Alone!Finish
  <2> QED
    BY <1>2, <2>1, <2>2, <2>3, <2>4, <2>5, <2>6, <2>7, <2>8, <2>9
    DEF Proxy!Step, Alone!Step
<1> QED  BY <1>1, <1>2 DEF Alone!Next

(* The file, the watcher and the caller of stop() behave as they do        *)
(* without handler threads.                                                *)
THEOREM ReloadAsAlone == HotSpec => Spec
<1>1. HotInit => Init
  BY DEF HotInit
<1>2. [HotNext]_hotVars => [Next]_vars
  BY DEF HotNext, hotVars, Launch, Aside, Install, Arrive, Proceed, Next,
         Watcher
<1> QED  BY <1>1, <1>2, PTL DEF HotSpec, Spec

(* The proxy that is reloaded is a proxy: its handler threads do what they *)
(* do under any sequence of configurations.                                *)
THEOREM HandlersAsAlone == HotSpec => Alone!Spec
<1>1. IInv /\ [HotNext]_hotVars => [Alone!Next]_Alone!vars
  <2> SUFFICES ASSUME IInv, [HotNext]_hotVars
               PROVE  [Alone!Next]_Alone!vars
    OBVIOUS
  <2>1. Parsed[config] \in Config /\ Parsed[loaded] \in Config
    BY HotReloadAssumption DEF IInv, TypeOK
  <2>2. CASE Launch \/ Install
    BY <2>1, <2>2, UpdateAlone DEF Launch, Install, Serves
  <2>3. CASE Aside
    <3>1. config' = config
      BY <2>3 DEF Aside, Editor, Written, BeginWrite, FinishWrite, Replace,
                  Delete, WaitTimesOut, Quit, PollChanged, PollUnchanged,
                  Load, LoadFails, Stop, JoinReturns
    <3> QED  BY <2>3, <3>1 DEF Aside, proxyVars, Alone!vars, Served
  <2>4. ASSUME NEW w \in Worker, NEW r \in Proxy!Request, Arrive(w, r)
        PROVE  Alone!Next
    BY <2>4, AcceptAlone DEF Arrive
  <2>5. ASSUME NEW w \in Worker, Proceed(w)
        PROVE  Alone!Next
    BY <2>5, StepAlone DEF Proceed
  <2>6. CASE UNCHANGED hotVars
    BY <2>6 DEF hotVars, vars, proxyVars, Alone!vars, Served
  <2> QED  BY <2>2, <2>3, <2>4, <2>5, <2>6 DEF HotNext
<1>2. HotSpec => []IInv
  BY ReloadAsAlone, Invariance, PTL
<1> QED  BY <1>1, <1>2, InitAlone, PTL DEF HotSpec, Alone!Spec

(* What is proved of the handler threads holds while the file is edited:   *)
(* one configuration decides about a request, the first head is true, and  *)
(* the client is answered once.                                            *)
THEOREM AnswersUnderReload ==
    HotSpec => [](Alone!OneConfig /\ Alone!FirstHeadHonest /\ Alone!AnsweredOnce)
BY HandlersAsAlone, HandlerAssumed, Alone!DecidedByOneConfig,
   Alone!FirstHeadIsHonest, Alone!ClientsAreAnsweredOnce, PTL

(* The configurations a request has met are none, or those of the versions *)
(* it has met, and these are no older than the one it could count on.      *)
Met(w) ==
    /\ asked[w] <= config
    /\ \A v \in met[w] : v \in Nat /\ v >= asked[w]
    /\ since[w] \subseteq {NoConfig} \union {Parsed[v] : v \in met[w]}

MInv ==
    /\ asked \in [Worker -> Nat]
    /\ met \in [Worker -> SUBSET Nat]
    /\ since \in [Worker -> SUBSET ({NoConfig} \union Config)]
    /\ ~up => config = 0
    /\ \A w \in Worker : Met(w)

LEMMA MInvInit == HotInit => MInv
BY DEF HotInit, Init, MInv, Met, Proxy!Init

LEMMA MInvInductive ==
    ASSUME IInv, IInv', QuietMeansCurrent, config' >= config, MInv,
           [HotNext]_hotVars
    PROVE  MInv'
<1>0. config \in Nat /\ config' \in Nat /\ Parsed[config'] \in Config
  BY HotReloadAssumption, ReloadAssumption DEF IInv, TypeOK
<1>1. ASSUME Serves(config'), asked' = asked, up'
      PROVE  MInv'
  <2>1. /\ since' = [w \in Worker |-> IF Proxy!Routing(w)
                                     THEN since[w] \union {Parsed[config']}
                                     ELSE since[w]]
        /\ met' = [w \in Worker |-> IF Proxy!Routing(w)
                                   THEN met[w] \union {config'} ELSE met[w]]
    BY <1>1 DEF Serves, Proxy!UpdateConfig
  <2>2. ASSUME NEW w \in Worker PROVE Met(w)'
    <3>1. asked[w] \in Nat /\ Met(w)
      BY DEF MInv
    <3>2. CASE Proxy!Routing(w)
      BY <1>0, <1>1, <2>1, <3>1, <3>2 DEF Met
    <3>3. CASE ~Proxy!Routing(w)
      BY <1>0, <1>1, <2>1, <3>1, <3>3 DEF Met
    <3> QED  BY <3>2, <3>3
  <2> QED  BY <1>0, <1>1, <2>1, <2>2 DEF MInv
<1>2. CASE Launch
  BY <1>1, <1>2 DEF Launch, vars
<1>3. CASE Install
  BY <1>1, <1>3 DEF Install, UpdateConfig
<1>4. ASSUME UNCHANGED <<asked, met, since, up>>, up \/ config' = config
      PROVE  MInv'
  BY <1>0, <1>4 DEF MInv, Met
<1>5. CASE Aside
  BY <1>4, <1>5 DEF Aside, proxyVars
<1>6. ASSUME NEW w \in Worker, NEW r \in Proxy!Request, Arrive(w, r)
      PROVE  MInv'
  <2>1. config' = config /\ up' = up
    BY <1>6 DEF Arrive, vars
  <2>2. asked' = [asked EXCEPT ![w] = config]
    BY <1>6 DEF Arrive, Settled, QuietMeansCurrent
  <2>3. since' = [since EXCEPT ![w] = {Served}]
    BY <1>6 DEF Arrive, Proxy!Accept
  <2>4. met' = [met EXCEPT ![w] = IF up THEN {config} ELSE {}]
    BY <1>6 DEF Arrive
  <2>5. Served = IF up THEN Parsed[config] ELSE NoConfig
    BY DEF Served
  <2>6. ASSUME NEW u \in Worker PROVE Met(u)'
    <3>1. CASE u = w
      BY <1>0, <2>1, <2>2, <2>3, <2>4, <2>5, <3>1 DEF Met, MInv
    <3>2. CASE u # w
      BY <2>1, <2>2, <2>3, <2>4, <3>2 DEF Met, MInv
    <3> QED  BY <3>1, <3>2
  <2> QED  BY <1>0, <2>1, <2>2, <2>3, <2>4, <2>5, <2>6 DEF MInv
<1>7. ASSUME NEW w \in Worker, Proceed(w)
      PROVE  MInv'
  <2>1. UNCHANGED <<vars, up, asked, met>>
    BY <1>7 DEF Proceed
  <2>2. since' = since \/ since' = [since EXCEPT ![w] = {}]
    BY <1>7
    DEF Proceed, Proxy!Peers, Proxy!Connect, Proxy!ClientSends,
        Proxy!ClientStalls, Proxy!ClientLeaves, Proxy!UpstreamDrips,
        Proxy!Step, Proxy!HangUp, Proxy!GetConfig, Proxy!Route,
        Proxy!BuildUrl, Proxy!ReadBody, Proxy!ReadBodyFails, Proxy!Answered,
        Proxy!Refused, Proxy!RefusedUnread, Proxy!Unreachable,
        Proxy!RelayHead, Proxy!ReadUpstream, Proxy!RelayBody,
        Proxy!UpstreamBreaks, Proxy!RelayFails, Proxy!Respond,
        Proxy!RespondFails, Proxy!Finish
  <2>3. ASSUME NEW u \in Worker PROVE since'[u] \subseteq since[u]
    BY <2>2 DEF MInv
  <2>4. ASSUME NEW u \in Worker PROVE Met(u)'
    BY <2>1, <2>3 DEF MInv, Met, vars
  <2> QED  BY <2>1, <2>2, <2>4 DEF MInv, vars
<1>8. CASE UNCHANGED hotVars
  BY <1>4, <1>8 DEF hotVars, vars, proxyVars
<1> QED  BY <1>2, <1>3, <1>5, <1>6, <1>7, <1>8 DEF HotNext

(* What decides about a request is one version of the file, and no older   *)
(* than the file was when the request came to a settled proxy.             *)
THEOREM FileDecides == ~CoarseMtime => (HotSpec => []DecidedByTheFile)
<1> SUFFICES ASSUME ~CoarseMtime PROVE HotSpec => []DecidedByTheFile
  OBVIOUS
<1>1. HotSpec => []IInv /\ []QuietMeansCurrent /\ NeverOlder
  BY ReloadAsAlone, Invariance, QuietIsCurrent, ReloadsMoveForward, PTL
<1>2. HotSpec => []Alone!OneConfig
  BY HandlersAsAlone, HandlerAssumed, Alone!DecidedByOneConfig, PTL
<1>3. MInv /\ Alone!OneConfig => DecidedByTheFile
  <2> SUFFICES ASSUME MInv, Alone!OneConfig, NEW w \in Worker,
                      Decided(handler[w])
               PROVE  \/ /\ NoConfig \in since[w]
                         /\ Proxy!RoutedBy(NoConfig, handler[w])
                      \/ \E v \in met[w] :
                           v >= asked[w] /\ Proxy!RoutedBy(Parsed[v], handler[w])
    BY DEF DecidedByTheFile
  <2>1. PICK c \in since[w] : Alone!RoutedBy(c, handler[w])
    BY DEF Alone!OneConfig, Alone!Routed, Decided
  <2>2. Proxy!RoutedBy(c, handler[w])
    BY <2>1, MatchAlone
    DEF Proxy!RoutedBy, Alone!RoutedBy, Proxy!NoUrl, Alone!NoUrl,
        Proxy!TargetUrl, Alone!TargetUrl, Proxy!Rewrite, Alone!Rewrite
  <2>3. c = NoConfig \/ \E v \in met[w] : v >= asked[w] /\ c = Parsed[v]
    BY <2>1 DEF MInv, Met
  <2> QED  BY <2>1, <2>2, <2>3
<1>4. HotSpec => []MInv
  <2>1. /\ IInv /\ IInv' /\ QuietMeansCurrent /\ [config' >= config]_vars
        /\ MInv /\ [HotNext]_hotVars
        => MInv'
    <3> SUFFICES ASSUME IInv, IInv', QuietMeansCurrent,
                        [config' >= config]_vars, MInv, [HotNext]_hotVars
                 PROVE  MInv'
      OBVIOUS
    <3>1. config \in Nat
      BY ReloadAssumption DEF IInv, TypeOK
    <3>2. config' >= config
      BY <3>1 DEF vars
    <3> QED  BY <3>2, MInvInductive
  <2> QED  BY <1>1, <2>1, MInvInit, PTL DEF HotSpec, NeverOlder
<1> QED  BY <1>2, <1>3, <1>4, PTL
=============================================================================
