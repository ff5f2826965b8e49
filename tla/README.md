# Verification of patchwork-proxy

TLA+ models of patchwork-proxy, a reverse proxy with hot-reloadable routes and
a library of middlewares (`src/patchwork`, 51 modules, 3458 lines of Python),
the TLC configurations that check them, and proofs that the TLA+ proof system
checks. `PROJECT.json` is the index: components, runs, the mutation that every
property must detect, the source lines behind each definition, hazards,
findings, theorems.

To check a module: `tlc -config MCProxyHandler.cfg MCProxyHandler`. To check the
proofs: `tlapm ProxyHandlerProofs.tla`.

## 1. The system

### How the parts meet

* **Request threads.** `ProxyHandler` (proxy.py) is a
  `BaseHTTPRequestHandler`: one thread to a connection, and, `http.server`
  speaking HTTP/1.0 by default, one request to a connection, unless the head it
  relays from the upstream says `Connection: keep-alive`, which `send_header`
  takes for its own. The threads share the class attribute `_config`, guarded
  by an RLock.
* **The reload thread.** `ConfigWatcher` (watcher.py) polls the config file's
  mtime and calls a callback; wired to `load_config` and
  `ProxyHandler.update_config` it is the hot reload the README promises.
* **Middlewares.** `MiddlewarePipeline` (middleware.py) calls a list of pre
  hooks, then, after the upstream call, a list of post hooks on one
  `RequestContext`. Most middlewares are closures; the stateful ones share an
  object between threads: the dedup registry, the breakers, the token buckets,
  the response cache, the metrics.
* **What does not exist.** Nothing in `src/patchwork` calls the pipeline from
  the handler, and there is no command line (`README.md` documents one). How a
  pipeline is driven (pre hooks, upstream, post hooks, an exception ending all
  of it) is taken from the integration tests, and is marked external or mapped
  to `run_pre`/`run_post`. Several middlewares use fields (`request`,
  `metadata`, `target`, `extra`) that `RequestContext` does not declare; their
  tests pass contexts of their own. The models take the contexts of the tests.

### Inventory

| Component | State | Operations | What is hard | What makes it correct |
|---|---|---|---|---|
| Proxy handler (proxy.py) | `_config`; per thread the locals of `do_request` | `update_config`, `do_request`, `_respond` | reload between two lines; failures after the head is out; statements outside the try; a client that leaves, withholds its body or does not read, an upstream that drips: sockets without a timeout | one configuration per request; a truthful head; one answer; no thread kept but by its client or such an upstream |
| Routes (config.py) | immutable | `matches`, `match_route`, `rewrite`, `load_config` | order of rules, broken files | first match decides, a broken file changes nothing |
| Config watcher (watcher.py) | `_last_mtime`, `_stop_event`, thread | `_run`, `stop` | edits at any point of the loop, half-written files, a read that fails just once, equal mtimes, stop during a callback | never older, current when quiet, eventually current, ends after stop |
| Request dedup (middleware_request_dedup.py) | registry of keys under a lock | pre, post | check and insert, exceptions between the hooks, ambiguous keys | no two duplicates in flight, registry = requests in flight, keys released |
| Circuit breaker (circuit_breaker.py, middleware_circuit_breaker.py) | state, two counters, `opened_at`, per route | `is_open`, `record_success`, `record_failure`; pre, post | no lock: answers and assignments that come after the circuit changed; recovery only on request | thresholds, outages prolonged only by who was past the test, recovery |
| Rate limiter (rate_limiter.py) | buckets, route configs, two kinds of lock | `configure_route`, `reset`, `is_allowed`, `acquire` | the gap between the two locks, lazy refill | burst + rate bound, configured limits kept, bounded overshoot |
| Response cache (cache.py, middleware_cache.py) | ordered entries with expiry | `get`, `put`, `invalidate`, `clear`; pre, post | expiry against recency, eviction at the limit, an old answer stored late | LRU, no expired hit, never back in time |
| Retry (retry.py) | locals of `with_retry` | the loop | mixed failures, last attempt, cap | honest result, counts and delays |
| Health checker (health.py) | status object per target | `check`, `reset`, `is_healthy` | read, network, write back field by field with no lock; resets in between | unhealthy only when earned, outages and recoveries noticed |
| Pipeline and gates (middleware.py, auth, ip allowlist, size, query, geo, TLS, JWT, signing, path rewrite, health endpoint) | two hook lists; the context of each request | `run_pre`, `run_post`, one decision of each hook | no short-circuit; verdicts in different fields, some overwritten; hooks that change what later ones judge (path rewriting, the JWT claim); hooks that raise | forwarded just when entitled; one refusal speaks |
| Response shaping (compression, response size) | the answer in the context | two post hooks | order, stale lengths, an answer compressed already | honest length and encoding, limit held |
| Metrics (metrics.py, middleware_metrics.py) | counters under one lock | `record`, `reset`, hooks | what the hook sees is not yet the answer; requests that never reach it | each known request counted once, errors as answered |
| Header, method and body rewriting, CORS, logging, tracing, request ids, timeouts, constructors | none, or one value copied | pure functions | data only | section 7 |

## 2. Modules

| Module | Models | Correspondence |
|---|---|---|
| `ProxyHandler` | proxy.py, the rules of config.py | A thread's `phase` is the line of `do_request` it stands at; each action is the code between two points where another thread, the client or the upstream can matter: `GetConfig`, `Route`, `BuildUrl`, `ReadBody`, the call (`Answered`, `Refused`, `Unreachable`), `RelayHead`, `ReadUpstream`, `RelayBody`, `Respond`. What the peers may do is `Peers`: a client connects, sends, stalls (stays and reads nothing) or leaves, an upstream drips; a read or write of the client's socket waits for it. A kept connection goes back to `Open`, waiting for a request line. Every statement that can raise has its failing twin (`ReadBodyFails`, `RefusedUnread`, `UpstreamBreaks`, `RelayFails`, `RespondFails`), and where the exception goes is read off the try: `Dies` outside of it, `RespondWith(w, "502")` inside. Paths are sequences of pieces of text. |
| `ConfigReload` | watcher.py, `load_config`, `update_config` | `pc` is the thread's place in `_run`; the mtime is remembered (`PollChanged`) before the file is read (`Load`), as in the code; the editor writes in place, replaces, breaks or removes the file. `LoadFails` may strike a whole file too (an `OSError`); since the mtime is remembered by then, nothing is tried again, which the history variable `missed` keeps for the properties. |
| `HotReload` | the two together | They share `_config`: `ConfigReload`'s `config` is its version, `Parsed` the rules that version holds, and `Served` what the handlers read, `None` until the program that starts the server has set one (`Launch`). `Install` is the watcher's `UpdateConfig` and the handlers' `UpdateConfig(c)` in one step, as it is one assignment in the code; every other step is one of either half. The history variable `met` has the versions that were served while a request was being routed. |
| `RequestDedup` | middleware_request_dedup.py | `registry` is `_registry`; the context keeps the key of the pre hook (`dedup_key`); keys are joined texts, "\|" unescaped. `Raise` drops a context between its hooks. |
| `CircuitBreaker` | circuit_breaker.py | One operator per method, from a breaker to a breaker. `opened_at` is kept as the time since. |
| `BreakerThreads` | circuit_breaker.py, `_get_breaker` | The same again for one route with no method atomic: every read and assignment of a shared attribute is a step, `+= 1` two of them. A breaker is named by the thread that made it, so that two first requests can each make one. The action's names are those of the lines: `CloseState`, `CloseFailures`, `CloseSuccesses` is `_close`. |
| `HealthChecker` | health.py | `check` in nine steps between its read of `_statuses` and its write back; `heap` holds the status objects, which checks under way and the dict share or do not. The history variables count the failing checks of a target since it was last well (`failed`), which is after a successful check that no other overlapped (`alone`) or a reset with no check under way: any other check may still put an older verdict back. |
| `BreakerMiddleware` | middleware_circuit_breaker.py | `registry` maps routes to breakers; a method call is one step, whole calls in any order. `Effective` is what the breakers run with: the defaults, whatever was given. |
| `RateLimiter` | rate_limiter.py | `buckets`, `route_configs` as in the code, `heap` the bucket objects; `FindBucket`/`MakeBucket` is `is_allowed` up to the release of the limiter's lock, `AcquireAndReturn` the rest under the bucket's. |
| `Throttle` | abstract specification | Buckets that fill continuously. `RateLimiter` implements it (`IsThrottle`, refinement mapping `Meters`). |
| `ResponseCache` | cache.py, middleware_cache.py | `store` is the OrderedDict, first entry the least recently used; `Without(k)` is `del` and `pop` by key. |
| `Retry` | retry.py | `attempt`, `last_value`, `last_exc` are `with_retry`'s locals. |
| `Gates` | auth.py and the pre hooks auth, jwt, signing, ip allowlist, geo block, TLS, query filter, request size, path rewrite, health endpoint, rate limit | One operator per hook, from configuration and context to context, and one for what it decides on (`JWTAllows`). A text is a value; what `int()`, `.lower()`, base64, HMAC and the like read in it is a constant function on the texts it accepts. `Claimed` is what the JWT hook makes of the request's headers; `JWTRaises` and `SigningRaises` are the calls that raise. |
| `Shaping` | the post hooks compression and response size; metrics' idea of an error | As `Gates`; a body is its size and how often it was gzipped, a header field the numbers given under that name, `None` for a text that is no number. |
| `Pipeline` | middleware.py, metrics.py with its hooks, the retry and transform hooks as far as they go | `handler[w]` is the place of a thread in the two loops with its request's context; `RunHook` is a turn of a loop, `RecordMetrics` the turn that takes the collector's lock, `HookRaises` the turn that ends the request. `Decide`, `Upstream` and `Deliver` are the caller the code lacks. `Before` is the request as the hooks in front of a hook leave it, with its path rewritten and the claims of accepted tokens in its headers: what a gate judges; `PreKinds` and `PostKinds` are the hooks `add_pre` and `add_post` are given. |
| `MC*` | | Constant values for TLC; `MCUpstreamHealth` and `MCOneThread` check several modules in one run. |
| `*Proofs` | | Theorems and their proofs. |

Definitions whose comment calls them a plausible slip are not part of any
specification: each is a bug that could stand in the code, put in the place of
the definition that follows it to see that a property notices.

Each hook of the cache is one step; the code holds no lock around it, and one
thread is its documented use. In `BreakerMiddleware` a method of the breaker is
one step, which lets it speak about late answers and several routes, and no
property that threads inside the methods could break is left to it alone:
`ClosedBelowThreshold` and `Recovers` have their counterparts `TripPending` and
`ThreadsRecover` in `BreakerThreads`, which takes no method for atomic.

## 3. Runs

| Run | Instance | States | Shows |
|---|---|---|---|
| `proxy` | 1 thread, 3 paths, 2 methods, 2 configurations with the rules in another order, stripping and not, one target without a scheme | 11 900 | `OneConfig`, `FirstHeadHonest`, `AnsweredOnce`, `Unstuck` |
| `reload` | 4 edits, distinct mtimes | 21 600 | `NeverOlder`, `QuietMeansCurrent`, `PicksUpChanges`, `AtMostOneLateUpdate`, `StopEnds` |
| `hot_reload` | 2 edits, 1 thread, versions with rules for one target, none, and another | 2 407 840 | `DecidedByTheFile` |
| `dedup` | 2 threads, all 8 configurations, texts that join ambiguously | 56 848 | `SingleFlight`, `RegistryExact`, `KeysReleased` |
| `breaker` | methods: 2 threads, 2 routes, thresholds and timeout 2; assignments: 2 threads, timeout 1; health checks: 2 threads, 1 target, 3 objects, threshold 2 | 123 898 | `ClosedBelowThreshold`, `Recovers`; `TripPending`, `OutageBounded`, `ThreadsTrip`, `ThreadsRecover`; `UnhealthyIsEarned`, `OutageNoticed`, `RecoveryNoticed` |
| `rate_limiter` | 2 threads, 1 route, 2 limits, 4 buckets, clock to 2 | 95 624 | `RateBound`, `ConfigSticks`, `OvershootBounded`, `IsThrottle` |
| `one_thread` | cache: 1 thread, 3 cacheable keys for 2 places, 1 key that is not, ttl 2; retry: up to 4 attempts, 4 statuses, every set of retryable codes | 314 131 | `LeastRecentFirst`, `NoExpiredHit`, `NeverBackInTime`; `ResultTellsTheEnd`, `AttemptsHonest`, `BackoffGrowsToCap` |
| `pipeline` | every two of 22 hooks before the upstream in both orders and with one that raises, all gates at once in two orders, every three of five hooks behind it, about 50 requests with one thing wrong each; 2 threads with 3 requests and a collector that is reset | 145 695 | `ForwardedIffEntitled`, `LastRefusalSpeaks`, `ErrorsMatchAnswers`, `HonestAnswer`, `LimitHeld` |
| `dedup_leak`, `breaker_threshold`, `reload_coarse`, `retry_succeeded` | | | the findings of section 5 |

The run `breaker` checks three modules in one (`MCUpstreamHealth`), and
`one_thread` two (`MCOneThread`). They share no variable, so a behaviour of one
is a behaviour of all with the others at rest; each moves only while the others
are as they were at the start, and the state space is their sum and not their
product. `hot_reload` on the other hand is a product: reload and request
interleave at every step.

Why the bounds are enough, and what each bound is:

* *Threads.* Two meet in every way the registry, the breakers and the limiter
  allow, since their operations look at one key, breaker or bucket and at
  nobody's identity. Handler threads share only the configuration, and the
  reload thread changes it at any step, so `proxy` needs one (the proofs are
  for any number).
* *Thresholds of two* are the smallest that can be reached, missed by one and
  left over from an earlier episode. `MaxCount` caps `failure_count` above the
  threshold; nothing reads it beyond the comparison.
* *Time.* `open_for`, an entry's `left` and `age` saturate where the code can
  no longer tell. The limiter's `MaxTime` of 2 lets a bucket drain, fill in
  part, and fill past its burst; with two parts to a token one limit gains half
  a token in a unit and the other one and a half.
* *`Bucket`* has one object more than routes and threads can refer to, so that
  a new bucket can always be made. Threads are symmetric in `rate_limiter`;
  `IsThrottle` there is a safety property, so symmetry is sound.
* *`MaxWrites` = 4*: a version served, one half-read, one broken, one that
  mends it. In `hot_reload` it is 2: a request that came under one version can
  be overtaken by an edit that is loaded and by one that is not.
* *`MaxVersion` = 1*: `NeverBackInTime` compares two versions of one key.
* *`HealthObject`* has one object for the target and one in the hand of each
  checker. `consecutive_failures` stops at the threshold, the only number it is
  compared with.
* *Hooks.* A hook touches only the context, so what one does to another shows
  in a pair: all ordered pairs of pre hooks are deployed, among them two of one
  kind with different configurations, and JWT hooks whose claim goes into a
  header that a signature, a country or nobody reads. The two long pipelines look for what
  needs more than two. Behind the upstream triples are needed: metrics,
  compression and limit meet in every order.
* *Requests.* One that every gate allows, and variations that each gate judges
  differently, two of them with two things wrong, so that two gates refuse.
  Texts that differ in case, miss, are empty, are no number or not ASCII are
  among them, tokens without a subject or with a payload that is no object, and
  signatures over a header that a token's claim replaces.
* *`load`* bounds the requests of a behaviour: one where hooks are compared,
  three where threads share the collector.
* *Paths and rules* of `proxy` hold a path equal to its prefix, one longer,
  one that matches nothing, two rules that both match, and a method filter.

### Fairness

Only what the code or its runtime owes: a thread that can go on does, `urlopen`
and a read of the upstream end unless bytes keep dripping in (the timeout is 30
seconds without one), the watcher's thread runs, `join` has a timeout, time
passes. Clients, upstreams, editors, arrivals and exceptions owe nothing. The
client's socket has no timeout for reads or writes, so a client may keep a
thread for ever by sending no request on a kept connection, by withholding its
body, or by staying and not reading its answer, and an upstream may by
dripping: `Held` lists these, and `Unstuck` says that a thread which does not
come back is held by one of them over and over again, where it waits for just
that peer. An editor may leave a broken file, so `PicksUpChanges` asks that the
file come to rest whole, and it excepts a whole file that could not be read the
one time it was due (`missed`).
`Recovers` asks that requests keep coming and are no longer failing, since
`is_open` is only ever called by a request; `ThreadsRecover`, `ThreadsTrip`,
`OutageNoticed` and `RecoveryNoticed` ask the like of requests and of checks,
which nobody owes either, and `OutageNoticed` that nobody resets the target. A
thread inside the breaker runs on, and a check that has begun ends, since
`urlopen` has a timeout (`ThreadFairness`, `HealthFairness`). `RateLimiter`, `ResponseCache`,
`Retry`, `Pipeline` and `HotReload` have safety properties only. Deadlock is
checked except where the system is allowed to stop: the watcher that was
stopped, the retry loop that is done (and with it the run `one_thread`), the
pipeline whose traffic (`load`) is over.

## 4. Proofs

For every value of the constants that satisfies the named ASSUMEs:

| Module | Theorems | Invariant |
|---|---|---|
| `RequestDedupProofs` | `TypeCorrect`, `RegistryIsExact`, `NeverForwardedTwice` | a context in flight carries its own key (`OwnsKey`), no two share one (`KeyUnique`), none is leaked. The post hook releases what the metadata holds, so without these nothing about the registry is inductive. That equal requests have equal keys is a lemma on `RequestKey`. |
| `HotReloadProofs` | `TypeCorrect`, `StopIsNearlyFinal`, `ReloadsMoveForward`, `QuietIsCurrent`; `ReloadAsAlone`, `HandlersAsAlone`, `AnswersUnderReload`, `FileDecides` | Of `ConfigReload`: versions and mtimes are ordered (`Order`), the reload under way is the only one that can still be late (`LateBudget`); with distinct mtimes, an mtime determines the version. Of `HotReload`: the composition implements each half's specification, so their theorems hold of it (those of the handlers through `INSTANCE ProxyHandlerProofs`); `MInv` adds that the versions a request has `met` are those its configurations came from, none older than the one it could count on and the latest the one served, which `ReloadsMoveForward` keeps and `QuietIsCurrent` starts. |
| `ProxyHandlerProofs` | `TypeCorrect`, `DecidedByOneConfig`, `FirstHeadIsHonest`, `ClientsAreAnsweredOnce` | `Written`: what is on the wire at each line of `do_request`; `Snapshot`: the configuration held is one there has been since the request came. Handlers are independent, so a lemma (`OneThreadMoves`) reduces each step to the values of one thread; `RoutedKept` carries the routing decision through the later lines. That `match_route` returns a rule's number needs the well-foundedness of `<`. |
| `RateLimiterProofs` | `TypeCorrect`, `NeverOverRate`, `LimitsStay`, `OvershootIsBounded`, `LimiterIsThrottle` | `Good` of each bucket alive: tokens left and tokens given never exceed the burst and what the rate added up to the last refill, which is where the bucket's account is exact; a bucket that the dict or a thread refers to exists. `OvershootBounded` is inductive on top of that: what a route's replaced buckets let through and the threads that still hold one are together no more than the threads there are. The refinement has a lemma per action: what `_refill` adds at once is what the meter gained in the meantime. |
| `UpstreamHealthProofs` | `MethodsTypeCorrect`, `ClosedIsBelowThreshold`; `TripIsPending`, `OutageIsBounded`; `HealthTypeCorrect`, `NeverUnhealthyUnearned` | The three modules `MCUpstreamHealth` checks, one after the other. `MethodsIInv`: `Sound` of one breaker, kept by every method (a lemma each); the middleware's steps only choose the method. `ThreadsIInv`: who has a breaker in hand (`HasBreaker`), and with it types and the property itself; the steps fall into four forms (test, assign, read, look up), and a lemma for each says what it may leave behind, a breaker below its threshold or a thread that attends to it. `OutageIsBounded` rests on two lemmas: the clock of an open circuit is set back by `OpenedAt` alone (`ClockKept`), and no thread comes on the way there while the circuit is open (`NobodyNew`). `HealthIInv`: an object belongs to one target (`Owned`); none of a target's objects counts more failures than its checks told of since it was last well (`EarnedBy`), nor does a thread between the read and the write of the count (`Knows`), and a thread about to condemn has seen the threshold reached; a check that is alone has done what a successful one does (`Unspoilt`), so that when it ends, the object it leaves is the target's only one, without a failure in it. |
| `RetryProofs` | `TypeCorrect`, `AttemptsAreHonest`, `ResultTells`, `BackoffGrows` | `Counted` ties calls, sleeps and `attempt` together at each line; `Told` says what the two locals remember, and that every call so far was a bad one; `Paced` that the n-th sleep is the n-th delay; `PowerFacts` shows that the recursive function `Power` is there and what it satisfies (by least counterexample, in place of an induction), `PowerGrows` that it does not fall. |
| `ResponseCacheProofs` | `TypeCorrect`, `EvictsByLastUse`, `ServesNothingExpired`, `NeverServedOlder` | The keys in the store are distinct, each was used (`recency` holds it once), and stand in the order of their last use; an entry's `left` is the time to live less its `age`. Lemmas say what dropping an element of a sequence and appending it again does to these. For one thread (`Current`), the store holds what clients were last sent, and nothing for the key of a request that is with the upstream or back from it, so no older answer can overtake a newer one. |
| `PipelineProofs` | `ForwardsTheEntitled`, `TheLastRefusalSpeaks`, `AnswersAreHonest`, `LimitHolds`, `CountsMatchAnswers` | Every handler is `Fine`: before the upstream its context is what the hooks run so far make of the request (`Judged`: it has been stopped just if one of them refuses, the last that refused has written the answer, the path and the headers are those `Before` gives); behind it the answer is `Shaped` as the hooks run so far leave it. Short facts about each hook (what it may write) carry the two over one turn of the loop. `Before` is a recursive function, unfolded through the least place where it could differ. For counts, `Balanced`: for each route, the collector is ahead of the answers by the requests that are between the metrics hook and their end, with one error fewer at most for each that a limit behind the hook turned into a 502. |

Assumptions on constants are those of the modules (`RateLimiterAssumption`,
`HealthAssumption`, `ThreadAssumption`, `RetryAssumption` and so on): positive
thresholds, limits as the constructors take them, and marks like `None` that
are none of the objects. `PipelineAssumption` also fixes the attributes a
request has, and that the header in which a size limit reports itself is none of
those that hooks read (`HeadersRead`). TLC evaluates each in a run.

Three theorems have a hypothesis besides these. `QuietIsCurrent` and
`FileDecides` need mtimes to be distinct (`~CoarseMtime`): finding 3 is what
happens otherwise. `NeverServedOlder` is for one thread, the documented use of
the cache; with two, an answer fetched before a change can be stored after the
newer one was served. `HonestAnswer` and `ErrorsMatchAnswers` carry theirs in
the property itself: one compression hook at most and an upstream that describes
its own body truthfully, one metrics hook at most.

The invariants (`IInv`), or for the later modules their conjuncts, were
model-checked before they were proved. Every invariant and action property of
the passing runs is proved. Only checked, not proved, are the liveness
properties, which are beyond the prover: `KeysReleased`, `PicksUpChanges`,
`StopEnds`, `Unstuck`, `Recovers`, `ThreadsTrip`, `ThreadsRecover`,
`OutageNoticed`, `RecoveryNoticed`.

## 5. Findings

1. **Leaked keys** (`dedup_leak`). An exception between the hooks leaves a key
   in the registry; every later request like it is refused though nothing is in
   flight.
2. **Breakers ignore their configuration** (`breaker_threshold`).
   `CircuitBreaker(config)` fills the field `host`; two tests of the repository
   assert the opposite.
3. **Equal mtimes** (`reload_coarse`). A second edit with the same mtime is
   never loaded; README.md says changes are picked up automatically.
4. **Exhausted retries succeed** (`retry_succeeded`). `succeeded` is true for a
   call that got 502 each time; a test of the repository asserts the opposite.

Read in the code while modelling, and not the subject of a run:

* `middleware_transform.py:20,26` passes its arguments in the wrong order and
  raises on every call; `retry_policy.py` and `middleware_retry.py` use fields
  and parameters `RetryConfig` does not have, so `to_retry_config` and, on an
  answer with a status, the post hook raise; `middleware_circuit_breaker.py`'s
  default builder passes an unknown keyword; `is_timed_out` has no caller.
  README.md describes YAML with `match:` where the loader reads JSON with
  `prefix`.
* `run_pre` returns nothing and does not stop at a hook that has refused.
  `auth_ok` and `ip_blocked` are written by a hook whichever way it decides,
  so the last such hook's verdict stands; a `WWW-Authenticate` of the JWT hook
  stays behind another gate's later refusal, so `LastRefusalSpeaks` is about
  the status and the body only.
* An accepted token's claim is written into the request's own headers
  (`middleware_jwt.py:96`), where any gate behind the hook reads it:
  `ForwardedIffEntitled` therefore says that a gate judges the request as the
  hooks in front of it left it, and not as it came. A payload that is a list or
  a text containing `sub`, or a number, makes the hook raise.
* `compare_digest` raises a `TypeError` for a signature that is not ASCII
  (`middleware_request_signing.py:84`): the request ends with an exception and
  not with a refusal.
* `urlopen` raises for every status from 400 on, so that a 404 from a health
  endpoint counts as a failed check, though the code compares with 500.
* Compression takes `gzip;q=0` for a wish for gzip, compresses what is
  compressed already, and leaves a `content-length` in small letters as it
  was; the size limit believes the declared length, so that the answer to a
  HEAD request with a long one becomes a 502.
* The name under which a size limit reports itself is free; one that other
  hooks read, such as `Content-Type`, would be overwritten. The models assume
  another.
* The breaker's methods are not atomic. Two threads past the threshold test
  both run `_open`, and the second sets `opened_at` again: an outage is
  prolonged, by each such thread once (`OutageBounded`). A thread that sees
  `OPEN` before `opened_at` is set compares with the older time and lets a
  request through at once. A late `success_count += 1` can survive `_close`, or
  `is_open`'s reset if it was read in an earlier episode; left over in `CLOSED`
  it is harmless, since `is_open` clears it, and in `HALF_OPEN` it closes the
  circuit after fewer probes than the threshold. That one is not a property
  here, because the code does not have it.
* A health check that is under way during `reset` puts the old object back, with
  its verdict and its count.
* A client that does not read its answer, or an upstream that drips, keeps a
  thread (proxy.py:63, 74); a relayed `Connection: keep-alive` keeps the
  connection, and with it the thread, until the client ends it (proxy.py:61).
* A whole file that could not be read once is not tried again before its mtime
  changes (watcher.py:40-44).
* A request whose upstream call raises never reaches the post hooks, and
  metrics do not know of it.

`AnsweredOnce` holds with its exceptions stated. A client gets no answer at all
if its Content-Length is no number, the rule's target no URL, or an error's body
cannot be read; and the code does put a 502 head behind a head already sent when
the upstream breaks off in its body (proxy.py:63-68). No document of the
repository says otherwise, so this is part of the property and not a finding.

## 6. Plan

Done: every module of section 2, with a theorem for each safety property that a
run checks, and the composition of reload and requests (`HotReload`).

What would come next, in order of worth:

1. The cache under several threads, beside its documented use: which of
   `get`'s statements can raise, and how far back a client can be taken.
2. `HotReload` with fairness: a client that keeps asking is served by the last
   whole version of the file.
3. The start of the program (`Launch`) in two steps: an edit between the load
   of the file and the construction of the watcher is not seen.

## 7. Not modelled

* Wording, headers copied through, encodings, HMAC and gzip themselves: data,
  no control. A token or a signature is known by what it was made from.
* Header, method and body rewriting: pure functions of one dict each, which no
  other hook reads. The transform functions: every call of
  them in `src/` raises.
* CORS: headers and a signal that nothing reads.
* Request ids, tracing, logging: one value copied, or output.
* The timeout middleware records a start time that nobody compares; the
  throttle middleware sleeps, which any interleaving allows anyway.
* The configuration constructors: stateless reading of dictionaries. What they
  accept is assumed of the configurations (`Accepted` in `Pipeline`).
* `CircuitBreakerRegistry`: the middleware keeps a dict of its own, and the
  class has no caller.
* The latencies of the collector, and the times and texts of a health status:
  they are only reported.
* The textual join of a target and a path (`rstrip("/") + rewritten`): a URL is
  a pair here. With `strip_prefix` and a prefix that ends in a slash the join
  has no slash between host and path; see the hazards.
* A body cut short by its client and forwarded as it is: bodies are not part of
  the state, only whether the client is still sending.
* Components listed as `not_modelled` in `PROJECT.json`, each with its reason.
