----------------------------- MODULE HotReload -----------------------------
(***************************************************************************)
(* Hot reload from end to end: the watcher and the file of ConfigReload    *)
(* together with the handler threads of ProxyHandler.  They share          *)
(* ProxyHandler._config: update_config writes it, from the program that    *)
(* starts the server and then from the watcher's callback, and             *)
(* _get_config reads it.                                                   *)
(*                                                                         *)
(* ConfigReload knows a configuration as the version of the file it was    *)
(* loaded from; Parsed says which rules that version holds.                *)
(***************************************************************************)
EXTENDS ConfigReload

CONSTANTS
    Worker, Piece, Path, Method, Prefix, Target, BadTarget, Config, NoConfig,
    OkStatus, ErrStatus,  \* those of ProxyHandler
    Parsed                \* the rules each version of the file holds

VARIABLES
    up,       \* has the program that starts the server set a configuration?
    handler, client, drips, out, since, upstream,  \* those of ProxyHandler
    asked,    \* history: the version a request could count on when it came
    met       \* history: the versions served while it was being routed

(* ProxyHandler._config.                                                   *)
Served == IF up THEN Parsed[config] ELSE NoConfig

Proxy == INSTANCE ProxyHandler WITH config <- Served

ASSUME HotReloadAssumption ==
    Proxy!HandlerAssumption /\ Parsed \in [0..MaxWrites -> Config]

proxyVars == <<handler, client, drips, out, since, upstream>>
hotVars   == <<vars, up, proxyVars, asked, met>>

-----------------------------------------------------------------------------
(* The handlers' class starts with _config = None.                         *)
HotInit ==
    /\ Init
    /\ up = FALSE
    /\ Proxy!Init
    /\ asked = [w \in Worker |-> 0]
    /\ met = [w \in Worker |-> {}]

(* Version v is served from now on, to the requests being routed too.      *)
Serves(v) ==
    /\ Proxy!UpdateConfig(Parsed[v])
    /\ met' = [w \in Worker |-> IF Proxy!Routing(w) THEN met[w] \union {v}
                                                    ELSE met[w]]

(* The program loads the file, sets what it holds and makes the watcher;   *)
(* nobody edits the file between these.                                    *)
Launch ==
    /\ ~up
    /\ up' = TRUE
    /\ UNCHANGED <<vars, asked>>
    /\ Serves(config)

(* A step of the editor, the watcher or the caller of stop() that does not *)
(* touch _config.                                                          *)
Aside ==
    /\ up
    /\ \/ Editor \/ WaitTimesOut \/ Quit \/ PollChanged \/ PollUnchanged
       \/ Load \/ LoadFails \/ Stop \/ JoinReturns
    /\ UNCHANGED <<up, proxyVars, asked, met>>

(* The callback's call of update_config.                                   *)
Install ==
    /\ up
    /\ UpdateConfig
    /\ UNCHANGED <<up, asked>>
    /\ Serves(loaded)

(* The watcher sees nothing to do, and what is in the file can be loaded   *)
(* and could be read.                                                      *)
Settled ==
    /\ up
    /\ pc \in {"waiting", "polling"}
    /\ ~missed
    /\ GetMtime = last_mtime
    /\ file.form = "whole"

(* A request that comes to a settled proxy counts on the file as it is,    *)
(* any other one on what is being served.                                  *)
Arrive(w, r) ==
    /\ UNCHANGED <<vars, up>>
    /\ Proxy!Accept(w, r)
    /\ asked' = [asked EXCEPT ![w] =
                   IF Settled THEN file.version ELSE config]
    /\ met' = [met EXCEPT ![w] = IF up THEN {config} ELSE {}]

Proceed(w) ==
    /\ UNCHANGED <<vars, up, asked, met>>
    /\ Proxy!Peers(w) \/ Proxy!Step(w)

HotNext ==
    \/ Launch \/ Aside \/ Install
    \/ \E w \in Worker :
         \/ \E r \in Proxy!Request : Arrive(w, r)
         \/ Proceed(w)

HotSpec == HotInit /\ [][HotNext]_hotVars

-----------------------------------------------------------------------------
(* Each half behaves as it does on its own, so what is proved of either is *)
(* true of the two together.                                               *)
IsHandlers == Proxy!Spec
IsReload   == Spec

Decided(h) ==
    /\ h.phase \notin {"idle", "open", "started", "configured", "routed"}
    /\ h.fault # "length"

(* README.md, "changes are picked up automatically", as a client sees it:  *)
(* what decides about a request, its match, its rewriting and its target,  *)
(* is one version of the file, which was being served at some time while   *)
(* the request was routed, and is no older than the file was when it came  *)
(* if the watcher had nothing to do.  A request that came before any was   *)
(* set may also be told so.                                                *)
DecidedByTheFile ==
    \A w \in Worker :
        Decided(handler[w]) =>
            \/ /\ NoConfig \in since[w]
               /\ Proxy!RoutedBy(NoConfig, handler[w])
            \/ \E v \in met[w] :
                 v >= asked[w] /\ Proxy!RoutedBy(Parsed[v], handler[w])
=============================================================================
