---------------------------- MODULE ConfigReload ----------------------------
(***************************************************************************)
(* Hot reload: the polling thread of patchwork/watcher.py, load_config of  *)
(* patchwork/config.py as its callback, ProxyHandler.update_config of      *)
(* patchwork/proxy.py as what the callback does with the result, and an    *)
(* editor that writes the file meanwhile.                                  *)
(*                                                                         *)
(* A version stands for the content of one edit.  A file being written is  *)
(* not JSON; a finished one may still not be, or lack a key from_dict      *)
(* wants.  mtime is the file system's: where its granularity is coarse,    *)
(* two writes in a row may get the same one.                               *)
(***************************************************************************)
EXTENDS Naturals

CONSTANTS
    MaxWrites,   \* bound on the edits
    CoarseMtime  \* may two successive writes have the same mtime?

ASSUME ReloadAssumption == MaxWrites \in Nat /\ CoarseMtime \in BOOLEAN

VARIABLES
    file,        \* the config file: its version, form and mtime
    config,      \* ProxyHandler._config, as the version it was loaded from
    last_mtime,  \* _last_mtime
    pc,          \* where the watcher thread is
    loaded,      \* the version load_config returned
    stop_event,  \* _stop_event
    stopper,     \* the caller of stop()
    late,        \* history: updates since stop() was called
    missed       \* history: could a whole file not be read when it was due?

vars == <<file, config, last_mtime, pc, loaded, stop_event, stopper, late, missed>>

Form == {"absent", "partial", "broken", "whole"}

(* _get_mtime(): 0.0 when the file is not there.                           *)
GetMtime == IF file.form = "absent" THEN 0 ELSE file.mtime

-----------------------------------------------------------------------------
(* The proxy is serving the file's first version when the watcher starts.  *)
Init ==
    /\ file = [version |-> 0, form |-> "whole", mtime |-> 1]
    /\ config = 0
    /\ last_mtime = 1
    /\ pc = "waiting"
    /\ loaded = 0
    /\ stop_event = FALSE
    /\ stopper = "none"
    /\ late = 0
    /\ missed = FALSE

Stamps == IF CoarseMtime THEN {file.mtime, file.mtime + 1} ELSE {file.mtime + 1}

Written(version, form) ==
    /\ \E t \in Stamps :
         file' = [version |-> version, form |-> form, mtime |-> t]
    /\ UNCHANGED <<config, last_mtime, pc, loaded, stop_event, stopper, late, missed>>

(* The editor truncates the file and writes a new version, in two steps,   *)
(* or puts a finished file in its place in one, or removes it.             *)
BeginWrite ==
    /\ file.version < MaxWrites
    /\ file.form # "partial"
    /\ Written(file.version + 1, "partial")

FinishWrite ==
    /\ file.form = "partial"
    /\ \E form \in {"whole", "broken"} : Written(file.version, form)

Replace ==
    /\ file.version < MaxWrites
    /\ file.form # "partial"
    /\ \E form \in {"whole", "broken"} : Written(file.version + 1, form)

Delete ==
    /\ file.form \in {"whole", "broken"}
    /\ file' = [file EXCEPT !.form = "absent"]
    /\ UNCHANGED <<config, last_mtime, pc, loaded, stop_event, stopper, late, missed>>

Editor == BeginWrite \/ FinishWrite \/ Replace \/ Delete

-----------------------------------------------------------------------------
(* A plausible slip: a loop that never looks at the event.                 *)
WaitIgnoresStop ==
    /\ pc = "waiting"
    /\ pc' = "polling"
    /\ UNCHANGED <<file, config, last_mtime, loaded, stop_event, stopper, late, missed>>

(* wait(poll_interval) returned False: one more turn of the loop of _run,  *)
(* even if the event is set right now.                                     *)
WaitTimesOut ==
    /\ pc = "waiting"
    /\ ~stop_event
    /\ pc' = "polling"
    /\ UNCHANGED <<file, config, last_mtime, loaded, stop_event, stopper, late, missed>>

(* The mtime is not the one remembered: it is remembered before the        *)
(* callback runs.                                                          *)
PollChanged ==
    /\ pc = "polling"
    /\ GetMtime # last_mtime
    /\ last_mtime' = GetMtime
    /\ pc' = "loading"
    /\ missed' = FALSE
    /\ UNCHANGED <<file, config, loaded, stop_event, stopper, late>>

PollUnchanged ==
    /\ pc = "polling"
    /\ GetMtime = last_mtime
    /\ pc' = "waiting"
    /\ UNCHANGED <<file, config, last_mtime, loaded, stop_event, stopper, late, missed>>

(* wait() returned True: the loop, and the thread, end.                    *)
Quit ==
    /\ pc = "waiting"
    /\ stop_event
    /\ pc' = "dead"
    /\ UNCHANGED <<file, config, last_mtime, loaded, stop_event, stopper, late, missed>>

(* A plausible slip: the first configuration when the file does not load.  *)
LoadOrDefault ==
    /\ pc = "loading"
    /\ loaded' = IF file.form = "whole" THEN file.version ELSE 0
    /\ pc' = "updating"
    /\ UNCHANGED <<file, config, last_mtime, stop_event, stopper, late, missed>>

(* A plausible slip: a load that fails returns None (one more than any     *)
(* version) and does not raise.                                            *)
LoadReturnsNone ==
    /\ pc = "loading"
    /\ loaded' = IF file.form = "whole" THEN file.version ELSE MaxWrites + 1
    /\ pc' = "updating"
    /\ UNCHANGED <<file, config, last_mtime, stop_event, stopper, late, missed>>

(* The callback: load_config reads and parses what the file holds now,     *)
(* which may be newer than the mtime that was seen.                        *)
Load ==
    /\ pc = "loading"
    /\ file.form = "whole"
    /\ loaded' = file.version
    /\ pc' = "updating"
    /\ UNCHANGED <<file, config, last_mtime, stop_event, stopper, late, missed>>

(* A plausible slip: no except around the callback.                        *)
LoadFailureEndsThread ==
    /\ pc = "loading"
    /\ pc' = "dead"
    /\ missed' = (file.form = "whole")
    /\ UNCHANGED <<file, config, last_mtime, loaded, stop_event, stopper, late>>

(* load_config raised: no file, no JSON, a key missing, or an OSError that *)
(* has nothing to do with what is in the file.  It is logged, and nothing  *)
(* is tried again until the mtime changes.                                 *)
LoadFails ==
    /\ pc = "loading"
    /\ pc' = "waiting"
    /\ missed' = (file.form = "whole")
    /\ UNCHANGED <<file, config, last_mtime, loaded, stop_event, stopper, late>>

(* A plausible slip: the mtime is remembered once the callback is done.    *)
UpdateThenRemember ==
    /\ pc = "updating"
    /\ config' = loaded
    /\ last_mtime' = GetMtime
    /\ pc' = "waiting"
    /\ late' = IF stop_event THEN late + 1 ELSE late
    /\ UNCHANGED <<file, loaded, stop_event, stopper, missed>>

(* update_config(), under the class's lock.                                *)
UpdateConfig ==
    /\ pc = "updating"
    /\ config' = loaded
    /\ pc' = "waiting"
    /\ late' = IF stop_event THEN late + 1 ELSE late
    /\ UNCHANGED <<file, last_mtime, loaded, stop_event, stopper, missed>>

Watcher ==
    \/ WaitTimesOut \/ Quit \/ PollChanged \/ PollUnchanged
    \/ Load \/ LoadFails \/ UpdateConfig

-----------------------------------------------------------------------------
(* stop(): set the event ...                                               *)
Stop ==
    /\ stopper = "none"
    /\ stop_event' = TRUE
    /\ stopper' = "joining"
    /\ UNCHANGED <<file, config, last_mtime, pc, loaded, late, missed>>

(* ... and join, for two poll intervals at most: enough for a thread in    *)
(* wait(), not for one whose callback takes longer.                        *)
JoinReturns ==
    /\ stopper = "joining"
    /\ pc # "waiting"
    /\ stopper' = "returned"
    /\ UNCHANGED <<file, config, last_mtime, pc, loaded, stop_event, late, missed>>

Next == Editor \/ Watcher \/ Stop \/ JoinReturns

Spec == Init /\ [][Next]_vars

(* The watcher's thread runs, and join has a timeout; nobody has to edit   *)
(* the file or to stop the watcher.                                        *)
FairSpec == Spec /\ WF_vars(Watcher) /\ WF_vars(JoinReturns)

-----------------------------------------------------------------------------
(* The type of every variable.                                             *)
TypeOK ==
    /\ file \in [version : 0..MaxWrites, form : Form, mtime : Nat]
    /\ config \in 0..MaxWrites
    /\ last_mtime \in Nat
    /\ pc \in {"waiting", "polling", "loading", "updating", "dead"}
    /\ loaded \in 0..MaxWrites
    /\ stop_event \in BOOLEAN
    /\ stopper \in {"none", "joining", "returned"}
    /\ late \in Nat
    /\ missed \in BOOLEAN

(* No reload takes the proxy back to an older version, whatever failed to  *)
(* load in between.                                                        *)
NeverOlder == [][config' >= config]_vars

(* A watcher that sees nothing to do is right: while the mtime is the one  *)
(* it remembers and no reload is running, the proxy serves what the file   *)
(* holds, if that can be loaded at all and could be read the one time it   *)
(* was tried.  (Where mtimes are distinct.)                                *)
QuietMeansCurrent ==
    /\ pc \in {"waiting", "polling"}
    /\ ~missed
    /\ GetMtime = last_mtime
    /\ file.form = "whole"
    => config = file.version

(* At most one configuration, the one being loaded when stop() was called, *)
(* is still installed afterwards.                                          *)
AtMostOneLateUpdate == late <= 1

(* "changes are picked up automatically" (README.md): once the file stays  *)
(* as it is and can be loaded, the proxy serves it, unless the watcher was *)
(* stopped or could not read it the one time it tried.                     *)
PicksUpChanges ==
    <>[][FALSE]_file =>
        <>[](file.form = "whole" => config = file.version \/ missed \/ stop_event)

(* The watcher's thread ends after stop().                                 *)
StopEnds == stop_event ~> pc = "dead"
=============================================================================
