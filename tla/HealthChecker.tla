--------------------------- MODULE HealthChecker ----------------------------
(***************************************************************************)
(* HealthChecker of patchwork/health.py, called by several threads.        *)
(*                                                                         *)
(* The class has no lock.  check() takes the target's HealthStatus object  *)
(* (or makes one that nobody else knows), waits for the network, updates   *)
(* the object field by field and puts it back; meanwhile other checks of   *)
(* the target may hold the same object, or one that a reset() has thrown   *)
(* out.  Every read or write of a shared field is a step of its own here.  *)
(*                                                                         *)
(* Names are prefixed where this module is extended together with others.  *)
(***************************************************************************)
EXTENDS Naturals

CONSTANTS
    Checker,            \* threads that call check
    Target,             \* upstream targets
    HealthObject,       \* HealthStatus objects
    NoObject,           \* what _statuses.get gives for an unknown target
    failure_threshold   \* of HealthChecker.__init__

ASSUME HealthAssumption ==
    failure_threshold \in Nat \ {0} /\ NoObject \notin HealthObject

VARIABLES
    statuses,   \* _statuses: the object of each target
    heap,       \* the fields of the objects
    pc,         \* where in check() a thread is
    on,         \* its argument target ...
    held,       \* ... its local status ...
    seen,       \* ... and the failure count it has read and not written back
    failed,     \* history: failing checks of a target since it was last well
    alone       \* history: a check that has not failed, with no other beside it

healthVars == <<statuses, heap, pc, on, held, seen, failed, alone>>
history    == <<failed, alone>>

(* consecutive_failures stops at the threshold, which is all that is read  *)
(* of it; and so does failed.                                              *)
HealthStatus ==
    [healthy : BOOLEAN, consecutive_failures : 0..failure_threshold]

NewStatus == [healthy |-> TRUE, consecutive_failures |-> 0]

UpToThreshold(n) == IF n < failure_threshold THEN n ELSE failure_threshold

(* The interpreter drops an object nobody refers to.                       *)
Kept(h, s, l) ==
    [o \in HealthObject |->
        IF \/ \E t \in Target : s[t] = o
           \/ \E c \in Checker : l[c] = o
        THEN h[o] ELSE NewStatus]

Unused == {o \in HealthObject : /\ \A t \in Target : statuses[t] # o
                                /\ \A c \in Checker : held[c] # o}

(* The checks of t under way.                                              *)
Checking(t) == {c \in Checker : pc[c] # "idle" /\ on[c] = t}

-----------------------------------------------------------------------------
HealthInit ==
    /\ statuses = [t \in Target |-> NoObject]
    /\ heap = [o \in HealthObject |-> NewStatus]
    /\ pc = [c \in Checker |-> "idle"]
    /\ on \in {f \in [Checker -> Target] : \A c, d \in Checker : f[c] = f[d]}
    /\ held = [c \in Checker |-> NoObject]
    /\ seen = [c \in Checker |-> 0]
    /\ failed = [t \in Target |-> 0]
    /\ alone = [c \in Checker |-> FALSE]

(* A check of t begins: from now on none that is under way is alone.       *)
Begins(c, t) ==
    /\ pc' = [pc EXCEPT ![c] = "calling"]
    /\ on' = [on EXCEPT ![c] = t]
    /\ alone' = [d \in Checker |-> IF d = c THEN Checking(t) = {}
                                   ELSE alone[d] /\ d \notin Checking(t)]
    /\ UNCHANGED <<statuses, heap, seen, failed>>

(* A plausible slip: the default of _statuses.get is used even where there *)
(* is an entry.                                                            *)
FetchAlwaysNew(c, t) ==
    /\ pc[c] = "idle"
    /\ Unused # {}
    /\ held' = [held EXCEPT ![c] = CHOOSE o \in Unused : TRUE]
    /\ Begins(c, t)

(* status = self._statuses.get(target, HealthStatus(target)); then the     *)
(* call goes out.                                                          *)
Fetch(c, t) ==
    /\ pc[c] = "idle"
    /\ Unused # {}
    /\ held' = [held EXCEPT ![c] = IF statuses[t] # NoObject THEN statuses[t]
                                   ELSE CHOOSE o \in Unused : TRUE]
    /\ Begins(c, t)

(* urlopen returns a status below 500 ...                                  *)
Responds(c) ==
    /\ pc[c] = "calling"
    /\ pc' = [pc EXCEPT ![c] = "recover"]
    /\ UNCHANGED <<statuses, heap, on, held, seen, history>>

(* ... or it raises: refused, timed out, or an HTTPError, which urlopen    *)
(* makes of every status from 400 on.                                      *)
Fails(c) ==
    /\ pc[c] = "calling"
    /\ pc' = [pc EXCEPT ![c] = "count"]
    /\ alone' = [alone EXCEPT ![c] = FALSE]
    /\ UNCHANGED <<statuses, heap, on, held, seen, failed>>

(* A plausible slip: the failures are forgotten, the verdict is not.       *)
RecoverCountOnly(c) ==
    /\ pc[c] = "recover"
    /\ pc' = [pc EXCEPT ![c] = "clear"]
    /\ UNCHANGED <<statuses, heap, on, held, seen, history>>

(* status.healthy = True                                                   *)
Recover(c) ==
    /\ pc[c] = "recover"
    /\ heap' = [heap EXCEPT ![held[c]].healthy = TRUE]
    /\ pc' = [pc EXCEPT ![c] = "clear"]
    /\ UNCHANGED <<statuses, on, held, seen, history>>

(* A plausible slip: the verdict is forgotten, the failures are not.       *)
ClearNothing(c) ==
    /\ pc[c] = "clear"
    /\ pc' = [pc EXCEPT ![c] = "store"]
    /\ UNCHANGED <<statuses, heap, on, held, seen, history>>

(* status.consecutive_failures = 0                                         *)
ClearFailures(c) ==
    /\ pc[c] = "clear"
    /\ heap' = [heap EXCEPT ![held[c]].consecutive_failures = 0]
    /\ pc' = [pc EXCEPT ![c] = "store"]
    /\ UNCHANGED <<statuses, on, held, seen, history>>

(* status.consecutive_failures += 1, the read and the write.               *)
ReadFailures(c) ==
    /\ pc[c] = "count"
    /\ seen' = [seen EXCEPT ![c] = heap[held[c]].consecutive_failures]
    /\ pc' = [pc EXCEPT ![c] = "counted"]
    /\ UNCHANGED <<statuses, heap, on, held, history>>

WriteFailures(c) ==
    /\ pc[c] = "counted"
    /\ heap' = [heap EXCEPT
                  ![held[c]].consecutive_failures = UpToThreshold(seen[c] + 1)]
    /\ seen' = [seen EXCEPT ![c] = 0]
    /\ failed' = [failed EXCEPT ![on[c]] = UpToThreshold(@ + 1)]
    /\ pc' = [pc EXCEPT ![c] = "compare"]
    /\ UNCHANGED <<statuses, on, held, alone>>

(* if status.consecutive_failures >= self.failure_threshold                *)
Compare(c) ==
    /\ pc[c] = "compare"
    /\ pc' = [pc EXCEPT ![c] =
                IF heap[held[c]].consecutive_failures >= failure_threshold
                THEN "condemn" ELSE "store"]
    /\ UNCHANGED <<statuses, heap, on, held, seen, history>>

(* status.healthy = False                                                  *)
Condemn(c) ==
    /\ pc[c] = "condemn"
    /\ heap' = [heap EXCEPT ![held[c]].healthy = FALSE]
    /\ pc' = [pc EXCEPT ![c] = "store"]
    /\ UNCHANGED <<statuses, on, held, seen, history>>

(* self._statuses[target] = status, and the return.                        *)
Store(c) ==
    /\ pc[c] = "store"
    /\ statuses' = [statuses EXCEPT ![on[c]] = held[c]]
    /\ held' = [held EXCEPT ![c] = NoObject]
    /\ heap' = Kept(heap, statuses', held')
    /\ pc' = [pc EXCEPT ![c] = "idle"]
    /\ failed' = [failed EXCEPT ![on[c]] = IF alone[c] THEN 0 ELSE @]
    /\ alone' = [alone EXCEPT ![c] = FALSE]
    /\ UNCHANGED <<on, seen>>

(* reset(): a new object in the place of the old one, which checks under   *)
(* way still hold.                                                         *)
ResetHealth(t) ==
    /\ statuses[t] # NoObject
    /\ Unused # {}
    /\ statuses' = [statuses EXCEPT ![t] = CHOOSE o \in Unused : TRUE]
    /\ heap' = Kept(heap, statuses', held)
    /\ failed' = [failed EXCEPT ![t] = IF Checking(t) = {} THEN 0 ELSE @]
    /\ UNCHANGED <<pc, on, held, seen, alone>>

CheckStep(c) ==
    \/ Responds(c) \/ Fails(c)
    \/ Recover(c) \/ ClearFailures(c)
    \/ ReadFailures(c) \/ WriteFailures(c) \/ Compare(c) \/ Condemn(c)
    \/ Store(c)

HealthNext ==
    \/ \E t \in Target : ResetHealth(t) \/ \E c \in Checker : Fetch(c, t)
    \/ \E c \in Checker : CheckStep(c)

HealthSpec == HealthInit /\ [][HealthNext]_healthVars

(* A check that was begun ends: urlopen has a timeout.  Nobody owes checks *)
(* or resets.                                                              *)
HealthFairness == \A c \in Checker : WF_healthVars(CheckStep(c))

-----------------------------------------------------------------------------
(* is_healthy()                                                            *)
IsHealthy(t) == statuses[t] = NoObject \/ heap[statuses[t]].healthy

(* The type of every variable, and which thread holds an object.           *)
HealthTypeOK ==
    /\ statuses \in [Target -> HealthObject \union {NoObject}]
    /\ heap \in [HealthObject -> HealthStatus]
    /\ pc \in [Checker -> {"idle", "calling", "recover", "clear", "count",
                           "counted", "compare", "condemn", "store"}]
    /\ on \in [Checker -> Target]
    /\ held \in [Checker -> HealthObject \union {NoObject}]
    /\ seen \in [Checker -> 0..failure_threshold]
    /\ failed \in [Target -> 0..failure_threshold]
    /\ alone \in [Checker -> BOOLEAN]
    /\ \A c \in Checker : held[c] = NoObject <=> pc[c] = "idle"

(* However checks overlap, each other and resets, with updates lost and    *)
(* objects replaced, a target is reported unhealthy only after a           *)
(* threshold's worth of failing checks of it since it was last well: since *)
(* the last successful check that no other check of it overlapped, or the  *)
(* last reset with no check of it under way.  A check that is under way    *)
(* during a reset puts the old object back, with the verdict in it.        *)
UnhealthyIsEarned ==
    \A t \in Target : ~IsHealthy(t) => failed[t] >= failure_threshold

Checked(t) == []<><<\E c \in Checker : Fetch(c, t)>>_healthVars

(* A target that has gone down for good is reported unhealthy, and stays   *)
(* so, if checks of it go on and nobody resets it: no interleaving keeps   *)
(* its count from growing, not even two first checks with an object each.  *)
OutageNoticed ==
    \A t \in Target :
        /\ <>[][/\ \A c \in Checker : on[c] = t => ~Responds(c)
                /\ ~ResetHealth(t)]_healthVars
        /\ Checked(t)
        => <>[]~IsHealthy(t)

(* A target that answers again is reported healthy, and stays so, if       *)
(* checks of it go on: late failing checks do not condemn it for good.     *)
RecoveryNoticed ==
    \A t \in Target :
        /\ <>[][\A c \in Checker : on[c] = t => ~Fails(c)]_healthVars
        /\ Checked(t)
        => <>[]IsHealthy(t)
=============================================================================
