----------------------------- MODULE Middleware -----------------------------
(***************************************************************************)
(* One registered device behind the middleware: mhs.write and               *)
(* mhs.emergency_stop (open_mhs/server/routers/rpc.py), the dead-man timers *)
(* (open_mhs/server/watchdog.py) and the record they share                  *)
(* (open_mhs/server/registry.py), over the driver of module Device.         *)
(*                                                                          *)
(* Requests and expired timers are coroutines of one event loop.  Nothing   *)
(* locks a device, so they interleave at every await of the driver.         *)
(***************************************************************************)
EXTENDS Device

CONSTANTS
    Requests,       \* coroutines that serve JSON-RPC requests
    Expiries,       \* coroutines of timers that have gone off
    MayReregister   \* the device may announce itself again

ASSUME TasksAssumption ==
    Tasks = Requests \cup Expiries /\ Requests \cap Expiries = {}

ASSUME ReregisterAssumption == MayReregister \in BOOLEAN

ASSUME NoTimerAssumption == None \notin [left : Nat, registered : BOOLEAN]

VARIABLES
    lastWrite,  \* last_write of the registered record: [value, age], or None
    timer       \* Watchdog._tasks: target -> [left, registered], or None

vars == <<pos, drvLast, task, loop, lastWrite, timer>>

Init ==
    /\ DeviceInit
    /\ lastWrite = [t \in Targets |-> None]
    /\ timer = [t \in Targets |-> None]

NoTimers == [t \in Targets |-> None]

(* A task keeps the record it began with.  Once the device has announced    *)
(* itself again that record is no longer the registered one, and what is    *)
(* written into it is lost.                                                 *)
Remember(rec, t, value) ==
    lastWrite' = IF rec.registered
                 THEN [lastWrite EXCEPT ![t] = [value |-> value, age |-> 0]]
                 ELSE lastWrite

ForgetAll(rec) ==
    lastWrite' = IF rec.registered THEN [t \in Targets |-> None] ELSE lastWrite

(* Mutant of Arm: the old timer is cancelled after the new one took its     *)
(* place in the table.                                                      *)
ArmThenCancel(rec, t, value) ==
    timer' = [timer EXCEPT ![t] =
        IF @ # None \/ Limit[t].max_duration = None \/ value = Actuator[t].default
        THEN None
        ELSE [left |-> Limit[t].max_duration, registered |-> rec.registered]]

(* Watchdog.arm: restart the timer; none for the default value.             *)
Arm(rec, t, value) ==
    timer' = [timer EXCEPT ![t] =
        IF Limit[t].max_duration = None \/ value = Actuator[t].default
        THEN None
        ELSE [left |-> Limit[t].max_duration, registered |-> rec.registered]]

Finish(p) == task' = [task EXCEPT ![p] = Idle] /\ Suspend

-----------------------------------------------------------------------------
(* mhs.write, enforcement point 1.                                          *)

(* The request arrives: the confirmation gate, then the rate context, read  *)
(* before the channels of a conditional limit are awaited.  A request the   *)
(* gate refuses leaves no trace and is not followed further.                *)
Submit(p, t, value, confirm) ==
    LET rec == [Idle EXCEPT !.kind = "write", !.target = t, !.asked = value,
                            !.confirm = confirm, !.registered = TRUE]
    IN  /\ AtAwait
        /\ task[p] = Idle
        /\ Confirmed(t, confirm)
        /\ task' = [task EXCEPT ![p] = StartCheck(rec, "evaluate", lastWrite[t])]
        /\ SuspendIf(p, ConditionTargets(Limit[t]) # {})
        /\ UNCHANGED <<pos, drvLast, lastWrite, timer>>

ReadyToEvaluate(p) ==
    CanRun(p) /\ task[p].pc = "evaluate" /\ task[p].todo = {}

(* The value passes: the driver is called with the decision's value.        *)
EvaluatePasses(p) ==
    LET d == Evaluated(p, task[p].asked)
        rec == CallWrite(task[p], d.value)
    IN  /\ ReadyToEvaluate(p)
        /\ Passes(d)
        /\ task' = [task EXCEPT ![p] = rec]
        /\ SuspendIf(p, CallWaits(rec))
        /\ UNCHANGED <<pos, drvLast, lastWrite, timer>>

(* Audited as write.refused.                                                *)
EvaluateRefuses(p) ==
    /\ ReadyToEvaluate(p)
    /\ Evaluated(p, task[p].asked).verdict \in {"refuse", "invalid"}
    /\ Finish(p)
    /\ UNCHANGED <<pos, drvLast, lastWrite, timer>>

(* An estop limit: the stop runs before the refusal is answered.            *)
EvaluateStops(p) ==
    LET rec == CallStop(task[p], FALSE)
    IN  /\ ReadyToEvaluate(p)
        /\ Evaluated(p, task[p].asked).verdict = "estop"
        /\ task' = [task EXCEPT ![p] = rec]
        /\ SuspendIf(p, StopWaits(rec))
        /\ UNCHANGED <<pos, drvLast, lastWrite, timer>>

(* The driver's write succeeded: write.accepted or write.clamped.           *)
WriteReturns(p) ==
    LET rec == task[p]
    IN  /\ Returned(p) /\ rec.kind = "write" /\ rec.result = "ok"
        /\ Remember(rec, rec.target, rec.want)
        /\ Arm(rec, rec.target, rec.want)
        /\ Finish(p)
        /\ UNCHANGED <<pos, drvLast>>

(* write.desync or write.failed: neither the history nor the timer moves.   *)
WriteRaises(p) ==
    /\ Returned(p) /\ task[p].kind = "write"
    /\ task[p].result \in {"desync", "raised"}
    /\ Finish(p)
    /\ UNCHANGED <<pos, drvLast, lastWrite, timer>>

-----------------------------------------------------------------------------
(* mhs.emergency_stop, and the stop an estop limit asked for.               *)

EmergencyStop(p) ==
    LET rec == CallStop([Idle EXCEPT !.kind = "stop", !.registered = TRUE], FALSE)
    IN  /\ AtAwait
        /\ task[p] = Idle
        /\ task' = [task EXCEPT ![p] = rec]
        /\ SuspendIf(p, StopWaits(rec))
        /\ UNCHANGED <<pos, drvLast, lastWrite, timer>>

(* The history is cleared and every timer of the device id is cancelled,    *)
(* whichever record armed it.  Timers that have gone off run on.            *)
StopReturns(p) ==
    /\ Returned(p) /\ task[p].kind \in {"write", "stop"}
    /\ task[p].result = "stopped"
    /\ ForgetAll(task[p])
    /\ timer' = NoTimers
    /\ Finish(p)
    /\ UNCHANGED <<pos, drvLast>>

StopRaises(p) ==
    /\ Returned(p) /\ task[p].kind \in {"write", "stop"}
    /\ task[p].result = "unstopped"
    /\ Finish(p)
    /\ UNCHANGED <<pos, drvLast, lastWrite, timer>>

-----------------------------------------------------------------------------
(* Watchdog._expire.                                                        *)

(* The sleep is over: the timer leaves the table, where a cancel could find *)
(* it, and the default is written; without one the device is stopped.       *)
Expire(p, t) ==
    LET rec == [Idle EXCEPT !.kind = "expiry", !.target = t, !.confirm = TRUE,
                            !.registered = timer[t].registered]
        call == IF Actuator[t].default # None
                THEN CallWrite(rec, Actuator[t].default)
                ELSE CallStop(rec, FALSE)
    IN  /\ AtAwait
        /\ task[p] = Idle
        /\ timer[t] # None
        /\ timer[t].left = 0
        /\ timer' = [timer EXCEPT ![t] = None]
        /\ task' = [task EXCEPT ![p] = call]
        /\ SuspendIf(p, CallWaits(call) \/ StopWaits(call))
        /\ UNCHANGED <<pos, drvLast, lastWrite>>

(* Mutant of ExpiryReturns: the return to the default is not remembered.    *)
ExpiryReturnsUnrecorded(p) ==
    /\ Returned(p) /\ task[p].kind = "expiry" /\ task[p].result = "ok"
    /\ Finish(p)
    /\ UNCHANGED <<pos, drvLast, lastWrite, timer>>

ExpiryReturns(p) ==
    LET rec == task[p]
    IN  /\ Returned(p) /\ rec.kind = "expiry" /\ rec.result = "ok"
        /\ Remember(rec, rec.target, Actuator[rec.target].default)
        /\ Finish(p)
        /\ UNCHANGED <<pos, drvLast, timer>>

(* Mutant of ExpiryFallsBack: the failure is logged and that is all.        *)
ExpiryFallsSilent(p) ==
    /\ Returned(p) /\ task[p].kind = "expiry"
    /\ task[p].result \in {"desync", "raised"}
    /\ Finish(p)
    /\ UNCHANGED <<pos, drvLast, lastWrite, timer>>

(* Mutant of ExpiryFallsBack: the default is written again.                 *)
ExpiryTriesAgain(p) ==
    LET rec == CallWrite(task[p], Actuator[task[p].target].default)
    IN  /\ Returned(p) /\ task[p].kind = "expiry"
        /\ task[p].result \in {"desync", "raised"}
        /\ task' = [task EXCEPT ![p] = rec]
        /\ SuspendIf(p, CallWaits(rec))
        /\ UNCHANGED <<pos, drvLast, lastWrite, timer>>

(* The default was refused, failed or did not verify: stop instead.         *)
ExpiryFallsBack(p) ==
    LET rec == CallStop(task[p], FALSE)
    IN  /\ Returned(p) /\ task[p].kind = "expiry"
        /\ task[p].result \in {"desync", "raised"}
        /\ task' = [task EXCEPT ![p] = rec]
        /\ SuspendIf(p, StopWaits(rec))
        /\ UNCHANGED <<pos, drvLast, lastWrite, timer>>

(* The fallback stop clears the history but cancels no timer.               *)
ExpiryStops(p) ==
    /\ Returned(p) /\ task[p].kind = "expiry" /\ task[p].result = "stopped"
    /\ ForgetAll(task[p])
    /\ Finish(p)
    /\ UNCHANGED <<pos, drvLast, timer>>

ExpiryGivesUp(p) ==
    /\ Returned(p) /\ task[p].kind = "expiry" /\ task[p].result = "unstopped"
    /\ Finish(p)
    /\ UNCHANGED <<pos, drvLast, lastWrite, timer>>

-----------------------------------------------------------------------------
(* Registry.register of a device that is already there: a new record with   *)
(* the old driver and an empty history.  Timers and tasks are not told.     *)
Reregister ==
    /\ MayReregister
    /\ AtAwait
    /\ lastWrite' = [t \in Targets |-> None]
    /\ task' = [p \in Tasks |-> [task[p] EXCEPT !.registered = FALSE]]
    /\ timer' = [t \in Targets |->
          IF timer[t] = None THEN None ELSE [timer[t] EXCEPT !.registered = FALSE]]
    /\ UNCHANGED <<pos, drvLast, loop>>

(* Time passes: sleeping timers run down, remembered writes grow older.     *)
Tick ==
    /\ AtAwait
    /\ lastWrite' = [t \in Targets |-> Older(lastWrite[t])]
    /\ drvLast' = [t \in Targets |-> Older(drvLast[t])]
    /\ timer' = [t \in Targets |->
          IF timer[t] = None THEN None
          ELSE [timer[t] EXCEPT !.left = IF @ > 0 THEN @ - 1 ELSE 0]]
    /\ UNCHANGED <<pos, task, loop>>

CallerStep(p) ==
    \/ EvaluatePasses(p)
    \/ EvaluateRefuses(p)
    \/ EvaluateStops(p)
    \/ WriteReturns(p)
    \/ WriteRaises(p)
    \/ StopReturns(p)
    \/ StopRaises(p)
    \/ ExpiryReturns(p)
    \/ ExpiryFallsBack(p)
    \/ ExpiryStops(p)
    \/ ExpiryGivesUp(p)

TaskStep(p) ==
    \/ DriverStep(p) /\ UNCHANGED <<lastWrite, timer>>
    \/ CallerStep(p)

(* confirm is only told apart where the tag asks for it.                    *)
Confirms(t) == IF Actuator[t].requires_confirmation THEN BOOLEAN ELSE {FALSE}

Next ==
    \/ \E p \in Requests, t \in Targets, v \in Values :
          \E confirm \in Confirms(t) : Submit(p, t, v, confirm)
    \/ \E p \in Requests : EmergencyStop(p)
    \/ \E p \in Expiries, t \in Targets : Expire(p, t)
    \/ \E p \in Tasks : TaskStep(p)
    \/ Reregister
    \/ Tick

Spec == Init /\ [][Next]_vars

(* The event loop runs ready callbacks in order, every await of a transport *)
(* is bounded by its timeout, and time passes.                              *)
Fairness ==
    /\ \A p \in Tasks : SF_vars(TaskStep(p))
    /\ \A t \in Targets : SF_vars(\E p \in Expiries : Expire(p, t))
    /\ SF_vars(Tick)

FairSpec == Spec /\ Fairness

-----------------------------------------------------------------------------
(* Properties.                                                              *)

Kinds == {"none", "write", "stop", "expiry"}

PCs == {"idle", "evaluate", "check", "transmit", "acked", "verify", "stopping",
        "returned"}

Write == [value : Int, age : Nat]

TypeOK ==
    /\ \A t \in Targets :
          /\ lastWrite[t] = None \/ lastWrite[t] \in Write
          /\ drvLast[t] = None \/ drvLast[t] \in Write
          /\ timer[t] = None \/ timer[t] \in [left : Nat, registered : BOOLEAN]
    /\ \A p \in Tasks :
          /\ task[p].kind \in Kinds
          /\ task[p].pc \in PCs
          /\ task[p].target \in Targets \cup {None}
          /\ task[p].result \in Outcomes \cup {None}
    /\ loop \in Tasks \cup {None}

(* However requests, timers, stops and faults interleave, an actuator only  *)
(* ever stands inside its base bound or at its declared safe value          *)
(* (base.py:150-226, 228-257).                                              *)
EnvelopeAtHardware ==
    \A t \in Targets :
        \/ InBounds(Limit[t], pos[t])
        \/ t \in DOMAIN Safe /\ pos[t] = Safe[t]

(* What the middleware reports of a successful driver call, to the caller   *)
(* and to the audit log (rpc.py:244-280, watchdog.py:74-76), is the value   *)
(* the driver really sent.                                                  *)
ReportedIsSent ==
    \A p \in Tasks :
        task[p].pc = "returned" /\ task[p].result = "ok"
            => task[p].sent = task[p].want

Timed(t) == Limit[t].max_duration # None

Held(t) == lastWrite[t] # None /\ lastWrite[t].value # Actuator[t].default

Expiring(t) ==
    \E p \in Tasks : task[p].kind = "expiry" /\ task[p].target = t

Guarded(t) == timer[t] # None \/ Expiring(t)

(* A target the middleware remembers as held away from its default is under *)
(* a dead-man timer, or its timer has gone off and is being carried out     *)
(* (rpc.py:244-245, watchdog.py:35-96).                                     *)
HeldIsTimed ==
    \A t \in Targets : Timed(t) /\ Held(t) => Guarded(t)

Home(t) ==
    \/ pos[t] = Actuator[t].default
    \/ t \in DOMAIN Safe /\ pos[t] = Safe[t]

WriteInFlight(t) ==
    \E p \in Tasks : task[p].kind = "write" /\ task[p].target = t

(* The same promise of the hardware itself: an actuator that stands away    *)
(* from its default and its safe value is under a timer, unless a write to  *)
(* it is still in flight (docs/capability-tags.md:218).                     *)
AwayIsTimed ==
    \A t \in Targets :
        Timed(t) /\ ~Home(t) => Guarded(t) \/ WriteInFlight(t)

(* Once an emergency stop that was asked for, by a caller or by an estop    *)
(* limit, has run, no timer of the device is left to run and none that has  *)
(* gone off will still write (README.md:655, tests/test_watchdog.py:119).   *)
StopSilencesTimers ==
    [][\A p \in Tasks :
          /\ task[p].kind \in {"write", "stop"} /\ task[p].result = "stopped"
          /\ task'[p] = Idle
          => /\ timer' = NoTimers
             /\ \A q \in Tasks :
                   task'[q].kind = "expiry" => task'[q].pc \notin {"check", "transmit"}]_vars

(* A confirmation-gated actuator moves only under a write a person          *)
(* confirmed, its own expired timer or an emergency stop (rpc.py:147-156,   *)
(* base.py:169-173, watchdog.py:72-74).                                     *)
GatedMovesConfirmed ==
    [][\A t \in Targets :
          Actuator[t].requires_confirmation /\ pos'[t] # pos[t]
          => \E p \in Tasks :
                \/ task[p].pc = "stopping"
                \/ task[p].pc = "transmit" /\ task[p].target = t
                   /\ (task[p].kind = "expiry" \/ task[p].confirm)]_vars

(* An actuator left away from home comes home unless somebody goes on       *)
(* writing it (docs/capability-tags.md:218-222).                            *)
AwayComesHome ==
    \A t \in Targets : Timed(t) /\ ~Home(t) ~> Home(t) \/ WriteInFlight(t)

(* Every request is answered and every expired timer is carried out,        *)
(* whatever the link does: no coroutine waits for ever.                     *)
EveryCallReturns ==
    \A p \in Tasks : task[p].pc # "idle" ~> task[p].pc = "idle"
=============================================================================
