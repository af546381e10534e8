------------------------------- MODULE Device -------------------------------
(***************************************************************************)
(* BaseDevice (open_mhs/drivers/base.py) as the coroutines of one event     *)
(* loop see it: `write` and `emergency_stop` in pieces, each ending at an   *)
(* await, and the link's side of every await.                               *)
(*                                                                          *)
(* A task is a coroutine.  `loop` is the task that holds the event loop: a  *)
(* task that reaches an await releases it, one that goes on without keeps   *)
(* it, and the link answers while nobody holds it.  A call of the driver    *)
(* ends with pc = "returned" and its result; the caller takes over there.   *)
(***************************************************************************)
EXTENDS SafetyLimits

CONSTANTS
    Tasks,      \* coroutines that may be in flight
    Targets,    \* the device's actuators
    Actuator,   \* target -> [datatype, write_mode, default,
                \*            requires_confirmation, feedback]
    Limit,      \* target -> its safety limit, with max_duration
    Safe,       \* emergency_stop.safe_state: target -> value
    SafeOrder,  \* the order in which the safe state is driven
    Supported,  \* emergency_stop.supported
    PowerOn,    \* where each actuator stands when the middleware starts
    Values,     \* the values a caller may ask for
    Polls,      \* how often `_verify` reads again
    MaxAge,     \* bound: the age at which a remembered write stops ageing
    Faults      \* what may go wrong on the link

FaultKind == {"read", "transmit", "ack", "stuck"}

(* The base bound of a limit.                                               *)
InBounds(limit, value) ==
    IF limit.allowed = None
    THEN value \in Int /\ limit.min <= value /\ value <= limit.max
    ELSE value \in limit.allowed

ASSUME TagAssumption ==
    /\ None \notin Tasks
    /\ Supported \in BOOLEAN
    /\ \A t \in Targets :
          /\ Ingested(Actuator[t], Limit[t], Supported)
          /\ Actuator[t].default \in Int \cup {None}
          /\ Limit[t].allowed # None => Limit[t].allowed \subseteq Int
          /\ Limit[t].max_duration # None => Limit[t].max_duration \in Nat \ {0}
    /\ DOMAIN PowerOn = Targets
    /\ \A t \in Targets : InBounds(Limit[t], PowerOn[t])
    /\ DOMAIN Safe \subseteq Targets
    /\ SafeOrder \in Seq(DOMAIN Safe)
    /\ \A t \in DOMAIN Safe : \E i \in DOMAIN SafeOrder : SafeOrder[i] = t

(* How a call of the driver ends.                                           *)
Outcomes == {"ok", "desync", "raised", "stopped", "unstopped"}

ASSUME OutcomesAssumption == None \notin Outcomes

ASSUME ValuesAssumption == Values \subseteq Int

ASSUME DeviceBounds ==
    Polls \in Nat /\ MaxAge \in Nat /\ Faults \subseteq FaultKind

VARIABLES
    pos,        \* where each actuator is, and what reading it returns
    drvLast,    \* BaseDevice._last_write: target -> [value, age], or None
    task,       \* the coroutines
    loop        \* the task that holds the event loop, or None

NoReadings == [c \in {} |-> None]

NoContext == [current |-> None, elapsed |-> None]

Idle == [kind |-> "none", pc |-> "idle", target |-> None, confirm |-> FALSE,
         registered |-> FALSE, asked |-> None, ctx |-> NoContext,
         todo |-> {}, seen |-> NoReadings, want |-> None, sent |-> None,
         polls |-> 0, queue |-> << >>, raising |-> FALSE, result |-> None]

DeviceInit ==
    /\ pos = PowerOn
    /\ drvLast = [t \in Targets |-> None]
    /\ task = [p \in Tasks |-> Idle]
    /\ loop = None

-----------------------------------------------------------------------------
(* The event loop.                                                          *)

CanRun(p) == loop \in {None, p}

AtAwait == loop = None

Suspend == loop' = None

KeepLoop(p) == loop' = p

(* A step that awaits only when there is something to wait for.             *)
SuspendIf(p, waits) == loop' = IF waits THEN None ELSE p

Returned(p) == task[p].pc = "returned" /\ CanRun(p)

-----------------------------------------------------------------------------
(* What both enforcement points do before a bound is applied.               *)

(* `_rate_context`: the remembered write and its age, else the default.     *)
Context(write, t) ==
    IF write = None THEN [current |-> Actuator[t].default, elapsed |-> None]
                    ELSE [current |-> write.value, elapsed |-> write.age]

(* Mutant of Confirmed: the gate is parsed and ignored.                     *)
ConfirmedIgnored(t, confirm) == TRUE

(* requires_confirmation: a person has approved this write.                 *)
Confirmed(t, confirm) == Actuator[t].requires_confirmation => confirm

(* A task about to read the channels its limit's conditions name.           *)
StartCheck(rec, pc, write) ==
    [rec EXCEPT !.pc = pc, !.ctx = Context(write, rec.target),
                !.todo = ConditionTargets(Limit[rec.target]), !.seen = NoReadings]

Reading(c) == [kind |-> KindOf(Actuator[c].datatype), of |-> pos[c]]

(* `_condition_state`, one channel: an unreadable one is left out.          *)
ReadCondition(p, c) ==
    /\ AtAwait
    /\ task[p].pc \in {"evaluate", "check"}
    /\ c \in task[p].todo
    /\ \/ task' = [task EXCEPT ![p].todo = @ \ {c},
              ![p].seen = [x \in DOMAIN @ \cup {c} |->
                              IF x = c THEN Reading(c) ELSE @[x]]]
       \/ "read" \in Faults /\ task' = [task EXCEPT ![p].todo = @ \ {c}]
    /\ UNCHANGED <<pos, drvLast, loop>>

Evaluated(p, value) ==
    CheckScalar(Actuator[task[p].target], Limit[task[p].target], value,
                task[p].ctx.current, task[p].ctx.elapsed, task[p].seen)

-----------------------------------------------------------------------------
(* BaseDevice.write.                                                        *)

Return(rec, result) == [rec EXCEPT !.pc = "returned", !.result = result]

(* The call, up to its first await: the gate and the rate context.          *)
CallWrite(rec, value) ==
    IF Confirmed(rec.target, rec.confirm)
    THEN StartCheck([rec EXCEPT !.want = value], "check", drvLast[rec.target])
    ELSE Return([rec EXCEPT !.want = value], "raised")

CallWaits(rec) == rec.pc = "check" /\ rec.todo # {}

(* emergency_stop, up to its first await.  raising: write stops the device  *)
(* by itself and raises afterwards.                                         *)
CallStop(rec, raising) ==
    IF Supported
    THEN [rec EXCEPT !.pc = "stopping", !.queue = SafeOrder, !.raising = raising,
                     !.result = None]
    ELSE Return(rec, IF raising THEN "raised" ELSE "unstopped")

StopWaits(rec) == rec.pc = "stopping" /\ rec.queue # << >>

ReadyToCheck(p) == CanRun(p) /\ task[p].pc = "check" /\ task[p].todo = {}

(* Enforcement point 2 lets the value through: it is sent, and awaited.     *)
CheckPasses(p) ==
    LET d == Evaluated(p, task[p].want)
    IN  /\ ReadyToCheck(p)
        /\ Passes(d)
        /\ task' = [task EXCEPT ![p].pc = "transmit", ![p].sent = d.value]
        /\ Suspend
        /\ UNCHANGED <<pos, drvLast>>

CheckRefuses(p) ==
    /\ ReadyToCheck(p)
    /\ Evaluated(p, task[p].want).verdict \in {"refuse", "invalid"}
    /\ task' = [task EXCEPT ![p] = Return(@, "raised")]
    /\ KeepLoop(p)
    /\ UNCHANGED <<pos, drvLast>>

CheckStops(p) ==
    LET rec == CallStop(task[p], TRUE)
    IN  /\ ReadyToCheck(p)
        /\ Evaluated(p, task[p].want).verdict = "estop"
        /\ task' = [task EXCEPT ![p] = rec]
        /\ SuspendIf(p, StopWaits(rec))
        /\ UNCHANGED <<pos, drvLast>>

Moved(t, value) == pos' = [pos EXCEPT ![t] = value]

(* The device takes a command: it moves, or is stuck ("stuck"), or moves    *)
(* and the acknowledgement is lost ("ack"), or never hears it ("transmit"). *)
Takes(t, value) ==
    Moved(t, value) \/ ("stuck" \in Faults /\ UNCHANGED pos)

Misses(t, value) ==
    \/ "transmit" \in Faults /\ UNCHANGED pos
    \/ "ack" \in Faults /\ Moved(t, value)

Transmit(p) ==
    /\ AtAwait
    /\ task[p].pc = "transmit"
    /\ \/ /\ Takes(task[p].target, task[p].sent)
          /\ task' = [task EXCEPT ![p].pc = "acked"]
       \/ /\ Misses(task[p].target, task[p].sent)
          /\ task' = [task EXCEPT ![p] = Return(@, "raised")]
    /\ UNCHANGED <<drvLast, loop>>

(* The transmit returns: the write is remembered and verification begins.   *)
Acked(p) ==
    LET t == task[p].target
    IN  /\ CanRun(p)
        /\ task[p].pc = "acked"
        /\ drvLast' = [drvLast EXCEPT ![t] = [value |-> task[p].sent, age |-> 0]]
        /\ task' = [task EXCEPT ![p] =
              IF Actuator[t].feedback
              THEN [@ EXCEPT !.pc = "verify", !.polls = Polls]
              ELSE Return(@, "ok")]
        /\ SuspendIf(p, Actuator[t].feedback)
        /\ UNCHANGED pos

(* `_verify`, one reading of the feedback sensor.                           *)
VerifyRead(p) ==
    LET settled == pos[task[p].target] = task[p].sent
    IN  /\ AtAwait
        /\ task[p].pc = "verify"
        /\ \/ settled /\ task' = [task EXCEPT ![p] = Return(@, "ok")]
           \/ /\ ~settled /\ task[p].polls > 0
              /\ task' = [task EXCEPT ![p].polls = @ - 1]
           \/ /\ ~settled /\ task[p].polls = 0
              /\ task' = [task EXCEPT ![p] = Return(@, "desync")]
           \/ "read" \in Faults /\ task' = [task EXCEPT ![p] = Return(@, "raised")]
        /\ UNCHANGED <<pos, drvLast, loop>>

-----------------------------------------------------------------------------
(* BaseDevice.emergency_stop.                                               *)

(* Mutant of StopTransmit: a link that fails is tried again.                *)
StopTransmitRetried(p) ==
    LET t == Head(task[p].queue)
    IN  /\ AtAwait
        /\ StopWaits(task[p])
        /\ \/ /\ Takes(t, Safe[t])
              /\ task' = [task EXCEPT ![p].queue = Tail(@)]
           \/ Misses(t, Safe[t]) /\ UNCHANGED task
        /\ UNCHANGED <<drvLast, loop>>

(* One target of the safe state; a link that fails ends the stop there.     *)
StopTransmit(p) ==
    LET t == Head(task[p].queue)
        failed == IF task[p].raising THEN "raised" ELSE "unstopped"
    IN  /\ AtAwait
        /\ StopWaits(task[p])
        /\ \/ /\ Takes(t, Safe[t])
              /\ task' = [task EXCEPT ![p].queue = Tail(@)]
           \/ /\ Misses(t, Safe[t])
              /\ task' = [task EXCEPT ![p] = Return(@, failed)]
        /\ UNCHANGED <<drvLast, loop>>

StopDone(p) ==
    /\ CanRun(p)
    /\ task[p].pc = "stopping" /\ task[p].queue = << >>
    /\ drvLast' = [t \in Targets |-> None]
    /\ task' = [task EXCEPT ![p] =
          Return(@, IF task[p].raising THEN "raised" ELSE "stopped")]
    /\ KeepLoop(p)
    /\ UNCHANGED pos

(* Every step of a task inside a call of the driver.                        *)
DriverStep(p) ==
    \/ \E c \in Targets : ReadCondition(p, c)
    \/ CheckPasses(p)
    \/ CheckRefuses(p)
    \/ CheckStops(p)
    \/ Transmit(p)
    \/ Acked(p)
    \/ VerifyRead(p)
    \/ StopTransmit(p)
    \/ StopDone(p)

(* Mutant of Older: the age is taken from a clock that was set back.        *)
OlderBackwards(write) == IF write = None THEN None ELSE [write EXCEPT !.age = @ - 1]

Older(write) ==
    IF write = None THEN None
    ELSE [write EXCEPT !.age = IF @ < MaxAge THEN @ + 1 ELSE @]
=============================================================================
