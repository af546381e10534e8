---------------------------- MODULE DirectDriver ----------------------------
(***************************************************************************)
(* BaseDevice (open_mhs/drivers/base.py) used without the middleware: one   *)
(* caller writes one actuator, one call after the other, and the driver is  *)
(* the only enforcement point.  A long sequence of writes, emergency stops  *)
(* and faults of the link meets the rate history the driver keeps.          *)
(***************************************************************************)
EXTENDS SafetyLimits

CONSTANTS
    Devices,    \* the [actuator, limit, safe] that may be driven
    Worlds,     \* what the other channels may read: functions to readings
    Values,     \* the values a caller may write: [kind, of]
    Faults,     \* what may go wrong on the link
    MaxAge      \* bound: ticks the oldest remembered write may be old

FaultKind == {"read", "transmit", "ack"}

ASSUME DevicesAssumption ==
    \A d \in Devices : /\ Ingested(d.actuator, d.limit, TRUE)
                       /\ d.limit.allowed = None
                       /\ d.actuator.datatype \in {"number", "integer"}
                       /\ d.actuator.default \in Int \cup {None}
                       /\ d.safe \in Int

ASSUME FaultsAssumption == Faults \subseteq FaultKind

ASSUME MaxAgeAssumption == MaxAge \in Nat

Remembered == [value : Number, age : Nat]

ASSUME NoWriteAssumption == None \notin Remembered

VARIABLES
    device,     \* the device being driven
    last,       \* BaseDevice._last_write[target]: [value, age], or None
    pos,        \* where the actuator is
    answer,     \* the last call's outcome, the world a write met, and whether
                \* every channel its limit names could be read
    anchor      \* history: an earlier write of the same run, [value, age]

vars == <<device, last, pos, answer, anchor>>

NoAnswer == [world |-> None, complete |-> FALSE, verdict |-> "invalid",
             value |-> None]

Init ==
    /\ device \in Devices
    /\ last = None
    /\ pos = Or(device.actuator.default, device.safe)
    /\ answer = NoAnswer
    /\ anchor = None

(* `_rate_context`: the previous value and its age, else the default.       *)
RateContext ==
    IF last = None THEN [current |-> device.actuator.default, elapsed |-> None]
                   ELSE [current |-> last.value, elapsed |-> last.age]

(* `_condition_state`: the channels the limit names; one that cannot be     *)
(* read is left out.                                                        *)
Named(world) == ConditionTargets(device.limit) \cap DOMAIN world

Seen(world) ==
    IF "read" \in Faults
    THEN {[c \in S |-> world[c]] : S \in SUBSET Named(world)}
    ELSE {[c \in Named(world) |-> world[c]]}

Check(v, seen) ==
    CheckWrite(device.actuator, device.limit, v,
               RateContext.current, RateContext.elapsed, seen)

Accepted(world, seen, decision) ==
    [world |-> world, complete |-> Named(world) \subseteq DOMAIN seen,
     verdict |-> decision.verdict, value |-> decision.value]

Denied(verdict) == [NoAnswer EXCEPT !.verdict = verdict]

(* A write that passes and that the device acknowledges.                    *)
WriteAccepted(world, seen, v) ==
    /\ Passes(Check(v, seen))
    /\ answer' = Accepted(world, seen, Check(v, seen))
    /\ pos' = Check(v, seen).value
    /\ last' = [value |-> Check(v, seen).value, age |-> 0]
    /\ anchor' \in IF anchor = None THEN {last'} ELSE {anchor, last'}
    /\ UNCHANGED device

(* TransportError: the write raises and `_last_write` keeps the older entry, *)
(* whether or not the device had already moved.                             *)
WriteFails(seen, v) ==
    /\ Faults \cap {"transmit", "ack"} # {}
    /\ Passes(Check(v, seen))
    /\ answer' = Denied("error")
    /\ pos' \in (IF "transmit" \in Faults THEN {pos} ELSE {})
                \cup (IF "ack" \in Faults THEN {Check(v, seen).value} ELSE {})
    /\ UNCHANGED <<device, last, anchor>>

WriteRefused(seen, v) ==
    /\ Check(v, seen).verdict \in {"refuse", "invalid", "error"}
    /\ answer' = Denied(Check(v, seen).verdict)
    /\ UNCHANGED <<device, last, pos, anchor>>

(* `emergency_stop`: the safe state goes out unchecked, one target after    *)
(* another, and the history is cleared at the end.  When the link fails on  *)
(* one of them nothing is cleared, though this actuator may already have    *)
(* moved: its acknowledgement was the one lost, or a later target failed.   *)
Stop ==
    \/ /\ pos' = device.safe
       /\ last' = None
       /\ anchor' = None
    \/ /\ Faults \cap {"transmit", "ack"} # {}
       /\ pos' \in {pos, device.safe}
       /\ UNCHANGED <<last, anchor>>

(* An estop limit: the driver stops itself and still refuses the write.     *)
WriteStops(seen, v) ==
    /\ Check(v, seen).verdict = "estop"
    /\ answer' = Denied(Check(v, seen).verdict)
    /\ Stop
    /\ UNCHANGED device

Write(world, seen, v) ==
    \/ WriteAccepted(world, seen, v)
    \/ WriteFails(seen, v)
    \/ WriteRefused(seen, v)
    \/ WriteStops(seen, v)

EmergencyStop ==
    /\ answer' = Denied("estop")
    /\ Stop
    /\ UNCHANGED device

(* Mutant of Older: the age is taken from a clock that was set back.        *)
OlderBackwards(write) == IF write = None THEN None ELSE [write EXCEPT !.age = @ - 1]

Older(write) == IF write = None THEN None ELSE [write EXCEPT !.age = @ + 1]

Tick ==
    /\ anchor # None => anchor.age < MaxAge
    /\ last' = Older(last)
    /\ anchor' = Older(anchor)
    /\ UNCHANGED <<device, pos, answer>>

Next ==
    \/ \E world \in Worlds, v \in Values :
          \E seen \in Seen(world) : Write(world, seen, v)
    \/ EmergencyStop
    \/ Tick

Spec == Init /\ [][Next]_vars

-----------------------------------------------------------------------------
TypeOK ==
    /\ device \in Devices
    /\ last \in {None} \cup Remembered
    /\ anchor \in {None} \cup Remembered
    /\ pos \in Number
    /\ answer.verdict \in Verdict

(* Whatever is asked, seen, lost or stopped, the actuator only ever stands  *)
(* inside its base bounds or at its safe state (safety.py:7-12).            *)
StaysInEnvelope ==
    pos # device.safe => /\ pos \in Int
                         /\ device.limit.min <= pos /\ pos <= device.limit.max

(* The rate cap holds over any stretch of acknowledged writes, not only     *)
(* between neighbours: a run of small legal steps is no faster than one big *)
(* step that would have been refused (safety.py:301-357).                   *)
RateOverHistory ==
    device.limit.max_rate # None /\ last # None =>
        /\ last.age <= anchor.age
        /\ Abs(last.value - anchor.value)
             <= device.limit.max_rate * (anchor.age - last.age)

(* The world meets condition i of the limit, and none before it.            *)
Met(i) ==
    LET c == device.limit.conditions[i]
    IN  /\ c.when_target \in DOMAIN answer.world
        /\ SameValue(answer.world[c.when_target], c.equals)

InForce(i) == Met(i) /\ \A j \in 1..i - 1 : ~Met(j)

InsideBoundInForce ==
    /\ device.limit.min <= answer.value /\ answer.value <= device.limit.max
    /\ \A i \in DOMAIN device.limit.conditions :
          InForce(i) =>
             LET c == device.limit.conditions[i]
             IN  /\ c.min # None => c.min <= answer.value
                 /\ c.max # None => answer.value <= c.max

(* A value that passes is inside the bound that the device's actual state   *)
(* puts in force, even when a channel of a condition cannot be read         *)
(* (safety.py:141-145, docs/capability-tags.md:213-214).                    *)
PassesInsideBoundInForce ==
    Passes(answer) => InsideBoundInForce

(* The range clip is the last word: no rate clip comes after it.            *)
ClippedOnce ==
    device.limit.on_violation = "clamp" => device.limit.max_rate = None

(* The part of it that the code keeps: every channel was read, and the rate *)
(* clip, which knows only the base bound, did not come after the range clip *)
(* (safety.py:238-298, 341-344).                                            *)
ReadMeansInsideBound ==
    Passes(answer) /\ answer.complete /\ ClippedOnce => InsideBoundInForce

(* No step change: a write moves the actuator no further than max_rate      *)
(* allows since the last one, provided the driver remembers where the       *)
(* actuator is; a lost acknowledgement and a stop that failed half way can  *)
(* leave it wrong about that.  What moves it further is a stop, also one    *)
(* that fails, and it moves it to the safe state                            *)
(* (docs/capability-tags.md:160, base.py:187-206, 242-251).                 *)
NoStepChange ==
    [][ /\ device.limit.max_rate # None /\ last # None /\ last' # None
        /\ last.value = pos
        => \/ Abs(pos' - pos) <= device.limit.max_rate * last.age
           \/ answer'.verdict = "estop" /\ pos' = device.safe ]_vars
=============================================================================
