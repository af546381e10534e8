---------------------------- MODULE SafetyLimits ----------------------------
(***************************************************************************)
(* open_mhs/server/safety.py: the only code that interprets a bound, called *)
(* by both enforcement points (the RPC dispatcher and BaseDevice.write),    *)
(* and the ingestion rules of open_mhs/server/models.py that say which      *)
(* limits a registered tag can hold.                                        *)
(*                                                                          *)
(* Numbers are integers of a grid fine enough for the tag's values, or NaN: *)
(* Python's comparisons with NaN are all false, and `min`/`max` keep their  *)
(* first argument then.  Durations are in ticks; an elapsed time of 0 ticks *)
(* stands for the 1e-9 s floor of `_rate_context`.                          *)
(*                                                                          *)
(* An actuator is [datatype, write_mode, default], an enum one also has its *)
(* enum_values; a limit is                                                  *)
(* [min, max, allowed, max_rate, conditions, on_violation], a condition is  *)
(* [when_target, equals, min, max]; None is Python's None.  A reading is    *)
(* [kind, of]; booleans are 0 and 1, strings are the index of the string.   *)
(* A value to write is [kind, of] too, of kind "list" when of is a sequence.*)
(***************************************************************************)
EXTENDS Integers, Sequences

CONSTANTS
    None,       \* Python's None
    NaN,        \* float('nan')
    Unit        \* grid steps in 1.0

ASSUME UnitAssumption == Unit \in Nat \ {0}

ASSUME NoneAssumption == None \notin Int

ASSUME NaNAssumption == NaN \notin Int /\ NaN # None

Number == Int \cup {NaN}

(* Python's `<`: false as soon as one side is NaN.                          *)
Less(a, b) == a # NaN /\ b # NaN /\ a < b

Plus(a, b) == IF NaN \in {a, b} THEN NaN ELSE a + b

Abs(n) == IF n < 0 THEN -n ELSE n

(* Mutant of Clip: the upper bound is forgotten.                            *)
ClipOneSided(c, low, high) == IF Less(c, low) THEN low ELSE c

(* min(max(c, low), high): Python keeps its first argument on a tie or NaN. *)
Clip(c, low, high) ==
    LET raised == IF Less(c, low) THEN low ELSE c
    IN  IF Less(high, raised) THEN high ELSE raised

-----------------------------------------------------------------------------
(* Ingestion: the limits a tag may declare.                                 *)

OnViolation == {"reject", "clamp", "estop"}

Or(a, b) == IF a # None THEN a ELSE b

(* A numeric limit has min < max; a discrete one has neither, nor a clamp.  *)
WellFormed(limit) ==
    /\ limit.on_violation \in OnViolation
    /\ limit.conditions \in Seq({limit.conditions[i] : i \in DOMAIN limit.conditions})
    /\ limit.max_rate # None => limit.max_rate \in Nat \ {0}
    /\ IF limit.allowed = None
       THEN limit.min \in Int /\ limit.max \in Int /\ limit.min < limit.max
       ELSE limit.min = None /\ limit.max = None

OnViolationCarriesOut(limit, supported) ==
    /\ limit.on_violation = "clamp" => limit.allowed = None
    /\ limit.on_violation = "estop" => supported

(* A condition changes a bound, ...                                         *)
Bounds(c) == c.min # None \/ c.max # None

(* ... only ever narrows it, and leaves room.                               *)
ConditionNarrows(limit, c) ==
    /\ Bounds(c)
    /\ c.min # None => c.min \in Int /\ limit.min <= c.min
    /\ c.max # None => c.max \in Int /\ c.max <= limit.max
    /\ Or(c.min, limit.min) < Or(c.max, limit.max)

ConditionsNarrow(limit) ==
    limit.conditions # << >> =>
        /\ limit.allowed = None
        /\ \A i \in DOMAIN limit.conditions :
              ConditionNarrows(limit, limit.conditions[i])

DefaultIsLegal(actuator, limit) ==
    actuator.default # None =>
        IF limit.allowed = None
        THEN limit.min <= actuator.default /\ actuator.default <= limit.max
        ELSE actuator.default \in limit.allowed

NumericTypes == {"number", "integer", "vector3"}

(* A numeric datatype takes a range, every other one takes a set of values. *)
FormFits(actuator, limit) ==
    limit.allowed = None <=> actuator.datatype \in NumericTypes

(* What CapabilityTag guarantees of one actuator and its limit.             *)
Ingested(actuator, limit, supported) ==
    /\ WellFormed(limit)
    /\ FormFits(actuator, limit)
    /\ OnViolationCarriesOut(limit, supported)
    /\ ConditionsNarrow(limit)
    /\ DefaultIsLegal(actuator, limit)

-----------------------------------------------------------------------------
(* Decisions.                                                               *)

Verdict == {"accept", "clamp", "refuse", "estop", "invalid", "error"}

Decide(verdict, value) == [verdict |-> verdict, value |-> value]

Passes(decision) == decision.verdict \in {"accept", "clamp"}

(* `_raise`: an estop limit asks for a stop, every other one just refuses.  *)
Refusal(limit) ==
    Decide(IF limit.on_violation = "estop" THEN "estop" ELSE "refuse", None)

(* `_same_value`: truthiness as soon as one side is a bool.                 *)
SameValue(observed, expected) ==
    IF "boolean" \in {observed.kind, expected.kind}
    THEN (observed.of # 0) <=> (expected.of # 0)
    ELSE observed = expected

ConditionTargets(limit) ==
    {limit.conditions[i].when_target : i \in DOMAIN limit.conditions}

(* The conditions that hold in a state; a channel missing from it is skipped. *)
Matching(limit, state) ==
    {i \in DOMAIN limit.conditions :
        /\ limit.conditions[i].when_target \in DOMAIN state
        /\ SameValue(state[limit.conditions[i].when_target],
                     limit.conditions[i].equals)}

First(S) == CHOOSE i \in S : \A j \in S : i <= j

(* `effective_bounds`: the first matching condition replaces the bounds it  *)
(* declares; with none, the base bounds stand.                              *)
EffectiveBounds(limit, state) ==
    LET m == Matching(limit, state)
        c == limit.conditions[First(m)]
    IN  IF m = {}
        THEN [low |-> limit.min, high |-> limit.max]
        ELSE [low |-> Or(c.min, limit.min), high |-> Or(c.max, limit.max)]

(* Mutant of CheckDiscrete: any number is taken for an allowed one.         *)
CheckDiscreteOpen(limit, absolute) == Decide("accept", absolute)

(* `_check_discrete`: a discrete bound is never clamped.                    *)
CheckDiscrete(limit, absolute) ==
    IF absolute \in limit.allowed THEN Decide("accept", absolute)
                                  ELSE Refusal(limit)

(* Mutant of CheckBounded: every limit clamps, whatever its on_violation.   *)
CheckBoundedClamping(limit, absolute, bounded) ==
    Decide(IF bounded = absolute THEN "accept" ELSE "clamp", bounded)

(* Mutant of CheckBounded: a value is refused only when it is not a number. *)
CheckBoundedLax(limit, absolute, bounded) == Decide("accept", absolute)

(* `_check_range`, for the value and its clipped form.                      *)
CheckBounded(limit, absolute, bounded) ==
    IF bounded = absolute THEN Decide("accept", absolute)
    ELSE IF limit.on_violation = "clamp" THEN Decide("clamp", bounded)
    ELSE Refusal(limit)

(* Mutant of CheckRange: conditions are parsed and ignored.                 *)
CheckRangeBase(limit, absolute, state) ==
    CheckBounded(limit, absolute, Clip(absolute, limit.min, limit.max))

CheckRange(limit, absolute, state) ==
    LET b == EffectiveBounds(limit, state)
    IN  CheckBounded(limit, absolute, Clip(absolute, b.low, b.high))

CheckVector(limit, absolute, state) ==
    LET b == EffectiveBounds(limit, state)
    IN  CheckBounded(limit, absolute,
                     [i \in DOMAIN absolute |-> Clip(absolute[i], b.low, b.high)])

(* Mutant of WithinRate: one tick too many is granted.                      *)
WithinRateLate(limit, value, current, elapsed) ==
    Abs(value - current) <= limit.max_rate * (elapsed + 1)

(* At most max_rate * elapsed away from the previous value; never so for NaN. *)
WithinRate(limit, value, current, elapsed) ==
    NaN \notin {value, current} /\ Abs(value - current) <= limit.max_rate * elapsed

(* Mutant of Reachable: the value asked for is clipped, not the step.       *)
ReachableUnstepped(limit, value, current, elapsed) ==
    Clip(value, limit.min, limit.max)

(* As far as the rate allows in the direction asked for, inside min..max.   *)
Reachable(limit, value, current, elapsed) ==
    LET step == limit.max_rate * elapsed
        aim  == Plus(current, IF Less(value, current) THEN -step ELSE step)
    IN  Clip(aim, limit.min, limit.max)

(* `_check_rate` applies to a limit with a rate, once there is a previous   *)
(* value and a time since it.                                               *)
RateApplies(limit, current, elapsed) ==
    limit.max_rate # None /\ current # None /\ elapsed # None

CheckRate(limit, decision, current, elapsed) ==
    IF \/ ~Passes(decision)
       \/ ~RateApplies(limit, current, elapsed)
       \/ WithinRate(limit, decision.value, current, elapsed)
    THEN decision
    ELSE IF limit.on_violation = "clamp"
    THEN Decide("clamp", Reachable(limit, decision.value, current, elapsed))
    ELSE Refusal(limit)

(* `resolve_absolute`: a relative write is a delta on the previous value,   *)
(* and needs numbers on both sides.                                         *)
Resolvable(actuator, limit, current) ==
    actuator.write_mode = "relative" => current # None /\ limit.allowed = None

Resolve(actuator, value, current) ==
    IF actuator.write_mode = "relative" THEN Plus(current, value) ELSE value

(* `check_write` of a scalar that has its actuator's datatype.              *)
CheckScalar(actuator, limit, value, current, elapsed, state) ==
    LET absolute == Resolve(actuator, value, current)
    IN  IF ~Resolvable(actuator, limit, current) THEN Decide("invalid", None)
        ELSE IF limit.allowed # None THEN CheckDiscrete(limit, absolute)
        ELSE CheckRate(limit, CheckRange(limit, absolute, state), current, elapsed)

-----------------------------------------------------------------------------
(* `coerce` and the whole of `check_write`, for a value of any kind.        *)

KindOf(datatype) ==
    CASE datatype \in {"number", "integer"} -> "number"
      [] datatype = "vector3"               -> "list"
      [] datatype = "boolean"               -> "boolean"
      [] datatype \in {"string", "enum"}    -> "string"

Coerces(actuator, v) ==
    /\ v.kind = KindOf(actuator.datatype)
    /\ v.kind = "list" => Len(v.of) = 3
    /\ actuator.datatype = "integer" => v.of % Unit = 0
    /\ actuator.datatype = "enum" => v.of \in actuator.enum_values

(* int(nan) raises a ValueError, which is none of the errors of coerce.     *)
CoercionFails(actuator, v) ==
    actuator.datatype = "integer" /\ v.kind = "number" /\ v.of = NaN

CheckWrite(actuator, limit, v, current, elapsed, state) ==
    IF CoercionFails(actuator, v) THEN Decide("error", None)
    ELSE IF ~Coerces(actuator, v) THEN Decide("invalid", None)
    ELSE IF v.kind # "list"
    THEN CheckScalar(actuator, limit, v.of, current, elapsed, state)
    ELSE IF actuator.write_mode = "relative" THEN Decide("invalid", None)
    ELSE CheckVector(limit, v.of, state)
=============================================================================
