------------------------- MODULE DirectDriverProofs -------------------------
(* What holds of every device and every run of module DirectDriver whose    *)
(* callers write finite numbers.                                            *)
EXTENDS DirectDriver, SafetyLimitsProofs

NumbersAsked == \A v \in Values : Input(v)

InRange(write) == write # None => write \in Remembered /\ InBase(device.limit, write.value)

(* The inductive invariant: what is remembered lies in the base bound, so   *)
(* that the next rate check starts from a legal place.                      *)
IInv ==
    /\ device \in Devices
    /\ InRange(last) /\ InRange(anchor)
    /\ last = None <=> anchor = None
    /\ pos \in Int /\ StaysInEnvelope
    /\ answer.verdict \in Verdict
    /\ RateOverHistory

-----------------------------------------------------------------------------
LEMMA DeviceFacts ==
    ASSUME device \in Devices
    PROVE  /\ Numeric(device.limit)
           /\ device.limit.min \in Int /\ device.limit.max \in Int
           /\ device.limit.min < device.limit.max
           /\ device.limit.max_rate # None => device.limit.max_rate \in Nat
           /\ device.actuator.datatype \in {"number", "integer"}
           /\ device.actuator.default # None => InBase(device.limit, device.actuator.default)
           /\ device.safe \in Int
  BY DevicesAssumption
     DEF Ingested, Numeric, WellFormed, DefaultIsLegal, InBase

(* The driver's check of any value, in any state of the invariant.          *)
LEMMA CheckSound ==
    ASSUME IInv, NumbersAsked, NEW v \in Values, NEW seen, Passes(Check(v, seen))
    PROVE  /\ InBase(device.limit, Check(v, seen).value)
           /\ device.limit.max_rate # None /\ last # None =>
                 Abs(Check(v, seen).value - last.value)
                   <= device.limit.max_rate * last.age
<1> DEFINE current == RateContext.current
           elapsed == RateContext.elapsed
           scalar == CheckScalar(device.actuator, device.limit, v.of,
                                 current, elapsed, seen)
<1>1. Numeric(device.limit) /\ device.actuator.datatype \in {"number", "integer"}
  BY DeviceFacts DEF IInv
<1>2. current # None => InBase(device.limit, current)
  BY DeviceFacts DEF IInv, RateContext, InRange
<1>3. elapsed \in Nat \cup {None}
  BY DEF IInv, RateContext, InRange, Remembered
<1>4. Coerces(device.actuator, v) /\ ~CoercionFails(device.actuator, v)
  BY DEF Check, CheckWrite, Passes, Decide
<1>5. v.kind = "number"
  BY <1>1, <1>4 DEF Coerces, KindOf
<1>6. v.of \in Int
  BY <1>5 DEF NumbersAsked, Input
<1>7. Check(v, seen) = scalar
  BY <1>4, <1>5 DEF Check, CheckWrite
<1> HIDE DEF current, elapsed
<1>8. /\ InBase(device.limit, scalar.value)
      /\ RateApplies(device.limit, current, elapsed) =>
            Abs(scalar.value - current) <= device.limit.max_rate * elapsed
  BY <1>1, <1>2, <1>3, <1>6, <1>7, ScalarSound
<1>9. last # None => /\ current = last.value /\ elapsed = last.age
                     /\ current # None /\ elapsed # None
  BY NoneAssumption DEF current, elapsed, RateContext, IInv, InRange, Remembered, InBase
<1> QED
  BY <1>7, <1>8, <1>9 DEF RateApplies

-----------------------------------------------------------------------------
LEMMA InitEstablishes == Init => IInv
<1> SUFFICES ASSUME Init PROVE IInv
  OBVIOUS
<1>1. device \in Devices
  BY DEF Init
<1>2. pos \in Int /\ StaysInEnvelope
  BY <1>1, DeviceFacts DEF Init, Or, StaysInEnvelope, InBase
<1> QED
  BY <1>1, <1>2 DEF Init, IInv, InRange, NoAnswer, Verdict, RateOverHistory

(* The rate cap composes: two legal stretches in a row make a legal one.    *)
LEMMA Composes ==
    ASSUME NEW r \in Nat, NEW a \in Nat, NEW b \in Nat, a <= b,
           NEW x \in Int, NEW y \in Int, NEW z \in Int,
           Abs(y - x) <= r * (b - a), Abs(z - y) <= r * a
    PROVE  Abs(z - x) <= r * b
<1>1. r * (b - a) + r * a = r * b
  BY SMT
<1>2. r * (b - a) \in Int /\ r * a \in Int /\ r * b \in Int
  BY SMT
<1>3. ASSUME NEW p \in Int, NEW q \in Int, Abs(y - x) <= p, Abs(z - y) <= q
      PROVE  Abs(z - x) <= p + q
  BY <1>3 DEF Abs
<1> QED
  BY <1>1, <1>2, <1>3

LEMMA StopPreserves ==
    ASSUME IInv, Stop, UNCHANGED device, answer'.verdict \in Verdict
    PROVE  IInv'
<1>1. pos' \in Int /\ StaysInEnvelope'
  BY DeviceFacts DEF IInv, Stop, StaysInEnvelope
<1>2. CASE last' = None /\ anchor' = None
  BY <1>1, <1>2 DEF IInv, InRange, RateOverHistory
<1>3. CASE UNCHANGED <<last, anchor>>
  BY <1>1, <1>3 DEF IInv, InRange, RateOverHistory
<1> QED
  BY <1>2, <1>3 DEF Stop

LEMMA AcceptedPreserves ==
    ASSUME IInv, NumbersAsked, NEW world, NEW seen, NEW v \in Values,
           WriteAccepted(world, seen, v)
    PROVE  IInv'
<1> DEFINE n == Check(v, seen).value
<1>1. /\ InBase(device.limit, n)
      /\ device.limit.max_rate # None /\ last # None =>
            Abs(n - last.value) <= device.limit.max_rate * last.age
  BY CheckSound DEF WriteAccepted
<1>2. /\ UNCHANGED device /\ pos' = n /\ last' = [value |-> n, age |-> 0]
      /\ anchor' \in IF anchor = None THEN {last'} ELSE {anchor, last'}
      /\ answer'.verdict \in Verdict
  BY DEF WriteAccepted, Accepted, Passes, Verdict
<1> HIDE DEF n
<1>3. n \in Int
  BY <1>1 DEF InBase
<1>4. last' \in Remembered /\ last' # None /\ InRange(last)'
  BY <1>1, <1>2, <1>3, NoWriteAssumption DEF Remembered, Number, InRange
<1>5. InRange(anchor)' /\ anchor' # None
  BY <1>2, <1>4 DEF IInv, InRange
<1>6. pos' \in Int /\ StaysInEnvelope'
  BY <1>1, <1>2, <1>3 DEF StaysInEnvelope, InBase
<1>7. RateOverHistory'
  <2> SUFFICES ASSUME device.limit.max_rate # None
               PROVE  /\ 0 <= anchor'.age
                      /\ Abs(n - anchor'.value)
                           <= device.limit.max_rate * (anchor'.age - 0)
    BY <1>2 DEF RateOverHistory
  <2>1. device.limit.max_rate \in Nat
    BY DeviceFacts DEF IInv
  <2>2. CASE anchor' = last'
    BY <1>2, <1>3, <2>1, <2>2 DEF Abs
  <2>3. CASE anchor # None /\ anchor' = anchor
    <3>1. /\ last # None
          /\ anchor.value \in Int /\ anchor.age \in Nat
          /\ last.value \in Int /\ last.age \in Nat
      BY <2>3 DEF IInv, InRange, InBase, Remembered
    <3>2. /\ last.age <= anchor.age
          /\ Abs(last.value - anchor.value)
               <= device.limit.max_rate * (anchor.age - last.age)
      BY <3>1 DEF IInv, RateOverHistory
    <3>3. Abs(n - last.value) <= device.limit.max_rate * last.age
      BY <1>1, <3>1
    <3>4. Abs(n - anchor.value) <= device.limit.max_rate * anchor.age
      BY <1>3, <2>1, <3>1, <3>2, <3>3, Composes
    <3> QED
      BY <2>3, <3>1, <3>4
  <2> QED
    BY <1>2, <2>2, <2>3
<1> QED
  BY <1>2, <1>4, <1>5, <1>6, <1>7 DEF IInv

LEMMA TickPreserves ==
    ASSUME IInv, Tick
    PROVE  IInv'
<1>1. /\ UNCHANGED <<device, pos, answer>>
      /\ last' = Older(last) /\ anchor' = Older(anchor)
  BY DEF Tick
<1>2. ASSUME NEW write, InRange(write), write # None
      PROVE  /\ Older(write) = [value |-> write.value, age |-> write.age + 1]
             /\ Older(write) \in Remembered /\ Older(write) # None
             /\ InBase(device.limit, Older(write).value)
  BY <1>2, NoWriteAssumption DEF Older, InRange, Remembered
<1>3. InRange(last)' /\ InRange(anchor)' /\ (last' = None <=> anchor' = None)
  <2>1. CASE last = None
    BY <1>1, <2>1 DEF IInv, Older, InRange
  <2>2. CASE last # None
    BY <1>1, <1>2, <2>2 DEF IInv, InRange
  <2> QED
    BY <2>1, <2>2
<1>4. RateOverHistory'
  <2>1. CASE last = None
    BY <1>1, <2>1 DEF Older, RateOverHistory
  <2>2. CASE last # None
    <3>1. /\ last' = [value |-> last.value, age |-> last.age + 1]
          /\ anchor' = [value |-> anchor.value, age |-> anchor.age + 1]
      BY <1>1, <1>2, <2>2 DEF IInv
    <3>2. last.age \in Nat /\ anchor.age \in Nat
      BY <2>2 DEF IInv, InRange, Remembered
    <3>3. anchor'.age - last'.age = anchor.age - last.age
          /\ (last.age <= anchor.age => last'.age <= anchor'.age)
      BY <3>1, <3>2
    <3> QED
      BY <1>1, <2>2, <3>1, <3>3 DEF IInv, RateOverHistory
  <2> QED
    BY <2>1, <2>2
<1> QED
  BY <1>1, <1>3, <1>4 DEF IInv, StaysInEnvelope

LEMMA NextPreserves ==
    ASSUME IInv, NumbersAsked, [Next]_vars
    PROVE  IInv'
<1>1. ASSUME NEW world \in Worlds, NEW v \in Values, NEW seen \in Seen(world),
             WriteAccepted(world, seen, v)
      PROVE  IInv'
  BY <1>1, AcceptedPreserves
<1>2. ASSUME NEW v \in Values, NEW seen, WriteFails(seen, v)
      PROVE  IInv'
  <2>1. InBase(device.limit, Check(v, seen).value)
    BY <1>2, CheckSound DEF WriteFails
  <2>2. pos' = pos \/ pos' = Check(v, seen).value
    BY <1>2 DEF WriteFails
  <2>3. pos' \in Int /\ StaysInEnvelope'
    BY <1>2, <2>1, <2>2 DEF WriteFails, IInv, StaysInEnvelope, InBase
  <2>4. answer'.verdict \in Verdict
    BY <1>2 DEF WriteFails, Denied, NoAnswer, Verdict
  <2> QED
    BY <1>2, <2>3, <2>4 DEF WriteFails, IInv, InRange, RateOverHistory
<1>3. ASSUME NEW v \in Values, NEW seen, WriteRefused(seen, v)
      PROVE  IInv'
  <2>1. answer'.verdict \in Verdict
    BY <1>3 DEF WriteRefused, Denied, NoAnswer, Verdict
  <2> QED
    BY <1>3, <2>1 DEF WriteRefused, IInv, InRange, StaysInEnvelope, RateOverHistory
<1>4. ASSUME NEW v \in Values, NEW seen, WriteStops(seen, v)
      PROVE  IInv'
  <2>1. answer'.verdict \in Verdict
    BY <1>4 DEF WriteStops, Denied, NoAnswer, Verdict
  <2> QED
    BY <1>4, <2>1, StopPreserves DEF WriteStops
<1>5. CASE EmergencyStop
  <2>1. answer'.verdict \in Verdict
    BY <1>5 DEF EmergencyStop, Denied, NoAnswer, Verdict
  <2> QED
    BY <1>5, <2>1, StopPreserves DEF EmergencyStop
<1>6. CASE Tick
  BY <1>6, TickPreserves
<1>7. CASE UNCHANGED vars
  BY <1>7 DEF vars, IInv, InRange, StaysInEnvelope, RateOverHistory
<1> QED
  BY <1>1, <1>2, <1>3, <1>4, <1>5, <1>6, <1>7 DEF Next, Write

-----------------------------------------------------------------------------
LEMMA Invariance ==
    ASSUME NumbersAsked
    PROVE  Spec => []IInv
<1>1. Init => IInv
  BY InitEstablishes
<1>2. IInv /\ [Next]_vars => IInv'
  BY NextPreserves
<1> QED
  BY <1>1, <1>2, PTL DEF Spec

(* The state of a directly driven device keeps its types.                   *)
THEOREM TypeCorrect ==
    ASSUME NumbersAsked
    PROVE  Spec => []TypeOK
<1>1. IInv => TypeOK
  BY DEF IInv, TypeOK, InRange, Number
<1> QED
  BY <1>1, Invariance, PTL

(* Whatever numbers are asked for, whatever reading or link fails, a device *)
(* driven by BaseDevice stands in its base bound or at its safe state.      *)
THEOREM Envelope ==
    ASSUME NumbersAsked
    PROVE  Spec => []StaysInEnvelope
<1>1. IInv => StaysInEnvelope
  BY DEF IInv
<1> QED
  BY <1>1, Invariance, PTL

(* No run of acknowledged writes is faster than max_rate over any stretch.  *)
THEOREM RateKept ==
    ASSUME NumbersAsked
    PROVE  Spec => []RateOverHistory
<1>1. IInv => RateOverHistory
  BY DEF IInv
<1> QED
  BY <1>1, Invariance, PTL

-----------------------------------------------------------------------------
(* No write moves the actuator further than max_rate allows, when the       *)
(* driver remembers where the actuator is; only a stop does, whether it     *)
(* succeeds or fails half way, and then to the safe state.                  *)
THEOREM StepsBounded ==
    ASSUME NumbersAsked
    PROVE  Spec => NoStepChange
<1> DEFINE Near == Abs(pos' - pos) <= device.limit.max_rate * last.age
           Stopped == answer'.verdict = "estop" /\ pos' = device.safe
           Bounded == /\ device.limit.max_rate # None /\ last # None /\ last' # None
                      /\ last.value = pos
                      => Near \/ Stopped
<1>1. ASSUME IInv, [Next]_vars
      PROVE  Bounded
  <2> SUFFICES ASSUME device.limit.max_rate # None, last # None, last' # None,
                      last.value = pos
               PROVE  Near \/ Stopped
    OBVIOUS
  <2>1. /\ device.limit.max_rate \in Nat /\ last.age \in Nat /\ pos \in Int
        /\ device.limit.max_rate * last.age \in Nat
    BY <1>1, DeviceFacts, StepIsNat DEF IInv, InRange, Remembered
  <2>2. CASE pos' = pos
    BY <2>1, <2>2 DEF Abs
  <2>3. ASSUME NEW v \in Values, NEW seen, Passes(Check(v, seen)),
               pos' = Check(v, seen).value
        PROVE  Near
    BY <1>1, <2>3, CheckSound
  <2>4. CASE Stop /\ answer' = Denied("estop")
    BY <2>2, <2>4 DEF Stop, Denied, NoAnswer
  <2>5. \/ pos' = pos
        \/ \E v \in Values : \E seen : Passes(Check(v, seen)) /\ pos' = Check(v, seen).value
        \/ Stop /\ answer' = Denied("estop")
    BY <1>1 DEF Next, Write, WriteAccepted, WriteFails, WriteRefused, WriteStops,
                EmergencyStop, Tick, vars
  <2> QED
    BY <2>2, <2>3, <2>4, <2>5
<1>2. IInv /\ [Next]_vars => [Bounded]_vars
  BY <1>1
<1> QED
  BY <1>2, Invariance, PTL DEF Spec, NoStepChange

(* Without a second clip the rate check changes no passing value.           *)
LEMMA RateKeepsValue ==
    ASSUME NEW limit, limit.on_violation = "clamp" => limit.max_rate = None,
           NEW decision, NEW current, NEW elapsed,
           Passes(CheckRate(limit, decision, current, elapsed))
    PROVE  CheckRate(limit, decision, current, elapsed) = decision
  BY DEF CheckRate, RateApplies, Passes, Decide, Refusal

(* The readings of a complete answer put in force what the world does.      *)
LEMMA CompleteReading ==
    ASSUME device \in Devices, NEW world \in Worlds, NEW seen \in Seen(world),
           Named(world) \subseteq DOMAIN seen
    PROVE  seen = [c \in Named(world) |-> world[c]]
  BY DEF Seen

LEMMA AcceptedInForce ==
    ASSUME IInv, NumbersAsked, NEW world \in Worlds, NEW seen \in Seen(world),
           NEW v \in Values, WriteAccepted(world, seen, v),
           answer'.complete, ClippedOnce
    PROVE  InsideBoundInForce'
<1> DEFINE limit == device.limit
           current == RateContext.current
           elapsed == RateContext.elapsed
           r == CheckRange(limit, Resolve(device.actuator, v.of, current), seen)
           b == EffectiveBounds(limit, seen)
           m == Matching(limit, seen)
           n == answer'.value
<1>1. Numeric(limit) /\ device.actuator.datatype \in {"number", "integer"}
  BY DeviceFacts DEF IInv
<1>2. /\ UNCHANGED device /\ answer'.world = world /\ n = Check(v, seen).value
      /\ Named(world) \subseteq DOMAIN seen /\ Passes(Check(v, seen))
  BY DEF WriteAccepted, Accepted
<1>3. Coerces(device.actuator, v) /\ ~CoercionFails(device.actuator, v)
  BY <1>2 DEF Check, CheckWrite, Passes, Decide
<1>4. v.kind = "number" /\ v.of \in Int
  BY <1>1, <1>3 DEF Coerces, KindOf, NumbersAsked, Input
<1>5. Check(v, seen) = CheckScalar(device.actuator, limit, v.of, current, elapsed, seen)
  BY <1>3, <1>4 DEF Check, CheckWrite
<1>6. Resolvable(device.actuator, limit, current)
  BY <1>2, <1>5 DEF CheckScalar, Passes, Decide
<1>7. Check(v, seen) = CheckRate(limit, r, current, elapsed)
  BY <1>1, <1>5, <1>6 DEF CheckScalar, Numeric
<1>8. Check(v, seen) = r /\ Passes(r)
  BY <1>2, <1>7, RateKeepsValue DEF ClippedOnce
<1>9. Resolve(device.actuator, v.of, current) \in Int
  <2>1. current # None => current \in Int
    BY DeviceFacts DEF IInv, RateContext, InRange, InBase
  <2> QED
    BY <1>4, <1>6, <2>1, NaNAssumption DEF Resolve, Resolvable, Plus
<1>10. InBase(limit, n) /\ b.low <= n /\ n <= b.high
  BY <1>1, <1>2, <1>8, <1>9, RangeSound
<1>11. seen = [c \in Named(world) |-> world[c]]
  BY <1>2, CompleteReading DEF IInv
<1>12. m = {i \in DOMAIN limit.conditions : Met(i)'}
  <2>1. DOMAIN seen = ConditionTargets(limit) \cap DOMAIN world
    BY <1>11 DEF Named
  <2>2. ASSUME NEW i \in DOMAIN limit.conditions
        PROVE  i \in m <=> Met(i)'
    <3>1. limit.conditions[i].when_target \in ConditionTargets(limit)
      BY DEF ConditionTargets
    <3>2. limit.conditions[i].when_target \in DOMAIN seen
             <=> limit.conditions[i].when_target \in DOMAIN world
      BY <2>1, <3>1
    <3>3. limit.conditions[i].when_target \in DOMAIN seen =>
             seen[limit.conditions[i].when_target] = world[limit.conditions[i].when_target]
      BY <1>11
    <3> QED
      BY <1>2, <3>2, <3>3 DEF Matching, Met
  <2> QED
    BY <2>2 DEF Matching
<1>13. ASSUME NEW i \in DOMAIN limit.conditions, InForce(i)'
       PROVE  LET c == limit.conditions[i]
              IN  /\ c.min # None => c.min <= n
                  /\ c.max # None => n <= c.max
  <2>1. DOMAIN limit.conditions \subseteq Nat
        /\ \A j \in DOMAIN limit.conditions : j >= 1
    BY <1>1 DEF Numeric, WellFormed
  <2>2. i \in m /\ m # {} /\ m \subseteq Nat
    BY <1>12, <1>13, <2>1 DEF InForce
  <2>3. First(m) \in m /\ First(m) <= i
    BY <2>2, FirstIsFirst
  <2>4. First(m) \notin 1..i - 1
    BY <1>12, <1>13, <2>3 DEF InForce
  <2>5. First(m) = i
    <3>1. First(m) \in Nat /\ First(m) >= 1 /\ i \in Nat
      BY <1>12, <2>1, <2>3
    <3> HIDE DEF m
    <3> QED
      BY <2>3, <2>4, <3>1
  <2>6. b = [low |-> Or(limit.conditions[i].min, limit.min),
             high |-> Or(limit.conditions[i].max, limit.max)]
    BY <2>2, <2>5 DEF EffectiveBounds
  <2> QED
    BY <1>10, <2>6 DEF Or
<1> QED
  BY <1>2, <1>10, <1>13 DEF InsideBoundInForce, InBase

(* A value that passed with every channel read, and with one clip at most,  *)
(* is inside the bound the world put in force.                              *)
THEOREM BoundInForceKept ==
    ASSUME NumbersAsked
    PROVE  Spec => []ReadMeansInsideBound
<1>1. Init => ReadMeansInsideBound
  BY DEF Init, NoAnswer, ReadMeansInsideBound, Passes
<1>2. ASSUME IInv, ReadMeansInsideBound, [Next]_vars
      PROVE  ReadMeansInsideBound'
  <2>1. ASSUME NEW world \in Worlds, NEW seen \in Seen(world), NEW v \in Values,
               WriteAccepted(world, seen, v)
        PROVE  ReadMeansInsideBound'
    <3>1. ClippedOnce' => ClippedOnce
      BY <2>1 DEF WriteAccepted, ClippedOnce
    <3> QED
      BY <1>2, <2>1, <3>1, AcceptedInForce DEF ReadMeansInsideBound
  <2>2. ASSUME NEW v \in Values, NEW seen,
               WriteFails(seen, v) \/ WriteRefused(seen, v) \/ WriteStops(seen, v)
        PROVE  ReadMeansInsideBound'
    <3>1. ~Passes(answer')
      BY <2>2 DEF WriteFails, WriteRefused, WriteStops, Denied, NoAnswer, Passes
    <3> QED
      BY <3>1 DEF ReadMeansInsideBound
  <2>3. ASSUME UNCHANGED <<device, answer>>
        PROVE  ReadMeansInsideBound'
    BY <1>2, <2>3 DEF ReadMeansInsideBound, ClippedOnce, InsideBoundInForce,
                      InForce, Met
  <2>4. CASE EmergencyStop
    <3>1. ~Passes(answer')
      BY <2>4 DEF EmergencyStop, Denied, NoAnswer, Passes
    <3> QED
      BY <3>1 DEF ReadMeansInsideBound
  <2> QED
    BY <1>2, <2>1, <2>2, <2>3, <2>4 DEF Next, Write, Tick, vars
<1> QED
  BY <1>1, <1>2, Invariance, PTL DEF Spec
=============================================================================
