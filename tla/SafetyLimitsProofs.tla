------------------------- MODULE SafetyLimitsProofs -------------------------
(* Facts about the evaluator of open_mhs/server/safety.py, for every        *)
(* ingested limit and every number: what a passing decision guarantees.     *)
EXTENDS SafetyLimits, NaturalsInduction, WellFoundedInduction, TLAPS

(* Clip returns a value of the interval, and only changes a value outside.  *)
LEMMA ClipInterval ==
    ASSUME NEW c \in Int, NEW low \in Int, NEW high \in Int, low <= high
    PROVE  /\ Clip(c, low, high) \in Int
           /\ low <= Clip(c, low, high) /\ Clip(c, low, high) <= high
           /\ low <= c /\ c <= high => Clip(c, low, high) = c
  BY NaNAssumption DEF Clip, Less

(* A set of positions that is not empty has a first one.                    *)
LEMMA FirstIsFirst ==
    ASSUME NEW S, S \subseteq Nat, S # {}
    PROVE  First(S) \in S /\ \A j \in S : First(S) <= j
<1>1. PICK x \in S : \A y \in S : <<y, x>> \notin OpToRel(<, Nat)
  BY NatLessThanWellFounded, WFMin, Zenon
<1>2. \A y \in S : ~(y < x)
  BY <1>1, Zenon DEF OpToRel
<1>3. \A y \in S : x <= y
  BY <1>2
<1> QED
  BY <1>3 DEF First

(* A numeric limit, as every proof below meets it.                          *)
Numeric(limit) ==
    /\ WellFormed(limit)
    /\ ConditionsNarrow(limit)
    /\ limit.allowed = None

(* Whatever the device reads, the bound in force is an interval inside the  *)
(* base bound (models.py:299-353, safety.py:137-156).                       *)
LEMMA BoundInForceNarrows ==
    ASSUME NEW limit, Numeric(limit), NEW state
    PROVE  LET b == EffectiveBounds(limit, state)
           IN  /\ b.low \in Int /\ b.high \in Int
               /\ limit.min <= b.low /\ b.low < b.high /\ b.high <= limit.max
<1> DEFINE m == Matching(limit, state)
           c == limit.conditions[First(m)]
<1>1. /\ limit.min \in Int /\ limit.max \in Int /\ limit.min < limit.max
  BY DEF Numeric, WellFormed
<1>2. CASE m = {}
  BY <1>1, <1>2 DEF EffectiveBounds
<1>3. CASE m # {}
  <2>1. m \subseteq DOMAIN limit.conditions
    BY DEF Matching
  <2>2. DOMAIN limit.conditions \subseteq Nat
    BY DEF Numeric, WellFormed
  <2>3. First(m) \in DOMAIN limit.conditions
    BY <1>3, <2>1, <2>2, FirstIsFirst
  <2>4. limit.conditions # << >>
    BY <2>3
  <2>5. ConditionNarrows(limit, c)
    BY <2>3, <2>4 DEF Numeric, ConditionsNarrow
  <2>6. /\ Or(c.min, limit.min) \in Int /\ Or(c.max, limit.max) \in Int
        /\ limit.min <= Or(c.min, limit.min) /\ Or(c.max, limit.max) <= limit.max
        /\ Or(c.min, limit.min) < Or(c.max, limit.max)
    BY <1>1, <2>5 DEF ConditionNarrows, Bounds, Or
  <2> QED
    BY <1>3, <2>6 DEF EffectiveBounds
<1> QED
  BY <1>2, <1>3

InBase(limit, value) == value \in Int /\ limit.min <= value /\ value <= limit.max

(* What the range check lets through is in the bound in force, and in the   *)
(* base bound (safety.py:238-298).                                          *)
LEMMA RangeSound ==
    ASSUME NEW limit, Numeric(limit), NEW absolute \in Int, NEW state,
           Passes(CheckRange(limit, absolute, state))
    PROVE  /\ InBase(limit, CheckRange(limit, absolute, state).value)
           /\ EffectiveBounds(limit, state).low
                <= CheckRange(limit, absolute, state).value
           /\ CheckRange(limit, absolute, state).value
                <= EffectiveBounds(limit, state).high
<1> DEFINE b == EffectiveBounds(limit, state)
           d == CheckRange(limit, absolute, state)
<1>1. /\ b.low \in Int /\ b.high \in Int
      /\ limit.min <= b.low /\ b.low < b.high /\ b.high <= limit.max
  BY BoundInForceNarrows
<1>2. /\ limit.min \in Int /\ limit.max \in Int
  BY DEF Numeric, WellFormed
<1> HIDE DEF b
<1>a. b.low <= b.high
  BY <1>1
<1>3. /\ Clip(absolute, b.low, b.high) \in Int
      /\ b.low <= Clip(absolute, b.low, b.high)
      /\ Clip(absolute, b.low, b.high) <= b.high
  BY <1>1, <1>a, ClipInterval
<1>4. d = CheckBounded(limit, absolute, Clip(absolute, b.low, b.high))
  BY DEF CheckRange, b
<1>5. d.value = Clip(absolute, b.low, b.high)
  BY <1>4 DEF CheckBounded, Passes, Decide, Refusal
<1> QED
  BY <1>1, <1>2, <1>3, <1>5 DEF InBase, b

(* A clamped step stays in the base bound and within the step.              *)
LEMMA StepClipped ==
    ASSUME NEW low \in Int, NEW high \in Int, NEW current \in Int, NEW aim \in Int,
           NEW step \in Nat,
           low <= current, current <= high,
           current - step <= aim, aim <= current + step
    PROVE  /\ Clip(aim, low, high) \in Int
           /\ low <= Clip(aim, low, high) /\ Clip(aim, low, high) <= high
           /\ Abs(Clip(aim, low, high) - current) <= step
  BY NaNAssumption DEF Clip, Less, Abs

LEMMA StepIsNat ==
    ASSUME NEW rate \in Nat, NEW elapsed \in Nat
    PROVE  rate * elapsed \in Nat
  BY SMT

(* The rate check keeps a passing value in the base bound, and within the   *)
(* rate of the previous value when it applies (safety.py:301-357).          *)
LEMMA RateSound ==
    ASSUME NEW limit, Numeric(limit), NEW value, InBase(limit, value),
           NEW verdict \in {"accept", "clamp"},
           NEW current, current # None => InBase(limit, current),
           NEW elapsed \in Nat \cup {None},
           Passes(CheckRate(limit, Decide(verdict, value), current, elapsed))
    PROVE  LET d == CheckRate(limit, Decide(verdict, value), current, elapsed)
           IN  /\ InBase(limit, d.value)
               /\ RateApplies(limit, current, elapsed) =>
                     Abs(d.value - current) <= limit.max_rate * elapsed
<1> DEFINE decision == Decide(verdict, value)
           d == CheckRate(limit, decision, current, elapsed)
<1>1. decision.value = value /\ Passes(decision)
  BY DEF Decide, Passes
<1>2. /\ limit.min \in Int /\ limit.max \in Int
      /\ limit.max_rate # None => limit.max_rate \in Nat
  BY DEF Numeric, WellFormed
<1>3. CASE ~RateApplies(limit, current, elapsed)
  <2>1. d = decision
    BY <1>3 DEF CheckRate
  <2> QED
    BY <1>1, <1>3, <2>1
<1>4. CASE /\ RateApplies(limit, current, elapsed)
           /\ WithinRate(limit, value, current, elapsed)
  <2>1. d = decision
    BY <1>1, <1>4 DEF CheckRate
  <2> QED
    BY <1>1, <1>4, <2>1 DEF WithinRate
<1>5. CASE /\ RateApplies(limit, current, elapsed)
           /\ ~WithinRate(limit, value, current, elapsed)
  <2> DEFINE step == limit.max_rate * elapsed
             aim == Plus(current, IF Less(value, current) THEN -step ELSE step)
  <2>1. d = Decide("clamp", Reachable(limit, value, current, elapsed))
    BY <1>1, <1>5 DEF CheckRate, Refusal, Decide, Passes
  <2>2. /\ current \in Int /\ limit.min <= current /\ current <= limit.max
        /\ elapsed \in Nat /\ limit.max_rate \in Nat
    BY <1>2, <1>5 DEF RateApplies, InBase
  <2>3. step \in Nat
    BY <2>2, StepIsNat
  <2> HIDE DEF step
  <2>4. aim \in Int /\ current - step <= aim /\ aim <= current + step
    BY <2>2, <2>3, NaNAssumption DEF Plus, Less
  <2>5. Reachable(limit, value, current, elapsed) = Clip(aim, limit.min, limit.max)
    BY DEF Reachable, step
  <2> HIDE DEF aim
  <2>6. /\ InBase(limit, Clip(aim, limit.min, limit.max))
        /\ Abs(Clip(aim, limit.min, limit.max) - current) <= step
    BY <1>2, <2>2, <2>3, <2>4, StepClipped DEF InBase
  <2>7. d.value = Clip(aim, limit.min, limit.max)
    BY <2>1, <2>5 DEF Decide
  <2> QED
    BY <2>6, <2>7 DEF step
<1> QED
  BY <1>3, <1>4, <1>5

(* What passes of a numeric scalar is in the base bound, absolute or        *)
(* relative, and obeys the rate cap (safety.py:168-199).                    *)
THEOREM ScalarSound ==
    ASSUME NEW actuator, NEW limit, Numeric(limit), NEW value \in Int,
           NEW current, current # None => InBase(limit, current),
           NEW elapsed \in Nat \cup {None}, NEW state,
           Passes(CheckScalar(actuator, limit, value, current, elapsed, state))
    PROVE  LET d == CheckScalar(actuator, limit, value, current, elapsed, state)
           IN  /\ InBase(limit, d.value)
               /\ RateApplies(limit, current, elapsed) =>
                     Abs(d.value - current) <= limit.max_rate * elapsed
<1> DEFINE absolute == Resolve(actuator, value, current)
           r == CheckRange(limit, absolute, state)
           d == CheckScalar(actuator, limit, value, current, elapsed, state)
<1>1. limit.allowed = None
  BY DEF Numeric
<1>2. Resolvable(actuator, limit, current)
  BY DEF CheckScalar, Passes, Decide
<1>3. absolute \in Int
  BY <1>2, NaNAssumption DEF Resolvable, Resolve, Plus, InBase
<1>4. d = CheckRate(limit, r, current, elapsed)
  BY <1>1, <1>2 DEF CheckScalar
<1> HIDE DEF absolute
<1>5. Passes(r)
  BY <1>4 DEF CheckRate
<1>6. InBase(limit, r.value)
  BY <1>3, <1>5, RangeSound
<1>7. r.verdict \in {"accept", "clamp"} /\ r = Decide(r.verdict, r.value)
  BY <1>5 DEF Passes, CheckRange, CheckBounded, Decide, Refusal
<1> HIDE DEF r
<1>8. Passes(CheckRate(limit, Decide(r.verdict, r.value), current, elapsed))
  BY <1>4, <1>7
<1> QED
  BY <1>4, <1>6, <1>7, <1>8, RateSound

(* What passes of a vector has every component in the base bound            *)
(* (safety.py:238-298).                                                     *)
THEOREM VectorSound ==
    ASSUME NEW limit, Numeric(limit), NEW n \in Nat, NEW absolute \in [1..n -> Int],
           NEW state, Passes(CheckVector(limit, absolute, state))
    PROVE  LET d == CheckVector(limit, absolute, state)
           IN  d.value \in [1..n -> Int] /\ \A i \in 1..n : InBase(limit, d.value[i])
<1> DEFINE b == EffectiveBounds(limit, state)
           bounded == [i \in 1..n |-> Clip(absolute[i], b.low, b.high)]
<1>1. /\ b.low \in Int /\ b.high \in Int
      /\ limit.min <= b.low /\ b.low < b.high /\ b.high <= limit.max
  BY BoundInForceNarrows
<1>2. /\ limit.min \in Int /\ limit.max \in Int
  BY DEF Numeric, WellFormed
<1>3. CheckVector(limit, absolute, state).value = bounded
  BY DEF CheckVector, CheckBounded, Passes, Decide, Refusal
<1> HIDE DEF b
<1>4. b.low <= b.high
  BY <1>1
<1>5. ASSUME NEW i \in 1..n
      PROVE  InBase(limit, bounded[i]) /\ bounded[i] \in Int
  <2>1. absolute[i] \in Int /\ bounded[i] = Clip(absolute[i], b.low, b.high)
    OBVIOUS
  <2>2. /\ Clip(absolute[i], b.low, b.high) \in Int
        /\ b.low <= Clip(absolute[i], b.low, b.high)
        /\ Clip(absolute[i], b.low, b.high) <= b.high
    BY <1>1, <1>4, <2>1, ClipInterval
  <2> QED
    BY <1>1, <1>2, <2>1, <2>2 DEF InBase
<1> QED
  BY <1>3, <1>5

(* The inputs a caller may send: a list of numbers, or a scalar that is an  *)
(* integer where it is a number.                                            *)
Input(v) ==
    /\ v.kind = "number" => v.of \in Int
    /\ v.kind = "list" => \E n \in Nat : v.of \in [1..n -> Int]

(* The legal places of an actuator: one of its states, a value of its base  *)
(* bound, or a vector of them.                                              *)
Legal(actuator, limit, value) ==
    IF limit.allowed # None THEN value \in limit.allowed
    ELSE IF actuator.datatype = "vector3"
    THEN \E n \in Nat : /\ value \in [1..n -> Int]
                        /\ \A i \in 1..n : InBase(limit, value[i])
    ELSE InBase(limit, value)

(* Nothing the evaluator lets through leaves the envelope of the tag: for   *)
(* every ingested limit, every input, every history and every reading       *)
(* (safety.py:65-357).                                                      *)
THEOREM WriteSound ==
    ASSUME NEW actuator, NEW limit, NEW supported, Ingested(actuator, limit, supported),
           actuator.datatype \in NumericTypes \cup {"boolean", "string", "enum"},
           NEW v, Input(v), NEW current, NEW elapsed \in Nat \cup {None}, NEW state,
           limit.allowed = None /\ current # None /\ actuator.datatype # "vector3"
               => InBase(limit, current),
           Passes(CheckWrite(actuator, limit, v, current, elapsed, state))
    PROVE  Legal(actuator, limit,
                 CheckWrite(actuator, limit, v, current, elapsed, state).value)
<1> DEFINE d == CheckWrite(actuator, limit, v, current, elapsed, state)
<1>1. Coerces(actuator, v) /\ ~CoercionFails(actuator, v)
  BY DEF CheckWrite, Passes, Decide
<1>2. v.kind = KindOf(actuator.datatype)
  BY <1>1 DEF Coerces
<1>3. WellFormed(limit) /\ ConditionsNarrow(limit) /\ FormFits(actuator, limit)
  BY DEF Ingested
<1>4. CASE limit.allowed # None
  <2>1. actuator.datatype \in {"boolean", "string", "enum"}
    BY <1>3, <1>4 DEF FormFits
  <2>2. v.kind # "list"
    BY <1>2, <2>1 DEF KindOf
  <2>3. d = CheckScalar(actuator, limit, v.of, current, elapsed, state)
    BY <1>1, <2>2 DEF CheckWrite
  <2>4. Passes(CheckDiscrete(limit, Resolve(actuator, v.of, current)))
        /\ d = CheckDiscrete(limit, Resolve(actuator, v.of, current))
    BY <1>4, <2>3 DEF CheckScalar, Passes, Decide
  <2> QED
    BY <1>4, <2>4 DEF CheckDiscrete, Passes, Decide, Refusal, Legal
<1>5. CASE limit.allowed = None /\ actuator.datatype = "vector3"
  <2>1. v.kind = "list"
    BY <1>2, <1>5 DEF KindOf
  <2>2. d = CheckVector(limit, v.of, state)
    BY <1>1, <2>1 DEF CheckWrite, Passes, Decide
  <2>3. PICK n \in Nat : v.of \in [1..n -> Int]
    BY <2>1 DEF Input
  <2>4. Numeric(limit)
    BY <1>3, <1>5 DEF Numeric
  <2>5. d.value \in [1..n -> Int] /\ \A i \in 1..n : InBase(limit, d.value[i])
    BY <2>2, <2>3, <2>4, VectorSound
  <2> QED
    BY <1>5, <2>5 DEF Legal
<1>6. CASE limit.allowed = None /\ actuator.datatype # "vector3"
  <2>1. actuator.datatype \in {"number", "integer"}
    BY <1>3, <1>6 DEF FormFits, NumericTypes
  <2>2. v.kind = "number"
    BY <1>2, <2>1 DEF KindOf
  <2>3. v.of \in Int
    BY <2>2 DEF Input
  <2>4. d = CheckScalar(actuator, limit, v.of, current, elapsed, state)
    BY <1>1, <2>2 DEF CheckWrite
  <2>5. Numeric(limit)
    BY <1>3, <1>6 DEF Numeric
  <2>6. InBase(limit, d.value)
    BY <1>6, <2>3, <2>4, <2>5, ScalarSound
  <2> QED
    BY <1>6, <2>6 DEF Legal
<1> QED
  BY <1>4, <1>5, <1>6
=============================================================================
