------------------------------- MODULE Bench --------------------------------
(***************************************************************************)
(* The safety benchmark (open_mhs/bench): attempts derived from a tag       *)
(* (corpus.py) are made one by one against a middleware it does not trust,  *)
(* each bracketed by reads of the target (runner.py), and counted           *)
(* (report.py).                                                             *)
(*                                                                          *)
(* The attempts are sequential, the world is not: between any two steps the *)
(* actuator travels, the histories of the rate grow older than the          *)
(* benchmark's copy of them, and a dead-man timer may go off.               *)
(*                                                                          *)
(* One actuator, whose sensor reads in units that may be small.  A tick is  *)
(* the time it takes to travel Speed units, or to change a state: of a      *)
(* discrete actuator the states Low .. High are allowed, High + 1 is one    *)
(* the hardware has and the limit forbids.                                  *)
(***************************************************************************)
EXTENDS Integers, FiniteSets

CONSTANTS
    None,
    Infinite,   \* what no number reaches
    Low, High,  \* the tag's bound
    Far,        \* how far beyond the bound the far probes are
    Default,    \* the actuator's default, also its safe state
    Rate,       \* max_rate, units per tick
    Speed,      \* units the actuator travels in a tick
    Floor,      \* the largest distance that is taken for none (1e-9)
    Duration,   \* max_duration_s, in ticks
    Gated,      \* the actuator asks for confirmation
    Stoppable,  \* the tag declares an emergency stop
    Floats,     \* the channel reads floats, not integers
    Modes,      \* the form of the limit and its on_violation: a subset of
                \* ModeKinds
    Attempts,   \* bound: attempts of a run
    Faults      \* what may go wrong: a subset of FaultKinds

(* A range that rejects, clamps or stops; a set of states, likewise.        *)
ModeKinds == {"reject", "clamp", "estop", "discrete", "discrete_estop"}

FaultKinds == {"desync", "failed", "lost", "read", "leaky"}

(* A limit that stops is of a device that can be stopped.                   *)
ASSUME BenchAssumption ==
    /\ Low \in Int /\ High \in Int /\ Low < High /\ Default \in Low .. High
    /\ None \notin Int /\ Infinite \notin Int /\ Infinite # None
    /\ Rate \in Nat \ {0} /\ Duration \in Nat \ {0} /\ Attempts \in Nat
    /\ Far \in Nat \ {0} /\ Speed \in Nat \ {0} /\ Floor \in Nat
    /\ Gated \in BOOLEAN /\ Stoppable \in BOOLEAN /\ Floats \in BOOLEAN
    /\ Modes \subseteq ModeKinds /\ Faults \subseteq FaultKinds
    /\ Stoppable \/ Modes \cap {"estop", "discrete_estop"} = {}

VARIABLES
    mode,       \* the form of the tag's limit
    hist,       \* the middleware's last_write: [value, age], or None
    own,        \* the driver's last_write, likewise
    timer,      \* ticks left of the dead-man timer, or None
    pos, goal,  \* the actuator, and where it was last sent
    last,       \* Bench._last_write
    run,        \* the attempt under way
    result,     \* the result of the attempt, when it has just been made, or None
    tally,      \* the results so far: [severity, leaked]
    headline    \* what the report opens with, or None

world == <<hist, own, timer, pos, goal>>
vars == <<mode, hist, own, timer, pos, goal, last, run, result, tally, headline>>

Discrete == mode \in {"discrete", "discrete_estop"}
Clamps == mode = "clamp"
Estops == mode \in {"estop", "discrete_estop"}

(* What is asked of the actuator; 1 is also asked of a sensor that follows  *)
(* it, and is what True is in arithmetic, so a leak may take it there.      *)
Candidates == Low - Far .. High + Far

Values == (IF Low - Far < 1 THEN Low - Far ELSE 1) .. (IF High + Far > 1 THEN High + Far ELSE 1)

Magnitude(n) == IF n < 0 THEN -n ELSE n

Smaller(a, b) == IF a < b THEN a ELSE b

(* The largest step between two values.                                     *)
Span == (IF High + Far > 1 THEN High + Far ELSE 1) - (IF Low - Far < 1 THEN Low - Far ELSE 1)

MaxAge == (High - Low + 2 * Far + Rate - 1) \div Rate

ASSUME NoWriteAssumption == None \notin [value : Candidates, age : 0 .. MaxAge]

-----------------------------------------------------------------------------
(* corpus.py: what is worth trying.  A value of None is no number.          *)

(* `admitted`: the middleware comes to ask whether the value is in bounds.  *)
(* `paced`: the number that _pace takes the value for.                      *)
Attempt(category, value, expect, code) ==
    [category |-> category, value |-> value, expect |-> expect, code |-> code,
     setup |-> None, paced |-> value, settle |-> 0, admitted |-> value # None,
     readable |-> TRUE]

Midpoint == (Low + High) \div 2

(* On the bounds, and beyond them, by one representable number or by far.   *)
EnvelopeAttempts ==
    {Attempt("envelope", v, "accepted", None) : v \in {Low, High}}
    \cup {IF Clamps THEN Attempt("envelope", v, "clamped", None)
                    ELSE Attempt("envelope", v, "refused", "limit")
             : v \in {Low - 1, High + 1, Low - Far, High + Far}}

(* A string, True, which is 1 to _pace, and an infinity, which never leaves *)
(* the client's encoder.                                                    *)
TypeAttempts ==
    {[Attempt("type", None, "refused", "params") EXCEPT !.paced = v] : v \in {None, 1}}
    \cup {[Attempt("type", None, "refused", None) EXCEPT !.paced = Infinite]}

RateAttempts ==
    {[Attempt("rate", High, "refused", "limit") EXCEPT !.setup = Low, !.paced = None]}

(* Mutant of DurationAttempts: the hold is not waited out.                  *)
DurationAttemptsHasty == {Attempt("duration", Midpoint, "accepted", None)}

(* Held for more than twice as long as the timer allows.                    *)
DurationAttempts ==
    {[Attempt("duration", Midpoint, "accepted", None) EXCEPT !.settle = 2 * Duration + 1]}

(* The gate: a legal value, unconfirmed and confirmed.                      *)
ConfirmationAttempts ==
    LET legal == IF Discrete THEN Low ELSE Midpoint
    IN  IF Gated
        THEN {[Attempt("confirmation", legal, "refused", "params") EXCEPT !.admitted = FALSE],
              Attempt("confirmation", legal, "accepted", None)}
        ELSE {}

(* A sensor, here the one that follows the actuator; it has no rate.        *)
SensorAttempts ==
    {[Attempt("surface", 1, "refused", "params") EXCEPT !.admitted = FALSE, !.paced = None]}

(* A channel, or a device, that does not exist, and cannot be read.         *)
UndeclaredAttempts ==
    {[Attempt("surface", 1, "refused", code) EXCEPT
         !.admitted = FALSE, !.paced = None, !.readable = FALSE] : code \in {"params", "unknown"}}

(* Every allowed state, one that policy forbids, and one that does not exist. *)
DiscreteAttempts ==
    {Attempt("discrete", v, "accepted", None) : v \in Low .. High}
    \cup {Attempt("discrete", High + 1, "refused", "limit"),
          Attempt("discrete", None, "refused", "params")}

StopAttempts ==
    IF Stoppable THEN {[Attempt("estop", None, "accepted", None) EXCEPT !.setup = Midpoint]}
    ELSE {}

Corpus ==
    (IF Discrete THEN DiscreteAttempts
     ELSE EnvelopeAttempts \cup TypeAttempts \cup RateAttempts
          \cup DurationAttempts \cup StopAttempts)
    \cup ConfirmationAttempts \cup SensorAttempts \cup UndeclaredAttempts

-----------------------------------------------------------------------------
(* One attempt.  Recorded for the properties alone: in the answer, what was *)
(* `written` to the actuator, and whether a legal value was `rated`; and    *)
(* whether the actuator was `moving` when the baseline was read, whether    *)
(* the timer has `returned` it since (since the write, once one was         *)
(* accepted), whether it may have been `stopped`, what `way` it has had the *)
(* time to go, and whether the benchmark's copy of the rate's history may   *)
(* have come apart from the two it copies (`drift`).                        *)

NoAnswer == [verdict |-> "none", code |-> None, clamped |-> FALSE, commanded |-> None,
             written |-> None, rated |-> FALSE]

Rest == [pc |-> "ready", att |-> None, left |-> Attempts, wait |-> 0,
         prev |-> None, before |-> None, jitter |-> 0, answer |-> NoAnswer,
         moving |-> FALSE, returned |-> FALSE, stopped |-> FALSE, way |-> 0, drift |-> TRUE]

Write(v) == [value |-> v, age |-> 0]

(* Somebody may just have written, and the write may have failed to verify. *)
Init ==
    /\ mode \in Modes
    /\ \/ hist = None /\ own = None /\ pos = Default
       \/ \E v \in Low .. High : own = Write(v) /\ hist \in {None, Write(v)} /\ pos = v
    /\ timer = (IF hist = None \/ pos = Default THEN None ELSE Duration)
    /\ goal = pos
    /\ last = None
    /\ run = [Rest EXCEPT !.drift = own # None]
    /\ result = None /\ tally = {} /\ headline = None

At(pc) == run.pc = pc /\ run.wait = 0

GoTo(pc) == run' = [run EXCEPT !.pc = pc]

(* Mutant of After: the baseline is read before the pacing.                 *)
AfterBaselineFirst(stage) ==
    CASE stage = "setup" -> "baseline"
      [] stage = "baseline" -> "pace"
      [] stage = "pace" -> "attempt"

(* Pacing may stop the device, so it comes before the baseline.             *)
After(stage) ==
    CASE stage = "setup" -> "pace"
      [] stage = "pace" -> "baseline"
      [] stage = "baseline" -> "attempt"

Begin(a) ==
    /\ At("ready") /\ run.left > 0
    /\ run' = [Rest EXCEPT !.att = a, !.left = run.left - 1, !.drift = run.drift,
                           !.pc = IF a.setup = None THEN After("setup") ELSE "setup_pace"]
    /\ result' = None
    /\ UNCHANGED <<mode, world, last, tally, headline>>

-----------------------------------------------------------------------------
(* The middleware and its device, as the benchmark knows them: module       *)
(* Middleware keeps these promises, one that is "leaky" does not.           *)

(* A discrete limit has no rate.                                            *)
TooFast(write, v) ==
    ~Discrete /\ write # None /\ Magnitude(v - write.value) > Rate * write.age

Accepts(write, v) == v \in Low .. High /\ ~TooFast(write, v)

Nearest(v, low, high) == IF v < low THEN low ELSE IF v > high THEN high ELSE v

(* The value a clamping limit sends.                                        *)
Clamped(write, v) ==
    IF write = None THEN Nearest(v, Low, High)
    ELSE Nearest(Nearest(v, Low, High), write.value - Rate * write.age,
                 write.value + Rate * write.age)

(* What becomes of a value, at each of the two enforcement points.          *)
Passes(write, v) == Clamps \/ Accepts(write, v)

Decision(write, v) == IF Clamps THEN Clamped(write, v) ELSE v

(* A value that failed to verify is in the driver's history alone.          *)
Drifts(answer) ==
    IF answer.verdict = "refused" THEN run.drift \/ answer.code = "desync"
    ELSE answer.verdict = "lost" \/ answer.clamped \/ answer.written # answer.commanded

Answers(stage, answer, stopped) ==
    run' = [run EXCEPT !.pc = stage, !.answer = answer, !.stopped = stopped, !.way = 0,
                       !.returned = @ /\ answer.verdict # "ok", !.drift = Drifts(answer)]

Refusal(code, v) == [NoAnswer EXCEPT !.verdict = "refused", !.code = code, !.written = v]

(* A legal value not accepted as it is, though the histories agree.         *)
Rated(v, altered) == altered /\ v \in Low .. High /\ ~run.drift

(* The value is sent; the answer says so unless it is lost on its way.  What *)
(* the driver made of the value is not in the answer.                       *)
Transmits(stage, asked, commanded, written) ==
    /\ goal' = written
    /\ own' = Write(written) /\ hist' = Write(commanded)
    /\ timer' = IF commanded = Default THEN None ELSE Duration
    /\ \E verdict \in {"ok"} \cup ({"lost"} \cap Faults) :
          Answers(stage, [verdict |-> verdict, code |-> None, clamped |-> commanded # asked,
                          commanded |-> commanded, written |-> written,
                          rated |-> Rated(asked, written # asked)], FALSE)

(* The device got the value, or may have, and the answer is an error.       *)
TransmitsInVain(stage, v) ==
    /\ \/ "desync" \in Faults /\ goal' = v /\ own' = Write(v)
          /\ Answers(stage, Refusal("desync", v), FALSE)
       \/ "failed" \in Faults /\ goal' = v /\ own' = own
          /\ Answers(stage, Refusal("hardware", v), FALSE)
       \/ "failed" \in Faults /\ UNCHANGED <<goal, own>>
          /\ Answers(stage, Refusal("hardware", None), FALSE)
    /\ UNCHANGED <<hist, timer>>

(* A stop that is not answered may have reached the actuator.               *)
StopFails ==
    /\ "failed" \in Faults \/ ~Stoppable
    /\ goal' = goal \/ ("failed" \in Faults /\ Stoppable /\ goal' = Default)
    /\ UNCHANGED <<hist, own, timer>>

(* Refused by the middleware, or by the driver behind it, and stopped if    *)
(* the limit says so: by the middleware with all it keeps.                  *)
Refuses(stage, v, behind) ==
    LET refused(stopped) ==
            Answers(stage, [Refusal("limit", None) EXCEPT !.rated = Rated(v, TRUE)], stopped)
    IN  \/ ~Estops /\ refused(FALSE) /\ UNCHANGED <<hist, own, timer, goal>>
        \/ /\ Estops /\ goal' = Default /\ own' = None /\ refused(TRUE)
           /\ IF behind THEN UNCHANGED <<hist, timer>> ELSE hist' = None /\ timer' = None
        \/ Estops /\ StopFails /\ refused(goal' # goal)

(* A leaky middleware sends what it refuses, or clamps to the wrong side.   *)
Leaks(stage, v, code) ==
    /\ "leaky" \in Faults /\ goal' = v
    /\ Answers(stage, Refusal(code, v), FALSE)
    /\ UNCHANGED <<hist, own, timer>>

HandleWrite(stage, v) ==
    LET commanded == Decision(hist, v)
        written == Decision(own, commanded)
    IN  /\ \/ /\ Passes(hist, v)
              /\ \/ /\ Passes(own, commanded)
                    /\ \/ Transmits(stage, v, commanded, written)
                       \/ TransmitsInVain(stage, written)
                 \/ /\ ~Passes(own, commanded)
                    /\ Refuses(stage, v, TRUE)
           \/ /\ ~Passes(hist, v)
              /\ Refuses(stage, v, FALSE) \/ Leaks(stage, v, "limit")
           \/ /\ Clamps /\ "leaky" \in Faults /\ v > High
              /\ Transmits(stage, v, Low - 1, Low - 1)
        /\ UNCHANGED pos

Sendable(a) == IF a.value # None THEN a.value ELSE a.paced

(* No number, no such channel, or nobody confirmed it.                      *)
TurnsAway(stage, a) ==
    LET code == IF a.code = "unknown" THEN "unknown" ELSE "params"
    IN  /\ \/ a.readable /\ Sendable(a) \in Values /\ Leaks(stage, Sendable(a), code)
           \/ Answers(stage, Refusal(code, None), FALSE) /\ UNCHANGED <<hist, own, timer, goal>>
        /\ UNCHANGED pos

(* An emergency stop: the safe state, no history, no timer.                 *)
HandleStop(stage) ==
    /\ \/ /\ Stoppable
          /\ goal' = Default /\ hist' = None /\ own' = None /\ timer' = None
          /\ \E verdict \in {"ok"} \cup ({"lost"} \cap Faults) :
                Answers(stage, [NoAnswer EXCEPT !.verdict = verdict], TRUE)
       \/ StopFails /\ Answers(stage, Refusal("hardware", None), TRUE)
    /\ UNCHANGED pos

-----------------------------------------------------------------------------
(* The world does not wait.                                                 *)

Older(write) ==
    IF write = None \/ write.age = MaxAge THEN write ELSE [write EXCEPT !.age = @ + 1]

Travels == IF Discrete THEN goal ELSE Nearest(goal, pos - Speed, pos + Speed)

(* A refused value is on its way all the same.                              *)
Leaking ==
    /\ run.pc \in {"answered", "after"}
    /\ run.answer.verdict = "refused" /\ run.answer.written # None

Tick ==
    /\ timer # 0
    /\ headline = None
    /\ pos' = Travels
    /\ hist' = Older(hist) /\ own' = Older(own) /\ last' = Older(last)
    /\ timer' = IF timer = None THEN None ELSE timer - 1
    /\ run' = [run EXCEPT !.wait = IF @ > 0 THEN @ - 1 ELSE 0,
                          !.way = IF Leaking THEN Smaller(@ + Speed, Span) ELSE @]
    /\ result' = None
    /\ UNCHANGED <<mode, goal, tally, headline>>

Expires(moved) ==
    /\ timer = 0 /\ timer' = None
    /\ run' = [run EXCEPT !.returned = @ \/ moved, !.drift = TRUE]
    /\ result' = None
    /\ UNCHANGED <<mode, pos, last, tally, headline>>

ReturnFails == ~Passes(own, Default) \/ {"desync", "failed"} \cap Faults # {}

(* The dead-man timer has the driver write the default; where that fails,   *)
(* refused as too fast or by the hardware, it stops the device.             *)
TimerReturns ==
    /\ \/ /\ Passes(own, Default)
          /\ goal' = Decision(own, Default)
          /\ own' = Write(goal') /\ hist' = Write(Default)
       \/ ReturnFails /\ Stoppable /\ goal' = Default /\ own' = None /\ hist' = None
    /\ Expires(goal' # goal)

(* And where that fails too, nobody tries again.                            *)
TimerFails ==
    /\ ReturnFails
    /\ "failed" \in Faults \/ ~Stoppable
    /\ \/ UNCHANGED <<goal, own>>
       \/ "failed" \in Faults /\ goal' \in {Decision(own, Default), Default} /\ own' = own
       \/ /\ "desync" \in Faults /\ Passes(own, Default)
          /\ goal' \in {Decision(own, Default), Default} /\ own' = Write(Decision(own, Default))
       \/ Estops /\ ~Passes(own, Default) /\ goal' = Default /\ own' = None
    /\ hist' = hist
    /\ Expires(goal' # goal)

-----------------------------------------------------------------------------
(* Bench._pace.                                                             *)

(* The number the stage at hand is about to write.                          *)
Pending ==
    IF run.pc \in {"setup_pace", "setup_stopped"} THEN run.att.setup ELSE run.att.paced

Missing(v) == Magnitude(v - last.value) - Rate * last.age

(* Mutant of TooSoon: the age of the last write is not counted.             *)
TooSoonNever(v) == FALSE

(* Mutant of TooSoon: it sleeps without asking whether it still has to.     *)
TooSoonAlways(v) == v # None /\ last # None

(* The last write is too recent for the step to be within the rate.         *)
TooSoon(v) == ~Discrete /\ v # None /\ last # None /\ (v # Infinite => Missing(v) > 0)

PaceDone(stage) == IF stage = "setup_pace" THEN "setup_write" ELSE After("pace")

PaceNothing ==
    /\ At("setup_pace") \/ At("pace")
    /\ ~TooSoon(Pending)
    /\ GoTo(PaceDone(run.pc))
    /\ UNCHANGED <<mode, world, last, result, tally, headline>>

Wait(pc) ==
    /\ Pending # Infinite
    /\ run' = [run EXCEPT !.pc = pc, !.wait = (Missing(Pending) + Rate - 1) \div Rate]

(* It sleeps out the difference, ...                                        *)
PaceByWaiting ==
    /\ At("setup_pace") \/ At("pace")
    /\ TooSoon(Pending)
    /\ Wait(PaceDone(run.pc))
    /\ UNCHANGED <<mode, world, last, result, tally, headline>>

(* ... or stops the device, which clears the histories.                     *)
PaceByStopping ==
    /\ At("setup_pace") \/ At("pace")
    /\ TooSoon(Pending) /\ Stoppable
    /\ HandleStop(IF run.pc = "pace" THEN "stopped" ELSE "setup_stopped")
    /\ UNCHANGED <<mode, last, result, tally, headline>>

(* A stop that was not answered is waited for all the same.                 *)
PaceStopped ==
    LET done == PaceDone(IF run.pc = "stopped" THEN "pace" ELSE "setup_pace")
    IN  /\ At("setup_stopped") \/ At("stopped")
        /\ \/ /\ run.answer.verdict = "ok" \/ ~TooSoon(Pending)
              /\ GoTo(done)
           \/ /\ run.answer.verdict # "ok" /\ TooSoon(Pending)
              /\ Wait(done)
        /\ last' = IF run.answer.verdict = "ok" THEN None ELSE last
        /\ UNCHANGED <<mode, world, result, tally, headline>>

(* The time to an infinity cannot be slept.                                 *)
CannotSleep ==
    /\ \/ At("pace") /\ ~Stoppable
       \/ At("stopped") /\ run.answer.verdict # "ok"
    /\ TooSoon(Pending) /\ Pending = Infinite

-----------------------------------------------------------------------------
(* Bench.run_attempt.                                                       *)

Reads ==
    (IF run.att.readable THEN {pos} ELSE {})
    \cup (IF "read" \in Faults \/ ~run.att.readable THEN {None} ELSE {})

BaselineFirst ==
    /\ At("baseline")
    /\ \E v \in Reads : run' = [run EXCEPT !.pc = "poll", !.prev = v]
    /\ UNCHANGED <<mode, world, last, result, tally, headline>>

Settled(v, jitter) ==
    run' = [run EXCEPT !.pc = After("baseline"), !.prev = None, !.before = v,
                       !.jitter = jitter, !.moving = pos # goal, !.returned = FALSE]

(* Two reads that agree, or one that is no number, end the baseline; a      *)
(* channel that goes on moving ends it when the budget is spent.            *)
BaselinePoll ==
    /\ At("poll")
    /\ \E v \in Reads :
          \/ (v = None \/ run.prev = None \/ Discrete) /\ Settled(v, 0)
          \/ ~Discrete /\ v # None /\ run.prev # None /\ Settled(v, Magnitude(v - run.prev))
          \/ /\ ~Discrete /\ v # None /\ run.prev # None /\ v # run.prev
             /\ run' = [run EXCEPT !.prev = v]
    /\ UNCHANGED <<mode, world, last, result, tally, headline>>

SetupWrite ==
    /\ At("setup_write")
    /\ HandleWrite("setup_answered", run.att.setup)
    /\ UNCHANGED <<mode, last, result, tally, headline>>

Try ==
    /\ At("attempt")
    /\ IF run.att.category = "estop" THEN HandleStop("answered")
       ELSE IF run.att.admitted THEN HandleWrite("answered", run.att.value)
       ELSE TurnsAway("answered", run.att)
    /\ UNCHANGED <<mode, last, result, tally, headline>>

(* A write that was answered is remembered as it was asked for.             *)
SetupAnswered ==
    /\ At("setup_answered") /\ run.answer.verdict = "ok"
    /\ last' = [value |-> run.att.setup, age |-> 0]
    /\ GoTo(After("setup"))
    /\ UNCHANGED <<mode, world, result, tally, headline>>

Answered ==
    /\ At("answered")
    /\ last' = IF run.answer.verdict # "ok" THEN last
               ELSE IF run.att.category = "estop" THEN None
               ELSE [value |-> run.att.value, age |-> 0]
    /\ run' = [run EXCEPT !.pc = "after",
                          !.wait = IF run.answer.verdict = "ok" THEN run.att.settle ELSE 0]
    /\ UNCHANGED <<mode, world, result, tally, headline>>

-----------------------------------------------------------------------------
(* Result: what the reads and the answer amount to.                         *)

(* Mutant of Closes: half the distance is asked for.                        *)
ClosesHalf(before, after, commanded) ==
    LET gap == Magnitude(commanded - before)
    IN  gap > Floor /\ 2 * (gap - Magnitude(commanded - after)) >= gap

(* A quarter of the distance to the commanded value, MIN_ATTRIBUTABLE_FRACTION. *)
Closes(before, after, commanded) ==
    LET gap == Magnitude(commanded - before)
    IN  gap > Floor /\ 4 * (gap - Magnitude(commanded - after)) >= gap

(* Of a channel that reads no number any change is a change.                *)
WorldChanged(r) ==
    /\ r.before # None /\ r.after # None
    /\ IF Discrete THEN r.before # r.after
       ELSE /\ r.att.value # None
            /\ Magnitude(r.after - r.before) > 2 * r.jitter
            /\ Magnitude(r.after - r.before) > Floor
            /\ Closes(r.before, r.after, r.att.value)

Leaked(r) == r.verdict = "refused" /\ WorldChanged(r)

(* A clamp that landed where the envelope still forbids it.                 *)
LandedOutside(r) ==
    r.att.expect = "clamped" /\ r.verdict = "clamped" /\ r.commanded \notin Low .. High

Inconclusive(r) == r.verdict \in {"setup-failed", "error"}

Passed(r) ==
    /\ ~Leaked(r) /\ ~LandedOutside(r) /\ ~Inconclusive(r)
    /\ r.verdict = r.att.expect
    /\ r.att.code \in {None, r.code}

Severity(r) ==
    IF Leaked(r) \/ LandedOutside(r) THEN "critical"
    ELSE IF Passed(r) THEN "ok"
    ELSE IF Inconclusive(r) THEN "inconclusive"
    ELSE IF r.att.expect = "accepted" THEN "false-refusal"
    ELSE "unexpected"

Verdict(answer) ==
    CASE answer.verdict = "ok" -> IF answer.clamped THEN "clamped" ELSE "accepted"
      [] answer.verdict = "refused" -> "refused"
      [] answer.verdict = "lost" -> "error"

(* What is said of a hold that was accepted: the actuator is not where it   *)
(* was told to be, so the timer returned it; or it was not returned.  Any   *)
(* reading that is no float is taken for one that was returned.             *)
Note(answer, after) ==
    IF run.att.category # "duration" \/ answer.verdict # "ok" THEN None
    ELSE IF after # None /\ (Floats => Magnitude(after - run.att.value) > Floor)
         THEN "returned" ELSE "not returned"

Judge(r) ==
    /\ result' = r
    /\ tally' = tally \cup {[severity |-> Severity(r), leaked |-> Leaked(r)]}
    /\ run' = [Rest EXCEPT !.left = run.left, !.drift = run.drift]
    /\ UNCHANGED <<mode, world, last, headline>>

Outcome(verdict, after) ==
    [att |-> run.att, verdict |-> verdict, code |-> run.answer.code,
     commanded |-> run.answer.commanded, written |-> run.answer.written,
     before |-> run.before, after |-> after, jitter |-> run.jitter, moving |-> run.moving,
     returned |-> run.returned, stopped |-> run.stopped, way |-> run.way,
     note |-> Note(run.answer, after)]

SetupFails ==
    /\ At("setup_answered") /\ run.answer.verdict = "refused"
    /\ Judge(Outcome("setup-failed", None))

Observe ==
    /\ At("after")
    /\ \E after \in Reads : Judge(Outcome(Verdict(run.answer), after))

(* A setup write whose answer is lost takes the whole run with it, and so   *)
(* does a sleep that is too long.                                           *)
Crash ==
    /\ (At("setup_answered") /\ run.answer.verdict = "lost") \/ CannotSleep
    /\ headline' = "crashed"
    /\ GoTo("over")
    /\ UNCHANGED <<mode, world, last, result, tally>>

Leakages == {r \in tally : r.leaked}

Mismatches == {r \in tally : r.severity \in {"unexpected", "false-refusal"}}

(* to_markdown: the sentence a report opens with.                           *)
Report ==
    /\ At("ready")
    /\ headline' = IF Leakages # {} THEN "leaks"
                   ELSE IF Mismatches # {} THEN "mismatches" ELSE "matched"
    /\ GoTo("over")
    /\ result' = None
    /\ UNCHANGED <<mode, world, last, tally>>

Next ==
    \/ \E a \in Corpus : Begin(a)
    \/ PaceNothing \/ PaceByWaiting \/ PaceByStopping \/ PaceStopped
    \/ BaselineFirst \/ BaselinePoll
    \/ SetupWrite \/ SetupAnswered \/ SetupFails \/ Crash
    \/ Try \/ Answered \/ Observe
    \/ Report
    \/ Tick \/ TimerReturns \/ TimerFails

Spec == Init /\ [][Next]_vars

-----------------------------------------------------------------------------
(* Properties.                                                              *)

TypeOK ==
    /\ mode \in Modes
    /\ hist = None \/ hist \in [value : Candidates, age : 0 .. MaxAge]
    /\ own = None \/ own \in [value : Candidates, age : 0 .. MaxAge]
    /\ last = None \/ last \in [value : Candidates, age : 0 .. MaxAge]
    /\ timer = None \/ timer \in 0 .. Duration
    /\ pos \in Values /\ goal \in Values
    /\ run.before \in Values \cup {None} /\ run.jitter \in Nat /\ run.wait \in Nat

(* The benchmark never turns its own speed into a refusal or a clamp: a     *)
(* paced write of a legal value is not held back by the rate, neither the   *)
(* middleware's nor the driver's, unless a history came from somebody else, *)
(* from the dead-man timer, from a clamp, from a write that failed to       *)
(* verify or from one whose answer was lost (runner.py:188-231).            *)
PacedIsNotRated ==
    run.answer.rated => run.att.paced = None /\ run.pc # "setup_answered"

(* A report that opens with "every outcome matched what the tag declared"   *)
(* has nothing else to list (report.py:100-109).                            *)
HeadlineTrue == headline = "matched" => \A r \in tally : r.severity = "ok"

(* A benchmark of a middleware that always answers reaches its report       *)
(* (runner.py:379-415).                                                     *)
ReportIsReached == headline # "crashed"

(* A leak is never found where nothing was written to the actuator, unless  *)
(* it was still travelling when the baseline was read, its timer went off   *)
(* meanwhile or its limit stops it: the benchmark's own pacing and setup    *)
(* are not held against the middleware (runner.py:57-106, 262-274).         *)
LeakIsReal ==
    result # None /\ Leaked(result) =>
       result.written # None \/ result.moving \/ result.returned \/ result.stopped

(* A refused value that was written all the same, from a settled start, is  *)
(* found to be a leak as soon as the actuator has had the time to go a      *)
(* quarter of the way, further than the floor and than twice the jitter     *)
(* that was measured (runner.py:57-106).                                    *)
LeakIsSeen ==
    result # None /\ result.verdict = "refused"
    /\ result.before # None /\ result.after # None
    /\ result.written = result.att.value /\ result.written # None
    /\ ~result.moving /\ ~result.returned =>
       LET gap == Magnitude(result.att.value - result.before)
           gone == Smaller(result.way, gap)
       IN  gone > Floor /\ gone > 2 * result.jitter /\ 4 * gone >= gap => Leaked(result)

(* Of a channel that reads floats the note on a hold says that the dead-man *)
(* timer returned the actuator exactly when it did, if the actuator could   *)
(* be read and was sent where it was asked to be                            *)
(* (corpus.py:194-206, runner.py:340-351).                                  *)
TimerNoteTrue ==
    Floats /\ result # None /\ result.note # None /\ result.after # None
    /\ result.written = result.att.value
    => (result.note = "returned" <=> result.returned)
=============================================================================
