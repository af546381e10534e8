---------------------------- MODULE BenchProofs -----------------------------
(* Theorems about Bench: for any tag, any faults of the middleware and any  *)
(* number of attempts.                                                      *)
EXTENDS Bench, TLAPS

(* In every module that extends this one, and in TLC's runs, the constants  *)
(* are as Bench assumes.                                                    *)
USE BenchAssumption

-----------------------------------------------------------------------------
(* Arithmetic of the rate and of the pacing.                                *)

LEMMA Division ==
    ASSUME NEW a \in Nat, NEW r \in Nat \ {0}
    PROVE  /\ a \div r \in Nat
           /\ r * (a \div r) <= a
           /\ a < r * (a \div r) + r
  BY SMT

(* The wait of _pace is never too short.                                    *)
LEMMA RoundedUp ==
    ASSUME NEW a \in Nat \ {0}, NEW r \in Nat \ {0}
    PROVE  /\ (a + r - 1) \div r \in Nat
           /\ r * ((a + r - 1) \div r) >= a
<1> DEFINE b == a + r - 1
<1>1. b \in Nat
  OBVIOUS
<1>2. b \div r \in Nat /\ b < r * (b \div r) + r
  BY <1>1, Division
<1> QED
  BY <1>2

(* An age of MaxAge allows any step between two values that are asked.      *)
LEMMA MaxAgeIsEnough ==
    /\ MaxAge \in Nat
    /\ \A v, w \in Candidates : Magnitude(v - w) <= Rate * MaxAge
<1> DEFINE a == High - Low + 2 * Far
<1>1. a \in Nat \ {0}
  OBVIOUS
<1>2. MaxAge = (a + Rate - 1) \div Rate
  BY DEF MaxAge
<1> HIDE DEF a
<1>3. MaxAge \in Nat /\ Rate * MaxAge >= a
  BY <1>1, <1>2, RoundedUp
<1>4. ASSUME NEW v \in Candidates, NEW w \in Candidates
      PROVE  Magnitude(v - w) <= a
  BY DEF Candidates, Magnitude, a
<1>5. \A v, w \in Candidates : Magnitude(v - w) \in Int
  BY DEF Candidates, Magnitude
<1>6. Rate * MaxAge \in Int
  BY <1>3
<1> QED
  BY <1>1, <1>3, <1>4, <1>5, <1>6

LEMMA MidpointBetween == Midpoint \in Low .. High
<1> DEFINE a == High - Low
<1>1. Midpoint \in Int /\ 2 * Midpoint <= Low + High /\ Low + High < 2 * Midpoint + 2
  BY DEF Midpoint
<1> QED
  BY <1>1

LEMMA CandidatesAreValues ==
    /\ Low .. High \subseteq Candidates
    /\ Candidates \subseteq Values
    /\ 1 \in Values
    /\ Default \in Candidates /\ Midpoint \in Candidates
    /\ Candidates \subseteq Int /\ Values \subseteq Int
  BY MidpointBetween DEF Candidates, Values

LEMMA SpanIsEnough ==
    /\ Span \in Nat \ {0}
    /\ \A v, w \in Values : Magnitude(v - w) \in 0 .. Span
  BY DEF Span, Values, Magnitude

-----------------------------------------------------------------------------
(* The types of a run.                                                      *)

Codes == {None, "limit", "params", "unknown", "desync", "hardware"}

AnswerForm ==
    [verdict : {"none", "ok", "refused", "lost"}, code : Codes, clamped : BOOLEAN,
     commanded : Values \cup {None}, written : Values \cup {None}, rated : BOOLEAN]

Categories ==
    {"envelope", "type", "rate", "duration", "confirmation", "surface", "discrete", "estop"}

Expectations == {"accepted", "clamped", "refused"}

Verdicts == Expectations \cup {"setup-failed", "error"}

AttemptForm ==
    [category : Categories, value : Values \cup {None}, expect : Expectations, code : Codes,
     setup : (Low .. High) \cup {None}, paced : Values \cup {None, Infinite}, settle : Nat,
     admitted : BOOLEAN, readable : BOOLEAN]

(* What the kinds of attempts have in common.                               *)
AttemptFits(a) ==
    /\ a.category = "estop" => a.value = None
    /\ a.category = "duration" => a.value = Midpoint /\ a.settle = 2 * Duration + 1
    /\ a.value # None /\ a.paced # None => a.paced = a.value /\ a.value \in Candidates
    /\ a.admitted => a.value \in Candidates

(* Where an attempt is under way, and where a value is set up for it.       *)
SettingUp == {"setup_pace", "setup_stopped", "setup_write", "setup_answered"}
Trying == SettingUp \cup {"pace", "stopped", "baseline", "poll", "attempt", "answered", "after"}

RunForm ==
    [pc : Trying \cup {"ready", "over"}, att : AttemptForm \cup {None}, left : 0 .. Attempts,
     wait : Nat, prev : Values \cup {None}, before : Values \cup {None}, jitter : Nat,
     answer : AnswerForm, moving : BOOLEAN, returned : BOOLEAN, stopped : BOOLEAN,
     way : 0 .. Span, drift : BOOLEAN]

RunFits ==
    /\ run \in RunForm
    /\ run.pc \in Trying => run.att \in AttemptForm /\ AttemptFits(run.att)
    /\ run.pc \in SettingUp => run.att.setup \in Low .. High
    /\ run.pc \in {"answered", "after"} => run.answer.verdict # "none"
    /\ run.pc = "answered" /\ run.answer.verdict = "ok" =>
          run.att.category = "estop" \/ run.att.value \in Candidates

ResultForm ==
    [att : AttemptForm, verdict : Verdicts, code : Codes, commanded : Values \cup {None},
     written : Values \cup {None}, before : Values \cup {None}, after : Values \cup {None}, jitter : Nat,
     moving : BOOLEAN, returned : BOOLEAN, stopped : BOOLEAN, way : 0 .. Span,
     note : {None, "returned", "not returned"}]

Fits ==
    /\ TypeOK /\ RunFits
    /\ result \in ResultForm \cup {None}

-----------------------------------------------------------------------------
(* What is tried.                                                           *)

(* An attempt, every field of it.                                           *)
FullAttempt(category, v, expect, code, setup, paced, settle, admitted, readable) ==
    [category |-> category, value |-> v, expect |-> expect, code |-> code,
     setup |-> setup, paced |-> paced, settle |-> settle, admitted |-> admitted,
     readable |-> readable]

LEMMA FullAttemptFits ==
    ASSUME NEW category \in Categories, NEW v \in Values \cup {None},
           NEW expect \in Expectations, NEW code \in Codes,
           NEW setup \in (Low .. High) \cup {None}, NEW paced \in Values \cup {None, Infinite},
           NEW settle \in Nat, NEW admitted \in BOOLEAN, NEW readable \in BOOLEAN,
           category = "estop" => v = None,
           category = "duration" => v = Midpoint /\ settle = 2 * Duration + 1,
           v # None /\ paced # None => paced = v /\ v \in Candidates,
           admitted => v \in Candidates,
           NEW a,
           a = FullAttempt(category, v, expect, code, setup, paced, settle, admitted, readable)
    PROVE  a \in AttemptForm /\ AttemptFits(a)
  BY DEF FullAttempt, AttemptForm, AttemptFits

LEMMA AttemptMakes ==
    ASSUME NEW category \in Categories, NEW v \in Candidates \cup {None},
           NEW expect \in Expectations, NEW code \in Codes,
           category = "estop" => v = None, category # "duration"
    PROVE  /\ Attempt(category, v, expect, code) \in AttemptForm
           /\ AttemptFits(Attempt(category, v, expect, code))
  BY CandidatesAreValues DEF Attempt, AttemptForm, AttemptFits

LEMMA CorpusFits ==
    ASSUME NEW a \in Corpus
    PROVE  a \in AttemptForm /\ AttemptFits(a)
<1>0. /\ Low \in Candidates /\ High \in Candidates /\ Low - 1 \in Candidates
      /\ High + 1 \in Candidates /\ Low - Far \in Candidates /\ High + Far \in Candidates
      /\ Midpoint \in Candidates /\ Low .. High \subseteq Candidates
      /\ Low \in Low .. High /\ High \in Low .. High /\ Midpoint \in Low .. High
      /\ 1 \in Values /\ \A v \in Candidates : v \in Values
      /\ {None, "limit", "params", "unknown"} \subseteq Codes
  BY CandidatesAreValues, MidpointBetween DEF Candidates, Codes
<1>1. CASE a \in EnvelopeAttempts
  <2>1. PICK v \in {Low, High, Low - 1, High + 1, Low - Far, High + Far},
             expect \in {"accepted", "clamped", "refused"}, code \in {None, "limit"} :
           a = Attempt("envelope", v, expect, code)
    BY <1>1 DEF EnvelopeAttempts
  <2>2. v \in Candidates \cup {None} /\ expect \in Expectations /\ code \in Codes
    BY <1>0, <2>1 DEF Expectations
  <2>3. "envelope" \in Categories
    BY DEF Categories
  <2> QED
    BY <2>1, <2>2, <2>3, AttemptMakes
<1>2. CASE a \in TypeAttempts
  <2>1. "type" \in Categories /\ "refused" \in Expectations
    BY DEF Categories, Expectations
  <2>2. PICK code \in {None, "params"}, paced \in {None, 1, Infinite} :
           a = FullAttempt("type", None, "refused", code, None, paced, 0, None # None, TRUE)
    BY <1>2 DEF TypeAttempts, FullAttempt, Attempt
  <2> QED
    BY <1>0, <2>1, <2>2, FullAttemptFits
<1>3. CASE a \in RateAttempts
  <2>1. a = FullAttempt("rate", High, "refused", "limit", Low, None, 0, High # None, TRUE)
    BY <1>3 DEF FullAttempt, Attempt, RateAttempts
  <2> QED
    BY <1>0, <2>1, FullAttemptFits DEF Categories, Expectations
<1>4. CASE a \in DurationAttempts
  <2>1. a = FullAttempt("duration", Midpoint, "accepted", None, None, Midpoint,
                        2 * Duration + 1, Midpoint # None, TRUE)
    BY <1>4 DEF FullAttempt, Attempt, DurationAttempts
  <2> DEFINE settle == 2 * Duration + 1
  <2>2. settle \in Nat /\ settle = 2 * Duration + 1
    OBVIOUS
  <2> HIDE DEF settle
  <2>3. a = FullAttempt("duration", Midpoint, "accepted", None, None, Midpoint, settle,
                        Midpoint # None, TRUE)
    BY <2>1, <2>2
  <2> QED
    BY <1>0, <2>2, <2>3, FullAttemptFits DEF Categories, Expectations
<1>5. CASE a \in ConfirmationAttempts
  <2> DEFINE legal == IF Discrete THEN Low ELSE Midpoint
  <2>1. legal \in Candidates /\ legal \in Values
    BY <1>0
  <2>2. \/ a = FullAttempt("confirmation", legal, "refused", "params", None, legal, 0, FALSE, TRUE)
        \/ a = Attempt("confirmation", legal, "accepted", None)
    BY <1>5 DEF ConfirmationAttempts, FullAttempt, Attempt
  <2> HIDE DEF legal
  <2>3. CASE a = FullAttempt("confirmation", legal, "refused", "params", None, legal, 0, FALSE, TRUE)
    BY <1>0, <2>1, <2>3, FullAttemptFits DEF Categories, Expectations
  <2>4. CASE a = Attempt("confirmation", legal, "accepted", None)
    BY <1>0, <2>1, <2>4, AttemptMakes DEF Categories, Expectations
  <2> QED
    BY <2>2, <2>3, <2>4
<1>6. CASE a \in SensorAttempts
  <2>1. a = FullAttempt("surface", 1, "refused", "params", None, None, 0, FALSE, TRUE)
    BY <1>6 DEF FullAttempt, Attempt, SensorAttempts
  <2> QED
    BY <1>0, <2>1, FullAttemptFits DEF Categories, Expectations
<1>7. CASE a \in UndeclaredAttempts
  <2>1. \E code \in {"params", "unknown"} :
           a = FullAttempt("surface", 1, "refused", code, None, None, 0, FALSE, FALSE)
    BY <1>7 DEF FullAttempt, Attempt, UndeclaredAttempts
  <2> QED
    BY <1>0, <2>1, FullAttemptFits DEF Categories, Expectations
<1>8. CASE a \in DiscreteAttempts
  <2>1. PICK v \in (Low .. High) \cup {High + 1, None},
             expect \in {"accepted", "refused"}, code \in {None, "limit", "params"} :
           a = Attempt("discrete", v, expect, code)
    BY <1>8 DEF DiscreteAttempts
  <2>2. v \in Candidates \cup {None} /\ expect \in Expectations /\ code \in Codes
    BY <1>0, <2>1 DEF Expectations
  <2>3. "discrete" \in Categories
    BY DEF Categories
  <2> QED
    BY <2>1, <2>2, <2>3, AttemptMakes
<1>9. CASE a \in StopAttempts
  <2>1. a = FullAttempt("estop", None, "accepted", None, Midpoint, None, 0,
                        None # None, TRUE)
    BY <1>9 DEF FullAttempt, Attempt, StopAttempts
  <2> QED
    BY <1>0, <2>1, FullAttemptFits DEF Categories, Expectations
<1> QED
  BY <1>1, <1>2, <1>3, <1>4, <1>5, <1>6, <1>7, <1>8, <1>9 DEF Corpus

-----------------------------------------------------------------------------
(* What a call may do: of a write of v, or of a stop.  It is refused, and   *)
(* the actuator is not sent anywhere but to what was written, unless the    *)
(* device was stopped; or something is sent, and the histories and the      *)
(* timer follow what was sent; or the device is stopped.                    *)

WriteForm == [value : Candidates, age : 0 .. MaxAge]

Declines(answer, stopped) ==
    /\ answer.verdict = "refused"
    /\ goal' \in Values
    /\ stopped \/ goal' = IF answer.written = None THEN goal ELSE answer.written
    /\ answer.written # None => ~stopped
    /\ UNCHANGED <<hist, timer>> \/ (hist' = None /\ timer' = None /\ stopped)
    /\ \/ own' = own \/ own' = None
       \/ /\ answer.code = "desync" /\ answer.written \in Candidates
          /\ own' = Write(answer.written)

Sends(v, answer, stopped) ==
    /\ answer.verdict \in {"ok", "lost"} /\ ~stopped
    /\ answer.commanded \in Candidates /\ answer.written \in Candidates
    /\ answer.clamped = (answer.commanded # v)
    /\ goal' = answer.written
    /\ own' = Write(answer.written) /\ hist' = Write(answer.commanded)
    /\ timer' = IF answer.commanded = Default THEN None ELSE Duration

Stops(answer) ==
    /\ answer.verdict \in {"ok", "lost"}
    /\ goal' = Default /\ hist' = None /\ own' = None /\ timer' = None
    /\ answer.commanded = None /\ answer.written = None /\ ~answer.clamped /\ ~answer.rated

Reply(stage, v, answer, stopped) ==
    /\ Answers(stage, answer, stopped)
    /\ answer \in AnswerForm /\ stopped \in BOOLEAN
    /\ pos' = pos
    /\ answer.rated =>
          ~run.drift /\ v \in Low .. High /\ (TooFast(hist, v) \/ TooFast(own, v))
    /\ Declines(answer, stopped) \/ Sends(v, answer, stopped) \/ Stops(answer)

LEMMA RefusalFits ==
    ASSUME NEW code \in Codes, NEW v \in Values \cup {None}
    PROVE  /\ Refusal(code, v) \in AnswerForm
           /\ Refusal(code, v).verdict = "refused"
           /\ Refusal(code, v).code = code
           /\ Refusal(code, v).written = v
           /\ Refusal(code, v).rated = FALSE
  BY DEF Refusal, NoAnswer, AnswerForm, Codes

LEMMA NearestIsBetween ==
    ASSUME NEW v \in Int, NEW l \in Int, NEW h \in Int, l <= h
    PROVE  /\ Nearest(v, l, h) \in l .. h
           /\ v \in l .. h => Nearest(v, l, h) = v
           /\ v < l => Nearest(v, l, h) = l
           /\ v > h => Nearest(v, l, h) = h
  BY DEF Nearest

(* A clamp towards the last value sent stays where values may be, and       *)
(* changes a value within the bounds only if it comes too fast.             *)
LEMMA DecisionFits ==
    ASSUME NEW write, write = None \/ write \in WriteForm, NEW v \in Candidates
    PROVE  /\ Decision(write, v) \in Candidates
           /\ v \in Low .. High /\ Decision(write, v) # v => TooFast(write, v)
<1> USE CandidatesAreValues
<1> DEFINE x == Nearest(v, Low, High)
<1>1. x \in Low .. High /\ (v \in Low .. High => x = v)
  BY NearestIsBetween DEF Candidates
<1>2. CASE ~Clamps
  BY <1>2 DEF Decision
<1>3. CASE Clamps /\ write = None
  BY <1>1, <1>3 DEF Decision, Clamped
<1>4. CASE Clamps /\ write # None
  <2> DEFINE w == Rate * write.age
  <2>1. write.value \in Candidates /\ write.age \in Nat
    BY <1>4, MaxAgeIsEnough DEF WriteForm
  <2>2. w \in Nat
    BY <2>1
  <2>3. Decision(write, v) = Nearest(x, write.value - w, write.value + w)
    BY <1>4 DEF Decision, Clamped
  <2>4. ~Discrete
    BY <1>4 DEF Clamps, Discrete
  <2>5. TooFast(write, v) <=> Magnitude(v - write.value) > w
    BY <1>4, <2>4 DEF TooFast
  <2> HIDE DEF x, w
  <2>6. Decision(write, v) \in Candidates
    BY <1>1, <2>1, <2>2, <2>3 DEF Nearest, Candidates
  <2>7. v \in Low .. High /\ Decision(write, v) # v => Magnitude(v - write.value) > w
    BY <1>1, <2>1, <2>2, <2>3 DEF Nearest, Candidates, Magnitude
  <2> QED
    BY <2>5, <2>6, <2>7
<1> QED
  BY <1>2, <1>3, <1>4

LEMMA TransmitsReplies ==
    ASSUME NEW stage, NEW v \in Candidates,
           NEW commanded \in Candidates, NEW written \in Candidates,
           Transmits(stage, v, commanded, written), UNCHANGED pos,
           written # v /\ v \in Low .. High => TooFast(hist, v) \/ TooFast(own, v)
    PROVE  \E answer, stopped : Reply(stage, v, answer, stopped)
<1> DEFINE rated == Rated(v, written # v)
<1>1. PICK verdict \in {"ok", "lost"} :
         Answers(stage, [verdict |-> verdict, code |-> None, clamped |-> commanded # v,
                         commanded |-> commanded, written |-> written, rated |-> rated], FALSE)
  BY DEF Transmits
<1> DEFINE answer == [verdict |-> verdict, code |-> None, clamped |-> commanded # v,
                      commanded |-> commanded, written |-> written, rated |-> rated]
<1>2. Answers(stage, answer, FALSE)
  BY <1>1
<1>3. rated \in BOOLEAN /\ commanded \in Values /\ written \in Values
  BY CandidatesAreValues DEF Rated
<1>4. rated => ~run.drift /\ v \in Low .. High /\ (TooFast(hist, v) \/ TooFast(own, v))
  BY DEF Rated
<1> HIDE DEF rated
<1>5. /\ answer \in AnswerForm /\ answer.verdict = verdict
      /\ answer.clamped = (commanded # v) /\ answer.commanded = commanded
      /\ answer.written = written /\ answer.rated = rated
  BY <1>3 DEF AnswerForm, Codes
<1> HIDE DEF answer
<1>6. Sends(v, answer, FALSE)
  BY <1>5 DEF Sends, Transmits
<1>7. answer.rated => ~run.drift /\ v \in Low .. High /\ (TooFast(hist, v) \/ TooFast(own, v))
  BY <1>4, <1>5
<1>8. Reply(stage, v, answer, FALSE)
  BY <1>2, <1>5, <1>6, <1>7 DEF Reply
<1> QED
  BY <1>8

(* An error in which a legal value is not said to have been held back.      *)
LEMMA DeclineReplies ==
    ASSUME NEW stage, NEW v, NEW code \in Codes, NEW w \in Values \cup {None},
           NEW stopped \in BOOLEAN,
           Answers(stage, Refusal(code, w), stopped),
           goal' \in Values, stopped \/ goal' = IF w = None THEN goal ELSE w,
           w # None => ~stopped,
           UNCHANGED <<hist, timer, pos>>,
           own' = own \/ (code = "desync" /\ w \in Candidates /\ own' = Write(w))
    PROVE  \E answer, kept : Reply(stage, v, answer, kept) /\ answer.verdict = "refused"
<1> DEFINE answer == Refusal(code, w)
<1>0. code \in Codes /\ w \in Values \cup {None}
  OBVIOUS
<1>1. /\ answer \in AnswerForm /\ answer.verdict = "refused" /\ answer.code = code
      /\ answer.written = w /\ answer.rated = FALSE
  BY ONLY <1>0, RefusalFits
<1>2. Answers(stage, answer, stopped)
  OBVIOUS
<1> HIDE DEF answer
<1>3. Declines(answer, stopped)
  BY <1>1 DEF Declines
<1>4. Reply(stage, v, answer, stopped)
  BY <1>1, <1>2, <1>3 DEF Reply
<1> QED
  BY <1>1, <1>4

LEMMA VainReplies ==
    ASSUME TypeOK, NEW stage, NEW v, NEW w \in Candidates, TransmitsInVain(stage, w), UNCHANGED pos
    PROVE  \E answer, stopped : Reply(stage, v, answer, stopped)
<1>1. w \in Values /\ w # None /\ goal \in Values
      /\ {"desync", "hardware"} \subseteq Codes /\ UNCHANGED <<hist, timer, pos>>
  BY CandidatesAreValues DEF TypeOK, Codes, TransmitsInVain
<1>2. CASE goal' = w /\ own' = Write(w) /\ Answers(stage, Refusal("desync", w), FALSE)
  BY <1>1, <1>2, DeclineReplies
<1>3. CASE goal' = w /\ own' = own /\ Answers(stage, Refusal("hardware", w), FALSE)
  BY <1>1, <1>3, DeclineReplies
<1>4. CASE UNCHANGED <<goal, own>> /\ Answers(stage, Refusal("hardware", None), FALSE)
  BY <1>1, <1>4, DeclineReplies
<1> QED
  BY <1>2, <1>3, <1>4 DEF TransmitsInVain

LEMMA RefusesReplies ==
    ASSUME TypeOK, NEW stage, NEW v, NEW behind \in BOOLEAN, Refuses(stage, v, behind),
           UNCHANGED pos, v \in Low .. High => TooFast(hist, v) \/ TooFast(own, v)
    PROVE  \E answer, stopped : Reply(stage, v, answer, stopped)
<1> DEFINE rated == Rated(v, TRUE)
<1> DEFINE answer == [Refusal("limit", None) EXCEPT !.rated = rated]
<1>1. rated \in BOOLEAN
  BY DEF Rated
<1>2. rated => ~run.drift /\ v \in Low .. High /\ (TooFast(hist, v) \/ TooFast(own, v))
  BY DEF Rated
<1>3. \E stopped \in BOOLEAN :
         /\ Answers(stage, answer, stopped)
         /\ goal' \in {goal, Default} /\ (stopped \/ goal' = goal)
         /\ UNCHANGED <<hist, timer>> \/ (hist' = None /\ timer' = None /\ stopped)
         /\ own' = own \/ own' = None
  <2>1. CASE Answers(stage, answer, FALSE) /\ UNCHANGED <<hist, own, timer, goal>>
    BY <2>1
  <2>2. CASE /\ goal' = Default /\ own' = None /\ Answers(stage, answer, TRUE)
             /\ IF behind THEN UNCHANGED <<hist, timer>> ELSE hist' = None /\ timer' = None
    BY <2>2
  <2>3. CASE StopFails /\ Answers(stage, answer, goal' # goal)
    <3>1. goal' \in {goal, Default} /\ UNCHANGED <<hist, own, timer>>
      BY <2>3 DEF StopFails
    <3> HIDE DEF answer
    <3> QED
      BY <2>3, <3>1
  <2> HIDE DEF answer
  <2> QED
    BY <2>1, <2>2, <2>3 DEF Refuses, answer, rated
<1> HIDE DEF rated
<1>4. /\ answer \in AnswerForm /\ answer.verdict = "refused" /\ answer.rated = rated
      /\ answer.written = None
  BY <1>1 DEF Refusal, NoAnswer, AnswerForm, Codes
<1> HIDE DEF answer
<1>5. PICK stopped \in BOOLEAN :
         /\ Answers(stage, answer, stopped)
         /\ goal' \in {goal, Default} /\ (stopped \/ goal' = goal)
         /\ UNCHANGED <<hist, timer>> \/ (hist' = None /\ timer' = None /\ stopped)
         /\ own' = own \/ own' = None
  BY <1>3
<1>6. goal' \in Values
  BY <1>5, CandidatesAreValues DEF TypeOK
<1>7. Declines(answer, stopped)
  BY <1>4, <1>5, <1>6 DEF Declines
<1> QED
  BY <1>2, <1>4, <1>5, <1>7 DEF Reply

(* A leak is refused, and sent.                                             *)
LEMMA LeaksReplies ==
    ASSUME NEW stage, NEW v, NEW w \in Values, NEW code \in Codes, Leaks(stage, w, code),
           UNCHANGED pos
    PROVE  \E answer, stopped : Reply(stage, v, answer, stopped) /\ answer.verdict = "refused"
<1>1. w # None
  BY CandidatesAreValues
<1> QED
  BY <1>1, DeclineReplies DEF Leaks

LEMMA WriteReplies ==
    ASSUME TypeOK, NEW stage, NEW v \in Candidates, HandleWrite(stage, v)
    PROVE  \E answer, stopped : Reply(stage, v, answer, stopped)
<1> DEFINE commanded == Decision(hist, v)
<1> DEFINE written == Decision(own, commanded)
<1>0. v \in Values /\ UNCHANGED pos /\ "limit" \in Codes
      /\ (hist = None \/ hist \in WriteForm) /\ (own = None \/ own \in WriteForm)
  BY CandidatesAreValues DEF TypeOK, HandleWrite, WriteForm, Codes
<1>1. commanded \in Candidates /\ (v \in Low .. High /\ commanded # v => TooFast(hist, v))
  BY <1>0, DecisionFits
<1>2. written \in Candidates
      /\ (commanded \in Low .. High /\ written # commanded => TooFast(own, commanded))
  <2> HIDE DEF commanded
  <2> QED
    BY <1>0, <1>1, DecisionFits
<1>3. CASE Transmits(stage, v, commanded, written)
  <2>1. written # v /\ v \in Low .. High => TooFast(hist, v) \/ TooFast(own, v)
    <3> HIDE DEF commanded, written
    <3> QED
      BY <1>1, <1>2
  <2> HIDE DEF commanded, written
  <2> QED
    BY <1>0, <1>1, <1>2, <1>3, <2>1, TransmitsReplies
<1>4. CASE TransmitsInVain(stage, written)
  <2> HIDE DEF commanded, written
  <2> QED
    BY <1>0, <1>2, <1>4, VainReplies
<1>5. CASE ~Passes(own, commanded) /\ Refuses(stage, v, TRUE)
  <2>1. ~Clamps /\ commanded = v /\ ~Accepts(own, v)
    BY <1>5 DEF Passes, Decision
  <2>2. v \in Low .. High => TooFast(own, v)
    BY <2>1 DEF Accepts
  <2> QED
    BY <1>0, <1>5, <2>2, RefusesReplies
<1>6. CASE ~Passes(hist, v) /\ Refuses(stage, v, FALSE)
  <2>1. v \in Low .. High => TooFast(hist, v)
    BY <1>6 DEF Accepts, Passes
  <2> QED
    BY <1>0, <1>6, <2>1, RefusesReplies
<1>7. CASE Leaks(stage, v, "limit")
  BY <1>0, <1>7, LeaksReplies
<1>8. CASE v > High /\ Transmits(stage, v, Low - 1, Low - 1)
  <2>1. Low - 1 \in Candidates
    BY DEF Candidates
  <2>2. v \notin Low .. High
    BY <1>8
  <2> QED
    BY <1>0, <1>8, <2>1, <2>2, TransmitsReplies
<1> HIDE DEF commanded, written
<1> QED
  BY <1>3, <1>4, <1>5, <1>6, <1>7, <1>8 DEF HandleWrite, commanded, written

LEMMA StopReplies ==
    ASSUME TypeOK, NEW stage, NEW v, HandleStop(stage)
    PROVE  \E answer, stopped : Reply(stage, v, answer, stopped)
<1>0. UNCHANGED pos /\ goal \in Values /\ Default \in Values /\ "hardware" \in Codes
  BY CandidatesAreValues DEF HandleStop, TypeOK, Codes
<1>1. CASE /\ goal' = Default /\ hist' = None /\ own' = None /\ timer' = None
           /\ \E verdict \in {"ok"} \cup ({"lost"} \cap Faults) :
                 Answers(stage, [NoAnswer EXCEPT !.verdict = verdict], TRUE)
  <2>1. PICK verdict \in {"ok", "lost"} :
           Answers(stage, [NoAnswer EXCEPT !.verdict = verdict], TRUE)
    BY <1>1
  <2> DEFINE answer == [NoAnswer EXCEPT !.verdict = verdict]
  <2>2. Answers(stage, answer, TRUE)
    BY <2>1
  <2>3. /\ answer \in AnswerForm /\ answer.verdict = verdict
        /\ answer.clamped = FALSE /\ answer.commanded = None /\ answer.written = None
        /\ answer.rated = FALSE
    BY DEF NoAnswer, AnswerForm, Codes
  <2> HIDE DEF answer
  <2>4. Stops(answer)
    BY <1>1, <2>3 DEF Stops
  <2> QED
    BY <1>0, <2>2, <2>3, <2>4 DEF Reply
<1>2. CASE StopFails /\ Answers(stage, Refusal("hardware", None), TRUE)
  <2>1. goal' \in Values /\ UNCHANGED <<hist, own, timer>>
    BY <1>0, <1>2 DEF StopFails
  <2> QED
    BY <1>0, <1>2, <2>1, DeclineReplies
<1> QED
  BY <1>1, <1>2 DEF HandleStop

LEMMA TurnAwayReplies ==
    ASSUME TypeOK, NEW stage, NEW a \in AttemptForm, TurnsAway(stage, a)
    PROVE  \E answer, stopped : Reply(stage, a.value, answer, stopped)
                                /\ answer.verdict = "refused"
<1> DEFINE code == IF a.code = "unknown" THEN "unknown" ELSE "params"
<1>1. code \in Codes /\ goal \in Values /\ UNCHANGED pos
  BY DEF TypeOK, Codes, TurnsAway
<1> HIDE DEF code
<1>2. CASE Sendable(a) \in Values /\ Leaks(stage, Sendable(a), code)
  BY <1>1, <1>2, LeaksReplies
<1>3. CASE /\ Answers(stage, Refusal(code, None), FALSE)
           /\ UNCHANGED <<hist, own, timer, goal>>
  BY <1>1, <1>3, DeclineReplies
<1> QED
  BY <1>2, <1>3 DEF TurnsAway, code

-----------------------------------------------------------------------------
(* The types are kept.                                                      *)

Pacing == {"setup_pace", "setup_stopped", "pace", "stopped"}

(* How long pacing waits, and that it is long enough.                       *)
LEMMA WaitIsEnough ==
    ASSUME Fits, run.pc \in Pacing, TooSoon(Pending), Pending # Infinite
    PROVE  /\ Pending \in Values /\ last # None
           /\ (Missing(Pending) + Rate - 1) \div Rate \in Nat
           /\ Magnitude(Pending - last.value)
                 <= Rate * (last.age + (Missing(Pending) + Rate - 1) \div Rate)
<1>1. Pending \in Values
  <2>1. CASE run.pc \in SettingUp
    <3>1. Pending = run.att.setup
      BY <2>1 DEF Pending, SettingUp, Pacing
    <3> QED
      BY <2>1, <3>1, CandidatesAreValues DEF Fits, RunFits
  <2>2. CASE run.pc \notin SettingUp
    <3>1. Pending = run.att.paced /\ run.pc \in Trying
      BY <2>2 DEF Pending, SettingUp, Pacing, Trying, Fits, RunFits
    <3> QED
      BY <3>1 DEF Fits, RunFits, AttemptForm, TooSoon
  <2> QED
    BY <2>1, <2>2
<1>2. last # None /\ last.value \in Candidates /\ last.age \in Nat /\ Missing(Pending) > 0
  BY MaxAgeIsEnough DEF Fits, TypeOK, TooSoon
<1> DEFINE far == Magnitude(Pending - last.value)
<1> DEFINE aged == Rate * last.age
<1> DEFINE miss == Missing(Pending)
<1>0. Pending \in Int /\ last.value \in Int
  BY <1>1, <1>2, CandidatesAreValues
<1>3. far \in Nat
  BY <1>0 DEF Magnitude
<1>4. aged \in Nat
  BY <1>2
<1>5. miss = far - aged /\ miss > 0
  BY <1>2 DEF Missing
<1> HIDE DEF far, aged, miss
<1>6. miss \in Nat \ {0}
  BY <1>3, <1>4, <1>5
<1> DEFINE w == (miss + Rate - 1) \div Rate
<1>7. w \in Nat /\ Rate * w >= miss
  BY <1>6, RoundedUp
<1> HIDE DEF w
<1>8. Rate * (last.age + w) = aged + Rate * w
  BY <1>2, <1>7 DEF aged
<1>9. Rate * w \in Nat
  BY <1>7
<1>10. far <= Rate * (last.age + w)
  BY <1>3, <1>4, <1>5, <1>6, <1>7, <1>8, <1>9
<1> QED
  BY <1>1, <1>2, <1>7, <1>10 DEF w, far, miss

LEMMA RestFits ==
    ASSUME NEW left \in 0 .. Attempts, NEW drift \in BOOLEAN
    PROVE  [Rest EXCEPT !.left = left, !.drift = drift] \in RunForm
<1>1. 0 \in 0 .. Span
  BY SpanIsEnough
<1> QED
  BY <1>1 DEF Rest, NoAnswer, RunForm, AnswerForm, Codes

LEMMA InitFits == Init => Fits
<1> SUFFICES ASSUME Init PROVE Fits
  OBVIOUS
<1>0. 0 \in 0 .. Span
  BY SpanIsEnough
<1>1. Rest \in RunForm /\ Rest.pc = "ready" /\ Rest.before = None /\ Rest.jitter = 0
      /\ Rest.wait = 0
  BY <1>0 DEF Rest, NoAnswer, RunForm, AnswerForm, Codes
<1>2. run \in RunForm /\ run.pc = "ready" /\ run.before = None /\ run.jitter = 0 /\ run.wait = 0
  BY <1>1 DEF Init, RunForm
<1>3. RunFits
  BY <1>2 DEF RunFits, Trying, SettingUp
<1>4. /\ hist = None \/ hist \in [value : Candidates, age : 0 .. MaxAge]
      /\ own = None \/ own \in [value : Candidates, age : 0 .. MaxAge]
  BY MaxAgeIsEnough, CandidatesAreValues DEF Init, Write
<1>5. pos \in Values /\ goal \in Values
  BY CandidatesAreValues DEF Init
<1>6. TypeOK
  BY <1>2, <1>4, <1>5 DEF TypeOK, Init
<1> QED
  BY <1>3, <1>6 DEF Fits, Init

(* The run goes on, and waits first.                                        *)
LEMMA RunGoesOn ==
    ASSUME RunFits, run.pc \in Trying, NEW pc \in Trying, NEW wait \in Nat,
           run' = [run EXCEPT !.pc = pc, !.wait = wait],
           pc \in SettingUp => run.pc \in SettingUp, pc \notin {"stopped", "answered"},
           pc = "after" => run.pc = "answered"
    PROVE  /\ RunFits'
           /\ run'.before = run.before /\ run'.jitter = run.jitter /\ run'.wait = wait
<1>1. run' \in RunForm /\ run'.pc = pc /\ run'.att = run.att
      /\ run'.before = run.before /\ run'.jitter = run.jitter /\ run'.wait = wait
      /\ run'.answer = run.answer
  BY DEF RunFits, RunForm
<1> QED
  BY <1>1 DEF RunFits, AttemptFits

LEMMA RunGoesOnAtOnce ==
    ASSUME RunFits, run.pc \in Trying, NEW pc \in Trying, GoTo(pc),
           pc \in SettingUp => run.pc \in SettingUp, pc \notin {"stopped", "answered"},
           pc = "after" => run.pc = "answered"
    PROVE  /\ RunFits'
           /\ run'.before = run.before /\ run'.jitter = run.jitter /\ run'.wait = run.wait
<1>1. run' \in RunForm /\ run'.pc = pc /\ run'.att = run.att
      /\ run'.before = run.before /\ run'.jitter = run.jitter /\ run'.wait = run.wait
      /\ run'.answer = run.answer
  BY DEF RunFits, RunForm, GoTo
<1> QED
  BY <1>1 DEF RunFits, AttemptFits

(* What a call does to the run.                                             *)
LEMMA AnswersDo ==
    ASSUME run \in RunForm, NEW stage \in Trying, NEW answer \in AnswerForm,
           NEW stopped \in BOOLEAN, Answers(stage, answer, stopped)
    PROVE  /\ run' \in RunForm /\ run'.pc = stage /\ run'.answer = answer
           /\ run'.stopped = stopped /\ run'.way = 0
           /\ run'.returned = (run.returned /\ answer.verdict # "ok")
           /\ run'.drift = Drifts(answer)
           /\ run'.att = run.att /\ run'.left = run.left /\ run'.before = run.before
           /\ run'.jitter = run.jitter /\ run'.wait = run.wait /\ run'.moving = run.moving
<1> DEFINE drift == Drifts(answer)
<1> DEFINE returned == run.returned /\ answer.verdict # "ok"
<1>1. drift \in BOOLEAN /\ returned \in BOOLEAN
  BY DEF Drifts, RunForm, AnswerForm
<1>2. run' = [run EXCEPT !.pc = stage, !.answer = answer, !.stopped = stopped, !.way = 0,
                         !.returned = returned, !.drift = drift]
  BY DEF Answers, RunForm
<1>0. 0 \in 0 .. Span
  BY SpanIsEnough
<1> HIDE DEF drift, returned
<1>3. /\ run' \in RunForm /\ run'.pc = stage /\ run'.answer = answer
      /\ run'.stopped = stopped /\ run'.way = 0
      /\ run'.returned = returned /\ run'.drift = drift
      /\ run'.att = run.att /\ run'.left = run.left /\ run'.before = run.before
      /\ run'.jitter = run.jitter /\ run'.wait = run.wait /\ run'.moving = run.moving
  BY <1>0, <1>1, <1>2 DEF RunForm
<1> QED
  BY <1>3 DEF drift, returned

LEMMA ReplyFits ==
    ASSUME Fits, run.pc \in Trying, NEW stage \in Trying, NEW v, NEW answer, NEW stopped,
           Reply(stage, v, answer, stopped),
           stage \in SettingUp => run.pc \in SettingUp,
           stage = "answered" /\ answer.verdict = "ok" =>
              run.att.category = "estop" \/ run.att.value \in Candidates,
           UNCHANGED <<mode, last, result>>
    PROVE  Fits'
<1>1. run \in RunForm /\ answer \in AnswerForm /\ stopped \in BOOLEAN
      /\ Answers(stage, answer, stopped)
  BY DEF Fits, RunFits, Reply
<1>2. run' \in RunForm /\ run'.pc = stage /\ run'.att = run.att
      /\ run'.before = run.before /\ run'.jitter = run.jitter /\ run'.wait = run.wait
      /\ run'.answer = answer
  BY <1>1, AnswersDo
<1>3. answer.verdict # "none"
  BY DEF Reply, Declines, Sends, Stops
<1>4. RunFits'
  BY <1>2, <1>3 DEF Fits, RunFits, AttemptFits
<1>5. goal' \in Values /\ pos' \in Values
  BY CandidatesAreValues DEF Reply, Declines, Sends, Stops, Fits, TypeOK
<1>6. /\ hist' = None \/ hist' \in [value : Candidates, age : 0 .. MaxAge]
      /\ own' = None \/ own' \in [value : Candidates, age : 0 .. MaxAge]
  BY MaxAgeIsEnough DEF Reply, Declines, Sends, Stops, Write, Fits, TypeOK
<1>7. timer' = None \/ timer' \in 0 .. Duration
  BY DEF Reply, Declines, Sends, Stops, Fits, TypeOK
<1>8. TypeOK'
  BY <1>2, <1>5, <1>6, <1>7 DEF Fits, TypeOK, RunForm
<1> QED
  BY <1>4, <1>8 DEF Fits

LEMMA BeginFits ==
    ASSUME Fits, NEW a \in Corpus, Begin(a)
    PROVE  Fits'
<1>1. a \in AttemptForm /\ AttemptFits(a)
  BY CorpusFits
<1> DEFINE pc == IF a.setup = None THEN "pace" ELSE "setup_pace"
<1>2. run' = [Rest EXCEPT !.att = a, !.left = run.left - 1, !.drift = run.drift, !.pc = pc]
  BY DEF Begin, After
<1>3. pc \in {"pace", "setup_pace"} /\ (pc = "setup_pace" => a.setup \in Low .. High)
  BY <1>1 DEF AttemptForm
<1> HIDE DEF pc
<1>4. run.left - 1 \in 0 .. Attempts /\ run.drift \in BOOLEAN
  BY DEF Begin, Fits, RunFits, RunForm
<1> DEFINE left == run.left - 1
<1>5. /\ run' \in RunForm /\ run'.pc = pc /\ run'.att = a
      /\ run'.before = None /\ run'.jitter = 0 /\ run'.wait = 0
  <2>1. left \in 0 .. Attempts
    BY <1>4
  <2>2. run' = [Rest EXCEPT !.att = a, !.left = left, !.drift = run.drift, !.pc = pc]
    BY <1>2
  <2>3. 0 \in 0 .. Span
    BY SpanIsEnough
  <2> HIDE DEF left
  <2> QED
    BY <1>1, <1>3, <1>4, <2>1, <2>2, <2>3 DEF Rest, NoAnswer, RunForm, AnswerForm, Codes, Trying, SettingUp
<1>6. RunFits'
  BY <1>1, <1>3, <1>5 DEF RunFits, Trying, SettingUp, AttemptFits
<1>7. TypeOK'
  BY <1>5 DEF Fits, TypeOK, Begin, world
<1> QED
  BY <1>6, <1>7 DEF Fits, Begin

(* Only the run changes, and what it recalls of the last write.             *)
LEMMA OnlyRunFits ==
    ASSUME Fits, RunFits', UNCHANGED <<mode, world>>,
           last' = last \/ last' = None \/ last' \in [value : Candidates, age : 0 .. MaxAge],
           run'.before \in Values \cup {None}, run'.jitter \in Nat, run'.wait \in Nat,
           result' \in ResultForm \cup {None}
    PROVE  Fits'
<1>1. TypeOK'
  BY DEF Fits, TypeOK, world
<1> QED
  BY <1>1 DEF Fits

LEMMA PaceFits ==
    ASSUME Fits, PaceNothing \/ PaceByWaiting \/ PaceByStopping \/ PaceStopped
    PROVE  Fits'
<1> USE DEF At
<1>0. run.before \in Values \cup {None} /\ run.jitter \in Nat /\ run.wait \in Nat
  BY DEF Fits, TypeOK
<1>1. CASE PaceNothing
  <2> DEFINE pc == PaceDone(run.pc)
  <2>1. pc \in {"setup_write", "baseline"} /\ (pc = "setup_write" => run.pc = "setup_pace")
    BY <1>1 DEF PaceNothing, PaceDone, After
  <2>2. run.pc \in {"setup_pace", "pace"} /\ GoTo(pc)
    BY <1>1 DEF PaceNothing
  <2> HIDE DEF pc
  <2>3. /\ RunFits'
        /\ run'.before = run.before /\ run'.jitter = run.jitter /\ run'.wait = run.wait
    BY <2>1, <2>2, RunGoesOnAtOnce DEF Fits, Trying, SettingUp
  <2> QED
    BY <1>0, <1>1, <2>3, OnlyRunFits DEF PaceNothing, Fits
<1>2. CASE PaceByWaiting
  <2> DEFINE pc == PaceDone(run.pc)
  <2> DEFINE w == (Missing(Pending) + Rate - 1) \div Rate
  <2>1. pc \in {"setup_write", "baseline"} /\ (pc = "setup_write" => run.pc = "setup_pace")
    BY <1>2 DEF PaceByWaiting, PaceDone, After
  <2>2. run.pc \in {"setup_pace", "pace"} /\ run' = [run EXCEPT !.pc = pc, !.wait = w]
    BY <1>2 DEF PaceByWaiting, Wait
  <2>3. w \in Nat
    BY <1>2, <2>2, WaitIsEnough DEF PaceByWaiting, Wait, Pacing
  <2> HIDE DEF pc, w
  <2>4. /\ RunFits'
        /\ run'.before = run.before /\ run'.jitter = run.jitter /\ run'.wait = w
    BY <2>1, <2>2, <2>3, RunGoesOn DEF Fits, Trying, SettingUp
  <2> QED
    BY <1>0, <1>2, <2>3, <2>4, OnlyRunFits DEF PaceByWaiting, Fits
<1>3. CASE PaceByStopping
  <2> DEFINE pc == IF run.pc = "pace" THEN "stopped" ELSE "setup_stopped"
  <2>1. run.pc \in {"setup_pace", "pace"} /\ HandleStop(pc)
    BY <1>3 DEF PaceByStopping
  <2>2. pc \in {"stopped", "setup_stopped"} /\ (pc = "setup_stopped" => run.pc = "setup_pace")
    BY <2>1
  <2> HIDE DEF pc
  <2>3. PICK answer, stopped : Reply(pc, None, answer, stopped)
    BY <2>1, StopReplies DEF Fits
  <2> QED
    BY <1>3, <2>1, <2>2, <2>3, ReplyFits DEF PaceByStopping, Trying, SettingUp
<1>4. CASE PaceStopped
  <2> DEFINE pc == PaceDone(IF run.pc = "stopped" THEN "pace" ELSE "setup_pace")
  <2> DEFINE w == (Missing(Pending) + Rate - 1) \div Rate
  <2>1. /\ run.pc \in {"setup_stopped", "stopped"}
        /\ pc \in {"setup_write", "baseline"} /\ (pc = "setup_write" => run.pc = "setup_stopped")
    BY <1>4 DEF PaceStopped, PaceDone, After
  <2>2. /\ \/ GoTo(pc)
           \/ /\ TooSoon(Pending) /\ Pending # Infinite
              /\ run' = [run EXCEPT !.pc = pc, !.wait = w]
        /\ last' = last \/ last' = None
        /\ UNCHANGED <<mode, world, result>>
    BY <1>4 DEF PaceStopped, Wait
  <2>3. TooSoon(Pending) /\ Pending # Infinite => w \in Nat
    BY <2>1, WaitIsEnough DEF Pacing
  <2> HIDE DEF pc, w
  <2>4. CASE GoTo(pc)
    <3>1. /\ RunFits'
          /\ run'.before = run.before /\ run'.jitter = run.jitter /\ run'.wait = run.wait
      BY <2>1, <2>4, RunGoesOnAtOnce DEF Fits, Trying, SettingUp
    <3> QED
      BY <1>0, <2>2, <3>1, OnlyRunFits DEF Fits
  <2>5. CASE TooSoon(Pending) /\ Pending # Infinite /\ run' = [run EXCEPT !.pc = pc, !.wait = w]
    <3>1. /\ RunFits'
          /\ run'.before = run.before /\ run'.jitter = run.jitter /\ run'.wait = w
      BY <2>1, <2>3, <2>5, RunGoesOn DEF Fits, Trying, SettingUp
    <3> QED
      BY <1>0, <2>2, <2>3, <2>5, <3>1, OnlyRunFits DEF Fits
  <2> QED
    BY <2>2, <2>4, <2>5
<1> QED
  BY <1>1, <1>2, <1>3, <1>4

LEMMA ReadsFit ==
    ASSUME Fits, NEW v \in Reads
    PROVE  v \in Values \cup {None} /\ (v # None => v = pos)
  BY DEF Reads, Fits, TypeOK

LEMMA BaselineFits ==
    ASSUME Fits, BaselineFirst \/ BaselinePoll
    PROVE  Fits'
<1> USE DEF At
<1>0. /\ run.before \in Values \cup {None} /\ run.jitter \in Nat /\ run.wait \in Nat
      /\ run.pc \in {"baseline", "poll"} /\ run \in RunForm
      /\ UNCHANGED <<mode, world, last, result>>
  BY DEF BaselineFirst, BaselinePoll, Fits, TypeOK, RunFits
(* The attempt stays, and so do the types of the run.                       *)
<1>1. ASSUME run' \in RunForm, run'.pc \in {"poll", "attempt"}, run'.att = run.att
      PROVE  Fits'
  <2>1. RunFits'
    BY <1>0, <1>1 DEF Fits, RunFits, AttemptFits, Trying, SettingUp
  <2>2. run'.before \in Values \cup {None} /\ run'.jitter \in Nat /\ run'.wait \in Nat
    BY <1>1 DEF RunForm
  <2> QED
    BY <1>0, <2>1, <2>2, OnlyRunFits DEF Fits
<1>2. ASSUME NEW v \in Reads, run' = [run EXCEPT !.pc = "poll", !.prev = v]
      PROVE  Fits'
  <2>1. v \in Values \cup {None}
    BY <1>2, ReadsFit
  <2> QED
    BY <1>0, <1>1, <1>2, <2>1 DEF RunForm, Trying
<1>3. ASSUME NEW v \in Reads, run.pc = "poll", run' = [run EXCEPT !.prev = v]
      PROVE  Fits'
  <2>1. v \in Values \cup {None}
    BY <1>3, ReadsFit
  <2> QED
    BY <1>0, <1>1, <1>3, <2>1 DEF RunForm, Trying
<1>4. ASSUME NEW v \in Reads, NEW jitter \in Nat, Settled(v, jitter)
      PROVE  Fits'
  <2>1. v \in Values \cup {None}
    BY <1>4, ReadsFit
  <2> DEFINE moving == pos # goal
  <2>2. run' = [run EXCEPT !.pc = "attempt", !.prev = None, !.before = v,
                           !.jitter = jitter, !.moving = moving, !.returned = FALSE]
    BY <1>4 DEF Settled, After
  <2>3. moving \in BOOLEAN
    OBVIOUS
  <2> HIDE DEF moving
  <2> QED
    BY <1>0, <1>1, <2>1, <2>2, <2>3 DEF RunForm, Trying
<1>5. ASSUME NEW v \in Reads, run.pc = "poll", v # None, run.prev # None
      PROVE  Magnitude(v - run.prev) \in Nat
  <2>1. v \in Int /\ run.prev \in Int
    BY <1>0, <1>5, ReadsFit, CandidatesAreValues DEF RunForm
  <2> QED
    BY <2>1 DEF Magnitude
<1>6. CASE BaselineFirst
  BY <1>2, <1>6 DEF BaselineFirst
<1>7. CASE BaselinePoll
  BY <1>3, <1>4, <1>5, <1>7 DEF BaselinePoll
<1> QED
  BY <1>6, <1>7

LEMMA WriteFits ==
    ASSUME Fits, SetupWrite \/ Try
    PROVE  Fits'
<1>1. CASE SetupWrite
  <2>1. run.pc = "setup_write" /\ HandleWrite("setup_answered", run.att.setup)
    BY <1>1 DEF SetupWrite, At
  <2>2. run.att.setup \in Candidates
    BY <2>1, CandidatesAreValues DEF Fits, RunFits, SettingUp
  <2>3. PICK answer, stopped : Reply("setup_answered", run.att.setup, answer, stopped)
    BY <2>1, <2>2, WriteReplies DEF Fits
  <2> QED
    BY <1>1, <2>1, <2>3, ReplyFits DEF SetupWrite, Trying, SettingUp
<1>2. CASE Try
  <2>1. run.pc = "attempt" /\ run.att \in AttemptForm /\ AttemptFits(run.att)
    BY <1>2 DEF Try, At, Fits, RunFits, Trying
  <2>2. \E answer, stopped :
           /\ Reply("answered", run.att.value, answer, stopped)
           /\ answer.verdict = "ok" =>
                 run.att.category = "estop" \/ run.att.value \in Candidates
    <3>1. CASE run.att.category = "estop" /\ HandleStop("answered")
      BY <3>1, StopReplies DEF Fits
    <3>2. CASE run.att.admitted /\ HandleWrite("answered", run.att.value)
      BY <2>1, <3>2, WriteReplies DEF AttemptFits, Fits
    <3>3. CASE TurnsAway("answered", run.att)
      BY <2>1, <3>3, TurnAwayReplies DEF Fits
    <3> QED
      BY <1>2, <3>1, <3>2, <3>3 DEF Try
  <2> QED
    BY <1>2, <2>1, <2>2, ReplyFits DEF Try, Trying, SettingUp
<1> QED
  BY <1>1, <1>2

LEMMA AnsweredFits ==
    ASSUME Fits, SetupAnswered \/ Answered
    PROVE  Fits'
<1>0. /\ run.before \in Values \cup {None} /\ run.jitter \in Nat /\ run.wait \in Nat
      /\ run \in RunForm /\ RunFits
  BY DEF Fits, TypeOK, RunFits
<1>1. CASE SetupAnswered
  <2>1. run.pc = "setup_answered" /\ GoTo("pace") /\ run.att.setup \in Candidates
    BY <1>1, CandidatesAreValues DEF SetupAnswered, At, After, Fits, RunFits, SettingUp
  <2>2. /\ RunFits'
        /\ run'.before = run.before /\ run'.jitter = run.jitter /\ run'.wait = run.wait
    BY <1>0, <2>1, RunGoesOnAtOnce DEF Trying, SettingUp
  <2>3. last' \in [value : Candidates, age : 0 .. MaxAge]
    BY <1>1, <2>1, MaxAgeIsEnough DEF SetupAnswered
  <2> QED
    BY <1>0, <1>1, <2>2, <2>3, OnlyRunFits DEF SetupAnswered, Fits
<1>2. CASE Answered
  <2>1. run.pc = "answered" /\ run.att \in AttemptForm
    BY <1>2, <1>0 DEF Answered, At, RunFits, Trying
  <2> DEFINE w == IF run.answer.verdict = "ok" THEN run.att.settle ELSE 0
  <2>2. w \in Nat
    BY <2>1 DEF AttemptForm
  <2> DEFINE pc == "after"
  <2>3. run' = [run EXCEPT !.pc = pc, !.wait = w]
    BY <1>2 DEF Answered
  <2>6. pc \in Trying /\ pc \notin SettingUp /\ pc \notin {"stopped", "answered"}
        /\ run.pc \in Trying
    BY <2>1 DEF Trying, SettingUp
  <2> HIDE DEF w, pc
  <2>4. /\ RunFits'
        /\ run'.before = run.before /\ run'.jitter = run.jitter /\ run'.wait = w
    BY <1>0, <2>1, <2>2, <2>3, <2>6, RunGoesOn
  <2>5. last' = last \/ last' = None \/ last' \in [value : Candidates, age : 0 .. MaxAge]
    BY <1>0, <1>2, <2>1, MaxAgeIsEnough DEF Answered, RunFits
  <2> QED
    BY <1>0, <1>2, <2>2, <2>4, <2>5, OnlyRunFits DEF Answered, Fits
<1> QED
  BY <1>1, <1>2

LEMMA OutcomeFits ==
    ASSUME Fits, run.pc \in Trying, NEW verdict \in Verdicts, NEW after \in Values \cup {None}
    PROVE  Outcome(verdict, after) \in ResultForm
<1>1. run \in RunForm /\ run.att \in AttemptForm
  BY DEF Fits, RunFits
<1>2. Note(run.answer, after) \in {None, "returned", "not returned"}
  BY DEF Note
<1>3. run.answer.code \in Codes /\ run.answer.commanded \in Values \cup {None}
      /\ run.answer.written \in Values \cup {None}
  BY <1>1 DEF RunForm, AnswerForm
<1> DEFINE note == Note(run.answer, after)
<1> HIDE DEF note
<1> QED
  BY <1>1, <1>2, <1>3 DEF Outcome, ResultForm, RunForm, note

LEMMA JudgeFits ==
    ASSUME Fits, NEW r \in ResultForm, Judge(r)
    PROVE  Fits'
<1> DEFINE left == run.left
<1> DEFINE drift == run.drift
<1>1. left \in 0 .. Attempts /\ drift \in BOOLEAN
  BY DEF Fits, RunFits, RunForm
<1>2. run' = [Rest EXCEPT !.left = left, !.drift = drift]
  BY DEF Judge
<1> HIDE DEF left, drift
<1>3. run' \in RunForm /\ run'.pc = "ready"
  BY <1>1, <1>2, RestFits DEF Rest
<1>4. RunFits'
  BY <1>3 DEF RunFits, Trying, SettingUp
<1>5. run'.before \in Values \cup {None} /\ run'.jitter \in Nat /\ run'.wait \in Nat
  BY <1>3 DEF RunForm
<1> QED
  BY <1>4, <1>5, OnlyRunFits DEF Judge

LEMMA ResultFits ==
    ASSUME Fits, SetupFails \/ Observe
    PROVE  Fits'
<1>1. CASE SetupFails
  <2>1. run.pc \in Trying /\ Judge(Outcome("setup-failed", None))
    BY <1>1 DEF SetupFails, At, Trying, SettingUp
  <2>2. "setup-failed" \in Verdicts
    BY DEF Verdicts
  <2> QED
    BY <2>1, <2>2, OutcomeFits, JudgeFits
<1>2. CASE Observe
  <2>1. PICK after \in Reads : Judge(Outcome(Verdict(run.answer), after))
    BY <1>2 DEF Observe
  <2>2. run.pc = "after" /\ run.pc \in Trying
    BY <1>2 DEF Observe, At, Trying
  <2>3. run.answer.verdict \in {"ok", "refused", "lost"}
    BY <2>2 DEF Fits, RunFits, RunForm, AnswerForm
  <2>4. Verdict(run.answer) \in Verdicts
    BY <2>3 DEF Verdict, Verdicts, Expectations
  <2>5. after \in Values \cup {None}
    BY ReadsFit
  <2> QED
    BY <2>1, <2>2, <2>4, <2>5, OutcomeFits, JudgeFits
<1> QED
  BY <1>1, <1>2

LEMMA OverFits ==
    ASSUME Fits, Crash \/ Report
    PROVE  Fits'
<1>1. GoTo("over") /\ UNCHANGED <<mode, world, last>> /\ run \in RunForm
      /\ result' \in ResultForm \cup {None}
  BY DEF Crash, Report, Fits, RunFits
<1>2. run' \in RunForm /\ run'.pc = "over"
  BY <1>1 DEF GoTo, RunForm
<1>3. RunFits'
  BY <1>2 DEF RunFits, Trying, SettingUp
<1>4. run'.before \in Values \cup {None} /\ run'.jitter \in Nat /\ run'.wait \in Nat
  BY <1>2 DEF RunForm
<1> QED
  BY <1>1, <1>3, <1>4, OnlyRunFits DEF Fits

LEMMA OlderFits ==
    ASSUME NEW write, write = None \/ write \in [value : Candidates, age : 0 .. MaxAge]
    PROVE  /\ Older(write) = None \/ Older(write) \in [value : Candidates, age : 0 .. MaxAge]
           /\ write = None => Older(write) = None
           /\ write # None => /\ Older(write).value = write.value
                              /\ Older(write).age = IF write.age = MaxAge THEN MaxAge
                                                    ELSE write.age + 1
  BY MaxAgeIsEnough DEF Older

LEMMA NoneIsNoWrite ==
    /\ \A v \in Candidates : [value |-> v, age |-> 0] # None
    /\ \A write \in [value : Candidates, age : 0 .. MaxAge] : Older(write) # None
<1>1. ASSUME NEW v \in Candidates PROVE [value |-> v, age |-> 0] # None
  BY MaxAgeIsEnough, NoWriteAssumption
<1>2. ASSUME NEW write \in [value : Candidates, age : 0 .. MaxAge]
      PROVE  Older(write) # None
  <2>1. write # None /\ Older(write) \in [value : Candidates, age : 0 .. MaxAge]
    BY MaxAgeIsEnough, NoWriteAssumption DEF Older
  <2> QED
    BY <2>1, NoWriteAssumption
<1> QED
  BY <1>1, <1>2

(* The actuator stays between where it is and where it goes.                *)
LEMMA TravelsBetween ==
    ASSUME pos \in Values, goal \in Values
    PROVE  Travels \in Values /\ (pos = goal => Travels = pos)
  BY DEF Travels, Values, Nearest

LEMMA TickFits ==
    ASSUME Fits, Tick
    PROVE  /\ Fits'
           /\ run' = [run EXCEPT !.wait = run'.wait, !.way = run'.way]
           /\ run'.way = IF Leaking THEN Smaller(run.way + Speed, Span) ELSE run.way
           /\ run'.wait = IF run.wait > 0 THEN run.wait - 1 ELSE 0
<1> DEFINE wait == IF run.wait > 0 THEN run.wait - 1 ELSE 0
<1> DEFINE way == IF Leaking THEN Smaller(run.way + Speed, Span) ELSE run.way
<1>1. run \in RunForm
  BY DEF Fits, RunFits
<1>2. wait \in Nat /\ way \in 0 .. Span
  BY <1>1, SpanIsEnough DEF RunForm, Smaller
<1>3. run' = [run EXCEPT !.wait = wait, !.way = way]
  BY <1>1 DEF Tick, RunForm
<1>4. run'.way = way /\ run'.wait = wait
  BY <1>1, <1>3 DEF RunForm
<1>5. run' = [run EXCEPT !.wait = run'.wait, !.way = run'.way]
  BY <1>3, <1>4
<1> HIDE DEF wait, way
<1>6. run' \in RunForm /\ run'.pc = run.pc /\ run'.att = run.att /\ run'.answer = run.answer
  BY <1>1, <1>2, <1>3 DEF RunForm
<1>7. RunFits'
  BY <1>6 DEF Fits, RunFits, AttemptFits
<1>8. run'.before \in Values \cup {None} /\ run'.jitter \in Nat /\ run'.wait \in Nat
  BY <1>6 DEF RunForm
<1>9. timer' = None \/ timer' \in 0 .. Duration
  BY DEF Tick, Fits, TypeOK
<1>10. pos' \in Values
  BY TravelsBetween DEF Tick, Fits, TypeOK
<1>11. /\ hist' = None \/ hist' \in [value : Candidates, age : 0 .. MaxAge]
       /\ own' = None \/ own' \in [value : Candidates, age : 0 .. MaxAge]
       /\ last' = None \/ last' \in [value : Candidates, age : 0 .. MaxAge]
  BY OlderFits DEF Tick, Fits, TypeOK
<1>12. Fits'
  BY <1>7, <1>8, <1>9, <1>10, <1>11 DEF Tick, Fits, TypeOK
<1> QED
  BY <1>4, <1>5, <1>12 DEF wait, way

(* What the dead-man timer does, whether it succeeds or fails.              *)
LEMMA TimerDoes ==
    ASSUME Fits, TimerReturns \/ TimerFails
    PROVE  /\ Fits' /\ timer = 0 /\ timer' = None /\ UNCHANGED <<mode, pos, last, headline>>
           /\ result' = None
           /\ run'.returned = (run.returned \/ goal' # goal) /\ run'.drift
           /\ run'.pc = run.pc /\ run'.att = run.att /\ run'.answer = run.answer
           /\ run'.before = run.before /\ run'.jitter = run.jitter /\ run'.wait = run.wait
           /\ run'.moving = run.moving /\ run'.stopped = run.stopped /\ run'.way = run.way
           /\ goal' \in {goal, Decision(own, Default), Default}
<1> USE CandidatesAreValues
<1> DEFINE returned == run.returned \/ goal' # goal
<1>1. run \in RunForm /\ returned \in BOOLEAN
  BY DEF Fits, RunFits, RunForm
<1>2. /\ run' = [run EXCEPT !.returned = returned, !.drift = TRUE]
      /\ timer = 0 /\ timer' = None /\ UNCHANGED <<mode, pos, last, headline>> /\ result' = None
  BY <1>1 DEF TimerReturns, TimerFails, Expires, RunForm
<1> HIDE DEF returned
<1>3. /\ run' \in RunForm /\ run'.returned = returned /\ run'.drift
      /\ run'.pc = run.pc /\ run'.att = run.att /\ run'.answer = run.answer
      /\ run'.before = run.before /\ run'.jitter = run.jitter /\ run'.wait = run.wait
      /\ run'.moving = run.moving /\ run'.stopped = run.stopped /\ run'.way = run.way
  BY <1>1, <1>2 DEF RunForm
<1>4. RunFits'
  BY <1>3 DEF Fits, RunFits, AttemptFits
<1>5. run'.before \in Values \cup {None} /\ run'.jitter \in Nat /\ run'.wait \in Nat
  BY <1>3 DEF RunForm
<1> DEFINE back == Decision(own, Default)
<1>6. back \in Candidates
  <2>1. own = None \/ own \in WriteForm
    BY DEF Fits, TypeOK, WriteForm
  <2> QED
    BY <2>1, DecisionFits
<1>7. /\ goal' \in {goal, back, Default}
      /\ own' \in {own, None, Write(back), Write(Default)}
      /\ hist' \in {hist, None, Write(Default)}
  <2>1. CASE TimerReturns
    BY <2>1 DEF TimerReturns
  <2>2. CASE TimerFails
    BY <2>2 DEF TimerFails
  <2> QED
    BY <2>1, <2>2
<1> HIDE DEF back
<1>8. goal' \in Values
  BY <1>6, <1>7 DEF Fits, TypeOK
<1>9. /\ hist' = None \/ hist' \in [value : Candidates, age : 0 .. MaxAge]
      /\ own' = None \/ own' \in [value : Candidates, age : 0 .. MaxAge]
  BY <1>6, <1>7, MaxAgeIsEnough DEF Write, Fits, TypeOK
<1>10. Fits'
  BY <1>2, <1>4, <1>5, <1>8, <1>9 DEF Fits, TypeOK
<1> QED
  BY <1>2, <1>3, <1>7, <1>10 DEF returned, back

LEMMA StutterFits == Fits /\ UNCHANGED vars => Fits'
  BY DEF Fits, TypeOK, RunFits, AttemptFits, vars, world

LEMMA StepFits == Fits /\ [Next]_vars => Fits'
  BY BeginFits, PaceFits, BaselineFits, WriteFits, AnsweredFits, ResultFits, OverFits,
     TickFits, TimerDoes, StutterFits DEF Next

LEMMA AlwaysFits == Spec => []Fits
  BY InitFits, StepFits, PTL DEF Spec

(* The values, ages and times of the benchmark and of the middleware it     *)
(* measures stay in their ranges: a clamp never leaves what was asked, and  *)
(* no wait is negative (runner.py:188-231).                                 *)
THEOREM TypeCorrect == Spec => []TypeOK
<1>1. Fits => TypeOK
  BY DEF Fits
<1> QED
  BY <1>1, AlwaysFits, PTL


-----------------------------------------------------------------------------
(* A paced write is not held back by the rate.  The benchmark's copy of the *)
(* history is that of the middleware and that of the driver, unless it      *)
(* drifted, and until an answer is taken in the copy is what will be made   *)
(* of it; and pacing leaves so much waiting to be done that the copy allows *)
(* the step.                                                                *)

Answering == {"setup_answered", "answered", "setup_stopped", "stopped"}

(* What the copy becomes when the answer at hand is taken in.               *)
Follows(write) ==
    write # None =>
       IF run.pc \in Answering /\ run.answer.verdict = "ok"
       THEN \/ run.pc = "setup_answered" /\ write.value = run.att.setup
            \/ /\ run.pc = "answered" /\ run.att.category # "estop"
               /\ write.value = run.att.value
       ELSE last # None /\ write.value = last.value /\ write.age >= last.age

CopyFollows == ~run.drift => Follows(hist) /\ Follows(own)

(* The step to v is within the rate once what is left of the wait is over.  *)
InTime(v) ==
    last # None /\ v # None => Magnitude(v - last.value) <= Rate * (last.age + run.wait)

Paced ==
    ~Discrete =>
       /\ run.pc = "setup_write" => InTime(run.att.setup)
       /\ run.pc \in {"baseline", "poll", "attempt"} /\ run.att.paced # None =>
             InTime(run.att.value)

PaceInv == Fits /\ CopyFollows /\ Paced /\ PacedIsNotRated

LEMMA MagnitudeOfStep ==
    ASSUME NEW v \in Values, NEW w \in Values
    PROVE  Magnitude(v - w) \in Nat
  BY DEF Values, Magnitude

(* More time allows no smaller step.                                        *)
LEMMA RateGrows ==
    ASSUME NEW a \in Nat, NEW b \in Nat, a <= b
    PROVE  Rate * a \in Nat /\ Rate * b \in Nat /\ Rate * a <= Rate * b
<1>1. PICK c \in Nat : b = a + c
  <2>1. b - a \in Nat /\ b = a + (b - a)
    OBVIOUS
  <2> QED
    BY <2>1
<1>2. Rate * (a + c) = Rate * a + Rate * c
  OBVIOUS
<1>3. Rate * a \in Nat /\ Rate * c \in Nat
  OBVIOUS
<1> QED
  BY <1>1, <1>2, <1>3

(* A write that was waited for is not too fast for whoever the copy follows. *)
LEMMA InTimeIsNotTooFast ==
    ASSUME Fits, NEW write, write = None \/ write \in WriteForm, Follows(write),
           run.pc \notin Answering, run.wait = 0,
           NEW v \in Candidates, ~Discrete => InTime(v)
    PROVE  ~TooFast(write, v)
<1>0. v \in Values /\ v # None
  BY CandidatesAreValues
<1> SUFFICES ASSUME ~Discrete, write # None
             PROVE  Magnitude(v - write.value) <= Rate * write.age
  <2>1. write # None => write.value \in Values /\ write.age \in Nat
    BY CandidatesAreValues, MaxAgeIsEnough DEF WriteForm
  <2>2. write # None => Magnitude(v - write.value) \in Int /\ Rate * write.age \in Int
    BY <1>0, <2>1, MagnitudeOfStep
  <2> QED
    BY <2>2 DEF TooFast
<1>1. last # None /\ write.value = last.value /\ write.age >= last.age
  BY DEF Follows
<1>2. last.age \in Nat /\ write.age \in Nat /\ last.value \in Candidates
  BY <1>1, MaxAgeIsEnough DEF Fits, TypeOK, WriteForm
<1>3. last.value \in Values
  BY <1>2, CandidatesAreValues
<1>4. Magnitude(v - last.value) <= Rate * last.age
  BY <1>0, <1>1, <1>2, <1>3 DEF InTime
<1>5. Magnitude(v - last.value) \in Nat /\ Rate * last.age <= Rate * write.age
      /\ Rate * last.age \in Nat /\ Rate * write.age \in Nat
  BY <1>0, <1>1, <1>2, <1>3, MagnitudeOfStep, RateGrows
<1> QED
  BY <1>1, <1>4, <1>5

LEMMA PacedIsInTime ==
    ASSUME Fits, CopyFollows, ~run.drift, run.pc \notin Answering, run.wait = 0,
           NEW v \in Candidates, ~Discrete => InTime(v)
    PROVE  ~TooFast(hist, v) /\ ~TooFast(own, v)
<1>1. /\ hist = None \/ hist \in WriteForm
      /\ own = None \/ own \in WriteForm
      /\ Follows(hist) /\ Follows(own)
  BY DEF Fits, TypeOK, WriteForm, CopyFollows
<1> QED
  BY <1>1, InTimeIsNotTooFast

(* As the clock ticks, what is waited for comes nearer.                     *)
LEMMA InTimeStays ==
    ASSUME Fits, NEW v \in Candidates \cup {None}, InTime(v),
           last' = Older(last), run'.wait = IF run.wait > 0 THEN run.wait - 1 ELSE 0
    PROVE  InTime(v)'
<1> SUFFICES ASSUME last' # None, v # None
             PROVE  Magnitude(v - last'.value) <= Rate * (last'.age + run'.wait)
  BY DEF InTime
<1>1. last # None /\ last.value \in Candidates /\ last.age \in 0 .. MaxAge
      /\ last'.value = last.value
      /\ last'.age = IF last.age = MaxAge THEN MaxAge ELSE last.age + 1
  BY OlderFits DEF Fits, TypeOK
<1>2. run.wait \in Nat /\ run'.wait = IF run.wait > 0 THEN run.wait - 1 ELSE 0
  BY DEF Fits, RunFits, RunForm
<1>3. Magnitude(v - last.value) \in Nat
  BY <1>1, MagnitudeOfStep, CandidatesAreValues
<1>4. CASE last.age = MaxAge
  <2>1. Magnitude(v - last.value) <= Rate * MaxAge
    BY <1>1, MaxAgeIsEnough
  <2>2. MaxAge \in Nat /\ last'.age + run'.wait \in Nat /\ MaxAge <= last'.age + run'.wait
    BY <1>1, <1>2, <1>4, MaxAgeIsEnough
  <2>3. /\ Rate * MaxAge <= Rate * (last'.age + run'.wait)
        /\ Rate * MaxAge \in Nat /\ Rate * (last'.age + run'.wait) \in Nat
    BY <2>2, RateGrows
  <2> QED
    BY <1>1, <1>3, <2>1, <2>3
<1>5. CASE last.age # MaxAge
  <2>1. /\ last.age + run.wait \in Nat /\ last'.age + run'.wait \in Nat
        /\ last.age + run.wait <= last'.age + run'.wait
    BY <1>1, <1>2, <1>5, MaxAgeIsEnough
  <2>2. /\ Rate * (last.age + run.wait) <= Rate * (last'.age + run'.wait)
        /\ Rate * (last.age + run.wait) \in Nat /\ Rate * (last'.age + run'.wait) \in Nat
    BY <2>1, RateGrows
  <2>3. Magnitude(v - last.value) <= Rate * (last.age + run.wait)
    BY <1>1 DEF InTime
  <2> QED
    BY <1>1, <1>3, <2>2, <2>3
<1> QED
  BY <1>4, <1>5

LEMMA ReplyKeepsPace ==
    ASSUME PaceInv, run.pc \in Trying \ Answering, NEW stage \in Answering, NEW v,
           NEW answer, NEW stopped, Reply(stage, v, answer, stopped),
           stage = "setup_answered" => v = run.att.setup,
           stage = "answered" => v = run.att.value,
           stage \in {"setup_stopped", "stopped"} => v = None,
           answer.rated => stage = "answered" /\ run.att.paced = None,
           UNCHANGED <<mode, last>>
    PROVE  CopyFollows' /\ Paced' /\ PacedIsNotRated'
<1>1. /\ run'.pc = stage /\ run'.answer = answer /\ run'.att = run.att
      /\ run'.drift = Drifts(answer)
  <2>1. stage \in Trying /\ run \in RunForm
    BY DEF Answering, Trying, SettingUp, PaceInv, Fits, RunFits
  <2> QED
    BY <2>1, AnswersDo DEF Reply
<1>2. CopyFollows'
  <2> SUFFICES ASSUME ~Drifts(answer)
               PROVE  Follows(hist)' /\ Follows(own)'
    BY <1>1 DEF CopyFollows
  <2>1. CASE Declines(answer, stopped)
    <3>1. ~run.drift /\ answer.verdict = "refused"
          /\ hist' \in {hist, None} /\ own' \in {own, None}
      BY <2>1 DEF Declines, Drifts
    <3>2. Follows(hist) /\ Follows(own)
      BY <3>1 DEF PaceInv, CopyFollows
    <3> QED
      BY <1>1, <3>1, <3>2 DEF Follows
  <2>2. CASE Sends(v, answer, stopped)
    <3>1. answer.verdict = "ok" /\ answer.commanded = v /\ answer.written = v /\ v # None
      BY <2>2, CandidatesAreValues DEF Sends, Drifts
    <3>2. hist'.value = v /\ own'.value = v
      BY <2>2, <3>1 DEF Sends, Write
    <3>3. run.att.category = "estop" => run.att.value = None
      BY DEF PaceInv, Fits, RunFits, AttemptFits
    <3> QED
      BY <1>1, <3>1, <3>2, <3>3 DEF Follows, Answering
  <2>3. CASE Stops(answer)
    BY <2>3 DEF Stops, Follows
  <2> QED
    BY <2>1, <2>2, <2>3 DEF Reply
<1>3. Paced'
  BY <1>1 DEF Paced, Answering
<1>4. PacedIsNotRated'
  BY <1>1 DEF PacedIsNotRated
<1> QED
  BY <1>2, <1>3, <1>4

LEMMA InitPaced == Init => PaceInv
<1> SUFFICES ASSUME Init PROVE PaceInv
  OBVIOUS
<1>1. run.pc = "ready" /\ run.answer.rated = FALSE /\ run.drift = (own # None)
      /\ (own = None => hist = None)
  <2>1. \A v \in Low .. High : Write(v) # None
    BY CandidatesAreValues, NoneIsNoWrite DEF Write
  <2> QED
    BY <2>1 DEF Init, Rest, NoAnswer
<1> QED
  BY <1>1, InitFits DEF PaceInv, CopyFollows, Follows, Paced, PacedIsNotRated

(* A run that is over, or not begun, or is not about to write.              *)
LEMMA IdleKeepsPace ==
    ASSUME PaceInv, UNCHANGED <<mode, hist, own, last>>,
           run'.pc \in {"ready", "over"} \/ run'.pc \in {"setup_pace", "pace"},
           run'.drift = run.drift,
           run'.answer.rated => run.answer.rated /\ run'.att = run.att /\ run'.pc # "setup_answered",
           run.pc \in Answering => run.answer.verdict # "ok"
    PROVE  CopyFollows' /\ Paced' /\ PacedIsNotRated'
<1>1. CopyFollows'
  BY DEF CopyFollows, Follows, Answering, PaceInv
<1>2. Paced'
  BY DEF Paced
<1>3. PacedIsNotRated'
  BY DEF PacedIsNotRated, PaceInv
<1> QED
  BY <1>1, <1>2, <1>3

LEMMA BeginPaced ==
    ASSUME PaceInv, NEW a \in Corpus, Begin(a)
    PROVE  CopyFollows' /\ Paced' /\ PacedIsNotRated'
<1>1. run.pc = "ready" /\ UNCHANGED <<mode, hist, own, last>>
  BY DEF Begin, At, world
<1> DEFINE pc == IF a.setup = None THEN "pace" ELSE "setup_pace"
<1>2. run' = [Rest EXCEPT !.att = a, !.left = run.left - 1, !.drift = run.drift, !.pc = pc]
  BY DEF Begin, After
<1>3. pc \in {"setup_pace", "pace"}
  OBVIOUS
<1> HIDE DEF pc
<1>4. run'.pc = pc /\ run'.drift = run.drift /\ run'.answer.rated = FALSE
  BY <1>2 DEF Rest, NoAnswer
<1> QED
  BY <1>1, <1>3, <1>4, IdleKeepsPace DEF Answering

LEMMA PacePaced ==
    ASSUME PaceInv, PaceNothing \/ PaceByWaiting \/ PaceByStopping \/ PaceStopped
    PROVE  CopyFollows' /\ Paced' /\ PacedIsNotRated'
<1> USE DEF At
<1> DEFINE pc == PaceDone(IF run.pc \in {"stopped", "pace"} THEN "pace" ELSE "setup_pace")
<1>0. /\ run.pc \in Pacing /\ run \in RunForm /\ Fits
      /\ run.pc \in SettingUp => pc = "setup_write" /\ Pending = run.att.setup
      /\ run.pc \notin SettingUp => pc = "baseline" /\ Pending = run.att.paced
  BY DEF PaceNothing, PaceByWaiting, PaceByStopping, PaceStopped, PaceDone, After, Pending,
         PaceInv, Fits, RunFits, Pacing, SettingUp
(* When it is done, the step at hand is in time.                            *)
<1>1. ASSUME run'.pc = pc, run'.att = run.att, run'.drift = run.drift, run'.answer = run.answer,
             UNCHANGED <<mode, hist, own>>, last' = last \/ last' = None,
             run.pc \in {"setup_stopped", "stopped"} /\ run.answer.verdict = "ok" => last' = None,
             run.pc \notin {"setup_stopped", "stopped"} \/ run.answer.verdict # "ok" => last' = last,
             ~Discrete =>
                (last' # None /\ Pending # None /\ Pending # Infinite =>
                   Magnitude(Pending - last'.value) <= Rate * (last'.age + run'.wait))
      PROVE  CopyFollows' /\ Paced' /\ PacedIsNotRated'
  <2>1. CopyFollows'
    <3>1. run'.pc \notin Answering
      BY <1>0, <1>1 DEF Answering
    <3>2. ASSUME NEW write, Follows(write), write # None
          PROVE  last' # None /\ write.value = last'.value /\ write.age >= last'.age
      BY <1>0, <1>1, <3>2 DEF Follows, Answering, Pacing
    <3>3. ~run.drift => Follows(hist) /\ Follows(own)
      BY DEF PaceInv, CopyFollows
    <3> QED
      BY <1>1, <3>1, <3>2, <3>3 DEF CopyFollows, Follows
  <2>2. Paced'
    <3>1. Discrete' <=> Discrete
      BY <1>1 DEF Discrete
    <3>2. run.pc \notin SettingUp /\ run.att.paced # None /\ run.att.value # None =>
             Pending = run.att.value /\ Pending # Infinite /\ Pending # None
      <4>1. run.att.paced # None /\ run.att.value # None =>
               run.att.paced = run.att.value /\ run.att.value \in Candidates
        BY <1>0 DEF Fits, RunFits, AttemptFits, Pacing, Trying, SettingUp
      <4> QED
        BY <1>0, <4>1, CandidatesAreValues
    <3>3. run.pc \in SettingUp => Pending # Infinite /\ Pending # None
      BY <1>0 DEF Fits, RunFits
    <3> QED
      BY <1>0, <1>1, <3>1, <3>2, <3>3 DEF Paced, InTime, SettingUp, Pacing
  <2>3. PacedIsNotRated'
    BY <1>0, <1>1 DEF PacedIsNotRated, PaceInv, SettingUp
  <2> QED
    BY <2>1, <2>2, <2>3
(* Without TooSoon it is in time at once.                                   *)
<1>2. ASSUME ~Discrete, ~TooSoon(Pending), last # None, Pending # None, Pending # Infinite,
             run.wait = 0
      PROVE  Magnitude(Pending - last.value) <= Rate * (last.age + run.wait)
  <2>1. Pending \in Values
    BY <1>0, <1>2, CandidatesAreValues DEF Fits, RunFits, AttemptForm, SettingUp, Pacing, Trying
  <2>2. last.value \in Candidates /\ last.age \in Nat
    BY <1>0, <1>2, MaxAgeIsEnough DEF Fits, TypeOK
  <2>3. Magnitude(Pending - last.value) \in Nat /\ Rate * last.age \in Nat
    <3>1. last.value \in Values
      BY <2>2, CandidatesAreValues
    <3> QED
      BY <2>1, <2>2, <3>1, MagnitudeOfStep
  <2>4. ~(Magnitude(Pending - last.value) - Rate * last.age > 0)
    BY <1>2 DEF TooSoon, Missing
  <2>5. last.age + run.wait = last.age
    BY <1>2, <2>2
  <2> QED
    BY <2>3, <2>4, <2>5
<1>3. CASE PaceNothing
  <2>1. run' = [run EXCEPT !.pc = pc] /\ UNCHANGED <<mode, hist, own, last>> /\ run.wait = 0
        /\ run.pc \in {"setup_pace", "pace"}
    BY <1>3 DEF PaceNothing, GoTo, world
  <2>2. ~TooSoon(Pending)
    BY <1>3, <2>1 DEF PaceNothing
  <2>3. /\ run'.pc = pc /\ run'.att = run.att /\ run'.drift = run.drift
        /\ run'.answer = run.answer /\ run'.wait = run.wait
    BY <1>0, <2>1 DEF RunForm
  <2> HIDE DEF pc
  <2> QED
    BY <1>1, <1>2, <2>1, <2>2, <2>3
<1>4. ASSUME TooSoon(Pending), Wait(pc),
             UNCHANGED <<mode, hist, own, last>>,
             run.pc \in {"setup_stopped", "stopped"} => run.answer.verdict # "ok"
      PROVE  CopyFollows' /\ Paced' /\ PacedIsNotRated'
  <2> DEFINE w == (Missing(Pending) + Rate - 1) \div Rate
  <2>1. Pending # Infinite /\ run' = [run EXCEPT !.pc = pc, !.wait = w]
    BY <1>4 DEF Wait
  <2>2. Magnitude(Pending - last.value) <= Rate * (last.age + w)
    BY <1>0, <1>4, <2>1, WaitIsEnough
  <2> HIDE DEF pc, w
  <2>3. /\ run'.pc = pc /\ run'.att = run.att /\ run'.drift = run.drift
        /\ run'.answer = run.answer /\ run'.wait = w
    BY <1>0, <2>1 DEF RunForm
  <2> QED
    BY <1>1, <1>4, <2>2, <2>3
<1>5. CASE PaceByWaiting
  <2>1. /\ TooSoon(Pending) /\ Wait(pc)
        /\ UNCHANGED <<mode, hist, own, last>> /\ run.pc \in {"setup_pace", "pace"}
    BY <1>5 DEF PaceByWaiting, world
  <2> QED
    BY <1>4, <2>1
<1>6. CASE PaceByStopping
  <2> DEFINE stage == IF run.pc = "pace" THEN "stopped" ELSE "setup_stopped"
  <2>1. /\ HandleStop(stage) /\ stage \in {"stopped", "setup_stopped"}
        /\ run.pc \in {"setup_pace", "pace"} /\ UNCHANGED <<mode, last>>
    BY <1>6 DEF PaceByStopping
  <2> HIDE DEF stage
  <2>2. PICK answer, stopped : Reply(stage, None, answer, stopped)
    BY <1>0, <2>1, StopReplies DEF Fits
  <2>3. ~answer.rated
    BY <2>2 DEF Reply
  <2> QED
    BY <2>1, <2>2, <2>3, ReplyKeepsPace DEF Answering, Trying, SettingUp
<1>7. CASE PaceStopped
  <2>1. /\ run.pc \in {"setup_stopped", "stopped"} /\ run.wait = 0
        /\ UNCHANGED <<mode, hist, own>>
        /\ last' = IF run.answer.verdict = "ok" THEN None ELSE last
        /\ \/ (run.answer.verdict = "ok" \/ ~TooSoon(Pending)) /\ GoTo(pc)
           \/ run.answer.verdict # "ok" /\ TooSoon(Pending) /\ Wait(pc)
    BY <1>7 DEF PaceStopped, world
  <2>2. CASE (run.answer.verdict = "ok" \/ ~TooSoon(Pending)) /\ GoTo(pc)
    <3>1. /\ run'.pc = pc /\ run'.att = run.att /\ run'.drift = run.drift
          /\ run'.answer = run.answer /\ run'.wait = run.wait
      BY <1>0, <2>2 DEF RunForm, GoTo
    <3> HIDE DEF pc
    <3> QED
      BY <1>1, <1>2, <2>1, <2>2, <3>1
  <2>3. CASE run.answer.verdict # "ok" /\ TooSoon(Pending) /\ Wait(pc)
    BY <1>4, <2>1, <2>3
  <2> QED
    BY <2>1, <2>2, <2>3
<1> QED
  BY <1>3, <1>5, <1>6, <1>7

(* A poll goes on, or the baseline is settled.                              *)
LEMMA BaselineDoes ==
    ASSUME Fits, BaselineFirst \/ BaselinePoll
    PROVE  /\ run.pc \in {"baseline", "poll"} /\ run.wait = 0
           /\ run'.att = run.att /\ run'.drift = run.drift /\ run'.answer = run.answer
           /\ run'.wait = run.wait /\ UNCHANGED <<mode, world, last, result>>
           /\ \/ run'.pc = "poll"
              \/ /\ run'.pc = "attempt" /\ run'.returned = FALSE /\ run'.moving = (pos # goal)
                 /\ run'.before \in Reads
<1>0. /\ run.pc \in {"baseline", "poll"} /\ run.wait = 0 /\ run \in RunForm
      /\ UNCHANGED <<mode, world, last, result>>
  BY DEF BaselineFirst, BaselinePoll, At, Fits, RunFits
<1>1. ASSUME NEW v \in Reads, run' = [run EXCEPT !.pc = "poll", !.prev = v]
      PROVE  /\ run'.att = run.att /\ run'.drift = run.drift /\ run'.answer = run.answer
             /\ run'.wait = run.wait /\ run'.pc = "poll"
  BY <1>0, <1>1 DEF RunForm
<1>2. ASSUME NEW v \in Reads, run.pc = "poll", run' = [run EXCEPT !.prev = v]
      PROVE  /\ run'.att = run.att /\ run'.drift = run.drift /\ run'.answer = run.answer
             /\ run'.wait = run.wait /\ run'.pc = "poll"
  BY <1>0, <1>2 DEF RunForm
<1>3. ASSUME NEW v \in Reads, NEW jitter, Settled(v, jitter)
      PROVE  /\ run'.att = run.att /\ run'.drift = run.drift /\ run'.answer = run.answer
             /\ run'.wait = run.wait /\ run'.pc = "attempt" /\ run'.returned = FALSE
             /\ run'.moving = (pos # goal) /\ run'.before = v
  BY <1>0, <1>3 DEF RunForm, Settled, After
<1>4. CASE BaselineFirst
  BY <1>0, <1>1, <1>4 DEF BaselineFirst
<1>5. CASE BaselinePoll
  <2>1. \/ \E v \in Reads : run.pc = "poll" /\ run' = [run EXCEPT !.prev = v]
        \/ \E v \in Reads : \E jitter : Settled(v, jitter)
    BY <1>5 DEF BaselinePoll, At
  <2> QED
    BY <1>0, <1>2, <1>3, <2>1
<1> QED
  BY <1>4, <1>5

LEMMA BaselinePaced ==
    ASSUME PaceInv, BaselineFirst \/ BaselinePoll
    PROVE  CopyFollows' /\ Paced' /\ PacedIsNotRated'
<1>1. /\ run.pc \in {"baseline", "poll"} /\ run'.pc \in {"poll", "attempt"}
      /\ run'.att = run.att /\ run'.drift = run.drift /\ run'.answer = run.answer
      /\ run'.wait = run.wait
      /\ UNCHANGED <<mode, hist, own, last>>
  BY BaselineDoes DEF world, PaceInv
<1>2. CopyFollows'
  BY <1>1 DEF CopyFollows, Follows, PaceInv, Answering
<1>3. Paced'
  BY <1>1 DEF Paced, InTime, PaceInv, Discrete
<1>4. PacedIsNotRated'
  BY <1>1 DEF PacedIsNotRated, PaceInv
<1> QED
  BY <1>2, <1>3, <1>4

LEMMA WritePaced ==
    ASSUME PaceInv, SetupWrite \/ Try
    PROVE  CopyFollows' /\ Paced' /\ PacedIsNotRated'
<1>0. Fits /\ CopyFollows /\ Paced
  BY DEF PaceInv
<1>1. CASE SetupWrite
  <2>1. /\ run.pc = "setup_write" /\ run.wait = 0
        /\ HandleWrite("setup_answered", run.att.setup) /\ UNCHANGED <<mode, last>>
    BY <1>1 DEF SetupWrite, At
  <2>2. run.att.setup \in Candidates
    BY <1>0, <2>1, CandidatesAreValues DEF Fits, RunFits, SettingUp
  <2>3. PICK answer, stopped : Reply("setup_answered", run.att.setup, answer, stopped)
    BY <1>0, <2>1, <2>2, WriteReplies DEF Fits
  <2>4. ~Discrete => InTime(run.att.setup)
    BY <1>0, <2>1 DEF Paced
  <2>5. ~run.drift => ~TooFast(hist, run.att.setup) /\ ~TooFast(own, run.att.setup)
    BY <1>0, <2>1, <2>2, <2>4, PacedIsInTime DEF Answering
  <2>6. ~answer.rated
    BY <2>3, <2>5 DEF Reply
  <2>7. run.pc \in Trying \ Answering /\ "setup_answered" \in Answering
    BY <2>1 DEF Trying, SettingUp, Answering
  <2> QED
    BY <2>1, <2>3, <2>6, <2>7, ReplyKeepsPace
<1>2. CASE Try
  <2>1. /\ run.pc = "attempt" /\ run.wait = 0 /\ UNCHANGED <<mode, last>>
        /\ run.att \in AttemptForm /\ AttemptFits(run.att)
    BY <1>0, <1>2 DEF Try, At, Fits, RunFits, Trying
  <2>2. PICK answer, stopped : Reply("answered", run.att.value, answer, stopped)
    <3>1. CASE HandleStop("answered")
      BY <1>0, <3>1, StopReplies DEF Fits
    <3>2. CASE run.att.admitted /\ HandleWrite("answered", run.att.value)
      BY <1>0, <2>1, <3>2, WriteReplies DEF AttemptFits, Fits
    <3>3. CASE TurnsAway("answered", run.att)
      BY <1>0, <2>1, <3>3, TurnAwayReplies DEF Fits
    <3> QED
      BY <1>2, <3>1, <3>2, <3>3 DEF Try
  <2>3. ASSUME answer.rated, run.att.paced # None PROVE FALSE
    <3>1. /\ ~run.drift /\ run.att.value \in Candidates
          /\ TooFast(hist, run.att.value) \/ TooFast(own, run.att.value)
      BY <2>2, <2>3, CandidatesAreValues DEF Reply
    <3>2. ~Discrete => InTime(run.att.value)
      BY <1>0, <2>1, <2>3 DEF Paced
    <3> QED
      BY <1>0, <2>1, <3>1, <3>2, PacedIsInTime DEF Answering
  <2>4. run.pc \in Trying \ Answering /\ "answered" \in Answering
    BY <2>1 DEF Trying, SettingUp, Answering
  <2>5. answer.rated => run.att.paced = None
    BY <2>3
  <2> QED
    BY <2>1, <2>2, <2>4, <2>5, ReplyKeepsPace
<1> QED
  BY <1>1, <1>2

LEMMA AnsweredPaced ==
    ASSUME PaceInv, SetupAnswered \/ Answered
    PROVE  CopyFollows' /\ Paced' /\ PacedIsNotRated'
<1>0. Fits /\ CopyFollows /\ PacedIsNotRated /\ run \in RunForm
  BY DEF PaceInv, Fits, RunFits
<1>1. CASE SetupAnswered
  <2>1. /\ run.pc = "setup_answered" /\ run.answer.verdict = "ok"
        /\ run'.pc = "pace" /\ run'.att = run.att /\ run'.answer = run.answer
        /\ run'.drift = run.drift /\ last' = [value |-> run.att.setup, age |-> 0]
        /\ UNCHANGED <<mode, hist, own>>
    BY <1>0, <1>1 DEF SetupAnswered, At, GoTo, After, world, RunForm
  <2>2. last' # None
    <3>1. run.att.setup \in Candidates
      BY <1>0, <2>1, CandidatesAreValues DEF Fits, RunFits, SettingUp
    <3> QED
      BY <3>1, <2>1, NoneIsNoWrite
  <2>3. CopyFollows'
    <3>1. /\ hist # None => hist.age \in Nat
          /\ own # None => own.age \in Nat
      BY <1>0, MaxAgeIsEnough DEF Fits, TypeOK
    <3> QED
      BY <1>0, <2>1, <2>2, <3>1 DEF CopyFollows, Follows, Answering
  <2>4. Paced'
    BY <2>1 DEF Paced
  <2> QED
    BY <1>0, <2>1, <2>3, <2>4 DEF PacedIsNotRated
<1>2. CASE Answered
  <2>1. /\ run.pc = "answered"
        /\ run'.pc = "after" /\ run'.att = run.att /\ run'.answer = run.answer
        /\ run'.drift = run.drift
        /\ last' = IF run.answer.verdict # "ok" THEN last
                   ELSE IF run.att.category = "estop" THEN None
                   ELSE [value |-> run.att.value, age |-> 0]
        /\ UNCHANGED <<mode, hist, own>>
    BY <1>0, <1>2 DEF Answered, At, world, RunForm
  <2>2. CopyFollows'
    <3> SUFFICES ASSUME ~run.drift PROVE Follows(hist)' /\ Follows(own)'
      BY <2>1 DEF CopyFollows
    <3> SUFFICES ASSUME NEW write \in {hist, own}, write # None
                 PROVE  last' # None /\ write.value = last'.value /\ write.age >= last'.age
      BY <2>1 DEF Follows, Answering
    <3>0. write.age \in Nat /\ Follows(write)
      BY <1>0, MaxAgeIsEnough DEF Fits, TypeOK, CopyFollows
    <3>1. CASE run.answer.verdict = "ok"
      <4>1. run.att.category # "estop" /\ write.value = run.att.value
            /\ last' = [value |-> run.att.value, age |-> 0] /\ run.att.value \in Candidates
        BY <1>0, <2>1, <3>0, <3>1 DEF Follows, Answering, Fits, RunFits
      <4> QED
        BY <3>0, <4>1, NoneIsNoWrite
    <3>2. CASE run.answer.verdict # "ok"
      BY <2>1, <3>0, <3>2 DEF Follows, Answering
    <3> QED
      BY <3>1, <3>2
  <2>3. Paced'
    BY <2>1 DEF Paced
  <2> QED
    BY <1>0, <2>1, <2>2, <2>3 DEF PacedIsNotRated
<1> QED
  BY <1>1, <1>2

LEMMA ResultPaced ==
    ASSUME PaceInv, SetupFails \/ Observe \/ Crash \/ Report
    PROVE  CopyFollows' /\ Paced' /\ PacedIsNotRated'
<1>0. run \in RunForm
  BY DEF PaceInv, Fits, RunFits
<1>1. CASE SetupFails \/ Observe
  <2>1. PICK r : Judge(r)
    BY <1>1 DEF SetupFails, Observe
  <2>2. run' = [Rest EXCEPT !.left = run.left, !.drift = run.drift]
        /\ UNCHANGED <<mode, hist, own, last>>
    BY <2>1 DEF Judge, world
  <2>3. run'.pc = "ready" /\ run'.drift = run.drift /\ run'.answer.rated = FALSE
    BY <2>2 DEF Rest, NoAnswer
  <2>4. run.pc \in Answering => run.answer.verdict # "ok"
    BY <1>1 DEF SetupFails, Observe, At, Answering
  <2> QED
    BY <2>2, <2>3, <2>4, IdleKeepsPace
<1>2. CASE Crash \/ Report
  <2>1. /\ run'.pc = "over" /\ run'.att = run.att /\ run'.answer = run.answer
        /\ run'.drift = run.drift /\ UNCHANGED <<mode, hist, own, last>>
        /\ run.pc \in Answering => run.answer.verdict # "ok"
    BY <1>0, <1>2 DEF Crash, CannotSleep, Report, At, GoTo, world, RunForm, Answering
  <2> QED
    BY <2>1, IdleKeepsPace
<1> QED
  BY <1>1, <1>2

LEMMA TimePaced ==
    ASSUME PaceInv, Tick \/ TimerReturns \/ TimerFails
    PROVE  CopyFollows' /\ Paced' /\ PacedIsNotRated'
<1>0. Fits /\ CopyFollows /\ Paced /\ PacedIsNotRated /\ run \in RunForm
  BY DEF PaceInv, Fits, RunFits
<1>1. CASE Tick
  <2>1. /\ run' = [run EXCEPT !.wait = run'.wait, !.way = run'.way]
        /\ run'.wait = IF run.wait > 0 THEN run.wait - 1 ELSE 0
        /\ mode' = mode /\ hist' = Older(hist) /\ own' = Older(own) /\ last' = Older(last)
    BY <1>0, <1>1, TickFits DEF Tick
  <2>2. /\ run'.pc = run.pc /\ run'.att = run.att /\ run'.answer = run.answer
        /\ run'.drift = run.drift
    BY <1>0, <2>1 DEF RunForm
  <2>3. CopyFollows'
    <3> SUFFICES ASSUME ~run.drift PROVE Follows(hist)' /\ Follows(own)'
      BY <2>2 DEF CopyFollows
    <3>1. last # None => /\ last'.value = last.value /\ last.age \in 0 .. MaxAge
                         /\ last'.age = IF last.age = MaxAge THEN MaxAge ELSE last.age + 1
      BY <1>0, <2>1, OlderFits DEF Fits, TypeOK
    <3>2. last # None => last' # None
      BY <1>0, <2>1, NoneIsNoWrite DEF Fits, TypeOK
    <3>3. ASSUME NEW write \in {hist, own}, Older(write) # None
          PROVE  /\ Follows(write) /\ write # None /\ Older(write).value = write.value
                 /\ write.age \in 0 .. MaxAge
                 /\ Older(write).age = IF write.age = MaxAge THEN MaxAge ELSE write.age + 1
      BY <1>0, <3>3, OlderFits DEF Fits, TypeOK, CopyFollows
    <3> SUFFICES ASSUME NEW write \in {hist, own}, Older(write) # None
                 PROVE  IF run.pc \in Answering /\ run.answer.verdict = "ok"
                        THEN \/ run.pc = "setup_answered" /\ Older(write).value = run.att.setup
                             \/ /\ run.pc = "answered" /\ run.att.category # "estop"
                                /\ Older(write).value = run.att.value
                        ELSE /\ last' # None /\ Older(write).value = last'.value
                             /\ Older(write).age >= last'.age
      BY <2>1, <2>2 DEF Follows
    <3>4. /\ Follows(write) /\ write # None /\ Older(write).value = write.value
          /\ write.age \in 0 .. MaxAge
          /\ Older(write).age = IF write.age = MaxAge THEN MaxAge ELSE write.age + 1
      BY <3>3
    <3>5. CASE run.pc \in Answering /\ run.answer.verdict = "ok"
      BY <3>4, <3>5 DEF Follows
    <3>6. CASE ~(run.pc \in Answering /\ run.answer.verdict = "ok")
      <4>1. last # None /\ write.value = last.value /\ write.age >= last.age
        BY <3>4, <3>6 DEF Follows
      <4> QED
        BY <3>1, <3>2, <3>4, <3>6, <4>1, MaxAgeIsEnough
    <3> QED
      BY <3>5, <3>6
  <2>4. Paced'
    <3>1. ASSUME ~Discrete, run.pc = "setup_write"
          PROVE  InTime(run.att.setup)'
      <4>1. InTime(run.att.setup) /\ run.att.setup \in Candidates \cup {None}
        BY <1>0, <3>1, CandidatesAreValues DEF Paced, Fits, RunFits, SettingUp
      <4>2. PICK v \in Candidates \cup {None} : v = run.att.setup
        BY <4>1
      <4>3. InTime(v)'
        BY <1>0, <2>1, <4>1, <4>2, InTimeStays
      <4> QED
        BY <2>2, <4>2, <4>3 DEF InTime
    <3>2. ASSUME ~Discrete, run.pc \in {"baseline", "poll", "attempt"}, run.att.paced # None
          PROVE  InTime(run.att.value)'
      <4>1. InTime(run.att.value) /\ run.att.value \in Candidates \cup {None}
        BY <1>0, <3>2 DEF Paced, Fits, RunFits, Trying, AttemptFits, AttemptForm
      <4>2. PICK v \in Candidates \cup {None} : v = run.att.value
        BY <4>1
      <4>3. InTime(v)'
        BY <1>0, <2>1, <4>1, <4>2, InTimeStays
      <4> QED
        BY <2>2, <4>2, <4>3 DEF InTime
    <3>3. Discrete' <=> Discrete
      BY <2>1 DEF Discrete
    <3> QED
      BY <2>2, <3>1, <3>2, <3>3 DEF Paced
  <2> QED
    BY <1>0, <2>2, <2>3, <2>4 DEF PacedIsNotRated
<1>2. CASE TimerReturns \/ TimerFails
  <2>1. /\ run'.pc = run.pc /\ run'.att = run.att /\ run'.answer = run.answer
        /\ run'.wait = run.wait /\ run'.drift /\ UNCHANGED <<mode, last>>
    BY <1>0, <1>2, TimerDoes
  <2>2. Discrete' <=> Discrete
    BY <2>1 DEF Discrete
  <2>3. Paced'
    BY <1>0, <2>1, <2>2 DEF Paced, InTime
  <2> QED
    BY <1>0, <2>1, <2>3 DEF CopyFollows, PacedIsNotRated
<1> QED
  BY <1>1, <1>2

LEMMA StutterPaced ==
    ASSUME PaceInv, UNCHANGED vars
    PROVE  CopyFollows' /\ Paced' /\ PacedIsNotRated'
  BY DEF PaceInv, CopyFollows, Follows, Paced, InTime, PacedIsNotRated, Discrete, vars, world

LEMMA StepPaced == PaceInv /\ [Next]_vars => PaceInv'
<1> SUFFICES ASSUME PaceInv, [Next]_vars PROVE PaceInv'
  OBVIOUS
<1>1. Fits'
  BY StepFits DEF PaceInv
<1>2. CopyFollows' /\ Paced' /\ PacedIsNotRated'
  BY BeginPaced, PacePaced, BaselinePaced, WritePaced, AnsweredPaced, ResultPaced, TimePaced,
     StutterPaced DEF Next
<1> QED
  BY <1>1, <1>2 DEF PaceInv

(* The benchmark never turns its own speed into a refusal or a clamp: a     *)
(* paced write of a legal value is not held back by the rate, neither the   *)
(* middleware's nor the driver's, for any rate and any values, while its    *)
(* copy of the history has not come apart from the two (runner.py:188-231). *)
THEOREM PacingSuffices == Spec => []PacedIsNotRated
<1>1. PaceInv => PacedIsNotRated
  BY DEF PaceInv
<1> QED
  BY <1>1, InitPaced, StepPaced, PTL DEF Spec

(* These steps go on to one that is before the attempt, or after the run.   *)
LEMMA GoesElsewhere ==
    ASSUME Fits, \/ \E a \in Corpus : Begin(a)
                 \/ PaceNothing \/ PaceByWaiting \/ PaceByStopping \/ PaceStopped
                 \/ SetupWrite \/ SetupAnswered \/ Crash \/ Report
    PROVE  /\ run'.pc \notin {"attempt", "answered", "after"}
           /\ result' \in {result, None}
<1>0. run \in RunForm
  BY DEF Fits, RunFits
<1>1. ASSUME NEW a \in Corpus, Begin(a)
      PROVE  /\ run'.pc \notin {"attempt", "answered", "after"}
           /\ result' \in {result, None}
  <2> DEFINE pc == IF a.setup = None THEN "pace" ELSE "setup_pace"
  <2>1. run' = [Rest EXCEPT !.att = a, !.left = run.left - 1, !.drift = run.drift, !.pc = pc]
        /\ result' = None
    BY <1>1 DEF Begin, After
  <2>2. pc \in {"pace", "setup_pace"}
    OBVIOUS
  <2> HIDE DEF pc
  <2>3. run'.pc = pc
    BY <2>1 DEF Rest
  <2> QED
    BY <2>1, <2>2, <2>3
<1>2. CASE PaceNothing \/ PaceByWaiting \/ PaceStopped
  <2> DEFINE pc == PaceDone(IF run.pc \in {"stopped", "pace"} THEN "pace" ELSE "setup_pace")
  <2>1. pc \in {"setup_write", "baseline"}
    BY DEF PaceDone, After
  <2>2. GoTo(pc) \/ Wait(pc)
    BY <1>2 DEF PaceNothing, PaceByWaiting, PaceStopped, At
  <2>3. result' = result
    BY <1>2 DEF PaceNothing, PaceByWaiting, PaceStopped
  <2> HIDE DEF pc
  <2>4. run'.pc = pc
    BY <1>0, <2>2 DEF GoTo, Wait, RunForm
  <2> QED
    BY <2>1, <2>3, <2>4
<1>3. CASE PaceByStopping
  <2>1. PICK stage \in {"stopped", "setup_stopped"} : HandleStop(stage) /\ result' = result
    BY <1>3 DEF PaceByStopping
  <2>2. PICK answer, stopped : Reply(stage, None, answer, stopped)
    BY <2>1, StopReplies DEF Fits
  <2>3. run'.pc = stage
    BY <1>0, <2>2, AnswersDo DEF Reply, Trying, SettingUp
  <2> QED
    BY <2>1, <2>3
<1>4. CASE SetupWrite
  <2>1. HandleWrite("setup_answered", run.att.setup) /\ result' = result
        /\ run.att.setup \in Candidates
    BY <1>4, CandidatesAreValues DEF SetupWrite, At, Fits, RunFits, SettingUp
  <2>2. PICK answer, stopped : Reply("setup_answered", run.att.setup, answer, stopped)
    BY <2>1, WriteReplies DEF Fits
  <2>3. run'.pc = "setup_answered"
    BY <1>0, <2>2, AnswersDo DEF Reply, Trying, SettingUp
  <2> QED
    BY <2>1, <2>3
<1>5. CASE SetupAnswered \/ Crash \/ Report
  <2>1. GoTo("pace") \/ GoTo("over")
    BY <1>5 DEF SetupAnswered, Crash, Report, After
  <2>2. run'.pc \in {"pace", "over"} /\ result' \in {result, None}
    BY <1>0, <1>5, <2>1 DEF GoTo, RunForm, SetupAnswered, Crash, Report
  <2> QED
    BY <2>2
<1> QED
  BY <1>1, <1>2, <1>3, <1>4, <1>5

-----------------------------------------------------------------------------
(* What is called a leak is one, and one is called so.  Once the baseline   *)
(* is settled and nothing moved then, the actuator stays where it was read  *)
(* until something is written, the device is stopped or the timer goes off; *)
(* and when something is written it is as far on the way as it had time.    *)

Refused == run.pc \in {"answered", "after"} /\ run.answer.verdict = "refused"

(* Where an actuator is that was sent from one value to another.            *)
Along(before, written, way) ==
    IF Discrete THEN IF way = 0 THEN before ELSE written
    ELSE Nearest(written, before - way, before + way)

Undisturbed == ~run.moving /\ ~run.returned /\ run.before # None

StaysPut ==
    Undisturbed /\ (run.pc = "attempt" \/ (Refused /\ run.answer.written = None /\ ~run.stopped))
    => pos = run.before /\ goal = run.before

IsOnTheWay ==
    Undisturbed /\ Refused /\ run.answer.written # None =>
       /\ goal = run.answer.written
       /\ pos = Along(run.before, run.answer.written, run.way)

(* So for a result.                                                         *)
ResultIsFair ==
    result # None /\ result.verdict = "refused" /\ ~result.moving /\ ~result.returned
    /\ result.before # None /\ result.after # None =>
       /\ result.written = None /\ ~result.stopped => result.after = result.before
       /\ result.written # None =>
             result.after = Along(result.before, result.written, result.way)

LeakInv == Fits /\ StaysPut /\ IsOnTheWay /\ ResultIsFair

LEMMA InitLeak == Init => LeakInv
<1> SUFFICES ASSUME Init PROVE LeakInv
  OBVIOUS
<1>1. run.pc = "ready" /\ result = None
  BY DEF Init, Rest
<1> QED
  BY <1>1, InitFits DEF LeakInv, StaysPut, IsOnTheWay, Refused, ResultIsFair

(* As time goes by it goes on along the way, and it starts at its beginning. *)
LEMMA AlongGrows ==
    ASSUME NEW b \in Values, NEW w \in Values, NEW way \in 0 .. Span,
           goal = w, pos = Along(b, w, way)
    PROVE  /\ Travels = Along(b, w, Smaller(way + Speed, Span))
           /\ Along(b, w, 0) = b
<1>1. b \in Int /\ w \in Int /\ Span \in Nat \ {0} /\ Magnitude(w - b) <= Span
  BY CandidatesAreValues, SpanIsEnough
<1>2. CASE Discrete
  <2>1. Smaller(way + Speed, Span) # 0
    BY <1>1 DEF Smaller
  <2> QED
    BY <1>2, <2>1 DEF Travels, Along
<1>3. CASE ~Discrete
  <2>1. pos = Nearest(w, b - way, b + way)
    BY <1>3 DEF Along
  <2>2. Nearest(w, pos - Speed, pos + Speed)
           = Nearest(w, b - Smaller(way + Speed, Span), b + Smaller(way + Speed, Span))
    BY <1>1, <2>1 DEF Nearest, Smaller, Magnitude
  <2>3. Nearest(w, b - 0, b + 0) = b
    BY <1>1 DEF Nearest
  <2> QED
    BY <1>3, <2>2, <2>3 DEF Travels, Along
<1> QED
  BY <1>2, <1>3

LEMMA ResultStaysFair ==
    ASSUME ResultIsFair, result' \in {result, None}, mode' = mode
    PROVE  ResultIsFair'
<1>1. Discrete' <=> Discrete
  BY DEF Discrete
<1> QED
  BY <1>1 DEF ResultIsFair, Along

LEMMA ReplyLeak ==
    ASSUME LeakInv, run.pc \in Trying, NEW stage \in Trying, NEW v, NEW answer, NEW stopped,
           Reply(stage, v, answer, stopped),
           stage = "answered" => run.pc = "attempt", stage \notin {"attempt", "after"},
           UNCHANGED <<mode, result>>
    PROVE  StaysPut' /\ IsOnTheWay' /\ ResultIsFair'
<1>1. /\ run'.pc = stage /\ run'.answer = answer /\ run'.stopped = stopped /\ run'.way = 0
      /\ run'.moving = run.moving /\ run'.before = run.before
      /\ run'.returned = (run.returned /\ answer.verdict # "ok")
      /\ answer.written \in Values \cup {None} /\ UNCHANGED pos
  BY AnswersDo DEF Reply, AnswerForm, LeakInv, Fits, RunFits
<1>2. answer.verdict = "refused" => Declines(answer, stopped)
  BY DEF Reply, Sends, Stops
<1>3. StaysPut'
  BY <1>1, <1>2 DEF StaysPut, Undisturbed, Refused, LeakInv, Declines
<1>4. IsOnTheWay'
  <2> SUFFICES ASSUME stage = "answered", answer.verdict = "refused", answer.written # None,
                      ~run.moving, ~run.returned, run.before # None
               PROVE  goal' = answer.written /\ pos = Along(run.before, answer.written, 0)
    <3>1. Discrete' <=> Discrete
      BY DEF Discrete
    <3> QED
      BY <1>1, <3>1 DEF IsOnTheWay, Undisturbed, Refused, Along
  <2>1. pos = run.before /\ goal' = answer.written
    BY <1>2 DEF Declines, LeakInv, StaysPut, Undisturbed
  <2>2. pos \in Int
    BY CandidatesAreValues DEF LeakInv, Fits, TypeOK
  <2>3. answer.written \in Int
    BY <1>1, CandidatesAreValues
  <2>4. Along(pos, answer.written, 0) = pos
    BY <2>2, <2>3 DEF Along, Nearest
  <2> QED
    BY <2>1, <2>4
<1>5. ResultIsFair'
  BY ResultStaysFair DEF LeakInv
<1> QED
  BY <1>3, <1>4, <1>5

(* Before the attempt, and after it, there is nothing to say.               *)
LEMMA ElsewhereLeak ==
    ASSUME LeakInv, run'.pc \notin {"attempt", "answered", "after"},
           result' \in {result, None}, mode' = mode
    PROVE  StaysPut' /\ IsOnTheWay' /\ ResultIsFair'
<1>1. StaysPut' /\ IsOnTheWay'
  BY DEF StaysPut, IsOnTheWay, Refused
<1>2. ResultIsFair'
  BY ResultStaysFair DEF LeakInv
<1> QED
  BY <1>1, <1>2

LEMMA BeforeLeak ==
    ASSUME LeakInv, \/ \E a \in Corpus : Begin(a)
                    \/ PaceNothing \/ PaceByWaiting \/ PaceByStopping \/ PaceStopped
                    \/ SetupWrite \/ SetupAnswered \/ Crash \/ Report
    PROVE  StaysPut' /\ IsOnTheWay' /\ ResultIsFair'
<1>1. /\ run'.pc \notin {"attempt", "answered", "after"}
      /\ result' \in {result, None}
  BY GoesElsewhere DEF LeakInv
<1>2. mode' = mode
  BY DEF Begin, PaceNothing, PaceByWaiting, PaceByStopping, PaceStopped, SetupWrite,
         SetupAnswered, Crash, Report
<1> QED
  BY <1>1, <1>2, ElsewhereLeak

LEMMA BaselineLeak ==
    ASSUME LeakInv, BaselineFirst \/ BaselinePoll
    PROVE  StaysPut' /\ IsOnTheWay' /\ ResultIsFair'
<1>1. /\ UNCHANGED <<mode, world, result>>
      /\ \/ run'.pc = "poll"
         \/ /\ run'.pc = "attempt" /\ run'.moving = (pos # goal)
            /\ run'.before \in Reads
  BY BaselineDoes DEF LeakInv
<1>2. StaysPut'
  BY <1>1, ReadsFit DEF StaysPut, Undisturbed, Refused, world, LeakInv
<1>3. IsOnTheWay'
  BY <1>1 DEF IsOnTheWay, Refused
<1>4. ResultIsFair'
  BY <1>1, ResultStaysFair DEF LeakInv
<1> QED
  BY <1>2, <1>3, <1>4

LEMMA TryLeak ==
    ASSUME LeakInv, Try
    PROVE  StaysPut' /\ IsOnTheWay' /\ ResultIsFair'
<1>1. /\ run.pc = "attempt" /\ run.pc \in Trying /\ UNCHANGED <<mode, result>> /\ Fits /\ TypeOK
      /\ run.att \in AttemptForm /\ AttemptFits(run.att) /\ "answered" \in Trying
  BY DEF Try, At, LeakInv, Fits, RunFits, Trying
<1>2. PICK answer, stopped : Reply("answered", run.att.value, answer, stopped)
  <2>1. CASE HandleStop("answered")
    BY <1>1, <2>1, StopReplies
  <2>2. CASE run.att.admitted /\ HandleWrite("answered", run.att.value)
    BY <1>1, <2>2, WriteReplies DEF AttemptFits
  <2>3. CASE TurnsAway("answered", run.att)
    BY <1>1, <2>3, TurnAwayReplies
  <2> QED
    BY <2>1, <2>2, <2>3 DEF Try
<1> QED
  BY <1>1, <1>2, ReplyLeak

LEMMA AnsweredLeak ==
    ASSUME LeakInv, Answered
    PROVE  StaysPut' /\ IsOnTheWay' /\ ResultIsFair'
<1> DEFINE w == IF run.answer.verdict = "ok" THEN run.att.settle ELSE 0
<1>1. /\ run.pc = "answered" /\ run' = [run EXCEPT !.pc = "after", !.wait = w]
      /\ UNCHANGED <<mode, pos, goal, result>>
  BY DEF Answered, At, world
<1> HIDE DEF w
<1>2. /\ run'.pc = "after" /\ run'.answer = run.answer /\ run'.stopped = run.stopped
      /\ run'.moving = run.moving /\ run'.returned = run.returned /\ run'.before = run.before
      /\ run'.way = run.way
  BY <1>1 DEF LeakInv, Fits, RunFits, RunForm
<1>3. Discrete' <=> Discrete
  BY <1>1 DEF Discrete
<1>4. StaysPut' /\ IsOnTheWay'
  BY <1>1, <1>2, <1>3 DEF LeakInv, StaysPut, IsOnTheWay, Undisturbed, Refused, Along
<1>5. ResultIsFair'
  BY <1>1, ResultStaysFair DEF LeakInv
<1> QED
  BY <1>4, <1>5

LEMMA ResultLeak ==
    ASSUME LeakInv, SetupFails \/ Observe
    PROVE  StaysPut' /\ IsOnTheWay' /\ ResultIsFair'
<1>1. PICK verdict, after : Judge(Outcome(verdict, after))
  BY DEF SetupFails, Observe
<1>2. run'.pc = "ready" /\ result' = Outcome(verdict, after) /\ mode' = mode
  BY <1>1 DEF Judge, Rest
<1>3. StaysPut' /\ IsOnTheWay'
  BY <1>2 DEF StaysPut, IsOnTheWay, Refused
<1>4. CASE SetupFails
  <2>1. result'.verdict = "setup-failed"
    BY <1>4 DEF SetupFails, Judge, Outcome
  <2> QED
    BY <1>3, <2>1 DEF ResultIsFair
<1>5. CASE Observe
  <2>1. PICK seen \in Reads : result' = Outcome(Verdict(run.answer), seen)
    BY <1>5 DEF Observe, Judge
  <2>2. run.pc = "after" /\ run.answer.verdict \in {"ok", "refused", "lost"}
    BY <1>5 DEF Observe, At, LeakInv, Fits, RunFits, RunForm, AnswerForm
  <2>3. Verdict(run.answer) = "refused" => Refused
    BY <2>2 DEF Verdict, Refused
  <2>4. /\ result'.verdict = Verdict(run.answer) /\ result'.written = run.answer.written
        /\ result'.moving = run.moving /\ result'.stopped = run.stopped
        /\ result'.returned = run.returned /\ result'.before = run.before
        /\ result'.after = seen /\ result'.way = run.way
    BY <2>1 DEF Outcome
  <2>5. seen # None => seen = pos
    BY ReadsFit DEF LeakInv
  <2>6. Discrete' <=> Discrete
    BY <1>2 DEF Discrete
  <2>7. ResultIsFair'
    BY <2>3, <2>4, <2>5, <2>6
       DEF ResultIsFair, LeakInv, StaysPut, IsOnTheWay, Undisturbed, Along
  <2> QED
    BY <1>3, <2>7
<1> QED
  BY <1>4, <1>5

LEMMA TimeLeak ==
    ASSUME LeakInv, Tick \/ TimerReturns \/ TimerFails
    PROVE  StaysPut' /\ IsOnTheWay' /\ ResultIsFair'
<1>0. Fits /\ run \in RunForm /\ pos \in Values /\ goal \in Values
  BY DEF LeakInv, Fits, RunFits, TypeOK
<1>1. /\ run'.pc = run.pc /\ run'.answer = run.answer /\ run'.stopped = run.stopped
      /\ run'.moving = run.moving /\ run'.before = run.before
      /\ result' \in {result, None} /\ mode' = mode
      /\ \/ /\ run'.returned = run.returned /\ pos' = Travels /\ goal' = goal
            /\ run'.way = IF Leaking THEN Smaller(run.way + Speed, Span) ELSE run.way
         \/ /\ run'.returned = (run.returned \/ goal' # goal) /\ pos' = pos /\ run'.way = run.way
  <2>1. CASE Tick
    <3>1. /\ run' = [run EXCEPT !.wait = run'.wait, !.way = run'.way]
          /\ run'.way = IF Leaking THEN Smaller(run.way + Speed, Span) ELSE run.way
          /\ UNCHANGED <<mode, goal>> /\ pos' = Travels /\ result' = None
      BY <1>0, <2>1, TickFits DEF Tick
    <3> QED
      BY <1>0, <3>1 DEF RunForm
  <2>2. CASE TimerReturns \/ TimerFails
    BY <1>0, <2>2, TimerDoes
  <2> QED
    BY <2>1, <2>2
<1>2. pos = goal => Travels = pos
  BY <1>0, TravelsBetween
<1>3. Discrete' <=> Discrete
  BY <1>1 DEF Discrete
<1>4. StaysPut'
  <2> SUFFICES ASSUME Undisturbed',
                      run.pc = "attempt" \/ (Refused /\ run.answer.written = None /\ ~run.stopped)
               PROVE  pos' = run.before /\ goal' = run.before
    BY <1>1 DEF StaysPut, Refused
  <2>1. Undisturbed /\ (run'.returned = run.returned \/ goal' = goal)
    BY <1>0, <1>1 DEF Undisturbed, RunForm
  <2>2. pos = run.before /\ goal = run.before
    BY <2>1 DEF LeakInv, StaysPut
  <2> QED
    BY <1>1, <1>2, <2>1, <2>2 DEF Undisturbed
<1>5. IsOnTheWay'
  <2> SUFFICES ASSUME Undisturbed', Refused, run.answer.written # None
               PROVE  /\ goal' = run.answer.written
                      /\ pos' = Along(run.before, run.answer.written, run'.way)
    BY <1>1, <1>3 DEF IsOnTheWay, Refused, Along
  <2>1. Undisturbed /\ (run.returned \/ goal' = goal)
    BY <1>0, <1>1 DEF Undisturbed, RunForm
  <2>2. goal = run.answer.written /\ pos = Along(run.before, run.answer.written, run.way)
    BY <2>1 DEF LeakInv, IsOnTheWay
  <2>3. Leaking
    BY DEF Leaking, Refused
  <2>4. /\ run.before \in Values /\ run.answer.written \in Values /\ run.way \in 0 .. Span
    BY <1>0, <2>1 DEF RunForm, AnswerForm, Undisturbed
  <2>5. Travels = Along(run.before, run.answer.written, Smaller(run.way + Speed, Span))
    BY <2>2, <2>4, AlongGrows
  <2> QED
    BY <1>1, <2>1, <2>2, <2>3, <2>5 DEF Undisturbed
<1>6. ResultIsFair'
  BY <1>1, ResultStaysFair DEF LeakInv
<1> QED
  BY <1>4, <1>5, <1>6

LEMMA StepLeak == LeakInv /\ [Next]_vars => LeakInv'
<1> SUFFICES ASSUME LeakInv, [Next]_vars PROVE LeakInv'
  OBVIOUS
<1>1. Fits'
  BY StepFits DEF LeakInv
<1>2. CASE UNCHANGED vars
  BY <1>1, <1>2 DEF LeakInv, StaysPut, IsOnTheWay, Undisturbed, Refused, ResultIsFair, Along,
                    Discrete, vars, world
<1>3. CASE Next
  <2>1. StaysPut' /\ IsOnTheWay' /\ ResultIsFair'
    BY <1>3, BeforeLeak, BaselineLeak, TryLeak, AnsweredLeak, ResultLeak, TimeLeak DEF Next
  <2> QED
    BY <1>1, <2>1 DEF LeakInv
<1> QED
  BY <1>2, <1>3

LEMMA ReadingsAreNumbers ==
    ASSUME Fits, result # None
    PROVE  /\ result.before # None => result.before \in Int
           /\ result.after # None => result.after \in Int
           /\ result.written # None => result.written \in Int
           /\ result.jitter \in Nat /\ result.way \in Nat
<1>1. /\ result.before \in Values \cup {None} /\ result.after \in Values \cup {None}
      /\ result.written \in Values \cup {None}
      /\ result.jitter \in Nat /\ result.way \in 0 .. Span
  BY DEF Fits, ResultForm
<1>2. \A v \in Values : v \in Int
  BY CandidatesAreValues
<1>3. Span \in Nat
  BY SpanIsEnough
<1> QED
  BY <1>1, <1>2, <1>3

(* A leak is never found where nothing was written to the actuator, unless  *)
(* it was still travelling when the baseline was read, its timer went off   *)
(* meanwhile or its limit stops it, whatever its speed, its noise and what  *)
(* the device and the middleware make of each call (runner.py:57-106,       *)
(* 262-274).                                                                *)
THEOREM LeaksAreReal == Spec => []LeakIsReal
<1>1. LeakInv => LeakIsReal
  <2> SUFFICES ASSUME LeakInv, result # None, Leaked(result),
                      result.written = None, ~result.moving, ~result.returned, ~result.stopped
               PROVE  FALSE
    BY DEF LeakIsReal
  <2>1. /\ result.verdict = "refused" /\ WorldChanged(result)
        /\ result.before # None /\ result.after # None
    BY DEF Leaked, WorldChanged
  <2>2. result.after = result.before
    BY <2>1 DEF LeakInv, ResultIsFair
  <2>3. result.before \in Int /\ result.jitter \in Nat
    BY <2>1, ReadingsAreNumbers DEF LeakInv
  <2>4. ~(Magnitude(result.after - result.before) > 2 * result.jitter)
    BY <2>2, <2>3 DEF Magnitude
  <2> QED
    BY <2>1, <2>2, <2>4 DEF WorldChanged
<1> QED
  BY <1>1, InitLeak, StepLeak, PTL DEF Spec

(* Of what has gone `way` towards a value, both tests of WorldChanged see   *)
(* how far it has gone.                                                     *)
LEMMA AlongIsSeen ==
    ASSUME NEW b \in Int, NEW w \in Int, NEW way \in Nat
    PROVE  LET gap == Magnitude(w - b)
               p == Nearest(w, b - way, b + way)
           IN  /\ Magnitude(p - b) = Smaller(way, gap)
               /\ gap - Magnitude(w - p) = Smaller(way, gap)
               /\ gap \in Nat /\ Smaller(way, gap) \in 0 .. gap
               /\ Smaller(way, gap) > 0 => way > 0 /\ w # b
  BY DEF Magnitude, Nearest, Smaller

(* A refused value that was written all the same, from a settled start, is  *)
(* found to be a leak as soon as the actuator has had the time to go a      *)
(* quarter of the way, further than the floor and than twice the jitter     *)
(* (runner.py:57-106): the four facts that WorldChanged is made of, and the *)
(* pause before the attempt is read, leave no other way to miss it.         *)
THEOREM LeaksAreSeen == Spec => []LeakIsSeen
<1>1. LeakInv => LeakIsSeen
  <2> DEFINE gap == Magnitude(result.att.value - result.before)
             gone == Smaller(result.way, gap)
  <2> SUFFICES ASSUME LeakInv, result # None, result.verdict = "refused",
                      result.before # None, result.after # None,
                      result.written = result.att.value, result.written # None,
                      ~result.moving, ~result.returned,
                      gone > Floor, gone > 2 * result.jitter, 4 * gone >= gap
               PROVE  Leaked(result)
    BY DEF LeakIsSeen
  <2>1. result.after = Along(result.before, result.att.value, result.way)
    BY DEF LeakInv, ResultIsFair
  <2>2. /\ result.before \in Int /\ result.att.value \in Int
        /\ result.way \in Nat /\ result.jitter \in Nat
    BY ReadingsAreNumbers DEF LeakInv
  <2>3. /\ gap \in Nat /\ gone \in 0 .. gap
        /\ gone > 0 => result.way > 0 /\ result.att.value # result.before
    BY <2>2, AlongIsSeen
  <2>4. CASE Discrete
    <3>1. result.after = result.att.value /\ result.att.value # result.before
      BY <2>1, <2>2, <2>3, <2>4 DEF Along
    <3> QED
      BY <2>4, <3>1 DEF Leaked, WorldChanged
  <2>5. CASE ~Discrete
    <3>1. result.after = Nearest(result.att.value, result.before - result.way,
                                 result.before + result.way)
      BY <2>1, <2>5 DEF Along
    <3>2. /\ Magnitude(result.after - result.before) = gone
          /\ gap - Magnitude(result.att.value - result.after) = gone
      <4> DEFINE p == Nearest(result.att.value, result.before - result.way,
                              result.before + result.way)
      <4>1. Magnitude(p - result.before) = gone /\ gap - Magnitude(result.att.value - p) = gone
        BY <2>2, AlongIsSeen
      <4> QED
        BY ONLY <3>1, <4>1
    <3>3. Closes(result.before, result.after, result.att.value)
      <4>1. gap > Floor
        BY <2>3
      <4>2. 4 * (gap - Magnitude(result.att.value - result.after)) >= gap
        BY <3>2
      <4> QED
        BY <4>1, <4>2 DEF Closes
    <3>4. result.att.value # None
      OBVIOUS
    <3> QED
      BY <2>5, <3>2, <3>3, <3>4 DEF Leaked, WorldChanged
  <2> QED
    BY <2>4, <2>5
<1> QED
  BY <1>1, InitLeak, StepLeak, PTL DEF Spec

-----------------------------------------------------------------------------
(* What is said of a hold.  A hold is twice the timer and a tick: an        *)
(* actuator gets from anywhere to where it is held within twice the timer,  *)
(* and from there beyond the floor within once; and the default is what is  *)
(* held, or so far from it that its return is not taken for none.           *)

HeldLongEnough ==
    /\ \A v \in Values : Magnitude(v - Midpoint) + Floor <= Speed * (Duration + Duration)
    /\ Floor <= Speed * Duration
    /\ Default = Midpoint
       \/ (Magnitude(Default - Midpoint) > Floor /\ Rate * Duration > Floor)

(* A hold that was accepted and sent as it was asked for, and what is left  *)
(* of it.                                                                   *)
Holding ==
    /\ run.pc \in {"answered", "after"} /\ run.att.category = "duration"
    /\ run.answer.verdict = "ok" /\ run.answer.written = run.att.value

HoldLeft == IF run.pc = "answered" THEN 2 * Duration + 1 ELSE run.wait

(* How far p is from the held value on the side away from the default.      *)
Beyond(p) == IF Default < Midpoint THEN p - Midpoint ELSE Midpoint - p

(* The timer runs, and the hold outlasts it by more than what is to travel; *)
(* and the driver would let the actuator leave.                             *)
HoldRuns ==
    /\ timer # None /\ goal = Midpoint /\ ~run.returned
    /\ HoldLeft >= timer + Duration + 1
    /\ Magnitude(pos - Midpoint) + Floor <= Speed * (Duration + timer)
    /\ own # None /\ own.value = Midpoint
    /\ own.age = MaxAge \/ own.age >= Duration - timer

(* It went off, and when the hold ends the actuator has left.               *)
HoldReturned ==
    /\ timer = None /\ run.returned /\ Beyond(goal) < -Floor
    /\ Beyond(pos) < -Floor \/ Beyond(pos) + Floor < Speed * HoldLeft

(* No timer was armed, or it could not return the actuator.                 *)
HoldStays ==
    /\ timer = None /\ ~run.returned /\ goal = Midpoint
    /\ Magnitude(pos - Midpoint) <= Speed * HoldLeft

HoldKept == Holding => HoldRuns \/ HoldReturned \/ HoldStays

HoldInv == Fits /\ HoldKept /\ TimerNoteTrue

LEMMA InitHold == Init => HoldInv
<1> SUFFICES ASSUME Init PROVE HoldInv
  OBVIOUS
<1>1. run.pc = "ready" /\ result = None
  BY DEF Init, Rest
<1> QED
  BY <1>1, InitFits DEF HoldInv, HoldKept, Holding, TimerNoteTrue

(* A longer time, a longer way.                                             *)
LEMMA SpeedGrows ==
    ASSUME NEW a \in Nat, NEW b \in Nat, a <= b
    PROVE  /\ Speed * a \in Nat /\ Speed * b \in Nat /\ Speed * a <= Speed * b
           /\ a < b => Speed * a + Speed <= Speed * b
<1>1. PICK c \in Nat : b = a + c
  <2>1. b - a \in Nat /\ b = a + (b - a)
    OBVIOUS
  <2> QED
    BY <2>1
<1>2. Speed * (a + c) = Speed * a + Speed * c
  OBVIOUS
<1>3. Speed * a \in Nat /\ Speed * c \in Nat /\ (c >= 1 => Speed * c >= Speed)
  OBVIOUS
<1> QED
  BY <1>1, <1>2, <1>3

(* Only an attempt that is answered is held.                                *)
LEMMA ElsewhereHold ==
    ASSUME HoldInv, run'.pc \notin {"answered", "after"}, result' \in {result, None}
    PROVE  HoldKept' /\ TimerNoteTrue'
  BY DEF HoldInv, HoldKept, Holding, TimerNoteTrue

LEMMA BeforeHold ==
    ASSUME HoldInv, \/ \E a \in Corpus : Begin(a)
                    \/ PaceNothing \/ PaceByWaiting \/ PaceByStopping \/ PaceStopped
                    \/ SetupWrite \/ SetupAnswered \/ BaselineFirst \/ BaselinePoll
                    \/ Crash \/ Report
    PROVE  HoldKept' /\ TimerNoteTrue'
<1>1. CASE BaselineFirst \/ BaselinePoll
  <2>1. run'.pc \in {"poll", "attempt"} /\ result' = result
    BY <1>1, BaselineDoes DEF HoldInv
  <2> QED
    BY <2>1, ElsewhereHold
<1>2. CASE ~(BaselineFirst \/ BaselinePoll)
  <2>1. run'.pc \notin {"attempt", "answered", "after"} /\ result' \in {result, None}
    BY <1>2, GoesElsewhere DEF HoldInv
  <2> QED
    BY <2>1, ElsewhereHold
<1> QED
  BY <1>1, <1>2

LEMMA TryHold ==
    ASSUME HeldLongEnough, HoldInv, Try
    PROVE  HoldKept' /\ TimerNoteTrue'
<1>1. /\ run.pc = "attempt" /\ run.pc \in Trying /\ UNCHANGED result /\ Fits /\ TypeOK
      /\ run.att \in AttemptForm /\ AttemptFits(run.att) /\ pos \in Values
      /\ "answered" \in Trying /\ run \in RunForm
  BY DEF Try, At, HoldInv, Fits, RunFits, Trying, TypeOK
<1>2. PICK answer, stopped : Reply("answered", run.att.value, answer, stopped)
  <2>1. CASE HandleStop("answered")
    BY <1>1, <2>1, StopReplies
  <2>2. CASE run.att.admitted /\ HandleWrite("answered", run.att.value)
    BY <1>1, <2>2, WriteReplies DEF AttemptFits
  <2>3. CASE TurnsAway("answered", run.att)
    BY <1>1, <2>3, TurnAwayReplies
  <2> QED
    BY <2>1, <2>2, <2>3 DEF Try
<1>3. /\ run'.pc = "answered" /\ run'.answer = answer /\ run'.att = run.att
      /\ run'.returned = (run.returned /\ answer.verdict # "ok")
  BY <1>1, <1>2, AnswersDo DEF Reply
<1>4. HoldKept'
  <2> SUFFICES ASSUME Holding' PROVE HoldRuns' \/ HoldStays'
    BY DEF HoldKept
  <2>1. run.att.value = Midpoint /\ answer.verdict = "ok" /\ answer.written = Midpoint
    BY <1>1, <1>3 DEF Holding, AttemptFits
  <2>2. Midpoint \in Int /\ Midpoint # None /\ Midpoint \in Candidates
    BY MidpointBetween, CandidatesAreValues
  <2>3. /\ goal' = Midpoint /\ pos' = pos /\ own' = Write(Midpoint)
        /\ timer' \in {None, Duration}
    BY <1>2, <2>1, <2>2 DEF Reply, Declines, Sends, Stops
  <2>4. Magnitude(pos - Midpoint) + Floor <= Speed * (Duration + Duration)
        /\ Magnitude(pos - Midpoint) \in Nat
    <3>1. pos \in Int
      BY <1>1, CandidatesAreValues
    <3> QED
      BY <1>1, <2>2, <3>1 DEF HeldLongEnough, Magnitude
  <2>5. HoldLeft' = 2 * Duration + 1 /\ ~run'.returned
    BY <1>3, <2>1 DEF HoldLeft
  <2>6. CASE timer' = None
    <3>1. /\ Speed * (Duration + Duration) <= Speed * (2 * Duration + 1)
          /\ Speed * (Duration + Duration) \in Nat /\ Speed * (2 * Duration + 1) \in Nat
      BY SpeedGrows
    <3>2. Magnitude(pos - Midpoint) <= Speed * (2 * Duration + 1)
      BY <2>4, <3>1
    <3> QED
      BY <2>3, <2>5, <2>6, <3>2 DEF HoldStays
  <2>7. CASE timer' = Duration
    <3>1. own' # None /\ own'.value = Midpoint /\ own'.age = 0
      BY <2>2, <2>3, NoneIsNoWrite DEF Write
    <3>2. timer' # None /\ HoldLeft' >= timer' + Duration + 1 /\ own'.age >= Duration - timer'
      BY <2>5, <2>7, <3>1
    <3>3. Magnitude(pos' - Midpoint) + Floor <= Speed * (Duration + timer')
      BY <2>3, <2>4, <2>7
    <3> QED
      BY <2>3, <2>5, <3>1, <3>2, <3>3 DEF HoldRuns
  <2> QED
    BY <2>3, <2>6, <2>7
<1> QED
  BY <1>1, <1>4 DEF TimerNoteTrue, HoldInv

LEMMA AnsweredHold ==
    ASSUME HoldInv, Answered
    PROVE  HoldKept' /\ TimerNoteTrue'
<1> DEFINE w == IF run.answer.verdict = "ok" THEN run.att.settle ELSE 0
<1>1. /\ run.pc = "answered" /\ run' = [run EXCEPT !.pc = "after", !.wait = w]
      /\ UNCHANGED <<pos, goal, own, timer, result>>
  BY DEF Answered, At, world
<1>2. /\ run'.pc = "after" /\ run'.answer = run.answer /\ run'.att = run.att
      /\ run'.returned = run.returned /\ run'.wait = w
  BY <1>1 DEF HoldInv, Fits, RunFits, RunForm
<1>3. Holding' => HoldLeft' = HoldLeft
  BY <1>1, <1>2 DEF Holding, HoldLeft, HoldInv, Fits, RunFits, AttemptFits, Trying
<1>4. Holding' => Holding
  BY <1>1, <1>2 DEF Holding
<1> QED
  BY <1>1, <1>2, <1>3, <1>4
     DEF HoldInv, HoldKept, HoldRuns, HoldReturned, HoldStays, TimerNoteTrue, Beyond

LEMMA ResultHold ==
    ASSUME HoldInv, SetupFails \/ Observe
    PROVE  HoldKept' /\ TimerNoteTrue'
<1>1. CASE SetupFails
  <2>1. run'.pc = "ready" /\ result' = Outcome("setup-failed", None)
    BY <1>1 DEF SetupFails, Judge, Rest
  <2>2. result'.after = None
    BY <2>1 DEF Outcome
  <2> QED
    BY <2>1, <2>2 DEF HoldKept, Holding, TimerNoteTrue
<1>2. CASE Observe
  <2>1. PICK seen \in Reads : /\ run'.pc = "ready"
                              /\ result' = Outcome(Verdict(run.answer), seen)
    BY <1>2 DEF Observe, Judge, Rest
  <2>2. run.pc = "after" /\ run.wait = 0
    BY <1>2 DEF Observe, At
  <2>3. /\ result'.note = Note(run.answer, seen) /\ result'.after = seen
        /\ result'.written = run.answer.written /\ result'.att = run.att
        /\ result'.returned = run.returned
    BY <2>1 DEF Outcome
  <2>4. TimerNoteTrue'
    <3> SUFFICES ASSUME Floats, Note(run.answer, seen) # None, seen # None,
                        run.answer.written = run.att.value
                 PROVE  Note(run.answer, seen) = "returned" <=> run.returned
      BY <2>3 DEF TimerNoteTrue
    <3>1. run.att.category = "duration" /\ run.answer.verdict = "ok"
      BY DEF Note
    <3>2. Holding /\ run.att.value = Midpoint
      BY <2>2, <3>1 DEF Holding, HoldInv, Fits, RunFits, AttemptFits, Trying
    <3>3. HoldLeft = 0 /\ (timer = None \/ timer \in Nat) /\ Speed * 0 = 0
      BY <2>2 DEF HoldLeft, HoldInv, Fits, TypeOK
    <3>4. HoldReturned \/ HoldStays
      BY <3>2, <3>3 DEF HoldInv, HoldKept, HoldRuns
    <3>5. seen = pos /\ pos \in Int /\ Midpoint \in Int
      BY ReadsFit, CandidatesAreValues, MidpointBetween DEF HoldInv, Fits, TypeOK
    <3>6. Note(run.answer, seen) = "returned" <=> Magnitude(pos - Midpoint) > Floor
      BY <3>1, <3>2, <3>5 DEF Note
    <3>7. CASE HoldReturned
      <4>1. Beyond(pos) < -Floor /\ run.returned
        BY <3>3, <3>5, <3>7 DEF HoldReturned, Beyond
      <4>2. Magnitude(pos - Midpoint) > Floor
        BY <3>5, <4>1 DEF Beyond, Magnitude
      <4> QED
        BY <3>6, <4>1, <4>2
    <3>8. CASE HoldStays
      <4>1. Magnitude(pos - Midpoint) <= 0 /\ ~run.returned
        BY <3>3, <3>8 DEF HoldStays
      <4>2. ~(Magnitude(pos - Midpoint) > Floor)
        BY <3>5, <4>1 DEF Magnitude
      <4> QED
        BY <3>6, <4>1, <4>2
    <3> QED
      BY <3>4, <3>7, <3>8
  <2> QED
    BY <2>1, <2>4 DEF HoldKept, Holding
<1> QED
  BY <1>1, <1>2

(* A tick takes the actuator from p to q, on its way to g: by its speed or, *)
(* when it is near and between states, to the end.                          *)
Towards(p, g, q) ==
    \/ q = g
    \/ p + Speed < g /\ q = p + Speed
    \/ p - Speed > g /\ q = p - Speed

LEMMA TravelsTowards ==
    ASSUME pos \in Int, goal \in Int
    PROVE  Travels \in Int /\ Towards(pos, goal, Travels)
  BY DEF Travels, Towards, Nearest

(* Towards the held value, it comes nearer or is there.                     *)
LEMMA NearsTheHeld ==
    ASSUME NEW p \in Int, NEW q \in Int, Towards(p, Midpoint, q)
    PROVE  /\ Magnitude(p - Midpoint) \in Nat /\ Magnitude(q - Midpoint) \in Nat
           /\ \/ Magnitude(q - Midpoint) = 0
              \/ Magnitude(q - Midpoint) = Magnitude(p - Midpoint) - Speed
<1>1. Midpoint \in Int
  BY MidpointBetween
<1> QED
  BY <1>1 DEF Towards, Magnitude

(* Towards what is on the side of the default, it leaves the held value     *)
(* behind.                                                                  *)
LEMMA LeavesTheHeld ==
    ASSUME NEW p \in Int, NEW g \in Int, NEW q \in Int, Towards(p, g, q), Beyond(g) < -Floor,
           NEW n \in Int, Beyond(p) < -Floor \/ Beyond(p) + Floor < n
    PROVE  Beyond(q) < -Floor \/ Beyond(q) + Floor < n - Speed
<1>1. Midpoint \in Int /\ Default \in Int
  BY MidpointBetween
<1> QED
  BY <1>1 DEF Towards, Beyond

LEMMA TickHold ==
    ASSUME HeldLongEnough, HoldInv, Tick
    PROVE  HoldKept' /\ TimerNoteTrue'
<1>1. /\ run' = [run EXCEPT !.wait = run'.wait, !.way = run'.way]
      /\ run'.wait = IF run.wait > 0 THEN run.wait - 1 ELSE 0
      /\ pos' = Travels /\ goal' = goal /\ own' = Older(own) /\ timer # 0 /\ result' = None
      /\ timer' = IF timer = None THEN None ELSE timer - 1
  BY TickFits DEF Tick, HoldInv
<1>2. /\ run'.pc = run.pc /\ run'.answer = run.answer /\ run'.att = run.att
      /\ run'.returned = run.returned
  BY <1>1 DEF HoldInv, Fits, RunFits, RunForm
<1>3. /\ run.wait \in Nat /\ (timer = None \/ timer \in Nat)
      /\ pos \in Int /\ goal \in Int /\ Midpoint \in Int /\ Default \in Int
  BY CandidatesAreValues, MidpointBetween DEF HoldInv, Fits, TypeOK
<1>4. /\ HoldLeft \in Nat
      /\ HoldLeft' = IF run.pc = "answered" THEN HoldLeft
                     ELSE IF HoldLeft > 0 THEN HoldLeft - 1 ELSE 0
  BY <1>1, <1>2, <1>3 DEF HoldLeft
(* What is left of the way shrinks as fast as what is left of the hold.     *)
<1>5. /\ Speed * HoldLeft \in Nat /\ Speed * HoldLeft' \in Nat
      /\ Speed * HoldLeft' >= Speed * HoldLeft - Speed
  <2>1. HoldLeft' \in Nat /\ HoldLeft <= HoldLeft' + 1
    BY <1>4
  <2>2. Speed * HoldLeft <= Speed * (HoldLeft' + 1) /\ Speed * HoldLeft \in Nat
    BY <1>4, <2>1, SpeedGrows
  <2>3. PICK n \in Nat : n = HoldLeft'
    BY <2>1
  <2>4. Speed * (n + 1) = Speed * n + Speed /\ Speed * n \in Nat
    OBVIOUS
  <2>5. Speed * HoldLeft <= Speed * n + Speed
    BY <2>2, <2>3, <2>4
  <2>6. Speed * n >= Speed * HoldLeft - Speed
    BY ONLY <2>2, <2>4, <2>5, BenchAssumption
  <2> QED
    BY <2>2, <2>3, <2>4, <2>6
<1>6. HoldKept'
  <2> SUFFICES ASSUME Holding' PROVE HoldRuns' \/ HoldReturned' \/ HoldStays'
    BY DEF HoldKept
  <2>1. HoldRuns \/ HoldReturned \/ HoldStays
    BY <1>2 DEF Holding, HoldKept, HoldInv
  <2>0. pos' \in Int /\ Towards(pos, goal, pos')
    BY <1>1, <1>3, TravelsTowards
  <2>2. CASE HoldRuns
    <3>1. timer \in Nat /\ timer > 0 /\ timer' = timer - 1 /\ goal = Midpoint
      BY <1>1, <1>3, <2>2 DEF HoldRuns
    <3>2. timer' # None
      BY <3>1
    <3>3. Magnitude(pos - Midpoint) + Floor <= Speed * (Duration + timer)
          /\ HoldLeft >= timer + Duration + 1
      BY <2>2 DEF HoldRuns
    <3>4. HoldLeft' >= timer' + Duration + 1
      BY <1>4, <3>1, <3>3
    <3>5. Magnitude(pos' - Midpoint) + Floor <= Speed * (Duration + timer')
      <4>1. /\ Magnitude(pos - Midpoint) \in Nat /\ Magnitude(pos' - Midpoint) \in Nat
            /\ \/ Magnitude(pos' - Midpoint) = 0
               \/ Magnitude(pos' - Midpoint) = Magnitude(pos - Midpoint) - Speed
        BY <1>3, <2>0, <3>1, NearsTheHeld
      <4>2. /\ Duration + timer \in Nat /\ Duration + timer' \in Nat
            /\ Duration <= Duration + timer' /\ Duration + timer = (Duration + timer') + 1
        BY <3>1
      <4>3. Speed * (Duration + timer) = Speed * (Duration + timer') + Speed
        BY <4>2
      <4>4. /\ Speed * Duration \in Nat /\ Speed * (Duration + timer') \in Nat
            /\ Speed * Duration <= Speed * (Duration + timer')
        BY <4>2, SpeedGrows
      <4>5. Floor <= Speed * Duration
        BY DEF HeldLongEnough
      <4> QED
        BY <3>3, <4>1, <4>3, <4>4, <4>5
    <3>6. /\ own' # None /\ own'.value = Midpoint
          /\ own'.age = MaxAge \/ own'.age >= Duration - timer'
      <4>1. /\ own \in WriteForm /\ own.value = Midpoint
            /\ own.age = MaxAge \/ own.age >= Duration - timer
        BY <2>2 DEF HoldRuns, HoldInv, Fits, TypeOK, WriteForm
      <4>2. /\ own' # None /\ own'.value = Midpoint /\ own.age \in 0 .. MaxAge
            /\ own'.age = IF own.age = MaxAge THEN MaxAge ELSE own.age + 1
        BY <1>1, <2>2, <4>1, OlderFits, NoneIsNoWrite DEF WriteForm, HoldRuns
      <4> QED
        BY <3>1, <4>1, <4>2, MaxAgeIsEnough
    <3> QED
      BY <1>1, <1>2, <2>2, <3>1, <3>2, <3>4, <3>5, <3>6 DEF HoldRuns
  <2>3. CASE HoldReturned
    <3>1. timer = None /\ timer' = None /\ run'.returned /\ Beyond(goal) < -Floor
          /\ Beyond(goal)' < -Floor
      BY <1>1, <1>2, <2>3 DEF HoldReturned, Beyond
    <3>2. Beyond(pos) < -Floor \/ Beyond(pos) + Floor < Speed * HoldLeft
      BY <2>3 DEF HoldReturned
    <3>3. Beyond(pos') < -Floor \/ Beyond(pos') + Floor < Speed * HoldLeft - Speed
      BY <1>3, <1>5, <2>0, <3>1, <3>2, LeavesTheHeld
    <3>4. Beyond(pos') \in Int
      BY <1>3, <2>0 DEF Beyond
    <3>5. Beyond(pos') < -Floor \/ Beyond(pos') + Floor < Speed * HoldLeft'
      BY <1>5, <3>3, <3>4
    <3> QED
      BY <1>1, <3>1, <3>5 DEF HoldReturned, Beyond
  <2>4. CASE HoldStays
    <3>1. timer' = None /\ ~run'.returned /\ goal = Midpoint /\ goal' = Midpoint
      BY <1>1, <1>2, <2>4 DEF HoldStays
    <3>2. /\ Magnitude(pos - Midpoint) \in Nat /\ Magnitude(pos' - Midpoint) \in Nat
          /\ \/ Magnitude(pos' - Midpoint) = 0
             \/ Magnitude(pos' - Midpoint) = Magnitude(pos - Midpoint) - Speed
      BY <1>3, <2>0, <3>1, NearsTheHeld
    <3>3. Magnitude(pos' - Midpoint) <= Speed * HoldLeft'
      BY <1>5, <2>4, <3>2 DEF HoldStays
    <3> QED
      BY <3>1, <3>3 DEF HoldStays
  <2> QED
    BY <2>1, <2>2, <2>3, <2>4
<1> QED
  BY <1>1, <1>6 DEF TimerNoteTrue

(* What the timer goes back to is not taken for what is held.               *)
LEMMA BackIsAway ==
    ASSUME HeldLongEnough, own \in WriteForm, own.value = Midpoint,
           own.age = MaxAge \/ own.age >= Duration
    PROVE  /\ Default = Midpoint => Decision(own, Default) = Midpoint
           /\ Default # Midpoint => Beyond(Decision(own, Default)) < -Floor
                                    /\ Beyond(Default) < -Floor
<1> DEFINE w == Rate * own.age
<1>1. /\ own.age \in Nat /\ Midpoint \in Candidates /\ Default \in Candidates
      /\ Midpoint \in Int /\ Default \in Int
  BY MaxAgeIsEnough, CandidatesAreValues DEF WriteForm
<1>2. w \in Nat
  BY <1>1
<1>3. Default # Midpoint => w > Floor \/ w >= Magnitude(Default - Midpoint)
  <2>1. CASE own.age = MaxAge
    BY <1>1, <2>1, MaxAgeIsEnough
  <2>2. CASE own.age >= Duration
    <3>1. Rate * Duration <= Rate * own.age /\ Rate * Duration \in Nat /\ Rate * own.age \in Nat
      BY <1>1, <2>2, RateGrows
    <3> QED
      BY <3>1 DEF HeldLongEnough
  <2> QED
    BY <2>1, <2>2
<1>4. Default # Midpoint => Magnitude(Default - Midpoint) > Floor
  BY DEF HeldLongEnough
<1>5. own # None
  BY NoWriteAssumption DEF WriteForm
<1>6. \/ Decision(own, Default) = Default
      \/ Decision(own, Default) = Nearest(Default, Midpoint - w, Midpoint + w)
  <2>1. Nearest(Default, Low, High) = Default
    BY DEF Nearest
  <2> QED
    BY <1>5, <2>1 DEF Decision, Clamped
<1> DEFINE back == Decision(own, Default)
<1>7. back = Default \/ back = Nearest(Default, Midpoint - w, Midpoint + w)
  BY <1>6
<1> HIDE DEF w, back
<1>8. /\ Default = Midpoint => back = Midpoint
      /\ Default # Midpoint => Beyond(back) < -Floor /\ Beyond(Default) < -Floor
  BY <1>1, <1>2, <1>3, <1>4, <1>7 DEF Beyond, Nearest, Magnitude
<1> QED
  BY <1>8 DEF back

LEMMA TimerHold ==
    ASSUME HeldLongEnough, HoldInv, TimerReturns \/ TimerFails
    PROVE  HoldKept' /\ TimerNoteTrue'
<1>1. /\ timer = 0 /\ timer' = None /\ pos' = pos /\ result' = None
      /\ run'.pc = run.pc /\ run'.answer = run.answer /\ run'.att = run.att
      /\ run'.returned = (run.returned \/ goal' # goal) /\ run'.wait = run.wait
      /\ goal' \in {goal, Decision(own, Default), Default}
  BY TimerDoes DEF HoldInv
<1>2. timer # None /\ pos \in Int /\ Midpoint \in Int /\ run.wait \in Nat
  BY <1>1, CandidatesAreValues, MidpointBetween DEF HoldInv, Fits, TypeOK
<1>3. HoldLeft' = HoldLeft /\ HoldLeft \in Nat
  BY <1>1, <1>2 DEF HoldLeft
<1>4. HoldKept'
  <2> SUFFICES ASSUME Holding' PROVE HoldReturned' \/ HoldStays'
    BY DEF HoldKept
  <2>1. HoldRuns
    BY <1>1, <1>2 DEF Holding, HoldInv, HoldKept, HoldReturned, HoldStays
  <2>2. Magnitude(pos - Midpoint) + Floor < Speed * HoldLeft /\ Speed * HoldLeft \in Nat
    <3>1. HoldLeft >= Duration + 1 /\ Magnitude(pos - Midpoint) + Floor <= Speed * Duration
      BY <1>1, <2>1 DEF HoldRuns
    <3>2. /\ Speed * Duration + Speed <= Speed * HoldLeft
          /\ Speed * Duration \in Nat /\ Speed * HoldLeft \in Nat
      BY <1>3, <3>1, SpeedGrows
    <3>3. Magnitude(pos - Midpoint) \in Nat
      BY <1>2 DEF Magnitude
    <3> QED
      BY <3>1, <3>2, <3>3
  <2>3. CASE goal' = goal
    <3>1. Magnitude(pos - Midpoint) <= Speed * HoldLeft
      BY <1>2, <2>2 DEF Magnitude
    <3> QED
      BY <1>1, <1>3, <2>1, <2>3, <3>1 DEF HoldRuns, HoldStays
  <2>4. CASE goal' # goal
    <3>1. own \in WriteForm /\ own.value = Midpoint /\ (own.age = MaxAge \/ own.age >= Duration)
      BY <1>1, <2>1 DEF HoldRuns, HoldInv, Fits, TypeOK, WriteForm
    <3>2. goal = Midpoint
      BY <2>1 DEF HoldRuns
    <3>3. Beyond(goal') < -Floor
      BY <1>1, <2>4, <3>1, <3>2, BackIsAway
    <3>4. Beyond(pos) + Floor < Speed * HoldLeft
      BY <1>2, <2>2 DEF Beyond, Magnitude
    <3> QED
      BY <1>1, <1>3, <2>4, <3>3, <3>4 DEF HoldReturned, Beyond
  <2> QED
    BY <2>3, <2>4
<1> QED
  BY <1>1, <1>4 DEF TimerNoteTrue

LEMMA StepHold ==
    ASSUME HeldLongEnough, HoldInv, [Next]_vars
    PROVE  HoldInv'
<1>1. Fits'
  BY StepFits DEF HoldInv
<1>2. CASE UNCHANGED vars
  BY <1>1, <1>2 DEF HoldInv, HoldKept, Holding, HoldRuns, HoldReturned, HoldStays, HoldLeft,
                    TimerNoteTrue, Beyond, vars, world
<1>3. CASE Next
  <2>1. HoldKept' /\ TimerNoteTrue'
    BY <1>3, BeforeHold, TryHold, AnsweredHold, ResultHold, TickHold, TimerHold DEF Next
  <2> QED
    BY <1>1, <2>1 DEF HoldInv
<1> QED
  BY <1>2, <1>3

(* Of a channel that reads floats the note on a hold says that the dead-man *)
(* timer returned the actuator exactly when it did, if the actuator could   *)
(* be read and was sent where it was asked to be: whatever becomes of the   *)
(* timer's own write, for an actuator that gets there within the hold and a *)
(* default that is what is held or not as near to it as the floor           *)
(* (corpus.py:194-206, runner.py:340-351).                                  *)
THEOREM TimerNotes ==
    ASSUME HeldLongEnough
    PROVE  Spec => []TimerNoteTrue
<1>1. HoldInv /\ [Next]_vars => HoldInv'
  BY StepHold
<1>2. HoldInv => TimerNoteTrue
  BY DEF HoldInv
<1> QED
  BY <1>1, <1>2, InitHold, PTL DEF Spec

=============================================================================
