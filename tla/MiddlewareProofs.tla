-------------------------- MODULE MiddlewareProofs --------------------------
(* Type correctness, the envelope at the hardware and the confirmation gate *)
(* for every device, every number of requests and timers, every fault of    *)
(* the link and every interleaving of module Middleware; what is reported   *)
(* and the two dead-man promises for the devices where they hold.           *)
EXTENDS Middleware, SafetyLimitsProofs, SequenceTheorems

Fields == {"kind", "pc", "target", "confirm", "registered", "asked", "ctx", "todo",
           "seen", "want", "sent", "polls", "queue", "raising", "result"}

Driving == {"check", "transmit", "acked", "verify"}

(* A remembered write: of the right type, and a place the limit allows.     *)
Kept(t, write) == write = None \/ (write \in Write /\ InBounds(Limit[t], write.value))

ContextOK(t, ctx) ==
    /\ ctx.current # None => InBounds(Limit[t], ctx.current)
    /\ ctx.elapsed \in Nat \cup {None}

(* What the driver was called with: the default, for an expired timer.      *)
WantOK(rec) ==
    /\ InBounds(Limit[rec.target], rec.want)
    /\ rec.kind = "expiry" => rec.want = Actuator[rec.target].default

(* What a task may carry: every value on its way to the link has passed a   *)
(* check, and every value it may check next is a number.                    *)
RecOK(rec) ==
    /\ DOMAIN rec = Fields
    /\ rec.kind \in Kinds /\ rec.pc \in PCs /\ rec.result \in Outcomes \cup {None}
    /\ rec.target \in Targets \cup {None} /\ rec.registered \in BOOLEAN
    /\ rec.kind \in {"write", "expiry"} => rec.target \in Targets
    /\ rec.pc \in {"evaluate"} \cup Driving => rec.kind \in {"write", "expiry"}
    /\ rec.pc \in {"evaluate", "check"} => ContextOK(rec.target, rec.ctx)
    /\ rec.pc = "evaluate" => rec.kind = "write" /\ rec.asked \in Int
    /\ rec.pc \in Driving \/ rec.result = "ok" => WantOK(rec)
    /\ rec.pc \in {"transmit", "acked"} => InBounds(Limit[rec.target], rec.sent)
    /\ rec.pc \in {"check", "transmit"} => Confirmed(rec.target, rec.confirm)
    /\ rec.queue \in Seq(DOMAIN Safe)

TasksOK == DOMAIN task = Tasks /\ \A p \in Tasks : RecOK(task[p])

MemoryOK ==
    /\ DOMAIN lastWrite = Targets /\ DOMAIN drvLast = Targets
    /\ \A t \in Targets : Kept(t, lastWrite[t]) /\ Kept(t, drvLast[t])

TimersOK ==
    /\ DOMAIN timer = Targets
    /\ \A t \in Targets : timer[t] = None \/ timer[t] \in [left : Nat, registered : BOOLEAN]

PlacesOK == DOMAIN pos = Targets /\ EnvelopeAtHardware

IInv == TasksOK /\ MemoryOK /\ TimersOK /\ PlacesOK /\ loop \in Tasks \cup {None}

-----------------------------------------------------------------------------
(* Facts about the tag.                                                     *)

LEMMA TagFacts ==
    ASSUME NEW t \in Targets
    PROVE  /\ WellFormed(Limit[t]) /\ ConditionsNarrow(Limit[t])
           /\ Limit[t].allowed # None => Limit[t].allowed \subseteq Int
           /\ Actuator[t].default # None => InBounds(Limit[t], Actuator[t].default)
           /\ Limit[t].max_duration # None => Limit[t].max_duration \in Nat
  BY TagAssumption DEF Ingested, DefaultIsLegal, InBounds

LEMMA InBoundsIsInt ==
    ASSUME NEW t \in Targets, NEW value, InBounds(Limit[t], value)
    PROVE  value \in Int
  BY TagFacts DEF InBounds

(* The evaluator keeps the envelope of every target (see ScalarSound).      *)
LEMMA PassesInBounds ==
    ASSUME NEW t \in Targets, NEW value \in Int, NEW ctx, ContextOK(t, ctx), NEW seen,
           Passes(CheckScalar(Actuator[t], Limit[t], value, ctx.current, ctx.elapsed, seen))
    PROVE  InBounds(Limit[t], CheckScalar(Actuator[t], Limit[t], value,
                                          ctx.current, ctx.elapsed, seen).value)
<1> DEFINE d == CheckScalar(Actuator[t], Limit[t], value, ctx.current, ctx.elapsed, seen)
<1>1. CASE Limit[t].allowed = None
  <2>1. Numeric(Limit[t])
    BY <1>1, TagFacts DEF Numeric
  <2>2. ctx.current # None => InBase(Limit[t], ctx.current)
    BY <1>1 DEF ContextOK, InBounds, InBase
  <2>3. ctx.elapsed \in Nat \cup {None}
    BY DEF ContextOK
  <2>4. InBase(Limit[t], d.value)
    BY <2>1, <2>2, <2>3, ScalarSound
  <2> QED
    BY <1>1, <2>4 DEF InBounds, InBase
<1>2. CASE Limit[t].allowed # None
  <2>1. /\ d = CheckDiscrete(Limit[t], Resolve(Actuator[t], value, ctx.current))
        /\ Passes(d)
    BY <1>2 DEF CheckScalar, Passes, Decide
  <2> QED
    BY <1>2, <2>1 DEF CheckDiscrete, Passes, Decide, Refusal, InBounds
<1> QED
  BY <1>1, <1>2

LEMMA ContextIsOK ==
    ASSUME NEW t \in Targets, NEW write, Kept(t, write)
    PROVE  ContextOK(t, Context(write, t))
  BY TagFacts DEF Context, ContextOK, Kept, Write

-----------------------------------------------------------------------------
(* Records: each way a task is rewritten keeps it well formed.              *)

LEMMA IdleOK == RecOK(Idle)
<1>1. None # "ok"
  BY OutcomesAssumption DEF Outcomes
<1>2. << >> \in Seq(DOMAIN Safe)
  OBVIOUS
<1> QED
  BY <1>1, <1>2 DEF RecOK, Idle, Fields, Kinds, PCs, Outcomes, Driving

LEMMA ReturnOK ==
    ASSUME NEW rec, RecOK(rec), NEW result \in Outcomes,
           result = "ok" => rec.pc \in Driving
    PROVE  RecOK(Return(rec, result))
  BY DEF RecOK, WantOK, Return, Fields, PCs, Driving

LEMMA StartCheckOK ==
    ASSUME NEW rec, RecOK(rec), rec.kind \in {"write", "expiry"},
           NEW pc \in {"evaluate", "check"}, NEW write, Kept(rec.target, write),
           pc = "evaluate" => rec.kind = "write" /\ rec.asked \in Int,
           pc = "check" => WantOK(rec) /\ Confirmed(rec.target, rec.confirm)
    PROVE  RecOK(StartCheck(rec, pc, write))
<1>1. ContextOK(rec.target, Context(write, rec.target))
  BY ContextIsOK DEF RecOK
<1> QED
  BY <1>1 DEF RecOK, WantOK, StartCheck, Fields, PCs, Driving

LEMMA CallWriteOK ==
    ASSUME NEW rec, RecOK(rec), rec.kind \in {"write", "expiry"},
           MemoryOK, NEW value, InBounds(Limit[rec.target], value),
           rec.kind = "expiry" => value = Actuator[rec.target].default
    PROVE  RecOK(CallWrite(rec, value))
<1> DEFINE r == [rec EXCEPT !.want = value]
<1>1. /\ RecOK(r) /\ r.kind = rec.kind /\ r.target = rec.target /\ r.want = value
      /\ r.confirm = rec.confirm /\ WantOK(r)
  BY DEF RecOK, WantOK, Fields
<1>2. Kept(r.target, drvLast[rec.target])
  BY <1>1 DEF RecOK, MemoryOK
<1> HIDE DEF r
<1>3. ASSUME Confirmed(rec.target, rec.confirm)
      PROVE  RecOK(StartCheck(r, "check", drvLast[rec.target]))
  BY <1>1, <1>2, <1>3, StartCheckOK
<1>4. RecOK(Return(r, "raised"))
  BY <1>1, ReturnOK DEF Outcomes
<1> QED
  BY <1>3, <1>4 DEF CallWrite, r

LEMMA CallStopOK ==
    ASSUME NEW rec, RecOK(rec), NEW raising \in BOOLEAN
    PROVE  RecOK(CallStop(rec, raising))
<1>1. RecOK(Return(rec, IF raising THEN "raised" ELSE "unstopped"))
  BY ReturnOK DEF Outcomes
<1>2. SafeOrder \in Seq(DOMAIN Safe)
  BY TagAssumption
<1>3. RecOK([rec EXCEPT !.pc = "stopping", !.queue = SafeOrder, !.raising = raising,
                       !.result = None])
  BY <1>2, OutcomesAssumption DEF RecOK, WantOK, Fields, PCs, Driving, Outcomes
<1> QED
  BY <1>1, <1>3 DEF CallStop

(* One task is replaced, the others stay.                                   *)
LEMMA OneTask ==
    ASSUME TasksOK, NEW p \in Tasks, NEW rec, RecOK(rec),
           task' = [task EXCEPT ![p] = rec]
    PROVE  TasksOK'
  BY DEF TasksOK

LoopOK == loop \in Tasks \cup {None}

LEMMA LoopSteps ==
    ASSUME NEW p \in Tasks, NEW waits,
           Suspend \/ KeepLoop(p) \/ SuspendIf(p, waits)
    PROVE  LoopOK'
  BY DEF Suspend, KeepLoop, SuspendIf, LoopOK

(* A step that only rewrites one task.                                      *)
LEMMA TaskStepOK ==
    ASSUME IInv, NEW p \in Tasks, NEW rec, RecOK(rec),
           task' = [task EXCEPT ![p] = rec], LoopOK',
           UNCHANGED <<pos, drvLast, lastWrite, timer>>
    PROVE  IInv'
<1>1. TasksOK'
  BY OneTask DEF IInv
<1>2. MemoryOK' /\ TimersOK' /\ PlacesOK'
  BY DEF IInv, MemoryOK, TimersOK, PlacesOK, EnvelopeAtHardware, Kept
<1> QED
  BY <1>1, <1>2 DEF IInv, LoopOK

LEMMA RecOf ==
    ASSUME IInv, NEW p \in Tasks
    PROVE  RecOK(task[p]) /\ DOMAIN task = Tasks /\ DOMAIN task[p] = Fields
  BY DEF IInv, TasksOK, RecOK

(* What the evaluator lets a task send.                                     *)
LEMMA EvaluatedInBounds ==
    ASSUME NEW p \in Tasks, RecOK(task[p]), task[p].pc \in {"evaluate", "check"},
           NEW value \in Int, Passes(Evaluated(p, value))
    PROVE  InBounds(Limit[task[p].target], Evaluated(p, value).value)
<1>1. task[p].target \in Targets /\ ContextOK(task[p].target, task[p].ctx)
  BY DEF RecOK, Driving
<1> QED
  BY <1>1, PassesInBounds DEF Evaluated

-----------------------------------------------------------------------------
(* The driver's steps.                                                      *)

LEMMA ReadConditionOK ==
    ASSUME IInv, NEW p \in Tasks, NEW c \in Targets, ReadCondition(p, c),
           UNCHANGED <<lastWrite, timer>>
    PROVE  IInv'
<1>1. PICK todo, seen :
          task' = [task EXCEPT ![p] = [task[p] EXCEPT !.todo = todo, !.seen = seen]]
  <2>1. CASE task' = [task EXCEPT ![p].todo = @ \ {c}]
    <3>1. task' = [task EXCEPT ![p] = [task[p] EXCEPT !.todo = task[p].todo \ {c},
                                                      !.seen = task[p].seen]]
      BY <2>1, RecOf DEF Fields
    <3> QED
      BY <3>1
  <2>2. CASE task' = [task EXCEPT ![p].todo = @ \ {c},
              ![p].seen = [x \in DOMAIN @ \cup {c} |->
                              IF x = c THEN Reading(c) ELSE @[x]]]
    <3> DEFINE new == [x \in DOMAIN task[p].seen \cup {c} |->
                          IF x = c THEN Reading(c) ELSE task[p].seen[x]]
    <3>1. task' = [task EXCEPT ![p] = [task[p] EXCEPT !.todo = task[p].todo \ {c},
                                                      !.seen = new]]
      BY <2>2, RecOf DEF Fields
    <3> QED
      BY <3>1
  <2> QED
    BY <2>1, <2>2 DEF ReadCondition
<1>2. RecOK([task[p] EXCEPT !.todo = todo, !.seen = seen])
  BY RecOf DEF RecOK, WantOK, Fields, Driving
<1>3. LoopOK'
  BY DEF ReadCondition, IInv, LoopOK
<1> QED
  BY <1>1, <1>2, <1>3, TaskStepOK DEF ReadCondition

LEMMA CheckPassesOK ==
    ASSUME IInv, NEW p \in Tasks, CheckPasses(p), UNCHANGED <<lastWrite, timer>>
    PROVE  IInv'
<1> DEFINE d == Evaluated(p, task[p].want)
           rec == [task[p] EXCEPT !.pc = "transmit", !.sent = d.value]
<1>1. /\ task[p].pc = "check" /\ Passes(d)
      /\ task' = [task EXCEPT ![p].pc = "transmit", ![p].sent = d.value]
      /\ LoopOK'
  BY LoopSteps DEF CheckPasses, ReadyToCheck
<1>2. task[p].want \in Int
  BY <1>1, RecOf, InBoundsIsInt DEF RecOK, WantOK, Driving
<1>3. InBounds(Limit[task[p].target], d.value)
  BY <1>1, <1>2, RecOf, EvaluatedInBounds
<1> HIDE DEF d
<1>4. RecOK(rec)
  BY <1>1, <1>3, RecOf DEF RecOK, WantOK, Fields, PCs, Driving
<1>5. task' = [task EXCEPT ![p] = rec]
  BY <1>1, RecOf DEF Fields
<1> HIDE DEF rec
<1> QED
  BY <1>1, <1>4, <1>5, TaskStepOK DEF CheckPasses

LEMMA CheckEndsOK ==
    ASSUME IInv, NEW p \in Tasks, CheckRefuses(p) \/ CheckStops(p),
           UNCHANGED <<lastWrite, timer>>
    PROVE  IInv'
<1>1. CASE CheckRefuses(p)
  <2>1. RecOK(Return(task[p], "raised"))
    BY RecOf, ReturnOK, OutcomesAssumption DEF Outcomes
  <2> QED
    BY <1>1, <2>1, TaskStepOK, LoopSteps DEF CheckRefuses
<1>2. CASE CheckStops(p)
  <2>1. RecOK(CallStop(task[p], TRUE))
    BY RecOf, CallStopOK
  <2> QED
    BY <1>2, <2>1, TaskStepOK, LoopSteps DEF CheckStops
<1> QED
  BY <1>1, <1>2

(* A move to a value in bounds, or to the safe value of its target.         *)
LEMMA MoveOK ==
    ASSUME PlacesOK, NEW t \in Targets, NEW value,
           InBounds(Limit[t], value) \/ (t \in DOMAIN Safe /\ value = Safe[t]),
           Moved(t, value) \/ UNCHANGED pos
    PROVE  PlacesOK'
  BY DEF PlacesOK, EnvelopeAtHardware, Moved

LEMMA TransmitOK ==
    ASSUME IInv, NEW p \in Tasks, Transmit(p), UNCHANGED <<lastWrite, timer>>
    PROVE  IInv'
<1> DEFINE t == task[p].target
<1>1. task[p].pc = "transmit" /\ t \in Targets /\ InBounds(Limit[t], task[p].sent)
  BY RecOf DEF Transmit, RecOK, Driving
<1>2. PlacesOK'
  BY <1>1, MoveOK DEF IInv, Transmit, Takes, Misses
<1>3. TasksOK'
  <2>1. CASE task' = [task EXCEPT ![p].pc = "acked"]
    <3>1. task' = [task EXCEPT ![p] = [task[p] EXCEPT !.pc = "acked"]]
      BY <2>1
    <3>2. RecOK([task[p] EXCEPT !.pc = "acked"])
      BY <1>1, RecOf DEF RecOK, WantOK, Fields, PCs, Driving
    <3> QED
      BY <3>1, <3>2, OneTask DEF IInv
  <2>2. CASE task' = [task EXCEPT ![p] = Return(@, "raised")]
    <3>1. RecOK(Return(task[p], "raised"))
      BY RecOf, ReturnOK DEF Outcomes
    <3> QED
      BY <2>2, <3>1, OneTask DEF IInv
  <2> QED
    BY <2>1, <2>2 DEF Transmit
<1> QED
  BY <1>2, <1>3 DEF IInv, Transmit, MemoryOK, TimersOK, Kept

LEMMA AckedOK ==
    ASSUME IInv, NEW p \in Tasks, Acked(p), UNCHANGED <<lastWrite, timer>>
    PROVE  IInv'
<1> DEFINE t == task[p].target
<1>1. task[p].pc = "acked" /\ t \in Targets /\ InBounds(Limit[t], task[p].sent)
  BY RecOf DEF Acked, RecOK, Driving
<1>2. MemoryOK'
  <2>1. task[p].sent \in Int
    BY <1>1, InBoundsIsInt
  <2>2. Kept(t, [value |-> task[p].sent, age |-> 0])
    BY <1>1, <2>1 DEF Kept, Write
  <2> QED
    BY <2>2 DEF IInv, MemoryOK, Acked, Kept
<1>3. TasksOK'
  <2>1. RecOK([task[p] EXCEPT !.pc = "verify", !.polls = Polls])
    BY <1>1, RecOf DEF RecOK, WantOK, Fields, PCs, Driving
  <2>2. RecOK(Return(task[p], "ok"))
    BY <1>1, RecOf, ReturnOK DEF Outcomes, Driving
  <2> QED
    BY <2>1, <2>2, OneTask DEF IInv, Acked
<1>4. LoopOK'
  BY LoopSteps DEF Acked
<1> QED
  BY <1>2, <1>3, <1>4 DEF IInv, Acked, TimersOK, PlacesOK, EnvelopeAtHardware, LoopOK

LEMMA VerifyReadOK ==
    ASSUME IInv, NEW p \in Tasks, VerifyRead(p), UNCHANGED <<lastWrite, timer>>
    PROVE  IInv'
<1>1. task[p].pc = "verify" /\ LoopOK'
  BY DEF VerifyRead, IInv, LoopOK
<1>2. RecOK([task[p] EXCEPT !.polls = task[p].polls - 1])
  BY RecOf DEF RecOK, WantOK, Fields, Driving
<1>3. \A result \in {"ok", "desync", "raised"} : RecOK(Return(task[p], result))
  BY <1>1, RecOf, ReturnOK DEF Outcomes, Driving
<1>4. \/ task' = [task EXCEPT ![p] = [task[p] EXCEPT !.polls = task[p].polls - 1]]
      \/ \E result \in {"ok", "desync", "raised"} :
            task' = [task EXCEPT ![p] = Return(task[p], result)]
  BY RecOf DEF VerifyRead
<1>5. UNCHANGED <<pos, drvLast, lastWrite, timer>>
  BY DEF VerifyRead
<1> QED
  BY <1>1, <1>2, <1>3, <1>4, <1>5, TaskStepOK

LEMMA StopTransmitOK ==
    ASSUME IInv, NEW p \in Tasks, StopTransmit(p), UNCHANGED <<lastWrite, timer>>
    PROVE  IInv'
<1> DEFINE t == Head(task[p].queue)
<1>1. task[p].queue \in Seq(DOMAIN Safe) /\ task[p].queue # << >>
  BY RecOf DEF StopTransmit, StopWaits, RecOK
<1>2. t \in DOMAIN Safe /\ t \in Targets /\ Tail(task[p].queue) \in Seq(DOMAIN Safe)
  <2>1. t \in DOMAIN Safe /\ Tail(task[p].queue) \in Seq(DOMAIN Safe)
    BY <1>1, HeadTailProperties
  <2> QED
    BY <2>1, TagAssumption
<1>3. PlacesOK'
  BY <1>2, MoveOK DEF IInv, StopTransmit, Takes, Misses
<1>4. TasksOK'
  <2>1. CASE task' = [task EXCEPT ![p].queue = Tail(@)]
    <3>1. task' = [task EXCEPT ![p] = [task[p] EXCEPT !.queue = Tail(task[p].queue)]]
      BY <2>1, RecOf DEF Fields
    <3>2. RecOK([task[p] EXCEPT !.queue = Tail(task[p].queue)])
      BY <1>2, RecOf DEF RecOK, WantOK, Fields
    <3> QED
      BY <3>1, <3>2, OneTask DEF IInv
  <2>2. CASE task' = [task EXCEPT ![p] = Return(@, IF task[p].raising THEN "raised"
                                                                ELSE "unstopped")]
    <3>1. RecOK(Return(task[p], IF task[p].raising THEN "raised" ELSE "unstopped"))
      BY RecOf, ReturnOK DEF Outcomes
    <3> QED
      BY <2>2, <3>1, OneTask DEF IInv
  <2> QED
    BY <2>1, <2>2 DEF StopTransmit
<1> QED
  BY <1>3, <1>4 DEF IInv, StopTransmit, MemoryOK, TimersOK, Kept

LEMMA StopDoneOK ==
    ASSUME IInv, NEW p \in Tasks, StopDone(p), UNCHANGED <<lastWrite, timer>>
    PROVE  IInv'
<1>1. RecOK(Return(task[p], IF task[p].raising THEN "raised" ELSE "stopped"))
  BY RecOf, ReturnOK DEF Outcomes
<1>2. TasksOK'
  BY <1>1, OneTask DEF IInv, StopDone
<1>3. MemoryOK'
  BY DEF IInv, StopDone, MemoryOK, Kept
<1>4. LoopOK'
  BY LoopSteps DEF StopDone
<1> QED
  BY <1>2, <1>3, <1>4 DEF IInv, StopDone, TimersOK, PlacesOK, EnvelopeAtHardware, LoopOK

LEMMA DriverStepOK ==
    ASSUME IInv, NEW p \in Tasks, DriverStep(p), UNCHANGED <<lastWrite, timer>>
    PROVE  IInv'
  BY ReadConditionOK, CheckPassesOK, CheckEndsOK, TransmitOK, AckedOK, VerifyReadOK,
     StopTransmitOK, StopDoneOK
     DEF DriverStep

-----------------------------------------------------------------------------
(* The callers' steps.                                                      *)

LEMMA SubmitOK ==
    ASSUME IInv, NEW p \in Tasks, NEW t \in Targets, NEW value \in Values,
           NEW confirm, Submit(p, t, value, confirm)
    PROVE  IInv'
<1> DEFINE rec == [Idle EXCEPT !.kind = "write", !.target = t, !.asked = value,
                              !.confirm = confirm, !.registered = TRUE]
<1>1. DOMAIN Idle = Fields
  BY IdleOK DEF RecOK
<1>2. RecOK(rec) /\ rec.kind = "write" /\ rec.target = t /\ rec.asked \in Int
  <2>1. Idle.pc = "idle" /\ Idle.result = None
    BY DEF Idle
  <2> QED
    BY <1>1, <2>1, IdleOK, ValuesAssumption, OutcomesAssumption
       DEF RecOK, Fields, Kinds, Driving, Outcomes
<1>3. Kept(t, lastWrite[t])
  BY DEF IInv, MemoryOK
<1>4. /\ task' = [task EXCEPT ![p] = StartCheck(rec, "evaluate", lastWrite[t])]
      /\ LoopOK' /\ UNCHANGED <<pos, drvLast, lastWrite, timer>>
  BY LoopSteps DEF Submit
<1> HIDE DEF rec
<1>5. RecOK(StartCheck(rec, "evaluate", lastWrite[t]))
  BY <1>2, <1>3, StartCheckOK
<1> QED
  BY <1>4, <1>5, TaskStepOK

LEMMA EvaluatePassesOK ==
    ASSUME IInv, NEW p \in Tasks, EvaluatePasses(p)
    PROVE  IInv'
<1> DEFINE d == Evaluated(p, task[p].asked)
<1>1. /\ task[p].pc = "evaluate" /\ Passes(d)
      /\ task' = [task EXCEPT ![p] = CallWrite(task[p], d.value)]
      /\ LoopOK' /\ UNCHANGED <<pos, drvLast, lastWrite, timer>>
  BY LoopSteps DEF EvaluatePasses, ReadyToEvaluate
<1>2. task[p].asked \in Int /\ task[p].kind = "write"
  BY <1>1, RecOf DEF RecOK
<1>3. InBounds(Limit[task[p].target], d.value)
  BY <1>1, <1>2, RecOf, EvaluatedInBounds
<1> HIDE DEF d
<1>4. RecOK(CallWrite(task[p], d.value))
  BY <1>2, <1>3, RecOf, CallWriteOK DEF IInv
<1> QED
  BY <1>1, <1>4, TaskStepOK

(* The steps that end a request or an expiry and remember nothing.          *)
LEMMA EndsOK ==
    ASSUME IInv, NEW p \in Tasks,
           \/ EvaluateRefuses(p) \/ WriteRaises(p)
           \/ StopRaises(p) \/ ExpiryGivesUp(p)
    PROVE  IInv'
<1>1. /\ task' = [task EXCEPT ![p] = Idle] /\ Suspend
      /\ UNCHANGED <<pos, drvLast, lastWrite, timer>>
  BY DEF EvaluateRefuses, WriteRaises, StopRaises, ExpiryGivesUp, Finish
<1> QED
  BY <1>1, IdleOK, LoopSteps, TaskStepOK

(* The steps that begin an emergency stop.                                  *)
LEMMA StopsOK ==
    ASSUME IInv, NEW p \in Tasks,
           EvaluateStops(p) \/ EmergencyStop(p) \/ ExpiryFallsBack(p)
    PROVE  IInv'
<1> DEFINE fresh == [Idle EXCEPT !.kind = "stop", !.registered = TRUE]
<1>1. DOMAIN Idle = Fields /\ Idle.pc = "idle" /\ Idle.result = None
  BY DEF Idle, Fields
<1>2. RecOK(fresh)
  BY <1>1, IdleOK, OutcomesAssumption DEF RecOK, Fields, Kinds, Driving, Outcomes
<1> HIDE DEF fresh
<1>3. PICK rec \in {task[p], fresh} :
          /\ task' = [task EXCEPT ![p] = CallStop(rec, FALSE)]
          /\ SuspendIf(p, StopWaits(CallStop(rec, FALSE)))
          /\ UNCHANGED <<pos, drvLast, lastWrite, timer>>
  BY DEF EvaluateStops, EmergencyStop, ExpiryFallsBack, fresh
<1>4. RecOK(CallStop(rec, FALSE))
  BY <1>2, <1>3, RecOf, CallStopOK
<1> QED
  BY <1>3, <1>4, LoopSteps, TaskStepOK

(* The task ends and what it wrote is remembered.                           *)
LEMMA FinishOK ==
    ASSUME IInv, NEW p \in Tasks, Finish(p), UNCHANGED <<pos, drvLast>>
    PROVE  TasksOK' /\ LoopOK' /\ PlacesOK'
<1>1. TasksOK'
  BY IdleOK, OneTask DEF IInv, Finish
<1>2. LoopOK'
  BY LoopSteps DEF Finish
<1> QED
  BY <1>1, <1>2 DEF IInv, PlacesOK, EnvelopeAtHardware

LEMMA RememberOK ==
    ASSUME MemoryOK, UNCHANGED drvLast, NEW rec, NEW t \in Targets, NEW value,
           InBounds(Limit[t], value), Remember(rec, t, value)
    PROVE  MemoryOK'
<1>1. Kept(t, [value |-> value, age |-> 0])
  BY InBoundsIsInt DEF Kept, Write
<1> QED
  BY <1>1 DEF Remember, MemoryOK, Kept

LEMMA WriteReturnsOK ==
    ASSUME IInv, NEW p \in Tasks, WriteReturns(p)
    PROVE  IInv'
<1> DEFINE rec == task[p]
<1>1. /\ rec.kind = "write" /\ rec.result = "ok"
      /\ Remember(rec, rec.target, rec.want) /\ Arm(rec, rec.target, rec.want)
      /\ Finish(p) /\ UNCHANGED <<pos, drvLast>>
  BY DEF WriteReturns
<1>2. /\ rec.target \in Targets /\ rec.registered \in BOOLEAN
      /\ InBounds(Limit[rec.target], rec.want)
  BY <1>1, RecOf DEF RecOK, WantOK
<1>3. MemoryOK'
  BY <1>1, <1>2, RememberOK DEF IInv
<1>4. TimersOK'
  BY <1>1, <1>2, TagFacts DEF Arm, IInv, TimersOK
<1> QED
  BY <1>1, <1>3, <1>4, FinishOK DEF IInv, LoopOK

LEMMA StopReturnsOK ==
    ASSUME IInv, NEW p \in Tasks, StopReturns(p) \/ ExpiryStops(p)
    PROVE  IInv'
<1>1. /\ ForgetAll(task[p]) /\ Finish(p) /\ UNCHANGED <<pos, drvLast>>
      /\ timer' = NoTimers \/ UNCHANGED timer
  BY DEF StopReturns, ExpiryStops
<1>2. MemoryOK'
  BY <1>1 DEF ForgetAll, IInv, MemoryOK, Kept
<1>3. TimersOK'
  BY <1>1 DEF NoTimers, IInv, TimersOK
<1> QED
  BY <1>1, <1>2, <1>3, FinishOK DEF IInv, LoopOK

LEMMA ExpireOK ==
    ASSUME IInv, NEW p \in Tasks, NEW t \in Targets, Expire(p, t)
    PROVE  IInv'
<1> DEFINE rec == [Idle EXCEPT !.kind = "expiry", !.target = t, !.confirm = TRUE,
                               !.registered = timer[t].registered]
           call == IF Actuator[t].default # None
                   THEN CallWrite(rec, Actuator[t].default)
                   ELSE CallStop(rec, FALSE)
<1>1. timer[t].registered \in BOOLEAN
  BY DEF Expire, IInv, TimersOK
<1>2. RecOK(rec) /\ rec.kind = "expiry" /\ rec.target = t
  <2>1. DOMAIN Idle = Fields /\ Idle.pc = "idle" /\ Idle.result = None
    BY DEF Idle, Fields
  <2> QED
    BY <1>1, <2>1, IdleOK, OutcomesAssumption
       DEF RecOK, Fields, Kinds, Driving, Outcomes
<1>3. /\ task' = [task EXCEPT ![p] = call]
      /\ SuspendIf(p, CallWaits(call) \/ StopWaits(call))
      /\ timer' = [timer EXCEPT ![t] = None]
      /\ UNCHANGED <<pos, drvLast, lastWrite>>
  BY DEF Expire
<1> HIDE DEF rec
<1>4. RecOK(call)
  BY <1>2, TagFacts, CallWriteOK, CallStopOK DEF IInv
<1> HIDE DEF call
<1>5. TasksOK'
  BY <1>3, <1>4, OneTask DEF IInv
<1>6. LoopOK'
  BY <1>3, LoopSteps
<1> QED
  BY <1>3, <1>5, <1>6
     DEF IInv, LoopOK, MemoryOK, TimersOK, PlacesOK, EnvelopeAtHardware, Kept

LEMMA ExpiryReturnsOK ==
    ASSUME IInv, NEW p \in Tasks, ExpiryReturns(p)
    PROVE  IInv'
<1> DEFINE t == task[p].target
<1>1. /\ task[p].kind = "expiry" /\ task[p].result = "ok"
      /\ Remember(task[p], t, Actuator[t].default)
      /\ Finish(p) /\ UNCHANGED <<pos, drvLast, timer>>
  BY DEF ExpiryReturns
<1>2. t \in Targets
  BY <1>1, RecOf DEF RecOK
<1>3. InBounds(Limit[t], Actuator[t].default)
  BY <1>1, <1>2, RecOf DEF RecOK, WantOK
<1>4. MemoryOK'
  BY <1>1, <1>2, <1>3, RememberOK DEF IInv
<1> QED
  BY <1>1, <1>4, FinishOK DEF IInv, LoopOK, TimersOK

(* A second announcement and the passing of time.                           *)
LEMMA ReregisterOK ==
    ASSUME IInv, Reregister
    PROVE  IInv'
<1>1. \A p \in Tasks : RecOK([task[p] EXCEPT !.registered = FALSE])
  BY RecOf DEF RecOK, WantOK, Fields
<1>2. TasksOK'
  BY <1>1 DEF Reregister, IInv, TasksOK
<1>3. MemoryOK'
  BY DEF Reregister, IInv, MemoryOK, Kept
<1>4. TimersOK'
  BY DEF Reregister, IInv, TimersOK
<1> QED
  BY <1>2, <1>3, <1>4 DEF Reregister, IInv, PlacesOK, EnvelopeAtHardware

LEMMA OlderKept ==
    ASSUME NEW t, NEW write, Kept(t, write)
    PROVE  Kept(t, Older(write))
  BY DEF Kept, Older, Write

LEMMA TickOK ==
    ASSUME IInv, Tick
    PROVE  IInv'
<1>1. MemoryOK'
  BY OlderKept DEF Tick, IInv, MemoryOK
<1>2. TimersOK'
  <2> SUFFICES ASSUME NEW t \in Targets, timer[t] # None
               PROVE  timer'[t] \in [left : Nat, registered : BOOLEAN]
    BY DEF Tick, TimersOK
  <2>1. timer[t] \in [left : Nat, registered : BOOLEAN]
    BY DEF IInv, TimersOK
  <2> QED
    BY <2>1 DEF Tick
<1> QED
  BY <1>1, <1>2 DEF Tick, IInv, TasksOK, PlacesOK, EnvelopeAtHardware

-----------------------------------------------------------------------------
LEMMA InitEstablishes == Init => IInv
<1> SUFFICES ASSUME Init PROVE IInv
  OBVIOUS
<1>1. TasksOK
  BY IdleOK DEF Init, DeviceInit, TasksOK
<1>2. PlacesOK
  BY TagAssumption DEF Init, DeviceInit, PlacesOK, EnvelopeAtHardware
<1> QED
  BY <1>1, <1>2 DEF Init, DeviceInit, IInv, MemoryOK, TimersOK, Kept

LEMMA CallerStepOK ==
    ASSUME IInv, NEW p \in Tasks, CallerStep(p)
    PROVE  IInv'
  BY EvaluatePassesOK, EndsOK, StopsOK, WriteReturnsOK, StopReturnsOK, ExpiryReturnsOK
     DEF CallerStep

LEMMA NextPreserves ==
    ASSUME IInv, [Next]_vars
    PROVE  IInv'
<1>1. Requests \subseteq Tasks /\ Expiries \subseteq Tasks
  BY TasksAssumption
<1>2. CASE \E p \in Requests, t \in Targets, v \in Values :
              \E confirm \in Confirms(t) : Submit(p, t, v, confirm)
  BY <1>1, <1>2, SubmitOK
<1>3. CASE \E p \in Requests : EmergencyStop(p)
  BY <1>1, <1>3, StopsOK
<1>4. CASE \E p \in Expiries, t \in Targets : Expire(p, t)
  BY <1>1, <1>4, ExpireOK
<1>5. CASE \E p \in Tasks : TaskStep(p)
  BY <1>5, DriverStepOK, CallerStepOK DEF TaskStep
<1>6. CASE Reregister
  BY <1>6, ReregisterOK
<1>7. CASE Tick
  BY <1>7, TickOK
<1>8. CASE UNCHANGED vars
  BY <1>8 DEF vars, IInv, TasksOK, MemoryOK, TimersOK, PlacesOK, EnvelopeAtHardware
<1> QED
  BY <1>2, <1>3, <1>4, <1>5, <1>6, <1>7, <1>8 DEF Next

LEMMA Invariance == Spec => []IInv
<1>1. Init => IInv
  BY InitEstablishes
<1>2. IInv /\ [Next]_vars => IInv'
  BY NextPreserves
<1> QED
  BY <1>1, <1>2, PTL DEF Spec

(* The middleware's state keeps its types in every run.                     *)
THEOREM TypeCorrect == Spec => []TypeOK
<1>1. IInv => TypeOK
  BY DEF IInv, TypeOK, TasksOK, RecOK, MemoryOK, TimersOK, Kept
<1> QED
  BY <1>1, Invariance, PTL

(* No interleaving of requests, timers, stops, faults of the link and       *)
(* announcements moves an actuator out of its base bound, except to its     *)
(* declared safe value.                                                     *)
THEOREM Envelope == Spec => []EnvelopeAtHardware
<1>1. IInv => EnvelopeAtHardware
  BY DEF IInv, PlacesOK
<1> QED
  BY <1>1, Invariance, PTL

(* A gated actuator moves only under a confirmed write, its own expired     *)
(* timer or an emergency stop, whatever else is going on.                   *)
THEOREM Gated == Spec => GatedMovesConfirmed
<1> DEFINE Moves(t) == \E p \in Tasks :
                          \/ task[p].pc = "stopping"
                          \/ task[p].pc = "transmit" /\ task[p].target = t
                             /\ (task[p].kind = "expiry" \/ task[p].confirm)
           Step == \A t \in Targets :
                      Actuator[t].requires_confirmation /\ pos'[t] # pos[t] => Moves(t)
<1>1. ASSUME IInv, NEW p \in Tasks, Transmit(p), NEW t \in Targets,
             Actuator[t].requires_confirmation, pos'[t] # pos[t]
      PROVE  Moves(t)
  <2>1. task[p].pc = "transmit" /\ task[p].target = t
    BY <1>1 DEF Transmit, Takes, Misses, Moved, IInv, PlacesOK
  <2>2. Confirmed(task[p].target, task[p].confirm)
    BY <1>1, <2>1, RecOf DEF RecOK
  <2> QED
    BY <1>1, <2>1, <2>2 DEF Confirmed
<1>2. ASSUME NEW p \in Tasks, StopTransmit(p), NEW t \in Targets
      PROVE  Moves(t)
  BY <1>2 DEF StopTransmit, StopWaits
<1>3. ASSUME [Next]_vars
      PROVE  \/ UNCHANGED pos
             \/ \E p \in Tasks : Transmit(p) \/ StopTransmit(p)
  BY <1>3 DEF Next, vars, TaskStep, DriverStep, CallerStep, Submit, EmergencyStop,
              Expire, Reregister, Tick, ReadCondition, CheckPasses, CheckRefuses,
              CheckStops, Acked, VerifyRead, StopDone, EvaluatePasses, EvaluateRefuses,
              EvaluateStops, WriteReturns, WriteRaises, StopReturns, StopRaises,
              ExpiryReturns, ExpiryFallsBack, ExpiryStops, ExpiryGivesUp
<1>4. IInv /\ [Next]_vars => [Step]_vars
  BY <1>1, <1>2, <1>3
<1> QED
  BY <1>4, Invariance, PTL DEF Spec, GatedMovesConfirmed

-----------------------------------------------------------------------------
(* The dead-man timers of a device whose stop does not fail.                *)

StopsWork == Supported /\ "transmit" \notin Faults /\ "ack" \notin Faults

(* One caller at a time.                                                    *)
Alone == \A p, q \in Requests : p = q

(* A device that announces itself once, or has one caller.                  *)
Owned == ~MayReregister \/ Alone

HeldNone == \A t \in Targets : ~Held(t)

(* A request that began under a record which is no longer the registered    *)
(* one.                                                                     *)
Disowned(rec) == rec.kind \in {"write", "stop"} /\ ~rec.registered

(* No stop has failed, and requests are what they say.                      *)
Asked(p, rec) ==
    /\ rec.result # "unstopped"
    /\ rec.kind \in {"write", "stop"} =>
          p \in Requests /\ (~MayReregister => rec.registered)

(* The task brings the actuator home and will be believed.                  *)
Carries(rec, t) == rec.kind = "expiry" /\ rec.target = t /\ rec.registered

(* While a disowned request runs nothing is remembered as held, so it may   *)
(* cancel what it likes; what is held is under a timer of the registered    *)
(* record, or such a timer is being carried out.                            *)
HInv ==
    /\ \A p \in Tasks : Asked(p, task[p])
    /\ \A p \in Tasks : Disowned(task[p]) => HeldNone
    /\ \A t \in Targets : Held(t) /\ timer[t] # None => timer[t].registered
    /\ \A t \in Targets :
          Timed(t) /\ Held(t) => timer[t] # None \/ \E p \in Tasks : Carries(task[p], t)

(* A step that leaves the history and the timers alone: who carries a timer *)
(* out goes on doing so.                                                    *)
LEMMA GuardKept ==
    ASSUME IInv, HInv, NEW p \in Tasks, NEW rec, Asked(p, rec),
           Disowned(rec) => Disowned(task[p]),
           \A t \in Targets : Carries(task[p], t) => Carries(rec, t),
           task' = [task EXCEPT ![p] = rec], UNCHANGED <<lastWrite, timer>>
    PROVE  HInv'
<1>1. DOMAIN task = Tasks /\ task'[p] = rec /\ \A q \in Tasks : q # p => task'[q] = task[q]
  BY DEF IInv, TasksOK
<1>2. \A t \in Targets : Held(t)' <=> Held(t)
  BY DEF Held
<1>3. \A q \in Tasks : Asked(q, task'[q]) /\ (Disowned(task'[q]) => HeldNone)
  BY <1>1 DEF HInv
<1>4. ASSUME NEW t \in Targets, Timed(t), Held(t)
      PROVE  timer[t] # None \/ \E q \in Tasks : Carries(task'[q], t)
  <2>1. CASE timer[t] # None
    BY <2>1
  <2>2. CASE timer[t] = None
    <3>1. PICK q \in Tasks : Carries(task[q], t)
      BY <1>4, <2>2 DEF HInv
    <3>2. Carries(task'[q], t)
      BY <1>1, <3>1
    <3> QED
      BY <3>2
  <2> QED
    BY <2>1, <2>2
<1>5. (\A q \in Tasks : Asked(q, task[q]) /\ (Disowned(task[q]) => HeldNone))'
  BY <1>2, <1>3 DEF Asked, Disowned, HeldNone
<1>6. (\A t \in Targets : Held(t) /\ timer[t] # None => timer[t].registered)'
  BY <1>2 DEF HInv
<1>7. (\A t \in Targets :
          Timed(t) /\ Held(t) => timer[t] # None \/ \E q \in Tasks : Carries(task[q], t))'
  BY <1>2, <1>4 DEF Carries, Timed
<1> QED
  BY <1>5, <1>6, <1>7 DEF HInv

LEMMA IdleAsked ==
    ASSUME NEW p
    PROVE  Asked(p, Idle) /\ ~Disowned(Idle) /\ \A t : ~Carries(Idle, t)
BY OutcomesAssumption DEF Asked, Disowned, Carries, Idle, Outcomes

(* A task other than a timer's is done.                                     *)
LEMMA DoneKept ==
    ASSUME IInv, HInv, NEW p \in Tasks, task[p].kind # "expiry", Finish(p),
           UNCHANGED <<lastWrite, timer>>
    PROVE  HInv'
<1>1. \A t \in Targets : ~Carries(task[p], t)
  BY DEF Carries
<1> QED
  BY <1>1, IdleAsked, GuardKept DEF Finish

(* What a task keeps through a call of the driver.                          *)
SameTask(new, rec) ==
    new.kind = rec.kind /\ new.target = rec.target /\ new.registered = rec.registered

LEMMA ReturnSame ==
    ASSUME NEW rec, DOMAIN rec = Fields, NEW result
    PROVE  SameTask(Return(rec, result), rec) /\ Return(rec, result).result = result
  BY DEF Return, SameTask, Fields

LEMMA CallWriteSame ==
    ASSUME NEW rec, DOMAIN rec = Fields, NEW value, rec.result # "unstopped"
    PROVE  /\ SameTask(CallWrite(rec, value), rec)
           /\ CallWrite(rec, value).result # "unstopped"
  BY DEF CallWrite, StartCheck, Return, SameTask, Fields

LEMMA CallStopSame ==
    ASSUME NEW rec, DOMAIN rec = Fields, NEW raising \in BOOLEAN, StopsWork
    PROVE  /\ SameTask(CallStop(rec, raising), rec)
           /\ CallStop(rec, raising).result # "unstopped"
  BY OutcomesAssumption DEF CallStop, StopsWork, SameTask, Fields, Outcomes

LEMMA SameKept ==
    ASSUME IInv, HInv, NEW p \in Tasks, NEW rec, SameTask(rec, task[p]),
           rec.result # "unstopped", task' = [task EXCEPT ![p] = rec],
           UNCHANGED <<lastWrite, timer>>
    PROVE  HInv'
<1>1. Asked(p, task[p])
  BY DEF HInv
<1>2. Asked(p, rec) /\ (Disowned(rec) => Disowned(task[p]))
  BY <1>1 DEF Asked, Disowned, SameTask
<1>3. \A t \in Targets : Carries(task[p], t) => Carries(rec, t)
  BY DEF Carries, SameTask
<1> QED
  BY <1>2, <1>3, GuardKept

LEMMA DriverKept ==
    ASSUME IInv, HInv, StopsWork, NEW p \in Tasks, DriverStep(p),
           UNCHANGED <<lastWrite, timer>>
    PROVE  HInv'
<1> DEFINE rec == task'[p]
<1>1. DOMAIN task = Tasks /\ DOMAIN task[p] = Fields /\ task[p].result # "unstopped"
  BY RecOf DEF HInv, Asked
<1>2. task' = [task EXCEPT ![p] = rec] /\ SameTask(rec, task[p]) /\ rec.result # "unstopped"
  <2>1. ASSUME NEW c \in Targets, ReadCondition(p, c)
        PROVE  task' = [task EXCEPT ![p] = rec] /\ SameTask(rec, task[p])
               /\ rec.result # "unstopped"
    BY <1>1, <2>1 DEF ReadCondition, SameTask, Fields
  <2>2. CASE CheckPasses(p)
    BY <1>1, <2>2 DEF CheckPasses, SameTask, Fields
  <2>3. CASE CheckRefuses(p)
    BY <1>1, <2>3, ReturnSame DEF CheckRefuses
  <2>4. CASE CheckStops(p)
    BY <1>1, <2>4, CallStopSame DEF CheckStops
  <2>5. CASE Transmit(p)
    <3>1. CASE task' = [task EXCEPT ![p].pc = "acked"]
      BY <1>1, <3>1 DEF SameTask, Fields
    <3>2. CASE task' = [task EXCEPT ![p] = Return(@, "raised")]
      BY <1>1, <3>2, ReturnSame
    <3> QED
      BY <2>5, <3>1, <3>2 DEF Transmit
  <2>6. CASE Acked(p)
    <3>1. CASE task' = [task EXCEPT ![p] = [@ EXCEPT !.pc = "verify", !.polls = Polls]]
      BY <1>1, <3>1 DEF SameTask, Fields
    <3>2. CASE task' = [task EXCEPT ![p] = Return(@, "ok")]
      BY <1>1, <3>2, ReturnSame
    <3> QED
      BY <2>6, <3>1, <3>2 DEF Acked
  <2>7. CASE VerifyRead(p)
    <3>1. CASE task' = [task EXCEPT ![p].polls = @ - 1]
      BY <1>1, <3>1 DEF SameTask, Fields
    <3>2. ASSUME NEW result \in {"ok", "desync", "raised"},
                 task' = [task EXCEPT ![p] = Return(@, result)]
          PROVE  task' = [task EXCEPT ![p] = rec] /\ SameTask(rec, task[p])
                 /\ rec.result # "unstopped"
      BY <1>1, <3>2, ReturnSame
    <3> QED
      BY <2>7, <3>1, <3>2 DEF VerifyRead
  <2>8. CASE StopTransmit(p)
    <3>1. task' = [task EXCEPT ![p].queue = Tail(@)]
      BY <2>8 DEF StopTransmit, Misses, StopsWork
    <3> QED
      BY <1>1, <3>1 DEF SameTask, Fields
  <2>9. CASE StopDone(p)
    BY <1>1, <2>9, ReturnSame DEF StopDone
  <2> QED
    BY <2>1, <2>2, <2>3, <2>4, <2>5, <2>6, <2>7, <2>8, <2>9 DEF DriverStep
<1> HIDE DEF rec
<1> QED
  BY <1>2, SameKept

(* A write that was accepted arms its timer, or is the default; one that    *)
(* was disowned leaves the history alone, in which nothing is held.         *)
LEMMA WriteKept ==
    ASSUME IInv, HInv, Owned, NEW p \in Tasks, WriteReturns(p)
    PROVE  HInv'
<1> DEFINE t == task[p].target
           v == task[p].want
           new == [left |-> Limit[t].max_duration, registered |-> task[p].registered]
<1>1. /\ DOMAIN task = Tasks /\ t \in Targets /\ task[p].kind = "write"
      /\ DOMAIN lastWrite = Targets /\ DOMAIN timer = Targets
      /\ task[p].registered \in BOOLEAN /\ Asked(p, task[p])
  BY RecOf DEF WriteReturns, RecOK, HInv, IInv, MemoryOK, TimersOK
<1>2. /\ Remember(task[p], t, v)
      /\ timer' = [timer EXCEPT ![t] =
            IF Limit[t].max_duration = None \/ v = Actuator[t].default THEN None ELSE new]
      /\ task' = [task EXCEPT ![p] = Idle]
  BY DEF WriteReturns, Arm, Finish
<1>3. ASSUME NEW q \in Tasks
      PROVE  /\ Asked(q, task'[q])
             /\ Disowned(task'[q]) => q # p /\ Disowned(task[q])
             /\ \A u \in Targets : Carries(task[q], u) => Carries(task'[q], u)
  <2>1. CASE q = p
    <3>1. \A u \in Targets : ~Carries(task[p], u)
      BY <1>1 DEF Carries
    <3> QED
      BY <1>1, <1>2, <2>1, <3>1, IdleAsked
  <2>2. CASE q # p
    BY <1>1, <1>2, <2>2 DEF HInv
  <2> QED
    BY <2>1, <2>2
<1>4. CASE ~task[p].registered
  <2>1. HeldNone /\ lastWrite' = lastWrite
    BY <1>1, <1>2, <1>4 DEF HInv, Disowned, Remember
  <2>2. \A u \in Targets : ~Held(u)'
    BY <2>1 DEF HeldNone, Held
  <2> QED
    BY <1>3, <2>2 DEF HInv, HeldNone, Asked
<1>5. CASE task[p].registered
  <2>1. lastWrite' = [lastWrite EXCEPT ![t] = [value |-> v, age |-> 0]]
    BY <1>2, <1>5 DEF Remember
  <2>2. \A q \in Tasks : ~Disowned(task'[q])
    <3> SUFFICES ASSUME NEW q \in Tasks, q # p, Disowned(task[q]) PROVE FALSE
      BY <1>3
    <3>1. q \in Requests /\ ~task[q].registered /\ MayReregister
      BY ReregisterAssumption DEF HInv, Asked, Disowned
    <3>2. p \in Requests
      BY <1>1 DEF Asked
    <3> QED
      BY <3>1, <3>2 DEF Owned, Alone
  <2>3. ASSUME Timed(t), v # Actuator[t].default
        PROVE  timer'[t] # None
    <3>1. timer'[t] = new
      BY <1>1, <1>2, <2>3 DEF Timed
    <3>2. Limit[t].max_duration \in Nat
      BY <1>1, <2>3, TagFacts DEF Timed
    <3>3. new \in [left : Nat, registered : BOOLEAN]
      BY <1>1, <3>2
    <3> HIDE DEF new
    <3> QED
      BY <3>1, <3>3, NoTimerAssumption
  <2>4. timer'[t] # None => timer'[t].registered
    BY <1>1, <1>2, <1>5
  <2>5. \A u \in Targets : u = t /\ Held(u)' => v # Actuator[t].default
    BY <1>1, <2>1 DEF Held
  <2> HIDE DEF t, v, new
  <2>6. ASSUME NEW u \in Targets, u # t
        PROVE  timer'[u] = timer[u] /\ (Held(u)' => Held(u))
    BY <1>1, <1>2, <2>1, <2>6 DEF Held
  <2>7. ASSUME NEW u \in Targets, Held(u)', timer'[u] # None PROVE timer'[u].registered
    BY <2>4, <2>6, <2>7 DEF HInv
  <2>8. ASSUME NEW u \in Targets, Timed(u), Held(u)'
        PROVE  timer'[u] # None \/ \E q \in Tasks : Carries(task'[q], u)
    <3>1. CASE u = t
      BY <2>3, <2>5, <2>8, <3>1
    <3>2. CASE u # t
      <4>1. timer[u] # None \/ \E q \in Tasks : Carries(task[q], u)
        BY <2>6, <2>8, <3>2 DEF HInv
      <4> QED
        BY <1>3, <2>6, <3>2, <4>1, Zenon
    <3> QED
      BY <3>1, <3>2
  <2>9. (\A q \in Tasks : Asked(q, task[q]) /\ ~Disowned(task[q]))'
    BY <1>3, <2>2 DEF Asked, Disowned
  <2>10. (\A u \in Targets :
            Timed(u) /\ Held(u) => timer[u] # None \/ \E q \in Tasks : Carries(task[q], u))'
    BY <2>8 DEF Carries, Timed
  <2> QED
    BY <2>7, <2>9, <2>10 DEF HInv
<1> QED
  BY <1>1, <1>4, <1>5

(* Nothing is held once the history is cleared; a stop that cannot clear it *)
(* was disowned.                                                            *)
LEMMA StopKept ==
    ASSUME IInv, HInv, NEW p \in Tasks, StopReturns(p)
    PROVE  HInv'
<1>1. /\ DOMAIN task = Tasks /\ task[p].kind \in {"write", "stop"}
      /\ task' = [task EXCEPT ![p] = Idle] /\ ForgetAll(task[p])
  BY RecOf DEF StopReturns, Finish
<1>2. \A t \in Targets : ~Held(t)'
  <2>1. CASE task[p].registered
    BY <1>1, <2>1 DEF ForgetAll, Held
  <2>2. CASE ~task[p].registered
    BY <1>1, <2>2 DEF ForgetAll, Held, HInv, HeldNone, Disowned
  <2> QED
    BY <2>1, <2>2
<1>3. \A q \in Tasks : Asked(q, task'[q])
  BY <1>1, IdleAsked DEF HInv
<1> QED
  BY <1>2, <1>3 DEF HInv, HeldNone, Asked

(* The timer leaves the table as its task begins.                           *)
LEMMA ExpireKept ==
    ASSUME IInv, HInv, StopsWork, NEW p \in Expiries, NEW t \in Targets, Expire(p, t)
    PROVE  HInv'
<1> DEFINE rec == [Idle EXCEPT !.kind = "expiry", !.target = t, !.confirm = TRUE,
                               !.registered = timer[t].registered]
           call == IF Actuator[t].default # None
                   THEN CallWrite(rec, Actuator[t].default)
                   ELSE CallStop(rec, FALSE)
<1>1. /\ p \in Tasks /\ DOMAIN task = Tasks /\ DOMAIN timer = Targets
      /\ task[p] = Idle /\ timer[t] # None
  BY RecOf, TasksAssumption DEF Expire, IInv, TimersOK
<1>2. /\ task' = [task EXCEPT ![p] = call]
      /\ timer' = [timer EXCEPT ![t] = None] /\ lastWrite' = lastWrite
  BY DEF Expire
<1>3. /\ DOMAIN rec = Fields /\ rec.kind = "expiry" /\ rec.target = t
      /\ rec.registered = timer[t].registered /\ rec.result # "unstopped"
  BY <1>1, OutcomesAssumption DEF Idle, Fields, Outcomes
<1> HIDE DEF rec
<1>4. /\ call.kind = "expiry" /\ call.target = t
      /\ call.registered = timer[t].registered /\ call.result # "unstopped"
  <2>1. SameTask(call, rec) /\ call.result # "unstopped"
    BY <1>3, CallWriteSame, CallStopSame
  <2> HIDE DEF call
  <2> QED
    BY <1>3, <2>1 DEF SameTask
<1> HIDE DEF call
<1>5. Asked(p, call) /\ ~Disowned(call) /\ (timer[t].registered => Carries(call, t))
  BY <1>4 DEF Asked, Disowned, Carries
<1>6. \A q \in Tasks : Asked(q, task'[q]) /\ (Disowned(task'[q]) => HeldNone)
  BY <1>1, <1>2, <1>5 DEF HInv
<1>7. \A u \in Targets : Held(u)' <=> Held(u)
  BY <1>2 DEF Held
<1>8. ASSUME NEW u \in Targets, Timed(u), Held(u)
      PROVE  timer'[u] # None \/ \E q \in Tasks : Carries(task'[q], u)
  <2>1. CASE u = t
    <3>1. Carries(call, t) /\ task'[p] = call
      BY <1>1, <1>2, <1>5, <1>8, <2>1 DEF HInv
    <3> QED
      BY <1>1, <2>1, <3>1
  <2>2. CASE u # t
    <3>1. timer'[u] = timer[u]
      BY <1>1, <1>2, <2>2
    <3>2. ASSUME NEW q \in Tasks, Carries(task[q], u) PROVE Carries(task'[q], u)
      <4>1. q # p
        BY <1>1, <3>2, IdleAsked
      <4> QED
        BY <1>1, <1>2, <3>2, <4>1
    <3> QED
      BY <1>8, <3>1, <3>2 DEF HInv
  <2> QED
    BY <2>1, <2>2
<1>9. \A u \in Targets : Held(u) /\ timer'[u] # None => timer'[u].registered
  BY <1>1, <1>2 DEF HInv
<1>10. (\A q \in Tasks : Asked(q, task[q]) /\ (Disowned(task[q]) => HeldNone))'
  BY <1>6, <1>7 DEF Asked, Disowned, HeldNone
<1>11. (\A u \in Targets :
          Timed(u) /\ Held(u) => timer[u] # None \/ \E q \in Tasks : Carries(task[q], u))'
  BY <1>7, <1>8 DEF Carries, Timed
<1> QED
  BY <1>7, <1>9, <1>10, <1>11 DEF HInv

(* Its task ends when the default is remembered, or the history cleared.    *)
LEMMA ExpiryKept ==
    ASSUME IInv, HInv, NEW p \in Tasks, ExpiryReturns(p) \/ ExpiryStops(p)
    PROVE  HInv'
<1> DEFINE t == task[p].target
<1>1. /\ DOMAIN task = Tasks /\ t \in Targets /\ task[p].kind = "expiry"
      /\ DOMAIN lastWrite = Targets
      /\ task' = [task EXCEPT ![p] = Idle] /\ timer' = timer
  BY RecOf DEF ExpiryReturns, ExpiryStops, RecOK, IInv, MemoryOK, Finish
<1>2. \/ task[p].registered
         /\ lastWrite' = [lastWrite EXCEPT ![t] =
                             [value |-> Actuator[t].default, age |-> 0]]
      \/ task[p].registered /\ lastWrite' = [u \in Targets |-> None]
      \/ ~task[p].registered /\ lastWrite' = lastWrite
  BY DEF ExpiryReturns, ExpiryStops, Remember, ForgetAll
<1>3. \A q \in Tasks : Asked(q, task'[q]) /\ (Disowned(task'[q]) => Disowned(task[q]))
  BY <1>1, IdleAsked DEF HInv
<1> HIDE DEF t
<1>4. ASSUME NEW u \in Targets, Held(u)'
      PROVE  Held(u) /\ ~Carries(task[p], u)
  BY <1>1, <1>2, <1>4 DEF Held, Carries, t
<1>5. ASSUME NEW u \in Targets, Timed(u), Held(u)'
      PROVE  timer'[u] # None \/ \E q \in Tasks : Carries(task'[q], u)
  <2>1. timer[u] # None \/ \E q \in Tasks : Carries(task[q], u)
    BY <1>4, <1>5 DEF HInv
  <2>2. ASSUME NEW q \in Tasks, Carries(task[q], u) PROVE Carries(task'[q], u)
    <3>1. q # p
      BY <1>4, <1>5, <2>2
    <3> QED
      BY <1>1, <2>2, <3>1
  <2> QED
    BY <1>1, <2>1, <2>2
<1>6. \A u \in Targets : Held(u)' /\ timer'[u] # None => timer'[u].registered
  BY <1>1, <1>4 DEF HInv
<1>7. (\A q \in Tasks : Asked(q, task[q]) /\ (Disowned(task[q]) => HeldNone))'
  <2>1. ASSUME NEW q \in Tasks, Disowned(task'[q]) PROVE \A u \in Targets : ~Held(u)'
    BY <1>3, <1>4, <2>1 DEF HInv, HeldNone
  <2> QED
    BY <1>3, <2>1 DEF Asked, Disowned, HeldNone
<1>8. (\A u \in Targets :
          Timed(u) /\ Held(u) => timer[u] # None \/ \E q \in Tasks : Carries(task[q], u))'
  BY <1>5 DEF Carries, Timed
<1> QED
  BY <1>6, <1>7, <1>8 DEF HInv

LEMMA CallerKept ==
    ASSUME IInv, HInv, StopsWork, Owned, NEW p \in Tasks, CallerStep(p)
    PROVE  HInv'
<1>1. DOMAIN task[p] = Fields /\ task[p].result # "unstopped" /\ RecOK(task[p])
  BY RecOf DEF HInv, Asked
<1>2. CASE EvaluatePasses(p)
  <2> DEFINE rec == CallWrite(task[p], Evaluated(p, task[p].asked).value)
  <2>1. SameTask(rec, task[p]) /\ rec.result # "unstopped"
    BY <1>1, CallWriteSame
  <2> HIDE DEF rec
  <2>2. task' = [task EXCEPT ![p] = rec] /\ UNCHANGED <<lastWrite, timer>>
    BY <1>2 DEF EvaluatePasses, rec
  <2> QED
    BY <2>1, <2>2, SameKept
<1>3. CASE EvaluateStops(p) \/ ExpiryFallsBack(p)
  <2> DEFINE rec == CallStop(task[p], FALSE)
  <2>1. SameTask(rec, task[p]) /\ rec.result # "unstopped"
    BY <1>1, CallStopSame
  <2> HIDE DEF rec
  <2>2. task' = [task EXCEPT ![p] = rec] /\ UNCHANGED <<lastWrite, timer>>
    BY <1>3 DEF EvaluateStops, ExpiryFallsBack, rec
  <2> QED
    BY <2>1, <2>2, SameKept
<1>4. CASE EvaluateRefuses(p)
  <2>1. task[p].kind # "expiry"
    BY <1>1, <1>4 DEF EvaluateRefuses, ReadyToEvaluate, RecOK
  <2> QED
    BY <1>4, <2>1, DoneKept DEF EvaluateRefuses
<1>5. CASE WriteRaises(p)
  BY <1>5, DoneKept DEF WriteRaises
<1>6. ~StopRaises(p) /\ ~ExpiryGivesUp(p)
  BY <1>1 DEF StopRaises, ExpiryGivesUp
<1> QED
  BY <1>2, <1>3, <1>4, <1>5, <1>6, WriteKept, StopKept, ExpiryKept DEF CallerStep

LEMMA AskKept ==
    ASSUME IInv, HInv, StopsWork, NEW p \in Requests,
           \/ EmergencyStop(p)
           \/ \E t \in Targets, v \in Values, confirm \in BOOLEAN : Submit(p, t, v, confirm)
    PROVE  HInv'
<1>1. DOMAIN Idle = Fields /\ Idle.result # "unstopped" /\ p \in Tasks
  BY OutcomesAssumption, TasksAssumption DEF Idle, Fields, Outcomes
<1>2. CASE EmergencyStop(p)
  <2> DEFINE rec == [Idle EXCEPT !.kind = "stop", !.registered = TRUE]
             call == CallStop(rec, FALSE)
  <2>1. DOMAIN rec = Fields /\ rec.registered = TRUE
    BY <1>1 DEF Fields
  <2> HIDE DEF rec
  <2>2. Asked(p, call) /\ ~Disowned(call)
    BY <2>1, CallStopSame DEF Asked, Disowned, SameTask
  <2>3. task[p] = Idle /\ task' = [task EXCEPT ![p] = call] /\ UNCHANGED <<lastWrite, timer>>
    BY <1>2 DEF EmergencyStop, rec
  <2> HIDE DEF call
  <2> QED
    BY <1>1, <2>2, <2>3, IdleAsked, GuardKept
<1>3. ASSUME NEW t \in Targets, NEW v \in Values, NEW confirm \in BOOLEAN,
             Submit(p, t, v, confirm)
      PROVE  HInv'
  <2> DEFINE rec == [Idle EXCEPT !.kind = "write", !.target = t, !.asked = v,
                                 !.confirm = confirm, !.registered = TRUE]
             call == StartCheck(rec, "evaluate", lastWrite[t])
  <2>1. DOMAIN rec = Fields /\ rec.registered = TRUE /\ rec.result # "unstopped"
    BY <1>1 DEF Fields
  <2> HIDE DEF rec
  <2>2. Asked(p, call) /\ ~Disowned(call)
    BY <2>1 DEF Asked, Disowned, StartCheck, Fields
  <2>3. task[p] = Idle /\ task' = [task EXCEPT ![p] = call] /\ UNCHANGED <<lastWrite, timer>>
    BY <1>3 DEF Submit, rec
  <2> HIDE DEF call
  <2> QED
    BY <1>1, <2>2, <2>3, IdleAsked, GuardKept
<1> QED
  BY <1>2, <1>3

(* A new record has an empty history.                                       *)
LEMMA ReregisterKept ==
    ASSUME IInv, HInv, Reregister
    PROVE  HInv'
<1>1. \A t \in Targets : ~Held(t)'
  BY DEF Reregister, Held
<1>2. ASSUME NEW q \in Tasks PROVE Asked(q, task'[q])
  <2>1. task'[q] = [task[q] EXCEPT !.registered = FALSE] /\ MayReregister
    BY DEF Reregister
  <2>2. DOMAIN task[q] = Fields /\ Asked(q, task[q])
    BY RecOf DEF HInv
  <2> QED
    BY <2>1, <2>2 DEF Asked, Fields
<1> QED
  BY <1>1, <1>2 DEF HInv, HeldNone, Asked

LEMMA TickKept ==
    ASSUME IInv, HInv, Tick
    PROVE  HInv'
<1>1. /\ \A t \in Targets : lastWrite'[t] = Older(lastWrite[t])
      /\ \A t \in Targets :
            timer'[t] = IF timer[t] = None THEN None
                        ELSE [timer[t] EXCEPT !.left = IF @ > 0 THEN @ - 1 ELSE 0]
      /\ UNCHANGED task
  BY DEF Tick
<1>2. ASSUME NEW t \in Targets, timer[t] # None
      PROVE  timer'[t] # None /\ timer'[t].registered = timer[t].registered
  <2>1. timer[t] \in [left : Nat, registered : BOOLEAN]
    BY <1>2 DEF IInv, TimersOK
  <2>2. timer'[t] \in [left : Nat, registered : BOOLEAN]
    <3>1. (IF timer[t].left > 0 THEN timer[t].left - 1 ELSE 0) \in Nat
      BY <2>1
    <3>2. timer'[t] = [timer[t] EXCEPT !.left = IF timer[t].left > 0
                                                THEN timer[t].left - 1 ELSE 0]
      BY <1>1, <1>2
    <3> QED
      BY <2>1, <3>1, <3>2
  <2> QED
    BY <1>1, <1>2, <2>1, <2>2, NoTimerAssumption
<1>3. ASSUME NEW t \in Targets, Held(t)' PROVE Held(t)
  <2>1. lastWrite[t] # None
    BY <1>1, <1>3 DEF Held, Older
  <2>2. lastWrite[t] \in Write
    BY <2>1 DEF IInv, MemoryOK, Kept
  <2>3. lastWrite'[t].value = lastWrite[t].value
    BY <1>1, <2>1, <2>2 DEF Older, Write
  <2> QED
    BY <1>3, <2>1, <2>3 DEF Held
<1>4. \A q \in Tasks : Asked(q, task[q])'
  BY <1>1 DEF HInv, Asked
<1>5. \A q \in Tasks : Disowned(task[q])' => HeldNone'
  BY <1>1, <1>3 DEF HInv, Disowned, HeldNone
<1>6. \A t \in Targets : Held(t)' /\ timer'[t] # None => timer'[t].registered
  BY <1>1, <1>2, <1>3 DEF HInv
<1>7. ASSUME NEW t \in Targets, Timed(t), Held(t)'
      PROVE  timer'[t] # None \/ \E q \in Tasks : Carries(task[q], t)
  BY <1>2, <1>3, <1>7 DEF HInv
<1>8. (\A t \in Targets :
          Timed(t) /\ Held(t) => timer[t] # None \/ \E q \in Tasks : Carries(task[q], t))'
  BY <1>1, <1>7 DEF Carries, Timed
<1> QED
  BY <1>4, <1>5, <1>6, <1>8 DEF HInv

LEMMA NextKept ==
    ASSUME IInv, HInv, StopsWork, Owned, [Next]_vars
    PROVE  HInv'
<1>1. CASE \E p \in Requests, t \in Targets, v \in Values :
              \E confirm \in Confirms(t) : Submit(p, t, v, confirm)
  BY <1>1, AskKept DEF Confirms
<1>2. CASE \E p \in Requests : EmergencyStop(p)
  BY <1>2, AskKept
<1>3. CASE \E p \in Expiries, t \in Targets : Expire(p, t)
  BY <1>3, ExpireKept
<1>4. CASE \E p \in Tasks : TaskStep(p)
  BY <1>4, DriverKept, CallerKept DEF TaskStep
<1>5. CASE Reregister
  BY <1>5, ReregisterKept
<1>6. CASE Tick
  BY <1>6, TickKept
<1>7. CASE UNCHANGED vars
  BY <1>7 DEF vars, HInv, Asked, Disowned, HeldNone, Held, Carries, Timed
<1> QED
  BY <1>1, <1>2, <1>3, <1>4, <1>5, <1>6, <1>7 DEF Next

(* What the middleware remembers as held away from its default is under a   *)
(* dead-man timer or being brought back, for any number of timers - on a    *)
(* device whose stop does not fail, and that announces itself once or has   *)
(* one caller at a time.  Without those it does not hold: a timer whose     *)
(* default and whose stop both failed is gone, and a request begun under an *)
(* old record cancels the timer that another one armed under the new        *)
(* (rpc.py:244-245, watchdog.py:35-96).                                     *)
THEOREM Timers ==
    ASSUME StopsWork, Owned
    PROVE  Spec => []HeldIsTimed
<1>1. Init => HInv
  BY IdleAsked DEF Init, DeviceInit, HInv, Held
<1>2. IInv /\ HInv /\ [Next]_vars => HInv'
  BY NextKept
<1>3. HInv => HeldIsTimed
  BY DEF HInv, HeldIsTimed, Guarded, Expiring, Carries
<1> QED
  BY <1>1, <1>2, <1>3, Invariance, PTL DEF Spec

-----------------------------------------------------------------------------
(* What is reported of a write: a tag with which the driver sends what the  *)
(* middleware called it with.                                               *)

(* The driver's own check moves nothing that the middleware has let through: *)
(* the write is not relative, and a limit that clamps is the same whenever  *)
(* it is looked at.                                                         *)
ChecksAlike(t) ==
    /\ Actuator[t].write_mode # "relative"
    /\ Limit[t].on_violation = "clamp" =>
          Limit[t].conditions = << >> /\ Limit[t].max_rate = None

LEMMA PassesAsAsked ==
    ASSUME NEW t \in Targets, ChecksAlike(t), NEW value, InBounds(Limit[t], value),
           NEW current, NEW elapsed, NEW seen,
           Passes(CheckScalar(Actuator[t], Limit[t], value, current, elapsed, seen))
    PROVE  CheckScalar(Actuator[t], Limit[t], value, current, elapsed, seen).value = value
<1> DEFINE d == CheckScalar(Actuator[t], Limit[t], value, current, elapsed, seen)
           r == CheckRange(Limit[t], value, seen)
           b == EffectiveBounds(Limit[t], seen)
<1>1. Resolve(Actuator[t], value, current) = value /\ Resolvable(Actuator[t], Limit[t], current)
  BY DEF ChecksAlike, Resolve, Resolvable
<1>2. CASE Limit[t].allowed # None
  <2>1. d = CheckDiscrete(Limit[t], value)
    BY <1>1, <1>2 DEF CheckScalar
  <2> QED
    BY <2>1 DEF CheckDiscrete, Refusal, Decide, Passes
<1>3. CASE Limit[t].allowed = None
  <2>1. d = CheckRate(Limit[t], r, current, elapsed)
    BY <1>1, <1>3 DEF CheckScalar
  <2>2. r = CheckBounded(Limit[t], value, Clip(value, b.low, b.high))
    BY DEF CheckRange
  <2>3. CASE Limit[t].on_violation # "clamp"
    <3>1. d = r /\ Passes(r)
      BY <2>1, <2>3 DEF CheckRate, Refusal, Decide, Passes
    <3> QED
      BY <2>2, <2>3, <3>1 DEF CheckBounded, Refusal, Decide, Passes
  <2>4. CASE Limit[t].on_violation = "clamp"
    <3>1. Limit[t].conditions = << >> /\ Limit[t].max_rate = None
      BY <2>4 DEF ChecksAlike
    <3>2. Matching(Limit[t], seen) = {}
      BY <3>1 DEF Matching
    <3>3. b.low = Limit[t].min /\ b.high = Limit[t].max
      BY <3>2 DEF EffectiveBounds
    <3>9. Limit[t].min \in Int /\ Limit[t].max \in Int /\ Limit[t].min < Limit[t].max
      BY <1>3, TagFacts DEF WellFormed
    <3>4. Limit[t].min \in Int /\ Limit[t].max \in Int /\ Limit[t].min <= Limit[t].max
      BY <3>9
    <3>5. value \in Int /\ Limit[t].min <= value /\ value <= Limit[t].max
      BY <1>3 DEF InBounds
    <3>6. Clip(value, Limit[t].min, Limit[t].max) = value
      BY <3>4, <3>5, ClipInterval
    <3>7. r = Decide("accept", value)
      BY <2>2, <3>3, <3>6 DEF CheckBounded
    <3>8. d = r
      BY <2>1, <3>1 DEF CheckRate, RateApplies
    <3> QED
      BY <3>7, <3>8 DEF Decide
  <2> QED
    BY <2>3, <2>4
<1> QED
  BY <1>2, <1>3

(* The device has taken what the task sent, and the task has not been told  *)
(* of a failure.                                                            *)
Sent(rec) ==
    rec.pc \in {"acked", "verify"} \/ (rec.pc = "returned" /\ rec.result = "ok")

AsWanted(rec) ==
    /\ rec.pc = "transmit" \/ Sent(rec) => rec.sent = rec.want
    /\ rec.pc = "verify" => Actuator[rec.target].feedback

WInv == \A p \in Tasks : AsWanted(task[p])

LEMMA IdleWanted == AsWanted(Idle)
BY DEF AsWanted, Sent, Idle

LEMMA ReturnWanted ==
    ASSUME NEW rec, DOMAIN rec = Fields, NEW result,
           result = "ok" => rec.sent = rec.want
    PROVE  AsWanted(Return(rec, result))
BY DEF AsWanted, Sent, Return, Fields

LEMMA StartCheckWanted ==
    ASSUME NEW rec, DOMAIN rec = Fields, NEW pc \in {"evaluate", "check"}, NEW write
    PROVE  AsWanted(StartCheck(rec, pc, write))
BY DEF AsWanted, Sent, StartCheck, Fields

LEMMA CallWriteWanted ==
    ASSUME NEW rec, DOMAIN rec = Fields, NEW value
    PROVE  AsWanted(CallWrite(rec, value))
<1> DEFINE r == [rec EXCEPT !.want = value]
<1>1. DOMAIN r = Fields
  BY DEF Fields
<1> HIDE DEF r
<1>2. AsWanted(StartCheck(r, "check", drvLast[rec.target]))
  BY <1>1, StartCheckWanted
<1>3. AsWanted(Return(r, "raised"))
  BY <1>1, ReturnWanted
<1> QED
  BY <1>2, <1>3 DEF CallWrite, r

LEMMA CallStopWanted ==
    ASSUME NEW rec, DOMAIN rec = Fields, NEW raising \in BOOLEAN
    PROVE  AsWanted(CallStop(rec, raising))
<1>1. AsWanted(Return(rec, IF raising THEN "raised" ELSE "unstopped"))
  BY ReturnWanted
<1>2. AsWanted([rec EXCEPT !.pc = "stopping", !.queue = SafeOrder, !.raising = raising,
                           !.result = None])
  BY DEF AsWanted, Sent, Fields
<1> QED
  BY <1>1, <1>2 DEF CallStop

LEMMA OneWanted ==
    ASSUME IInv, WInv, NEW p \in Tasks, NEW rec, AsWanted(rec),
           task' = [task EXCEPT ![p] = rec]
    PROVE  WInv'
<1>1. DOMAIN task = Tasks
  BY DEF IInv, TasksOK
<1> QED
  BY <1>1 DEF WInv, AsWanted, Sent

LEMMA DriverWanted ==
    ASSUME IInv, WInv, \A t \in Targets : ChecksAlike(t), NEW p \in Tasks, DriverStep(p)
    PROVE  WInv'
<1> DEFINE rec == task'[p]
<1>1. DOMAIN task = Tasks /\ DOMAIN task[p] = Fields /\ AsWanted(task[p]) /\ RecOK(task[p])
  BY RecOf DEF WInv
<1>2. task' = [task EXCEPT ![p] = rec] /\ AsWanted(rec)
  <2>1. ASSUME NEW c \in Targets, ReadCondition(p, c)
        PROVE  task' = [task EXCEPT ![p] = rec] /\ AsWanted(rec)
    BY <1>1, <2>1 DEF ReadCondition, AsWanted, Sent, Fields
  <2>2. CASE CheckPasses(p)
    <3> DEFINE d == Evaluated(p, task[p].want)
    <3>1. /\ task[p].pc = "check" /\ Passes(d)
          /\ task' = [task EXCEPT ![p].pc = "transmit", ![p].sent = d.value]
      BY <2>2 DEF CheckPasses, ReadyToCheck
    <3>2. task[p].target \in Targets /\ InBounds(Limit[task[p].target], task[p].want)
      BY <1>1, <3>1 DEF RecOK, WantOK, Driving
    <3>3. d.value = task[p].want
      BY <3>1, <3>2, PassesAsAsked DEF Evaluated
    <3> HIDE DEF d
    <3> QED
      BY <1>1, <3>1, <3>3 DEF AsWanted, Sent, Fields
  <2>3. CASE CheckRefuses(p)
    BY <1>1, <2>3, ReturnWanted DEF CheckRefuses
  <2>4. CASE CheckStops(p)
    BY <1>1, <2>4, CallStopWanted DEF CheckStops
  <2>5. CASE Transmit(p)
    <3>1. CASE task' = [task EXCEPT ![p].pc = "acked"]
      <4>1. task[p].sent = task[p].want
        BY <1>1, <2>5 DEF Transmit, AsWanted
      <4> QED
        BY <1>1, <3>1, <4>1 DEF AsWanted, Sent, Fields
    <3>2. CASE task' = [task EXCEPT ![p] = Return(@, "raised")]
      BY <1>1, <3>2, ReturnWanted
    <3> QED
      BY <2>5, <3>1, <3>2 DEF Transmit
  <2>6. CASE Acked(p)
    <3>1. task[p].sent = task[p].want
      BY <1>1, <2>6 DEF Acked, AsWanted, Sent
    <3>2. CASE Actuator[task[p].target].feedback
      <4>1. task' = [task EXCEPT ![p] = [@ EXCEPT !.pc = "verify", !.polls = Polls]]
        BY <2>6, <3>2 DEF Acked
      <4> QED
        BY <1>1, <3>1, <3>2, <4>1 DEF AsWanted, Sent, Fields
    <3>3. CASE ~Actuator[task[p].target].feedback
      <4>1. task' = [task EXCEPT ![p] = Return(@, "ok")]
        BY <2>6, <3>3 DEF Acked
      <4> QED
        BY <1>1, <3>1, <4>1, ReturnWanted
    <3> QED
      BY <3>2, <3>3
  <2>7. CASE VerifyRead(p)
    <3>1. task[p].sent = task[p].want /\ task[p].pc = "verify"
      BY <1>1, <2>7 DEF VerifyRead, AsWanted, Sent
    <3>2. CASE task' = [task EXCEPT ![p].polls = @ - 1]
      BY <1>1, <3>1, <3>2 DEF AsWanted, Sent, Fields
    <3>3. ASSUME NEW result \in {"ok", "desync", "raised"},
                 task' = [task EXCEPT ![p] = Return(@, result)]
          PROVE  task' = [task EXCEPT ![p] = rec] /\ AsWanted(rec)
      BY <1>1, <3>1, <3>3, ReturnWanted
    <3> QED
      BY <2>7, <3>2, <3>3 DEF VerifyRead
  <2>8. CASE StopTransmit(p)
    <3>1. CASE task' = [task EXCEPT ![p].queue = Tail(@)]
      BY <1>1, <2>8, <3>1 DEF StopTransmit, StopWaits, AsWanted, Sent, Fields
    <3>2. ASSUME NEW result \in {"raised", "unstopped"},
                 task' = [task EXCEPT ![p] = Return(@, result)]
          PROVE  task' = [task EXCEPT ![p] = rec] /\ AsWanted(rec)
      BY <1>1, <3>2, ReturnWanted
    <3> QED
      BY <2>8, <3>1, <3>2 DEF StopTransmit
  <2>9. CASE StopDone(p)
    <3>1. ASSUME NEW result \in {"raised", "stopped"},
                 task' = [task EXCEPT ![p] = Return(@, result)]
          PROVE  task' = [task EXCEPT ![p] = rec] /\ AsWanted(rec)
      BY <1>1, <3>1, ReturnWanted
    <3> QED
      BY <2>9, <3>1 DEF StopDone
  <2> QED
    BY <2>1, <2>2, <2>3, <2>4, <2>5, <2>6, <2>7, <2>8, <2>9 DEF DriverStep
<1> HIDE DEF rec
<1> QED
  BY <1>2, OneWanted

LEMMA CallerWanted ==
    ASSUME IInv, WInv, NEW p \in Tasks, CallerStep(p)
    PROVE  WInv'
<1>1. DOMAIN task[p] = Fields
  BY RecOf
<1>2. CASE EvaluatePasses(p)
  BY <1>1, <1>2, CallWriteWanted, OneWanted DEF EvaluatePasses
<1>3. CASE EvaluateStops(p) \/ ExpiryFallsBack(p)
  BY <1>1, <1>3, CallStopWanted, OneWanted DEF EvaluateStops, ExpiryFallsBack
<1>4. CASE Finish(p)
  BY <1>4, IdleWanted, OneWanted DEF Finish
<1> QED
  BY <1>2, <1>3, <1>4 DEF CallerStep, EvaluateRefuses, WriteReturns, WriteRaises,
     StopReturns, StopRaises, ExpiryReturns, ExpiryStops, ExpiryGivesUp

LEMMA BeginWanted ==
    ASSUME IInv, WInv, NEW p \in Tasks,
           \/ EmergencyStop(p)
           \/ \E t \in Targets : Expire(p, t)
           \/ \E t \in Targets, v \in Values, confirm \in BOOLEAN : Submit(p, t, v, confirm)
    PROVE  WInv'
<1>1. DOMAIN Idle = Fields
  BY DEF Idle, Fields
<1>2. CASE EmergencyStop(p)
  <2> DEFINE rec == [Idle EXCEPT !.kind = "stop", !.registered = TRUE]
  <2>1. DOMAIN rec = Fields
    BY <1>1
  <2>2. task' = [task EXCEPT ![p] = CallStop(rec, FALSE)]
    BY <1>2 DEF EmergencyStop
  <2> HIDE DEF rec
  <2> QED
    BY <2>1, <2>2, CallStopWanted, OneWanted
<1>3. ASSUME NEW t \in Targets, Expire(p, t) PROVE WInv'
  <2> DEFINE rec == [Idle EXCEPT !.kind = "expiry", !.target = t, !.confirm = TRUE,
                                 !.registered = timer[t].registered]
             call == IF Actuator[t].default # None
                     THEN CallWrite(rec, Actuator[t].default)
                     ELSE CallStop(rec, FALSE)
  <2>1. DOMAIN rec = Fields
    BY <1>1
  <2>2. task' = [task EXCEPT ![p] = call]
    BY <1>3 DEF Expire
  <2> HIDE DEF rec
  <2>3. AsWanted(call)
    BY <2>1, CallWriteWanted, CallStopWanted
  <2> HIDE DEF call
  <2> QED
    BY <2>2, <2>3, OneWanted
<1>4. ASSUME NEW t \in Targets, NEW v \in Values, NEW confirm \in BOOLEAN,
             Submit(p, t, v, confirm)
      PROVE  WInv'
  <2> DEFINE rec == [Idle EXCEPT !.kind = "write", !.target = t, !.asked = v,
                                 !.confirm = confirm, !.registered = TRUE]
  <2>1. DOMAIN rec = Fields
    BY <1>1
  <2>2. task' = [task EXCEPT ![p] = StartCheck(rec, "evaluate", lastWrite[t])]
    BY <1>4 DEF Submit
  <2> HIDE DEF rec
  <2> QED
    BY <2>1, <2>2, StartCheckWanted, OneWanted
<1> QED
  BY <1>2, <1>3, <1>4

LEMMA NextWanted ==
    ASSUME IInv, WInv, \A t \in Targets : ChecksAlike(t), [Next]_vars
    PROVE  WInv'
<1>1. Requests \subseteq Tasks /\ Expiries \subseteq Tasks
  BY TasksAssumption
<1>2. CASE \E p \in Requests, t \in Targets, v \in Values :
              \E confirm \in Confirms(t) : Submit(p, t, v, confirm)
  BY <1>1, <1>2, BeginWanted DEF Confirms
<1>3. CASE \E p \in Requests : EmergencyStop(p)
  BY <1>1, <1>3, BeginWanted
<1>4. CASE \E p \in Expiries, t \in Targets : Expire(p, t)
  BY <1>1, <1>4, BeginWanted
<1>5. CASE \E p \in Tasks : TaskStep(p)
  BY <1>5, DriverWanted, CallerWanted DEF TaskStep
<1>6. CASE Reregister
  <2>1. task' = [q \in Tasks |-> [task[q] EXCEPT !.registered = FALSE]]
    BY <1>6 DEF Reregister
  <2>2. ASSUME NEW q \in Tasks PROVE AsWanted([task[q] EXCEPT !.registered = FALSE])
    <3>1. DOMAIN task[q] = Fields /\ AsWanted(task[q])
      BY RecOf DEF WInv
    <3> QED
      BY <3>1 DEF AsWanted, Sent, Fields
  <2>3. ASSUME NEW q \in Tasks PROVE AsWanted(task'[q])
    BY <2>1, <2>2
  <2> QED
    BY <2>3 DEF WInv, AsWanted, Sent
<1>7. CASE Tick \/ UNCHANGED vars
  BY <1>7 DEF Tick, vars, WInv, AsWanted, Sent
<1> QED
  BY <1>2, <1>3, <1>4, <1>5, <1>6, <1>7 DEF Next

LEMMA AlwaysWanted ==
    ASSUME \A t \in Targets : ChecksAlike(t)
    PROVE  Spec => []WInv
<1>1. Init => WInv
  BY IdleWanted DEF Init, DeviceInit, WInv
<1>2. IInv /\ WInv /\ [Next]_vars => WInv'
  BY NextWanted
<1> QED
  BY <1>1, <1>2, Invariance, PTL DEF Spec

(* On a device of any size and with any number of requests, timers and      *)
(* faults: what is reported of a write that succeeded is what was sent - if *)
(* no actuator is written relative to where it is, and no limit clamps by   *)
(* conditions or a rate.  Of the others the driver's check may find another *)
(* value than the middleware's found (rpc.py:207, 244-280, base.py:182).    *)
THEOREM Reported ==
    ASSUME \A t \in Targets : ChecksAlike(t)
    PROVE  Spec => []ReportedIsSent
<1>1. WInv => ReportedIsSent
  BY DEF WInv, AsWanted, Sent, ReportedIsSent
<1> QED
  BY <1>1, AlwaysWanted, PTL

-----------------------------------------------------------------------------
(* The dead-man promise of the hardware itself, where it holds.             *)

HomeAt(place, t) ==
    \/ place[t] = Actuator[t].default
    \/ t \in DOMAIN Safe /\ place[t] = Safe[t]

(* One caller, a link that loses nothing, a stop that drives every timed    *)
(* actuator, and no timed actuator that stands away when the middleware     *)
(* starts or whose verification may fail to read.                           *)
Dependable ==
    /\ StopsWork /\ "stuck" \notin Faults
    /\ Alone
    /\ \A t \in Targets :
          /\ ChecksAlike(t)
          /\ Timed(t) => t \in DOMAIN Safe /\ HomeAt(PowerOn, t)
          /\ Timed(t) /\ "read" \in Faults => ~Actuator[t].feedback

(* What a write sent stands, unless the actuator has been brought home.     *)
MoveKept(rec, place) ==
    rec.kind = "write" /\ Sent(rec)
        => place[rec.target] = rec.sent \/ HomeAt(place, rec.target)

Waiting(rec, t) == \E i \in DOMAIN rec.queue : rec.queue[i] = t

(* What a stop somebody asked for has driven stays at home, up to the step  *)
(* that cancels the timers.                                                 *)
DriveKept(rec, place) ==
    /\ /\ rec.kind \in {"write", "stop"}
       /\ rec.pc = "stopping" \/ (rec.pc = "returned" /\ rec.result = "stopped")
       => \A t \in DOMAIN Safe : Waiting(rec, t) \/ HomeAt(place, t)
    /\ rec.pc = "returned" /\ rec.result = "stopped" => rec.queue = << >>

(* The task will arm the actuator's timer, or bring it home.                *)
Covers(rec, t) ==
    /\ rec.target = t
    /\ \/ rec.kind = "write" /\ Sent(rec)
       \/ /\ rec.kind = "expiry"
          /\ \/ rec.pc \in {"check", "transmit"}
             \/ rec.pc = "returned" /\ rec.result \in {"desync", "raised"}
             \/ rec.pc = "stopping" /\ Waiting(rec, t)

Keeps(p, rec, place) ==
    /\ rec.kind \in {"write", "stop"} => p \in Requests
    /\ MoveKept(rec, place)
    /\ DriveKept(rec, place)

AInv ==
    /\ \A p \in Tasks : Keeps(p, task[p], pos)
    /\ \A t \in Targets :
          Timed(t) /\ ~HomeAt(pos, t) =>
              timer[t] # None \/ \E p \in Tasks : Covers(task[p], t)

(* One task is replaced: the actuators it leaves alone and the promises of  *)
(* the others stand.                                                        *)
LEMMA Frame ==
    ASSUME IInv, AInv, Dependable, NEW p \in Tasks, NEW rec,
           task' = [task EXCEPT ![p] = rec], Keeps(p, rec, pos'),
           \A t \in Targets :
              \/ pos'[t] = pos[t]
              \/ HomeAt(pos', t)
              \/ Covers(rec, t) /\ rec.kind = "write",
           \A t \in Targets :
              Timed(t) /\ (timer[t] # None \/ Covers(task[p], t))
                 => timer'[t] # None \/ Covers(rec, t) \/ HomeAt(pos', t)
    PROVE  AInv'
<1>1. DOMAIN task = Tasks /\ task'[p] = rec
  BY RecOf
<1>2. ASSUME NEW q \in Tasks, q # p PROVE task'[q] = task[q]
  BY <1>1, <1>2
<1>3. ASSUME NEW t \in Targets, HomeAt(pos, t), pos'[t] = pos[t] PROVE HomeAt(pos', t)
  BY <1>3 DEF HomeAt
<1>4. ASSUME NEW q \in Tasks PROVE Keeps(q, task'[q], pos')
  <2>1. CASE q = p
    BY <1>1, <2>1
  <2>2. CASE q # p
    <3>1. task'[q] = task[q] /\ Keeps(q, task[q], pos) /\ RecOK(task[q])
      BY <1>2, <2>2, RecOf DEF AInv
    <3>2. ASSUME task[q].kind \in {"write", "stop"}, NEW t \in Targets
          PROVE  pos'[t] = pos[t] \/ HomeAt(pos', t)
      BY <2>2, <3>1, <3>2 DEF Keeps, Dependable, Alone
    <3>3. MoveKept(task[q], pos')
      <4> SUFFICES ASSUME task[q].kind = "write", Sent(task[q])
                   PROVE  \/ pos'[task[q].target] = task[q].sent
                          \/ HomeAt(pos', task[q].target)
        BY DEF MoveKept
      <4>1. task[q].target \in Targets
        BY <3>1 DEF RecOK
      <4>2. pos[task[q].target] = task[q].sent \/ HomeAt(pos, task[q].target)
        BY <3>1 DEF Keeps, MoveKept
      <4> QED
        BY <1>3, <3>2, <4>1, <4>2
    <3>4. DriveKept(task[q], pos')
      <4>1. \A t \in DOMAIN Safe : t \in Targets
        BY TagAssumption
      <4> QED
        BY <1>3, <3>1, <3>2, <4>1 DEF Keeps, DriveKept
    <3> QED
      BY <3>1, <3>3, <3>4 DEF Keeps
  <2> QED
    BY <2>1, <2>2
<1>5. ASSUME NEW t \in Targets, Timed(t), ~HomeAt(pos', t)
      PROVE  timer'[t] # None \/ \E q \in Tasks : Covers(task'[q], t)
  <2>1. CASE Covers(rec, t)
    BY <1>1, <2>1
  <2>2. CASE ~Covers(rec, t)
    <3>1. ~HomeAt(pos, t)
      BY <1>3, <1>5, <2>2
    <3>2. CASE timer[t] # None \/ Covers(task[p], t)
      BY <1>5, <2>2, <3>2
    <3>3. CASE \E q \in Tasks : q # p /\ Covers(task[q], t)
      BY <1>2, <3>3
    <3> QED
      BY <1>5, <3>1, <3>2, <3>3 DEF AInv
  <2> QED
    BY <2>1, <2>2
<1>6. \A q \in Tasks : Keeps(q, task[q], pos)'
  BY <1>4 DEF Keeps, MoveKept, DriveKept, HomeAt, Waiting, Sent
<1>7. ASSUME NEW t \in Targets, Timed(t), ~HomeAt(pos, t)'
      PROVE  (timer[t] # None \/ \E q \in Tasks : Covers(task[q], t))'
  <2>1. ~HomeAt(pos', t)
    BY <1>7 DEF HomeAt
  <2> QED
    BY <1>5, <1>7, <2>1 DEF Covers, Waiting, Sent
<1> QED
  BY <1>6, <1>7 DEF AInv, Timed

(* A step that moves no actuator and no timer.                              *)
LEMMA Quiet ==
    ASSUME IInv, AInv, Dependable, NEW p \in Tasks, NEW rec,
           task' = [task EXCEPT ![p] = rec], UNCHANGED <<pos, timer>>,
           Keeps(p, rec, pos),
           \A t \in Targets : Timed(t) /\ Covers(task[p], t)
                                 => Covers(rec, t) \/ HomeAt(pos, t)
    PROVE  AInv'
<1>1. pos' = pos /\ timer' = timer
  OBVIOUS
<1>2. Keeps(p, rec, pos')
  BY <1>1
<1>3. ASSUME NEW t \in Targets, Timed(t), timer[t] # None \/ Covers(task[p], t)
      PROVE  timer'[t] # None \/ Covers(rec, t) \/ HomeAt(pos', t)
  BY <1>1, <1>3
<1> QED
  BY <1>1, <1>2, <1>3, Frame

(* A record that neither has sent nor drives a stop promises nothing.       *)
LEMMA IdleKeeps ==
    ASSUME NEW p, NEW place
    PROVE  Keeps(p, Idle, place) /\ \A t : ~Covers(Idle, t)
BY DEF Keeps, MoveKept, DriveKept, Covers, Sent, Idle

LEMMA FinishKeeps ==
    ASSUME IInv, AInv, Dependable, NEW p \in Tasks, task' = [task EXCEPT ![p] = Idle],
           UNCHANGED <<pos, timer>>,
           \A t \in Targets : Timed(t) => ~Covers(task[p], t)
    PROVE  AInv'
BY IdleKeeps, Quiet

LEMMA SafeWaits ==
    ASSUME Dependable, NEW t \in DOMAIN Safe, NEW rec, rec.queue = SafeOrder
    PROVE  Waiting(rec, t)
BY TagAssumption DEF Waiting

LEMMA StopCovers ==
    ASSUME Dependable, NEW p, NEW rec, DOMAIN rec = Fields, NEW raising \in BOOLEAN,
           rec.kind \in {"write", "stop"} => p \in Requests, NEW place
    PROVE  /\ Keeps(p, CallStop(rec, raising), place)
           /\ \A t \in DOMAIN Safe : rec.kind = "expiry" /\ rec.target = t
                                         => Covers(CallStop(rec, raising), t)
<1> DEFINE call == CallStop(rec, raising)
<1>1. /\ call.pc = "stopping" /\ call.queue = SafeOrder
      /\ call.kind = rec.kind /\ call.target = rec.target
  BY DEF Dependable, StopsWork, CallStop, Fields
<1> HIDE DEF call
<1>2. \A t \in DOMAIN Safe : Waiting(call, t)
  BY <1>1, SafeWaits
<1>3. Keeps(p, call, place)
  BY <1>1, <1>2 DEF Keeps, MoveKept, DriveKept, Sent
<1>4. \A t \in DOMAIN Safe : rec.kind = "expiry" /\ rec.target = t => Covers(call, t)
  BY <1>1, <1>2 DEF Covers
<1> QED
  BY <1>3, <1>4 DEF call

(* A stop begins.                                                           *)
LEMMA StopBegins ==
    ASSUME IInv, AInv, Dependable, NEW p \in Tasks, NEW rec, DOMAIN rec = Fields,
           NEW raising \in BOOLEAN,
           rec.kind \in {"write", "stop"} => p \in Requests,
           NEW call, call = CallStop(rec, raising),
           task' = [task EXCEPT ![p] = call],
           UNCHANGED <<pos, timer>>,
           \A t \in Targets : Timed(t) /\ Covers(task[p], t)
                                 => rec.kind = "expiry" /\ rec.target = t
    PROVE  AInv'
<1>1. /\ Keeps(p, call, pos)
      /\ \A t \in DOMAIN Safe : rec.kind = "expiry" /\ rec.target = t => Covers(call, t)
  BY StopCovers
<1>2. \A t \in Targets : Timed(t) => t \in DOMAIN Safe
  BY DEF Dependable
<1>3. \A t \in Targets : Timed(t) /\ Covers(task[p], t) => Covers(call, t)
  BY <1>1, <1>2
<1> QED
  BY ONLY IInv, AInv, Dependable, p \in Tasks, task' = [task EXCEPT ![p] = call],
          UNCHANGED <<pos, timer>>, <1>1, <1>3, Quiet

(* The task's promises are those it had.                                    *)
LEMMA SameKeeps ==
    ASSUME IInv, AInv, Dependable, NEW p \in Tasks, NEW rec,
           task' = [task EXCEPT ![p] = rec], UNCHANGED <<pos, timer>>,
           rec.kind = task[p].kind, rec.target = task[p].target,
           Keeps(p, rec, pos),
           \A t \in Targets : Timed(t) /\ Covers(task[p], t) =>
               \/ rec.kind = "write" /\ Sent(rec)
               \/ rec.kind = "expiry" /\ rec.pc \in {"check", "transmit"}
               \/ rec.kind = "expiry" /\ rec.pc = "returned"
                  /\ rec.result \in {"desync", "raised"}
               \/ HomeAt(pos, t)
    PROVE  AInv'
<1>1. \A t \in Targets : Timed(t) /\ Covers(task[p], t) => Covers(rec, t) \/ HomeAt(pos, t)
  BY DEF Covers
<1> QED
  BY <1>1, Quiet

LEMMA ReadConditionKeeps ==
    ASSUME IInv, AInv, Dependable, NEW p \in Tasks, NEW c \in Targets, ReadCondition(p, c),
           UNCHANGED <<lastWrite, timer>>
    PROVE  AInv'
<1> DEFINE rec == task'[p]
<1>1. /\ task' = [task EXCEPT ![p] = rec] /\ UNCHANGED pos
      /\ rec.kind = task[p].kind /\ rec.target = task[p].target
      /\ rec.pc = task[p].pc /\ rec.pc \in {"evaluate", "check"}
  BY RecOf DEF ReadCondition, Fields
<1> HIDE DEF rec
<1>2. Keeps(p, rec, pos)
  BY <1>1 DEF AInv, Keeps, MoveKept, DriveKept, Sent
<1>3. \A t \in Targets : Covers(task[p], t) => rec.kind = "expiry" /\ rec.pc = "check"
  BY <1>1 DEF Covers, Sent
<1> QED
  BY <1>1, <1>2, <1>3, SameKeeps

LEMMA CheckPassesKeeps ==
    ASSUME IInv, AInv, Dependable, NEW p \in Tasks, CheckPasses(p),
           UNCHANGED <<lastWrite, timer>>
    PROVE  AInv'
<1> DEFINE rec == task'[p]
<1>1. /\ task' = [task EXCEPT ![p] = rec] /\ UNCHANGED pos
      /\ rec.kind = task[p].kind /\ rec.target = task[p].target
      /\ task[p].pc = "check" /\ rec.pc = "transmit"
  BY RecOf DEF CheckPasses, ReadyToCheck, Fields
<1> HIDE DEF rec
<1>2. Keeps(p, rec, pos)
  BY <1>1 DEF AInv, Keeps, MoveKept, DriveKept, Sent
<1>3. \A t \in Targets : Covers(task[p], t) => rec.kind = "expiry" /\ rec.pc = "transmit"
  BY <1>1 DEF Covers, Sent
<1> QED
  BY <1>1, <1>2, <1>3, SameKeeps

LEMMA CheckEndsKeeps ==
    ASSUME IInv, AInv, Dependable, NEW p \in Tasks, CheckRefuses(p) \/ CheckStops(p),
           UNCHANGED <<lastWrite, timer>>
    PROVE  AInv'
<1>1. /\ task[p].pc = "check" /\ UNCHANGED pos /\ DOMAIN task[p] = Fields
      /\ Keeps(p, task[p], pos)
  BY RecOf DEF CheckRefuses, CheckStops, ReadyToCheck, AInv
<1>2. \A t \in Targets : Covers(task[p], t) =>
          task[p].kind = "expiry" /\ task[p].target = t
  BY <1>1 DEF Covers, Sent
<1>3. CASE CheckRefuses(p)
  <2> DEFINE rec == Return(task[p], "raised")
  <2>1. /\ rec.kind = task[p].kind /\ rec.target = task[p].target
        /\ rec.pc = "returned" /\ rec.result = "raised"
    BY <1>1 DEF Return, Fields
  <2>2. task' = [task EXCEPT ![p] = rec]
    BY <1>3 DEF CheckRefuses
  <2> HIDE DEF rec
  <2>3. Keeps(p, rec, pos)
    BY <1>1, <2>1 DEF Keeps, MoveKept, DriveKept, Sent
  <2> QED
    BY <1>1, <1>2, <2>1, <2>2, <2>3, SameKeeps
<1>4. CASE CheckStops(p)
  <2>1. task' = [task EXCEPT ![p] = CallStop(task[p], TRUE)]
    BY <1>4 DEF CheckStops
  <2> QED
    BY <1>1, <1>2, <2>1, StopBegins DEF Keeps
<1> QED
  BY <1>3, <1>4

(* An expired timer sends the default, which is home; a write is remembered *)
(* as sent.                                                                 *)
LEMMA TransmitKeeps ==
    ASSUME IInv, WInv, AInv, Dependable, NEW p \in Tasks, Transmit(p),
           UNCHANGED <<lastWrite, timer>>
    PROVE  AInv'
<1> DEFINE t == task[p].target
           rec == task'[p]
<1>1. /\ task[p].pc = "transmit" /\ Keeps(p, task[p], pos) /\ RecOK(task[p])
      /\ task[p].sent = task[p].want
  BY RecOf DEF Transmit, AInv, WInv, AsWanted
<1>2. t \in Targets /\ task[p].kind \in {"write", "expiry"} /\ DOMAIN pos = Targets
  BY <1>1 DEF RecOK, Driving, IInv, PlacesOK
<1>3. /\ pos' = [pos EXCEPT ![t] = task[p].sent]
      /\ task' = [task EXCEPT ![p].pc = "acked"]
  BY DEF Transmit, Takes, Misses, Moved, Dependable, StopsWork
<1>4. /\ task' = [task EXCEPT ![p] = rec]
      /\ rec.kind = task[p].kind /\ rec.target = t /\ rec.pc = "acked"
      /\ rec.sent = task[p].sent
  BY <1>3, RecOf DEF Fields
<1> HIDE DEF rec
<1>5. pos'[t] = rec.sent /\ \A u \in Targets : u # t => pos'[u] = pos[u]
  BY <1>2, <1>3, <1>4
<1>6. rec.kind = "expiry" => HomeAt(pos', t)
  <2>1. rec.kind = "expiry" => rec.sent = Actuator[t].default
    BY <1>1, <1>4 DEF RecOK, WantOK, Driving
  <2> QED
    BY <1>5, <2>1 DEF HomeAt
<1>7. Keeps(p, rec, pos')
  BY <1>1, <1>4, <1>5 DEF Keeps, MoveKept, DriveKept, Sent
<1>8. rec.kind = "write" => Covers(rec, t)
  BY <1>4 DEF Covers, Sent
<1>9. \A u \in Targets : Covers(task[p], u) => u = t /\ rec.kind = "expiry"
  BY <1>1, <1>4 DEF Covers, Sent
<1> HIDE DEF t
<1>10. \A u \in Targets : \/ pos'[u] = pos[u]
                          \/ HomeAt(pos', u)
                          \/ Covers(rec, u) /\ rec.kind = "write"
  BY <1>2, <1>4, <1>5, <1>6, <1>8
<1>11. \A u \in Targets : Timed(u) /\ (timer[u] # None \/ Covers(task[p], u))
                             => timer'[u] # None \/ Covers(rec, u) \/ HomeAt(pos', u)
  BY <1>6, <1>9
<1> QED
  BY <1>4, <1>7, <1>10, <1>11, Frame

LEMMA AckedKeeps ==
    ASSUME IInv, AInv, Dependable, NEW p \in Tasks, Acked(p), UNCHANGED <<lastWrite, timer>>
    PROVE  AInv'
<1> DEFINE rec == task'[p]
<1>1. /\ task' = [task EXCEPT ![p] = rec] /\ UNCHANGED pos /\ task[p].pc = "acked"
      /\ rec.kind = task[p].kind /\ rec.target = task[p].target
      /\ rec.sent = task[p].sent
      /\ rec.pc = "verify" \/ (rec.pc = "returned" /\ rec.result = "ok")
  BY RecOf DEF Acked, Return, Fields
<1> HIDE DEF rec
<1>2. Keeps(p, rec, pos)
  BY <1>1 DEF AInv, Keeps, MoveKept, DriveKept, Sent
<1>3. \A t \in Targets : Covers(task[p], t) => rec.kind = "write" /\ Sent(rec)
  BY <1>1 DEF Covers, Sent
<1> QED
  BY <1>1, <1>2, <1>3, SameKeeps

(* A write that does not verify has been brought home already.              *)
LEMMA VerifyReadKeeps ==
    ASSUME IInv, WInv, AInv, Dependable, NEW p \in Tasks, VerifyRead(p),
           UNCHANGED <<lastWrite, timer>>
    PROVE  AInv'
<1> DEFINE t == task[p].target
           rec == task'[p]
<1>1. /\ task[p].pc = "verify" /\ UNCHANGED pos /\ DOMAIN task[p] = Fields
      /\ Keeps(p, task[p], pos) /\ Actuator[t].feedback /\ DOMAIN task = Tasks
      /\ t \in Targets
  BY RecOf DEF VerifyRead, AInv, WInv, AsWanted, RecOK, Driving
<1>2. \A u \in Targets : Covers(task[p], u) => u = t /\ task[p].kind = "write"
  BY <1>1 DEF Covers, Sent
<1>3. /\ task' = [task EXCEPT ![p] = rec]
      /\ rec.kind = task[p].kind /\ rec.target = t /\ rec.sent = task[p].sent
      /\ \/ Sent(rec)
         \/ pos[t] # task[p].sent /\ rec.pc = "returned" /\ rec.result = "desync"
         \/ "read" \in Faults /\ rec.pc = "returned" /\ rec.result = "raised"
      /\ rec.pc # "stopping" /\ ~(rec.pc = "returned" /\ rec.result = "stopped")
  <2>1. CASE task' = [task EXCEPT ![p].polls = @ - 1]
    BY <1>1, <2>1 DEF Sent, Fields
  <2>2. ASSUME NEW result, task' = [task EXCEPT ![p] = Return(@, result)]
        PROVE  /\ task' = [task EXCEPT ![p] = rec]
               /\ rec.kind = task[p].kind /\ rec.target = t /\ rec.sent = task[p].sent
               /\ rec.pc = "returned" /\ rec.result = result
    BY <1>1, <2>2 DEF Return, Fields
  <2> QED
    BY <2>1, <2>2 DEF VerifyRead, Sent
<1> HIDE DEF rec
<1>4. Keeps(p, rec, pos)
  BY <1>1, <1>3 DEF Keeps, MoveKept, DriveKept, Sent
<1>5. ASSUME NEW u \in Targets, Timed(u), Covers(task[p], u)
      PROVE  (rec.kind = "write" /\ Sent(rec)) \/ HomeAt(pos, u)
  <2>1. u = t /\ task[p].kind = "write"
    BY <1>2, <1>5
  <2>2. ~("read" \in Faults)
    BY <1>1, <1>5, <2>1 DEF Dependable
  <2>3. pos[t] = task[p].sent \/ HomeAt(pos, t)
    BY <1>1, <2>1 DEF Keeps, MoveKept, Sent
  <2> QED
    BY <1>3, <2>1, <2>2, <2>3
<1> QED
  BY <1>1, <1>3, <1>4, <1>5, SameKeeps

LEMMA HeadOrTail ==
    ASSUME NEW S, NEW q \in Seq(S), q # << >>, NEW i \in DOMAIN q
    PROVE  q[i] = Head(q) \/ \E j \in DOMAIN Tail(q) : Tail(q)[j] = q[i]
<1>1. i \in 1 .. Len(q) /\ Len(Tail(q)) = Len(q) - 1 /\ Len(q) \in Nat
  BY HeadTailProperties, LenProperties
<1>2. CASE i = 1
  BY <1>2
<1>3. CASE i # 1
  <2>1. i - 1 \in 1 .. Len(Tail(q)) /\ Tail(q) \in Seq(S)
    BY <1>1, <1>3, HeadTailProperties
  <2>2. Tail(q)[i - 1] = q[i]
    BY <1>1, <1>3, <2>1
  <2>3. i - 1 \in DOMAIN Tail(q)
    BY <2>1, LenProperties
  <2> QED
    BY <2>2, <2>3
<1> QED
  BY <1>2, <1>3

(* A stop drives its next actuator home.                                    *)
LEMMA StopTransmitKeeps ==
    ASSUME IInv, AInv, Dependable, NEW p \in Tasks, StopTransmit(p),
           UNCHANGED <<lastWrite, timer>>
    PROVE  AInv'
<1> DEFINE t == Head(task[p].queue)
           rec == task'[p]
<1>1. /\ task[p].pc = "stopping" /\ task[p].queue \in Seq(DOMAIN Safe)
      /\ task[p].queue # << >> /\ Keeps(p, task[p], pos)
  BY RecOf DEF StopTransmit, StopWaits, RecOK, AInv
<1>2. t \in DOMAIN Safe /\ DOMAIN Safe \subseteq Targets /\ DOMAIN pos = Targets
  BY <1>1, HeadTailProperties, TagAssumption DEF IInv, PlacesOK
<1>3. /\ pos' = [pos EXCEPT ![t] = Safe[t]]
      /\ task' = [task EXCEPT ![p].queue = Tail(@)]
  BY DEF StopTransmit, Takes, Misses, Moved, Dependable, StopsWork
<1>4. /\ task' = [task EXCEPT ![p] = rec]
      /\ rec.kind = task[p].kind /\ rec.target = task[p].target
      /\ rec.pc = "stopping" /\ rec.queue = Tail(task[p].queue)
  BY <1>1, <1>3, RecOf DEF Fields
<1> HIDE DEF rec
<1>5. HomeAt(pos', t) /\ \A u \in Targets : u # t => pos'[u] = pos[u]
  BY <1>2, <1>3 DEF HomeAt
<1>6. \A u : Waiting(task[p], u) => u = t \/ Waiting(rec, u)
  BY <1>1, <1>4, HeadOrTail DEF Waiting
<1> HIDE DEF t
<1>7. \A u \in Targets : HomeAt(pos, u) => HomeAt(pos', u)
  BY <1>5 DEF HomeAt
<1>8. Keeps(p, rec, pos')
  <2>1. ASSUME rec.kind \in {"write", "stop"}, NEW u \in DOMAIN Safe
        PROVE  Waiting(rec, u) \/ HomeAt(pos', u)
    <3>1. Waiting(task[p], u) \/ HomeAt(pos, u)
      BY <1>1, <1>4, <2>1 DEF Keeps, DriveKept
    <3> QED
      BY <1>2, <1>5, <1>6, <1>7, <3>1
  <2> QED
    BY <1>1, <1>4, <2>1 DEF Keeps, MoveKept, DriveKept, Sent
<1>9. \A u \in Targets : Covers(task[p], u) => Covers(rec, u) \/ HomeAt(pos', u)
  BY <1>1, <1>4, <1>5, <1>6 DEF Covers, Sent
<1>10. \A u \in Targets : pos'[u] = pos[u] \/ HomeAt(pos', u)
  BY <1>5
<1> QED
  BY <1>4, <1>8, <1>9, <1>10, Frame

LEMMA StopDoneKeeps ==
    ASSUME IInv, AInv, Dependable, NEW p \in Tasks, StopDone(p),
           UNCHANGED <<lastWrite, timer>>
    PROVE  AInv'
<1> DEFINE rec == task'[p]
<1>1. /\ task[p].pc = "stopping" /\ task[p].queue = << >>
      /\ task' = [task EXCEPT ![p] = rec] /\ UNCHANGED pos
      /\ rec.kind = task[p].kind /\ rec.target = task[p].target
      /\ rec.queue = << >> /\ rec.pc = "returned" /\ rec.result \in {"raised", "stopped"}
  BY RecOf DEF StopDone, Return, Fields
<1> HIDE DEF rec
<1>2. Keeps(p, rec, pos)
  BY <1>1 DEF AInv, Keeps, MoveKept, DriveKept, Sent, Waiting
<1>3. \A t \in Targets : ~Covers(task[p], t)
  BY <1>1 DEF Covers, Sent, Waiting
<1> QED
  BY <1>1, <1>2, <1>3, SameKeeps

LEMMA DriverKeeps ==
    ASSUME IInv, WInv, AInv, Dependable, NEW p \in Tasks, DriverStep(p),
           UNCHANGED <<lastWrite, timer>>
    PROVE  AInv'
  BY ReadConditionKeeps, CheckPassesKeeps, CheckEndsKeeps, TransmitKeeps, AckedKeeps,
     VerifyReadKeeps, StopTransmitKeeps, StopDoneKeeps
     DEF DriverStep

(* A write that is accepted arms its timer, unless it brought the actuator  *)
(* to its default.                                                          *)
LEMMA WriteReturnsKeeps ==
    ASSUME IInv, WInv, AInv, Dependable, NEW p \in Tasks, WriteReturns(p)
    PROVE  AInv'
<1> DEFINE t == task[p].target
<1>1. /\ task[p].kind = "write" /\ Sent(task[p]) /\ t \in Targets
      /\ task[p].sent = task[p].want /\ Keeps(p, task[p], pos)
      /\ DOMAIN timer = Targets
  BY RecOf DEF WriteReturns, Returned, Sent, RecOK, WInv, AsWanted, AInv, IInv, TimersOK
<1>2. /\ task' = [task EXCEPT ![p] = Idle] /\ UNCHANGED pos
      /\ timer' = [timer EXCEPT ![t] =
            IF Limit[t].max_duration = None \/ task[p].want = Actuator[t].default THEN None
            ELSE [left |-> Limit[t].max_duration, registered |-> task[p].registered]]
  BY DEF WriteReturns, Finish, Arm
<1>3. ASSUME Timed(t) PROVE timer'[t] # None \/ HomeAt(pos, t)
  <2>1. CASE task[p].want = Actuator[t].default
    BY <1>1, <2>1 DEF Keeps, MoveKept, HomeAt
  <2>2. CASE task[p].want # Actuator[t].default
    <3>1. timer'[t] = [left |-> Limit[t].max_duration, registered |-> task[p].registered]
      BY <1>1, <1>2, <1>3, <2>2 DEF Timed
    <3>2. Limit[t].max_duration \in Nat /\ task[p].registered \in BOOLEAN
      BY <1>1, <1>3, TagFacts, RecOf DEF Timed, RecOK
    <3> QED
      BY <3>1, <3>2, NoTimerAssumption
  <2> QED
    BY <2>1, <2>2
<1>4. \A u \in Targets : u # t => timer'[u] = timer[u] /\ ~Covers(task[p], u)
  BY <1>1, <1>2 DEF Covers
<1>5. Keeps(p, Idle, pos)
  BY IdleKeeps
<1> HIDE DEF t
<1>6. \A u \in Targets : Timed(u) /\ (timer[u] # None \/ Covers(task[p], u))
                            => timer'[u] # None \/ Covers(Idle, u) \/ HomeAt(pos, u)
  BY <1>3, <1>4
<1>7. pos' = pos
  BY <1>2
<1> QED
  BY <1>2, <1>5, <1>6, <1>7, Frame

(* A stop cancels every timer: every timed actuator is at home.             *)
LEMMA StopReturnsKeeps ==
    ASSUME IInv, AInv, Dependable, NEW p \in Tasks, StopReturns(p)
    PROVE  AInv'
<1>1. /\ task[p].kind \in {"write", "stop"} /\ task[p].pc = "returned"
      /\ task[p].result = "stopped" /\ Keeps(p, task[p], pos)
      /\ task' = [task EXCEPT ![p] = Idle] /\ UNCHANGED pos
  BY DEF StopReturns, Returned, AInv, Finish
<1>2. \A t \in DOMAIN Safe : HomeAt(pos, t)
  BY <1>1 DEF Keeps, DriveKept, Waiting
<1>3. \A t \in Targets : Timed(t) => HomeAt(pos, t)
  BY <1>2 DEF Dependable
<1>4. Keeps(p, Idle, pos) /\ pos' = pos
  BY <1>1, IdleKeeps
<1> QED
  BY <1>1, <1>3, <1>4, Frame

LEMMA EndsKeeps ==
    ASSUME IInv, AInv, Dependable, NEW p \in Tasks,
           \/ EvaluateRefuses(p) \/ WriteRaises(p) \/ StopRaises(p)
           \/ ExpiryReturns(p) \/ ExpiryStops(p) \/ ExpiryGivesUp(p)
    PROVE  AInv'
<1>1. task' = [task EXCEPT ![p] = Idle] /\ UNCHANGED <<pos, timer>>
  BY DEF EvaluateRefuses, WriteRaises, StopRaises, ExpiryReturns, ExpiryStops,
         ExpiryGivesUp, Finish
<1>2. \/ task[p].pc = "evaluate" /\ task[p].kind = "write"
      \/ task[p].pc = "returned" /\ task[p].kind # "expiry" /\ task[p].result # "ok"
      \/ task[p].pc = "returned" /\ task[p].kind = "expiry"
         /\ task[p].result \in {"ok", "stopped", "unstopped"}
  BY RecOf DEF EvaluateRefuses, ReadyToEvaluate, WriteRaises, StopRaises, ExpiryReturns,
               ExpiryStops, ExpiryGivesUp, Returned, RecOK
<1>3. \A t \in Targets : ~Covers(task[p], t)
  BY <1>2 DEF Covers, Sent
<1> QED
  BY <1>1, <1>3, FinishKeeps

LEMMA EvaluatePassesKeeps ==
    ASSUME IInv, AInv, Dependable, NEW p \in Tasks, EvaluatePasses(p)
    PROVE  AInv'
<1> DEFINE rec == CallWrite(task[p], Evaluated(p, task[p].asked).value)
<1>1. /\ task[p].pc = "evaluate" /\ task[p].kind = "write" /\ Keeps(p, task[p], pos)
      /\ DOMAIN task[p] = Fields
  BY RecOf DEF EvaluatePasses, ReadyToEvaluate, RecOK, AInv
<1>2. task' = [task EXCEPT ![p] = rec] /\ UNCHANGED <<pos, timer>>
  BY DEF EvaluatePasses
<1>3. /\ rec.kind = task[p].kind /\ rec.target = task[p].target
      /\ rec.pc = "check" \/ (rec.pc = "returned" /\ rec.result = "raised")
  BY <1>1 DEF CallWrite, StartCheck, Return, Fields
<1> HIDE DEF rec
<1>4. Keeps(p, rec, pos)
  BY <1>1, <1>3 DEF Keeps, MoveKept, DriveKept, Sent
<1>5. \A t \in Targets : ~Covers(task[p], t)
  BY <1>1 DEF Covers, Sent
<1> QED
  BY <1>2, <1>3, <1>4, <1>5, SameKeeps

LEMMA StopCallsKeep ==
    ASSUME IInv, AInv, Dependable, NEW p \in Tasks, EvaluateStops(p) \/ ExpiryFallsBack(p)
    PROVE  AInv'
<1>1. /\ task' = [task EXCEPT ![p] = CallStop(task[p], FALSE)]
      /\ UNCHANGED <<pos, timer>> /\ DOMAIN task[p] = Fields /\ Keeps(p, task[p], pos)
  BY RecOf DEF EvaluateStops, ExpiryFallsBack, AInv
<1>2. task[p].pc = "evaluate" \/ task[p].kind = "expiry"
  BY DEF EvaluateStops, ReadyToEvaluate, ExpiryFallsBack
<1>3. \A t \in Targets : Covers(task[p], t) => task[p].kind = "expiry" /\ task[p].target = t
  BY <1>2 DEF Covers, Sent
<1> QED
  BY <1>1, <1>3, StopBegins DEF Keeps

LEMMA CallerKeeps ==
    ASSUME IInv, WInv, AInv, Dependable, NEW p \in Tasks, CallerStep(p)
    PROVE  AInv'
  BY WriteReturnsKeeps, StopReturnsKeeps, EndsKeeps, EvaluatePassesKeeps, StopCallsKeep
     DEF CallerStep

(* An expired timer leaves the table as its task begins.                    *)
LEMMA ExpireKeeps ==
    ASSUME IInv, AInv, Dependable, NEW p \in Expiries, NEW t \in Targets, Expire(p, t)
    PROVE  AInv'
<1> DEFINE rec == [Idle EXCEPT !.kind = "expiry", !.target = t, !.confirm = TRUE,
                               !.registered = timer[t].registered]
           call == IF Actuator[t].default # None
                   THEN CallWrite(rec, Actuator[t].default)
                   ELSE CallStop(rec, FALSE)
<1>1. /\ p \in Tasks /\ task[p] = Idle /\ DOMAIN timer = Targets
      /\ task' = [task EXCEPT ![p] = call] /\ pos' = pos
      /\ timer' = [timer EXCEPT ![t] = None]
  BY TasksAssumption DEF Expire, IInv, TimersOK
<1>2. /\ DOMAIN rec = Fields /\ rec.kind = "expiry" /\ rec.target = t /\ rec.confirm = TRUE
  BY DEF Idle, Fields
<1> HIDE DEF rec
<1>3. Keeps(p, call, pos) /\ (Timed(t) => Covers(call, t))
  <2>1. CASE Actuator[t].default # None
    <3>1. /\ call.kind = "expiry" /\ call.target = t /\ call.pc = "check"
      BY <1>2, <2>1 DEF CallWrite, Confirmed, StartCheck, Fields
    <3> HIDE DEF call
    <3> QED
      BY <3>1 DEF Keeps, MoveKept, DriveKept, Covers, Sent
  <2>2. CASE Actuator[t].default = None
    <3>1. call = CallStop(rec, FALSE)
      BY <2>2
    <3> HIDE DEF call
    <3>2. Timed(t) => t \in DOMAIN Safe
      BY DEF Dependable
    <3> QED
      BY <1>2, <3>1, <3>2, StopCovers
  <2> QED
    BY <2>1, <2>2
<1> HIDE DEF call
<1>4. \A u \in Targets : ~Covers(task[p], u)
  BY <1>1, IdleKeeps
<1>5. \A u \in Targets : Timed(u) /\ (timer[u] # None \/ Covers(task[p], u))
                            => timer'[u] # None \/ Covers(call, u) \/ HomeAt(pos', u)
  BY <1>1, <1>3, <1>4
<1> QED
  BY <1>1, <1>3, <1>5, Frame

LEMMA AskKeeps ==
    ASSUME IInv, AInv, Dependable, NEW p \in Requests,
           \/ EmergencyStop(p)
           \/ \E t \in Targets, v \in Values, confirm \in BOOLEAN : Submit(p, t, v, confirm)
    PROVE  AInv'
<1>1. DOMAIN Idle = Fields /\ p \in Tasks
  BY TasksAssumption DEF Idle, Fields
<1>2. CASE EmergencyStop(p)
  <2> DEFINE rec == [Idle EXCEPT !.kind = "stop", !.registered = TRUE]
  <2>1. DOMAIN rec = Fields
    BY <1>1
  <2>2. /\ task' = [task EXCEPT ![p] = CallStop(rec, FALSE)]
        /\ UNCHANGED <<pos, timer>> /\ task[p] = Idle
    BY <1>2 DEF EmergencyStop
  <2> HIDE DEF rec
  <2>3. \A t \in Targets : ~Covers(task[p], t)
    BY <2>2, IdleKeeps
  <2> QED
    BY <1>1, <2>1, <2>2, <2>3, StopBegins
<1>3. ASSUME NEW t \in Targets, NEW v \in Values, NEW confirm \in BOOLEAN,
             Submit(p, t, v, confirm)
      PROVE  AInv'
  <2> DEFINE rec == StartCheck([Idle EXCEPT !.kind = "write", !.target = t, !.asked = v,
                                  !.confirm = confirm, !.registered = TRUE],
                               "evaluate", lastWrite[t])
  <2>1. /\ task' = [task EXCEPT ![p] = rec]
        /\ UNCHANGED <<pos, timer>> /\ task[p] = Idle
    BY <1>3 DEF Submit
  <2>2. rec.kind = "write" /\ rec.pc = "evaluate"
    BY <1>1 DEF StartCheck, Fields
  <2> HIDE DEF rec
  <2>3. \A u \in Targets : ~Covers(task[p], u)
    BY <2>1, IdleKeeps
  <2>4. Keeps(p, rec, pos)
    BY <2>2 DEF Keeps, MoveKept, DriveKept, Sent
  <2> QED
    BY <1>1, <2>1, <2>3, <2>4, Quiet
<1> QED
  BY <1>2, <1>3

(* Time and a second announcement leave the timers in the table.            *)
LEMMA WorldKeeps ==
    ASSUME IInv, AInv, Reregister \/ Tick \/ UNCHANGED vars
    PROVE  AInv'
<1>1. pos' = pos
  BY DEF Reregister, Tick, vars
<1>2. ASSUME NEW t \in Targets, timer[t] # None PROVE timer'[t] # None
  <2>1. timer[t] \in [left : Nat, registered : BOOLEAN]
    BY <1>2 DEF IInv, TimersOK
  <2>2. CASE Reregister
    <3>1. timer'[t] = [timer[t] EXCEPT !.registered = FALSE]
      BY <1>2, <2>2 DEF Reregister
    <3>2. timer'[t] \in [left : Nat, registered : BOOLEAN]
      BY <2>1, <3>1
    <3> QED
      BY <3>2, NoTimerAssumption
  <2>3. CASE Tick
    <3>1. (IF timer[t].left > 0 THEN timer[t].left - 1 ELSE 0) \in Nat
      BY <2>1
    <3>2. timer'[t] = [timer[t] EXCEPT !.left = IF timer[t].left > 0
                                                THEN timer[t].left - 1 ELSE 0]
      BY <1>2, <2>3 DEF Tick
    <3>3. timer'[t] \in [left : Nat, registered : BOOLEAN]
      BY <2>1, <3>1, <3>2
    <3> QED
      BY <3>3, NoTimerAssumption
  <2>4. CASE UNCHANGED vars
    BY <1>2, <2>4 DEF vars
  <2> QED
    BY <2>2, <2>3, <2>4
<1>3. ASSUME NEW q \in Tasks
      PROVE  /\ task'[q].kind = task[q].kind /\ task'[q].pc = task[q].pc
             /\ task'[q].target = task[q].target /\ task'[q].sent = task[q].sent
             /\ task'[q].result = task[q].result /\ task'[q].queue = task[q].queue
  BY RecOf DEF Reregister, Tick, vars, Fields
<1>4. ASSUME NEW q \in Tasks
      PROVE  /\ Keeps(q, task'[q], pos)
             /\ \A t : Covers(task[q], t) => Covers(task'[q], t)
  <2>1. Keeps(q, task[q], pos)
    BY DEF AInv
  <2> QED
    BY <1>3, <2>1 DEF Keeps, MoveKept, DriveKept, Covers, Waiting, Sent
<1>5. \A q \in Tasks : Keeps(q, task[q], pos)'
  BY <1>1, <1>4 DEF Keeps, MoveKept, DriveKept, HomeAt, Waiting, Sent
<1>6. ASSUME NEW t \in Targets, Timed(t), ~HomeAt(pos, t)'
      PROVE  (timer[t] # None \/ \E q \in Tasks : Covers(task[q], t))'
  <2>1. ~HomeAt(pos, t)
    BY <1>1, <1>6 DEF HomeAt
  <2>2. timer'[t] # None \/ \E q \in Tasks : Covers(task'[q], t)
    BY <1>2, <1>4, <1>6, <2>1 DEF AInv
  <2> QED
    BY <2>2 DEF Covers, Waiting, Sent
<1> QED
  BY <1>5, <1>6 DEF AInv, Timed

LEMMA NextKeeps ==
    ASSUME IInv, WInv, AInv, Dependable, [Next]_vars
    PROVE  AInv'
<1>1. CASE \E p \in Requests, t \in Targets, v \in Values :
              \E confirm \in Confirms(t) : Submit(p, t, v, confirm)
  BY <1>1, AskKeeps DEF Confirms
<1>2. CASE \E p \in Requests : EmergencyStop(p)
  BY <1>2, AskKeeps
<1>3. CASE \E p \in Expiries, t \in Targets : Expire(p, t)
  BY <1>3, ExpireKeeps
<1>4. CASE \E p \in Tasks : TaskStep(p)
  BY <1>4, DriverKeeps, CallerKeeps DEF TaskStep
<1>5. CASE Reregister \/ Tick \/ UNCHANGED vars
  BY <1>5, WorldKeeps
<1> QED
  BY <1>1, <1>2, <1>3, <1>4, <1>5 DEF Next

(* With one caller at a time and a link and a stop that work: an actuator   *)
(* that stands away from its default and its safe value is under a timer,   *)
(* or being written, or being brought home, even when the device announces  *)
(* itself again (docs/capability-tags.md:218).  With two callers a stop may *)
(* cancel the timer of a write that finished while it ran, and a stop whose *)
(* safe state leaves an actuator out cancels its timer where it stands.     *)
THEOREM AwayTimed ==
    ASSUME Dependable
    PROVE  Spec => []AwayIsTimed
<1>1. Init => AInv
  <2> SUFFICES ASSUME Init PROVE AInv
    OBVIOUS
  <2> QED
    BY IdleKeeps DEF Init, DeviceInit, AInv, Dependable
<1>2. IInv /\ WInv /\ AInv /\ [Next]_vars => AInv'
  BY NextKeeps
<1>3. AInv => AwayIsTimed
  <2> SUFFICES ASSUME AInv, NEW t \in Targets, Timed(t), ~Home(t)
               PROVE  Guarded(t) \/ WriteInFlight(t)
    BY DEF AwayIsTimed
  <2>1. ~HomeAt(pos, t)
    BY DEF Home, HomeAt
  <2>2. timer[t] # None \/ \E p \in Tasks : Covers(task[p], t)
    BY <2>1 DEF AInv
  <2> QED
    BY <2>2 DEF Covers, Guarded, Expiring, WriteInFlight
<1>4. \A t \in Targets : ChecksAlike(t)
  BY DEF Dependable
<1>5. Spec => []WInv
  BY <1>4, AlwaysWanted
<1> QED
  BY <1>1, <1>2, <1>3, <1>5, Invariance, PTL DEF Spec
=============================================================================
