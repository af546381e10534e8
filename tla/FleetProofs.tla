---------------------------- MODULE FleetProofs -----------------------------
(* Theorems about Fleet: for any devices, tags, batches, clients and timers. *)
EXTENDS Fleet, TLAPS

(* In every module that extends this one, and in TLC's runs, the constants  *)
(* are as Fleet assumes.                                                    *)
USE FleetAssumption

-----------------------------------------------------------------------------
(* The invariant of types: TypeOK, and what a task carries at each point.   *)

Outcomes == {"result", "error"}

Said == {"pending", "skipped", "unbound", "failed", "stopped"}

Reports == UNION {[D -> Said] : D \in SUBSET Devices}

(* A client awaits a driver, or several and keeps its own place.            *)
Awaiting == {"reading", "writing", "written", "stopping", "stopped", "halting", "halted"}
Sweeping == {"stop_all", "gathering"}

(* A timer awaits a driver.                                                 *)
Expiring == {"returning", "falling"}

TaskForm ==
    [pc : {"idle", "dispatch"} \cup Awaiting \cup Sweeping \cup Expiring,
     body : Seq(ItemForm), next : Nat \ {0},
     answers : Seq([to : Nat, outcome : Outcomes]),
     rec : Record \cup {None}, want : Int \cup {None},
     queue : SUBSET Record, report : Reports]

(* A client that serves an item has one; who awaits a driver has a record,  *)
(* and a number if it writes.                                               *)
TaskFits(p, t) ==
    /\ t.next <= Len(t.body) + 1
    /\ t.pc \in Awaiting \cup Sweeping => t.next <= Len(t.body)
    /\ t.pc \in Awaiting \cup Expiring => t.rec \in Record
    /\ t.pc \in {"writing", "returning"} => t.want \in Int
    /\ p \in Clients => t.pc \notin Expiring
    /\ p \in Expiries => t.pc \in {"idle"} \cup Expiring

ServerFits ==
    /\ up \in BOOLEAN
    /\ registry \in [Devices -> Record \cup {None}]
    /\ timer \in [Devices -> [rec : Record, left : Nat] \cup {None}]
    /\ pos \in [Devices -> Int]
    /\ lost \subseteq Devices /\ unplugged \subseteq Devices

TasksFit ==
    /\ task \in [Tasks -> TaskForm]
    /\ \A p \in Tasks : TaskFits(p, task[p])

Fits == ServerFits /\ TasksFit

LEMMA TagFacts ==
    ASSUME NEW tag \in Tags
    PROVE  /\ tag.low \in Int /\ tag.high \in Int /\ tag.default \in Int
           /\ tag.safe \in Int /\ tag.duration \in Nat /\ tag.stops \in BOOLEAN
           /\ InTag(tag, tag.default)
  BY DEF TagForm

LEMMA OwnFacts ==
    ASSUME NEW d \in Devices
    PROVE  /\ Own[d] \in Tags
           /\ Own[d].low \in Int /\ Own[d].high \in Int
           /\ Own[d].default \in Int /\ Own[d].safe \in Int
           /\ InTag(Own[d], Own[d].default)
<1>1. Own[d] \in Tags
  OBVIOUS
<1> QED
  BY <1>1, TagFacts

LEMMA BoundFits == Bound \in [Devices -> Record \cup {None}]
<1> SUFFICES ASSUME NEW d \in Devices PROVE Bound[d] \in Record \cup {None}
  BY DEF Bound
<1> QED
  BY OwnFacts DEF Bound, Record

LEMMA IdleFits ==
    /\ Idle \in TaskForm
    /\ \A p \in Tasks : TaskFits(p, Idle)
<1>1. << >> \in Reports
  <2>1. << >> \in [{} -> Said]
    OBVIOUS
  <2> QED
    BY <2>1 DEF Reports
<1>2. Idle \in TaskForm
  BY <1>1 DEF Idle, TaskForm
<1> QED
  BY <1>2 DEF Idle, TaskFits, Awaiting, Sweeping, Expiring

(* One task changes.                                                        *)
LEMMA OneTask ==
    ASSUME TasksFit, NEW p \in Tasks, NEW t \in TaskForm, TaskFits(p, t),
           task' = [task EXCEPT ![p] = t]
    PROVE  TasksFit'
<1>1. task' \in [Tasks -> TaskForm]
  BY DEF TasksFit
<1>2. ASSUME NEW q \in Tasks PROVE TaskFits(q, task'[q])
  BY DEF TasksFit
<1> QED
  BY <1>1, <1>2 DEF TasksFit, TaskFits

(* An item is done.                                                         *)
LEMMA AnsweredFits ==
    ASSUME TasksFit, NEW c \in Clients, NEW outcome \in Outcomes,
           task[c].next <= Len(task[c].body)
    PROVE  /\ Answered(c, outcome) \in TaskForm
           /\ TaskFits(c, Answered(c, outcome))
<1>1. task[c] \in TaskForm
  BY DEF TasksFit, Tasks
<1>2. [to |-> task[c].next, outcome |-> outcome] \in [to : Nat, outcome : Outcomes]
  BY <1>1 DEF TaskForm
<1>3. Append(task[c].answers, [to |-> task[c].next, outcome |-> outcome])
        \in Seq([to : Nat, outcome : Outcomes])
  BY <1>1, <1>2 DEF TaskForm
<1>4. Answered(c, outcome) \in TaskForm
  <2> DEFINE new == IF Answerable(Item(c))
                    THEN Append(task[c].answers, [to |-> task[c].next, outcome |-> outcome])
                    ELSE task[c].answers
  <2>1. new \in Seq([to : Nat, outcome : Outcomes])
    BY <1>1, <1>3 DEF TaskForm
  <2>2. Answered(c, outcome) =
          [task[c] EXCEPT !.pc = "dispatch", !.next = @ + 1, !.rec = None, !.want = None,
                          !.answers = new]
    BY <1>1 DEF Answered, TaskForm
  <2>3. task[c].next + 1 \in Nat \ {0}
    BY <1>1 DEF TaskForm
  <2> HIDE DEF new
  <2> QED
    BY <1>1, <2>1, <2>2, <2>3 DEF TaskForm
<1>5. /\ Answered(c, outcome).pc = "dispatch"
      /\ Answered(c, outcome).body = task[c].body
      /\ Answered(c, outcome).next = task[c].next + 1
  BY <1>1 DEF Answered, TaskForm
<1>6. Len(task[c].body) \in Nat /\ task[c].next \in Nat
  BY <1>1 DEF TaskForm
<1>7. c \notin Expiries
  OBVIOUS
<1> QED
  BY <1>4, <1>5, <1>6, <1>7 DEF TaskFits, Awaiting, Sweeping, Expiring

LEMMA AnswerFits ==
    ASSUME TasksFit, NEW c \in Clients, NEW outcome \in Outcomes,
           task[c].next <= Len(task[c].body), Answer(c, outcome)
    PROVE  TasksFit'
<1>1. c \in Tasks
  BY DEF Tasks
<1> QED
  BY <1>1, AnsweredFits, OneTask DEF Answer

(* A driver is called.                                                      *)
LEMMA CallFits ==
    ASSUME TasksFit, NEW p \in Tasks, NEW pc \in Awaiting \cup Expiring,
           NEW rec \in Record, NEW want \in Int \cup {None}, Call(p, pc, rec, want),
           pc \in {"writing", "returning"} => want \in Int,
           pc \in Awaiting => p \in Clients /\ task[p].next <= Len(task[p].body),
           pc \in Expiring => p \in Expiries
    PROVE  TasksFit'
<1> DEFINE t == [task[p] EXCEPT !.pc = pc, !.rec = rec, !.want = want]
<1>1. task[p] \in TaskForm /\ TaskFits(p, task[p])
  BY DEF TasksFit
<1>2. t \in TaskForm
  BY <1>1 DEF TaskForm
<1>3. /\ t.pc = pc /\ t.rec = rec /\ t.want = want
      /\ t.next = task[p].next /\ t.body = task[p].body
  BY <1>1 DEF TaskForm
<1>4. TaskFits(p, t)
  BY <1>1, <1>3 DEF TaskFits, Awaiting, Sweeping, Expiring
<1>5. task' = [task EXCEPT ![p] = t]
  BY <1>1 DEF Call, TasksFit, TaskForm
<1> QED
  BY <1>2, <1>4, <1>5, OneTask

(* A task goes back to rest.                                                *)
LEMMA RestFits ==
    ASSUME TasksFit, NEW p \in Tasks, task' = [task EXCEPT ![p] = Idle]
    PROVE  TasksFit'
  BY IdleFits, OneTask

(* A sweep begins.                                                          *)
LEMMA SweepFits ==
    ASSUME Fits, NEW c \in Clients, BeginSweep(c)
    PROVE  TasksFit'
<1> DEFINE t == [task[c] EXCEPT !.pc = Item(c).op, !.queue = Listed,
                                !.report = Unsaid(Listed)]
<1>1. c \in Tasks /\ task[c] \in TaskForm /\ TaskFits(c, task[c])
  BY DEF Fits, TasksFit, Tasks
<1>2. Listed \in SUBSET Record
  BY DEF Listed, Fits, ServerFits
<1>3. Unsaid(Listed) \in Reports
  <2>1. {rec.dev : rec \in Listed} \in SUBSET Devices
    BY <1>2 DEF Record
  <2>2. Unsaid(Listed) \in [{rec.dev : rec \in Listed} -> Said]
    BY DEF Unsaid, Said
  <2> QED
    BY <2>1, <2>2 DEF Reports
<1>4. Item(c).op \in Sweeping
  BY DEF BeginSweep, Sweeping
<1>5. t \in TaskForm
  BY <1>1, <1>2, <1>3, <1>4 DEF TaskForm
<1>6. t.pc = Item(c).op /\ t.next = task[c].next /\ t.body = task[c].body
  BY <1>1 DEF TaskForm
<1>7. task[c].next <= Len(task[c].body)
  BY DEF BeginSweep, Ready
<1>8. c \notin Expiries
  OBVIOUS
<1>9. task[c].next <= Len(task[c].body) + 1
  BY <1>1 DEF TaskFits
<1>10. TaskFits(c, t)
  BY <1>4, <1>6, <1>7, <1>8, <1>9 DEF TaskFits, Awaiting, Sweeping, Expiring
<1>11. task' = [task EXCEPT ![c] = t]
  BY <1>1 DEF BeginSweep, Fits, TasksFit
<1> HIDE DEF t
<1> QED
  BY <1>1, <1>5, <1>10, <1>11, OneTask DEF Fits

(* A sweep leaves a record behind.                                          *)
LEMMA ReportedFits ==
    ASSUME TasksFit, NEW c \in Clients, NEW rec \in Record, NEW what \in Said,
           task[c].pc \in Sweeping, Reported(c, rec, what)
    PROVE  TasksFit'
<1> DEFINE report == [task[c].report EXCEPT ![rec.dev] = what]
           t == [task[c] EXCEPT !.queue = @ \ {rec}, !.rec = None, !.report = report]
<1>1. c \in Tasks /\ task[c] \in TaskForm /\ TaskFits(c, task[c])
  BY DEF TasksFit, Tasks
<1>2. report \in Reports
  <2>0. task[c].report \in Reports
    BY <1>1 DEF TaskForm
  <2>1. PICK D \in SUBSET Devices : task[c].report \in [D -> Said]
    BY <2>0 DEF Reports
  <2>2. report \in [D -> Said]
    BY <2>1
  <2> QED
    BY <2>2 DEF Reports
<1>3. task' = [task EXCEPT ![c] = t]
  BY <1>1 DEF Reported, TasksFit
<1> HIDE DEF report
<1>4. t \in TaskForm
  BY <1>1, <1>2 DEF TaskForm
<1>5. t.pc = task[c].pc /\ t.next = task[c].next /\ t.body = task[c].body
  BY <1>1 DEF TaskForm
<1>6. TaskFits(c, t)
  BY <1>1, <1>5 DEF TaskFits, Awaiting, Sweeping, Expiring
<1> HIDE DEF t
<1> QED
  BY <1>1, <1>3, <1>4, <1>6, OneTask

(* A client's call goes on to another point.                                *)
LEMMA MovesFits ==
    ASSUME TasksFit, NEW c \in Clients, NEW pc \in Awaiting \cup Sweeping,
           task' = [task EXCEPT ![c].pc = pc],
           task[c].next <= Len(task[c].body),
           pc \in Awaiting => task[c].rec \in Record,
           pc = "writing" => task[c].want \in Int
    PROVE  TasksFit'
<1> DEFINE t == [task[c] EXCEPT !.pc = pc]
<1>1. c \in Tasks /\ task[c] \in TaskForm /\ TaskFits(c, task[c]) /\ c \notin Expiries
  BY DEF TasksFit, Tasks
<1>2. t \in TaskForm
  BY <1>1 DEF TaskForm
<1>3. /\ t.pc = pc /\ t.next = task[c].next /\ t.body = task[c].body
      /\ t.rec = task[c].rec /\ t.want = task[c].want
  BY <1>1 DEF TaskForm
<1>4. TaskFits(c, t)
  BY <1>1, <1>3 DEF TaskFits, Awaiting, Sweeping, Expiring
<1>5. task' = [task EXCEPT ![c] = t]
  BY <1>1 DEF TasksFit
<1> HIDE DEF t
<1> QED
  BY <1>1, <1>2, <1>4, <1>5, OneTask

-----------------------------------------------------------------------------
(* A driver's call leaves the actuator inside its own tag, or at its safe   *)
(* value: a refusal may run the driver's stop.                              *)

LEMMA WriteInside ==
    ASSUME ServerFits, OwnEnvelope, NEW d \in Devices, NEW value \in Int,
           DriverWrites(d, value) \/ DriverRefuses(d, value)
    PROVE  pos' \in [Devices -> Int] /\ OwnEnvelope'
<1>1. \/ pos' = pos
      \/ Accepts(d, value) /\ pos' = [pos EXCEPT ![d] = value]
      \/ pos' = [pos EXCEPT ![d] = Own[d].safe]
  BY DEF DriverWrites, DriverRefuses
<1>2. pos \in [Devices -> Int]
  BY DEF ServerFits
<1>3. Own[d].safe \in Int
  BY OwnFacts
<1> QED
  BY <1>1, <1>2, <1>3 DEF OwnEnvelope, Accepts

LEMMA StopInside ==
    ASSUME ServerFits, OwnEnvelope, NEW d \in Devices,
           DriverStops(d) \/ DriverCannotStop(d)
    PROVE  /\ pos' \in [Devices -> Int] /\ OwnEnvelope'
           /\ lost' \subseteq Devices
<1>1. pos' = pos \/ pos' = [pos EXCEPT ![d] = Own[d].safe]
  BY DEF DriverStops, DriverCannotStop
<1>2. pos \in [Devices -> Int] /\ lost \subseteq Devices
  BY DEF ServerFits
<1>3. Own[d].safe \in Int
  BY OwnFacts
<1>4. lost' \subseteq Devices
  BY <1>2 DEF DriverStops, DriverCannotStop
<1> QED
  BY <1>1, <1>2, <1>3, <1>4 DEF OwnEnvelope

LEMMA CancelFits ==
    ASSUME ServerFits, NEW d \in Devices, Cancel(d)
    PROVE  timer' \in [Devices -> [rec : Record, left : Nat] \cup {None}]
  BY DEF ServerFits, Cancel

LEMMA ArmFits ==
    ASSUME ServerFits, NEW rec \in Record, NEW value, Arm(rec, value)
    PROVE  timer' \in [Devices -> [rec : Record, left : Nat] \cup {None}]
<1>1. rec.dev \in Devices /\ rec.tag.duration \in Nat
  BY TagFacts DEF Record
<1>2. [rec |-> rec, left |-> rec.tag.duration] \in [rec : Record, left : Nat]
  BY <1>1
<1> QED
  BY <1>1, <1>2 DEF ServerFits, Arm

(* The invariant proved first: the types, and the envelope.                 *)
Sound == Fits /\ OwnEnvelope

LEMMA InitSound == Init => Sound
<1> SUFFICES ASSUME Init PROVE Sound
  OBVIOUS
<1>1. ServerFits
  BY BoundFits, OwnFacts DEF Init, ServerFits, NoRecords
<1>2. TasksFit
  BY IdleFits DEF Init, TasksFit
<1>3. OwnEnvelope
  BY OwnFacts DEF Init, OwnEnvelope
<1> QED
  BY <1>1, <1>2, <1>3 DEF Sound, Fits

-----------------------------------------------------------------------------
(* Every step keeps it: the steps of the registry, ...                      *)

LEMMA RegistryStep ==
    ASSUME Sound, NEW d \in Devices, Deregister(d) \/ \E tag \in Tags : Register(d, tag)
    PROVE  Sound'
<1>1. registry' \in [Devices -> Record \cup {None}]
  <2>1. CASE Deregister(d)
    BY <2>1 DEF Deregister, Sound, Fits, ServerFits
  <2>2. ASSUME NEW tag \in Tags, Register(d, tag)
        PROVE  registry' \in [Devices -> Record \cup {None}]
    <3>1. Kept(d) \in BOOLEAN
      <4>1. registry[d] \in Record \cup {None}
        BY DEF Sound, Fits, ServerFits
      <4>2. CASE registry[d] = None
        BY <4>2 DEF Kept
      <4>3. CASE registry[d] \in Record
        BY <4>3 DEF Kept, Record
      <4> QED
        BY <4>1, <4>2, <4>3
    <3>2. [dev |-> d, tag |-> tag, driver |-> Kept(d)] \in Record
      BY <3>1 DEF Record
    <3> QED
      BY <2>2, <3>2 DEF Register, Sound, Fits, ServerFits
  <2> QED
    BY <2>1, <2>2
<1>2. /\ unplugged' \subseteq Devices
      /\ UNCHANGED <<up, timer, pos, task, lost>>
  BY DEF Deregister, Register, Sound, Fits, ServerFits
<1> QED
  BY <1>1, <1>2 DEF Sound, Fits, ServerFits, TasksFit, TaskFits, OwnEnvelope

(* ... those of a client, ...                                               *)
LEMMA Served ==
    ASSUME Sound, TasksFit', UNCHANGED serverVars
    PROVE  Sound'
  BY DEF Sound, Fits, ServerFits, OwnEnvelope, serverVars

LEMMA PostStep ==
    ASSUME Sound, NEW c \in Clients, NEW body \in Batches[c], Post(c, body)
    PROVE  Sound'
<1> DEFINE t == [Idle EXCEPT !.pc = "dispatch", !.body = body]
<1>1. c \in Tasks /\ c \notin Expiries
  BY DEF Tasks
<1>2. body \in Seq(ItemForm)
  OBVIOUS
<1>3. t \in TaskForm
  BY <1>2, IdleFits DEF TaskForm
<1>4. t.pc = "dispatch" /\ t.next = 1 /\ t.body = body
  BY DEF Idle
<1>5. TaskFits(c, t)
  BY <1>1, <1>2, <1>4 DEF TaskFits, Awaiting, Sweeping, Expiring
<1> HIDE DEF t
<1>6. task' = [task EXCEPT ![c] = t]
  BY DEF Post, t
<1>7. TasksFit'
  BY <1>1, <1>3, <1>5, <1>6, OneTask DEF Sound, Fits
<1> QED
  BY <1>7, Served DEF Post

LEMMA DispatchStep ==
    ASSUME Sound, NEW c \in Clients,
           AnswerAtOnce(c) \/ CallDriver(c) \/ Gather(c) \/ BeginSweep(c) \/ Respond(c)
    PROVE  Sound'
<1>1. c \in Tasks /\ task[c] \in TaskForm /\ Fits /\ TasksFit
  BY DEF Sound, Fits, TasksFit, Tasks
<1>2. CASE AnswerAtOnce(c)
  <2>1. Ready(c) /\ UNCHANGED serverVars
    BY <1>2 DEF AnswerAtOnce
  <2>2. PICK outcome \in Outcomes : Answer(c, outcome)
    BY <1>2 DEF AnswerAtOnce, Outcomes
  <2> QED
    BY <1>1, <2>1, <2>2, AnswerFits, Served DEF Ready
<1>3. CASE CallDriver(c)
  <2> DEFINE rec == registry[Item(c).dev]
  <2>1. /\ Ready(c) /\ UNCHANGED serverVars /\ Reachable(Item(c).dev)
    BY <1>3 DEF CallDriver
  <2>2. Item(c) \in ItemForm
    BY <1>1, <2>1 DEF Item, Ready, TaskForm
  <2>3. Item(c).dev \in Devices /\ Item(c).value \in Int
    BY <2>2 DEF ItemForm
  <2>4. rec \in Record
    BY <1>1, <2>1, <2>3 DEF Fits, ServerFits, Reachable
  <2> HIDE DEF rec
  <2>5. \/ Call(c, "reading", rec, None)
        \/ Call(c, "stopping", rec, None)
        \/ Call(c, "writing", rec, Item(c).value)
        \/ Call(c, "halting", rec, None)
    BY <1>3 DEF CallDriver, rec
  <2>6. TasksFit'
    BY <1>1, <2>1, <2>3, <2>4, <2>5, CallFits DEF Ready, Awaiting, Expiring
  <2> QED
    BY <2>1, <2>6, Served
<1>4. CASE BeginSweep(c)
  BY <1>1, <1>4, SweepFits, Served DEF BeginSweep
<1>5. CASE Respond(c)
  BY <1>1, <1>5, RestFits, Served DEF Respond
<1>6. CASE Gather(c)
  <2>1. TasksFit'
    BY <1>1, <1>6, MovesFits DEF Gather, Ready, Awaiting, Sweeping
  <2> QED
    BY <1>6, <2>1, Served DEF Gather
<1> QED
  BY <1>2, <1>3, <1>4, <1>5, <1>6

(* A client that awaits a driver has its record and serves an item.         *)
LEMMA AwaitingFacts ==
    ASSUME Sound, NEW c \in Clients, task[c].pc \in Awaiting
    PROVE  /\ task[c].rec \in Record /\ task[c].rec.dev \in Devices
           /\ task[c].next <= Len(task[c].body)
           /\ task[c].pc = "writing" => task[c].want \in Int
<1>1. TaskFits(c, task[c])
  BY DEF Sound, Fits, TasksFit, Tasks
<1> QED
  BY <1>1 DEF TaskFits, Record

(* What lands stays awaited, ...                                            *)
LEMMA LandStep ==
    ASSUME Sound, NEW c \in Clients, WriteLands(c) \/ StopLands(c)
    PROVE  Sound'
<1> DEFINE rec == task[c].rec
           d == rec.dev
<1>1. task[c].pc \in Awaiting
  BY DEF WriteLands, StopLands, Awaiting
<1>2. /\ rec \in Record /\ d \in Devices
      /\ task[c].next <= Len(task[c].body)
      /\ task[c].pc = "writing" => task[c].want \in Int
  BY <1>1, AwaitingFacts
<1>3. PICK pc \in {"written", "stopped", "halted"} : Lands(c, pc)
  BY DEF WriteLands, StopLands
<1>4. TasksFit'
  BY <1>2, <1>3, MovesFits DEF Lands, Sound, Fits, Awaiting
<1>5. ServerFits /\ OwnEnvelope
  BY DEF Sound, Fits
<1> HIDE DEF rec, d
<1>6. CASE WriteLands(c)
  <2>1. /\ DriverWrites(d, task[c].want) /\ task[c].want \in Int
        /\ UNCHANGED <<up, registry, timer, unplugged, lost>>
    BY <1>2, <1>6 DEF WriteLands, d, rec
  <2>2. pos' \in [Devices -> Int] /\ OwnEnvelope'
    BY <1>2, <1>5, <2>1, WriteInside
  <2> QED
    BY <1>4, <1>5, <2>1, <2>2 DEF Sound, Fits, ServerFits
<1>7. CASE StopLands(c)
  <2>1. DriverStops(d) /\ UNCHANGED <<up, registry, timer, unplugged>>
    BY <1>7 DEF StopLands, d, rec
  <2>2. pos' \in [Devices -> Int] /\ OwnEnvelope' /\ lost' \subseteq Devices
    BY <1>2, <1>5, <2>1, StopInside
  <2> QED
    BY <1>4, <1>5, <2>1, <2>2 DEF Sound, Fits, ServerFits
<1> QED
  BY <1>6, <1>7

(* ... and a call that ends is answered.                                    *)
CallEnds(c) ==
    \/ ReadReturns(c) \/ SnapshotReturns(c) \/ WriteReturns(c) \/ WriteRaises(c)
    \/ StopReturns(c) \/ StopRaises(c)

LEMMA CallStep ==
    ASSUME Sound, NEW c \in Clients, CallEnds(c)
    PROVE  Sound'
<1> DEFINE rec == task[c].rec
           d == rec.dev
<1>1. /\ task[c].pc \in Awaiting \cup Sweeping
      /\ \E outcome \in Outcomes : Answer(c, outcome)
  BY DEF CallEnds, ReadReturns, SnapshotReturns, WriteReturns, WriteRaises, StopReturns,
         StopRaises, Awaiting, Sweeping, Outcomes
<1>2. /\ task[c].next <= Len(task[c].body)
      /\ task[c].pc \in Awaiting =>
            /\ rec \in Record /\ d \in Devices
            /\ task[c].pc = "writing" => task[c].want \in Int
  BY <1>1, AwaitingFacts DEF Sound, Fits, TasksFit, TaskFits, Tasks
<1>3. TasksFit'
  BY <1>1, <1>2, AnswerFits DEF Sound, Fits
<1>4. ServerFits /\ OwnEnvelope
  BY DEF Sound, Fits
<1> HIDE DEF rec, d
<1>5. CASE ReadReturns(c) \/ SnapshotReturns(c)
  BY <1>3, <1>5, Served DEF ReadReturns, SnapshotReturns
<1>6. CASE WriteReturns(c)
  <2>1. /\ Arm(rec, task[c].want) /\ task[c].pc \in Awaiting
        /\ UNCHANGED <<up, registry, pos, unplugged, lost>>
    BY <1>6 DEF WriteReturns, rec, Awaiting
  <2>2. timer' \in [Devices -> [rec : Record, left : Nat] \cup {None}]
    BY <1>2, <1>4, <2>1, ArmFits
  <2> QED
    BY <1>3, <1>4, <2>1, <2>2 DEF Sound, Fits, ServerFits, OwnEnvelope
<1>7. CASE WriteRaises(c)
  <2>1. /\ DriverRefuses(d, task[c].want) /\ task[c].pc \in Awaiting
        /\ task[c].pc = "writing"
        /\ UNCHANGED <<up, registry, timer, unplugged, lost>>
    BY <1>7 DEF WriteRaises, d, rec, Awaiting
  <2>2. pos' \in [Devices -> Int] /\ OwnEnvelope'
    BY <1>2, <1>4, <2>1, WriteInside
  <2> QED
    BY <1>3, <1>4, <2>1, <2>2 DEF Sound, Fits, ServerFits
<1>8. CASE StopReturns(c)
  <2>1. /\ Cancel(d) /\ task[c].pc \in Awaiting
        /\ UNCHANGED <<up, registry, pos, unplugged, lost>>
    BY <1>8 DEF StopReturns, d, rec, Awaiting
  <2>2. timer' \in [Devices -> [rec : Record, left : Nat] \cup {None}]
    BY <1>2, <1>4, <2>1, CancelFits
  <2> QED
    BY <1>3, <1>4, <2>1, <2>2 DEF Sound, Fits, ServerFits, OwnEnvelope
<1>9. CASE StopRaises(c)
  <2>1. /\ DriverCannotStop(d) /\ task[c].pc \in Awaiting
        /\ UNCHANGED <<up, registry, timer, unplugged>>
    BY <1>9 DEF StopRaises, d, rec, Awaiting
  <2>2. pos' \in [Devices -> Int] /\ OwnEnvelope' /\ lost' \subseteq Devices
    BY <1>2, <1>4, <2>1, StopInside
  <2> QED
    BY <1>3, <1>4, <2>1, <2>2 DEF Sound, Fits, ServerFits
<1> QED
  BY <1>5, <1>6, <1>7, <1>8, <1>9 DEF CallEnds

Visits(c, rec) == SweepSkips(c, rec) \/ SweepCancels(c, rec) \/ SweepFails(c, rec)

LEMMA VisitStep ==
    ASSUME Sound, NEW c \in Clients, NEW rec \in task[c].queue,
           Visits(c, rec) \/ SweepStops(c, rec)
    PROVE  Sound'
<1>1. rec \in Record /\ rec.dev \in Devices
  <2>1. task[c] \in TaskForm
    BY DEF Sound, Fits, TasksFit, Tasks
  <2> QED
    BY <2>1 DEF TaskForm, Record
<1>2. ServerFits /\ TasksFit /\ OwnEnvelope
  BY DEF Sound, Fits
<1>3. ASSUME Visits(c, rec) PROVE TasksFit'
  <2>1. /\ task[c].pc \in Sweeping
        /\ \E what \in Said : Reported(c, rec, what)
    BY <1>3 DEF Visits, SweepSkips, SweepCancels, SweepFails, Visiting, Sweeping, Said
  <2> QED
    BY <1>1, <1>2, <2>1, ReportedFits
<1>4. CASE SweepSkips(c, rec)
  BY <1>3, <1>4, Served DEF SweepSkips, Visits
<1>5. CASE SweepStops(c, rec)
  <2>1. DriverStops(rec.dev) /\ UNCHANGED <<up, registry, timer, unplugged>>
    BY <1>5 DEF SweepStops
  <2>2. pos' \in [Devices -> Int] /\ OwnEnvelope' /\ lost' \subseteq Devices
    BY <1>1, <1>2, <2>1, StopInside
  <2>3. TasksFit'
    <3> DEFINE t == [task[c] EXCEPT !.rec = rec]
    <3>1. c \in Tasks /\ task[c] \in TaskForm /\ TaskFits(c, task[c])
      BY <1>2 DEF TasksFit, Tasks
    <3>2. t \in TaskForm
      BY <1>1, <3>1 DEF TaskForm
    <3>3. /\ t.pc = task[c].pc /\ t.next = task[c].next /\ t.body = task[c].body
          /\ t.rec = rec /\ t.want = task[c].want
      BY <3>1 DEF TaskForm
    <3>4. TaskFits(c, t)
      BY <1>1, <3>1, <3>3 DEF TaskFits
    <3>5. task' = [task EXCEPT ![c] = t]
      BY <1>2, <1>5, <3>1 DEF SweepStops, TasksFit
    <3> HIDE DEF t
    <3> QED
      BY <1>2, <3>1, <3>2, <3>4, <3>5, OneTask
  <2> QED
    BY <1>2, <2>1, <2>2, <2>3 DEF Sound, Fits, ServerFits
<1>6. CASE SweepCancels(c, rec)
  <2>1. Cancel(rec.dev) /\ UNCHANGED <<up, registry, pos, unplugged, lost>>
    BY <1>6 DEF SweepCancels
  <2>2. timer' \in [Devices -> [rec : Record, left : Nat] \cup {None}]
    BY <1>1, <1>2, <2>1, CancelFits
  <2> QED
    BY <1>2, <1>3, <1>6, <2>1, <2>2 DEF Sound, Fits, ServerFits, OwnEnvelope, Visits
<1>7. CASE SweepFails(c, rec)
  <2>1. DriverCannotStop(rec.dev) /\ UNCHANGED <<up, registry, timer, unplugged>>
    BY <1>7 DEF SweepFails
  <2>2. pos' \in [Devices -> Int] /\ OwnEnvelope' /\ lost' \subseteq Devices
    BY <1>1, <1>2, <2>1, StopInside
  <2> QED
    BY <1>2, <1>3, <1>7, <2>1, <2>2 DEF Sound, Fits, ServerFits, Visits
<1> QED
  BY <1>4, <1>5, <1>6, <1>7 DEF Visits

LEMMA SweepEndStep ==
    ASSUME Sound, NEW c \in Clients, SweepEnds(c)
    PROVE  Sound'
<1> DEFINE t == [Answered(c, "result") EXCEPT !.report = << >>]
<1>1. c \in Tasks /\ TasksFit /\ TaskFits(c, task[c])
  BY DEF Sound, Fits, TasksFit, Tasks
<1>2. task[c].next <= Len(task[c].body)
  BY <1>1 DEF SweepEnds, TaskFits, Sweeping
<1>3. Answered(c, "result") \in TaskForm /\ TaskFits(c, Answered(c, "result"))
  BY <1>1, <1>2, AnsweredFits DEF Outcomes
<1>4. << >> \in Reports
  BY IdleFits DEF Idle, TaskForm
<1>5. t \in TaskForm
  BY <1>3, <1>4 DEF TaskForm
<1>6. /\ t.pc = Answered(c, "result").pc /\ t.next = Answered(c, "result").next
      /\ t.body = Answered(c, "result").body /\ t.rec = Answered(c, "result").rec
      /\ t.want = Answered(c, "result").want
  BY <1>3 DEF TaskForm
<1>7. TaskFits(c, t)
  BY <1>3, <1>6 DEF TaskFits
<1>8. task' = [task EXCEPT ![c] = t]
  BY DEF SweepEnds
<1> HIDE DEF t
<1>9. TasksFit'
  BY <1>1, <1>5, <1>7, <1>8, OneTask
<1> QED
  BY <1>9, Served DEF SweepEnds

LEMMA ServeStep ==
    ASSUME Sound, NEW c \in Clients, Serve(c)
    PROVE  Sound'
  BY DispatchStep, LandStep, CallStep, VisitStep, SweepEndStep DEF Serve, Visits, CallEnds

(* ... those of a timer, ...                                                *)
LEMMA ExpireStep ==
    ASSUME Sound, NEW p \in Expiries, NEW d \in Devices, Expire(p, d)
    PROVE  Sound'
<1>1. /\ timer[d].rec \in Record /\ timer[d].rec.tag \in Tags
      /\ timer[d].rec.tag.default \in Int
  <2>1. timer[d] \in [rec : Record, left : Nat]
    BY DEF Expire, Sound, Fits, ServerFits
  <2> QED
    BY <2>1, TagFacts DEF Record
<1>2. p \in Tasks
  BY DEF Tasks
<1>3. Call(p, "returning", timer[d].rec, timer[d].rec.tag.default)
  BY DEF Expire
<1>4. TasksFit'
  BY <1>1, <1>2, <1>3, CallFits DEF Sound, Fits, Awaiting, Expiring
<1>5. timer' \in [Devices -> [rec : Record, left : Nat] \cup {None}]
  BY CancelFits DEF Expire, Sound, Fits
<1> QED
  BY <1>4, <1>5 DEF Expire, Sound, Fits, ServerFits, OwnEnvelope

LEMMA ReturnStep ==
    ASSUME Sound, NEW p \in Expiries, Return(p)
    PROVE  Sound'
<1> DEFINE d == task[p].rec.dev
<1>1. p \in Tasks /\ p \notin Clients
  BY DEF Tasks
<1>2. task[p] \in TaskForm /\ TaskFits(p, task[p]) /\ ServerFits /\ TasksFit /\ OwnEnvelope
  BY <1>1 DEF Sound, Fits, TasksFit
<1>3. task[p].pc \in Expiring
  BY DEF Return, ExpiryReturns, ExpiryFallsBack, ExpiryStops, Expiring
<1>4. d \in Devices /\ (task[p].pc = "returning" => task[p].want \in Int)
  BY <1>2, <1>3 DEF TaskFits, Record
<1> HIDE DEF d
<1>5. CASE ExpiryReturns(p)
  <2>1. /\ DriverWrites(d, task[p].want) /\ task[p].want \in Int
        /\ UNCHANGED <<up, registry, timer, unplugged, lost>>
    BY <1>4, <1>5 DEF ExpiryReturns, d
  <2>2. pos' \in [Devices -> Int] /\ OwnEnvelope'
    BY <1>2, <1>4, <2>1, WriteInside
  <2>3. TasksFit'
    BY <1>1, <1>2, <1>5, RestFits DEF ExpiryReturns
  <2> QED
    BY <1>2, <2>1, <2>2, <2>3 DEF Sound, Fits, ServerFits
<1>6. CASE ExpiryFallsBack(p)
  <2>1. /\ DriverRefuses(d, task[p].want) /\ task[p].want \in Int
        /\ UNCHANGED <<up, registry, timer, unplugged, lost>>
    BY <1>4, <1>6 DEF ExpiryFallsBack, d
  <2>2. pos' \in [Devices -> Int] /\ OwnEnvelope'
    BY <1>2, <1>4, <2>1, WriteInside
  <2>3. TasksFit'
    <3> DEFINE t == [task[p] EXCEPT !.pc = "falling"]
    <3>1. t \in TaskForm
      BY <1>2 DEF TaskForm, Expiring
    <3>2. /\ t.pc = "falling" /\ t.next = task[p].next /\ t.body = task[p].body
          /\ t.rec = task[p].rec
      BY <1>2 DEF TaskForm
    <3>3. TaskFits(p, t)
      BY <1>1, <1>2, <1>3, <3>2 DEF TaskFits, Awaiting, Sweeping, Expiring
    <3>4. task' = [task EXCEPT ![p] = t]
      BY <1>1, <1>2, <1>6 DEF ExpiryFallsBack, TasksFit
    <3> HIDE DEF t
    <3> QED
      BY <1>1, <1>2, <3>1, <3>3, <3>4, OneTask
  <2> QED
    BY <1>2, <2>1, <2>2, <2>3 DEF Sound, Fits, ServerFits
<1>7. CASE ExpiryStops(p)
  <2>1. /\ DriverStops(d) \/ DriverCannotStop(d)
        /\ UNCHANGED <<up, registry, timer, unplugged>>
    BY <1>7 DEF ExpiryStops, d
  <2>2. pos' \in [Devices -> Int] /\ OwnEnvelope' /\ lost' \subseteq Devices
    BY <1>2, <1>4, <2>1, StopInside
  <2>3. TasksFit'
    BY <1>1, <1>2, <1>7, RestFits DEF ExpiryStops
  <2> QED
    BY <1>2, <2>1, <2>2, <2>3 DEF Sound, Fits, ServerFits
<1> QED
  BY <1>5, <1>6, <1>7 DEF Return

LEMMA TickStep ==
    ASSUME Sound, Tick
    PROVE  Sound'
<1>1. timer' \in [Devices -> [rec : Record, left : Nat] \cup {None}]
  <2> SUFFICES ASSUME NEW d \in Devices, timer[d] # None
               PROVE  [timer[d] EXCEPT !.left = IF @ = 0 THEN 0 ELSE @ - 1]
                        \in [rec : Record, left : Nat]
    BY DEF Tick
  <2> DEFINE left == IF timer[d].left = 0 THEN 0 ELSE timer[d].left - 1
  <2>1. timer[d] \in [rec : Record, left : Nat]
    BY DEF Sound, Fits, ServerFits
  <2>2. left \in Nat
    BY <2>1
  <2> HIDE DEF left
  <2>3. [timer[d] EXCEPT !.left = left] \in [rec : Record, left : Nat]
    BY <2>1, <2>2
  <2> QED
    BY <2>3 DEF left
<1>2. UNCHANGED <<up, registry, pos, task, lost, unplugged>>
  BY DEF Tick
<1> QED
  BY <1>1, <1>2 DEF Sound, Fits, ServerFits, TasksFit, TaskFits, OwnEnvelope

(* ... and those of the lifespan.                                           *)
LEMMA LifespanStep ==
    ASSUME Sound, Shutdown \/ Start
    PROVE  Sound'
<1>1. CASE Shutdown
  BY <1>1, IdleFits DEF Shutdown, NoRecords, Sound, Fits, ServerFits, TasksFit, OwnEnvelope
<1>2. CASE Start
  BY <1>2, BoundFits
     DEF Start, Sound, Fits, ServerFits, TasksFit, TaskFits, OwnEnvelope
<1> QED
  BY <1>1, <1>2

LEMMA NextSound == Sound /\ [Next]_vars => Sound'
<1> SUFFICES ASSUME Sound, [Next]_vars PROVE Sound'
  OBVIOUS
<1>1. CASE UNCHANGED vars
  BY <1>1 DEF vars, Sound, Fits, ServerFits, TasksFit, TaskFits, OwnEnvelope
<1>2. CASE Next
  <2>1. ASSUME NEW d \in Devices, NEW tag \in Announced[d], Register(d, tag)
        PROVE  Sound'
    <3>1. tag \in Tags
      OBVIOUS
    <3> QED
      BY <2>1, <3>1, RegistryStep
  <2>2. ASSUME NEW d \in Devices, Announce(d) PROVE Sound'
    BY <2>2, OwnFacts, RegistryStep DEF Announce
  <2> QED
    BY <1>2, <2>1, <2>2, RegistryStep, PostStep, ServeStep, ExpireStep, ReturnStep,
       TickStep, LifespanStep DEF Next
<1> QED
  BY <1>1, <1>2

LEMMA AlwaysSound == Spec => []Sound
  BY InitSound, NextSound, PTL DEF Spec

(* At every moment the registry, the timers and the actuators hold what     *)
(* their users take from them without asking: a record of the device, a tag *)
(* its driver can be checked against, an item of the body still to serve    *)
(* (registry.py:31-58, rpc.py:528-599, watchdog.py:45-59).                  *)
THEOREM TypeCorrect == Spec => []TypeOK
<1>1. Sound => TypeOK
  <2> SUFFICES ASSUME Sound PROVE TypeOK
    OBVIOUS
  <2>1. ASSUME NEW p \in Tasks
        PROVE  /\ task[p].rec \in Record \cup {None}
               /\ task[p].queue \subseteq Record
               /\ task[p].next \in 1 .. Len(task[p].body) + 1
    <3>1. task[p] \in TaskForm /\ TaskFits(p, task[p])
      BY DEF Sound, Fits, TasksFit
    <3> QED
      BY <3>1 DEF TaskForm, TaskFits
  <2> QED
    BY <2>1 DEF Sound, Fits, ServerFits, TasksFit, TypeOK
<1> QED
  BY <1>1, AlwaysSound, PTL

(* Whatever tags are announced, whoever writes, reads or stops, and however *)
(* the registry changes under a request or a timer that is awaiting: every  *)
(* actuator stays inside the bound its driver was built with or at that     *)
(* driver's safe value (base.py:150-226, discovery.py:28-47).               *)
THEOREM EnvelopeKept == Spec => []OwnEnvelope
<1>1. Sound => OwnEnvelope
  BY DEF Sound
<1> QED
  BY <1>1, AlwaysSound, PTL

-----------------------------------------------------------------------------
(* The answers of a batch.                                                  *)

Matches(t) ==
    /\ {t.answers[i].to : i \in DOMAIN t.answers} =
           {j \in 1 .. t.next - 1 : t.body[j].id \/ t.body[j].op = "malformed"}
    /\ \A i, j \in DOMAIN t.answers : i < j => t.answers[i].to < t.answers[j].to

LEMMA MatchesForm == AnswersMatch <=> \A c \in Clients : Matches(task[c])
  BY DEF AnswersMatch, Matches

(* Nothing is answered before the first item is done.                       *)
LEMMA FreshMatches ==
    ASSUME NEW t, t.answers = << >>, t.next = 1
    PROVE  Matches(t)
  BY DEF Matches

(* Steps that answer nothing.                                               *)
LEMMA SameMatches ==
    ASSUME NEW t, NEW u, Matches(t),
           u.answers = t.answers, u.next = t.next, u.body = t.body
    PROVE  Matches(u)
  BY DEF Matches

(* The answer to the item served comes after all the others.                *)
LEMMA AnsweredMatches ==
    ASSUME TasksFit, NEW c \in Clients, NEW outcome, Matches(task[c]),
           task[c].next <= Len(task[c].body)
    PROVE  Matches(Answered(c, outcome))
<1> DEFINE t == task[c]
           u == Answered(c, outcome)
           done(n) == {j \in 1 .. n : t.body[j].id \/ t.body[j].op = "malformed"}
<1>1. t \in TaskForm
  BY DEF TasksFit, Tasks
<1>2. /\ t.answers \in Seq([to : Nat, outcome : Outcomes])
      /\ t.next \in Nat \ {0}
  BY <1>1 DEF TaskForm
<1>3. u.next = t.next + 1 /\ u.body = t.body
  BY <1>1 DEF Answered, TaskForm
<1>4. /\ {t.answers[i].to : i \in DOMAIN t.answers} = done(t.next - 1)
      /\ \A i, j \in DOMAIN t.answers : i < j => t.answers[i].to < t.answers[j].to
  BY DEF Matches
<1>5. u.next - 1 = t.next
  BY <1>2, <1>3
<1>6. CASE Answerable(Item(c))
  <2> DEFINE new == [to |-> t.next, outcome |-> outcome]
             n == Len(t.answers)
  <2>1. u.answers = Append(t.answers, new)
    BY <1>1, <1>6 DEF Answered, TaskForm
  <2>2. n \in Nat /\ DOMAIN t.answers = 1 .. n
    BY <1>2
  <2>3. DOMAIN u.answers = 1 .. n + 1
    BY <1>2, <2>1
  <2>4. \A i \in 1 .. n : u.answers[i] = t.answers[i]
    BY <1>2, <2>1, <2>2
  <2>5. u.answers[n + 1].to = t.next
    BY <1>2, <2>1, <2>2
  <2>6. done(t.next) = done(t.next - 1) \cup {t.next}
    BY <1>2, <1>6 DEF Answerable, Item
  <2>7. \A i \in 1 .. n : t.answers[i].to \in done(t.next - 1)
    BY <1>4, <2>2
  <2>8. \A i \in 1 .. n : u.answers[i].to < t.next
    <3>1. \A j \in done(t.next - 1) : j < t.next
      BY <1>2
    <3> HIDE DEF done
    <3> QED
      BY <2>4, <2>7, <3>1
  <2>9. {u.answers[i].to : i \in DOMAIN u.answers} = done(t.next)
    <3>1. {u.answers[i].to : i \in 1 .. n + 1}
            = {u.answers[i].to : i \in 1 .. n} \cup {u.answers[n + 1].to}
      BY <2>2
    <3>2. {u.answers[i].to : i \in 1 .. n} = {t.answers[i].to : i \in 1 .. n}
      BY <2>4
    <3> QED
      BY <1>4, <2>2, <2>3, <2>5, <2>6, <3>1, <3>2
  <2>10. ASSUME NEW i \in DOMAIN u.answers, NEW j \in DOMAIN u.answers, i < j
         PROVE  u.answers[i].to < u.answers[j].to
    <3>1. i \in 1 .. n
      BY <2>2, <2>3, <2>10
    <3>2. CASE j = n + 1
      BY <2>5, <2>8, <3>1, <3>2
    <3>3. CASE j \in 1 .. n
      BY <1>4, <2>2, <2>4, <2>10, <3>1, <3>3
    <3> QED
      BY <2>2, <2>3, <3>2, <3>3
  <2> QED
    <3> SUFFICES Matches(u)
      OBVIOUS
    <3> HIDE DEF u
    <3> QED
      BY <1>3, <1>5, <2>9, <2>10 DEF Matches
<1>7. CASE ~Answerable(Item(c))
  <2>1. u.answers = t.answers
    BY <1>1, <1>7 DEF Answered, TaskForm
  <2>2. done(t.next) = done(t.next - 1)
    BY <1>2, <1>7 DEF Answerable, Item
  <2> QED
    <3> SUFFICES Matches(u)
      OBVIOUS
    <3> HIDE DEF u
    <3> QED
      BY <1>3, <1>4, <1>5, <2>1, <2>2 DEF Matches
<1> QED
  BY <1>6, <1>7

LEMMA OneMatches ==
    ASSUME TasksFit, AnswersMatch, NEW p \in Tasks, NEW t, Matches(t),
           task' = [task EXCEPT ![p] = t]
    PROVE  AnswersMatch'
<1> SUFFICES ASSUME NEW c \in Clients PROVE Matches(task'[c])
  BY DEF AnswersMatch, Matches
<1>1. task'[c] = task[c] \/ task'[c] = t
  BY DEF TasksFit, Tasks
<1> QED
  BY <1>1, MatchesForm

LEMMA AnswerMatches ==
    ASSUME TasksFit, AnswersMatch, NEW c \in Clients, NEW outcome,
           task[c].next <= Len(task[c].body), Answer(c, outcome)
    PROVE  AnswersMatch'
  BY AnsweredMatches, MatchesForm, OneMatches DEF Answer, Tasks

(* Steps of a task that answer nothing, and steps of no task.               *)
LEMMA KeepsMatches ==
    ASSUME AnswersMatch,
           \A p \in Tasks : /\ task'[p].answers = task[p].answers
                            /\ task'[p].next = task[p].next
                            /\ task'[p].body = task[p].body
    PROVE  AnswersMatch'
<1> SUFFICES ASSUME NEW c \in Clients PROVE Matches(task'[c])
  BY DEF AnswersMatch, Matches
<1>1. c \in Tasks
  BY DEF Tasks
<1> QED
  BY <1>1, MatchesForm, SameMatches

LEMMA ServeMatches ==
    ASSUME Sound, AnswersMatch, NEW c \in Clients, Serve(c)
    PROVE  AnswersMatch'
<1>1. /\ c \in Tasks /\ TasksFit /\ task \in [Tasks -> TaskForm] /\ task[c] \in TaskForm
      /\ TaskFits(c, task[c])
  BY DEF Sound, Fits, TasksFit, Tasks
<1>2. ASSUME NEW outcome, Answer(c, outcome),
             Ready(c) \/ task[c].pc \in Awaiting \cup Sweeping
      PROVE  AnswersMatch'
  <2>1. task[c].next <= Len(task[c].body)
    BY <1>1, <1>2 DEF Ready, TaskFits
  <2> QED
    BY <1>1, <1>2, <2>1, AnswerMatches
<1>3. CASE AnswerAtOnce(c)
  BY <1>2, <1>3 DEF AnswerAtOnce
<1>4. CASE CallDriver(c)
  <2>1. PICK pc, rec, want : Call(c, pc, rec, want)
    BY <1>4 DEF CallDriver
  <2>2. \A p \in Tasks : /\ task'[p].answers = task[p].answers
                         /\ task'[p].next = task[p].next
                         /\ task'[p].body = task[p].body
    BY <1>1, <2>1 DEF Call, TaskForm
  <2> QED
    BY <2>2, KeepsMatches
<1>5. CASE \/ Gather(c) \/ BeginSweep(c) \/ WriteLands(c) \/ StopLands(c)
           \/ \E rec \in task[c].queue : SweepStops(c, rec)
  <2>1. \A p \in Tasks : /\ task'[p].answers = task[p].answers
                         /\ task'[p].next = task[p].next
                         /\ task'[p].body = task[p].body
    <3>1. CASE BeginSweep(c)
      BY <1>1, <3>1 DEF BeginSweep, TaskForm
    <3>2. CASE Gather(c) \/ WriteLands(c) \/ StopLands(c)
      <4>1. \E pc : task' = [task EXCEPT ![c].pc = pc]
        BY <3>2 DEF Gather, WriteLands, StopLands, Lands
      <4> QED
        BY <1>1, <4>1 DEF TaskForm
    <3>3. CASE \E rec \in task[c].queue : SweepStops(c, rec)
      BY <1>1, <3>3 DEF SweepStops, TaskForm
    <3> QED
      BY <1>5, <3>1, <3>2, <3>3
  <2> QED
    BY <2>1, KeepsMatches
<1>6. CASE Respond(c)
  BY <1>1, <1>6, FreshMatches, OneMatches DEF Respond, Idle
<1>7. CASE CallEnds(c)
  <2>1. task[c].pc \in Awaiting \cup Sweeping /\ \E outcome : Answer(c, outcome)
    BY <1>7 DEF CallEnds, ReadReturns, SnapshotReturns, WriteReturns, WriteRaises,
                StopReturns, StopRaises, Awaiting, Sweeping
  <2> QED
    BY <1>2, <2>1
<1>8. CASE \E rec \in task[c].queue : Visits(c, rec)
  <2>1. PICK rec, what : Reported(c, rec, what)
    BY <1>8 DEF Visits, SweepSkips, SweepCancels, SweepFails
  <2>2. \A p \in Tasks : /\ task'[p].answers = task[p].answers
                         /\ task'[p].next = task[p].next
                         /\ task'[p].body = task[p].body
    BY <1>1, <2>1 DEF Reported, TaskForm
  <2> QED
    BY <2>2, KeepsMatches
<1>9. CASE SweepEnds(c)
  <2> DEFINE t == [Answered(c, "result") EXCEPT !.report = << >>]
  <2>1. task[c].next <= Len(task[c].body)
    BY <1>1, <1>9 DEF SweepEnds, TaskFits, Sweeping
  <2>2. Matches(Answered(c, "result")) /\ Answered(c, "result") \in TaskForm
    BY <1>1, <2>1, AnsweredMatches, AnsweredFits, MatchesForm DEF Outcomes
  <2>3. /\ t.answers = Answered(c, "result").answers
        /\ t.next = Answered(c, "result").next /\ t.body = Answered(c, "result").body
    BY <2>2 DEF TaskForm
  <2>4. Matches(t)
    BY <2>2, <2>3, SameMatches
  <2>5. task' = [task EXCEPT ![c] = t]
    BY <1>9 DEF SweepEnds
  <2> HIDE DEF t
  <2> QED
    BY <1>1, <2>4, <2>5, OneMatches
<1> QED
  BY <1>3, <1>4, <1>5, <1>6, <1>7, <1>8, <1>9 DEF Serve, Visits, CallEnds

LEMMA NextMatches == Sound /\ AnswersMatch /\ [Next]_vars => AnswersMatch'
<1> SUFFICES ASSUME Sound, AnswersMatch, [Next]_vars PROVE AnswersMatch'
  OBVIOUS
<1>1. TasksFit /\ task \in [Tasks -> TaskForm]
  BY DEF Sound, Fits, TasksFit
<1>2. CASE UNCHANGED task
  BY <1>2, KeepsMatches
<1>3. ASSUME NEW c \in Clients, NEW body \in Batches[c], Post(c, body) PROVE AnswersMatch'
  <2> DEFINE t == [Idle EXCEPT !.pc = "dispatch", !.body = body]
  <2>1. c \in Tasks /\ Matches(t)
    BY FreshMatches DEF Idle, Tasks
  <2>2. task' = [task EXCEPT ![c] = t]
    BY <1>3 DEF Post
  <2> HIDE DEF t
  <2> QED
    BY <1>1, <2>1, <2>2, OneMatches
<1>4. ASSUME NEW p \in Expiries, NEW d \in Devices, Expire(p, d) PROVE AnswersMatch'
  <2>1. \A q \in Tasks : /\ task'[q].answers = task[q].answers
                         /\ task'[q].next = task[q].next
                         /\ task'[q].body = task[q].body
    BY <1>1, <1>4 DEF Expire, Call, TaskForm
  <2> QED
    BY <2>1, KeepsMatches
<1>5. ASSUME NEW p \in Expiries, Return(p) PROVE AnswersMatch'
  <2>1. CASE task' = [task EXCEPT ![p] = Idle]
    <3>1. Matches(Idle)
      BY FreshMatches DEF Idle
    <3>2. p \in Tasks
      BY DEF Tasks
    <3> QED
      BY <1>1, <2>1, <3>1, <3>2, OneMatches
  <2>2. CASE task' = [task EXCEPT ![p].pc = "falling"]
    <3>1. \A q \in Tasks : /\ task'[q].answers = task[q].answers
                           /\ task'[q].next = task[q].next
                           /\ task'[q].body = task[q].body
      BY <1>1, <2>2 DEF TaskForm
    <3> QED
      BY <3>1, KeepsMatches
  <2> QED
    BY <1>5, <2>1, <2>2 DEF Return, ExpiryReturns, ExpiryFallsBack, ExpiryStops
<1>6. CASE Shutdown
  <2>1. \A p \in Tasks : task'[p] = Idle
    BY <1>6 DEF Shutdown
  <2>2. Matches(Idle)
    BY FreshMatches DEF Idle
  <2> QED
    BY <2>1, <2>2 DEF AnswersMatch, Matches, Tasks
<1> QED
  BY <1>2, <1>3, <1>4, <1>5, <1>6, ServeMatches
     DEF Next, vars, Register, Announce, Deregister, Tick, Start

(* In a batch every item that wants an answer gets one, in order and only   *)
(* one, whatever the items before it did to the devices or to the registry, *)
(* and a notification gets none (rpc.py:528-582, 595-599).                  *)
THEOREM BatchAnswered == Spec => []AnswersMatch
<1>1. Init => AnswersMatch
  <2>1. Matches(Idle)
    BY FreshMatches DEF Idle
  <2> QED
    BY <2>1 DEF Init, AnswersMatch, Matches, Tasks
<1> QED
  BY <1>1, NextMatches, AlwaysSound, PTL DEF Spec

-----------------------------------------------------------------------------
(* What a sweep reports.                                                    *)

(* A record is its device's, and while the server runs a device it started  *)
(* with has its driver until it is deregistered.                            *)
Kin ==
    \A d \in Devices :
        /\ registry[d] # None => registry[d].dev = d
        /\ up /\ d \in Local => Reachable(d) \/ d \in unplugged

(* Nothing runs while the server is down.                                   *)
Quiet == ~up => timer = NoRecords /\ \A p \in Tasks : task[p] = Idle

(* What a sweep still owes a word is in its queue, and no record it holds   *)
(* lacks a driver for another reason than a deregistration.                 *)
Accounted(t, gone) ==
    t.pc = "stop_all" =>
        /\ \A d \in DOMAIN t.report :
              /\ t.report[d] = "pending" => \E rec \in t.queue : rec.dev = d
              /\ t.report[d] = "unbound" => d \notin Local \/ d \in gone
        /\ \A rec \in t.queue : rec.dev \in Local /\ ~rec.driver => rec.dev \in gone

SweepInv ==
    /\ Kin /\ Quiet
    /\ \A p \in Tasks : Accounted(task[p], unplugged)

(* A step that changes one task, and perhaps takes a device out.            *)
LEMMA OneAccounted ==
    ASSUME TasksFit, \A p \in Tasks : Accounted(task[p], unplugged),
           NEW p \in Tasks, NEW t, Accounted(t, unplugged),
           task' = [task EXCEPT ![p] = t]
    PROVE  \A q \in Tasks : Accounted(task'[q], unplugged)
<1> SUFFICES ASSUME NEW q \in Tasks PROVE Accounted(task'[q], unplugged)
  OBVIOUS
<1>1. task'[q] = task[q] \/ task'[q] = t
  BY DEF TasksFit
<1> QED
  BY <1>1

(* The sweep takes the records listed: every device listed has its record   *)
(* in the queue.                                                            *)
LEMMA BeginAccounted ==
    ASSUME Sound, Kin, Quiet, NEW c \in Clients, BeginSweep(c)
    PROVE  Accounted(task'[c], unplugged)
<1>1. c \in Tasks /\ task \in [Tasks -> TaskForm] /\ task[c] \in TaskForm
  BY DEF Sound, Fits, TasksFit, Tasks
<1>2. up
  BY <1>1 DEF BeginSweep, Ready, Quiet, Idle
<1>3. task'[c].queue = Listed /\ task'[c].report = Unsaid(Listed)
  BY <1>1 DEF BeginSweep, TaskForm
<1>4. DOMAIN Unsaid(Listed) = {rec.dev : rec \in Listed}
      /\ \A d \in DOMAIN Unsaid(Listed) : Unsaid(Listed)[d] = "pending"
  BY DEF Unsaid
<1>5. ASSUME NEW rec \in Listed, rec.dev \in Local, ~rec.driver
      PROVE  rec.dev \in unplugged
  <2>1. PICK d \in Devices : rec = registry[d] /\ registry[d] # None
    BY DEF Listed
  <2>2. rec.dev = d
    BY <2>1 DEF Kin
  <2> QED
    BY <1>2, <1>5, <2>1, <2>2 DEF Kin, Reachable
<1> QED
  BY <1>3, <1>4, <1>5 DEF Accounted

(* A record is left behind with a word that is not "pending".               *)
LEMMA ReportAccounted ==
    ASSUME Sound, NEW c \in Clients, Accounted(task[c], unplugged),
           NEW rec \in task[c].queue, NEW what \in Said \ {"pending"},
           Reported(c, rec, what), what = "unbound" => ~rec.driver
    PROVE  Accounted(task'[c], unplugged)
<1>1. c \in Tasks /\ task \in [Tasks -> TaskForm] /\ task[c] \in TaskForm
  BY DEF Sound, Fits, TasksFit, Tasks
<1>2. /\ task'[c].pc = task[c].pc
      /\ task'[c].queue = task[c].queue \ {rec}
      /\ task'[c].report = [task[c].report EXCEPT ![rec.dev] = what]
  BY <1>1 DEF Reported, TaskForm
<1> SUFFICES ASSUME task[c].pc = "stop_all" PROVE Accounted(task'[c], unplugged)
  BY <1>2 DEF Accounted
<1>3. DOMAIN task'[c].report = DOMAIN task[c].report
  BY <1>2
<1>4. ASSUME NEW d \in DOMAIN task'[c].report
      PROVE  /\ task'[c].report[d] = "pending" => \E other \in task'[c].queue : other.dev = d
             /\ task'[c].report[d] = "unbound" => d \notin Local \/ d \in unplugged
  <2>1. CASE d = rec.dev
    BY <1>2, <1>3, <1>4, <2>1 DEF Accounted
  <2>2. CASE d # rec.dev
    <3>1. task'[c].report[d] = task[c].report[d]
      BY <1>2, <1>3, <1>4, <2>2
    <3> QED
      BY <1>2, <1>3, <1>4, <2>2, <3>1 DEF Accounted
  <2> QED
    BY <2>1, <2>2
<1>5. \A other \in task'[c].queue :
         other.dev \in Local /\ ~other.driver => other.dev \in unplugged
  BY <1>2 DEF Accounted
<1> QED
  BY <1>4, <1>5 DEF Accounted

(* While the server is down no client and no timer moves.                   *)
LEMMA UpWhenServing ==
    ASSUME Sound, Quiet, NEW c \in Clients, Serve(c)
    PROVE  up
<1>1. c \in Tasks
  BY DEF Tasks
<1>2. SUFFICES ASSUME task[c] = Idle PROVE FALSE
  BY <1>1 DEF Quiet
<1>3. task[c].pc = "idle" /\ task[c].queue = {}
  BY <1>2 DEF Idle
<1> QED
  BY <1>3 DEF Serve, AnswerAtOnce, CallDriver, Gather, BeginSweep, Respond, Ready,
              ReadReturns, SnapshotReturns, WriteLands, WriteReturns, WriteRaises,
              StopLands, StopReturns, StopRaises, SweepEnds

LEMMA ServeAccounted ==
    ASSUME Sound, SweepInv, NEW c \in Clients, Serve(c)
    PROVE  SweepInv'
<1>1. c \in Tasks /\ TasksFit /\ task \in [Tasks -> TaskForm] /\ task[c] \in TaskForm
  BY DEF Sound, Fits, TasksFit, Tasks
<1>2. up
  BY UpWhenServing DEF SweepInv
<1>3. UNCHANGED <<up, registry, unplugged>>
  BY DEF Serve, AnswerAtOnce, CallDriver, Gather, BeginSweep, Respond, ReadReturns,
         SnapshotReturns, WriteLands, WriteReturns, WriteRaises, StopLands, StopReturns,
         StopRaises, SweepSkips, SweepStops, SweepCancels, SweepFails, SweepEnds, serverVars
<1>4. Kin' /\ Quiet'
  BY <1>2, <1>3 DEF SweepInv, Kin, Quiet, Reachable
<1>5. \E t : task' = [task EXCEPT ![c] = t] /\ t = task'[c]
  <2>1. CASE AnswerAtOnce(c) \/ CallEnds(c)
    BY <1>1, <2>1 DEF AnswerAtOnce, CallEnds, ReadReturns, SnapshotReturns, WriteReturns,
                      WriteRaises, StopReturns, StopRaises, Answer
  <2>2. CASE CallDriver(c)
    BY <1>1, <2>2 DEF CallDriver, Call
  <2>3. CASE Gather(c) \/ BeginSweep(c) \/ WriteLands(c) \/ StopLands(c)
    BY <1>1, <2>3 DEF Gather, BeginSweep, WriteLands, StopLands, Lands
  <2>4. CASE Respond(c)
    BY <1>1, <2>4 DEF Respond
  <2>5. CASE \E rec \in task[c].queue : Visits(c, rec) \/ SweepStops(c, rec)
    BY <1>1, <2>5 DEF Visits, SweepSkips, SweepStops, SweepCancels, SweepFails, Reported
  <2>6. CASE SweepEnds(c)
    BY <1>1, <2>6 DEF SweepEnds
  <2> QED
    BY <2>1, <2>2, <2>3, <2>4, <2>5, <2>6 DEF Serve, Visits, CallEnds
<1>6. Accounted(task'[c], unplugged)
  <2>1. CASE BeginSweep(c)
    BY <2>1, BeginAccounted DEF SweepInv
  <2>2. CASE \E rec \in task[c].queue : Visits(c, rec)
    <3>1. PICK rec \in task[c].queue : Visits(c, rec)
      BY <2>2
    <3>2. PICK what \in Said \ {"pending"} :
             Reported(c, rec, what) /\ (what = "unbound" => ~rec.driver)
      BY <3>1 DEF Visits, SweepSkips, SweepCancels, SweepFails, Said
    <3> QED
      BY <1>1, <3>2, ReportAccounted DEF SweepInv
  <2>3. CASE \E rec \in task[c].queue : SweepStops(c, rec)
    <3>1. /\ task'[c].pc = task[c].pc /\ task'[c].queue = task[c].queue
          /\ task'[c].report = task[c].report
      BY <1>1, <2>3 DEF SweepStops, TaskForm
    <3>2. Accounted(task[c], unplugged)
      BY <1>1 DEF SweepInv
    <3> QED
      BY <3>1, <3>2 DEF Accounted
  <2>4. CASE task'[c].pc # "stop_all"
    BY <2>4 DEF Accounted
  <2>5. CASE AnswerAtOnce(c) \/ CallEnds(c)
    <3>1. \E outcome : task' = [task EXCEPT ![c] = Answered(c, outcome)]
      BY <2>5 DEF AnswerAtOnce, CallEnds, ReadReturns, SnapshotReturns, WriteReturns,
                  WriteRaises, StopReturns, StopRaises, Answer
    <3>2. task'[c].pc = "dispatch"
      BY <1>1, <3>1 DEF Answered, TaskForm
    <3> QED
      BY <2>4, <3>2
  <2>6. CASE CallDriver(c)
    <3>1. PICK pc, rec, want : pc \in Awaiting /\ Call(c, pc, rec, want)
      BY <2>6 DEF CallDriver, Awaiting
    <3>2. task'[c].pc = pc /\ pc \in Awaiting
      BY <1>1, <3>1 DEF Call, TaskForm
    <3> QED
      BY <2>4, <3>2 DEF Awaiting
  <2>7. CASE Gather(c) \/ WriteLands(c) \/ StopLands(c)
    BY <1>1, <2>4, <2>7 DEF Gather, WriteLands, StopLands, Lands, TaskForm
  <2>8. CASE Respond(c)
    BY <1>1, <2>4, <2>8 DEF Respond, Idle
  <2>9. CASE SweepEnds(c)
    BY <1>1, <2>4, <2>9 DEF SweepEnds, Answered, TaskForm
  <2> QED
    BY <2>1, <2>2, <2>3, <2>5, <2>6, <2>7, <2>8, <2>9 DEF Serve, Visits, CallEnds
<1>7. \A p \in Tasks : Accounted(task'[p], unplugged)
  BY <1>1, <1>5, <1>6, OneAccounted DEF SweepInv
<1> QED
  BY <1>3, <1>4, <1>7 DEF SweepInv

(* The steps of the registry, of which only a deregistration costs a device *)
(* its driver.                                                              *)
LEMMA RegisterAccounted ==
    ASSUME Sound, SweepInv, NEW d \in Devices, NEW tag \in Tags, Register(d, tag)
    PROVE  SweepInv'
<1>1. /\ up /\ registry \in [Devices -> Record \cup {None}]
      /\ registry' = [registry EXCEPT ![d] = [dev |-> d, tag |-> tag, driver |-> Kept(d)]]
      /\ UNCHANGED <<up, timer, pos, task, lost, unplugged>>
  BY DEF Register, Sound, Fits, ServerFits
<1>2. [dev |-> d, tag |-> tag, driver |-> Kept(d)] # None
  <2>1. Kept(d) \in BOOLEAN
    BY <1>1 DEF Kept, Record
  <2> QED
    BY <2>1 DEF Record
<1>3. Kin'
  <2> SUFFICES ASSUME NEW e \in Devices
               PROVE  /\ registry'[e] # None => registry'[e].dev = e
                      /\ e \in Local => Reachable(e)' \/ e \in unplugged
    BY <1>1 DEF Kin
  <2>1. CASE e = d
    BY <1>1, <1>2, <2>1 DEF SweepInv, Kin, Reachable, Kept
  <2>2. CASE e # d
    BY <1>1, <2>2 DEF SweepInv, Kin, Reachable
  <2> QED
    BY <2>1, <2>2
<1> QED
  BY <1>1, <1>3 DEF SweepInv, Quiet

LEMMA DeregisterAccounted ==
    ASSUME Sound, SweepInv, NEW d \in Devices, Deregister(d)
    PROVE  SweepInv'
<1>1. /\ up /\ registry \in [Devices -> Record \cup {None}]
      /\ registry' = [registry EXCEPT ![d] = None]
      /\ unplugged' = unplugged \cup ({d} \cap Local)
      /\ UNCHANGED <<up, timer, pos, task, lost>>
  BY DEF Deregister, Sound, Fits, ServerFits
<1>2. Kin'
  <2> SUFFICES ASSUME NEW e \in Devices
               PROVE  /\ registry'[e] # None => registry'[e].dev = e
                      /\ e \in Local => Reachable(e)' \/ e \in unplugged'
    BY <1>1 DEF Kin
  <2>1. CASE e = d
    BY <1>1, <2>1
  <2>2. CASE e # d
    BY <1>1, <2>2 DEF SweepInv, Kin, Reachable
  <2> QED
    BY <2>1, <2>2
<1>3. ASSUME NEW p \in Tasks PROVE Accounted(task[p], unplugged')
  <2>1. Accounted(task[p], unplugged)
    BY DEF SweepInv
  <2> QED
    BY <1>1, <2>1 DEF Accounted
<1> QED
  BY <1>1, <1>2, <1>3 DEF SweepInv, Quiet

(* A client or a timer takes up or lays down work while the server runs.    *)
LEMMA WorkAccounted ==
    ASSUME Sound, SweepInv, up, NEW p \in Tasks, NEW t, t.pc # "stop_all",
           task' = [task EXCEPT ![p] = t], UNCHANGED <<up, registry, unplugged>>
    PROVE  SweepInv'
<1>1. Kin' /\ Quiet'
  BY DEF SweepInv, Kin, Quiet, Reachable
<1>2. Accounted(t, unplugged)
  BY DEF Accounted
<1>3. \A q \in Tasks : Accounted(task'[q], unplugged)
  BY <1>2, OneAccounted DEF SweepInv, Sound, Fits
<1> QED
  BY <1>1, <1>3 DEF SweepInv

LEMMA TimerAccounted ==
    ASSUME Sound, SweepInv, NEW p \in Expiries,
           Return(p) \/ \E d \in Devices : Expire(p, d)
    PROVE  SweepInv'
<1>1. p \in Tasks /\ task \in [Tasks -> TaskForm] /\ task[p] \in TaskForm
  BY DEF Sound, Fits, TasksFit, Tasks
<1>2. UNCHANGED <<up, registry, unplugged>>
  BY DEF Return, ExpiryReturns, ExpiryFallsBack, ExpiryStops, Expire
<1>3. up
  <2> SUFFICES ASSUME ~up PROVE FALSE
    OBVIOUS
  <2>1. task[p].pc = "idle" /\ \A d \in Devices : timer[d] = None
    BY <1>1 DEF SweepInv, Quiet, Idle, NoRecords
  <2> QED
    BY <2>1 DEF Return, ExpiryReturns, ExpiryFallsBack, ExpiryStops, Expire
<1>4. CASE task' = [task EXCEPT ![p] = Idle]
  <2>1. Idle.pc # "stop_all"
    BY DEF Idle
  <2> QED
    BY <1>1, <1>2, <1>3, <1>4, <2>1, WorkAccounted
<1>5. ASSUME NEW pc \in Expiring, NEW rec, NEW want,
             task' = [task EXCEPT ![p] = [task[p] EXCEPT !.pc = pc, !.rec = rec,
                                                         !.want = want]]
      PROVE  SweepInv'
  <2> DEFINE t == [task[p] EXCEPT !.pc = pc, !.rec = rec, !.want = want]
  <2>1. t.pc # "stop_all"
    BY <1>1 DEF TaskForm, Expiring
  <2>2. task' = [task EXCEPT ![p] = t]
    BY <1>5
  <2> HIDE DEF t
  <2> QED
    BY <1>1, <1>2, <1>3, <2>1, <2>2, WorkAccounted
<1>6. CASE ExpiryFallsBack(p)
  <2>1. task' = [task EXCEPT ![p] = [task[p] EXCEPT !.pc = "falling", !.rec = task[p].rec,
                                                    !.want = task[p].want]]
    BY <1>1, <1>6 DEF ExpiryFallsBack, TaskForm
  <2> QED
    BY <1>5, <2>1 DEF Expiring
<1>7. CASE \E d \in Devices : Expire(p, d)
  <2>1. PICK rec, want : Call(p, "returning", rec, want)
    BY <1>7 DEF Expire
  <2>2. task' = [task EXCEPT ![p] = [task[p] EXCEPT !.pc = "returning", !.rec = rec,
                                                    !.want = want]]
    BY <1>1, <2>1 DEF Call, TaskForm
  <2> QED
    BY <1>5, <2>2 DEF Expiring
<1> QED
  BY <1>4, <1>6, <1>7 DEF Return, ExpiryReturns, ExpiryStops

LEMMA LifespanAccounted ==
    ASSUME SweepInv, Shutdown \/ Start
    PROVE  SweepInv'
<1>1. Idle.pc # "stop_all"
  BY DEF Idle
<1>2. CASE Shutdown
  BY <1>1, <1>2 DEF Shutdown, SweepInv, Kin, Quiet, Accounted, NoRecords
<1>3. CASE Start
  <2>1. \A d \in Devices : d \in Local => Bound[d] \in Record /\ Bound[d].driver
    BY OwnFacts DEF Bound, Record
  <2>2. Kin'
    BY <1>3, <2>1 DEF Start, Kin, Reachable, Bound
  <2>3. \A p \in Tasks : task'[p] = Idle
    BY <1>3 DEF Start, SweepInv, Quiet
  <2> QED
    BY <1>1, <1>3, <2>2, <2>3 DEF Start, SweepInv, Quiet, Accounted
<1> QED
  BY <1>2, <1>3

LEMMA InitSweep == Init => SweepInv
<1> SUFFICES ASSUME Init PROVE SweepInv
  OBVIOUS
<1>1. Idle.pc # "stop_all"
  BY DEF Idle
<1>2. \A d \in Devices : d \in Local => Bound[d] \in Record /\ Bound[d].driver
  BY OwnFacts DEF Bound, Record
<1>3. Kin /\ Quiet
  BY <1>2 DEF Init, Kin, Quiet, Reachable, Bound
<1>4. \A p \in Tasks : Accounted(task[p], unplugged)
  BY <1>1 DEF Init, Accounted
<1> QED
  BY <1>3, <1>4 DEF SweepInv

LEMMA NextSweep == Sound /\ SweepInv /\ [Next]_vars => SweepInv'
<1> SUFFICES ASSUME Sound, SweepInv, [Next]_vars PROVE SweepInv'
  OBVIOUS
<1>1. CASE UNCHANGED vars
  BY <1>1 DEF vars, SweepInv, Kin, Quiet, Accounted, Reachable
<1>2. ASSUME NEW d \in Devices, NEW tag \in Announced[d], Register(d, tag) PROVE SweepInv'
  <2>1. tag \in Tags
    OBVIOUS
  <2> QED
    BY <1>2, <2>1, RegisterAccounted
<1>3. ASSUME NEW d \in Devices, Announce(d) PROVE SweepInv'
  BY <1>3, OwnFacts, RegisterAccounted DEF Announce
<1>4. ASSUME NEW c \in Clients, NEW body \in Batches[c], Post(c, body) PROVE SweepInv'
  <2> DEFINE t == [Idle EXCEPT !.pc = "dispatch", !.body = body]
  <2>1. c \in Tasks /\ t.pc # "stop_all"
    BY DEF Tasks, Idle
  <2>2. /\ up /\ task' = [task EXCEPT ![c] = t]
        /\ UNCHANGED <<up, registry, unplugged>>
    BY <1>4 DEF Post, serverVars
  <2> HIDE DEF t
  <2> QED
    BY <2>1, <2>2, WorkAccounted
<1>5. CASE Tick
  <2>1. up
    BY <1>5 DEF Tick, SweepInv, Quiet, NoRecords
  <2> QED
    BY <1>5, <2>1 DEF Tick, SweepInv, Kin, Quiet, Accounted, Reachable
<1> QED
  BY <1>1, <1>2, <1>3, <1>4, <1>5, DeregisterAccounted, ServeAccounted, TimerAccounted,
     LifespanAccounted DEF Next

(* A stop of everything leaves out no device that was listed when it began, *)
(* even after another one failed to stop or left the registry meanwhile;    *)
(* and a device the server started with is never found without a driver,    *)
(* unless it was deregistered (rpc.py:426-460, registry.py:87-98).          *)
THEOREM SweepReaches == Spec => []StopAllReaches
<1>1. Sound /\ SweepInv => StopAllReaches
  <2> SUFFICES ASSUME Sound, SweepInv, NEW c \in Clients,
                      task[c].pc = "stop_all", task[c].queue = {}
               PROVE  \A d \in DOMAIN task[c].report :
                         /\ task[c].report[d] # "pending"
                         /\ task[c].report[d] = "unbound" => d \notin Local \/ d \in unplugged
    BY DEF StopAllReaches
  <2>1. Accounted(task[c], unplugged)
    BY DEF SweepInv, Tasks
  <2> QED
    BY <2>1 DEF Accounted
<1> QED
  BY <1>1, InitSweep, NextSweep, AlwaysSound, PTL DEF Spec
=============================================================================
