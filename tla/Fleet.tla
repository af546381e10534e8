------------------------------- MODULE Fleet --------------------------------
(***************************************************************************)
(* The server over several devices: the registry, the discovery routes, the *)
(* lifespan, and the JSON-RPC dispatcher serving batches                    *)
(* (open_mhs/server: registry.py, routers/discovery.py, routers/rpc.py,     *)
(* watchdog.py, main.py).                                                   *)
(*                                                                          *)
(* A request or a timer works on the record it looked up, whatever becomes  *)
(* of the registry while it awaits the driver.  Each device has one         *)
(* actuator.  A call of its driver moves it in one step, as module Device   *)
(* promises, and returns in a later one, where the server arms or cancels a *)
(* timer; write histories are in module Middleware.                         *)
(***************************************************************************)
EXTENDS Integers, Sequences

CONSTANTS
    None,
    Devices,    \* device ids, numbered in the order they sort
    Local,      \* devices whose driver is bound when the server starts
    Own,        \* device -> the tag its driver was built from
    Tags,       \* capability tags
    Announced,  \* device -> the tags that may be announced for it
    Clients,    \* coroutines that serve HTTP requests
    Expiries,   \* coroutines of timers that have gone off
    Values,     \* values that may be asked for
    Batches,    \* client -> the bodies it may post: sequences of items
    Faulty      \* calls of a driver may fail

TagForm == [low : Int, high : Int, default : Int, safe : Int,
            duration : Nat, stops : BOOLEAN, mode : {"reject", "estop"}]

ItemForm ==
    [op : {"malformed", "read", "snapshot", "check", "write", "stop", "stop_all"},
     dev : Devices, value : Values, id : BOOLEAN]

(* An entry of the registry, with or without a driver bound to it.          *)
Record == [dev : Devices, tag : Tags, driver : BOOLEAN]

InTag(tag, value) == tag.low <= value /\ value <= tag.high

(* A duration of 0 stands for none.                                         *)
ASSUME FleetAssumption ==
    /\ Devices \subseteq Int /\ Local \subseteq Devices /\ None \notin Devices
    /\ Own \in [Devices -> Tags] /\ Tags \subseteq TagForm
    /\ Announced \in [Devices -> SUBSET Tags]
    /\ \A tag \in Tags : InTag(tag, tag.default)
    /\ Values \subseteq Int /\ None \notin Tags /\ None \notin Record
    /\ Batches \in [Clients -> SUBSET Seq(ItemForm)]
    /\ Clients \cap Expiries = {}
    /\ Faulty \in BOOLEAN

VARIABLES
    up,         \* the server is running
    registry,   \* device -> its record [dev, tag, driver], or None
    timer,      \* device -> [rec, left], or None
    pos,        \* where each actuator stands
    task,       \* the coroutines
    lost,       \* devices whose last stop failed
    unplugged   \* of Local, those deregistered since the server started

serverVars == <<up, registry, timer, pos, lost, unplugged>>

vars == <<up, registry, timer, pos, task, lost, unplugged>>

Tasks == Clients \cup Expiries

(* `body` is the batch, `answers` what has been answered so far, `queue`    *)
(* the records a sweep still has to visit and `report` what it says.        *)
Idle == [pc |-> "idle", body |-> << >>, next |-> 1, answers |-> << >>,
         rec |-> None, want |-> None, queue |-> {}, report |-> << >>]

NoRecords == [d \in Devices |-> None]

(* load_mock_devices, or the registry the caller passed in.                 *)
Bound == [d \in Devices |->
             IF d \in Local THEN [dev |-> d, tag |-> Own[d], driver |-> TRUE] ELSE None]

Init ==
    /\ up = TRUE
    /\ registry = Bound
    /\ timer = NoRecords
    /\ pos = [d \in Devices |-> Own[d].default]
    /\ task = [p \in Tasks |-> Idle]
    /\ lost = {} /\ unplugged = {}

-----------------------------------------------------------------------------
(* The discovery routes.                                                    *)

(* Registry.register keeps the driver of the record it replaces.            *)
Kept(d) == registry[d] # None /\ registry[d].driver

(* POST /register: a tag, never a driver.  No task or timer is told.        *)
Register(d, tag) ==
    /\ up
    /\ registry' = [registry EXCEPT ![d] = [dev |-> d, tag |-> tag, driver |-> Kept(d)]]
    /\ UNCHANGED <<up, timer, pos, task, lost, unplugged>>

(* BaseDevice.register: a device announces itself under its driver's tag.   *)
Announce(d) == Register(d, Own[d])

(* Mutant of Deregister: the timers of the device are cancelled with it.    *)
DeregisterDisarms(d) ==
    /\ up /\ registry[d] # None
    /\ registry' = [registry EXCEPT ![d] = None]
    /\ timer' = [timer EXCEPT ![d] = None]
    /\ unplugged' = unplugged \cup ({d} \cap Local)
    /\ UNCHANGED <<up, pos, task, lost>>

(* DELETE /devices/{id}: the record goes, its timers stay.                  *)
Deregister(d) ==
    /\ up /\ registry[d] # None
    /\ registry' = [registry EXCEPT ![d] = None]
    /\ unplugged' = unplugged \cup ({d} \cap Local)
    /\ UNCHANGED <<up, timer, pos, task, lost>>

-----------------------------------------------------------------------------
(* The dispatcher.                                                          *)

(* A request body arrives.                                                  *)
Post(c, body) ==
    /\ up
    /\ task[c].pc = "idle"
    /\ task' = [task EXCEPT ![c] = [Idle EXCEPT !.pc = "dispatch", !.body = body]]
    /\ UNCHANGED serverVars

Item(c) == task[c].body[task[c].next]

(* Mutant of Answerable: an envelope that does not parse and has no id is   *)
(* taken for a notification.                                                *)
AnswerableById(item) == item.id

(* A request without an `id` member is a notification and gets no answer;   *)
(* one whose envelope is malformed is answered all the same.                *)
Answerable(item) == item.id \/ item.op = "malformed"

(* Mutant of Answered: an error takes the item after it along.              *)
AnsweredSkipping(c, outcome) ==
    [task[c] EXCEPT
        !.pc = "dispatch", !.next = @ + (IF outcome = "error" THEN 2 ELSE 1),
        !.rec = None, !.want = None,
        !.answers = IF Answerable(Item(c))
                    THEN Append(@, [to |-> task[c].next, outcome |-> outcome]) ELSE @]

(* The item is done; the dispatcher takes the next one of the batch.        *)
Answered(c, outcome) ==
    [task[c] EXCEPT
        !.pc = "dispatch", !.next = @ + 1, !.rec = None, !.want = None,
        !.answers = IF Answerable(Item(c))
                    THEN Append(@, [to |-> task[c].next, outcome |-> outcome]) ELSE @]

Answer(c, outcome) == task' = [task EXCEPT ![c] = Answered(c, outcome)]

(* A call of the driver of `rec` is awaited.                                *)
Call(c, pc, rec, want) ==
    task' = [task EXCEPT ![c].pc = pc, ![c].rec = rec, ![c].want = want]

Ready(c) == task[c].pc = "dispatch" /\ task[c].next <= Len(task[c].body)

Reachable(d) == registry[d] # None /\ registry[d].driver

(* The value leaves the bound of the tag the registry holds.                *)
Violates(item) == ~InTag(registry[item.dev].tag, item.value)

(* Nothing runs of an item whose device is unknown or has no driver, nor of *)
(* a write the limit rejects.  `mhs.check` finds a verdict for each write   *)
(* of a plan and commands none.                                             *)
AnswerAtOnce(c) ==
    LET item == Item(c)
    IN  /\ Ready(c)
        /\ \/ item.op = "malformed" /\ Answer(c, "error")
           \/ item.op = "check" /\ Answer(c, "result")
           \/ /\ item.op \in {"read", "write", "stop"} /\ ~Reachable(item.dev)
              /\ Answer(c, "error")
           \/ /\ item.op = "write" /\ Reachable(item.dev) /\ Violates(item)
              /\ registry[item.dev].tag.mode = "reject"
              /\ Answer(c, "error")
        /\ UNCHANGED serverVars

(* The driver is called with the record looked up, and awaited.  A write an *)
(* estop limit refuses runs the device's stop.                              *)
CallDriver(c) ==
    LET item == Item(c)
        rec == registry[item.dev]
    IN  /\ Ready(c) /\ item.op \in {"read", "write", "stop"} /\ Reachable(item.dev)
        /\ \/ item.op = "read" /\ Call(c, "reading", rec, None)
           \/ item.op = "stop" /\ Call(c, "stopping", rec, None)
           \/ /\ item.op = "write" /\ ~Violates(item)
              /\ Call(c, "writing", rec, item.value)
           \/ /\ item.op = "write" /\ Violates(item) /\ rec.tag.mode = "estop"
              /\ Call(c, "halting", rec, None)
        /\ UNCHANGED serverVars

(* `mhs.snapshot` awaits a reading of every sensor of every record listed;  *)
(* one that cannot be had is named in the answer.                           *)
Gather(c) ==
    /\ Ready(c) /\ Item(c).op = "snapshot"
    /\ task' = [task EXCEPT ![c].pc = "gathering"]
    /\ UNCHANGED serverVars

Listed == {registry[d] : d \in Devices} \ {None}

Unsaid(recs) == [d \in {rec.dev : rec \in recs} |-> "pending"]

(* `mhs.emergency_stop_all` takes the list of records once, and goes        *)
(* through it however the registry changes meanwhile.                       *)
BeginSweep(c) ==
    /\ Ready(c) /\ Item(c).op = "stop_all"
    /\ task' = [task EXCEPT ![c].pc = "stop_all", ![c].queue = Listed,
                            ![c].report = Unsaid(Listed)]
    /\ UNCHANGED serverVars

(* Every item of the body is done: the responses go out together.           *)
Respond(c) ==
    /\ task[c].pc = "dispatch" /\ task[c].next > Len(task[c].body)
    /\ task' = [task EXCEPT ![c] = Idle]
    /\ UNCHANGED serverVars

-----------------------------------------------------------------------------
(* Calls of a driver.  A failed call may or may not have moved the device.  *)

(* Mutant of Accepts: the driver trusts the middleware's check.             *)
AcceptsAnything(d, value) == TRUE

(* Enforcement point 2: the driver's own tag, not the one announced.        *)
Accepts(d, value) == InTag(Own[d], value)

DriverWrites(d, value) ==
    Accepts(d, value) /\ pos' = [pos EXCEPT ![d] = value]

(* A value the driver accepts fails on the way or in its verification.  One *)
(* it does not is refused, and an estop limit runs the driver's own stop,   *)
(* whose failure is a note in the refusal.                                  *)
DriverRefuses(d, value) ==
    \/ /\ Accepts(d, value) /\ Faulty
       /\ UNCHANGED pos \/ pos' = [pos EXCEPT ![d] = value]
    \/ /\ ~Accepts(d, value)
       /\ \/ /\ Own[d].mode = "estop" /\ Own[d].stops
             /\ pos' = [pos EXCEPT ![d] = Own[d].safe]
          \/ /\ Own[d].mode = "estop" /\ Own[d].stops => Faulty
             /\ UNCHANGED pos

DriverStops(d) ==
    Own[d].stops /\ pos' = [pos EXCEPT ![d] = Own[d].safe] /\ lost' = lost \ {d}

DriverCannotStop(d) ==
    /\ lost' = lost \cup {d}
    /\ Own[d].stops => Faulty
    /\ UNCHANGED pos \/ (Own[d].stops /\ pos' = [pos EXCEPT ![d] = Own[d].safe])

(* Watchdog.cancel of a device id: whichever record armed the timer.        *)
Cancel(d) == timer' = [timer EXCEPT ![d] = None]

(* Watchdog.arm: the timer keeps the record the write was checked against.  *)
Arm(rec, value) ==
    timer' = [timer EXCEPT ![rec.dev] =
        IF rec.tag.duration = 0 \/ value = rec.tag.default THEN None
        ELSE [rec |-> rec, left |-> rec.tag.duration]]

(* A read succeeds or raises; it changes nothing.                           *)
ReadReturns(c) ==
    /\ task[c].pc = "reading"
    /\ \/ Answer(c, "result")
       \/ Faulty /\ Answer(c, "error")
    /\ UNCHANGED serverVars

SnapshotReturns(c) ==
    /\ task[c].pc = "gathering"
    /\ Answer(c, "result")
    /\ UNCHANGED serverVars

(* The call goes on to `pc`, its driver having moved the device.            *)
Lands(c, pc) == task' = [task EXCEPT ![c].pc = pc]

WriteLands(c) ==
    /\ task[c].pc = "writing"
    /\ DriverWrites(task[c].rec.dev, task[c].want)
    /\ Lands(c, "written")
    /\ UNCHANGED <<up, registry, timer, unplugged, lost>>

(* write.accepted: the driver has returned, and the timer is armed.         *)
WriteReturns(c) ==
    /\ task[c].pc = "written"
    /\ Arm(task[c].rec, task[c].want)
    /\ Answer(c, "result")
    /\ UNCHANGED <<up, registry, pos, unplugged, lost>>

(* write.failed: the timer, if there is one, stays.                         *)
WriteRaises(c) ==
    /\ task[c].pc = "writing"
    /\ DriverRefuses(task[c].rec.dev, task[c].want)
    /\ Answer(c, "error")
    /\ UNCHANGED <<up, registry, timer, unplugged, lost>>

(* `mhs.emergency_stop`, or the stop of an estop limit.                     *)
StopLands(c) ==
    /\ task[c].pc \in {"stopping", "halting"}
    /\ DriverStops(task[c].rec.dev)
    /\ Lands(c, IF task[c].pc = "stopping" THEN "stopped" ELSE "halted")
    /\ UNCHANGED <<up, registry, timer, unplugged>>

(* The driver has returned: the device's timers are cancelled, one armed    *)
(* since the device moved among them.  The stop of a limit is answered as   *)
(* the violation that asked for it.                                         *)
StopReturns(c) ==
    /\ task[c].pc \in {"stopped", "halted"}
    /\ Cancel(task[c].rec.dev)
    /\ Answer(c, IF task[c].pc = "stopped" THEN "result" ELSE "error")
    /\ UNCHANGED <<up, registry, pos, unplugged, lost>>

StopRaises(c) ==
    /\ task[c].pc \in {"stopping", "halting"}
    /\ DriverCannotStop(task[c].rec.dev)
    /\ Answer(c, "error")
    /\ UNCHANGED <<up, registry, timer, unplugged>>

-----------------------------------------------------------------------------
(* Sweeps over the records listed.                                          *)

(* The sweep says `what` of a record and leaves it behind.                  *)
Reported(c, rec, what) ==
    task' = [task EXCEPT ![c] =
        [task[c] EXCEPT !.queue = @ \ {rec}, !.rec = None, !.report[rec.dev] = what]]

(* The records come in the order of their ids.                              *)
Visiting(c, rec) ==
    /\ task[c].pc = "stop_all" /\ task[c].rec = None
    /\ rec \in task[c].queue
    /\ \A other \in task[c].queue : rec.dev <= other.dev

(* A record that cannot be stopped is named as such.                        *)
SweepSkips(c, rec) ==
    /\ Visiting(c, rec)
    /\ \/ ~rec.tag.stops /\ Reported(c, rec, "skipped")
       \/ rec.tag.stops /\ ~rec.driver /\ Reported(c, rec, "unbound")
    /\ UNCHANGED serverVars

SweepStops(c, rec) ==
    /\ Visiting(c, rec) /\ rec.tag.stops /\ rec.driver
    /\ DriverStops(rec.dev)
    /\ task' = [task EXCEPT ![c].rec = rec]
    /\ UNCHANGED <<up, registry, timer, unplugged>>

(* Its driver has returned: its timers are cancelled, and the sweep goes on.*)
SweepCancels(c, rec) ==
    /\ task[c].pc = "stop_all" /\ rec \in task[c].queue /\ task[c].rec = rec
    /\ Cancel(rec.dev)
    /\ Reported(c, rec, "stopped")
    /\ UNCHANGED <<up, registry, pos, unplugged, lost>>

(* Mutant of SweepFails: the failure of one device ends the sweep.          *)
SweepBreaks(c, rec) ==
    /\ Visiting(c, rec) /\ rec.tag.stops /\ rec.driver
    /\ DriverCannotStop(rec.dev)
    /\ task' = [task EXCEPT ![c].queue = {}, ![c].report[rec.dev] = "failed"]
    /\ UNCHANGED <<up, registry, timer, unplugged>>

(* The failure is reported and the sweep goes on.                           *)
SweepFails(c, rec) ==
    /\ Visiting(c, rec) /\ rec.tag.stops /\ rec.driver
    /\ DriverCannotStop(rec.dev)
    /\ Reported(c, rec, "failed")
    /\ UNCHANGED <<up, registry, timer, unplugged>>

SweepEnds(c) ==
    /\ task[c].pc = "stop_all" /\ task[c].queue = {}
    /\ task' = [task EXCEPT ![c] = [Answered(c, "result") EXCEPT !.report = << >>]]
    /\ UNCHANGED serverVars

-----------------------------------------------------------------------------
(* The dead-man timers.                                                     *)

(* Time passes.                                                             *)
Tick ==
    /\ \E d \in Devices : timer[d] # None /\ timer[d].left > 0
    /\ timer' = [d \in Devices |->
          IF timer[d] = None THEN None
          ELSE [timer[d] EXCEPT !.left = IF @ = 0 THEN 0 ELSE @ - 1]]
    /\ UNCHANGED <<up, registry, pos, task, lost, unplugged>>

(* The timer has run out: it leaves the table and writes its record's       *)
(* default, whether or not that record is still the registered one.         *)
Expire(p, d) ==
    /\ task[p].pc = "idle"
    /\ timer[d] # None /\ timer[d].left = 0
    /\ Cancel(d)
    /\ Call(p, "returning", timer[d].rec, timer[d].rec.tag.default)
    /\ UNCHANGED <<up, registry, pos, lost, unplugged>>

ExpiryReturns(p) ==
    /\ task[p].pc = "returning"
    /\ DriverWrites(task[p].rec.dev, task[p].want)
    /\ task' = [task EXCEPT ![p] = Idle]
    /\ UNCHANGED <<up, registry, timer, unplugged, lost>>

(* The driver would not go there, or failed: its stop runs instead.         *)
ExpiryFallsBack(p) ==
    /\ task[p].pc = "returning"
    /\ DriverRefuses(task[p].rec.dev, task[p].want)
    /\ task' = [task EXCEPT ![p].pc = "falling"]
    /\ UNCHANGED <<up, registry, timer, unplugged, lost>>

ExpiryStops(p) ==
    /\ task[p].pc = "falling"
    /\ DriverStops(task[p].rec.dev) \/ DriverCannotStop(task[p].rec.dev)
    /\ task' = [task EXCEPT ![p] = Idle]
    /\ UNCHANGED <<up, registry, timer, unplugged>>

-----------------------------------------------------------------------------
(* The lifespan.                                                            *)

(* The requests under way are served first; then every timer is cancelled,  *)
(* the registry forgets every device and the loop is closed.                *)
Shutdown ==
    /\ up
    /\ \A c \in Clients : task[c].pc = "idle"
    /\ up' = FALSE
    /\ timer' = NoRecords
    /\ registry' = NoRecords
    /\ task' = [p \in Tasks |-> Idle]
    /\ UNCHANGED <<pos, lost, unplugged>>

Start ==
    /\ ~up
    /\ up' = TRUE
    /\ registry' = Bound
    /\ unplugged' = {}
    /\ UNCHANGED <<timer, pos, task, lost>>

-----------------------------------------------------------------------------
Serve(c) ==
    \/ AnswerAtOnce(c) \/ CallDriver(c) \/ Gather(c) \/ BeginSweep(c) \/ Respond(c)
    \/ ReadReturns(c) \/ SnapshotReturns(c)
    \/ WriteLands(c) \/ WriteReturns(c) \/ WriteRaises(c)
    \/ StopLands(c) \/ StopReturns(c) \/ StopRaises(c)
    \/ \E rec \in task[c].queue :
          \/ SweepSkips(c, rec)
          \/ SweepStops(c, rec) \/ SweepCancels(c, rec) \/ SweepFails(c, rec)
    \/ SweepEnds(c)

Return(p) == ExpiryReturns(p) \/ ExpiryFallsBack(p) \/ ExpiryStops(p)

Next ==
    \/ \E d \in Devices : \E tag \in Announced[d] : Register(d, tag)
    \/ \E d \in Devices : Announce(d)
    \/ \E d \in Devices : Deregister(d)
    \/ \E c \in Clients : \E body \in Batches[c] : Post(c, body)
    \/ \E c \in Clients : Serve(c)
    \/ \E p \in Expiries, d \in Devices : Expire(p, d)
    \/ \E p \in Expiries : Return(p)
    \/ Tick
    \/ Shutdown
    \/ Start

Spec == Init /\ [][Next]_vars

(* The event loop runs what is ready, every call of a driver ends (Device,  *)
(* EveryCallReturns), and time passes.                                      *)
Fairness ==
    /\ \A c \in Clients : WF_vars(Serve(c))
    /\ \A p \in Expiries : WF_vars(Return(p))
    /\ \A d \in Devices : SF_vars(\E p \in Expiries : Expire(p, d))
    /\ WF_vars(Tick)

FairSpec == Spec /\ Fairness

-----------------------------------------------------------------------------
(* Properties.                                                              *)

TypeOK ==
    /\ up \in BOOLEAN
    /\ registry \in [Devices -> Record \cup {None}]
    /\ timer \in [Devices -> [rec : Record, left : Nat] \cup {None}]
    /\ pos \in [Devices -> Int]
    /\ DOMAIN task = Tasks
    /\ \A p \in Tasks :
          /\ task[p].rec \in Record \cup {None}
          /\ task[p].queue \subseteq Record
          /\ task[p].next \in 1 .. Len(task[p].body) + 1
    /\ lost \subseteq Devices /\ unplugged \subseteq Devices

(* Whatever tag is announced for a device, over HTTP and at any moment, its *)
(* actuator stands inside the bound its driver was built with, or at that   *)
(* driver's safe value (base.py:150-226, discovery.py:28-47).               *)
OwnEnvelope ==
    \A d \in Devices : InTag(Own[d], pos[d]) \/ pos[d] = Own[d].safe

(* What a batch has been answered so far: one answer, in order, for every   *)
(* item served that is not a notification, whichever of them failed         *)
(* (rpc.py:528-582, 595-599).                                               *)
AnswersMatch ==
    \A c \in Clients :
        LET answers == task[c].answers
            body == task[c].body
        IN  /\ {answers[i].to : i \in DOMAIN answers} =
                   {j \in 1 .. task[c].next - 1 : body[j].id \/ body[j].op = "malformed"}
            /\ \A i, j \in DOMAIN answers : i < j => answers[i].to < answers[j].to

(* When a sweep ends no device it listed is left out, even after another    *)
(* failed or left the registry; and a device the server started with is     *)
(* never found without a driver, unless it was deregistered: announcing it  *)
(* again does not cost it its driver (rpc.py:426-460, registry.py:87-98).   *)
StopAllReaches ==
    \A c \in Clients :
        task[c].pc = "stop_all" /\ task[c].queue = {} =>
            \A d \in DOMAIN task[c].report :
                /\ task[c].report[d] # "pending"
                /\ task[c].report[d] = "unbound" => d \notin Local \/ d \in unplugged

(* A write of the device is under way, or a stop of it has landed and has   *)
(* its timers still to cancel.                                              *)
Contended(d) ==
    \E c \in Clients :
        /\ task[c].pc \in {"writing", "written", "stopped", "halted", "stop_all"}
        /\ task[c].rec # None /\ task[c].rec.dev = d

(* The tags a timer of the device may have been armed under.                *)
TimedTags(d) == {tag \in Announced[d] \cup {Own[d]} : tag.duration > 0}

(* A device under a dead-man timer goes to the default of the tag it was    *)
(* written under or to its safe value - and neither announcing the device   *)
(* again nor deregistering it takes that away, nor a write that fails.      *)
(* Excepted are a device another write is at, one whose timer is armed      *)
(* between a stop's move and the cancellation that follows it, one whose    *)
(* stop fails, and a server shut down (watchdog.py:61-96, rpc.py:336-344,   *)
(* discovery.py:96-106).                                                    *)
TimedComesHome ==
    \A d \in Devices : \A tag \in TimedTags(d) :
        (timer[d] # None /\ timer[d].rec.tag = tag) ~>
            \/ pos[d] \in {tag.default, Own[d].safe}
            \/ Contended(d) \/ d \in lost \/ ~up
=============================================================================
