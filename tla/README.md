# Open-MHS in TLA+

Open-MHS is a middleware between agents and laboratory hardware. A device
announces a capability tag: its sensors, its actuators, one safety limit for
each actuator and a declared safe state. Agents then send JSON-RPC calls, and
two enforcement points, the middleware's dispatcher and the driver itself,
check every write against the limit before a byte reaches the link. A dead-man
timer returns an actuator that was held away from its default for too long.

This directory holds the TLA+ model of that machinery, of the serial driver
below it and of two clients above it (the safety benchmark and the agent that
stacks blocks), the TLC configurations that check it on small devices and the
TLAPS proofs about it for every device. Paths below are relative to the
repository's `open_mhs/`, or to the repository where they begin with
`examples/`, `docs/` or `tests/`.

## 1. Inventory

| Part | State it keeps | Operations | What is hard about it |
|---|---|---|---|
| `server/safety.py`, the evaluator | none | `coerce`, `resolve_absolute`, `effective_bounds`, `_check_discrete`, `_check_range`, `_check_rate`, `check_write` | conditional bounds over readings that may be missing; a rate clip after a range clip; NaN; deltas |
| `server/models.py`, tag ingestion | none | the cross-field rules of `CapabilityTag` | decides which limits the evaluator can meet |
| `drivers/base.py`, `BaseDevice` | `_last_write` per actuator | `read`, `write`, `emergency_stop` | every `await` lets another caller in; a link that fails before or after the device acted; partial stops |
| `server/routers/rpc.py`, the dispatcher | none of its own; writes the record and the timers | `mhs.write`, `mhs.emergency_stop`, `mhs.read`, `mhs.check`, `mhs.snapshot`, `mhs.emergency_stop_all`, `mhs.discover` | requests interleave, and what they remember depends on how the driver call ended |
| `server/watchdog.py` | one asyncio task per (device, target) | `arm`, `cancel`, `_expire`, `shutdown` | an expired timer is a coroutine like any other, and out of `cancel`'s reach |
| `server/registry.py`, `routers/discovery.py` | records: tag, driver, `last_seen`, `last_write` | `register`, `heartbeat`, `deregister`, `list` | records are replaced and removed under the feet of requests and timers; staleness by clock |
| `server/audit.py` | a file, `_seq`, `_prev` | `record`, `_resume`, `verify` | crash in the middle of a line; threads; edits after the fact |
| `drivers/serial_transport.py`, `serial_robotic_arm.py` | a connection with its input buffer | `command`, `acquire`, `open`, `close`, `encode`, `decode`, the arm's `emergency_stop` | late replies, timeouts, two callers on a link without message identities or a lock |
| `drivers/transport.py`, mocks | channel values | `acquire`, `transmit` | faults injected for tests |
| `server/main.py`, `deps.py` | the running application | start, shutdown | timers and records end with it, actuators do not |
| `server/auth.py`, `errors.py` | tokens | authentication, error codes | a guard in front of the handlers |
| `bench/` | results, a copy of the last writes | `for_device`, `_pace`, `_baseline`, `run_attempt`, `to_markdown` | judges a middleware it does not trust by looking at a world that does not stand still |
| `examples/robosuite_demo/stack_blocks.py` | `_progress`, the plan, the scene it last saw | `build`, `pick`, `place`, `verify_tier`, `_resume`, `main` | blocks fall at any moment; a retry trusts what it remembers as far as what it sees agrees |
| `mcp_adapter/`, `cli/`, other examples | none that survives a call | HTTP clients, reports, scripted scenes | none that a state machine shows |

They interact as follows. A request runs as a coroutine of one event loop:
the dispatcher looks up the record in the registry, evaluates the write with
`safety.check_write` (reading condition channels through the driver), calls
`driver.write`, which evaluates it again over its own history and readings,
and after success stores the value in the record, arms the dead-man timer and
appends an audit line. A timer is a task of the same loop that sleeps, leaves
the table, and calls the same driver. Nothing locks a device.

What makes each part correct, in one line each:

* evaluator: what passes is a value of the actuator's type inside the limit
  that the observed state puts in force, and no faster than `max_rate`;
* driver: the actuator is only ever inside its base bound or at its safe
  value, and a run of writes is no faster than `max_rate`;
* dispatcher: a gated actuator moves only when confirmed, what is reported is
  what was sent, every call is answered;
* watchdog: an actuator held away from its default is under a timer and comes
  home; an emergency stop silences the timers;
* audit log: an acknowledged line survives, the chain continues over a
  restart, and a changed line is found;
* registry: a record that is replaced or removed takes no driver, timer or
  bound with it that still matters;
* batches and sweeps: each item is answered, and a stop of all devices leaves
  none out, whichever of them fails;
* serial driver: what a call claims is what the arm did, and every exchange
  ends;
* benchmark: what it calls a leak is one, and a leak it can see is called one;
* stacker: a tower claimed to stand does, and a retry never descends through
  one it left behind.

## 2. Modules

| Module | Models | Extends |
|---|---|---|
| `SafetyLimits` | `safety.py` and the ingestion rules as operators | |
| `DirectDriver` | one caller, one driver, no middleware | `SafetyLimits` |
| `Device` | `BaseDevice` in pieces, each ending at an `await` | `SafetyLimits` |
| `Middleware` | requests, timers, the record and re-registration over `Device` | `Device` |
| `AuditLog` | `audit.py`: writer threads, restarts, verification | |
| `ClosedLoop` | what `BaseDevice` promises its caller: abstract specification | |
| `SerialArm` | serial port, line protocol, arm and firmware; implements `ClosedLoop` | instance of `ClosedLoop` |
| `Fleet` | dispatcher, registry, routes, lifespan and timers over several devices | |
| `Bench` | corpus, runner and headline of the benchmark | |
| `Stacker` | `stack_blocks.py` and the blocks | |
| `DirectDriverMC`, `MiddlewareMC`, `AuditLogMC`, `SerialArmMC`, `FleetMC`, `BenchMC`, `StackerMC` | small instances for TLC; symmetry | |
| `SafetyLimitsProofs`, `DirectDriverProofs`, `MiddlewareProofs`, `AuditLogProofs`, `SerialArmProofs`, `FleetProofs`, `BenchProofs`, `StackerProofs` | theorems | |

How they fit together: `SafetyLimits` is what both enforcement points compute;
`Device` and `Middleware` follow one write through every `await`; `Fleet` takes
a driver call as one step and looks at what happens between devices, batches
and records; `SerialArm` opens up that driver call for a real link, and
`ClosedLoop` is the promise in between. `Bench` and `Stacker` are clients: they
see a middleware only through the answers it gives, right or wrong.

### SafetyLimits

A value is an integer of a grid (`Unit` steps to 1.0) or `NaN`; comparisons
with `NaN` are false and `min`/`max` keep their first argument, as in Python
(`Less`, `Clip`). `Ingested` collects what `models.py` demands of one actuator
and its limit. `CheckWrite` is `check_write`: coercion, the resolution of a
relative write, then `CheckDiscrete`, or `CheckRange` followed by `CheckRate`.
The outcome is a decision `[verdict, value]`, where `estop` stands for
`EmergencyStopRequired` and `error` for an exception that is no `MHSError`.
Strings are indices, an enumeration is a set of them, and booleans are 0 and 1.

### DirectDriver

A driver without the middleware is the only enforcement point. A write, an
emergency stop, or a tick of the clock is one step, since there is one caller.
`last` is `_last_write` of the actuator as a value and its age in ticks, and
`pos` is where the actuator is. The link may fail a read, fail before the
device acted ("transmit") or after ("ack"). `anchor` is a history variable: an
earlier acknowledged write of the same run, chosen freely, against which the
rate is measured.

### Device and Middleware

A task is a coroutine with a program counter:

    idle -> evaluate -> check -> transmit -> acked -> verify -> returned -> idle
    (stop:)             stopping -> returned -> idle

`evaluate` is the dispatcher reading condition channels, `check` the driver
doing the same, `transmit` the awaited link, `verify` the feedback poll and
`returned` the moment the caller takes over. `loop` names the task that holds
the event loop: a task that reaches a real suspension releases it, one that
goes on without (a limit with no conditions, a driver without feedback) keeps
it, and nobody else runs in between. This keeps exactly the interleavings of
asyncio: two requests meet at awaits and nowhere else.

| Action | Code |
|---|---|
| `Submit`, `EvaluatePasses/Refuses/Stops` | `_evaluate`, first part of `_write` |
| `ReadCondition`, `CheckPasses/Refuses/Stops`, `Transmit`, `Acked`, `VerifyRead` | `BaseDevice.write`, `_verify` |
| `StopTransmit`, `StopDone` | `BaseDevice.emergency_stop` |
| `WriteReturns`, `WriteRaises` | the rest of `_write` |
| `EmergencyStop`, `StopReturns`, `StopRaises` | `_emergency_stop`, `_run_estop_for_violation` |
| `Expire`, `ExpiryReturns`, `ExpiryFallsBack`, `ExpiryStops`, `ExpiryGivesUp` | `Watchdog._expire` |
| `Reregister` | `Registry.register` of a known device |
| `Tick` | time: timers run down, remembered writes age |

`lastWrite` is `DeviceRecord.last_write`; `drvLast` is `BaseDevice._last_write`.
They differ after failures, stops by the driver itself and re-registration. A
task or timer whose `registered` flag is false holds a record that has been
replaced, and what it writes into it is lost.

### AuditLog

A line is `[parses, ended, entry]`. A line that was cut short either does not
parse or has lost only its newline; since the file is opened for appending, the
next line then goes on the same line (`AppendLine`). The digest is the tuple of
what is hashed: no two bodies collide. `record` is four steps of a thread that
holds the lock (`Begin`, `Write`, `Sync`, `Return`), each of which may be the
last one before a `Crash` or a `PowerLoss`; `WriteFails`, `SyncFails` and
`TornCrash` are the `OSError`s and the end in the middle of a line. `Start` is
the constructor with `_resume`, `StartFails` the one that raises. `BadLines` is
what `verify` compares; `FirstBadLine` its answer.

Three history variables say what a property may expect: `acked`, the entries
that `record` has returned; `damage`, the first line that a torn write or a
failed call may have spoiled; `change`, the one line somebody else has edited,
forged (content and hash together) or deleted, and whether a synced line bears
witness to it.

The middleware's module does not carry the log along: where the code appends a
line, the model's action stands for it, and the two modules meet only in
`ReportedIsSent`, which is about the value such a line reports.

### ClosedLoop and SerialArm

`ClosedLoop` is the promise a caller of a driver relies on. A call begins, asks
for a reading (`Ask`), perhaps asks again, and returns with a claim or with
none. The reading it claims is a position the axis has had since it was last
asked while no answer was on its way (`since`, `owed`), and a write it claims
verified was at its target since then. Where every answer is in time that is the
exchange the claim rests on; an answer that is late may be taken for the next
one, and the link has nothing to tell them apart.

`SerialArm` is the code: `call[c]` is a coroutine in `read`, `write` or
`emergency_stop`, each thread hop of `SerialTransport` a step of its own; `wire`
holds the lines on their way to the firmware, `replies` those on their way back,
`input` the receive buffer. `conn` is whether the transport holds a port and
`ports` how many are really open: `close` gives the port up first (`Close`) and
closes it on a thread (`PortCloses`), where `conn.close()` may raise, is logged,
and leaves it open (`CloseFails`, counted by `unclosed`). `Flush` is
`reset_input_buffer`, which only `acquire` does; `TimesOut` is a `readline` that
returns nothing while the reply is still to come. A call may begin whatever an
earlier one left on its way (`MayBegin`), whose lines are then nobody's
(`Disowned`). The firmware (`Execute`, `Refuse`), the cable (`Arrive`, and
`Answers` that may lose a line) and the axis (`Settle`) are external.

The refinement mapping (`Loop`) hides wire, buffer and port and keeps where the
axis is, what each call asked for and what it claimed. It holds for any callers,
overlapping or not. What does need one task that makes the calls and closes the
port between them (`OneAtATime`) is the account of the ports: two callers that
both find the port closed open it twice, see 6.

### Fleet

One record per device (`registry`), as in the code: replaced by `Register`
(POST `/register`: any announced tag, and the driver of the record it replaces
is kept) or `Announce` (`BaseDevice.register`), removed by `Deregister`. A
client takes the items of a batch in order; `AnswerAtOnce` is an item that
reaches no driver, `CallDriver` one that awaits the record's driver. What the
driver does to the device and what the handler does once it has returned are
two steps, between which another client may go first: `WriteLands` and
`WriteReturns` (which arms the timer), `StopLands` and `StopReturns` (which
cancels the timers), `SweepStops` and `SweepCancels`. A driver that refuses a
value under an `estop` limit of its own runs its own stop (`DriverRefuses`).
`mhs.snapshot` is `Gather` and `SnapshotReturns`. `mhs.emergency_stop_all` takes
the list of records once (`BeginSweep`) and visits it one await at a time. A
timer holds the record it was armed with. `Shutdown` serves what is under way,
cancels the timers and empties the registry; `Start` is a new process, with the
actuators where the last one left them.

### Bench

`Corpus` is `for_device` and `for_cell` for one actuator; `mode` says whether its
limit is a range or a discrete set, and what it does with a value outside. `run`
is the attempt under way, from pacing and setup over the baseline to the read
after it, and `result`, `tally` and `headline` are what is made of it.
`Candidates` is what the corpus asks and `Values` where the actuator may be: a
sensor that follows it is asked to be 1 whatever the range is, and a leak may
take the actuator there. Two attempts of the corpus are odd ones: `True` is no
number to the middleware and 1 to `_pace`, and an infinity never leaves the
client's encoder but is paced all the same (`Infinite`), which ends in a stop
or, where the device has none, in a sleep that raises (`CannotSleep`).

The middleware's side is `hist`, its history, `own`, the driver's, `timer`,
`pos` and `goal`. A write passes both histories or is refused by either; an
`estop` limit then drives the safe state. It may fail before or after the
actuator moved, fail to verify (which moves `own` and not `hist`), lose an
answer, or be `leaky` (refuse and send all the same). Between any two steps
`Tick` moves the actuator by `Speed` units and the clock by one tick;
`TimerReturns` and `TimerFails` are the dead-man timer, whose return may be
refused for the rate. `Floor` is the 1e-9 of the comparisons, in the same units,
and `Floats` says whether the channel reads floats.

History kept for the properties alone: what was `written`, whether the baseline
was read in travel (`moving`), whether the timer or a stop may have moved the
actuator since (`returned`, `stopped`), how far it has had the time to go
(`way`), and whether the benchmark's copy of the history may have come apart
from the two it copies (`drift`).

### Stacker

What the agent believes (`plan`, `progress`, `block`, `grip`) and what is there
(`stack`, `gone`, `held`, `at`) are separate variables, joined by what the
camera and the grasp sensor return (`Heights`, `Covered`, `Holding`). The blocks
may be on the table in any stacks when the program starts, and `--standing` may
say anything (`Init`). Every move may fail to converge (`DoesNotConverge`), every
call be refused (`Refused`), a grip shed its block anywhere (`Sheds`), a release
miss or topple the tower (`Release`), and a tower come down at any moment, the
last one included (`Collapses`). A block that falls lies at the place it first
lay at, out of reach, or on a block that lies alone (`Falls`); it does not come
to rest on top of a taller stack.

A place is where a block lies at the start, a height is counted in blocks, and
millimetres and angles come down to whether a move arrived and a reading is as
expected. `known`, `foreign` and `piled` are kept for the properties alone: the
attempt began with no stack but the one remembered, the blocks stacked at the
start were no beginning of the order, a block has fallen onto another.

## 3. Runs

| Run | Question | Bounds |
|---|---|---|
| `DirectDriver` | does any history of writes, stops and failures on one driver leave the envelope, the bound in force, or the rate | 15 devices (every `on_violation`, with and without rate and conditions, absolute and relative), 3 worlds, values below, on and above each bound, ages up to 3 |
| `DirectDriverFailedRead` | does a failed condition read only ever tighten the envelope | 1 device; violated, see 6 |
| `MwAgent` | is a held actuator timed, and does it come home, when `max_rate` refuses the return and the device re-registers | 1 actuator, 1 request, 1 timer, no link faults |
| `MwCell` | do the two enforcement points agree on what is sent, and does a gated actuator move unconfirmed | 2 actuators, one condition, `estop` limit, failed reads |
| `MwCalls` | is every call answered, whatever the link does | 1 actuator, every fault of the link and a sensor that never settles, feedback polls |
| `MwRelative`, `MwFailed` | statements of the documents that the code does not keep | violated, see 6 |
| `AuditLog` | does `verify` accept what the writers leave, do acknowledged entries survive, is a change found | 2 threads (interchangeable), 2 payloads, 3 lines, every fault, one change |
| `SerialArm` | does the driver claim only what the arm did, does a port leak, does every exchange end | 1 caller who asks again with up to 2 earlier lines still on the link, 2 places, 1 feedback poll, 1 close that raises, every fault of the link |
| `Fleet` | does anything announced, deregistered, stopped, failed or restarted cost a device its bound, its stop or its return | a pump whose driver stops it when it refuses, announced under a wider tag with a timer, and a lamp without a stop; 2 clients, 1 expiring timer, 4 bodies of up to 4 items |
| `Bench` | is a leak found if and only if there is one, and does the benchmark get in its own way | 1 gated, timed, rate-limited actuator with 5 positions, its limit a range or a set that rejects, clamps or stops; 2 attempts; failing, unverified and lost writes, leaks |
| `Stacker` | does a claimed tower stand, what does a retry build on, does the program end | 4 blocks in any of 73 layouts, any `--standing`, 2 retries, 2 grasps each |

Why the bounds are enough. The range checks compare a value with at most four
numbers (two base bounds, two conditional ones) and the rate with one distance;
the values asked lie on both sides of each. A driver remembers one write per
actuator, so ages beyond the point where every step is admitted add nothing:
`Tick` stops `anchor` at `MaxAge`, and in `Device` an age saturates there. Two
requests and one expiring timer give every pairing of write, stop and expiry;
the table holds at most one timer for each target. In the log, a line matters
to itself and to the next one, so three lines hold a prefix, the line at the
fault and its successor. On the serial line one caller
meets, with what its own earlier calls left on the way, every order of a reply,
its timeout and the next command; two places tell a reading that is true from
one that is not, and two lines are a late reply with a new one. In the fleet, one
device that is timed, stops and has a rival tag and one that has none of these
give both sides of every branch, an item stands before and after the one that
fails, and two clients give a write in the middle of a stop. The benchmark
carries only its copy of the last write, the two histories and the actuator's
travel from one attempt to the next, so a second attempt meets all that a first
can leave. The tower of four leaves one block above and one below the pair that
is moved, and two retries the case of a retry after a retry.

Bounds by name: `MaxAge` (ages), `Polls` (feedback reads before `_verify` gives
up; 0 means that the first one decides), `MaxLines` (lines at which recording
stops), and the sets `Tasks`, `Requests`, `Expiries`, `Clients`, `Values`,
`Worlds`, `Threads`, `Payloads`, `Faults`, `Changes`; `Buffer` (lines on the link
when a call begins), `Unclosed` (ports whose close raises), `Places`, `Attempts`
(attempts of a benchmark run), `Retries` and `Grips` (`--retries` and
`GRIP_ATTEMPTS`). `Unit` is 1: all numbers of the runs are on a grid of whole
steps. In `Bench.cfg` `Speed` is 1 and `Floor` 0: a step is a step. The
benchmark's 1e-9 in units in which it is 1 is `BenchFloor.cfg`, with reads that
fail and one attempt, kept to be run by hand.

### Fairness

`MwAgent`, `MwCalls`, `SerialArm`, `Fleet` and `Stacker` assume some. In the
first two each task is strongly fair: a task may
be disabled whenever another one holds the event loop, but asyncio runs its
ready callbacks in the order in which they became ready, so a task that is
ready again and again does run; and an await on the link ends, because the
serial transport has a timeout and `_verify` a deadline. The expiry of a timer
is strongly fair for the same reason, and `Tick` because time passes. Nothing
is assumed of the agents: no request or stop has to be submitted, and no
re-registration has to happen.

In `SerialArm` the steps of a call are weakly fair: a thread hop returns,
because the port is opened with a timeout. The firmware and the cable owe
nothing. In `Fleet` serving and returning are weakly fair (a driver call ends,
which is what `EveryCallReturns` and `EveryExchangeEnds` say), the expiry of a
timer strongly, since one coroutine stands for all that may go off, and time
passes; clients, announcements, deregistration, shutdown and start owe nothing.
`Stacker` is one thread that runs on as long as it can: a call of the middleware
has a timeout of 180 s and `urlopen` raises after it. `Bench` claims no
liveness.

## 4. What is proved

Every theorem holds for every device, every value and every number of tasks or
threads that the named assumptions on the constants admit.

* `SafetyLimitsProofs`: `ScalarSound`, `VectorSound`, `WriteSound`. What
  `check_write` passes of an ingested limit is inside the base bound and within
  the rate. The assumption is that a number is asked (`Input`): a `NaN` passes.
  The proof goes through `_check_range` (the effective bounds are never wider
  than the base bounds, because ingestion only admits conditions that narrow
  them), then `_check_rate` (what it clips is put back between the base bounds).
* `DirectDriverProofs`: `TypeCorrect`, `Envelope`, `RateKept`, `StepsBounded`,
  `BoundInForceKept`. The inductive invariant adds to the properties that what
  the driver remembers lies in the base bound: the rate check starts from it,
  and a relative write is resolved from it. `RateKept` measures from an
  arbitrary earlier write of the same run (`anchor`), so it is the rate over
  every stretch of the history and not only between neighbours. `StepsBounded`
  allows for a stop that fails: it may have driven the safe state and kept the
  history (`drivers/base.py:242-251`), and then the next step is measured from
  where the actuator is not.
* `MiddlewareProofs`: `TypeCorrect`, `Envelope`, `Gated`, `Timers`, `Reported`,
  `AwayTimed`. The inductive invariant (`IInv`) follows a value through a task:
  what a task at `transmit` will send was passed by the driver's own check, so
  it is in the base bound whatever happened since the middleware evaluated it;
  what an expiring task asks for is the default, which ingestion put inside the
  bound; and a task that got past the gate with a gated target was confirmed or
  is an expiry. The other three have hypotheses, each with an invariant of its
  own on top of it:
  * `Timers` is `HeldIsTimed`, for a device whose stop does not fail
    (`StopsWork`) and that either announces itself once or has one caller at a
    time (`Owned`). `HInv` says that while a request runs that began under an
    old record nothing is remembered as held, so that whatever it arms or
    cancels does no harm, and that what is held is under a timer of the
    registered record or such a timer is being carried out. Without the
    hypotheses it does not hold: a timer whose default and whose stop both fail
    is gone, and of two requests the one that began under an old record may
    cancel the timer of the other.
  * `Reported` is `ReportedIsSent` for any number of requests, timers and
    faults, if no actuator is written relative to where it is and no limit
    clamps by conditions or a rate (`ChecksAlike`): the driver's check then finds
    the value that the middleware's found. Of a relative write it finds another
    (`MwRelative`), of a clamp it may, since time has passed in between.
  * `AwayTimed` is `AwayIsTimed`, the dead-man promise of the hardware and not
    of the record, and holds through re-registrations. It needs more
    (`Dependable`), and each part is there because the promise fails without
    it: a stop that works on a link that loses nothing; every timed actuator
    has a safe state, which the stop drives; it starts at home, since no timer
    is armed for where an actuator stands when the server starts; a read of its
    feedback does not fail, since a write that moved it and then could not be
    verified arms no timer; the checks agree (`ChecksAlike`), so that an expiry
    sends the default itself; and one caller at a time, since a stop cancels the
    timer of a write that finished while it ran (see 6). `AInv` names for every
    actuator that is away who answers for it: its timer, a write that was sent
    and will arm one, or an expiry that has yet to send the default or to stop.
* `AuditLogProofs`: `TypeCorrect`, `ChainSound`, `AckedSurvive`,
  `TamperingSeen`. The invariant adds `EndKnown`: as long as nothing is spoiled, the writer's memory is the end
  of the file, except between the write and the return of the one thread that
  holds the lock, which then carries the last line itself; and an entry that
  was returned unspoiled is within the synced part. Once somebody else has
  changed the file nothing more is claimed of the chain. `TamperingSeen` is
  about that file: the change happens to a chain that was sound, so every line
  before it is good and it or its successor is not; what is appended later may
  garble the last line, never mend it, and a power loss takes only lines that
  were not on the disk.
* `SerialArmProofs`: `TypeCorrect`, `PortsAreAccounted`, `ArmImplementsLoop`.
  The refinement has no hypothesis: any callers, overlapping or not. Its
  invariant says that a call at rest holds nothing and one about to send has a
  line to send (`CallsAreOrderly`), and that every reading on its way back or in
  the buffer reports a place the axis has had since the input was last flushed
  with no answer on its way (`AnswersAreFresh`). Each step of the arm is then a
  step of the loop or a stutter. `PortsAreAccounted` assumes `OneAtATime`; its
  invariant adds that one call is open at most, and that a port is opened only
  where none is held.
* `FleetProofs`: `TypeCorrect`, `EnvelopeKept`, `BatchAnswered` and
  `SweepReaches`, for any devices, tags, batches, clients and timers. The
  envelope needs no more than the types: every call of a driver is checked
  against the driver's own tag, and the driver's own stop, which a refusal may
  run, goes to its safe value. `BatchAnswered` holds of each task by itself.
  `SweepReaches` needs of the registry that a record is its device's, and that
  while the server runs a device it started with keeps its driver unless it was
  deregistered; of a sweep under way, that every device it still owes a word has
  its record in the queue; and that nothing runs while the server is down,
  because a start forgets who was deregistered.
* `BenchProofs`: `TypeCorrect`, `PacingSuffices`, `LeaksAreReal`, `LeaksAreSeen`,
  `TimerNotes`, for any range or discrete set, default, rate, speed, floor,
  duration and number of attempts.
  * `PaceInv` relates the benchmark's copy of the last write to both histories:
    unless they have drifted, each is empty or holds the copy's value and is at
    least as old, or it holds what the answer under way will make of the copy;
    and what is left of a wait is enough for the step.
  * `LeakInv` says where the actuator is in an attempt that is refused, from a
    settled start and with no timer gone off: at its baseline if nothing was
    written and nothing stopped it (`StaysPut`), and otherwise as far along the
    way to the value as it has had the time to go (`IsOnTheWay`); and so for the
    result (`ResultIsFair`). `LeaksAreReal` follows, and `LeaksAreSeen`: an
    actuator that went further than the floor, than twice the jitter and than a
    quarter of the way is found.
  * `TimerNotes` is about channels that read floats, and assumes
    `HeldLongEnough`: the actuator gets from anywhere to the value held within
    twice the timer and beyond the floor within once; and the default is the value
    held, or further from it than the floor, with a rate that allows more than the
    floor by the time the timer goes off (a clamp sends no more than that).
    `HoldInv` counts what is left of the hold against the way that is left. A
    return the rate refuses ends in a stop, which goes to the default as well.
* `StackerProofs`: `TypeCorrect`, `TheClaimStands`, `ContactPlanned`,
  `ResumesWhereItStands`, for any number of blocks on any table, any
  `--standing`, retries and grasps. `WorldFits` says that every block is once in
  the stacks, in the jaws or out of reach. Where no other blocks were stacked at
  the start and none fell onto another, `PlainFits` says that there is one tower
  and of each block the agent remembers as placed that it is in it only on those
  that belong below it: what came off is not put back before it is its turn, so
  a topple or a wrong count makes the tower lower than remembered and never a
  different one. Of an attempt that knows of every stack, `KnownFits` says what
  may be under the gripper. `TheClaimStands` is about the claim where nothing
  fell onto another block; TLC checks `ClaimStands` with such piles as well.

Only model-checked: the liveness properties (`AwayComesHome`,
`EveryCallReturns`, `EveryExchangeEnds`, `TimedComesHome`, `EveryRunEnds`),
which are out of the prover's reach, and `ClaimStands` where blocks have fallen
onto others. Every other property of a passing run is stated by a theorem.
Where a theorem has a hypothesis, the instance of the run satisfies it:
`MwAgent` is an instance of `Timers` (one caller, who may see the device
announce itself again) and of `AwayTimed`, `MwCell` of `Reported`, `Bench` of
`TimerNotes`, and `SerialArm` of `PortsAreAccounted` (`OneAtATime`).

## 5. What the model leaves out

* Messages, error codes, JSON, logging and the REST layer. A request that the
  gate refuses (no such target, not confirmed) changes nothing and is not
  followed. Strings and enumerations are indices; values are whole steps.
* The condition channels of one limit are read in any order and each read is
  its own step; the code reads them in the order of the conditions.
* The actuator is where it was sent as soon as the device takes the command;
  a device that is slow or stuck shows in what the feedback reads return.
* `NaN` is a value of `SafetyLimits` and `DirectDriver`; `Middleware` takes
  whole numbers only.
* In `Middleware` a device always has a driver, and announces itself again with
  the same tag and driver; other tags and devices without a driver are in
  `Fleet`, which has one actuator per device and no write histories.
* A timer's delay is counted in ticks; timers and the number of tasks that
  have gone off are bounded by `Expiries`.

## 6. What the runs found

Three statements of the documents are not kept by the code, each shown by a
run:

* `DirectDriverFailedRead`: a condition channel that cannot be read widens the
  envelope to the base bound (`server/safety.py:154`), where
  `docs/capability-tags.md:214` promises that it can only tighten it.
* `MwRelative`: a relative write is resolved by the dispatcher and once more by
  the driver (`server/routers/rpc.py:207`, `drivers/base.py:182`): what is
  reported is not what was sent.
* `MwFailed`: a write that moved the actuator and then failed to verify arms no
  timer (`server/routers/rpc.py:245`).

Further configurations, each with the module of its run, are kept beside them
to be run by hand:

* `MwStopRace.cfg` (violates `StopSilencesTimers`): a timer that has gone off is
  out of an emergency stop's reach and may still write the default
  (`server/watchdog.py:63`), though `README.md:655` says that an e-stop cancels
  it and `tests/test_watchdog.py:108` that the watchdog must not write again;
* `AuditLogTorn.cfg` (violates `RestartContinues`): a line cut short by the end
  of the process keeps the next process from starting (`server/audit.py:65`),
  though `docs/audit-log.md:8-9` says that a restart continues the chain;
* `SerialRefused.cfg` (violates `RefusalNeverSuccess`): the acknowledgement of a
  command that timed out comes late and is read as the answer to the caller's
  next command, which the firmware refused, though
  `drivers/serial_transport.py:182-183` says that a firmware refusal never reads
  as success; one caller is enough;
* `BenchHeadline.cfg` (violates `HeadlineTrue`): a report with inconclusive
  attempts, or with a clamp that landed outside, opens with the sentence that
  every outcome matched what the tag declared (`bench/report.py:107-109`);
* `MwTwoCallers.cfg` (violates `AwayIsTimed`): an emergency stop drives the safe
  state and cancels the timers when that has returned
  (`server/routers/rpc.py:336-344`); another caller's write that transmits and is
  answered in between loses its timer, and the actuator stays away with nothing
  to bring it back, though `docs/capability-tags.md:218` promises the timer.
  `AwayIsTimed` is checked and proved with one caller, and `TimedComesHome` leaves
  that moment out (`Contended`);
* `StackerStanding.cfg` (violates `StandingIsCaught`): a stack of other blocks, or
  of the right ones in another order, with the right block on top is built upon,
  because `_resume` looks at the height of the top block alone
  (`examples/robosuite_demo/stack_blocks.py:640-647`), though lines 683-685 say
  that a wrong `--standing` is caught rather than acted on; `ClaimStands` and
  `ResumesOnTower` leave such tables out (`foreign`);
* `BenchUnstoppable.cfg` (violates `ReportIsReached`): on a device without a stop
  the attempt to write an infinity is paced after a write of the same target, and
  `time.sleep(inf)` raises in `_pace` (`bench/runner.py:258`, called outside any
  `try` at 290), so that the run ends without a report;
* `BenchFloor.cfg` (passes): the properties of `Bench` where a floor of one unit
  hides the probes beside the bounds, and reads fail;
* `MwTwoAgents.cfg` (passes): `EnvelopeAtHardware` and `HeldIsTimed` with two
  interchangeable requests, lost reads and a stuck actuator.

Where a property is stated with a condition, the condition is the place where
the code would break the wider one. These have no run of their own:

* under `clamp`, the rate clip comes after the range clip and knows only the
  base bound (`server/safety.py:344`): `ReadMeansInsideBound` asks for
  `ClippedOnce`;
* `NaN` passes a range check under `reject` and `estop`;
* a lost acknowledgement leaves the driver's memory behind the actuator, and
  the next step may be larger than the rate allows: `NoStepChange` asks that
  the driver remembers where the actuator is;
* a stop that fails may have driven the safe state before it raised, with the
  history kept (`drivers/base.py:242-251`): `NoStepChange` lets that move go to
  the safe state and nowhere else;
* two writes in flight share the rate context that each read before its first
  await (`drivers/base.py:176` and `206`);
* a stop that began before a re-registration, with a second request in flight,
  cancels timers of writes it does not forget: `HeldIsTimed` is checked with
  re-registration for one request and without it for two;
* the stop that an expiry falls back to, and a stop that the driver runs on its
  own, leave the other timers and the record's history alone; a stop with a
  partial `safe_state` cancels the timers of actuators it does not list;
* a default that the rate clamps on expiry is reported as returned;
* no timer is armed for an actuator that stands away from its default when the
  server starts, and `AwayTimed` asks that none does;
* the last line of the audit file can be deleted, or rewritten with its hash,
  without a trace, though `docs/audit-log.md:36-37` speaks of edits and
  deletions: `ChangeIsSeen` asks for a witness;
* a failing `fsync` leaves a line whose number the next line takes again:
  `SoundUntilDamage` and `AckedStays` speak of what came before; and an
  `OSError` of the log reaches the caller after the device has moved;
* two callers that find the serial port closed both open it and lose one port
  (`drivers/serial_transport.py:118-122`), and one whose close raises is given up
  (lines 130-133): `PortAccounted` counts the latter, and is checked and proved
  with `OneAtATime`;
* a write that fails to verify is in the driver's history and not in the
  middleware's nor in the benchmark's copy, so that the next legal value may be
  refused for its rate however it was paced: `PacedIsNotRated` lets `drift` out;
* of a channel that reads integers every hold is noted as returned
  (`bench/runner.py:345`): `TimerNoteTrue` asks for `Floats`;
* a probe one representable number beyond a bound (`bench/corpus.py:128`, `135`),
  leaked from that bound, moves the actuator by less than the 1e-9 of
  `bench/runner.py:81` and `93`: `LeakIsSeen` asks for more than the floor;
* under an `estop` limit a refusal moves the actuator to its safe state, which may
  look like part of the way to the value: `LeakIsReal` lets `stopped` out;
* a baseline read before the actuator has started to move looks settled, and
  what it does next counts as a leak: `LeakIsReal` lets that case out;
* a setup write whose answer is lost ends the benchmark without a report
  (`bench/runner.py:278` catches `RemoteRPCError` only), whatever the device;
* a release that stood but was not verified is not remembered, and the next
  attempt takes the table for clear; so does one after a block fell onto another:
  `ContactIsPlanned` speaks of attempts that begin with no stack but the one
  remembered and in which nothing falls onto a block (`known`);
* a block that has fallen onto a loose one may lie at the height the top of the
  remembered tower had, and is resumed on: `ResumesOnTower` leaves piles out;
* a gripper that refuses to open skips the emergency stop written after it
  (`stack_blocks.py:703-707`), and a refusal in `build` ends the program with the
  arm where it is.

## 7. Not modelled

* `mcp_adapter/server.py`, `formatting.py` and `cli/`: they turn answers into
  text, or arguments into calls, and keep nothing between two calls. Of
  `client.py` the benchmark's calls are in `Bench`.
* `server/auth.py`: a bearer token is compared before a handler runs, and the
  outcome of that comparison changes no state; the signing bridge only wraps a
  payload.
* `server/errors.py`, `capability_schema.json`, `__init__.py` files: data.
* The mock devices and the pybullet demonstrations: simulated physics and
  scripted scenes with no control of their own.
* `examples/robosuite_demo/cell.py` beyond its readings: the thread that steps
  the simulator and the one that serves it share a lock around the simulator's
  own state, which is not this repository's.
* Heartbeats and staleness (`server/registry.py:55-66`): a listing shows them,
  no command asks for them, so a clock that is set back changes what is shown
  and nothing else.
* Several devices in one benchmark run, and the stop after each
  (`bench/runner.py:392-401`): it clears the pacing of all devices, and the next
  write of another is then paced as a first one.
* What a floating-point value loses: all numbers are whole steps, or units of
  `Bench` in which 1e-9 is a whole number.

Still worth proving: `ClaimStands` where blocks have fallen onto others, which
asks of the invariant what every small pile does to what the camera sees.
