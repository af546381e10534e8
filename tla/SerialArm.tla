------------------------------ MODULE SerialArm ------------------------------
(***************************************************************************)
(* The G-code arm (open_mhs/drivers/serial_robotic_arm.py) on its serial    *)
(* link (serial_transport.py): a line is written, and the next line that    *)
(* comes back is taken for its answer.  Every await is a hop to a thread,   *)
(* nothing locks the port, and a reply carries no name, so what one call    *)
(* left on the wire is there for the next one to read.                      *)
(*                                                                          *)
(* Calls start where BaseDevice hands a checked value to the link.  One     *)
(* axis, the gripper and the temperature stand for the tag's channels; a    *)
(* position is compared within its accuracy, so equal here is equal there.  *)
(***************************************************************************)
EXTENDS Integers, Sequences

CONSTANTS
    None,
    Callers,    \* coroutines that call the driver
    Places,     \* positions of the axis
    Home,       \* the axis in the tag's safe state
    Polls,      \* how often `_verify` reads again
    Buffer,     \* bound: lines on the link when a call begins
    Unclosed,   \* bound: ports whose close may raise and leave them open
    OneAtATime  \* one task makes the calls, and closes the port between them

ASSUME SerialAssumption ==
    /\ None \notin Callers /\ None \notin Places
    /\ Home \in Places
    /\ Polls \in Nat /\ Buffer \in Nat /\ Unclosed \in Nat
    /\ OneAtATime \in BOOLEAN

VARIABLES
    conn,       \* SerialTransport._conn is an open port
    ports,      \* ports opened and not closed
    closing,    \* ports given up, and being closed on a thread
    unclosed,   \* history: ports whose close raised and left them open
    wire,       \* lines on their way to the firmware
    replies,    \* lines on their way back
    input,      \* the port's input buffer
    pos, goal,  \* where the axis is, and where the firmware drives it
    since,      \* history: where the axis has been since the input was last
                \* flushed with no answer on its way
    call,       \* the calls
    out         \* how each caller's last call ended

portVars == <<conn, ports, closing, unclosed>>
linkVars == <<conn, ports, closing, unclosed, wire, replies, input>>
axisVars == <<pos, goal, since>>
vars == <<conn, ports, closing, unclosed, wire, replies, input, pos, goal, since,
          call, out>>

NoClaim == [claim |-> "none", value |-> None, refused |-> FALSE]

(* `refused` records, for the properties alone, whether the firmware        *)
(* refused a line of the call.                                              *)
Idle == [pc |-> "idle", opening |-> FALSE, kind |-> "none", target |-> None, want |-> None,
         queue |-> << >>, polls |-> 0, refused |-> FALSE]

Init ==
    /\ conn = FALSE /\ ports = 0 /\ closing = 0 /\ unclosed = 0
    /\ wire = << >> /\ replies = << >> /\ input = << >>
    /\ pos \in Places /\ goal = pos /\ since = {pos}
    /\ call = [c \in Callers |-> Idle]
    /\ out = [c \in Callers |-> NoClaim]

-----------------------------------------------------------------------------
(* A call ends.  A failure of the link ends it with no claim at all.        *)

Return(c, claim, value) ==
    /\ out' = [out EXCEPT ![c] = [claim |-> claim, value |-> value,
                                  refused |-> call[c].refused]]
    /\ call' = [call EXCEPT ![c] = Idle]

(* TransportError, raised upstream as HardwareExecutionError.               *)
Raise(c) == Return(c, "none", None)

GoTo(c, pc) == call' = [call EXCEPT ![c].pc = pc] /\ UNCHANGED out

-----------------------------------------------------------------------------
(* Calls begin.                                                             *)

(* Nothing makes a caller wait for what an earlier call, given up after its *)
(* timeout, left on its way.                                                *)
MayBegin(c) ==
    /\ call[c] = Idle
    /\ Len(wire) + Len(replies) + Len(input) <= Buffer
    /\ OneAtATime => closing = 0 /\ \A d \in Callers : call[d] = Idle

(* A line of a call that has ended is nobody's.                             *)
Disowned(c) ==
    [i \in DOMAIN wire |->
        IF wire[i].by = c THEN [wire[i] EXCEPT !.by = None] ELSE wire[i]]

Begins(c, rec) ==
    /\ MayBegin(c)
    /\ call' = [call EXCEPT ![c] = rec]
    /\ out' = [out EXCEPT ![c] = NoClaim]
    /\ wire' = Disowned(c)
    /\ UNCHANGED <<portVars, replies, input, axisVars>>

(* QUERY_MAP: the line that asks for a channel; the gripper has none.       *)
Query == [axis |-> "M114", motor_temp |-> "M105"]

(* BaseDevice.read: acquire, then decode.  A channel without a query raises *)
(* before the port is used, and is not followed.                            *)
BeginRead(c, target) ==
    Begins(c, [Idle EXCEPT !.pc = "flush", !.kind = "read", !.target = target])

(* BaseDevice.write past its checks: the axis to a place, or the gripper.   *)
BeginWrite(c, target, value) ==
    Begins(c, [Idle EXCEPT !.pc = "send", !.kind = "write", !.target = target,
                           !.want = value, !.queue = <<value>>, !.polls = Polls])

(* SerialRoboticArm.emergency_stop: M112, then the safe state, unverified.  *)
BeginStop(c) ==
    Begins(c, [Idle EXCEPT !.pc = "halt", !.kind = "stop",
                           !.queue = <<Home, None>>])

-----------------------------------------------------------------------------
(* SerialTransport: the port.                                               *)

Working(c) == call[c].pc # "idle"

(* Mutant of OpenPort: open is not idempotent.                              *)
OpenAnyPort(c) ==
    /\ Working(c) /\ ~call[c].opening
    /\ call' = [call EXCEPT ![c].opening = TRUE]
    /\ UNCHANGED <<linkVars, axisVars, out>>

(* `_connection` finds no open port and runs the factory on a thread; a     *)
(* second caller may do the same before the first is back.                  *)
OpenPort(c) ==
    /\ Working(c) /\ ~conn /\ ~call[c].opening
    /\ call' = [call EXCEPT ![c].opening = TRUE]
    /\ UNCHANGED <<linkVars, axisVars, out>>

(* The factory returns: the new port takes the place of any other.          *)
PortOpens(c) ==
    /\ call[c].opening
    /\ conn' = TRUE /\ ports' = ports + 1
    /\ call' = [call EXCEPT ![c].opening = FALSE]
    /\ UNCHANGED <<closing, unclosed, wire, replies, input, axisVars, out>>

CanUse(c, pc) == conn /\ ~call[c].opening /\ call[c].pc = pc

(* close: the transport gives its port up, with what it had received, and   *)
(* closes it on a thread.                                                   *)
Close ==
    /\ conn
    /\ OneAtATime => \A c \in Callers : call[c] = Idle
    /\ conn' = FALSE /\ closing' = closing + 1
    /\ input' = << >>
    /\ UNCHANGED <<ports, unclosed, wire, replies, axisVars, call, out>>

PortCloses ==
    /\ closing > 0
    /\ closing' = closing - 1 /\ ports' = ports - 1
    /\ UNCHANGED <<conn, unclosed, wire, replies, input, axisVars, call, out>>

(* Closing raises, which is logged, and the port may still be open.         *)
CloseFails ==
    /\ closing > 0 /\ unclosed < Unclosed
    /\ closing' = closing - 1 /\ unclosed' = unclosed + 1
    /\ UNCHANGED <<conn, ports, wire, replies, input, axisVars, call, out>>

(* Opening, writing, flushing or reading raises TransportError.  A halt     *)
(* that cannot be sent must not prevent the safe state.                     *)
LinkFails(c) ==
    /\ Working(c)
    /\ IF call[c].pc = "halt"
       THEN call' = [call EXCEPT ![c].pc = "send", ![c].opening = FALSE] /\ UNCHANGED out
       ELSE Raise(c)
    /\ UNCHANGED <<linkVars, axisVars>>

Write(c, op, value) ==
    wire' = Append(wire, [op |-> op, value |-> value, by |-> c])

-----------------------------------------------------------------------------
(* SerialTransport.command, and what the driver does with its outcome.      *)

(* M112 is written and nobody reads an answer to it.                        *)
Halt(c) ==
    /\ CanUse(c, "halt")
    /\ Write(c, "M112", None)
    /\ call' = [call EXCEPT ![c].pc = "send"]
    /\ UNCHANGED <<portVars, replies, input, axisVars, out>>

(* `encode`: G1 for the axis, M3 or M5 for the gripper.                     *)
Send(c) ==
    LET value == Head(call[c].queue)
    IN  /\ CanUse(c, "send")
        /\ Write(c, IF value \in Places THEN "G1" ELSE "tool", value)
        /\ call' = [call EXCEPT ![c].pc = "ack", ![c].queue = Tail(@)]
        /\ UNCHANGED <<portVars, replies, input, axisVars, out>>

(* The next line is an ack: a stop goes on to its next target, a write of   *)
(* the axis is verified, and the rest is done.                              *)
Accepted(c) ==
    /\ CanUse(c, "ack")
    /\ input # << >> /\ Head(input).op = "ok"
    /\ input' = Tail(input)
    /\ \/ /\ call[c].queue # << >>
          /\ call' = [call EXCEPT ![c].pc = "send"] /\ UNCHANGED out
       \/ /\ call[c].queue = << >> /\ call[c].target = "axis"
          /\ call' = [call EXCEPT ![c].pc = "flush"] /\ UNCHANGED out
       \/ /\ call[c].queue = << >> /\ call[c].target # "axis"
          /\ Return(c, "done", None)
    /\ UNCHANGED <<portVars, wire, replies, axisVars>>

(* Any other line is taken for a refusal.                                   *)
Rejected(c) ==
    /\ CanUse(c, "ack")
    /\ input # << >> /\ Head(input).op # "ok"
    /\ input' = Tail(input)
    /\ Raise(c)
    /\ UNCHANGED <<portVars, wire, replies, axisVars>>

(* Mutant of TimesOut: a read of the port blocks until a line comes.        *)
NeverTimesOut(c) == FALSE /\ UNCHANGED vars

(* readline comes back empty: `no response`.                                *)
TimesOut(c) ==
    /\ CanUse(c, "ack") \/ CanUse(c, "hear")
    /\ input = << >>
    /\ Raise(c)
    /\ UNCHANGED <<linkVars, axisVars>>

-----------------------------------------------------------------------------
(* SerialTransport.acquire and SerialRoboticArm.decode.                     *)

(* What the history starts again from, when the input is flushed.           *)
Refreshed == since' = IF replies = << >> THEN {pos} ELSE since

(* Mutant of Flush: the query is written onto whatever is there.            *)
NoFlush(c) ==
    /\ CanUse(c, "flush")
    /\ Refreshed
    /\ GoTo(c, "ask")
    /\ UNCHANGED <<linkVars, pos, goal>>

(* reset_input_buffer drops what has arrived, not what is on its way.       *)
Flush(c) ==
    /\ CanUse(c, "flush")
    /\ input' = << >>
    /\ Refreshed
    /\ GoTo(c, "ask")
    /\ UNCHANGED <<portVars, wire, replies, pos, goal>>

Ask(c) ==
    /\ CanUse(c, "ask")
    /\ Write(c, Query[call[c].target], None)
    /\ GoTo(c, "hear")
    /\ UNCHANGED <<portVars, replies, input, axisVars>>

(* The line holds no reading of this channel: decode raises.                *)
HearsOther(c) ==
    /\ CanUse(c, "hear")
    /\ input # << >> /\ Head(input).op # Query[call[c].target]
    /\ input' = Tail(input)
    /\ Raise(c)
    /\ UNCHANGED <<portVars, wire, replies, axisVars>>

(* A read returns its reading; a temperature is not followed further.       *)
HearsReading(c) ==
    /\ CanUse(c, "hear")
    /\ call[c].kind = "read"
    /\ input # << >> /\ Head(input).op = Query[call[c].target]
    /\ input' = Tail(input)
    /\ IF call[c].target = "axis" THEN Return(c, "read", Head(input).value)
                                  ELSE Return(c, "done", None)
    /\ UNCHANGED <<portVars, wire, replies, axisVars>>

(* Mutant of Verifies: the budget is counted down and never looked at.      *)
VerifiesOnAndOn(c) ==
    LET settled == Head(input).value = call[c].want
    IN  /\ CanUse(c, "hear")
        /\ call[c].kind = "write"
        /\ input # << >> /\ Head(input).op = "M114"
        /\ input' = Tail(input)
        /\ \/ settled /\ Return(c, "verified", call[c].want)
           \/ /\ ~settled
              /\ call' = [call EXCEPT ![c].pc = "flush", ![c].polls = @ - 1]
              /\ UNCHANGED out
        /\ UNCHANGED <<portVars, wire, replies, axisVars>>

(* `_verify`: settled, or read again, or a desync.                          *)
Verifies(c) ==
    LET settled == Head(input).value = call[c].want
    IN  /\ CanUse(c, "hear")
        /\ call[c].kind = "write"
        /\ input # << >> /\ Head(input).op = "M114"
        /\ input' = Tail(input)
        /\ \/ settled /\ Return(c, "verified", call[c].want)
           \/ /\ ~settled /\ call[c].polls > 0
              /\ call' = [call EXCEPT ![c].pc = "flush", ![c].polls = @ - 1]
              /\ UNCHANGED out
           \/ ~settled /\ call[c].polls = 0 /\ Raise(c)
        /\ UNCHANGED <<portVars, wire, replies, axisVars>>

-----------------------------------------------------------------------------
(* The firmware and the cable.                                              *)

Reply(op, value) == [op |-> op, value |-> value]

Answers(reply) == replies' = Append(replies, reply) \/ UNCHANGED replies

(* A line is executed or refused, or was garbled on the way; its answer is  *)
(* on the way back, or is lost.                                             *)
Execute ==
    LET line == Head(wire)
    IN  /\ wire # << >>
        /\ wire' = Tail(wire)
        /\ CASE line.op = "M114" -> Answers(Reply("M114", pos)) /\ UNCHANGED goal
             [] line.op = "M105" -> Answers(Reply("M105", None)) /\ UNCHANGED goal
             [] line.op = "M112" -> Answers(Reply("ok", None)) /\ goal' = pos
             [] line.op = "G1"   -> Answers(Reply("ok", None)) /\ goal' \in {line.value, goal}
             [] line.op = "tool" -> Answers(Reply("ok", None)) /\ UNCHANGED goal
        /\ UNCHANGED <<portVars, input, pos, since, call, out>>

Refuse ==
    LET line == Head(wire)
    IN  /\ wire # << >> /\ line.op \in {"G1", "tool"}
        /\ wire' = Tail(wire)
        /\ replies' = Append(replies, Reply("error", None))
        /\ call' = [c \in Callers |->
              IF line.by = c /\ Working(c) THEN [call[c] EXCEPT !.refused = TRUE]
                                          ELSE call[c]]
        /\ UNCHANGED <<portVars, input, axisVars, out>>

(* A reply reaches the input buffer; with no port open it goes nowhere.     *)
Arrive ==
    /\ replies # << >>
    /\ replies' = Tail(replies)
    /\ input' = IF conn THEN Append(input, Head(replies)) ELSE input
    /\ UNCHANGED <<portVars, wire, axisVars, call, out>>

(* The axis reaches where it is driven.                                     *)
Settle ==
    /\ pos # goal
    /\ pos' = goal
    /\ since' = since \cup {goal}
    /\ UNCHANGED <<linkVars, goal, call, out>>

-----------------------------------------------------------------------------
Begin(c) ==
    \/ \E target \in DOMAIN Query : BeginRead(c, target)
    \/ \E place \in Places : BeginWrite(c, "axis", place)
    \/ BeginWrite(c, "gripper", None)
    \/ BeginStop(c)

(* A step of the code inside a call, the link doing its part.               *)
Step(c) ==
    \/ OpenPort(c) \/ PortOpens(c)
    \/ Halt(c) \/ Send(c) \/ Accepted(c) \/ Rejected(c) \/ TimesOut(c)
    \/ Flush(c) \/ Ask(c) \/ HearsOther(c) \/ HearsReading(c) \/ Verifies(c)

Next ==
    \/ \E c \in Callers : Begin(c) \/ Step(c) \/ LinkFails(c)
    \/ Close \/ PortCloses \/ CloseFails \/ Execute \/ Refuse \/ Arrive \/ Settle

Spec == Init /\ [][Next]_vars

(* The event loop runs every thread hop to its end; a link that fails ends  *)
(* a call earlier, and is not counted on.                                   *)
FairSpec == Spec /\ \A c \in Callers : WF_vars(Step(c))

-----------------------------------------------------------------------------
(* Properties.                                                              *)

Words == Places \cup {None}

Line ==
    [op : {"G1"}, value : Places, by : Callers \cup {None}]
    \cup [op : {"tool", "M105", "M112", "M114"}, value : {None}, by : Callers \cup {None}]

Answer == [op : {"ok", "error", "M105", "M114"}, value : Words]

Claim == [claim : {"none", "done", "read", "verified"}, value : Words, refused : BOOLEAN]

Call == [pc : {"idle", "halt", "send", "ack", "flush", "ask", "hear"},
         opening : BOOLEAN, kind : {"none", "read", "write", "stop"},
         target : {None, "axis", "motor_temp", "gripper"}, want : Words,
         queue : Seq(Words), polls : 0 .. Polls,
         refused : BOOLEAN]

(* Every variable has its type: the lines on the link are the driver's, the *)
(* answers the firmware's, and a call stands at a point of the code with a  *)
(* budget of readings it has not overdrawn (base.py:313-323).               *)
TypeOK ==
    /\ conn \in BOOLEAN /\ ports \in Int /\ closing \in Nat /\ unclosed \in Nat
    /\ wire \in Seq(Line) /\ replies \in Seq(Answer) /\ input \in Seq(Answer)
    /\ pos \in Places /\ goal \in Places /\ since \subseteq Places
    /\ call \in [Callers -> Call]
    /\ out \in [Callers -> Claim]

(* As long as one task makes the calls, a port that is open is the one the  *)
(* transport holds, or one it is closing, or one whose close raised: no     *)
(* failure and no reconnection loses a port it could still close            *)
(* (serial_transport.py:114-134).                                           *)
PortAccounted == ports = (IF conn THEN 1 ELSE 0) + closing + unclosed

(* A refusal of the firmware never reads as success upstream                *)
(* (serial_transport.py:182-184).                                           *)
RefusalNeverSuccess ==
    \A c \in Callers : out[c].refused => out[c].claim \in {"none", "read"}

(* Every call of the driver ends, whatever the firmware does not say: a     *)
(* read that times out raises rather than blocking (serial_transport.py:63).*)
EveryExchangeEnds == \A c \in Callers : Working(c) ~> ~Working(c)

(* The closed loop (base.py:125-148, 289-340): a reading is a position the  *)
(* axis has had since the input was last flushed with no answer on its way, *)
(* and a verified write was at its target since then, whatever was lost,    *)
(* refused or late.  With no late answer that is the claim's own exchange;  *)
(* an answer that comes after the flush may be taken for the next.          *)
Loop == INSTANCE ClosedLoop WITH
    owed <- replies # << >>,
    call <- [c \in Callers |-> [open |-> Working(c), want |-> call[c].want,
                                asking |-> call[c].pc = "ask" \/ call[c].pc = "hear"]],
    out  <- [c \in Callers |-> IF out[c].claim \in {"read", "verified"}
                               THEN [claim |-> out[c].claim, value |-> out[c].value]
                               ELSE [claim |-> "none", value |-> None]]

ImplementsLoop == Loop!Spec

=============================================================================
