--------------------------- MODULE SerialArmProofs ---------------------------
(* What holds of the serial arm whatever its callers and its firmware do;   *)
(* the account of its ports needs the calls to come one at a time.          *)
EXTENDS SerialArm, TLAPS

(* A caller with no call open holds nothing, and one about to send has a    *)
(* line to send.                                                            *)
CallsAreOrderly ==
    \A c \in Callers :
        /\ call[c].pc = "idle" => call[c] = Idle
        /\ call[c].pc \in {"halt", "send"} => call[c].queue # << >>
        /\ call[c].pc \in {"flush", "ask", "hear"} => call[c].target \in DOMAIN Query

(* An answer on its way back, or in the input buffer, reports a place where *)
(* the axis has been since the input was last flushed on a quiet link.      *)
Fresh(answers) ==
    \A i \in DOMAIN answers : answers[i].op = "M114" => answers[i].value \in since

AnswersAreFresh == pos \in since /\ Fresh(replies) /\ Fresh(input)

IInv == TypeOK /\ CallsAreOrderly /\ AnswersAreFresh

-----------------------------------------------------------------------------
LEMMA IdleIsACall == Idle \in Call /\ NoClaim \in Claim
  BY SerialAssumption DEF Idle, Call, NoClaim, Claim, Words

LEMMA InitEstablishes == Init => IInv
<1> SUFFICES ASSUME Init PROVE IInv
  OBVIOUS
<1>1. TypeOK
  <2>1. call \in [Callers -> Call] /\ out \in [Callers -> Claim]
    BY IdleIsACall DEF Init
  <2>2. conn \in BOOLEAN
    BY DEF Init
  <2>5. ports \in Int /\ closing \in Nat /\ unclosed \in Nat
    BY DEF Init
  <2>3. wire \in Seq(Line) /\ replies \in Seq(Answer) /\ input \in Seq(Answer)
    BY DEF Init
  <2>4. pos \in Places /\ goal \in Places /\ since \subseteq Places
    BY DEF Init
  <2> QED
    BY <2>1, <2>2, <2>3, <2>4, <2>5 DEF TypeOK
<1>2. CallsAreOrderly
  BY DEF Init, CallsAreOrderly, Idle, Working
<1>3. AnswersAreFresh
  BY DEF Init, AnswersAreFresh, Fresh
<1> QED
  BY <1>1, <1>2, <1>3 DEF IInv

(* A step of a call that goes on, or ends.                                  *)
LEMMA StepTypes ==
    ASSUME TypeOK, NEW c \in Callers,
           \/ \E rec \in Call : call' = [call EXCEPT ![c] = rec] /\ UNCHANGED out
           \/ \E claim \in {"none", "done", "read", "verified"}, value \in Words :
                 Return(c, claim, value)
    PROVE  call' \in [Callers -> Call] /\ out' \in [Callers -> Claim]
<1>1. CASE \E rec \in Call : call' = [call EXCEPT ![c] = rec] /\ UNCHANGED out
  BY <1>1 DEF TypeOK
<1>2. ASSUME NEW claim \in {"none", "done", "read", "verified"}, NEW value \in Words,
             Return(c, claim, value)
      PROVE  call' \in [Callers -> Call] /\ out' \in [Callers -> Claim]
  <2>1. [claim |-> claim, value |-> value, refused |-> call[c].refused] \in Claim
    BY DEF TypeOK, Call, Claim
  <2> QED
    BY <1>2, <2>1, IdleIsACall DEF TypeOK, Return
<1> QED
  BY <1>1, <1>2
-----------------------------------------------------------------------------
(* The calls.                                                               *)

LEMMA TakesHead ==
    ASSUME NEW S, NEW s \in Seq(S), s # << >>
    PROVE  /\ Tail(s) \in Seq(S)
           /\ Head(s) \in S
           /\ 1 \in DOMAIN s /\ Head(s) = s[1]
           /\ \A i \in DOMAIN Tail(s) : i + 1 \in DOMAIN s /\ Tail(s)[i] = s[i + 1]
  OBVIOUS

(* The input buffer after a step of a call: shorter, never anything new.    *)
Drained ==
    /\ input' \in Seq(Answer)
    /\ \A i \in DOMAIN input' : \E j \in DOMAIN input : input'[i] = input[j]

LEMMA Drains ==
    ASSUME TypeOK, \/ UNCHANGED input \/ input' = << >>
                   \/ input # << >> /\ input' = Tail(input)
    PROVE  Drained
<1>1. CASE UNCHANGED input
  BY <1>1 DEF TypeOK, Drained
<1>3. CASE input' = << >>
  BY <1>3 DEF Drained
<1>2. CASE input # << >> /\ input' = Tail(input)
  <2>1. input \in Seq(Answer)
    BY DEF TypeOK
  <2>2. /\ input' \in Seq(Answer)
        /\ \A i \in DOMAIN input' : i + 1 \in DOMAIN input /\ input'[i] = input[i + 1]
    BY <1>2, <2>1, TakesHead
  <2> QED
    BY <2>2 DEF Drained
<1> QED
  BY <1>1, <1>2, <1>3

Ports == conn \in BOOLEAN /\ ports \in Int /\ closing \in Nat /\ unclosed \in Nat

(* A call goes on to another point of the code.                             *)
LEMMA GoesOn ==
    ASSUME IInv, NEW c \in Callers, NEW rec \in Call, Working(c),
           call' = [call EXCEPT ![c] = rec],
           rec.pc # "idle",
           rec.pc \in {"halt", "send"} => rec.queue # << >>,
           rec.pc \in {"flush", "ask", "hear"} => rec.target \in DOMAIN Query,
           Ports', wire' \in Seq(Line), Drained,
           UNCHANGED <<replies, axisVars, out>>
    PROVE  IInv'
<1> USE DEF IInv
<1>1. call' \in [Callers -> Call] /\ call'[c] = rec
      /\ \A d \in Callers \ {c} : call'[d] = call[d]
  BY DEF TypeOK
<1>2. TypeOK'
  BY <1>1 DEF TypeOK, Drained, Ports, axisVars
<1>3. CallsAreOrderly'
  BY <1>1 DEF CallsAreOrderly
<1>4. AnswersAreFresh'
  BY DEF AnswersAreFresh, Fresh, Drained, axisVars
<1> QED
  BY <1>2, <1>3, <1>4

(* A call ends.                                                             *)
LEMMA Ends ==
    ASSUME IInv, NEW c \in Callers,
           NEW claim \in {"none", "done", "read", "verified"}, NEW value \in Words,
           Return(c, claim, value), Drained,
           UNCHANGED <<portVars, wire, replies, axisVars>>
    PROVE  IInv'
<1> USE DEF IInv
<1>1. call' \in [Callers -> Call] /\ out' \in [Callers -> Claim]
  BY StepTypes
<1>2. call'[c] = Idle /\ \A d \in Callers \ {c} : call'[d] = call[d]
  BY DEF TypeOK, Return
<1>3. TypeOK'
  BY <1>1 DEF TypeOK, Drained, portVars, axisVars
<1>4. Idle.pc = "idle"
  BY DEF Idle
<1>5. CallsAreOrderly'
  BY <1>2, <1>4 DEF CallsAreOrderly, Working
<1>6. AnswersAreFresh'
  BY DEF AnswersAreFresh, Fresh, Drained, axisVars
<1> QED
  BY <1>3, <1>5, <1>6

LEMMA RaiseEnds ==
    ASSUME IInv, NEW c \in Callers, Raise(c), Drained,
           UNCHANGED <<portVars, wire, replies, axisVars>>
    PROVE  IInv'
  BY Ends, SerialAssumption DEF Raise, Words

(* What is written is a line.                                               *)
LEMMA WritesALine ==
    ASSUME TypeOK, NEW c \in Callers, NEW value \in Words,
           NEW op, Write(c, op, value),
           IF value \in Places THEN op = "G1" ELSE op \in {"tool", "M105", "M112", "M114"}
    PROVE  wire' \in Seq(Line)
<1>1. [op |-> op, value |-> value, by |-> c] \in Line
  BY DEF Line, Words
<1> QED
  BY <1>1 DEF TypeOK, Write

LEMMA PortKeeps ==
    ASSUME IInv, NEW c \in Callers, OpenPort(c) \/ PortOpens(c)
    PROVE  IInv'
<1>1. TypeOK /\ CallsAreOrderly
  BY DEF IInv
<1>2. Working(c)
  BY <1>1 DEF CallsAreOrderly, Working, OpenPort, PortOpens, Idle
<1>3. PICK open \in BOOLEAN : call' = [call EXCEPT ![c].opening = open]
  BY DEF OpenPort, PortOpens
<1> DEFINE rec == [call[c] EXCEPT !.opening = open]
<1>4. call[c] \in Call /\ rec \in Call
  BY <1>1 DEF TypeOK, Call
<1>5. /\ rec.pc = call[c].pc
      /\ rec.queue = call[c].queue /\ rec.target = call[c].target
  BY <1>4 DEF Call
<1>6. call' = [call EXCEPT ![c] = rec]
  BY <1>1, <1>3 DEF TypeOK
<1>7. Drained
  BY <1>1, Drains DEF OpenPort, PortOpens, linkVars
<1>8. /\ Ports' /\ wire' \in Seq(Line)
      /\ UNCHANGED <<replies, axisVars, out>>
  <2>1. CASE OpenPort(c)
    BY <1>1, <2>1 DEF TypeOK, OpenPort, linkVars, Ports
  <2>2. CASE PortOpens(c)
    BY <1>1, <2>2 DEF TypeOK, PortOpens, Ports
  <2> QED
    BY <2>1, <2>2
<1> HIDE DEF rec
<1> QED
  BY <1>1, <1>2, <1>4, <1>5, <1>6, <1>7, <1>8, GoesOn DEF CallsAreOrderly, Working

LEMMA HaltKeeps ==
    ASSUME IInv, NEW c \in Callers, Halt(c)
    PROVE  IInv'
<1>1. TypeOK /\ CallsAreOrderly /\ call[c] \in Call
  BY DEF IInv, TypeOK
<1>2. Working(c) /\ call[c].pc = "halt"
  BY DEF Halt, CanUse, Working
<1> DEFINE rec == [call[c] EXCEPT !.pc = "send"]
<1>3. rec \in Call
  BY <1>1, <1>2, TakesHead DEF Call, CallsAreOrderly
<1>4. call' = [call EXCEPT ![c] = rec]
  BY <1>1 DEF TypeOK, Halt, GoTo
<1>5. Drained
  BY <1>1, Drains DEF Halt, linkVars
<1>6. wire' \in Seq(Line)
  BY <1>1, WritesALine, SerialAssumption DEF Halt, Words
<1>7. /\ Ports'
      /\ UNCHANGED <<replies, axisVars, out>>
  BY <1>1 DEF TypeOK, Ports, portVars, Halt, GoTo
<1>8. rec.queue \in {call[c].queue, Tail(call[c].queue)}
      /\ rec.target = call[c].target
  BY <1>1 DEF Call
<1>9. /\ rec.pc # "idle"
      /\ rec.pc \in {"halt", "send"} => rec.queue # << >>
      /\ rec.pc \in {"flush", "ask", "hear"} => rec.target \in DOMAIN Query
  BY <1>1, <1>2 DEF Halt, Call, CallsAreOrderly
<1> HIDE DEF rec
<1> QED
  BY <1>2, <1>3, <1>4, <1>5, <1>6, <1>7, <1>8, <1>9, GoesOn

LEMMA SendKeeps ==
    ASSUME IInv, NEW c \in Callers, Send(c)
    PROVE  IInv'
<1>1. TypeOK /\ CallsAreOrderly /\ call[c] \in Call
  BY DEF IInv, TypeOK
<1>2. Working(c) /\ call[c].pc = "send"
  BY DEF Send, CanUse, Working
<1> DEFINE rec == [call[c] EXCEPT !.pc = "ack", !.queue = Tail(@)]
<1>3. rec \in Call
  BY <1>1, <1>2, TakesHead DEF Call, CallsAreOrderly
<1>4. call' = [call EXCEPT ![c] = rec]
  BY <1>1 DEF TypeOK, Send, GoTo
<1>5. Drained
  BY <1>1, Drains DEF Send, linkVars
<1>6. wire' \in Seq(Line)
  <2>1. Head(call[c].queue) \in Words
    BY <1>1, <1>2, TakesHead DEF Call, CallsAreOrderly
  <2> QED
    BY <1>1, <2>1, WritesALine DEF Send
<1>7. /\ Ports'
      /\ UNCHANGED <<replies, axisVars, out>>
  BY <1>1 DEF TypeOK, Ports, portVars, Send, GoTo
<1>8. rec.queue \in {call[c].queue, Tail(call[c].queue)}
      /\ rec.target = call[c].target
  BY <1>1 DEF Call
<1>9. /\ rec.pc # "idle"
      /\ rec.pc \in {"halt", "send"} => rec.queue # << >>
      /\ rec.pc \in {"flush", "ask", "hear"} => rec.target \in DOMAIN Query
  BY <1>1, <1>2 DEF Send, Call, CallsAreOrderly
<1> HIDE DEF rec
<1> QED
  BY <1>2, <1>3, <1>4, <1>5, <1>6, <1>7, <1>8, <1>9, GoesOn

LEMMA FlushKeeps ==
    ASSUME IInv, NEW c \in Callers, Flush(c)
    PROVE  IInv'
<1>1. TypeOK /\ CallsAreOrderly /\ AnswersAreFresh /\ call[c] \in Call
  BY DEF IInv, TypeOK
<1> DEFINE rec == [call[c] EXCEPT !.pc = "ask"]
<1>2. /\ rec \in Call /\ call' = [call EXCEPT ![c] = rec]
      /\ rec.pc = "ask" /\ rec.target = call[c].target /\ rec.queue = call[c].queue
  BY <1>1 DEF TypeOK, Call, Flush, GoTo
<1> HIDE DEF rec
<1>3. /\ input' = << >>
      /\ since' = IF replies = << >> THEN {pos} ELSE since
      /\ UNCHANGED <<portVars, wire, replies, pos, goal, out>>
  BY DEF Flush, Refreshed, GoTo
<1>4. TypeOK'
  <2>1. call' \in [Callers -> Call]
    BY <1>1, <1>2 DEF TypeOK
  <2>2. since' \subseteq Places /\ input' \in Seq(Answer)
    BY <1>1, <1>3 DEF TypeOK
  <2> QED
    BY <1>1, <1>3, <2>1, <2>2 DEF TypeOK, portVars
<1>5. CallsAreOrderly'
  <2>1. call[c].target \in DOMAIN Query
    BY <1>1 DEF CallsAreOrderly, Flush, CanUse
  <2>2. call'[c] = rec /\ \A d \in Callers \ {c} : call'[d] = call[d]
    BY <1>1, <1>2 DEF TypeOK
  <2> QED
    BY <1>1, <1>2, <2>1, <2>2 DEF CallsAreOrderly
<1>6. AnswersAreFresh'
  BY <1>1, <1>3 DEF AnswersAreFresh, Fresh
<1> QED
  BY <1>4, <1>5, <1>6 DEF IInv

LEMMA AskKeeps ==
    ASSUME IInv, NEW c \in Callers, Ask(c)
    PROVE  IInv'
<1>1. TypeOK /\ CallsAreOrderly /\ call[c] \in Call
  BY DEF IInv, TypeOK
<1>2. Working(c) /\ call[c].pc = "ask"
  BY DEF Ask, CanUse, Working
<1> DEFINE rec == [call[c] EXCEPT !.pc = "hear"]
<1>3. rec \in Call
  BY <1>1, <1>2, TakesHead DEF Call, CallsAreOrderly
<1>4. call' = [call EXCEPT ![c] = rec]
  BY <1>1 DEF TypeOK, Ask, GoTo
<1>5. Drained
  BY <1>1, Drains DEF Ask, linkVars
<1>6. wire' \in Seq(Line)
  <2>1. Query[call[c].target] \in {"M105", "M114"}
    BY <1>1, <1>2 DEF CallsAreOrderly, Query
  <2> QED
    BY <1>1, <2>1, WritesALine, SerialAssumption DEF Ask, Words
<1>7. /\ Ports'
      /\ UNCHANGED <<replies, axisVars, out>>
  BY <1>1 DEF TypeOK, Ports, portVars, Ask, GoTo
<1>8. rec.queue \in {call[c].queue, Tail(call[c].queue)}
      /\ rec.target = call[c].target
  BY <1>1 DEF Call
<1>9. /\ rec.pc # "idle"
      /\ rec.pc \in {"halt", "send"} => rec.queue # << >>
      /\ rec.pc \in {"flush", "ask", "hear"} => rec.target \in DOMAIN Query
  BY <1>1, <1>2 DEF Ask, Call, CallsAreOrderly
<1> HIDE DEF rec
<1> QED
  BY <1>2, <1>3, <1>4, <1>5, <1>6, <1>7, <1>8, <1>9, GoesOn


LEMMA AcceptedKeeps ==
    ASSUME IInv, NEW c \in Callers, Accepted(c)
    PROVE  IInv'
<1>1. TypeOK /\ CallsAreOrderly /\ call[c] \in Call
  BY DEF IInv, TypeOK
<1>2. Working(c) /\ call[c].pc = "ack"
  BY DEF Accepted, CanUse, Working
<1>3. Drained
  BY <1>1, Drains DEF Accepted
<1>4. UNCHANGED <<portVars, wire, replies, axisVars>>
  BY DEF Accepted
<1>5. CASE \/ call[c].queue # << >> /\ call' = [call EXCEPT ![c].pc = "send"] /\ UNCHANGED out
           \/ call[c].target = "axis" /\ call' = [call EXCEPT ![c].pc = "flush"] /\ UNCHANGED out
  <2>1. PICK pc \in {"send", "flush"} :
           /\ call' = [call EXCEPT ![c].pc = pc] /\ UNCHANGED out
           /\ pc = "send" => call[c].queue # << >>
           /\ pc = "flush" => call[c].target = "axis"
    BY <1>5
  <2> DEFINE rec == [call[c] EXCEPT !.pc = pc]
  <2>2. rec \in Call
    BY <1>1, <2>1 DEF Call
  <2>3. /\ rec.queue = call[c].queue
        /\ rec.target = call[c].target /\ rec.pc = pc
    BY <1>1 DEF Call
  <2>4. call' = [call EXCEPT ![c] = rec]
    BY <1>1, <2>1 DEF TypeOK
  <2>5. Ports' /\ wire' \in Seq(Line)
    BY <1>1, <1>4 DEF TypeOK, Ports, portVars
  <2>6. rec.pc \in {"flush", "ask", "hear"} => rec.target \in DOMAIN Query
    BY <2>1, <2>3 DEF Query
  <2> HIDE DEF rec
  <2> QED
    BY <1>2, <1>3, <1>4, <2>1, <2>2, <2>3, <2>4, <2>5, <2>6, GoesOn
<1>6. CASE Return(c, "done", None)
  BY <1>3, <1>4, <1>6, Ends, SerialAssumption DEF Words
<1> QED
  BY <1>5, <1>6 DEF Accepted

LEMMA VerifiesKeeps ==
    ASSUME IInv, NEW c \in Callers, Verifies(c)
    PROVE  IInv'
<1>1. TypeOK /\ CallsAreOrderly /\ call[c] \in Call
  BY DEF IInv, TypeOK
<1>2. Working(c) /\ call[c].pc = "hear"
  BY DEF Verifies, CanUse, Working
<1>3. Drained
  BY <1>1, Drains DEF Verifies
<1>4. UNCHANGED <<portVars, wire, replies, axisVars>>
  BY DEF Verifies
<1>5. CASE /\ call[c].polls > 0 /\ UNCHANGED out
           /\ call' = [call EXCEPT ![c].pc = "flush", ![c].polls = @ - 1]
  <2> DEFINE rec == [call[c] EXCEPT !.pc = "flush", !.polls = @ - 1]
  <2>1. call[c].polls - 1 \in 0 .. Polls
    BY <1>1, <1>5, SerialAssumption DEF Call
  <2>2. rec \in Call
    BY <1>1, <2>1 DEF Call
  <2>3. /\ rec.target = call[c].target /\ rec.pc = "flush"
    BY <1>1 DEF Call
  <2>4. call' = [call EXCEPT ![c] = rec]
    BY <1>1, <1>5 DEF TypeOK
  <2>5. Ports' /\ wire' \in Seq(Line)
    BY <1>1, <1>4 DEF TypeOK, Ports, portVars
  <2>6. rec.target \in DOMAIN Query
    BY <1>1, <1>2, <2>3 DEF CallsAreOrderly
  <2> HIDE DEF rec
  <2> QED
    BY <1>2, <1>3, <1>4, <1>5, <2>2, <2>3, <2>4, <2>5, <2>6, GoesOn
<1>6. CASE Return(c, "verified", call[c].want)
  BY <1>1, <1>3, <1>4, <1>6, Ends DEF Call
<1>7. CASE Raise(c)
  BY <1>3, <1>4, <1>7, RaiseEnds
<1> QED
  BY <1>5, <1>6, <1>7 DEF Verifies

LEMMA HearsReadingKeeps ==
    ASSUME IInv, NEW c \in Callers, HearsReading(c)
    PROVE  IInv'
<1>1. TypeOK
  BY DEF IInv
<1>2. Drained
  BY <1>1, Drains DEF HearsReading
<1>3. Head(input) \in Answer
  BY <1>1, TakesHead DEF HearsReading, TypeOK
<1>4. Head(input).value \in Words /\ None \in Words
  BY <1>3 DEF Answer, Words
<1>5. PICK claim \in {"done", "read"}, value \in Words : Return(c, claim, value)
  BY <1>4 DEF HearsReading
<1> QED
  BY <1>2, <1>5, Ends DEF HearsReading

LEMMA FailsKeeps ==
    ASSUME IInv, NEW c \in Callers,
           Rejected(c) \/ TimesOut(c) \/ HearsOther(c) \/ LinkFails(c)
    PROVE  IInv'
<1>1. TypeOK /\ CallsAreOrderly /\ call[c] \in Call
  BY DEF IInv, TypeOK
<1>2. Drained
  BY <1>1, Drains DEF Rejected, TimesOut, HearsOther, LinkFails, linkVars
<1>3. UNCHANGED <<portVars, wire, replies, axisVars>>
  BY DEF Rejected, TimesOut, HearsOther, LinkFails, linkVars, portVars, axisVars
<1>4. CASE Raise(c)
  BY <1>2, <1>3, <1>4, RaiseEnds
<1>5. CASE /\ Working(c) /\ call[c].pc = "halt" /\ UNCHANGED out
           /\ call' = [call EXCEPT ![c].pc = "send", ![c].opening = FALSE]
  <2> DEFINE rec == [call[c] EXCEPT !.pc = "send", !.opening = FALSE]
  <2>1. rec \in Call
    BY <1>1 DEF Call
  <2>2. rec.queue = call[c].queue /\ rec.pc = "send"
    BY <1>1 DEF Call
  <2>3. call' = [call EXCEPT ![c] = rec]
    BY <1>1, <1>5 DEF TypeOK
  <2>4. Ports' /\ wire' \in Seq(Line) /\ rec.queue # << >>
    BY <1>1, <1>3, <1>5, <2>2 DEF TypeOK, CallsAreOrderly, Ports, portVars
  <2> HIDE DEF rec
  <2> QED
    BY <1>2, <1>3, <1>5, <2>1, <2>2, <2>3, <2>4, GoesOn
<1> QED
  BY <1>4, <1>5 DEF Rejected, TimesOut, HearsOther, LinkFails

LEMMA StepKeeps ==
    ASSUME IInv, NEW c \in Callers, Step(c) \/ LinkFails(c)
    PROVE  IInv'
  BY PortKeeps, HaltKeeps, SendKeeps, AcceptedKeeps, FlushKeeps, AskKeeps,
     VerifiesKeeps, HearsReadingKeeps, FailsKeeps DEF Step

-----------------------------------------------------------------------------
(* Calls begin, the port is closed, the firmware answers.                   *)

LEMMA DisownedLines ==
    ASSUME TypeOK, NEW c \in Callers
    PROVE  Disowned(c) \in Seq(Line)
<1>1. wire \in Seq(Line)
  BY DEF TypeOK
<1>2. ASSUME NEW i \in DOMAIN wire
      PROVE  (IF wire[i].by = c THEN [wire[i] EXCEPT !.by = None] ELSE wire[i]) \in Line
  BY <1>1 DEF Line
<1> DEFINE line(i) == IF wire[i].by = c THEN [wire[i] EXCEPT !.by = None] ELSE wire[i]
<1>3. DOMAIN wire = 1 .. Len(wire) /\ Len(wire) \in Nat
  BY <1>1
<1>4. Disowned(c) = [i \in 1 .. Len(wire) |-> line(i)]
  BY <1>3 DEF Disowned
<1>5. \A i \in 1 .. Len(wire) : line(i) \in Line
  BY <1>2, <1>3
<1> HIDE DEF line
<1> QED
  BY <1>3, <1>4, <1>5

LEMMA BeginKeeps ==
    ASSUME IInv, NEW c \in Callers, NEW rec \in Call, Begins(c, rec),
           rec.pc \in {"halt", "send", "flush"},
           rec.pc \in {"halt", "send"} => rec.queue # << >>,
           rec.pc = "flush" => rec.target \in DOMAIN Query
    PROVE  IInv'
<1>1. TypeOK /\ CallsAreOrderly /\ AnswersAreFresh
  BY DEF IInv
<1>2. /\ call' = [call EXCEPT ![c] = rec] /\ out' = [out EXCEPT ![c] = NoClaim]
      /\ wire' \in Seq(Line)
      /\ UNCHANGED <<portVars, replies, input, axisVars>>
  BY <1>1, DisownedLines DEF Begins
<1>3. call' \in [Callers -> Call] /\ out' \in [Callers -> Claim]
  BY <1>1, <1>2, IdleIsACall DEF TypeOK
<1>4. call'[c] = rec /\ \A d \in Callers \ {c} : call'[d] = call[d]
  BY <1>1, <1>2 DEF TypeOK
<1>5. TypeOK'
  BY <1>1, <1>2, <1>3 DEF TypeOK, portVars, axisVars
<1>6. CallsAreOrderly'
  BY <1>1, <1>4 DEF CallsAreOrderly
<1>7. AnswersAreFresh'
  BY <1>1, <1>2 DEF AnswersAreFresh, Fresh, axisVars
<1> QED
  BY <1>5, <1>6, <1>7 DEF IInv

LEMMA QueryTargets == DOMAIN Query = {"axis", "motor_temp"}
  BY DEF Query

LEMMA BeginsAll ==
    ASSUME IInv, NEW c \in Callers, Begin(c)
    PROVE  IInv'
<1>1. ASSUME NEW target \in DOMAIN Query, BeginRead(c, target) PROVE IInv'
  <2> DEFINE rec == [Idle EXCEPT !.pc = "flush", !.kind = "read", !.target = target]
  <2>1. /\ rec \in Call /\ rec.pc = "flush" /\ rec.target = target
    BY QueryTargets, IdleIsACall DEF Idle, Call
  <2>2. Begins(c, rec)
    BY <1>1 DEF BeginRead
  <2> HIDE DEF rec
  <2> QED
    BY <2>1, <2>2, BeginKeeps
<1>2. ASSUME NEW target \in {"axis", "gripper"}, NEW value \in Words,
             BeginWrite(c, target, value)
      PROVE  IInv'
  <2> DEFINE rec == [Idle EXCEPT !.pc = "send", !.kind = "write", !.target = target,
                            !.want = value, !.queue = <<value>>, !.polls = Polls]
  <2>1. <<value>> \in Seq(Words) /\ <<value>> # << >> /\ Polls \in 0 .. Polls
    BY SerialAssumption
  <2>2. /\ rec \in Call /\ rec.pc = "send" /\ rec.queue = <<value>>
    BY <2>1 DEF Idle, Call
  <2>3. Begins(c, rec)
    BY <1>2 DEF BeginWrite
  <2> HIDE DEF rec
  <2> QED
    BY <2>1, <2>2, <2>3, BeginKeeps
<1>3. CASE BeginStop(c)
  <2> DEFINE rec == [Idle EXCEPT !.pc = "halt", !.kind = "stop", !.queue = <<Home, None>>]
  <2>1. <<Home, None>> \in Seq(Words) /\ <<Home, None>> # << >>
    BY SerialAssumption DEF Words
  <2>2. rec \in Call /\ rec.pc = "halt" /\ rec.queue = <<Home, None>>
    BY <2>1, IdleIsACall DEF Idle, Call
  <2>3. Begins(c, rec)
    BY <1>3 DEF BeginStop
  <2> HIDE DEF rec
  <2> QED
    BY <2>1, <2>2, <2>3, BeginKeeps
<1> QED
  BY <1>1, <1>2, <1>3 DEF Begin, Words

LEMMA CloseKeeps ==
    ASSUME IInv, Close \/ PortCloses \/ CloseFails
    PROVE  IInv'
<1>1. TypeOK'
  <2>0. TypeOK
    BY DEF IInv
  <2>1. ports' \in Int /\ conn' \in BOOLEAN
    <3>1. CASE Close
      BY <2>0, <3>1 DEF Close, TypeOK
    <3>2. CASE PortCloses \/ CloseFails
      BY <2>0, <3>2 DEF PortCloses, CloseFails, TypeOK
    <3> QED
      BY <3>1, <3>2
  <2>2. closing' \in Nat /\ unclosed' \in Nat
    BY DEF Close, PortCloses, CloseFails, IInv, TypeOK
  <2>3. input' \in Seq(Answer)
    <3>1. CASE Close
      BY <2>0, <3>1 DEF Close
    <3>2. CASE PortCloses \/ CloseFails
      BY <2>0, <3>2 DEF PortCloses, CloseFails, TypeOK
    <3> QED
      BY <3>1, <3>2
  <2> QED
    BY <2>1, <2>2, <2>3 DEF Close, PortCloses, CloseFails, IInv, TypeOK, axisVars
<1>2. CallsAreOrderly'
  BY DEF Close, PortCloses, CloseFails, IInv, CallsAreOrderly
<1>3. AnswersAreFresh'
  BY DEF Close, PortCloses, CloseFails, IInv, AnswersAreFresh, Fresh, axisVars
<1> QED
  BY <1>1, <1>2, <1>3 DEF IInv

LEMMA Appends ==
    ASSUME NEW S, NEW s \in Seq(S), NEW e \in S
    PROVE  /\ Append(s, e) \in Seq(S)
           /\ \A i \in DOMAIN Append(s, e) :
                 \/ Append(s, e)[i] = e
                 \/ i \in DOMAIN s /\ Append(s, e)[i] = s[i]
  OBVIOUS

(* The firmware answers a line, or its answer is lost.                      *)
LEMMA FirmwareKeeps ==
    ASSUME IInv, NEW reply \in Answer,
           \/ replies' = Append(replies, reply) \/ UNCHANGED replies,
           reply.op = "M114" => reply.value = pos,
           wire' \in Seq(Line), goal' \in Places,
           UNCHANGED <<portVars, input, pos, since, out>>,
           call' \in [Callers -> Call],
           \A c \in Callers :
              /\ call'[c].pc = call[c].pc
              /\ call'[c].queue = call[c].queue /\ call'[c].target = call[c].target
              /\ call[c].pc = "idle" => call'[c] = call[c]
    PROVE  IInv'
<1>1. TypeOK /\ CallsAreOrderly
  BY DEF IInv
<1>2. /\ replies' \in Seq(Answer)
      /\ \A i \in DOMAIN replies' :
            \/ replies'[i] = reply
            \/ i \in DOMAIN replies /\ replies'[i] = replies[i]
  <2>1. replies \in Seq(Answer)
    BY <1>1 DEF TypeOK
  <2>2. CASE replies' = Append(replies, reply)
    BY <2>1, <2>2, Appends
  <2>3. CASE UNCHANGED replies
    BY <2>1, <2>3
  <2> QED
    BY <2>2, <2>3
<1>3. TypeOK'
  BY <1>1, <1>2 DEF TypeOK, portVars
<1>4. CallsAreOrderly'
  BY <1>1 DEF CallsAreOrderly
<1>5. AnswersAreFresh'
  BY <1>2 DEF IInv, AnswersAreFresh, Fresh
<1> QED
  BY <1>3, <1>4, <1>5 DEF IInv

LEMMA ExecuteKeeps == ASSUME IInv, Execute PROVE IInv'
<1>1. TypeOK /\ CallsAreOrderly
  BY DEF IInv
<1> DEFINE line == Head(wire)
<1>2. wire' \in Seq(Line) /\ line \in Line
  BY <1>1, TakesHead DEF Execute, TypeOK
<1>3. /\ line.op \in {"G1", "tool", "M105", "M112", "M114"}
      /\ line.op = "G1" => line.value \in Places
  BY <1>2 DEF Line
<1>4. \A value \in Words : /\ Reply("M114", value) \in Answer
                           /\ Reply("M105", value) \in Answer
                           /\ Reply("ok", value) \in Answer
  BY DEF Reply, Answer
<1>5. pos \in Words /\ None \in Words
  BY <1>1 DEF TypeOK, Words
<1>6. UNCHANGED <<portVars, input, pos, since, call, out>>
  BY DEF Execute
<1>7. call' \in [Callers -> Call]
  BY <1>1, <1>6 DEF TypeOK
<1>8. goal' \in Places
  BY <1>1, <1>3 DEF Execute, TypeOK
<1>9. PICK reply \in Answer :
        /\ replies' = Append(replies, reply) \/ UNCHANGED replies
        /\ reply.op = "M114" => reply.value = pos
  <2>1. CASE line.op = "M114"
    BY <1>4, <1>5, <2>1 DEF Execute, Answers, Reply
  <2>2. CASE line.op = "M105"
    BY <1>4, <1>5, <2>2 DEF Execute, Answers, Reply
  <2>3. CASE line.op \in {"M112", "G1", "tool"}
    BY <1>4, <1>5, <2>3 DEF Execute, Answers, Reply
  <2> QED
    BY <1>3, <2>1, <2>2, <2>3
<1> QED
  BY <1>2, <1>6, <1>7, <1>8, <1>9, FirmwareKeeps

LEMMA IdleFacts == Idle.pc = "idle"
  BY DEF Idle

LEMMA RefuseKeeps == ASSUME IInv, Refuse PROVE IInv'
<1>1. TypeOK /\ CallsAreOrderly
  BY DEF IInv
<1> DEFINE line == Head(wire)
<1>2. wire' \in Seq(Line) /\ line \in Line
  BY <1>1, TakesHead DEF Refuse, TypeOK
<1>4. PICK reply \in Answer : replies' = Append(replies, reply) /\ reply.op = "error"
  BY DEF Refuse, Reply, Answer, Words
<1>5. /\ UNCHANGED <<portVars, input, pos, since, out>>
      /\ goal' \in Places
  BY <1>1 DEF Refuse, TypeOK, axisVars
<1> DEFINE new(c) == IF line.by = c /\ Working(c) THEN [call[c] EXCEPT !.refused = TRUE]
                                                ELSE call[c]
<1>6. call' = [c \in Callers |-> new(c)]
  BY DEF Refuse
<1>7. ASSUME NEW c \in Callers
      PROVE  /\ new(c) \in Call
             /\ new(c).pc = call[c].pc
             /\ new(c).queue = call[c].queue /\ new(c).target = call[c].target
             /\ call[c].pc = "idle" => new(c) = call[c]
  <2>1. call[c] \in Call
    BY <1>1 DEF TypeOK
  <2>2. CASE line.by = c /\ Working(c)
    BY <2>1, <2>2 DEF Call, Working
  <2>3. CASE ~(line.by = c /\ Working(c))
    BY <2>1, <2>3
  <2> QED
    BY <2>2, <2>3
<1> HIDE DEF new
<1>8. /\ call' \in [Callers -> Call]
      /\ \A c \in Callers :
            /\ call'[c].pc = call[c].pc
            /\ call'[c].queue = call[c].queue /\ call'[c].target = call[c].target
            /\ call[c].pc = "idle" => call'[c] = call[c]
  BY <1>6, <1>7
<1> HIDE DEF line
<1> QED
  BY <1>2, <1>4, <1>5, <1>8, FirmwareKeeps

LEMMA ArriveKeeps == ASSUME IInv, Arrive PROVE IInv'
<1>1. TypeOK
  BY DEF IInv
<1>2. /\ replies \in Seq(Answer) /\ input \in Seq(Answer)
      /\ replies # << >> /\ replies' = Tail(replies)
      /\ UNCHANGED <<portVars, wire, axisVars, call, out>>
  BY <1>1 DEF Arrive, TypeOK
<1>3. /\ replies' \in Seq(Answer) /\ Head(replies) \in Answer
      /\ 1 \in DOMAIN replies /\ Head(replies) = replies[1]
      /\ \A i \in DOMAIN replies' : i + 1 \in DOMAIN replies /\ replies'[i] = replies[i + 1]
  BY <1>2, TakesHead
<1>4. /\ input' \in Seq(Answer)
      /\ \A i \in DOMAIN input' :
            \/ input'[i] = replies[1]
            \/ i \in DOMAIN input /\ input'[i] = input[i]
  <2>1. CASE conn
    BY <1>2, <1>3, <2>1, Appends DEF Arrive
  <2>2. CASE ~conn
    BY <1>2, <2>2 DEF Arrive
  <2> QED
    BY <2>1, <2>2
<1>5. TypeOK'
  BY <1>1, <1>2, <1>3, <1>4 DEF TypeOK, portVars, axisVars
<1>6. CallsAreOrderly'
  BY <1>2 DEF IInv, CallsAreOrderly
<1>7. AnswersAreFresh'
  BY <1>2, <1>3, <1>4 DEF IInv, AnswersAreFresh, Fresh, axisVars
<1> QED
  BY <1>5, <1>6, <1>7 DEF IInv

LEMMA SettleKeeps == ASSUME IInv, Settle PROVE IInv'
<1>1. TypeOK'
  BY DEF IInv, Settle, TypeOK, linkVars
<1>2. CallsAreOrderly'
  BY DEF IInv, Settle, CallsAreOrderly
<1>3. AnswersAreFresh'
  BY DEF IInv, Settle, AnswersAreFresh, Fresh, linkVars
<1> QED
  BY <1>1, <1>2, <1>3 DEF IInv

LEMMA NextKeeps == ASSUME IInv, [Next]_vars PROVE IInv'
<1>1. CASE UNCHANGED vars
  BY <1>1 DEF vars, IInv, TypeOK, CallsAreOrderly, AnswersAreFresh, Fresh
<1> QED
  BY <1>1, BeginsAll, StepKeeps, CloseKeeps, ExecuteKeeps, RefuseKeeps,
     ArriveKeeps, SettleKeeps DEF Next

LEMMA InvariantHolds == Spec => []IInv
<1>1. Init => IInv
  BY InitEstablishes
<1>2. IInv /\ [Next]_vars => IInv'
  BY NextKeeps
<1> QED
  BY <1>1, <1>2, PTL DEF Spec

(* The types hold for any callers, overlapping or not, and any places,      *)
(* polls and bounds (serial_transport.py:142-227).                          *)
THEOREM TypeCorrect == Spec => []TypeOK
  BY InvariantHolds, PTL DEF IInv

-----------------------------------------------------------------------------
(* The port.                                                                *)

OneCall == \A c, d \in Callers : Working(c) /\ Working(d) => c = d

NoPortTwice == \A c \in Callers : call[c].opening => ~conn

PortInv == IInv /\ PortAccounted /\ OneCall /\ NoPortTwice

(* A step of one call leaves the others alone.                              *)
LEMMA StepsAlone ==
    ASSUME IInv, NEW c \in Callers, Step(c) \/ LinkFails(c)
    PROVE  /\ Working(c)
           /\ \A d \in Callers \ {c} : call'[d] = call[d]
<1>1. call \in [Callers -> Call] /\ CallsAreOrderly
  BY DEF IInv, TypeOK
<1>2. Working(c)
  BY <1>1, IdleFacts
     DEF CallsAreOrderly, Working, Idle, Step, LinkFails, OpenPort, PortOpens, CanUse,
         Halt, Send, Accepted, Rejected, TimesOut, Flush, Ask, HearsOther,
         HearsReading, Verifies
<1> QED
  BY <1>1, <1>2
     DEF Step, LinkFails, OpenPort, PortOpens, Halt, Send, Accepted, Rejected,
         TimesOut, Flush, Ask, HearsOther, HearsReading, Verifies, Return, Raise, GoTo

LEMMA OthersIdle ==
    ASSUME PortInv, NEW c \in Callers, Step(c) \/ LinkFails(c)
    PROVE  /\ \A d \in Callers \ {c} : call[d] = Idle /\ call'[d] = Idle
           /\ OneCall'
<1>1. Working(c) /\ \A d \in Callers \ {c} : call'[d] = call[d]
  BY StepsAlone DEF PortInv
<1>2. \A d \in Callers \ {c} : call[d] = Idle
  BY <1>1 DEF PortInv, IInv, OneCall, CallsAreOrderly, Working
<1> QED
  BY <1>1, <1>2, IdleFacts DEF OneCall, Working

LEMMA PortStep ==
    ASSUME PortInv, NEW c \in Callers, Step(c) \/ LinkFails(c)
    PROVE  PortAccounted' /\ NoPortTwice'
<1>1. /\ \A d \in Callers \ {c} : call'[d] = Idle
      /\ Idle.opening = FALSE
  BY OthersIdle DEF Idle
<1>2. call \in [Callers -> Call] /\ call[c] \in Call
  BY DEF PortInv, IInv, TypeOK
<1>3. CASE OpenPort(c)
  BY <1>1, <1>2, <1>3 DEF PortInv, OpenPort, linkVars, PortAccounted, NoPortTwice
<1>4. CASE PortOpens(c)
  <2>1. ~conn /\ ports = closing + unclosed /\ ports \in Int
    BY <1>4 DEF PortInv, IInv, TypeOK, PortOpens, PortAccounted, NoPortTwice
  <2>2. /\ conn' = TRUE /\ ports' = 1 + closing + unclosed
        /\ UNCHANGED <<closing, unclosed>> /\ call'[c].opening = FALSE
    BY <1>2, <1>4, <2>1 DEF PortInv, IInv, TypeOK, PortOpens, Call
  <2>3. NoPortTwice'
    BY <1>1, <2>2 DEF NoPortTwice
  <2> QED
    BY <2>2, <2>3 DEF PortAccounted
<1>5. CASE /\ UNCHANGED portVars
           /\ call'[c].opening = FALSE \/ call'[c] = Idle
  BY <1>1, <1>5 DEF PortInv, PortAccounted, NoPortTwice, portVars
<1>6. ASSUME \/ Halt(c) \/ Send(c) \/ Accepted(c) \/ Rejected(c) \/ TimesOut(c)
             \/ Flush(c) \/ Ask(c) \/ HearsOther(c) \/ HearsReading(c) \/ Verifies(c)
      PROVE  /\ UNCHANGED portVars
             /\ call'[c].opening = FALSE \/ call'[c] = Idle
  <2>1. call[c].opening = FALSE
    BY <1>2, <1>6 DEF Call, CanUse, Halt, Send, Accepted, Rejected, TimesOut, Flush,
       Ask, HearsOther, HearsReading, Verifies
  <2>2. UNCHANGED portVars
    BY <1>6 DEF linkVars, portVars, Halt, Send, Accepted, Rejected, TimesOut, Flush,
       Ask, HearsOther, HearsReading, Verifies
  <2>3. CASE Halt(c) \/ Send(c) \/ Flush(c) \/ Ask(c)
    BY <1>2, <2>1, <2>2, <2>3 DEF Call, Halt, Send, Flush, Ask, GoTo
  <2>4. CASE Accepted(c) \/ Verifies(c)
    BY <1>2, <2>1, <2>2, <2>4 DEF Call, Accepted, Verifies, Return, Raise
  <2>5. CASE Rejected(c) \/ TimesOut(c) \/ HearsOther(c) \/ HearsReading(c)
    BY <1>2, <2>1, <2>2, <2>5 DEF Call, Rejected, TimesOut, HearsOther, HearsReading,
       Return, Raise
  <2> QED
    BY <1>6, <2>3, <2>4, <2>5
<1>7. ASSUME LinkFails(c)
      PROVE  /\ UNCHANGED portVars
             /\ call'[c].opening = FALSE \/ call'[c] = Idle
  BY <1>2, <1>7 DEF LinkFails, linkVars, portVars, Raise, Return, Call
<1> QED
  BY <1>3, <1>4, <1>5, <1>6, <1>7 DEF Step

LEMMA PortBegins ==
    ASSUME PortInv, OneAtATime, NEW c \in Callers, Begin(c)
    PROVE  PortAccounted' /\ OneCall' /\ NoPortTwice'
<1>1. PICK rec : Begins(c, rec) /\ rec.opening = FALSE
  <2> DEFINE Shut(rec) == Begins(c, rec) /\ rec.opening = FALSE
  <2>1. ASSUME NEW target, BeginRead(c, target) PROVE \E rec : Shut(rec)
    <3> DEFINE rec == [Idle EXCEPT !.pc = "flush", !.kind = "read", !.target = target]
    <3>1. Shut(rec)
      BY <2>1 DEF BeginRead, Idle
    <3> QED
      BY <3>1
  <2>2. ASSUME NEW target, NEW value, BeginWrite(c, target, value) PROVE \E rec : Shut(rec)
    <3> DEFINE rec == [Idle EXCEPT !.pc = "send", !.kind = "write", !.target = target,
                              !.want = value, !.queue = <<value>>, !.polls = Polls]
    <3>1. Shut(rec)
      BY <2>2 DEF BeginWrite, Idle
    <3> QED
      BY <3>1
  <2>3. ASSUME BeginStop(c) PROVE \E rec : Shut(rec)
    <3> DEFINE rec == [Idle EXCEPT !.pc = "halt", !.kind = "stop", !.queue = <<Home, None>>]
    <3>1. Shut(rec)
      BY <2>3 DEF BeginStop, Idle
    <3> QED
      BY <3>1
  <2> QED
    BY <2>1, <2>2, <2>3 DEF Begin
<1>2. /\ UNCHANGED portVars
      /\ \A d \in Callers \ {c} : call'[d] = Idle
      /\ call'[c] = rec
  BY <1>1 DEF Begins, MayBegin, PortInv, IInv, TypeOK
<1>3. Idle.opening = FALSE /\ Idle.pc = "idle"
  BY DEF Idle
<1> QED
  BY <1>1, <1>2, <1>3 DEF PortInv, PortAccounted, OneCall, NoPortTwice, Working, portVars

LEMMA PortFirmware ==
    ASSUME PortInv, Execute \/ Refuse \/ Arrive \/ Settle
    PROVE  PortAccounted' /\ OneCall' /\ NoPortTwice'
<1>1. UNCHANGED portVars
  BY DEF Execute, Refuse, Arrive, Settle, linkVars, portVars
<1>2. TypeOK /\ CallsAreOrderly
  BY DEF PortInv, IInv
<1>3. \A c \in Callers : call'[c].pc = call[c].pc /\ call'[c].opening = call[c].opening
  <2>1. CASE Execute \/ Arrive
    BY <2>1 DEF Execute, Arrive
  <2>2. CASE Refuse
    BY <1>2, <2>2 DEF Refuse, TypeOK, Call
  <2>3. CASE Settle
    BY <2>3 DEF Settle
  <2> QED
    BY <2>1, <2>2, <2>3
<1> QED
  BY <1>1, <1>3 DEF PortInv, PortAccounted, OneCall, NoPortTwice, Working, portVars

LEMMA PortKept == ASSUME OneAtATime, PortInv, [Next]_vars PROVE PortInv'
<1>1. IInv'
  BY NextKeeps DEF PortInv
<1>2. PortAccounted' /\ OneCall' /\ NoPortTwice'
  <2>1. CASE UNCHANGED vars
    BY <2>1 DEF vars, PortInv, PortAccounted, OneCall, NoPortTwice, Working
  <2>2. CASE Close \/ PortCloses \/ CloseFails
    <3>1. conn \in BOOLEAN /\ ports \in Int /\ closing \in Nat /\ unclosed \in Nat
      BY DEF PortInv, IInv, TypeOK
    <3>2. PortAccounted'
      BY <2>2, <3>1 DEF Close, PortCloses, CloseFails, PortInv, PortAccounted
    <3>3. UNCHANGED call /\ (conn' => conn)
      BY <2>2 DEF Close, PortCloses, CloseFails
    <3> QED
      BY <3>2, <3>3 DEF PortInv, OneCall, NoPortTwice, Working
  <2>3. ASSUME NEW c \in Callers, Step(c) \/ LinkFails(c)
        PROVE  PortAccounted' /\ OneCall' /\ NoPortTwice'
    BY <2>3, OthersIdle, PortStep
  <2> QED
    BY <2>1, <2>2, <2>3, PortBegins, PortFirmware DEF Next
<1> QED
  BY <1>1, <1>2 DEF PortInv

(* A port that is open is held, being closed, or one whose close raised,    *)
(* for any number of calls, failures and reconnections, when one task makes *)
(* the calls (serial_transport.py:114-134).                                 *)
THEOREM PortsAreAccounted == ASSUME OneAtATime PROVE Spec => []PortAccounted
<1>1. Init => PortInv
  <2>1. Init => IInv
    BY InitEstablishes
  <2>2. Init => PortAccounted /\ OneCall /\ NoPortTwice
    BY DEF Init, PortAccounted, OneCall, NoPortTwice, Working, Idle
  <2> QED
    BY <2>1, <2>2 DEF PortInv
<1>2. PortInv /\ [Next]_vars => PortInv'
  BY PortKept
<1>3. PortInv => PortAccounted
  BY DEF PortInv
<1> QED
  BY <1>1, <1>2, <1>3, PTL DEF Spec

-----------------------------------------------------------------------------
(* The refinement.  Every step of the arm is a step of the loop or none.    *)

AbsCall(rec) == [open |-> rec.pc # "idle", want |-> rec.want,
                 asking |-> rec.pc = "ask" \/ rec.pc = "hear"]

AbsOut(res) == IF res.claim \in {"read", "verified"}
               THEN [claim |-> res.claim, value |-> res.value]
               ELSE [claim |-> "none", value |-> None]

LoopCall == [c \in Callers |-> AbsCall(call[c])]

LoopOut == [c \in Callers |-> AbsOut(out[c])]

LEMMA InitMaps == Init => Loop!Init
<1> SUFFICES ASSUME Init PROVE Loop!Init
  OBVIOUS
<1>1. \A c \in Callers : AbsCall(call[c]) = [open |-> FALSE, want |-> None, asking |-> FALSE]
  BY DEF Init, AbsCall, Idle
<1>2. \A c \in Callers : AbsOut(out[c]) = [claim |-> "none", value |-> None]
  BY DEF Init, AbsOut, NoClaim
<1> QED
  BY <1>1, <1>2 DEF Init, Loop!Init, Loop!NoCall, Loop!NoClaim, AbsCall, AbsOut, Working

(* A step that changes no call's place in the loop and no answer.           *)
LEMMA Stutters ==
    ASSUME UNCHANGED <<pos, since, replies, out>>,
           \A c \in Callers : AbsCall(call'[c]) = AbsCall(call[c])
    PROVE  UNCHANGED Loop!loopVars
  BY DEF Loop!loopVars, AbsCall, Working

LEMMA BeginMaps ==
    ASSUME IInv, NEW c \in Callers, Begin(c)
    PROVE  Loop!Next
<1>1. PICK want, rec : want \in Words /\ Begins(c, rec) /\ rec.want = want
         /\ AbsCall(rec) = [open |-> TRUE, want |-> want, asking |-> FALSE]
  <2> DEFINE Starts(want, rec) == /\ Begins(c, rec) /\ rec.want = want
         /\ AbsCall(rec) = [open |-> TRUE, want |-> want, asking |-> FALSE]
  <2>1. ASSUME NEW target, BeginRead(c, target) PROVE \E want, rec : want \in Words /\ Starts(want, rec)
    <3> DEFINE rec == [Idle EXCEPT !.pc = "flush", !.kind = "read", !.target = target]
    <3>1. Starts(None, rec)
      BY <2>1 DEF BeginRead, Idle, AbsCall
    <3> QED
      BY <3>1 DEF Words
  <2>2. ASSUME NEW target, NEW value \in Words, BeginWrite(c, target, value)
        PROVE  \E want, rec : want \in Words /\ Starts(want, rec)
    <3> DEFINE rec == [Idle EXCEPT !.pc = "send", !.kind = "write", !.target = target,
                              !.want = value, !.queue = <<value>>, !.polls = Polls]
    <3>1. Starts(value, rec)
      BY <2>2 DEF BeginWrite, Idle, AbsCall
    <3> QED
      BY <3>1
  <2>3. ASSUME BeginStop(c) PROVE \E want, rec : want \in Words /\ Starts(want, rec)
    <3> DEFINE rec == [Idle EXCEPT !.pc = "halt", !.kind = "stop", !.queue = <<Home, None>>]
    <3>1. Starts(None, rec)
      BY <2>3 DEF BeginStop, Idle, AbsCall
    <3> QED
      BY <3>1 DEF Words
  <2> QED
    BY <2>1, <2>2, <2>3 DEF Begin, Words
<1>2. call[c] = Idle /\ UNCHANGED <<pos, since, replies>>
      /\ call' = [call EXCEPT ![c] = rec]
      /\ out' = [out EXCEPT ![c] = NoClaim]
  BY <1>1 DEF Begins, MayBegin, axisVars
<1>3. call \in [Callers -> Call] /\ out \in [Callers -> Claim]
  BY DEF IInv, TypeOK
<1>4. LoopCall' = [LoopCall EXCEPT ![c] = [open |-> TRUE, want |-> want, asking |-> FALSE]]
  BY <1>1, <1>2, <1>3 DEF LoopCall
<1>5. LoopOut' = [LoopOut EXCEPT ![c] = [claim |-> "none", value |-> None]]
  <2>1. AbsOut(NoClaim) = [claim |-> "none", value |-> None]
    BY DEF AbsOut, NoClaim
  <2> QED
    BY <1>2, <1>3, <2>1 DEF LoopOut
<1>6. ~LoopCall[c].open
  <2>1. LoopCall[c] = AbsCall(Idle) /\ AbsCall(Idle).open = FALSE
    BY <1>2, IdleFacts DEF LoopCall, AbsCall
  <2> QED
    BY <2>1
<1>7. Loop!Begin(c, want)
  BY <1>2, <1>4, <1>5, <1>6 DEF Loop!Begin, Loop!Call, Loop!NoClaim, LoopCall, LoopOut, AbsCall, AbsOut, Working
<1> QED
  BY <1>1, <1>7 DEF Loop!Next, Words

(* A call that ends claims what the loop allows.                            *)
LEMMA ReturnMaps ==
    ASSUME IInv, NEW c \in Callers, NEW claim, NEW value, Return(c, claim, value),
           Working(c), UNCHANGED <<pos, since>>, UNCHANGED replies,
           claim \in {"read", "verified"} => call[c].pc = "hear" /\ value \in since,
           claim = "verified" => value = call[c].want
    PROVE  Loop!Next
<1> DEFINE res == [claim |-> claim, value |-> value, refused |-> call[c].refused]
           new == AbsOut(res)
<1>1. call \in [Callers -> Call] /\ out \in [Callers -> Claim]
  BY DEF IInv, TypeOK
<1>2. call' = [call EXCEPT ![c] = Idle] /\ out' = [out EXCEPT ![c] = res]
  BY DEF Return
<1>3. AbsCall(Idle) = [open |-> FALSE, want |-> None, asking |-> FALSE]
  BY DEF AbsCall, Idle
<1>4. LoopCall' = [LoopCall EXCEPT ![c] = [open |-> FALSE, want |-> None, asking |-> FALSE]]
  BY <1>1, <1>2, <1>3 DEF LoopCall
<1>5. LoopOut' = [LoopOut EXCEPT ![c] = new]
  BY <1>1, <1>2 DEF LoopOut
<1>6. LoopCall[c] = [open |-> TRUE, want |-> call[c].want, asking |-> call[c].pc = "ask" \/ call[c].pc = "hear"]
  BY DEF LoopCall, AbsCall, Working
<1>7. \/ new = [claim |-> "none", value |-> None]
      \/ /\ call[c].pc = "hear"
         /\ \/ new \in [claim : {"read"}, value : since]
            \/ new \in [claim : {"verified"}, value : since \cap {call[c].want}]
  BY DEF AbsOut
<1> HIDE DEF new
<1>8. Loop!Return(c)
  BY <1>4, <1>5, <1>6, <1>7
     DEF Loop!Return, Loop!Claims, Loop!NoClaim, Loop!NoCall, LoopCall, LoopOut,
         AbsCall, AbsOut, Working
<1> QED
  BY <1>8 DEF Loop!Next

LEMMA SettleMaps == ASSUME IInv, Settle PROVE Loop!Next
<1>1. PICK place \in Places : place = goal
  BY DEF IInv, TypeOK
<1>2. pos' = place /\ since' = since \cup {place} /\ UNCHANGED <<replies, call, out>>
  BY <1>1 DEF Settle, linkVars
<1>3. Loop!Move(place)
  BY <1>2 DEF Loop!Move, Working
<1> QED
  BY <1>3 DEF Loop!Next

(* The flush begins an exchange, and a mismatch ends one.                   *)
LEMMA FlushMaps ==
    ASSUME IInv, NEW c \in Callers, Flush(c)
    PROVE  Loop!Next
<1>1. call \in [Callers -> Call] /\ call[c] \in Call /\ call[c].pc = "flush"
  BY DEF IInv, TypeOK, Flush, CanUse
<1> DEFINE rec == [call[c] EXCEPT !.pc = "ask"]
<1>2. /\ call' = [call EXCEPT ![c] = rec] /\ UNCHANGED <<pos, replies, out>>
      /\ since' = IF replies # << >> THEN since ELSE {pos}
  BY <1>1 DEF Flush, GoTo, Refreshed
<1>3. AbsCall(rec) = [open |-> TRUE, want |-> call[c].want, asking |-> TRUE]
  <2>1. rec.pc = "ask" /\ rec.want = call[c].want
    BY <1>1 DEF Call
  <2> HIDE DEF rec
  <2> QED
    BY <2>1 DEF AbsCall
<1>4. LoopCall' = [LoopCall EXCEPT ![c] =
                     [open |-> TRUE, want |-> call[c].want, asking |-> TRUE]]
  BY <1>1, <1>2, <1>3 DEF LoopCall
<1>5. LoopCall[c] = [open |-> TRUE, want |-> call[c].want, asking |-> FALSE]
  BY <1>1 DEF LoopCall, AbsCall
<1> HIDE DEF rec
<1>6. Loop!Ask(c)
  BY <1>2, <1>4, <1>5 DEF Loop!Ask, Loop!Call, LoopCall, AbsCall, Working
<1> QED
  BY <1>6 DEF Loop!Next

LEMMA AgainMaps ==
    ASSUME IInv, NEW c \in Callers, call[c].pc = "hear", UNCHANGED <<pos, since, replies, out>>,
           call' = [call EXCEPT ![c].pc = "flush", ![c].polls = @ - 1]
    PROVE  Loop!Next
<1>1. call \in [Callers -> Call] /\ call[c] \in Call
  BY DEF IInv, TypeOK
<1> DEFINE rec == [call[c] EXCEPT !.pc = "flush", !.polls = @ - 1]
<1>2. call' = [call EXCEPT ![c] = rec]
  BY <1>1
<1>3. AbsCall(rec) = [open |-> TRUE, want |-> call[c].want, asking |-> FALSE]
  <2>1. rec.pc = "flush" /\ rec.want = call[c].want
    BY <1>1 DEF Call
  <2> HIDE DEF rec
  <2> QED
    BY <2>1 DEF AbsCall
<1>4. LoopCall' = [LoopCall EXCEPT ![c] =
                     [open |-> TRUE, want |-> call[c].want, asking |-> FALSE]]
  BY <1>1, <1>2, <1>3 DEF LoopCall
<1>5. LoopCall[c] = [open |-> TRUE, want |-> call[c].want, asking |-> TRUE]
  BY <1>1 DEF LoopCall, AbsCall
<1> HIDE DEF rec
<1>6. Loop!Again(c)
  BY <1>4, <1>5 DEF Loop!Again, Loop!Call, LoopCall, AbsCall, Working
<1> QED
  BY <1>6 DEF Loop!Next

(* A step of a call that goes on is none of the loop's.                     *)
LEMMA GoingOnStutters ==
    ASSUME IInv, NEW c \in Callers, UNCHANGED <<pos, since, replies, out>>,
           NEW rec, call' = [call EXCEPT ![c] = rec],
           AbsCall(rec) = AbsCall(call[c])
    PROVE  UNCHANGED Loop!loopVars
<1>1. \A d \in Callers : AbsCall(call'[d]) = AbsCall(call[d])
  BY DEF IInv, TypeOK
<1> QED
  BY <1>1, Stutters

LEMMA StepMaps ==
    ASSUME IInv, NEW c \in Callers, Step(c) \/ LinkFails(c)
    PROVE  [Loop!Next]_Loop!loopVars
<1>1. call \in [Callers -> Call] /\ call[c] \in Call /\ Working(c) /\ input \in Seq(Answer)
  BY StepsAlone DEF IInv, TypeOK
<1>2. Flush(c) \/ UNCHANGED <<pos, since, replies>>
  BY DEF Step, LinkFails, OpenPort, PortOpens, Halt, Send, Accepted, Rejected,
         TimesOut, Ask, HearsOther, HearsReading, Verifies, linkVars, axisVars
<1>12. SUFFICES ASSUME ~Flush(c) PROVE [Loop!Next]_Loop!loopVars
  BY FlushMaps
<1>3. ASSUME NEW rec, call' = [call EXCEPT ![c] = rec], UNCHANGED out,
             rec.pc # "idle", rec.want = call[c].want,
             rec.pc \in {"ask", "hear"} <=> call[c].pc \in {"ask", "hear"}
      PROVE  [Loop!Next]_Loop!loopVars
  <2>1. AbsCall(rec) = AbsCall(call[c])
    BY <1>1, <1>3 DEF AbsCall, Working
  <2> QED
    BY <1>12, <1>2, <1>3, <2>1, GoingOnStutters
<1>4. ASSUME NEW claim \in {"none", "done"}, NEW value, Return(c, claim, value)
      PROVE  [Loop!Next]_Loop!loopVars
  BY <1>12, <1>1, <1>2, <1>4, ReturnMaps
<1>5. CASE HearsReading(c) \/ Verifies(c)
  <2>1. /\ call[c].pc = "hear" /\ input # << >>
        /\ 1 \in DOMAIN input /\ Head(input) = input[1]
    BY <1>1, <1>5, TakesHead DEF HearsReading, Verifies, CanUse
  <2>2. Head(input).op = "M114" => Head(input).value \in since
    BY <1>1, <2>1 DEF IInv, AnswersAreFresh, Fresh
  <2>3. CASE HearsReading(c)
    <3>1. CASE call[c].target = "axis"
      <4>1. Head(input).op = "M114" /\ Return(c, "read", Head(input).value)
        BY <2>3, <3>1 DEF HearsReading, Query
      <4> QED
        BY <1>12, <1>1, <1>2, <2>1, <2>2, <4>1, ReturnMaps
    <3>2. CASE call[c].target # "axis"
      BY <1>4, <2>3, <3>2 DEF HearsReading
    <3> QED
      BY <3>1, <3>2
  <2>4. CASE Verifies(c)
    <3>1. CASE Head(input).value = call[c].want /\ Return(c, "verified", call[c].want)
      <4>1. call[c].want \in since
        BY <2>2, <2>4, <3>1 DEF Verifies
      <4> QED
        BY <1>12, <1>1, <1>2, <2>1, <3>1, <4>1, ReturnMaps
    <3>2. CASE call' = [call EXCEPT ![c].pc = "flush", ![c].polls = @ - 1] /\ UNCHANGED out
      BY <1>12, <1>2, <2>1, <3>2, AgainMaps
    <3>3. CASE Raise(c)
      BY <1>4, <3>3 DEF Raise
    <3> QED
      BY <2>4, <3>1, <3>2, <3>3 DEF Verifies
  <2> QED
    BY <1>5, <2>3, <2>4
<1>6. CASE Rejected(c) \/ TimesOut(c) \/ HearsOther(c)
  BY <1>4, <1>6 DEF Rejected, TimesOut, HearsOther, Raise
<1>7. ASSUME NEW pc \in {"halt", "send", "ack", "flush", "ask", "hear"}, UNCHANGED out,
             pc \in {"ask", "hear"} <=> call[c].pc \in {"ask", "hear"},
             \/ call' = [call EXCEPT ![c].pc = pc]
             \/ call' = [call EXCEPT ![c].pc = pc, ![c].opening = FALSE]
             \/ call' = [call EXCEPT ![c].pc = pc, ![c].queue = Tail(@)]
      PROVE  [Loop!Next]_Loop!loopVars
  <2>1. PICK rec : /\ call' = [call EXCEPT ![c] = rec]
                   /\ rec.pc = pc /\ rec.want = call[c].want
    <3>1. CASE call' = [call EXCEPT ![c].pc = pc]
      <4> DEFINE rec == [call[c] EXCEPT !.pc = pc]
      <4> WITNESS rec
      <4> QED
        BY <1>1, <3>1 DEF Call
    <3>2. CASE call' = [call EXCEPT ![c].pc = pc, ![c].opening = FALSE]
      <4> DEFINE rec == [call[c] EXCEPT !.pc = pc, !.opening = FALSE]
      <4> WITNESS rec
      <4> QED
        BY <1>1, <3>2 DEF Call
    <3>3. CASE call' = [call EXCEPT ![c].pc = pc, ![c].queue = Tail(@)]
      <4> DEFINE rec == [call[c] EXCEPT !.pc = pc, !.queue = Tail(@)]
      <4> WITNESS rec
      <4> QED
        BY <1>1, <3>3 DEF Call
    <3> QED
      BY <1>7, <3>1, <3>2, <3>3
  <2> QED
    BY <1>3, <1>7, <2>1
<1>8. CASE OpenPort(c) \/ PortOpens(c)
  <2>1. PICK open \in BOOLEAN : call' = [call EXCEPT ![c].opening = open] /\ UNCHANGED out
    BY <1>8 DEF OpenPort, PortOpens
  <2> DEFINE rec == [call[c] EXCEPT !.opening = open]
  <2>2. call' = [call EXCEPT ![c] = rec]
    BY <1>1, <2>1
  <2>3. rec.pc # "idle" /\ rec.want = call[c].want /\ rec.pc = call[c].pc
    BY <1>1 DEF Call, Working
  <2> HIDE DEF rec
  <2> QED
    BY <1>3, <2>1, <2>2, <2>3
<1>9. CASE Halt(c) \/ Send(c) \/ Ask(c)
  BY <1>7, <1>9 DEF Halt, Send, Ask, GoTo, CanUse
<1>10. CASE Accepted(c)
  BY <1>4, <1>7, <1>10 DEF Accepted, CanUse
<1>11. CASE LinkFails(c)
  BY <1>4, <1>7, <1>11 DEF LinkFails, Raise
<1> QED
  BY <1>12, <1>5, <1>6, <1>8, <1>9, <1>10, <1>11 DEF Step

(* Answers set out and arrive, lines are refused, the port is closed.       *)
LEMMA FirmwareMaps ==
    ASSUME IInv, Execute \/ Refuse \/ Arrive \/ Close \/ PortCloses \/ CloseFails
    PROVE  Loop!Next
<1>1. UNCHANGED <<pos, since, out>>
  BY DEF Execute, Refuse, Arrive, Close, PortCloses, CloseFails, axisVars
<1>2. \A c \in Callers : AbsCall(call'[c]) = AbsCall(call[c])
  <2>1. CASE Refuse
    <3>1. ASSUME NEW c \in Callers
          PROVE  call[c] \in Call /\ call'[c] \in {call[c], [call[c] EXCEPT !.refused = TRUE]}
      BY <2>1 DEF IInv, TypeOK, Refuse
    <3> QED
      BY <3>1 DEF AbsCall, Call
  <2>2. CASE UNCHANGED call
    BY <2>2
  <2> QED
    BY <2>1, <2>2 DEF Execute, Arrive, Close, PortCloses, CloseFails
<1>3. Loop!Carry
  BY <1>1, <1>2 DEF Loop!Carry, AbsCall, Working
<1> QED
  BY <1>3 DEF Loop!Next

LEMMA NextMaps ==
    ASSUME IInv, [Next]_vars
    PROVE  [Loop!Next]_Loop!loopVars
<1>1. CASE UNCHANGED vars
  <2>1. UNCHANGED <<pos, since, replies, out, call>>
    BY <1>1 DEF vars
  <2> QED
    BY <2>1, Stutters
<1> QED
  BY <1>1, BeginMaps, StepMaps, SettleMaps, FirmwareMaps DEF Next

(* The arm implements the closed loop: for any callers, overlapping or not, *)
(* and whatever the firmware loses, refuses or answers late, a reading is a *)
(* place the axis has had since the input was last flushed with no answer   *)
(* on its way, and a verified write was at its target since then            *)
(* (base.py:125-148, 289-340; serial_transport.py:209-227).                 *)
THEOREM ArmImplementsLoop == Spec => ImplementsLoop
<1>1. Init => Loop!Init
  BY InitMaps
<1>2. IInv /\ [Next]_vars => [Loop!Next]_Loop!loopVars
  BY NextMaps
<1>3. Spec => []IInv
  BY InvariantHolds
<1> QED
  BY <1>1, <1>2, <1>3, PTL DEF Spec, ImplementsLoop, Loop!Spec

=============================================================================
