----------------------------- MODULE ClosedLoop -----------------------------
(***************************************************************************)
(* What a driver's closed loop promises, on a link whose answers carry no   *)
(* name (BaseDevice.read and the feedback check of BaseDevice.write,        *)
(* open_mhs/drivers/base.py): a reading is a position the device had since  *)
(* the last time it was asked while no answer was on its way, and a write   *)
(* reported as verified was at its target since then.  With a link that     *)
(* answers in time that is the exchange the claim rests on; an answer that  *)
(* comes too late may be taken for the next.  A call may also end without a *)
(* claim.                                                                   *)
(***************************************************************************)

CONSTANTS
    None,
    Callers,    \* coroutines that call the driver
    Places      \* positions of the axis

VARIABLES
    pos,        \* where the axis is
    since,      \* where it has been since it was last asked on a quiet link
    owed,       \* an answer is on its way
    call,       \* caller -> [open, want, asking]: a call, and whether it has
                \* asked for a reading and waits for it
    out         \* caller -> [claim, value], how its last call ended

loopVars == <<pos, since, owed, call, out>>

NoCall == [open |-> FALSE, want |-> None, asking |-> FALSE]

NoClaim == [claim |-> "none", value |-> None]

Init ==
    /\ pos \in Places
    /\ since = {pos}
    /\ owed = FALSE
    /\ call = [c \in Callers |-> NoCall]
    /\ out = [c \in Callers |-> NoClaim]

Call(want, asking) == [open |-> TRUE, want |-> want, asking |-> asking]

(* A call begins; a read wants nothing.                                     *)
Begin(c, want) ==
    /\ ~call[c].open
    /\ call' = [call EXCEPT ![c] = Call(want, FALSE)]
    /\ out' = [out EXCEPT ![c] = NoClaim]
    /\ UNCHANGED <<pos, since, owed>>

(* The call asks for a reading.                                             *)
Ask(c) ==
    /\ call[c].open /\ ~call[c].asking
    /\ since' = IF owed THEN since ELSE {pos}
    /\ call' = [call EXCEPT ![c] = Call(call[c].want, TRUE)]
    /\ UNCHANGED <<pos, owed, out>>

(* The reading is not what a write wants, and is asked for again.           *)
Again(c) ==
    /\ call[c].asking
    /\ call' = [call EXCEPT ![c] = Call(call[c].want, FALSE)]
    /\ UNCHANGED <<pos, since, owed, out>>

Claims(c) ==
    {NoClaim}
    \cup IF call[c].asking
         THEN [claim : {"read"}, value : since]
              \cup [claim : {"verified"}, value : since \cap {call[c].want}]
         ELSE {}

(* A call ends, with a claim its exchange bears out or with none.           *)
Return(c) ==
    /\ call[c].open
    /\ \E claim \in Claims(c) : out' = [out EXCEPT ![c] = claim]
    /\ call' = [call EXCEPT ![c] = NoCall]
    /\ UNCHANGED <<pos, since, owed>>

(* The axis moves.                                                          *)
Move(place) ==
    /\ pos' = place
    /\ since' = since \cup {place}
    /\ UNCHANGED <<owed, call, out>>

(* An answer sets out, or the last of them is there.                        *)
Carry ==
    /\ owed' \in BOOLEAN
    /\ UNCHANGED <<pos, since, call, out>>

Next ==
    \/ \E c \in Callers, want \in Places \cup {None} : Begin(c, want)
    \/ \E c \in Callers : Ask(c) \/ Again(c) \/ Return(c)
    \/ \E place \in Places : Move(place)
    \/ Carry

Spec == Init /\ [][Next]_loopVars

=============================================================================
