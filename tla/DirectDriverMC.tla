--------------------------- MODULE DirectDriverMC ---------------------------
(* Small devices, worlds and values for model-checking DirectDriver.        *)
EXTENDS DirectDriver

Num(n) == [kind |-> "number", of |-> n]
Bool(b) == [kind |-> "boolean", of |-> b]

(* The gripper narrows the lift from above, the lid from below.             *)
Closed == [when_target |-> "gripper", equals |-> Bool(1), min |-> None, max |-> 1]
LidOpen == [when_target |-> "lid", equals |-> Num(2), min |-> 0, max |-> 2]

Limit(rate, conditions, mode) ==
    [min |-> -2, max |-> 3, allowed |-> None, max_rate |-> rate,
     conditions |-> conditions, on_violation |-> mode]

Actuator(mode) == [datatype |-> "number", write_mode |-> mode, default |-> 0]

Device(wmode, rate, conditions, mode) ==
    [actuator |-> Actuator(wmode), limit |-> Limit(rate, conditions, mode),
     safe |-> -3]

Conditional == {<< >>, <<LidOpen, Closed>>}

AllDevices ==
    {Device("absolute", r, c, m) : r \in {None, 2}, c \in Conditional, m \in OnViolation}
      \cup {Device("relative", 1, << >>, m) : m \in OnViolation}

RejectConditional == {Device("absolute", None, <<LidOpen, Closed>>, "reject")}

AllWorlds == {[gripper |-> Bool(w[1]), lid |-> Num(w[2])] : w \in {<<0, 2>>, <<1, 1>>, <<1, 2>>}}

Asked == {Num(n) : n \in {-3, -1, 1, 2, 4}} \cup {Bool(1)}
=============================================================================
